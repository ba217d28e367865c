SPECIFICATION AppSpec
CONSTANTS
    Backups = {b1, b2}
    Declared = {"sql", "secrets", "objects"}
    Selections <- MCSelections
    Kept = {b1}
    MaxWrites = 2
    MaxBreaks = 1
INVARIANTS ArchiveOfOneInstant RestoreIsWhole ServiceReturns
CHECK_DEADLOCK FALSE
