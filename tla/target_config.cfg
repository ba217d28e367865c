SPECIFICATION Spec
CONSTANTS
  Names = {a, b}
  Local = a
  Definitions = {d1, d2}
  Commands = {c1, c2}
  MaxCommands = 5
  None = None
  Detached = Detached
CHECK_DEADLOCK FALSE
INVARIANTS
  DetachedIsRecoverable
PROPERTIES
  OthersPreserved
  NoSilentHandoff
