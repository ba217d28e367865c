SPECIFICATION FairSpec
CONSTANTS
  Keys = {k1}
  MaxCred = 3
CHECK_DEADLOCK FALSE
INVARIANTS
  TypeOK
  PathKept
  VerifiedIsLive
PROPERTIES
  RetriesComplete
