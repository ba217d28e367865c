CHECK_DEADLOCK FALSE
SPECIFICATION FairSpec
CONSTANTS
  i1 = i1
  i2 = i2
  i3 = i3
  Ids <- MCIds
  Requests <- MCRequests
  ExecutorSets <- MCExecutorSets
  NoId = NoId
  MaxCrashes = 2
  MaxFaults = 1
INVARIANTS
  AckedIsDurable
  DeleteSettlesItsCreate
PROPERTIES
  AnswersAgree
  ImplementsLedger
  AckedSettles
