SPECIFICATION FairSpec
CONSTANTS
  Followers = {f1, f2}
  MaxEvents = 2
  Buffer = 1
  MaxProgress = 2
  MaxFollows = 2
CHECK_DEADLOCK FALSE
INVARIANTS
  TypeOK
  StreamsAreFaithful
PROPERTIES
  OutcomeArrives
