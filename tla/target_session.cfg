SPECIFICATION FairSpec
CONSTANTS
  Serials = {1}
  Sessions = {s1, s2}
  Callers = {c1, c2}
  Capacity = 1
  MaxCalls = 2
  LastEvent = 3
  Backlog = 1
CHECK_DEADLOCK FALSE
INVARIANTS
  ExchangesApart
PROPERTIES
  AnswerOrRetire
  NothingHangs
