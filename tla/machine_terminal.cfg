SPECIFICATION TerminalFairSpec
CONSTANTS
  Terminals = {1, 2}
  Used = {1}
  Actors = {a1}
  Requests = {q1, q2}
  MaxTotal = 2
  MaxPerActor = 1
  MaxInput = 2
CHECK_DEADLOCK FALSE
INVARIANTS
  TerminalSafety
PROPERTIES
  TerminalsEnd
