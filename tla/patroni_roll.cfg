SPECIFICATION RollFairSpec
INVARIANTS
  RollTypeOK
  EvidencePredatesRoll
  JournalAgrees
  RollInOrder
PROPERTIES
  ResumableCompletes
