SPECIFICATION Spec
CONSTANTS
  Keys = {k1}
  MaxCred = 3
PROPERTY RetireVerified
CHECK_DEADLOCK FALSE
