SPECIFICATION Spec
CONSTANTS
  Tokens = {t1, t2, t3}
  Requests = {r1, r2}
  MaxSerial = 3
CHECK_DEADLOCK FALSE
INVARIANTS
  CertificatesAccounted
  RenewalsFormAChain
PROPERTIES
  ImplementsRegistry
