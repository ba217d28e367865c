SPECIFICATION Spec
CONSTANTS
  N <- MCN
  Bound <- MCBound
  Core <- MCCore
  MaxCrashes = 1
  MaxFaults = 1
  MaxWrites = 1
INVARIANTS
  PointBeforeMutation
  VerifiedIsLive
  NativeRunsOwnFormat
  AtMostOneInterrupted
