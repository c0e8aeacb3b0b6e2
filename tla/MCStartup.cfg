\* A process that has exited stays so.
CHECK_DEADLOCK FALSE
CONSTANTS
  Unset = Unset
  Default <- MCDefault
  Scale = 10
  RetryAfters = {0, 7}
  Files <- MCFiles
SPECIFICATION Spec
INVARIANTS
  StartupTypeOK
  PolicyAsWritten
  BackoffInBounds
  ReadyMeansBackend
