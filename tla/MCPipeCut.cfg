\* Once the reader is done and the wrapper has left, nothing is left to do.
CHECK_DEADLOCK FALSE
CONSTANTS
  MaxTokens = 3
  Endpoints <- ResponsesEndpoints
  UpstreamErrors <- MCUpstreamErrors
SPECIFICATION Spec
INVARIANTS
  OkIsWhole
