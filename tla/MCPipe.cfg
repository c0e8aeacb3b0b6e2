\* Once the reader is done and the wrapper has left, nothing is left to do.
CHECK_DEADLOCK FALSE
CONSTANTS
  MaxTokens = 3
  Endpoints <- AllEndpoints
  UpstreamErrors <- MCUpstreamErrors
SPECIFICATION Spec
INVARIANTS
  PipeTypeOK
  NoTokenLost
  ChatOkIsWhole
  NoFalseBlame
  NoFalseCancel
PROPERTIES
  ImplementsContract
  GoroutinesReleased
  OnlyClientBlocks
