\* Once main has exited nothing is left to do.
CHECK_DEADLOCK FALSE
CONSTANTS
  h1 = h1
  h2 = h2
  h3 = h3
  h4 = h4
  Streams <- MCStreams
  Singles <- MCSingles
  Grace = 4
  MinWindow = 1
  MaxShutdown = 2
  MaxFlush = 2
SPECIFICATION ShutdownSpec
INVARIANTS
  CountExact
  DrainedIsFinal
  ShutdownTypeOK
  UnreadyBeforeRefusing
  NoStreamCutEarly
  ExitInTime
PROPERTIES
  ImplementsGate
  ShutdownEnds
