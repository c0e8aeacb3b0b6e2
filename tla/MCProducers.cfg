\* A producer that has left does nothing more.
CHECK_DEADLOCK FALSE
CONSTANTS
  a = a
  b = b
  Letters = {a, b}
  MaxText = 4
  MaxEvents = 4
SPECIFICATION Spec
INVARIANTS
  ProducersTypeOK
  StreamIntact
  ErrorNoticed
