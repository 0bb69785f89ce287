SPECIFICATION Spec
CONSTANTS
  Callers = {c1, c2}
  MaxInFlight = 1
  PendingBuffer = 1
  SinkCapacity = 1
  MaxInbound = 0
  MaxStalls = 0
  Faults = {"eof"}
SYMMETRY Symmetry
INVARIANTS
  OneshotCanceledAtEnd
CHECK_DEADLOCK FALSE
