SPECIFICATION Spec
CONSTANTS
  Callers = {c1, c2}
  MaxInFlight = 1
  PendingBuffer = 1
  SinkCapacity = 1
  MaxInbound = 1
  MaxStalls = 1
  Faults = {"drop", "refuse", "eof", "break", "abandon"}
SYMMETRY Symmetry
INVARIANTS
  InFlightBounded
  NoLostWakeup
CHECK_DEADLOCK FALSE
