SPECIFICATION Spec
CONSTANTS
  Callers = {c1, c2}
  Ids = {0, 1}
  ResponseBuffer = 1
  Limit = 1
  SinkCapacity = 1
  MaxStalls = 1
  Faults = {"cancel", "late", "drop", "refuse", "eof", "break", "stop"}
SYMMETRY Symmetry
INVARIANTS
  TypeOK
  NoOrphan
  NoRunaway
  OneAnswer
  LimitsHold
  GracefulEnd
  NoLostWakeup
