SPECIFICATION Spec
CONSTANTS
  Callers = {c1, c2}
  MaxInFlight = 2
  PendingBuffer = 1
  SinkCapacity = 1
  MaxInbound = 1
  MaxStalls = 0
  Faults = {"drop", "late", "refuse"}
SYMMETRY Symmetry
INVARIANTS
  TypeOK
  NoOrphan
  OwnReply
  MapsAgree
  WireDiscipline
  TruthfulErrors
