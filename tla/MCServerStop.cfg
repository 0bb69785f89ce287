SPECIFICATION FairSpec
CONSTANTS
  Callers = {c1, c2}
  Ids = {0, 1}
  ResponseBuffer = 1
  Limit = 2
  SinkCapacity = 1
  MaxStalls = 0
  Faults = {"late", "refuse", "eof", "reuse"}
PROPERTIES
  HandlersStop
  StreamEnds
