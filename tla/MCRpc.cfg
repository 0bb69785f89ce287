SPECIFICATION MCSpec
CONSTANTS
  Callers = {c1}
  MaxInFlight = 1
  PendingBuffer = 1
  SinkCapacity = 1
  MaxInbound = 1
  MaxStalls = 0
  Faults = {"drop", "late", "refuse", "eof"}
  ResponseBuffer = 1
  Limit = 1
  ServerFaults = {"cancel", "late", "refuse", "eof", "stop"}
PROPERTIES
  KeepsPromise
  GivenUpStops
  AnswersArrive
