SPECIFICATION MCSpec
CONSTANTS
  Callers = {c1, c2, c3}
  Ids = {0, 1}
  ResponseBuffer = 1
  Limit = 2
  SinkCapacity = 1
  MaxStalls = 0
  Faults = {"cancel", "reuse", "drop"}
SYMMETRY Symmetry
INVARIANTS
  NoOrphan
  Nested
  Carried
  CamelCase
  Generated
