SPECIFICATION Spec
CONSTANTS
  a1 = a1
  a2 = a2
  a3 = a3
  b1 = b1
  A = A
  B = B
  Channels = {a1, a2, a3, b1}
  Keys = {A, B}
  keymaker <- MCkeymaker
  channels_per_key = 1
INVARIANTS
  UnderLimit
