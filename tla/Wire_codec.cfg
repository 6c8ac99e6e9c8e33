SPECIFICATION Spec
CONSTANTS
  Values <- SomeValues
  Levels = 4
  Base = 32
  MaxDepth = 3
  MaxPayload = 16
  CharMax = 24
  Surrogates = {10, 11}
  Kinds = {0, 1, 13, 14}
  Noise = {0, 1, 2, 5, 8, 14, 31}
CHECK_DEADLOCK FALSE
INVARIANTS
  RoundTrip
  Canonical
