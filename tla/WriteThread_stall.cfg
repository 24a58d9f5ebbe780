SPECIFICATION Spec
CONSTANTS
  None = None
  w1 = w1
  w2 = w2
  w3 = w3
  w4 = w4
  Writers = {w1, w2, w3, w4}
  Mixes <- Impatience
  Careful = FALSE
  MaxStalls = 1
  MaxFails = 0
  MaxCrashes = 0
INVARIANT LinkedRight
CHECK_DEADLOCK FALSE
