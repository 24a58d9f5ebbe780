SPECIFICATION FairSpec
CONSTANTS
  None = None
  w1 = w1
  w2 = w2
  w3 = w3
  w4 = w4
  Writers = {w1, w2, w3}
  Mixes <- MCMixes
  Careful = TRUE
  MaxStalls = 1
  MaxFails = 1
  MaxCrashes = 1
INVARIANT TypeOK
INVARIANT OneLeader
INVARIANT NothingFreed
INVARIANT LinkedRight
INVARIANT NumbersUnique
INVARIANT DivergenceStops
INVARIANT OkIsKept
PROPERTY EveryWriterLeaves
CHECK_DEADLOCK FALSE
