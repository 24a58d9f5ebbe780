SPECIFICATION Spec
CONSTANTS
  None = None
  s1 = s1
  s2 = s2
  i1 = i1
  Keys = {1}
  Snapshots = {s1, s2}
  Iterators = {}
  Programs <- OneKey
  Async = {}
  MaxSeq = 3
  MaxMem = 3
SYMMETRY Symmetry
INVARIANT TypeOK
INVARIANT LevelsOrdered
INVARIANT NoDeletionGetsZero
PROPERTY ImplementsKVStore
CHECK_DEADLOCK FALSE
