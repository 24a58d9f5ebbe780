SPECIFICATION Spec
CONSTANTS
  None = None
  s1 = s1
  s2 = s2
  i1 = i1
  Keys = {1}
  Snapshots = {}
  Iterators = {i1}
  Programs <- OneKey
  Async = {"idle", "get", "iter", "refresh"}
  MaxSeq = 2
  MaxMem = 2
PROPERTY IteratorsShowAMapThatWas
CHECK_DEADLOCK FALSE
