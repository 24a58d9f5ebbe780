SPECIFICATION Spec
CONSTANTS
  None = None
  s1 = s1
  s2 = s2
  i1 = i1
  Keys = {1, 2}
  Snapshots = {s1}
  Iterators = {i1}
  Programs <- TwoKeys
  Async = {"idle", "get"}
  MaxSeq = 2
  MaxMem = 3
PROPERTY ImplementsKVStore
CHECK_DEADLOCK FALSE
