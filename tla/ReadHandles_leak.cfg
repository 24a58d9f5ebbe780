SPECIFICATION FairSpec
CONSTANTS
  DB = DB
  Null = Null
  s1 = s1
  s2 = s2
  r1 = r1
  i1 = i1
  l1 = l1
  m1 = m1
  Snapshots = {s1}
  ReadOpts = {r1}
  Iterators = {i1}
  Slices = {}
  Buffers = {}
  MaxSeq = 1
  Careful <- MCPrecautions
PROPERTY ClosedDbIsFreed
CHECK_DEADLOCK FALSE
