SPECIFICATION Spec
CONSTANTS
  DB = DB
  Null = Null
  s1 = s1
  s2 = s2
  r1 = r1
  i1 = i1
  l1 = l1
  m1 = m1
  Snapshots = {s1, s2}
  ReadOpts = {r1}
  Iterators = {i1}
  Slices = {l1}
  Buffers = {m1}
  MaxSeq = 2
  Careful <- MCPrecautions
SYMMETRY Symmetry
INVARIANT TypeOK
INVARIANT SnapshotFinalizerHasDb
INVARIANT SnapshotListExact
INVARIANT SnapshotsReadable
INVARIANT NothingDangles
INVARIANT ReadsAsOfSnapshot
 
CHECK_DEADLOCK FALSE
