SPECIFICATION Spec
CONSTANTS
  w1 = w1
  w2 = w2
  b1 = b1
  b2 = b2
  o1 = o1
  x = x
  Writes = {w1, w2}
  Batches = {b1, b2}
  Options = {o1}
  Ops = {x}
  Threads = 2
  MaxOps = 1
  MaxSync = 1
  Careful <- MCPrecautions
SYMMETRY Symmetry
INVARIANT TypeOK
INVARIANT PromiseOutlivesWork
INVARIANT ArgumentsOutliveWork
INVARIANT NoWriteOnClosedDb
 
 
PROPERTY SettlesOnce
CHECK_DEADLOCK FALSE
