SPECIFICATION Spec
CONSTANTS
  w1 = w1
  w2 = w2
  b1 = b1
  b2 = b2
  o1 = o1
  x = x
  Writes = {w1}
  Batches = {b1}
  Options = {o1}
  Ops = {x}
  Threads = 2
  MaxOps = 1
  MaxSync = 1
  Careful <- NoAwait
INVARIANT NoWriteOnClosedDb
CHECK_DEADLOCK FALSE
