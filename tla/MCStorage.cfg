CONSTANTS
  Parts = {"cache", "disk", "lru", "table", "lz4", "xxhash", "utility"}
  f1 = f1
  f2 = f2
  f3 = f3
  Frames = {f1, f2, f3}
  Values = {f1, f2, f3}
  Pages_ <- MCPages
  Keys = {0, 2}
  Addresses = {e1, e2, e3}
  NULL = null
  capacity_ = 1
  MaxHandles = 1
  Contents = {a, b}
  Zero = zero
  Garbage = garbage
  Clients = {{}, {"read", "flush"}, {"delete"}}
  PageIds = {0, 1, 524284}
  Kept = kept
  Buffers = {b1, b2}
  MaxAppends = 2
  e4 = e4
  small = small
  big = big
  noClass = noClass
SPECIFICATION StorageSpec
SYMMETRY Symmetry
INVARIANTS FramesIntact CarefulReadBack DiskReadsWhatWasWritten CacheConsistent 
PROPERTIES  HandlesStayGood TableActsAsMap
CHECK_DEADLOCK FALSE
