CONSTANTS
  Parts = {"kv"}
  DEFAULT_COROUTINE = 2
  MaxCreated = 4
  MaxDepth = 2
  NULL = null
  setsize = 2
  Procs = {p, q}
  Delays = {600, 1000}
  MaxTimers = 1
  Ticks = {700}
  MaxTime = 4400
  MaxBacks = 0
  StartTime = 2300
  IntMax = 100000
  KvClients = {1}
  ClientKinds = {"any"}
  DbFails = FALSE
SPECIFICATION KvSpec
PROPERTY KvEveryRequestAnswered
CHECK_DEADLOCK FALSE
