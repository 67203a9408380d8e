CONSTANTS
  Parts = {"coroutines", "files", "timers", "kv", "sockets"}
  DEFAULT_COROUTINE = 2
  MaxCreated = 4
  MaxDepth = 2
  NULL = null
  setsize = 2
  Procs = {p, q}
  Delays = {600, 1000}
  MaxTimers = 2
  Ticks = {700}
  MaxTime = 4400
  MaxBacks = 1
  StartTime = 2300
  IntMax = 100000
  KvClients = {1, 2}
  ClientKinds = {"library", "any"}
  DbFails = TRUE
SPECIFICATION LoopsSpec
INVARIANTS SchedulerIntact 
PROPERTIES IdsAreStable LoopCallsWhatIsDue 
CHECK_DEADLOCK FALSE
