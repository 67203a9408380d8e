CONSTANTS
  Parts = {"group"}
  Threads = {t1, t2, t3, t4, t5}
  MAX_READERS = 4
  PoolWorkers = {w1, w2}
  Owner = owner
  MaxTasks = 4
  Workers = {a, b, c}
  Waiters = {m, n}
  Users = {1, 2, 3}
  userDataNum = 2
  NULL = null
SPECIFICATION MonitorsSpec
PROPERTY GroupWaitReturns
CHECK_DEADLOCK FALSE
