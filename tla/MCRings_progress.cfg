CONSTANTS
  Parts = {"mpmc", "pool", "rte"}
  w1 = w1
  w2 = w2
  p1 = p1
  p2 = p2
  Producers = {p1, p2, owner}
  Consumers = {w1, w2}
  Owner = owner
  side <- MCSide
  Values = {v1}
  Raw = Raw
  capacity_ = 1
  MaxTickets = 3
  RteProducers = {r1, r2}
  RteConsumers = {s1}
  RteMaxObjects = 2
  RefusableBulk = FALSE
  QueueLimit = 4
  NULL = null
SPECIFICATION RingsFairSpec
PROPERTIES PoolEveryTaskRuns RingsDeliver
CHECK_DEADLOCK FALSE
