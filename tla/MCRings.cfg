CONSTANTS
  Parts = {"mpmc", "pool", "rte", "queue", "tokens", "limit", "short", "freelist", "producers", "crowd"}
  w1 = w1
  w2 = w2
  p1 = p1
  p2 = p2
  Producers = {p1, p2, owner}
  Consumers = {w1, w2}
  Owner = owner
  side <- MCSide
  Values = {v1, v2}
  Raw = Raw
  capacity_ = 2
  MaxTickets = 3
  RteProducers = {v1, v2}
  RteConsumers = {s1, s2}
  RteMaxObjects = 3
  RefusableBulk = FALSE
  QueueLimit = 4
  NULL = null
SPECIFICATION RingsSpec
SYMMETRY Symmetry
INVARIANTS SlotExclusion FifoDelivery TasksRunOnce RteBatchesIntact 
PROPERTIES FullWasFull RteRefusedRightly ImplementsFifo
CHECK_DEADLOCK FALSE
