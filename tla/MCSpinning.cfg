CONSTANTS
  Parts = {"rwlock", "striped", "spsc"}
  Threads = {t1, t2, t3}
  WLOCK = 255
  k1 = k1
  k2 = k2
  k3 = k3
  Keys = {k1, k2, k3}
  hash_func_ <- MCHash
  stripes_ = 2
  Values = {v1, v2}
  Raw = Raw
  requested = 2
  MaxPushes = 5
SPECIFICATION SpinningSpec
INVARIANTS Exclusion UnlockKnowsItsCaller StripeExclusion SpscQueueIntact
PROPERTY SpinnersGetIn
