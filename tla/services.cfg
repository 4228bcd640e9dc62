SPECIFICATION AllSpec
CONSTANTS
  Threads = {t1, t2}
  Texts <- MCTexts
  Pattern <- MCPattern
  Limit = 2
  MaxTime = 1
  MaxEvents = 3
  Conns = {c1, c2}
  Keys = {k1, k2}
  Topics = {u1, u2}
  Capacity = 1
  MaxSubs = 2
  MaxCalls = 2
  MaxPublish = 2
  Jobs = {j1, j2}
  Periods = {1, 2}
  MaxBodies = 2
  None = None
INVARIANTS StoreExact SubscriptionsExact ChangeTakesEffect
PROPERTIES NewestIsKept DeadArePurged JobsGoOn
CHECK_DEADLOCK FALSE
