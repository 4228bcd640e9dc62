SPECIFICATION MCSpec
CONSTANTS
  s0 = s0
  s1 = s1
  c1 = c1
  c2 = c2
  First = s0
  None = None
  Shards <- TwoShards
  Conns <- TwoConns
  MaxConns = 2
  IdSpace = 2
INVARIANTS CleanupExact SlotsExact NothingOutlivesListen
PROPERTIES ServerStops DueIsPolled
CHECK_DEADLOCK FALSE
