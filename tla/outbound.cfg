SPECIFICATION Spec
CONSTANTS
  t1 = t1
  t2 = t2
  h1 = h1
  h2 = h2
  w1 = w1
  w2 = w2
  a = a
  b = b
  None = None
  Threads <- MCThreads
  Handles <- MCHandles
  Wakers <- MCWakers
  Values <- MCValues
  Capacity = 2
  MaxSends = 3
INVARIANTS NoLostWakeup
PROPERTIES ImplementsChannel
CHECK_DEADLOCK FALSE
