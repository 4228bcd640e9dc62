SPECIFICATION AtomicsSpec
CONSTANTS
  Threads = {t1, t2, t3, t4}
  Cap = 2
  Threshold = 2
  None = None
  Waiters = {w1, w2, w3}
  Cancellers = {c1, c2}
INVARIANTS HoldersWithinCap CounterExact WarnedExactlyOnce NoMissedCancel
PROPERTIES AllResolve
CHECK_DEADLOCK FALSE
