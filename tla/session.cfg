SPECIFICATION Spec
CONSTANTS
  r1 = r1
  r2 = r2
  p1 = p1
  p2 = p2
  Loop = Loop
  Requests <- TwoRequests
  Pushers <- OnePusher
  Capacity = 2
  MaxInflight = 2
  HeaderOnly = FALSE
  DropOnFull = TRUE
  IdleTimeout = TRUE
  RequestTimeout = TRUE
  SameThread = FALSE
INVARIANTS AnsweredOnce SlotsExact OneLateFrame TypedAndFlushed
PROPERTIES IdleEnds EndIsObserved TasksEnd
CHECK_DEADLOCK FALSE
