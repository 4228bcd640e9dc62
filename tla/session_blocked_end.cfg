SPECIFICATION Spec
CONSTANTS
  r1 = r1
  r2 = r2
  p1 = p1
  p2 = p2
  Loop = Loop
  Requests <- OneRequest
  Pushers <- OnePusher
  Capacity = 2
  MaxInflight = 2
  HeaderOnly = FALSE
  DropOnFull = TRUE
  IdleTimeout = FALSE
  RequestTimeout = TRUE
  SameThread = FALSE
PROPERTY EndIsObserved
CHECK_DEADLOCK FALSE
