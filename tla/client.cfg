SPECIFICATION Spec
CONSTANTS
  Types = {A, B}
  MaxReqs = 2
  MaxRaws = 1
  MaxInbox = 2
  MaxNoise = 1
  None = None
INVARIANTS CallsExact
PROPERTIES NoDowngrade AnsweredCallEnds
CHECK_DEADLOCK FALSE
