SPECIFICATION LiveSpec
CONSTANTS
  N = 2
  BUFS = 1
  INLINE = 1
  BUF = 2
  MaxCalls = 2
  Shapes <- StopShapes
  CancelFrom = {"PENDING", "RUNNING", "READY"}
  MayStop = TRUE
CHECK_DEADLOCK FALSE
INVARIANTS ReqPoolExact NoSlotStranded
PROPERTIES EveryParkEnds
