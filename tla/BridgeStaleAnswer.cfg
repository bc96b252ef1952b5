SPECIFICATION Spec
CONSTANTS
  N = 1
  BUFS = 1
  INLINE = 1
  BUF = 2
  MaxCalls = 2
  Shapes <- SmallShapes
  CancelFrom = {"PENDING", "RUNNING", "READY"}
  MayStop = FALSE
INVARIANTS OwnAnswer
