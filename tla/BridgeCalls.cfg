SPECIFICATION Spec
CONSTANTS
  N = 2
  BUFS = 1
  INLINE = 1
  BUF = 2
  MaxCalls = 3
  Shapes <- CallShapes
  CancelFrom = {"RUNNING", "READY"}
  MayStop = FALSE
INVARIANTS TypeOK ResPoolExact AnswersAreOwn
PROPERTIES WorkerIsNotMisled
