SPECIFICATION Spec
CONSTANTS
  MaxHandle = 5  MaxCalls = 3
  Paths <- TwoPaths  CAP = 2  ShortWrites = FALSE  MaxOpening = 2  FileCalls = 3
  MaxWorlds = 3
CHECK_DEADLOCK FALSE
INVARIANTS NothingIsLost BytesAreInOnePlace ChildGetsNoMore
PROPERTIES FilesAreAccounted ImplementsHandleSpace ClosedChildAnswers
