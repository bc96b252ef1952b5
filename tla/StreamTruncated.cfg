SPECIFICATION StreamSpec
CONSTANTS
  CAP = 2
  WIDTH = 64
  MaxBytes = 1
  MaxChunk = 1
CHECK_DEADLOCK FALSE
INVARIANTS CleanMeansWhole
