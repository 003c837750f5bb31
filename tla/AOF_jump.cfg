\* A journal larger than the buffers; no crash.
SPECIFICATION Spec
CONSTANTS
  Size = 2  NewlineAlone = FALSE
  ChanCap = 2  BufSize = 3  ReadSize = 3
  Calm = TRUE  MaxWrites = 5  MaxRewrites = 0  MaxStarts = 2  MaxCrashes = 0
INVARIANTS NothingRewinds
CHECK_DEADLOCK FALSE
