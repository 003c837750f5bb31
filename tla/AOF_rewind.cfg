\* A crash while the records of a recovery are on their way back.
SPECIFICATION Spec
CONSTANTS
  Size = 1  NewlineAlone = FALSE
  ChanCap = 2  BufSize = 40  ReadSize = 40
  Calm = TRUE  MaxWrites = 2  MaxRewrites = 0  MaxStarts = 3  MaxCrashes = 1
INVARIANTS NothingRewinds
CHECK_DEADLOCK FALSE
