\* A crash that loses the last newline only.
SPECIFICATION Spec
CONSTANTS
  Size = 2  NewlineAlone = TRUE
  ChanCap = 2  BufSize = 40  ReadSize = 40
  Calm = TRUE  MaxWrites = 2  MaxRewrites = 0  MaxStarts = 3  MaxCrashes = 1
INVARIANTS NothingRewinds
CHECK_DEADLOCK FALSE
