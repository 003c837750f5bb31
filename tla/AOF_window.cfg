\* Records arrive between the copy of the rewrite buffer and the rename; no crash.
SPECIFICATION Spec
CONSTANTS
  Size = 1  NewlineAlone = FALSE
  ChanCap = 2  BufSize = 40  ReadSize = 40
  Calm = FALSE  MaxWrites = 2  MaxRewrites = 1  MaxStarts = 2  MaxCrashes = 0
INVARIANTS NothingRewinds
CHECK_DEADLOCK FALSE
