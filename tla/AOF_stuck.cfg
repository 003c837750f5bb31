\* A journal of more records than the channel holds; no crash.
SPECIFICATION FairSpec
CONSTANTS
  Size = 1  NewlineAlone = FALSE
  ChanCap = 1  BufSize = 40  ReadSize = 40
  Calm = TRUE  MaxWrites = 2  MaxRewrites = 0  MaxStarts = 2  MaxCrashes = 0
PROPERTY RecoveryEnds
CHECK_DEADLOCK FALSE
