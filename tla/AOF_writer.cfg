\* One life of the process, records of three pieces, a buffer that cuts them.
SPECIFICATION Spec
CONSTANTS
  Size = 3  NewlineAlone = FALSE
  ChanCap = 2  BufSize = 4  ReadSize = 4
  Calm = TRUE  MaxWrites = 4  MaxRewrites = 1  MaxStarts = 1  MaxCrashes = 1
INVARIANTS TypeOK
PROPERTY JournalIsDurable
CHECK_DEADLOCK FALSE
