\* Two lives, two crashes; the journal fits the buffers and the channel.
SPECIFICATION FairSpec
CONSTANTS
  Size = 2  NewlineAlone = FALSE
  ChanCap = 4  BufSize = 40  ReadSize = 40
  Calm = TRUE  MaxWrites = 2  MaxRewrites = 1  MaxStarts = 2  MaxCrashes = 2
INVARIANTS NothingRewinds
PROPERTY JournalIsDurable BufferIsSynced RecoveryEnds
CHECK_DEADLOCK FALSE
