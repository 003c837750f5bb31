\* An EXPIRE between RENAME's look at the lifetime and its removal of the key is lost.
SPECIFICATION Spec
CONSTANTS
  c1 = c1  c2 = c2  None = None
  Conns = {c1, c2}  Setups <- OneRename
  W = 8  Memory = 120  NumShards = 2  ShardOf <- Shards
  Milli = 1  Second = 2  MaxTime = 4
PROPERTY RenameKeepsLifetime
CHECK_DEADLOCK FALSE
