\* Two clients delete one key: both are told that they did.
SPECIFICATION Spec
CONSTANTS
  c1 = c1  c2 = c2  None = None
  Conns = {c1, c2}  Setups <- OneDeletes
  W = 8  Memory = 120  NumShards = 2  ShardOf <- Shards
  Milli = 1  Second = 2  MaxTime = 4
PROPERTY CountedIsDeleted
CHECK_DEADLOCK FALSE
