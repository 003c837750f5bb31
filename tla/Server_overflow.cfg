\* A lifetime in seconds that is too long in nanoseconds: the key gets none at all.
SPECIFICATION Spec
CONSTANTS
  c1 = c1  c2 = c2  None = None
  Conns = {c1, c2}  Setups <- OneLong
  W = 8  Memory = 120  NumShards = 2  ShardOf <- Shards
  Milli = 1  Second = 2  MaxTime = 4
PROPERTY LifetimesAsAsked
CHECK_DEADLOCK FALSE
