\* TTL in the last second of a key's life.
SPECIFICATION Spec
CONSTANTS
  c1 = c1  c2 = c2  None = None
  Conns = {c1, c2}  Setups <- OneShort
  W = 8  Memory = 120  NumShards = 2  ShardOf <- Shards
  Milli = 1  Second = 2  MaxTime = 4
INVARIANT TTLIsPositive
CHECK_DEADLOCK FALSE
