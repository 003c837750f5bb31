\* A SET with XX and a DEL: the key is gone when SET writes it.
SPECIFICATION Spec
CONSTANTS
  c1 = c1  c2 = c2  None = None
  Conns = {c1, c2}  Setups <- OneXX
  W = 8  Memory = 120  NumShards = 2  ShardOf <- Shards
  Milli = 1  Second = 2  MaxTime = 4
PROPERTY XXKeepsToExisting
CHECK_DEADLOCK FALSE
