\* Eleven pairs of clients; what the first one sends may arrive byte by byte.
SPECIFICATION Spec
CONSTANTS
  c1 = c1  c2 = c2  None = None
  Conns = {c1, c2}  Setups <- AllSetups
  W = 8  Memory = 120  NumShards = 2  ShardOf <- Shards
  Milli = 1  Second = 2  MaxTime = 4
INVARIANTS ParsedAsSent RepliesFramed AuthFirst EachAnswered
PROPERTY LifetimesAsAsked
CHECK_DEADLOCK FALSE
