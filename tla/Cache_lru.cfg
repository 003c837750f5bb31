\* One client of a full cache with a cold store that fills and empties by LRU eviction and
\* promotion only.
SPECIFICATION Spec
CONSTANTS
  t1 = t1  t2 = t2  t3 = t3  k1 = k1  k2 = k2  k3 = k3
  None = None  Empty = Empty
  Threads = {t1}  Keys = {k1, k2, k3}  Workers = {}
  NumShards = 2  ShardOf <- OwnShard
  Ops <- Reads  KeysOf <- AnyKey
  Vals = {1, 2}  TTLs = {0}
  HasCold = TRUE  MaxKeys = 2
  FlushCap = 1  BatchMax = 1  SampleSize = 1  LruSample = 2  MaxPerShard = 1
  ColdThreshold = 0  Tickers = {}
  MaxOps = 5  MaxTime = 2
INVARIANTS NothingLost OneHome CountIsExact
CHECK_DEADLOCK FALSE
