\* Two clients, TTLs, a limit of one key, the cold store, the janitor and a worker.
SPECIFICATION Spec
CONSTANTS
  t1 = t1  t2 = t2  t3 = t3  k1 = k1  k2 = k2  k3 = k3
  None = None  Empty = Empty
  Threads = {t1, t2}  Keys = {k1, k2}  Workers = {"w"}
  NumShards = 2  ShardOf <- OwnShard
  Ops <- MixedCounted  KeysOf <- AnyKey
  Vals = {1}  TTLs = {0}
  HasCold = TRUE  MaxKeys = 1
  FlushCap = 1  BatchMax = 1  SampleSize = 1  LruSample = 1  MaxPerShard = 1
  ColdThreshold = 0  Tickers = {"ttl", "cold"}
  MaxOps = 2  MaxTime = 2
INVARIANTS TypeOK CountCoversKeys
VIEW CountView
CHECK_DEADLOCK FALSE
