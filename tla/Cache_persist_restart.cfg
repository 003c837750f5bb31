\* One client sets a key with a TTL and makes it persistent.
SPECIFICATION Spec
CONSTANTS
  t1 = t1  t2 = t2  t3 = t3  k1 = k1  k2 = k2  k3 = k3
  None = None  Empty = Empty
  Threads = {t1}  Keys = {k1}  Workers = {}
  NumShards = 1  ShardOf <- OneShard
  Ops <- SetPersist  KeysOf <- AnyKey
  Vals = {1}  TTLs = {1}
  HasCold = FALSE  MaxKeys = 0
  FlushCap = 1  BatchMax = 1  SampleSize = 1  LruSample = 1  MaxPerShard = 1
  ColdThreshold = 0  Tickers = {}
  MaxOps = 2  MaxTime = 3
INVARIANTS EternalIsKept
CHECK_DEADLOCK FALSE
