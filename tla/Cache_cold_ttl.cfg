\* One client reads a key with a TTL back from the cold store.
SPECIFICATION Spec
CONSTANTS
  t1 = t1  t2 = t2  t3 = t3  k1 = k1  k2 = k2  k3 = k3
  None = None  Empty = Empty
  Threads = {t1}  Keys = {k1, k2}  Workers = {}
  NumShards = 1  ShardOf <- OneShard
  Ops <- SetGet  KeysOf <- AnyKey
  Vals = {1}  TTLs = {1}
  HasCold = TRUE  MaxKeys = 1
  FlushCap = 1  BatchMax = 1  SampleSize = 1  LruSample = 1  MaxPerShard = 1
  ColdThreshold = 0  Tickers = {}
  MaxOps = 3  MaxTime = 3
INVARIANTS TTLKept
CHECK_DEADLOCK FALSE
