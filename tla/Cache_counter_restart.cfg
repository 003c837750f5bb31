\* Two clients increment one counter.
SPECIFICATION Spec
CONSTANTS
  t1 = t1  t2 = t2  t3 = t3  k1 = k1  k2 = k2  k3 = k3
  None = None  Empty = Empty
  Threads = {t1, t2}  Keys = {k1}  Workers = {}
  NumShards = 1  ShardOf <- OneShard
  Ops <- IncrOnly  KeysOf <- AnyKey
  Vals = {1}  TTLs = {0}
  HasCold = FALSE  MaxKeys = 0
  FlushCap = 1  BatchMax = 1  SampleSize = 1  LruSample = 1  MaxPerShard = 1
  ColdThreshold = 0  Tickers = {}
  MaxOps = 1  MaxTime = 1
INVARIANTS JournalAgrees
CHECK_DEADLOCK FALSE
