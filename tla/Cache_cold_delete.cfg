\* One client deletes a key that is on its way to the cold store.
SPECIFICATION Spec
CONSTANTS
  t1 = t1  t2 = t2  t3 = t3  k1 = k1  k2 = k2  k3 = k3
  None = None  Empty = Empty
  Threads = {t1}  Keys = {k1}  Workers = {"w"}
  NumShards = 1  ShardOf <- OneShard
  Ops <- SetDel  KeysOf <- AnyKey
  Vals = {1}  TTLs = {0}
  HasCold = TRUE  MaxKeys = 0
  FlushCap = 1  BatchMax = 1  SampleSize = 1  LruSample = 1  MaxPerShard = 1
  ColdThreshold = 0  Tickers = {"cold"}
  MaxOps = 2  MaxTime = 2
INVARIANTS DeletedIsGone
CHECK_DEADLOCK FALSE
