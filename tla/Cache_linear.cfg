\* Two clients on one key, TTLs, the clock and the janitor; no cold store, no limit.
SPECIFICATION Spec
CONSTANTS
  t1 = t1  t2 = t2  t3 = t3  k1 = k1  k2 = k2  k3 = k3
  None = None  Empty = Empty
  Threads = {t1, t2}  Keys = {k1}  Workers = {}
  NumShards = 1  ShardOf <- OneShard
  Ops <- AllRam  KeysOf <- AnyKey
  Vals = {1, Empty}  TTLs = {0, 1}
  HasCold = FALSE  MaxKeys = 0
  FlushCap = 1  BatchMax = 1  SampleSize = 1  LruSample = 1  MaxPerShard = 1
  ColdThreshold = 0  Tickers = {"ttl"}
  MaxOps = 2  MaxTime = 3
INVARIANTS TypeOK CountCoversKeys
PROPERTY Linearizable
VIEW RamView
CHECK_DEADLOCK FALSE
