\* Two clients of a full cache, each with a key of its own: one evicts the other's key between
\* its set in RAM and its delete in the cold store, and what was set is in neither.
SPECIFICATION Spec
CONSTANTS
  t1 = t1  t2 = t2  t3 = t3  k1 = k1  k2 = k2  k3 = k3
  None = None  Empty = Empty
  Threads = {t1, t2}  Keys = {k1, k2}  Workers = {}
  NumShards = 2  ShardOf <- OwnShard
  Ops <- SetGet  KeysOf <- OneEach
  Vals = {1, 2}  TTLs = {0}
  HasCold = TRUE  MaxKeys = 1
  FlushCap = 1  BatchMax = 1  SampleSize = 1  LruSample = 2  MaxPerShard = 1
  ColdThreshold = 0  Tickers = {}
  MaxOps = 2  MaxTime = 2
INVARIANTS NothingLost
CHECK_DEADLOCK FALSE
