\* A client sets keys with and without TTL, deletes and flushes; both keys are in the second of two
\* shards and the janitor expires at most one key of a shard in a tick.  It moves idle keys to the
\* channel, from which two workers take them to the cold store.
SPECIFICATION FairSpec
CONSTANTS
  t1 = t1  t2 = t2  t3 = t3  k1 = k1  k2 = k2  k3 = k3
  None = None  Empty = Empty
  Threads = {t1}  Keys = {k1, k2}  Workers = {"w1", "w2"}
  NumShards = 2  ShardOf <- LastShard
  Ops <- SetDelFlush  KeysOf <- AnyKey
  Vals = {1}  TTLs = {0, 1}
  HasCold = TRUE  MaxKeys = 0
  FlushCap = 2  BatchMax = 2  SampleSize = 2  LruSample = 1  MaxPerShard = 1
  ColdThreshold = 1  Tickers = {"ttl", "cold"}
  MaxOps = 2  MaxTime = 3
PROPERTY ExpiredReclaimed InFlightReachesCold
VIEW NoJournal
CHECK_DEADLOCK FALSE
