\* A value without expiry time, then one with; a restart after it has expired.
SPECIFICATION Spec
CONSTANTS
  Keys = {k1}  Clients = {c1}
  None = None  Any = Any  Torn = Torn
  Kinds = {"embedded"}  TTLs = {0, 1}
  FlushCap = 1
  MaxOps = 2  Step = 1  MaxTime = 4  MaxStarts = 2  MaxCrashes = 0
INVARIANTS ExpiredIsGone
CHECK_DEADLOCK FALSE
