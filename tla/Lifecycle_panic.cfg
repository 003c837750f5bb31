\* EvictCold is under way, or begins, while Close closes its channel.
SPECIFICATION Spec
CONSTANTS
  Keys = {k1}  Clients = {c1}
  None = None  Any = Any  Torn = Torn
  Kinds = {"embedded"}  TTLs = {0}
  FlushCap = 1
  MaxOps = 1  Step = 1  MaxTime = 1  MaxStarts = 2  MaxCrashes = 0
PROPERTY NeverPanics
CHECK_DEADLOCK FALSE
