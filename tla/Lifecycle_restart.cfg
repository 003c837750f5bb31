\* The embedded database and the command; two lives, a crash at any step of either.
SPECIFICATION FairSpec
CONSTANTS
  Keys = {k1}  Clients = {c1}
  None = None  Any = Any  Torn = Torn
  Kinds = {"embedded", "command"}  TTLs = {0, 1}
  FlushCap = 1
  MaxOps = 2  Step = 2  MaxTime = 3  MaxStarts = 2  MaxCrashes = 1
INVARIANTS TypeOK RestoredIsLast CloseKeeps
PROPERTY CloseReturns CallsReturn
CHECK_DEADLOCK FALSE
