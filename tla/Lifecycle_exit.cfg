\* A signal to the command, and no crash.
SPECIFICATION Spec
CONSTANTS
  Keys = {k1}  Clients = {c1}
  None = None  Any = Any  Torn = Torn
  Kinds = {"command"}  TTLs = {0}
  FlushCap = 1
  MaxOps = 1  Step = 1  MaxTime = 1  MaxStarts = 2  MaxCrashes = 0
INVARIANTS GracefulKeeps
CHECK_DEADLOCK FALSE
