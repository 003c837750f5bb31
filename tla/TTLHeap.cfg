\* Six items, the least with which taking one out can move another up.
SPECIFICATION Spec
CONSTANTS
  Keys = {k1, k2, k3, k4, k5, k6}  None = None
  MaxPerShard = 2  TTLs = {0, 1, 2}  MaxTime = 2
SYMMETRY Symmetry
INVARIANTS IndexExact HeapOrdered
PROPERTY ImplementsTTLSet
CHECK_DEADLOCK FALSE
