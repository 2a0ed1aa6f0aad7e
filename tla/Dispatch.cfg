SPECIFICATION Spec
CONSTANTS
  Workers = {w1, w2}
  MaxXid = 3
  MaxConns = 3
  MaxWork = 4
SYMMETRY WorkerSymmetry
INVARIANTS
  TypeOK
  RefsExact
  BuffersOwned
  SentIfWaited
  WindowIsExact
  CleanExit
CHECK_DEADLOCK FALSE
