SPECIFICATION Spec
CONSTANTS
  Clients = {c1}
  PlainClients = {}
  Workers = {w1, w2}
  c1 = c1
  w1 = w1
  w2 = w2
  MaxXid = 2
  MaxConns = 2
  MaxInc = 2
  Made = 1
  MaxJobs = 2
SYMMETRY WorkerSymmetry
ACTION_CONSTRAINT LateRegistration
INVARIANTS
  AtMostOnce
  AtMostOnceInv
  OkMeansExecuted
  OldSrvTruth
PROPERTIES
  ImplementsRemoteCall
CHECK_DEADLOCK FALSE
