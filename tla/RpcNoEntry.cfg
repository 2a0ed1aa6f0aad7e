SPECIFICATION BoundSpec
CONSTANTS
  Clients = {c1}
  PlainClients = {}
  Workers = {w1, w2}
  c1 = c1
  w1 = w1
  w2 = w2
  MaxXid = 4
  MaxConns = 1
  MaxInc = 1
  Made = 1
  MaxJobs = 2
SYMMETRY WorkerSymmetry
INVARIANTS
  EntryFound
CHECK_DEADLOCK FALSE
