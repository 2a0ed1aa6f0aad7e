SPECIFICATION FairSpec
CONSTANTS
  c1 = c1
  c2 = c2
  t1 = t1
  t2 = t2
  t3 = t3
  Clients = {c1, c2}
  Threads = {t1, t2, t3}
  ClientOf <- SharedClient
  Workers = {w1, w2, w3}
  w1 = w1
  w2 = w2
  w3 = w3
  Locks = {l1}
  l1 = l1
  NoClient = NoClient
  NoThread = NoThread
INVARIANTS
  MutualExclusion
  LockInv
  NoLeak
PROPERTIES
  ReleaseServed
  SomeoneGetsIt
CHECK_DEADLOCK FALSE
