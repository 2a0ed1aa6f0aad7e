SPECIFICATION FairSpec
CONSTANTS
  w1 = w1
  w2 = w2
  j1 = j1
  j2 = j2
  j3 = j3
  j4 = j4
  Workers = {w1, w2}
  Jobs = {j1, j2, j3, j4}
  MaxQueue = 2
  Destructor = Destructor
  Pill = Pill
INVARIANTS
  TypeOK
  Accounted
  NoLostWakeup
  ShutdownComplete
PROPERTIES
  JobsRun
  DestructorReturns
CHECK_DEADLOCK FALSE
