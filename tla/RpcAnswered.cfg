SPECIFICATION FairBoundSpec
CONSTANTS
  Clients = {c1, p1}
  PlainClients = {p1}
  Workers = {w1}
  c1 = c1
  p1 = p1
  w1 = w1
  MaxXid = 4
  MaxConns = 1
  MaxInc = 1
  Made = 2
  MaxJobs = 1
PROPERTIES
  Answered
CHECK_DEADLOCK FALSE
