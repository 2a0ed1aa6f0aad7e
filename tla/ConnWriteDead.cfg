SPECIFICATION Spec
CONSTANTS
  s1 = s1
  s2 = s2
  Sends = {s1, s2}
  Closers = {}
  NoSend = NoSend
  Parts = 2
  Space = 1
  MaxIn = 0
  MaxRefusals = 0
  Lossy = FALSE
  SpuriousAt = {}
SYMMETRY SendSymmetry
INVARIANTS
  WriteCbAlive
CHECK_DEADLOCK FALSE
