SPECIFICATION Spec
CONSTANTS
  s1 = s1
  s2 = s2
  s3 = s3
  t1 = t1
  Sends = {s1, s2, s3}
  Closers = {t1}
  NoSend = NoSend
  Parts = 2
  Space = 2
  MaxIn = 2
  MaxRefusals = 1
  Lossy = TRUE
  SpuriousAt = {"wait", "writing"}
SYMMETRY SendSymmetry
INVARIANTS
  TypeOK
  WholePdus
  SendTruth
  TakenInOrder
  HeaderIsThere
  NoLateCallback
CHECK_DEADLOCK FALSE
