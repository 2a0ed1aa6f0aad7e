SPECIFICATION FairSpec
CONSTANTS
  s1 = s1
  t1 = t1
  Sends = {s1}
  Closers = {t1}
  NoSend = NoSend
  Parts = 2
  Space = 1
  MaxIn = 0
  MaxRefusals = 0
  Lossy = FALSE
  SpuriousAt = {}
PROPERTIES
  SendEnds
CHECK_DEADLOCK FALSE
