SPECIFICATION FairSpec
CONSTANTS
  s1 = s1
  s2 = s2
  t1 = t1
  Sends = {s1, s2}
  Closers = {t1}
  NoSend = NoSend
  Parts = 2
  Space = 1
  MaxIn = 1
  MaxRefusals = 1
  Lossy = TRUE
  SpuriousAt = {}
PROPERTIES
  SendEndsIfOpen
  CloseEnds
CHECK_DEADLOCK FALSE
