CONSTANTS
  t1 = t1
  t2 = t2
  t3 = t3
  Threads = {t1, t2, t3}
  Recursable = FALSE
  MaxHolds = 1
  rowner_retries = 0
  ReadElsewhere = {}
  Triers = {}
  NoThread = NoThread
SPECIFICATION FairSpec
PROPERTIES WaitersAreWoken
