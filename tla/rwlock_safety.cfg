CONSTANTS
  t1 = t1
  t2 = t2
  t3 = t3
  Threads = {t1, t2, t3}
  Recursable = TRUE
  MaxHolds = 2
  rowner_retries = 1
  ReadElsewhere = {t1}
  Triers = {t1, t2, t3}
  NoThread = NoThread
SPECIFICATION Spec
INVARIANTS HoldAccounting NoStrandedWaiter TurnstileAsserts
PROPERTIES ImplementsLock
SYMMETRY Symmetry
