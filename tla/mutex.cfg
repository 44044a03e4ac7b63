CONSTANTS
  t1 = t1
  t2 = t2
  t3 = t3
  Threads = {t1, t2, t3}
  Recursable = TRUE
  MaxRecurse = 2
  MTX_UNOWNED = MTX_UNOWNED
  MTX_DESTROYED = MTX_DESTROYED
  NoThread = NoThread
SPECIFICATION FairSpec
INVARIANTS TypeOK HoldAccounting NoStrandedWaiter TurnstileAsserts
PROPERTIES ImplementsLock BlockedIsWoken
