CONSTANTS
  Cpus = {c1, c2, c3}
  Locks = {l1, l2, l3}
  blocked_lock = blocked_lock
  MaxHolds = 2
  MTX_UNOWNED = MTX_UNOWNED
  DEADC0DE = DEADC0DE
  NoCpu = NoCpu
SPECIFICATION Spec
INVARIANTS TypeOK ThreadLockHeld SpinAccounting SpinlockBalance
SYMMETRY Symmetry
CHECK_DEADLOCK FALSE
