CONSTANTS
  t1 = t1
  t2 = t2
  cv = cv
  ident = ident
  Threads = {t1, t2}
  Channels = {cv, ident}
  Condvars = {cv}
  SleepableLocks = {cv}
  CV_WAITERS_BOUND = 1
  ThrWakers = {}
  TailRace = TRUE
  NoThread = NoThread
  NoChannel = NoChannel
SPECIFICATION Spec
INVARIANTS TypeOK QueueAccounting WaitersCounted FlagAsserts NothingLeftBehind
VIEW NoHistory
CHECK_DEADLOCK FALSE
SYMMETRY Symmetry
