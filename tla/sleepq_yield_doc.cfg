CONSTANTS
  t1 = t1
  t2 = t2
  cv = cv
  ident = ident
  Threads = {t1}
  Channels = {cv, ident}
  Condvars = {cv}
  SleepableLocks = {cv}
  CV_WAITERS_BOUND = 2
  ThrWakers = {}
  TailRace = TRUE
  NoThread = NoThread
  NoChannel = NoChannel
SPECIFICATION Spec
INVARIANTS YieldsToTimeout
