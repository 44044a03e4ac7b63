CONSTANTS
  w1 = w1
  w2 = w2
  c1 = c1
  c2 = c2
  tt = tt
  Tasks = {tt}
  TimeoutTasks = {tt}
  ta_priority <- Priorities
  USHRT_MAX = 2
  Workers = {w1, w2}
  Clients = {c1, c2}
  NoTask = NoTask
CHECK_DEADLOCK FALSE
SPECIFICATION FairSpec
INVARIANTS ListsAgree NobodyStranded FreedIsUnused
PROPERTIES DrainsWait CallsReturn
