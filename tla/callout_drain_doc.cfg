CONSTANTS
  t1 = t1
  t2 = t2
  c1 = c1
  c2 = c2
  x1 = x1
  x2 = x2
  Threads = {t1}
  Callouts = {c1}
  Cpus = {x1, x2}
  Kinds = {"mpsafe", "locked", "returnunlocked"}
  CPUBLOCK = CPUBLOCK
  NoCallout = NoCallout
  NoOwner = NoOwner
SPECIFICATION Spec
PROPERTIES DrainWaits
