CONSTANTS
  j1 = j1
  j2 = j2
  a1 = a1
  a2 = a2
  a3 = a3
  t1 = t1
  t2 = t2
  Job = {j1, j2}
  Atom = {a1, a2, a3}
  Worker = {t1, t2}
  JobOf <- TwoJobs
  Listed = {j1}
  Late = {}
  None = None
  MayFail = FALSE
  MaxFaults = 0
  MaxBatch = 2
  Events = {}
  MaxEvents = 0
  MaxStarts = 1
SPECIFICATION Spec
PROPERTIES
  ListsAreLoaded
CHECK_DEADLOCK FALSE
