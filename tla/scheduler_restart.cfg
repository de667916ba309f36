CONSTANTS
  j1 = j1
  j2 = j2
  a1 = a1
  a2 = a2
  a3 = a3
  t1 = t1
  t2 = t2
  Job = {j1, j2}
  Atom = {a1, a2, a3}
  Worker = {t1, t2}
  JobOf <- TwoJobs
  Listed = {j1}
  Late = {a3}
  None = None
  MayFail = TRUE
  MaxFaults = 0
  MaxBatch = 2
  Events = {"crash", "halt", "delete", "add"}
  MaxEvents = 2
  MaxStarts = 3
SPECIFICATION Spec
INVARIANTS
  AtMostOnce
CHECK_DEADLOCK FALSE
