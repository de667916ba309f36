CONSTANTS
  j1 = j1
  j2 = j2
  a1 = a1
  a2 = a2
  a3 = a3
  t1 = t1
  t2 = t2
  Job = {j1}
  Atom = {a1, a2}
  Worker = {t1, t2}
  JobOf <- OneJob
  Listed = {}
  Late = {a2}
  None = None
  MayFail = TRUE
  MaxFaults = 1
  MaxBatch = 2
  Events = {"view", "recycle", "add"}
  MaxEvents = 3
  MaxStarts = 1
SPECIFICATION Spec
INVARIANTS
  ArchivedOnce
  StatisticsCountSent
PROPERTIES
  RowsAreArchived
CHECK_DEADLOCK FALSE
