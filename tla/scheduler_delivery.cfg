CONSTANTS
  j1 = j1
  j2 = j2
  a1 = a1
  a2 = a2
  a3 = a3
  t1 = t1
  t2 = t2
  Job = {j1, j2}
  Atom = {a1, a2, a3}
  Worker = {t1, t2}
  JobOf <- TwoJobs
  Listed = {}
  Late = {}
  None = None
  MayFail = FALSE
  MaxFaults = 0
  MaxBatch = 2
  Events = {"later", "delete", "delay"}
  MaxEvents = 1
  MaxStarts = 1
SPECIFICATION Spec
INVARIANTS
  TypeOK
  FinishedIsComplete
  RunningIsTracked
PROPERTIES
  Delivery
  JobsEnd
  ImplementsMailing
