CONSTANTS
  j1 = j1
  j2 = j2
  a1 = a1
  a2 = a2
  a3 = a3
  t1 = t1
  t2 = t2
  Job = {j1}
  Atom = {a1, a2}
  Worker = {t1, t2}
  JobOf <- OneJob
  Listed = {}
  Late = {}
  None = None
  MayFail = TRUE
  MaxFaults = 1
  MaxBatch = 2
  Events = {"abort", "stop"}
  MaxEvents = 1
  MaxStarts = 1
SPECIFICATION Spec
INVARIANTS
  AbortedIsEmpty
  SingleHolder
PROPERTIES
  StopEnds
CHECK_DEADLOCK FALSE
