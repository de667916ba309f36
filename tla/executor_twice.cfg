CONSTANTS
  j1 = j1
  a1 = a1
  a2 = a2
  t1 = t1
  Job = {j1}
  Atom = {a1, a2}
  Worker = {t1}
  JobOf <- OneJob
  Listed = {}
  Late = {}
  None = None
  MayFail = FALSE
  MaxFaults = 0
  MaxBatch = 2
  Events = {}
  MaxEvents = 0
  MaxStarts = 1
  MaxRuns = 1
SPECIFICATION ExecutorSpec
INVARIANTS
  OneOfThem
CHECK_DEADLOCK FALSE
