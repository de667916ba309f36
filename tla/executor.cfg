CONSTANTS
  j1 = j1
  a1 = a1
  a2 = a2
  t1 = t1
  Job = {j1}
  Atom = {a1, a2}
  Worker = {t1}
  JobOf <- OneJob
  Listed = {}
  Late = {}
  None = None
  MayFail = TRUE
  MaxFaults = 1
  MaxBatch = 2
  Events = {"delete", "die", "run"}
  MaxEvents = 1
  MaxStarts = 1
  MaxRuns = 1
SPECIFICATION ExecutorSpec
INVARIANTS
  ExecutorTypeOK
  BoundedCopies
  CountBeside
PROPERTIES
  ExecutorCompletes
CHECK_DEADLOCK FALSE
