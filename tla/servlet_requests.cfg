CONSTANTS
  e1 = e1
  e2 = e2
  p1 = p1
  p2 = p2
  Event = {e1, e2}
  Servlet = Servlet
  Page = {p1, p2}
  NotRead = NotRead
  MaxCalls = 3
  MaxStores = 1
  MaxFaults = 1
SPECIFICATION Spec
INVARIANTS
  TypeOK
  OneScheduler
  NothingLeaks
  ActiveAreScheduled
  WorkUnlessReused
SYMMETRY Symmetry
CHECK_DEADLOCK FALSE
