CONSTANTS
  t1 = t1
  t2 = t2
  k1 = k1
  k2 = k2
  k3 = k3
  k4 = k4
  Thread = {t1, t2}
  Key = {k1, k2, k3, k4}
  Copy = {1, 2}
  Null = Null
  Capacity = 3
SPECIFICATION Spec
INVARIANTS
  LruTypeOK
  Whole
  MapIsList
PROPERTIES
  KeepsOrder
  FlushEnds
CHECK_DEADLOCK FALSE
