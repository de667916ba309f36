CONSTANTS
  c1 = c1
  c2 = c2
  Client = {c1, c2}
  MaxSessions = 3
  Timeout = 1
  PoolSize = 1
  HardLimits = {1, 2}
  Limits = {0, 1, 2, 3}
  AdminCalls = {"setPoolSize", "setMaxPoolSize", "setReaperDaemonDelay", "closeConnections", "close"}
  MaxAdmin = 1
  MaxBreaks = 1
SPECIFICATION Spec
INVARIANTS
  TypeOK
  OneUser
  CountIsSize
  LimitIsKept
  NothingForgotten
PROPERTIES
  EndedOverdue
  RefusedAtLimit
  IdleIsClosed
CHECK_DEADLOCK FALSE
