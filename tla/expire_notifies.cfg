CONSTANTS
  p1 = p1
  p2 = p2
  c1 = c1
  c2 = c2
  c3 = c3
  k1 = k1
  k2 = k2
  Peer = {p1, p2}
  Client = {c1, c2, c3}
  PeerOf <- TwoAndOne
  Key = {k1, k2}
  Uses <- Tokens
  Changing = {k1}
  NoKey = NoKey
  Capacity <- OneSlot
  MaxCalls = 2
  MaxTime = 2
  MaxVersion = 1
  MaxFaults = 0
SPECIFICATION Spec
PROPERTIES
  ExpireNotifies
CHECK_DEADLOCK FALSE
