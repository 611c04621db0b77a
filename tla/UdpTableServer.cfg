SPECIFICATION Spec
CONSTANTS
  Publishers = {p1, p2}
  Clients = {c1}
  MaxVersion = 3
  Oversized = {2}
INVARIANTS
  SubscribersSound
PROPERTIES
  NewestIsSent
  StopReturns
CHECK_DEADLOCK FALSE
