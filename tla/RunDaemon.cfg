SPECIFICATION Spec
CONSTANTS
  Nexthop = nexthop
  Others = {}
  NhIds = {1, 2}
  MaxQueue = 2
INVARIANTS
  TableSound
  NexthopSubmitted
CHECK_DEADLOCK FALSE
