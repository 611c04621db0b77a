SPECIFICATION Spec
CONSTANTS
  Nexthop = nexthop
  Others = {route}
  NhIds = {1}
  MaxQueue = 1
PROPERTIES
  JoinReturnsOnEvents
CHECK_DEADLOCK FALSE
