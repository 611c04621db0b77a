SPECIFICATION Spec
CONSTANTS
  Kinds = {"route", "neigh", "nexthop", "link", "request"}
  MAX_GROUP = 1
  MaxQueue = 1
  MaxChunk = 2
  MaxChanges = 2
  MaxFaults = 1
  MaxRequests = 3
  IfNames <- MCIfNames
  AddrFamily <- MCAddrFamily
  Slots <- MCSlots
  Initial <- MCInitial
  RmRequests <- MCRequests
INVARIANTS
  MonitorSound
  ListsAreRegular
  RequestIsExact
PROPERTIES
  OneEventJoins
  SignalEndsCommand
CHECK_DEADLOCK FALSE
