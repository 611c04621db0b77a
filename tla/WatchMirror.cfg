SPECIFICATION Spec
CONSTANTS
  Dests = {d1, d2}
  Metrics = {m1}
  Hops = {h1, h2}
  None = None
  MaxId = 5
  MaxQueue = 1
  MaxChanges = 2
  MaxFaults = 1
INVARIANTS
  TrackingSound
  MirrorExact
PROPERTIES
  MirrorConverges
CHECK_DEADLOCK FALSE
