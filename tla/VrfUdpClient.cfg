SPECIFICATION Spec
CONSTANTS
  Requests = {r1, r2, r3}
  Submitters = {s1, s2}
INVARIANTS
  ExchangeSound
PROPERTIES
  WorkQueueSpec
  QueuedIsAttempted
CHECK_DEADLOCK FALSE
