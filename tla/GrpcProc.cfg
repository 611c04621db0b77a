SPECIFICATION Spec
CONSTANTS
  Callers = {c1, c2}
  Controllers = {k1, k2}
  MaxRequests = 3
INVARIANTS
  QueueSound
  ResponseOnce
PROPERTIES
  WorkQueueSpec
  QueuedIsExecuted
  StopReturnsIfAwake
CHECK_DEADLOCK FALSE
