CONSTANTS
  MaxSize = 1
  DequeueOps = {"try_dequeue", "pop", "wait_dequeue", "wait_dequeue_timed"}
  NsecsIn1Sec = 4
  ClockNsecs = {0, 2, 3}
  TimeoutNsecs = {2}
  MaxElements = 6
SPECIFICATION Spec
INVARIANT PermitFindsElement
CHECK_DEADLOCK FALSE
