CONSTANTS
  MaxSize = 1
  DequeueOps = {"try_dequeue", "pop", "wait_dequeue", "wait_dequeue_timed"}
  NsecsIn1Sec = 4
  ClockNsecs = {0, 3}
  TimeoutNsecs = {2}
  MaxElements = 5
SPECIFICATION FairSpec
INVARIANTS PermitFindsElement OnePermitPerElement
PROPERTIES EveryElementDequeued ImplementsBlockingFifo
\* a wait_dequeue blocks for good once no more elements come
CHECK_DEADLOCK FALSE
