CONSTANTS
  MaxSize = 1
  MAX_BLOCK_SIZE = 2
  HeapBlocks = 3
  ProducerOps = {"enqueue", "size_approx"}
  ConsumerOps = {"try_dequeue", "size_approx"}
  MaxElements = 3
SPECIFICATION FairSpec
INVARIANT SizeApproxBounds
PROPERTIES WaitFree CallsReturn EveryElementDelivered
\* the system stops once the destructor has run
CHECK_DEADLOCK FALSE
