\* maxSize 4 with MAX_BLOCK_SIZE 2: the constructor makes a ring of five blocks
CONSTANTS
  MaxSize = 4
  MAX_BLOCK_SIZE = 2
  HeapBlocks = 6
  ProducerOps = {"enqueue", "try_enqueue"}
  ConsumerOps = {"try_dequeue", "pop"}
  MaxElements = 7
SPECIFICATION Spec
INVARIANTS FifoOrder HoldsMaxSize
\* the system stops once the destructor has run
CHECK_DEADLOCK FALSE
