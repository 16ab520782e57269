\* maxSize 1: one block of two slots (one usable), growing to 4-slot blocks
CONSTANTS
  MaxSize = 1
  MAX_BLOCK_SIZE = 4
  HeapBlocks = 3
  ProducerOps = {"enqueue", "try_enqueue"}
  ConsumerOps = {"try_dequeue", "peek"}
  MaxElements = 10
SPECIFICATION Spec
INVARIANTS NoDataRace InOrderDespiteStaleLoads AssertionsDespiteStaleLoads
