CONSTANTS
  w1 = w1
  w2 = w2
  Programs = {"buf-moody", "buf-lockfree", "buf-sync", "buf-server"}
  Workers = {w1, w2}
  ServerWorkers = {w1}
  UDP_LEN = 2
  Lengths = {0, 1, 2, 3}
  MaxDatagrams = 4
  Limit = 2
  CAPACITY = 1
  Writers = 2
  WriterItems = 2
SPECIFICATION FairSpec
INVARIANTS HandsOverEachDatagram OneProducerOneConsumer CountsEachDatagram
  DoneAfterTheWorkers ReaderKeepsMainInJoin ServerOutlivesHandlers
PROPERTIES RunEnds
\* the programs end, and buf-sync hangs in join_all
CHECK_DEADLOCK FALSE
