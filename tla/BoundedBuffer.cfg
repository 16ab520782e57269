CONSTANTS
  p1 = p1
  p2 = p2
  r1 = r1
  r2 = r2
  r3 = r3
  Pushers = {p1, p2}
  Poppers = {r1, r2, r3}
  NoThread = NoThread
  Capacity = 2
  MaxItems = 4
SPECIFICATION FairSpec
INVARIANTS NoLostWakeup HoldsNewest ReadsTheOldest
PROPERTY EveryReaderReturns
