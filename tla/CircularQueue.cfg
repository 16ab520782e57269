\* size_type of 3 bits
CONSTANTS
  p1 = p1
  p2 = p2
  r1 = r1
  r2 = r2
  r3 = r3
  Pushers = {p1, p2}
  Poppers = {r1, r2, r3}
  Capacity = 2
  Uninitialised = {0, 1, 7}
  SizeTypeValues = 8
  MaxItems = 6
SPECIFICATION Spec
INVARIANTS InOrderUntilOverwritten ItemsWakeWaiters
PROPERTY DriftedPopsMiss
