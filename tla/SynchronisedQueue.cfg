CONSTANTS
  e1 = e1
  e2 = e2
  d1 = d1
  d2 = d2
  Enqueuers = {e1, e2}
  Dequeuers = {d1, d2}
  NoThread = NoThread
  MaxItems = 2
SPECIFICATION FairSpec
INVARIANT InOrderUnlessRaced
PROPERTY WokenByNextEnqueue
\* a dequeuer waits for good once no more items come
CHECK_DEADLOCK FALSE
