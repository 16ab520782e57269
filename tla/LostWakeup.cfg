CONSTANTS
  e1 = e1
  e2 = e2
  d1 = d1
  d2 = d2
  Enqueuers = {e1}
  Dequeuers = {d1}
  NoThread = NoThread
  MaxItems = 3
SPECIFICATION FairSpec
PROPERTY WakesWhenFilled
\* a dequeuer waits for good once no more items come
CHECK_DEADLOCK FALSE
