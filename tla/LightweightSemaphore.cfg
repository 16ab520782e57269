CONSTANTS
  WaitOps = {"tryWait", "wait", "timedWait"}
  SignalCounts = {1, 2}
  NsecsIn1Sec = 4
  ClockNsecs = {0, 3}
  TimeoutNsecs = {2}
  MaxSignals = 5
SPECIFICATION FairSpec
INVARIANTS NoLostSignal SemaphoreAccounts
PROPERTIES WaitReturns TimedWaitReturns
\* a wait() blocks for good once no more signals come
CHECK_DEADLOCK FALSE
