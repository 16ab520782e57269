--------------------- MODULE LightweightSemaphore_proofs ---------------------
(***************************************************************************)
(* The safety properties of LightweightSemaphore for any number of signals *)
(* of any count and any interleaving with waits that time out.  The        *)
(* inductive invariant is SemaphoreAccounts with the typing.               *)
(***************************************************************************)
EXTENDS LightweightSemaphore, TLAPS

\* The sub-second part of now + timeout never hits a full second, where
\* timed_wait computes a tv_nsec that sem_timedwait rejects (line 528).
NoBoundaryDeadline ==
  \A now \in ClockNsecs, timeout \in TimeoutNsecs : now + timeout # NsecsIn1Sec

IInv == TypeOK /\ SemaphoreAccounts

\* Away from the boundary the normalised tv_nsec is one sem_timedwait accepts.
LEMMA DeadlineAccepted ==
  ASSUME NoBoundaryDeadline,
         NEW now \in ClockNsecs, NEW timeout \in TimeoutNsecs
  PROVE  DeadlineNsec(now, timeout) < NsecsIn1Sec
<1>1. now \in 0..NsecsIn1Sec - 1 /\ timeout \in 0..NsecsIn1Sec - 1 /\ NsecsIn1Sec \in Nat
  BY SemaphoreAssumption DEF SemaphoreAssumption
<1>2. now + timeout # NsecsIn1Sec
  BY DEF NoBoundaryDeadline
<1> QED
  BY <1>1, <1>2 DEF DeadlineNsec

LEMMA InitHolds == Init => IInv
  BY DEF Init, IInv, TypeOK, SemaphoreAccounts, Charged, Owed, WaitPcs

\* Every step of the signaller keeps the accounts.
LEMMA SignallerStep ==
  ASSUME IInv, (\E n \in SignalCounts : SignalAdd(n)) \/ SignalPost
  PROVE  IInv'
<1> USE DEF IInv, TypeOK, WaitPcs, SemaphoreAccounts, Charged, Owed
<1>1. ASSUME NEW n \in SignalCounts, SignalAdd(n) PROVE IInv'
  <2>1. n \in Nat \ {0}
    BY SemaphoreAssumption DEF SemaphoreAssumption
  <2>2. CASE count < 0
    BY <1>1, <2>1, <2>2 DEF SignalAdd
  <2>3. CASE count >= 0
    BY <1>1, <2>1, <2>3 DEF SignalAdd
  <2> QED
    BY <2>2, <2>3
<1>2. CASE SignalPost
  BY <1>2 DEF SignalPost
<1> QED
  BY <1>1, <1>2

\* Every step of the waiting thread keeps them, time-outs included.
LEMMA WaiterStep ==
  ASSUME NoBoundaryDeadline, IInv, (\E op \in WaitOps : WaitCall(op)) \/ Waiting
  PROVE  IInv'
<1> USE DEF IInv, TypeOK, WaitPcs, SemaphoreAccounts, Charged, Owed, WGoto, WReturn
<1>1. ASSUME NEW op \in WaitOps, WaitCall(op) PROVE IInv'
  <2>1. op \in {"tryWait", "wait", "timedWait"}
    BY SemaphoreAssumption DEF SemaphoreAssumption
  <2> QED
    BY <1>1, <2>1 DEF WaitCall
<1>2. CASE TakeSeen
  BY <1>2 DEF TakeSeen
<1>3. CASE Spin
  BY <1>3 DEF Spin
<1>4. CASE Announce
  BY <1>4 DEF Announce
<1>5. CASE KernelWait
  BY <1>5 DEF KernelWait
<1>6. CASE ArmTimer
  <2>1. wpc = "arm" /\ wpc' = "timed" /\ UNCHANGED <<wop, wret, acquired, count, kernel, spc, signals>>
    BY <1>6, DeadlineAccepted DEF ArmTimer
  <2> QED
    BY <2>1
<1>7. CASE KernelTimedWait
  BY <1>7 DEF KernelTimedWait
<1>8. CASE Timeout
  BY <1>8 DEF Timeout
<1>9. CASE Restore
  BY <1>9 DEF Restore
<1>10. CASE AnnounceAgain
  BY <1>10 DEF AnnounceAgain
<1>11. CASE TryKernel
  BY <1>11 DEF TryKernel
<1> QED
  BY <1>1, <1>2, <1>3, <1>4, <1>5, <1>6, <1>7, <1>8, <1>9, <1>10, <1>11 DEF Waiting

\* The counter is exact and a wake-up is owed exactly when a signal answered an
\* announcement, whatever signals race with a time-out.
THEOREM AccountsKept ==
  ASSUME NoBoundaryDeadline PROVE Spec => []IInv
<1>1. IInv /\ [Next]_semaVars => IInv'
  <2> SUFFICES ASSUME IInv, [Next]_semaVars PROVE IInv'
    OBVIOUS
  <2>1. CASE Next
    BY <2>1, SignallerStep, WaiterStep DEF Next
  <2>2. CASE UNCHANGED semaVars
    BY <2>2 DEF semaVars, IInv, TypeOK, SemaphoreAccounts, Charged, Owed
  <2> QED
    BY <2>1, <2>2
<1> QED
  BY InitHolds, <1>1, PTL DEF Spec

\* The count is the permits left less the waiter's announcement, and at most one
\* kernel token is owed (lines 569-610, 639-648).
THEOREM AccountsExact ==
  ASSUME NoBoundaryDeadline PROVE Spec => []SemaphoreAccounts
<1>1. IInv => SemaphoreAccounts
  BY DEF IInv
<1> QED
  BY <1>1, AccountsKept, PTL

\* Every variable keeps its type.
THEOREM TypeCorrect ==
  ASSUME NoBoundaryDeadline PROVE Spec => []TypeOK
<1>1. IInv => TypeOK
  BY DEF IInv
<1> QED
  BY <1>1, AccountsKept, PTL

\* A call returns true only for a permit of its own (lines 569-610).
THEOREM SuccessesNeedPermits ==
  ASSUME NoBoundaryDeadline PROVE Spec => []NoPhantomPermit
<1>1. IInv => NoPhantomPermit
  BY DEF IInv, TypeOK, SemaphoreAccounts, Charged, NoPhantomPermit
<1> QED
  BY <1>1, AccountsKept, PTL

\* The assertion oldCount >= -1 in signal (line 643) never fails.
THEOREM SignalAssertionHolds ==
  ASSUME NoBoundaryDeadline PROVE Spec => []CountAtLeastMinusOne
<1>1. IInv => CountAtLeastMinusOne
  BY DEF IInv, TypeOK, SemaphoreAccounts, CountAtLeastMinusOne
<1> QED
  BY <1>1, AccountsKept, PTL

\* A call that timed out leaves no kernel token for a later call to find.
THEOREM NoTokenLeftBehind ==
  ASSUME NoBoundaryDeadline PROVE Spec => []NoStaleKernelToken
<1>1. IInv => NoStaleKernelToken
  BY DEF IInv, TypeOK, SemaphoreAccounts, Charged, Owed, NoStaleKernelToken
<1> QED
  BY <1>1, AccountsKept, PTL

\* No race of signal and time-out loses or invents a permit.
THEOREM PermitsExactBetweenCalls ==
  ASSUME NoBoundaryDeadline PROVE Spec => []CountExactWhenIdle
<1>1. IInv => CountExactWhenIdle
  BY DEF IInv, TypeOK, SemaphoreAccounts, Charged, CountExactWhenIdle
<1> QED
  BY <1>1, AccountsKept, PTL

\* A waiter sleeps on a permit only while its wake-up is on the way.
THEOREM NoSignalLost ==
  ASSUME NoBoundaryDeadline PROVE Spec => []NoLostSignal
<1>1. IInv => NoLostSignal
  BY DEF IInv, TypeOK, SemaphoreAccounts, Charged, Owed, NoLostSignal
<1> QED
  BY <1>1, AccountsKept, PTL
=============================================================================
