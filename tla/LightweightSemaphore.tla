------------------------ MODULE LightweightSemaphore ------------------------
(***************************************************************************)
(* moodycamel::spsc_sema::LightweightSemaphore (include/atomicops.h): an   *)
(* atomic counter in front of a kernel semaphore, for one thread that      *)
(* signals and one thread that waits.  A negative counter says that the    *)
(* waiter is (or is about to be) blocked in the kernel.                    *)
(*                                                                         *)
(* Each atomic access to m_count and each call on the kernel semaphore is  *)
(* one step.  The kernel semaphore is the POSIX one of atomicops.h.        *)
(***************************************************************************)
EXTENDS Integers

CONSTANTS
  WaitOps,        \* operations the waiting thread calls
  SignalCounts,   \* arguments of signal(count)
  NsecsIn1Sec,    \* 10^9 in the code; scaled down for TLC
  ClockNsecs,     \* tv_nsec values clock_gettime may return
  TimeoutNsecs,   \* sub-second parts of the timeouts asked for
  MaxSignals      \* bound: permits signalled in total

ASSUME SemaphoreAssumption ==
  /\ WaitOps \subseteq {"tryWait", "wait", "timedWait"}
  /\ SignalCounts \subseteq Nat \ {0}
  /\ NsecsIn1Sec \in Nat \ {0}
  /\ ClockNsecs \subseteq 0..NsecsIn1Sec - 1
  /\ TimeoutNsecs \subseteq 0..NsecsIn1Sec - 1
  /\ MaxSignals \in Nat

VARIABLES
  count,      \* m_count
  kernel,     \* value of the kernel semaphore m_sema
  spc,        \* control of the signalling thread
  wpc, wop,   \* control and operation of the waiting thread
  wret,       \* result of its last call
  signals,    \* history: permits signalled
  acquired    \* history: calls that returned true

semaVars == <<count, kernel, spc, wpc, wop, wret, signals, acquired>>

Init ==
  /\ count = 0 /\ kernel = 0
  /\ spc = "idle"
  /\ wpc = "idle" /\ wop = "none" /\ wret = "none"
  /\ signals = 0 /\ acquired = 0

-----------------------------------------------------------------------------
(* signal(n) *)

\* mutant: decides on the new count, not on the old one
SignalAddNewCount(n) ==
  /\ spc = "idle" /\ signals + n <= MaxSignals
  /\ count' = count + n
  /\ signals' = signals + n
  /\ spc' = IF count + n < 0 THEN "post" ELSE "idle"
  /\ UNCHANGED <<kernel, wpc, wop, wret, acquired>>

SignalAdd(n) ==
  /\ spc = "idle" /\ signals + n <= MaxSignals
  /\ count' = count + n
  /\ signals' = signals + n
  /\ spc' = IF count < 0 THEN "post" ELSE "idle"
  /\ UNCHANGED <<kernel, wpc, wop, wret, acquired>>

SignalPost ==
  /\ spc = "post"
  /\ kernel' = kernel + 1
  /\ spc' = "idle"
  /\ UNCHANGED <<count, wpc, wop, wret, signals, acquired>>

-----------------------------------------------------------------------------
(* tryWait(), wait(), wait(timeout_usecs) *)

WGoto(pc) == wpc' = pc /\ UNCHANGED <<wop, wret, acquired>>

WReturn(success) ==
  /\ wpc' = "idle"
  /\ wret' = IF success THEN "true" ELSE "false"
  /\ acquired' = IF success THEN acquired + 1 ELSE acquired
  /\ UNCHANGED wop

\* All three begin with tryWait's load of m_count.
WaitCall(op) ==
  /\ wpc = "idle" /\ op \in WaitOps
  /\ wop' = op
  /\ IF count > 0
     THEN wpc' = "takeSeen" /\ UNCHANGED <<wret, acquired>>
     ELSE IF op = "tryWait"
     THEN wpc' = "idle" /\ wret' = "false" /\ UNCHANGED acquired
     ELSE wpc' = "spin" /\ UNCHANGED <<wret, acquired>>
  /\ UNCHANGED <<count, kernel, spc, signals>>

\* A positive count was seen; only this thread decrements it.
TakeSeen ==
  /\ wpc = "takeSeen"
  /\ count' = count - 1
  /\ WReturn(TRUE)
  /\ UNCHANGED <<kernel, spc, signals>>

\* An iteration of the spin loop that sees a permit, or the last one
Spin ==
  /\ wpc = "spin"
  /\ WGoto(IF count > 0 THEN "takeSeen" ELSE "announce")
  /\ UNCHANGED <<count, kernel, spc, signals>>

\* fetch_add_acquire(-1) after the loop: take a permit or go to the kernel
Announce ==
  /\ wpc = "announce"
  /\ count' = count - 1
  /\ IF count > 0 THEN WReturn(TRUE)
     ELSE WGoto(IF wop = "wait" THEN "block" ELSE "arm")
  /\ UNCHANGED <<kernel, spc, signals>>

KernelWait ==
  /\ wpc = "block" /\ kernel > 0
  /\ kernel' = kernel - 1
  /\ WReturn(TRUE)
  /\ UNCHANGED <<count, spc, signals>>

\* timed_wait: the tv_nsec it hands to sem_timedwait
DeadlineNsec(now, timeout) ==
  LET nsec == now + timeout
  IN  IF nsec > NsecsIn1Sec THEN nsec - NsecsIn1Sec ELSE nsec

\* sem_timedwait rejects a tv_nsec that is not below 10^9 (EINVAL); timed_wait
\* returns true unless the error is ETIMEDOUT.
ArmTimer ==
  /\ wpc = "arm"
  /\ \E now \in ClockNsecs, timeout \in TimeoutNsecs :
       IF DeadlineNsec(now, timeout) < NsecsIn1Sec
       THEN WGoto("timed") ELSE WReturn(TRUE)
  /\ UNCHANGED <<count, kernel, spc, signals>>

KernelTimedWait ==
  /\ wpc = "timed" /\ kernel > 0
  /\ kernel' = kernel - 1
  /\ WReturn(TRUE)
  /\ UNCHANGED <<count, spc, signals>>

\* mutant: a time-out is retried like an interruption
TimeoutRetried ==
  /\ wpc = "timed"
  /\ UNCHANGED semaVars

\* A time-out may be reported although a token has just been posted.
Timeout ==
  /\ wpc = "timed"
  /\ WGoto("restore")
  /\ UNCHANGED <<count, kernel, spc, signals>>

\* mutant: restores the count without asking whether a signal came first
RestoreBlindly ==
  /\ wpc = "restore"
  /\ count' = count + 1
  /\ WReturn(FALSE)
  /\ UNCHANGED <<kernel, spc, signals>>

\* fetch_add_release(1): take the announcement back unless a signal answered it
Restore ==
  /\ wpc = "restore"
  /\ count' = count + 1
  /\ IF count < 0 THEN WReturn(FALSE) ELSE WGoto("announceAgain")
  /\ UNCHANGED <<kernel, spc, signals>>

\* mutant: only reads the count the second time
AnnounceAgainReadOnly ==
  /\ wpc = "announceAgain"
  /\ WGoto(IF count > 0 THEN "tryKernel" ELSE "restore")
  /\ UNCHANGED <<count, kernel, spc, signals>>

AnnounceAgain ==
  /\ wpc = "announceAgain"
  /\ count' = count - 1
  /\ WGoto(IF count > 0 THEN "tryKernel" ELSE "restore")
  /\ UNCHANGED <<kernel, spc, signals>>

TryKernel ==
  /\ wpc = "tryKernel"
  /\ IF kernel > 0
     THEN kernel' = kernel - 1 /\ WReturn(TRUE)
     ELSE UNCHANGED kernel /\ WGoto("restore")
  /\ UNCHANGED <<count, spc, signals>>

Waiting ==
  \/ TakeSeen \/ Spin \/ Announce \/ KernelWait \/ ArmTimer
  \/ KernelTimedWait \/ Timeout \/ Restore \/ AnnounceAgain \/ TryKernel

AvailableApprox == IF count > 0 THEN count ELSE 0

Next ==
  \/ \E n \in SignalCounts : SignalAdd(n)
  \/ SignalPost
  \/ \E op \in WaitOps : WaitCall(op)
  \/ Waiting

Spec == Init /\ [][Next]_semaVars

\* Neither thread is suspended for good inside a call.
Fairness == WF_semaVars(SignalPost) /\ WF_semaVars(Waiting)

FairSpec == Spec /\ Fairness

-----------------------------------------------------------------------------
WaitPcs == {"idle", "takeSeen", "spin", "announce", "block", "arm", "timed",
            "restore", "announceAgain", "tryKernel"}

TypeOK ==
  /\ count \in Int /\ kernel \in Nat
  /\ spc \in {"idle", "post"}
  /\ wpc \in WaitPcs
  /\ wop \in {"none", "tryWait", "wait", "timedWait"}
  /\ wret \in {"none", "true", "false"}
  /\ signals \in Nat /\ acquired \in Nat

\* No call returns true without a permit of its own: successes never outnumber
\* the permits signalled, whatever signals race with a time-out.
NoPhantomPermit == acquired <= signals

\* signal's assertion oldCount >= -1 (line 643)
CountAtLeastMinusOne == count >= -1

\* A kernel token is only ever left for a waiter that still has to collect it.
\* A call that timed out leaves none behind for a later call to find.
NoStaleKernelToken ==
  kernel > 0 => wpc \in {"block", "arm", "timed", "restore", "announceAgain", "tryKernel"}

\* When the waiting thread is outside its calls the counter tells exactly how
\* many permits are left: a race of signal and time-out loses none.
CountExactWhenIdle == wpc = "idle" => count = signals - acquired

\* A waiter is blocked in the kernel without a token on its way only if there
\* is no permit for it.
NoLostSignal ==
  wpc \in {"block", "timed"} /\ signals > acquired => kernel > 0 \/ spc = "post"

\* Why all of this holds: the calls in which the waiter's decrement stands ...
Charged == wpc \in {"block", "arm", "timed", "restore", "tryKernel"}

\* ... and the wake-ups that are posted or about to be posted
Owed == kernel + IF spc = "post" THEN 1 ELSE 0

\* The counter is the permits left, less the waiter's announcement.  A wake-up
\* is owed exactly when a signal has answered an announcement whose waiter has
\* not collected it; there is never more than one (lines 573-609, 639-648).
SemaphoreAccounts ==
  /\ count + (IF Charged THEN 1 ELSE 0) = signals - acquired
  /\ Charged => count >= -1 /\ Owed = (IF count >= 0 THEN 1 ELSE 0)
  /\ wpc = "announceAgain" => count >= 1 /\ Owed = 1
  /\ ~Charged /\ wpc # "announceAgain" => count >= 0 /\ Owed = 0
  /\ wpc = "takeSeen" => count >= 1

\* wait() returns if there is a permit; tryWait() and a timed wait always return.
WaitReturns == (wpc # "idle" /\ signals > acquired) ~> (wpc = "idle")
TimedWaitReturns ==
  (wpc # "idle" /\ wop \in {"tryWait", "timedWait"}) ~> (wpc = "idle")
=============================================================================
