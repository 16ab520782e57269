------------------ MODULE BlockingReaderWriterQueue_proofs ------------------
(***************************************************************************)
(* The queue and its semaphore together implement SpscBlockingFifo, for    *)
(* any number of elements and any interleaving of enqueues with dequeues   *)
(* that time out.  The inductive invariant pairs the elements with the     *)
(* permits: what was signalled, what was acquired and who still has to.    *)
(***************************************************************************)
EXTENDS BlockingReaderWriterQueue, SequenceTheorems, TLAPS

\* See LightweightSemaphore_proofs.
NoBoundaryDeadline ==
  \A now \in ClockNsecs, timeout \in TimeoutNsecs : now + timeout # NsecsIn1Sec

\* Where the semaphore stands while the queue's calls are under way
Control ==
  /\ bpc = "post" <=> spc = "post"
  /\ cpc # "wait" => wpc = "idle"
  /\ cpc \in {"wait", "inner"} => cop \in DequeueOps /\ wop = SemaOp(cop)
  /\ cpc = "wait" /\ wpc = "idle" => wret \in {"true", "false"}
  /\ wpc \in {"spin", "announce"} => wop \in {"wait", "timedWait"}
  /\ wpc = "block" => wop = "wait"
  /\ wpc \in {"arm", "timed", "restore", "announceAgain", "tryKernel"} => wop = "timedWait"
  /\ AnsweredFalse => cop # "wait_dequeue"

\* Every element has a permit that was signalled, but the one under way; every
\* permit acquired has taken an element, but the one that is held.
Pairing ==
  /\ signals = sent - (IF bpc = "signal" THEN 1 ELSE 0)
  /\ acquired = received + (IF HoldsPermit THEN 1 ELSE 0)
  /\ cpc # "aborted"

IInv == TypeOK /\ Sema!SemaphoreAccounts /\ Control /\ Pairing

\* Away from the boundary the normalised tv_nsec is one sem_timedwait accepts.
LEMMA DeadlineAccepted ==
  ASSUME NoBoundaryDeadline,
         NEW now \in ClockNsecs, NEW timeout \in TimeoutNsecs
  PROVE  Sema!DeadlineNsec(now, timeout) < NsecsIn1Sec
<1>1. now \in 0..NsecsIn1Sec - 1 /\ timeout \in 0..NsecsIn1Sec - 1 /\ NsecsIn1Sec \in Nat
  BY QueueAssumption DEF QueueAssumption
<1>2. now + timeout # NsecsIn1Sec
  BY DEF NoBoundaryDeadline
<1> QED
  BY <1>1, <1>2 DEF Sema!DeadlineNsec

LEMMA InitHolds == Init => IInv
  BY QueueAssumption
     DEF QueueAssumption, Init, IInv, TypeOK, Control, Pairing, HoldsPermit, AnsweredFalse, NoElement,
         Sema!Init, Sema!TypeOK, Sema!WaitPcs, Sema!SemaphoreAccounts, Sema!Charged, Sema!Owed

\* Every step of the producer keeps the pairing.
LEMMA ProducerKeeps ==
  ASSUME IInv, InnerEnqueue \/ InnerEnqueueFails \/ Signal \/ SignalPost
  PROVE  IInv'
<1> USE QueueAssumption DEF QueueAssumption, IInv, TypeOK, Control, Pairing, HoldsPermit,
        AnsweredFalse, NoElement, Sema!TypeOK, Sema!WaitPcs, Sema!SemaphoreAccounts, Sema!Charged,
        Sema!Owed, consVars, semaVars
<1>1. CASE InnerEnqueue
  <2>1. fifo' \in Seq(1..MaxElements) /\ Len(fifo') = Len(fifo) + 1
    BY <1>1 DEF InnerEnqueue
  <2> QED
    BY <1>1, <2>1 DEF InnerEnqueue
<1>2. CASE InnerEnqueueFails
  BY <1>2 DEF InnerEnqueueFails
<1>3. CASE Signal
  BY <1>3 DEF Signal, Sema!SignalAdd
<1>4. CASE SignalPost
  BY <1>4 DEF SignalPost, Sema!SignalPost
<1> QED
  BY <1>1, <1>2, <1>3, <1>4

\* So does every step inside the semaphore's waits, time-outs included.
LEMMA WaitKeeps ==
  ASSUME NoBoundaryDeadline, IInv, DequeueWait
  PROVE  IInv'
<1> USE DEF IInv, TypeOK, Control, Pairing, HoldsPermit,
        AnsweredFalse, NoElement, SemaOp, Sema!TypeOK, Sema!WaitPcs, Sema!SemaphoreAccounts,
        Sema!Charged, Sema!Owed, Sema!WGoto, Sema!WReturn, consVars, prodVars
<1>1. cpc = "wait" /\ Sema!Waiting /\ UNCHANGED <<fifo, prodVars, consVars>>
  BY DEF DequeueWait
<1>2. CASE Sema!TakeSeen
  BY <1>1, <1>2 DEF Sema!TakeSeen
<1>3. CASE Sema!Spin
  BY <1>1, <1>3 DEF Sema!Spin
<1>4. CASE Sema!Announce
  BY <1>1, <1>4 DEF Sema!Announce
<1>5. CASE Sema!KernelWait
  BY <1>1, <1>5 DEF Sema!KernelWait
<1>6. CASE Sema!ArmTimer
  <2>1. wpc = "arm" /\ wpc' = "timed" /\ UNCHANGED <<wop, wret, acquired, count, kernel, spc, signals>>
    BY <1>6, DeadlineAccepted DEF Sema!ArmTimer
  <2> QED
    BY <1>1, <2>1
<1>7. CASE Sema!KernelTimedWait
  BY <1>1, <1>7 DEF Sema!KernelTimedWait
<1>8. CASE Sema!Timeout
  BY <1>1, <1>8 DEF Sema!Timeout
<1>9. CASE Sema!Restore
  BY <1>1, <1>9 DEF Sema!Restore
<1>10. CASE Sema!AnnounceAgain
  BY <1>1, <1>10 DEF Sema!AnnounceAgain
<1>11. CASE Sema!TryKernel
  BY <1>1, <1>11 DEF Sema!TryKernel
<1> QED
  BY <1>1, <1>2, <1>3, <1>4, <1>5, <1>6, <1>7, <1>8, <1>9, <1>10, <1>11 DEF Sema!Waiting

\* So do the call, the return and the inner dequeue, which finds an element.
LEMMA ConsumerKeeps ==
  ASSUME IInv,
         (\E op \in DequeueOps : DequeueCall(op)) \/ DequeueWaited \/ InnerDequeue \/ Peek
  PROVE  IInv'
<1> USE QueueAssumption DEF QueueAssumption, IInv, TypeOK, Control, Pairing, HoldsPermit,
        AnsweredFalse, NoElement, SemaOp, Sema!TypeOK, Sema!WaitPcs, Sema!SemaphoreAccounts,
        Sema!Charged, Sema!Owed, prodVars, semaVars
<1>1. ASSUME NEW op \in DequeueOps, DequeueCall(op) PROVE IInv'
  BY <1>1 DEF DequeueCall, Sema!WaitCall
<1>2. CASE DequeueWaited
  BY <1>2 DEF DequeueWaited
<1>3. CASE InnerDequeue
  <2>1. fifo # <<>>
    <3>1. Len(fifo) > 0
      BY <1>3 DEF InnerDequeue
    <3> QED
      BY <3>1
  <2>2. fifo' = Tail(fifo) /\ cret' = Head(fifo)
    BY <1>3, <2>1 DEF InnerDequeue
  <2>3. fifo' \in Seq(1..MaxElements) /\ Len(fifo') = Len(fifo) - 1 /\ cret' \in 1..MaxElements
    BY <2>1, <2>2, HeadTailProperties
  <2> QED
    BY <1>3, <2>1, <2>3 DEF InnerDequeue
<1>4. CASE Peek
  <2>1. fifo # <<>> => Head(fifo) \in 1..MaxElements
    BY HeadTailProperties
  <2> QED
    BY <1>4, <2>1 DEF Peek
<1> QED
  BY <1>1, <1>2, <1>3, <1>4

-----------------------------------------------------------------------------
\* The elements and the permits stay paired (enqueue in lines 619-690, the
\* dequeues in lines 705-790, the semaphore's calls in atomicops.h).
THEOREM InvariantHolds ==
  ASSUME NoBoundaryDeadline PROVE Spec => []IInv
<1>1. Init => IInv
  BY InitHolds
<1>2. IInv /\ [Next]_vars => IInv'
  <2> SUFFICES ASSUME IInv, [Next]_vars PROVE IInv'
    OBVIOUS
  <2>1. CASE InnerEnqueue \/ InnerEnqueueFails \/ Signal \/ SignalPost
    BY <2>1, ProducerKeeps
  <2>2. CASE DequeueWait
    BY <2>2, WaitKeeps
  <2>3. CASE (\E op \in DequeueOps : DequeueCall(op)) \/ DequeueWaited \/ InnerDequeue \/ Peek
    BY <2>3, ConsumerKeeps
  <2>4. CASE UNCHANGED vars
    BY <2>4 DEF vars, IInv, TypeOK, Control, Pairing, HoldsPermit, AnsweredFalse,
                prodVars, consVars, semaVars, Sema!TypeOK, Sema!SemaphoreAccounts,
                Sema!Charged, Sema!Owed
  <2> QED
    BY <2>1, <2>2, <2>3, <2>4 DEF Next
<1> QED
  BY <1>1, <1>2, PTL DEF Spec

\* Types, and no more elements taken than were enqueued.
THEOREM TypeCorrect ==
  ASSUME NoBoundaryDeadline PROVE Spec => []TypeOK
<1>1. IInv => TypeOK
  BY DEF IInv
<1> QED
  BY <1>1, InvariantHolds, PTL

\* The assertions after inner.try_dequeue and inner.pop (lines 713, 729, 748,
\* 786) hold for every number of elements, size and interleaving.
THEOREM PermitsFindElements ==
  ASSUME NoBoundaryDeadline PROVE Spec => []PermitFindsElement
<1>1. IInv => PermitFindsElement
  <2> SUFFICES ASSUME IInv, cpc = "inner" PROVE Len(fifo) > 0
    BY EmptySeq DEF IInv, Pairing, PermitFindsElement
  <2> QED
    BY DEF IInv, TypeOK, Control, Pairing, HoldsPermit, Sema!TypeOK, Sema!SemaphoreAccounts, Sema!Charged
<1> QED
  BY <1>1, InvariantHolds, PTL

\* No race of enqueue, time-out and dequeue loses or invents a permit.
THEOREM OnePermitEach ==
  ASSUME NoBoundaryDeadline PROVE Spec => []OnePermitPerElement
<1>1. IInv => OnePermitPerElement
  BY DEF IInv, TypeOK, Control, Pairing, HoldsPermit, OnePermitPerElement,
         Sema!TypeOK, Sema!SemaphoreAccounts, Sema!Charged
<1> QED
  BY <1>1, InvariantHolds, PTL

\* size_approx (line 793) never counts an element that is not in the queue.
THEOREM SizeApproxBounded ==
  ASSUME NoBoundaryDeadline PROVE Spec => []SizeApproxNeverTooLarge
<1>1. IInv => SizeApproxNeverTooLarge
  BY DEF IInv, TypeOK, Control, Pairing, HoldsPermit, SizeApproxNeverTooLarge, SizeApprox,
         Sema!AvailableApprox, Sema!TypeOK, Sema!SemaphoreAccounts, Sema!Charged
<1> QED
  BY <1>1, InvariantHolds, PTL

\* wait_dequeue (line 724) sleeps through no element.
THEOREM BlocksOnlyWhenEmpty ==
  ASSUME NoBoundaryDeadline PROVE Spec => []BlockedOnlyWhenEmpty
<1>1. IInv => BlockedOnlyWhenEmpty
  <2> SUFFICES ASSUME IInv, wpc = "block", fifo # <<>>, bpc = "idle" PROVE kernel > 0
    BY DEF BlockedOnlyWhenEmpty
  <2>1. Len(fifo) > 0
    BY EmptySeq DEF IInv, TypeOK
  <2> QED
    BY <2>1 DEF IInv, TypeOK, Control, Pairing, HoldsPermit, Sema!TypeOK, Sema!SemaphoreAccounts,
                Sema!Charged, Sema!Owed
<1> QED
  BY <1>1, InvariantHolds, PTL

-----------------------------------------------------------------------------
(* The refinement: which step of the code is which step of the promise *)

LEMMA InitSimulates == Init => Fifo!Init
  BY DEF Init, Sema!Init, Fifo!Init, HoldsPermit, AnsweredFalse, NoElement, Fifo!NoElement

LEMMA ProducerSimulates ==
  ASSUME IInv, IInv', InnerEnqueue \/ InnerEnqueueFails \/ Signal \/ SignalPost
  PROVE  [Fifo!Next]_Fifo!vars
<1> USE DEF HoldsPermit, AnsweredFalse, NoElement, Fifo!NoElement, consVars, semaVars,
            Fifo!prodVars, Fifo!consVars
<1>1. CASE InnerEnqueue
  <2>1. Fifo!Put
    BY <1>1 DEF InnerEnqueue, Fifo!Put
  <2> QED
    BY <2>1 DEF Fifo!Next
<1>2. CASE InnerEnqueueFails
  <2>1. Fifo!Refuse
    BY <1>2 DEF InnerEnqueueFails, Fifo!Refuse
  <2> QED
    BY <2>1 DEF Fifo!Next
<1>3. CASE Signal
  <2>1. Fifo!Offer
    BY <1>3 DEF Signal, Sema!SignalAdd, Fifo!Offer, IInv, TypeOK, Sema!TypeOK
  <2> QED
    BY <2>1 DEF Fifo!Next
<1>4. CASE SignalPost
  BY <1>4 DEF SignalPost, Sema!SignalPost, Fifo!vars
<1> QED
  BY <1>1, <1>2, <1>3, <1>4

\* A wait is a stutter but for the restored count that answers "false".
LEMMA WaitSimulates ==
  ASSUME NoBoundaryDeadline, IInv, IInv', DequeueWait
  PROVE  [Fifo!Next]_Fifo!vars
<1> USE DEF HoldsPermit, AnsweredFalse, NoElement, Fifo!NoElement, consVars, prodVars,
            Fifo!prodVars, Fifo!consVars, Fifo!vars, Sema!WGoto, Sema!WReturn
<1>1. /\ cpc = "wait" /\ wpc # "idle"
      /\ UNCHANGED <<fifo, sent, received, bpc, bret, cpc, cop, cret>>
      /\ UNCHANGED signals /\ acquired \in Nat /\ signals \in Nat
  BY DEF DequeueWait, IInv, TypeOK, Sema!TypeOK, Sema!Waiting, Sema!TakeSeen, Sema!Spin,
         Sema!Announce, Sema!KernelWait, Sema!ArmTimer, Sema!KernelTimedWait, Sema!Timeout,
         Sema!Restore, Sema!AnnounceAgain, Sema!TryKernel
<1>2. CASE Sema!Restore /\ count < 0
  <2>1. wpc' = "idle" /\ wret' = "false" /\ acquired' = acquired
    BY <1>2 DEF Sema!Restore
  <2>2. signals - acquired = 0
    BY <1>2 DEF Sema!Restore, IInv, TypeOK, Sema!TypeOK, Sema!SemaphoreAccounts, Sema!Charged
  <2>3. cop \notin {"idle", "wait_dequeue"}
    BY <1>1, <1>2, QueueAssumption
       DEF QueueAssumption, Sema!Restore, IInv, Control, SemaOp
  <2>4. Fifo!AnswerFalse
    BY <1>1, <2>1, <2>2, <2>3 DEF Fifo!AnswerFalse
  <2> QED
    BY <2>4 DEF Fifo!Next
<1>3. ASSUME wpc' # "idle", UNCHANGED acquired PROVE UNCHANGED Fifo!vars
  BY <1>1, <1>3
<1>4. ASSUME wpc' = "idle", wret' = "true", acquired' = acquired + 1 PROVE UNCHANGED Fifo!vars
  BY <1>1, <1>4
<1>5. CASE ~(Sema!Restore /\ count < 0)
  <2>1. \/ wpc' # "idle" /\ UNCHANGED acquired
        \/ wpc' = "idle" /\ wret' = "true" /\ acquired' = acquired + 1
    <3>1. Sema!Waiting
      BY DEF DequeueWait
    <3>2. CASE Sema!ArmTimer
      BY <3>2, DeadlineAccepted DEF Sema!ArmTimer
    <3>3. CASE ~Sema!ArmTimer
      BY <3>1, <3>3, <1>5
         DEF Sema!Waiting, Sema!TakeSeen, Sema!Spin, Sema!Announce, Sema!KernelWait,
             Sema!KernelTimedWait, Sema!Timeout, Sema!Restore, Sema!AnnounceAgain, Sema!TryKernel
    <3> QED
      BY <3>2, <3>3
  <2> QED
    BY <2>1, <1>3, <1>4
<1> QED
  BY <1>2, <1>5

LEMMA ConsumerSimulates ==
  ASSUME IInv, IInv',
         (\E op \in DequeueOps : DequeueCall(op)) \/ DequeueWaited \/ InnerDequeue \/ Peek
  PROVE  [Fifo!Next]_Fifo!vars
<1> USE DEF HoldsPermit, AnsweredFalse, NoElement, Fifo!NoElement, prodVars, semaVars,
            Fifo!prodVars, Fifo!consVars
<1>1. ASSUME NEW op \in DequeueOps, DequeueCall(op) PROVE [Fifo!Next]_Fifo!vars
  <2>1. CASE count > 0 \/ SemaOp(op) # "tryWait"
    <3>1. wpc' # "idle" /\ UNCHANGED <<signals, acquired>>
      BY <1>1, <2>1 DEF DequeueCall, Sema!WaitCall
    <3>2. Fifo!DequeueCall(op)
      BY <1>1, <3>1 DEF DequeueCall, Fifo!DequeueCall
    <3> QED
      BY <3>2 DEF Fifo!Next
  <2>2. CASE ~(count > 0) /\ SemaOp(op) = "tryWait"
    <3>1. wpc' = "idle" /\ wret' = "false" /\ UNCHANGED <<signals, acquired>>
      BY <1>1, <2>2 DEF DequeueCall, Sema!WaitCall
    <3>2. op \in {"try_dequeue", "pop"}
      BY <2>2 DEF SemaOp
    <3>3. signals - acquired = 0
      BY <1>1, <2>2 DEF DequeueCall, Sema!WaitCall, IInv, TypeOK, Sema!TypeOK,
                        Sema!SemaphoreAccounts, Sema!Charged
    <3>4. Fifo!AnswerAtOnce(op)
      BY <1>1, <3>1, <3>2, <3>3 DEF DequeueCall, Fifo!AnswerAtOnce
    <3> QED
      BY <3>4 DEF Fifo!Next
  <2> QED
    BY <2>1, <2>2
<1>2. CASE DequeueWaited
  BY <1>2 DEF DequeueWaited, Fifo!vars
<1>3. CASE InnerDequeue
  <2>1. fifo # <<>>
    BY <1>3 DEF InnerDequeue, IInv, Pairing
  <2>2. cop # "idle"
    BY <1>3, QueueAssumption DEF QueueAssumption, InnerDequeue, IInv, Control
  <2>3. signals - acquired + 1 > 0 /\ signals \in Nat /\ acquired \in Nat
    BY <1>3 DEF InnerDequeue, IInv, TypeOK, Control, Sema!TypeOK, Sema!SemaphoreAccounts, Sema!Charged
  <2>4. Fifo!DequeueDone
    BY <1>3, <2>1, <2>2, <2>3 DEF InnerDequeue, Fifo!DequeueDone
  <2> QED
    BY <2>4 DEF Fifo!Next
<1>4. CASE Peek
  <2>1. Fifo!Peek
    BY <1>4 DEF Peek, Fifo!Peek
  <2> QED
    BY <2>1 DEF Fifo!Next
<1> QED
  BY <1>1, <1>2, <1>3, <1>4

\* BlockingReaderWriterQueue (readerwriterqueue.h, lines 549-815) keeps the
\* promise of SpscBlockingFifo for every size, operation set and number of
\* elements: one FIFO with atomic calls, "false" only when nothing is available.
THEOREM KeepsItsPromise ==
  ASSUME NoBoundaryDeadline PROVE Spec => ImplementsBlockingFifo
<1>1. Init => Fifo!Init
  BY InitSimulates
<1>2. IInv /\ IInv' /\ [Next]_vars => [Fifo!Next]_Fifo!vars
  <2> SUFFICES ASSUME IInv, IInv', [Next]_vars PROVE [Fifo!Next]_Fifo!vars
    OBVIOUS
  <2>1. CASE InnerEnqueue \/ InnerEnqueueFails \/ Signal \/ SignalPost
    BY <2>1, ProducerSimulates
  <2>2. CASE DequeueWait
    BY <2>2, WaitSimulates
  <2>3. CASE (\E op \in DequeueOps : DequeueCall(op)) \/ DequeueWaited \/ InnerDequeue \/ Peek
    BY <2>3, ConsumerSimulates
  <2>4. CASE UNCHANGED vars
    BY <2>4 DEF vars, prodVars, consVars, semaVars, HoldsPermit, AnsweredFalse,
                Fifo!vars, Fifo!prodVars, Fifo!consVars
  <2> QED
    BY <2>1, <2>2, <2>3, <2>4 DEF Next
<1> QED
  BY <1>1, <1>2, InvariantHolds, PTL DEF Spec, ImplementsBlockingFifo, Fifo!Spec
=============================================================================
