---------------------- MODULE BlockingReaderWriterQueue ----------------------
(***************************************************************************)
(* moodycamel::BlockingReaderWriterQueue (include/readerwriterqueue.h): a  *)
(* ReaderWriterQueue and a LightweightSemaphore with one permit per        *)
(* element.  The inner queue is taken at its abstract specification: its   *)
(* calls take effect at one instant (SpscFifo, which ReaderWriterQueue     *)
(* implements).  The semaphore is taken step by step.                      *)
(***************************************************************************)
EXTENDS Integers, Sequences

CONSTANTS
  MaxSize,        \* argument of the constructor
  DequeueOps,     \* subset of {"try_dequeue", "pop", "wait_dequeue", "wait_dequeue_timed"}
  NsecsIn1Sec, ClockNsecs, TimeoutNsecs,   \* see LightweightSemaphore
  MaxElements     \* bound: elements the producer offers

ASSUME QueueAssumption ==
  /\ MaxSize \in Nat \ {0}
  /\ DequeueOps \subseteq {"try_dequeue", "pop", "wait_dequeue", "wait_dequeue_timed"}
  /\ NsecsIn1Sec \in Nat \ {0}
  /\ ClockNsecs \subseteq 0..NsecsIn1Sec - 1
  /\ TimeoutNsecs \subseteq 0..NsecsIn1Sec - 1
  /\ MaxElements \in Nat

VARIABLES
  fifo,           \* the elements of the inner queue, oldest first
  sent, received, \* elements enqueued, elements dequeued
  bpc,            \* control of the producer: "idle", "signal" or "post"
  bret,           \* result of its last call
  cpc, cop,       \* control and operation of the consumer
  cret,           \* what its last call delivered, NoElement for false
  count, kernel, spc, wpc, wop, wret, signals, acquired   \* the semaphore

NoElement == 0

Sema == INSTANCE LightweightSemaphore WITH
          WaitOps <- {"tryWait", "wait", "timedWait"},
          SignalCounts <- {1},
          MaxSignals <- MaxElements

semaVars == <<count, kernel, spc, wpc, wop, wret, signals, acquired>>
prodVars == <<sent, bpc, bret>>
consVars == <<cpc, cop, cret, received>>
vars == <<fifo, prodVars, consVars, semaVars>>

Init ==
  /\ fifo = <<>> /\ sent = 0 /\ received = 0
  /\ bpc = "idle" /\ bret = "none"
  /\ cpc = "idle" /\ cop = "none" /\ cret = NoElement
  /\ Sema!Init

-----------------------------------------------------------------------------
(* enqueue, try_enqueue *)

InnerEnqueue ==
  /\ bpc = "idle" /\ sent < MaxElements
  /\ fifo' = Append(fifo, sent + 1)
  /\ sent' = sent + 1
  /\ bpc' = "signal"
  /\ UNCHANGED <<bret, consVars, semaVars>>

\* mutant: a failed enqueue is signalled too
InnerEnqueueFailsSignalled ==
  /\ bpc = "idle" /\ sent < MaxElements
  /\ Len(fifo) >= MaxSize
  /\ bpc' = "signal"
  /\ UNCHANGED <<fifo, sent, bret, consVars, semaVars>>

\* try_enqueue without room, enqueue without memory: nothing is signalled.
InnerEnqueueFails ==
  /\ bpc = "idle" /\ sent < MaxElements
  /\ Len(fifo) >= MaxSize
  /\ bret' = "false"
  /\ UNCHANGED <<fifo, sent, bpc, consVars, semaVars>>

\* mutant: signals only when the queue was empty
SignalFirstOnly ==
  /\ bpc = "signal"
  /\ IF Len(fifo) > 1 THEN UNCHANGED semaVars ELSE Sema!SignalAdd(1)
  /\ IF spc' = "post"
     THEN bpc' = "post" /\ UNCHANGED bret
     ELSE bpc' = "idle" /\ bret' = "true"
  /\ UNCHANGED <<fifo, sent, consVars>>

Signal ==
  /\ bpc = "signal"
  /\ Sema!SignalAdd(1)
  /\ IF spc' = "post"
     THEN bpc' = "post" /\ UNCHANGED bret
     ELSE bpc' = "idle" /\ bret' = "true"
  /\ UNCHANGED <<fifo, sent, consVars>>

SignalPost ==
  /\ bpc = "post"
  /\ Sema!SignalPost
  /\ bpc' = "idle" /\ bret' = "true"
  /\ UNCHANGED <<fifo, sent, consVars>>

-----------------------------------------------------------------------------
(* try_dequeue, pop, wait_dequeue, wait_dequeue_timed *)

SemaOp(op) == IF op \in {"try_dequeue", "pop"} THEN "tryWait"
              ELSE IF op = "wait_dequeue" THEN "wait"
              ELSE "timedWait"

DequeueCall(op) ==
  /\ cpc = "idle" /\ op \in DequeueOps
  /\ Sema!WaitCall(SemaOp(op))
  /\ cpc' = "wait"
  /\ cop' = op
  /\ UNCHANGED <<fifo, prodVars, cret, received>>

DequeueWait ==
  /\ cpc = "wait"
  /\ Sema!Waiting
  /\ UNCHANGED <<fifo, prodVars, consVars>>

DequeueWaited ==
  /\ cpc = "wait" /\ wpc = "idle"
  /\ \/ wret = "true" /\ cpc' = "inner" /\ UNCHANGED cret
     \/ wret = "false" /\ cpc' = "idle" /\ cret' = NoElement
  /\ UNCHANGED <<fifo, prodVars, cop, received, semaVars>>

\* inner.try_dequeue(result); assert(success)
InnerDequeue ==
  /\ cpc = "inner"
  /\ \/ /\ fifo # <<>>
        /\ cret' = Head(fifo)
        /\ fifo' = Tail(fifo)
        /\ received' = received + 1
        /\ cpc' = "idle"
     \/ /\ fifo = <<>>
        /\ cpc' = "aborted"
        /\ UNCHANGED <<cret, fifo, received>>
  /\ UNCHANGED <<prodVars, cop, semaVars>>

\* peek looks at the inner queue and never at the semaphore.
Peek ==
  /\ cpc = "idle"
  /\ cret' = IF fifo = <<>> THEN NoElement ELSE Head(fifo)
  /\ UNCHANGED <<fifo, prodVars, cpc, cop, received, semaVars>>

SizeApprox == Sema!AvailableApprox

Next ==
  \/ InnerEnqueue \/ InnerEnqueueFails \/ Signal \/ SignalPost
  \/ \E op \in DequeueOps : DequeueCall(op)
  \/ DequeueWait \/ DequeueWaited \/ InnerDequeue
  \/ Peek

Spec == Init /\ [][Next]_vars

ConsumerStep == DequeueWait \/ DequeueWaited \/ InnerDequeue

\* Calls once begun go on; the consumer keeps calling, and its peeks in between
\* do not take the place of its dequeues (read_data in buf-moody.cxx).
Fairness ==
  /\ WF_vars(Signal) /\ WF_vars(SignalPost)
  /\ WF_vars(ConsumerStep)
  /\ SF_vars(\E op \in DequeueOps : DequeueCall(op))

FairSpec == Spec /\ Fairness

-----------------------------------------------------------------------------
TypeOK ==
  /\ fifo \in Seq(1..MaxElements)
  /\ sent \in 0..MaxElements /\ received \in 0..sent /\ Len(fifo) = sent - received
  /\ bpc \in {"idle", "signal", "post"} /\ bret \in {"none", "true", "false"}
  /\ cpc \in {"idle", "wait", "inner", "aborted"}
  /\ cret \in 0..MaxElements
  /\ Sema!TypeOK

\* The assertions after inner.try_dequeue and inner.pop (lines 713, 729, 748,
\* 786): a call that got a permit finds an element.
PermitFindsElement ==
  /\ cpc = "inner" => fifo # <<>>
  /\ cpc # "aborted"

\* Between calls there is exactly one permit per element: no race of enqueue,
\* time-out and dequeue leaves an element that no later call could get.
OnePermitPerElement ==
  bpc = "idle" /\ cpc = "idle" => count = Len(fifo)

\* size_approx never promises an element that is not there.
SizeApproxNeverTooLarge == SizeApprox <= Len(fifo)

\* The consumer is blocked in wait_dequeue only while there is nothing for it
\* or the producer still owes it a wake-up.
BlockedOnlyWhenEmpty ==
  wpc = "block" /\ fifo # <<>> => kernel > 0 \/ bpc # "idle"

\* Every element that was enqueued is dequeued by a consumer that keeps calling.
EveryElementDequeued ==
  \A n \in 1..MaxElements : (sent >= n) ~> (received >= n)

-----------------------------------------------------------------------------
\* A call holds its permit from the semaphore's return to the inner dequeue.
HoldsPermit ==
  cpc = "inner" \/ (cpc = "wait" /\ wpc = "idle" /\ wret = "true")

\* The semaphore has answered "false"; all that is left is to return.
AnsweredFalse == cpc = "wait" /\ wpc = "idle" /\ wret = "false"

Fifo == INSTANCE SpscBlockingFifo WITH
  available <- signals - acquired + (IF HoldsPermit THEN 1 ELSE 0),
  offering <- bpc = "signal",
  pret <- IF bpc = "post" THEN "true" ELSE bret,
  cdeq <- IF cpc = "idle" \/ AnsweredFalse THEN "idle" ELSE cop,
  cret <- IF AnsweredFalse THEN NoElement ELSE cret

\* The queue and its semaphore together are one FIFO with atomic calls: an
\* element becomes available when its permit is signalled, "false" is answered
\* only when there is nothing to take, and a call that got a permit gets the
\* oldest element.
ImplementsBlockingFifo == Fifo!Spec

=============================================================================
