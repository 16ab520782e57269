-------------------------- MODULE SpscBlockingFifo --------------------------
(***************************************************************************)
(* What moodycamel::BlockingReaderWriterQueue promises its two threads,    *)
(* taken from the contracts in readerwriterqueue.h: an element becomes     *)
(* available at one instant of the enqueue call; a dequeue call returns    *)
(* the oldest element, and answers "false" only at an instant at which     *)
(* none was available, wait_dequeue never.                                 *)
(*                                                                         *)
(* Elements are numbered as in SpscFifo.                                   *)
(***************************************************************************)
EXTENDS Integers, Sequences

CONSTANTS
  MaxSize,      \* the constructor's maxSize
  DequeueOps    \* subset of {"try_dequeue", "pop", "wait_dequeue", "wait_dequeue_timed"}

VARIABLES
  fifo,         \* the elements in the queue, oldest first
  sent,         \* how many elements were ever enqueued
  available,    \* how many elements a dequeue call may take
  offering,     \* is an enqueue call about to make its element available?
  pret,         \* result of the last enqueue call
  cdeq,         \* the consumer's current call, or "idle"
  cret          \* what its last call answered: an element, or NoElement

prodVars == <<sent, offering, pret>>
consVars == <<cdeq, cret>>
vars == <<fifo, available, prodVars, consVars>>

NoElement == 0

Init ==
  /\ fifo = <<>> /\ available = 0
  /\ sent = 0 /\ offering = FALSE /\ pret = "none"
  /\ cdeq = "idle" /\ cret = NoElement

-----------------------------------------------------------------------------
\* Visible to peek, but not yet available
Put ==
  /\ ~offering
  /\ fifo' = Append(fifo, sent + 1)
  /\ sent' = sent + 1
  /\ offering' = TRUE
  /\ UNCHANGED <<available, pret, consVars>>

Offer ==
  /\ offering
  /\ available' = available + 1
  /\ offering' = FALSE
  /\ pret' = "true"
  /\ UNCHANGED <<fifo, sent, consVars>>

\* An enqueue fails only if the queue holds maxSize elements.
Refuse ==
  /\ ~offering
  /\ Len(fifo) >= MaxSize
  /\ pret' = "false"
  /\ UNCHANGED <<fifo, available, sent, offering, consVars>>

DequeueCall(op) ==
  /\ cdeq = "idle"
  /\ cdeq' = op
  /\ UNCHANGED <<fifo, available, prodVars, cret>>

\* tryWait may answer at once.
AnswerAtOnce(op) ==
  /\ cdeq = "idle" /\ op \in {"try_dequeue", "pop"}
  /\ available = 0
  /\ cret' = NoElement
  /\ UNCHANGED <<fifo, available, prodVars, cdeq>>

DequeueDone ==
  /\ cdeq # "idle"
  /\ available > 0
  /\ available' = available - 1
  /\ cret' = Head(fifo)
  /\ fifo' = Tail(fifo)
  /\ cdeq' = "idle"
  /\ UNCHANGED prodVars

AnswerFalse ==
  /\ cdeq \notin {"idle", "wait_dequeue"}
  /\ available = 0
  /\ cret' = NoElement
  /\ cdeq' = "idle"
  /\ UNCHANGED <<fifo, available, prodVars>>

Peek ==
  /\ cdeq = "idle"
  /\ cret' = IF fifo = <<>> THEN NoElement ELSE Head(fifo)
  /\ UNCHANGED <<fifo, available, prodVars, cdeq>>

Next ==
  \/ Put \/ Offer \/ Refuse
  \/ \E op \in DequeueOps : DequeueCall(op) \/ AnswerAtOnce(op)
  \/ DequeueDone \/ AnswerFalse \/ Peek

Spec == Init /\ [][Next]_vars
=============================================================================
