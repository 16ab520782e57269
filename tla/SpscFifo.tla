------------------------------ MODULE SpscFifo ------------------------------
(***************************************************************************)
(* What moodycamel::ReaderWriterQueue promises its two threads, taken from *)
(* the contracts in readerwriterqueue.h: one producer thread and one       *)
(* consumer thread share a FIFO; every call takes effect at one instant    *)
(* between its start and its return.                                       *)
(*                                                                         *)
(* Elements are numbered 1, 2, 3, ... in the order in which they are       *)
(* enqueued, so a lost, duplicated or reordered element is visible.        *)
(***************************************************************************)
EXTENDS Integers, Sequences

CONSTANT MaxSize   \* the constructor's maxSize

VARIABLES
  fifo,         \* the elements in the queue, oldest first
  sent,         \* how many elements were ever enqueued
  penq,         \* the producer's current call, or "idle"
  pret,         \* how its last call ended
  heldAtCall,   \* Len(fifo) when the current or last enqueue call began
  cdeq,         \* the consumer's current call, or "idle"
  cret,         \* what its last call answered: an element, or NoElement
  emptyAtCall   \* was fifo empty when the current or last dequeue call began

prodVars == <<penq, pret, heldAtCall>>
consVars == <<cdeq, cret, emptyAtCall>>
vars == <<fifo, sent, prodVars, consVars>>

NoElement == 0

EnqueueOps == {"enqueue", "try_enqueue"}
DequeueOps == {"try_dequeue", "pop", "peek"}

TypeOK ==
  /\ fifo \in Seq(Nat \ {0})
  /\ sent \in Nat
  /\ penq \in EnqueueOps \cup {"idle"}
  /\ pret \in {"none", "ok", "refused", "nomem"}
  /\ heldAtCall \in Nat
  /\ cdeq \in DequeueOps \cup {"idle"}
  /\ cret \in Nat
  /\ emptyAtCall \in BOOLEAN

Init ==
  /\ fifo = <<>>
  /\ sent = 0
  /\ penq = "idle" /\ pret = "none" /\ heldAtCall = 0
  /\ cdeq = "idle" /\ cret = NoElement /\ emptyAtCall = TRUE

-----------------------------------------------------------------------------
EnqueueCall(op) ==
  /\ penq = "idle"
  /\ penq' = op
  /\ heldAtCall' = Len(fifo)
  /\ UNCHANGED <<fifo, sent, pret, consVars>>

EnqueueDone ==
  /\ penq # "idle"
  /\ fifo' = Append(fifo, sent + 1)
  /\ sent' = sent + 1
  /\ penq' = "idle"
  /\ pret' = "ok"
  /\ UNCHANGED <<heldAtCall, consVars>>

\* try_enqueue may refuse only when the queue held maxSize elements.
TryEnqueueRefused ==
  /\ penq = "try_enqueue"
  /\ heldAtCall >= MaxSize
  /\ penq' = "idle"
  /\ pret' = "refused"
  /\ UNCHANGED <<fifo, sent, heldAtCall, consVars>>

\* enqueue may fail only for want of memory, and it wants memory only when
\* the queue held maxSize elements.
EnqueueOutOfMemory ==
  /\ penq = "enqueue"
  /\ heldAtCall >= MaxSize
  /\ penq' = "idle"
  /\ pret' = "nomem"
  /\ UNCHANGED <<fifo, sent, heldAtCall, consVars>>

DequeueCall(op) ==
  /\ cdeq = "idle"
  /\ cdeq' = op
  /\ emptyAtCall' = (fifo = <<>>)
  /\ UNCHANGED <<fifo, sent, cret, prodVars>>

DequeueDone ==
  /\ cdeq \in {"try_dequeue", "pop"}
  /\ fifo # <<>>
  /\ cret' = Head(fifo)
  /\ fifo' = Tail(fifo)
  /\ cdeq' = "idle"
  /\ UNCHANGED <<sent, emptyAtCall, prodVars>>

PeekDone ==
  /\ cdeq = "peek"
  /\ fifo # <<>>
  /\ cret' = Head(fifo)
  /\ cdeq' = "idle"
  /\ UNCHANGED <<fifo, sent, emptyAtCall, prodVars>>

\* "Empty" may be answered only if the queue was empty at some instant of the
\* call; as only the consumer removes elements, that is: when it was made.
AnswerEmpty ==
  /\ cdeq # "idle"
  /\ emptyAtCall
  /\ cret' = NoElement
  /\ cdeq' = "idle"
  /\ UNCHANGED <<fifo, sent, emptyAtCall, prodVars>>

Next ==
  \/ \E op \in EnqueueOps : EnqueueCall(op)
  \/ EnqueueDone
  \/ TryEnqueueRefused
  \/ EnqueueOutOfMemory
  \/ \E op \in DequeueOps : DequeueCall(op)
  \/ DequeueDone
  \/ PeekDone
  \/ AnswerEmpty

Spec == Init /\ [][Next]_vars
=============================================================================
