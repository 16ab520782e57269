---------------------------- MODULE BoundedBuffer ----------------------------
(***************************************************************************)
(* bounded_buffer (include/bounded_buffer.hh): a boost::circular_buffer    *)
(* behind a mutex, with a condition variable for readers that find it      *)
(* empty.  push_front never blocks: on a full buffer it overwrites the     *)
(* oldest item.  pop_back waits for an item and reads the oldest one; it   *)
(* leaves the item where it is.                                            *)
(*                                                                         *)
(* Items are numbered 1, 2, 3, ... in the order in which they enter the    *)
(* buffer, so `container' holds consecutive numbers, newest first.         *)
(***************************************************************************)
EXTENDS Integers, Sequences

CONSTANTS
  Pushers,   \* threads that call push_front
  Poppers,   \* threads that call pop_back
  NoThread,
  Capacity,  \* capacity given to the constructor
  MaxItems   \* bound: items pushed in total

Threads == Pushers \cup Poppers

ASSUME BufferAssumption ==
  /\ Pushers \cap Poppers = {}
  /\ NoThread \notin Threads
  /\ Capacity \in Nat \ {0}
  /\ MaxItems \in Nat

VARIABLES
  container,  \* m_container, front first
  owner,      \* the thread that holds m_mutex, or NoThread
  waiters,    \* the threads blocked in m_not_empty.wait
  pc,         \* control of each thread
  item,       \* what the thread's last pop_back delivered, 0 before the first
  pushed      \* history: how many items have been pushed

vars == <<container, owner, waiters, pc, item, pushed>>

Init ==
  /\ container = <<>>
  /\ owner = NoThread
  /\ waiters = {}
  /\ pc = [t \in Threads |-> "idle"]
  /\ item = [t \in Threads |-> 0]
  /\ pushed = 0

-----------------------------------------------------------------------------
Goto(t, from, to) == pc[t] = from /\ pc' = [pc EXCEPT ![t] = to]

\* boost::mutex
Lock(t) == owner = NoThread /\ owner' = t
Unlock(t) == owner = t /\ owner' = NoThread

\* boost::condition::notify_one: one waiter, if any, goes on to re-acquire the
\* mutex.
NotifyOne(t, to) ==
  \/ /\ waiters = {}
     /\ pc' = [pc EXCEPT ![t] = to]
     /\ UNCHANGED waiters
  \/ \E w \in waiters :
       /\ waiters' = waiters \ {w}
       /\ pc' = [pc EXCEPT ![t] = to, ![w] = "popRelock"]

\* mutant: a full buffer grows
PushFrontUnbounded(c, x) == <<x>> \o c

\* boost::circular_buffer::push_front: a full buffer drops its back.
PushFront(c, x) == <<x>> \o SubSeq(c, 1, IF Len(c) = Capacity THEN Capacity - 1 ELSE Len(c))

(* push_front *)

PushLock(t) ==
  /\ pushed < MaxItems
  /\ Goto(t, "idle", "pushInsert")
  /\ Lock(t)
  /\ UNCHANGED <<container, waiters, item, pushed>>

PushInsert(t) ==
  /\ Goto(t, "pushInsert", "pushUnlock")
  /\ container' = PushFront(container, pushed + 1)
  /\ pushed' = pushed + 1
  /\ UNCHANGED <<owner, waiters, item>>

PushUnlock(t) ==
  /\ Goto(t, "pushUnlock", "pushNotify")
  /\ Unlock(t)
  /\ UNCHANGED <<container, waiters, item, pushed>>

PushNotify(t) ==
  /\ pc[t] = "pushNotify"
  /\ NotifyOne(t, "idle")
  /\ UNCHANGED <<container, owner, item, pushed>>

(* pop_back *)

PopLock(t) ==
  /\ Goto(t, "idle", "popCheck")
  /\ Lock(t)
  /\ UNCHANGED <<container, waiters, item, pushed>>

\* while(m_container.empty()) m_not_empty.wait(lock); waiting and releasing the
\* mutex are one step.
PopWait(t) ==
  /\ container = <<>>
  /\ Goto(t, "popCheck", "popWaiting")
  /\ Unlock(t)
  /\ waiters' = waiters \cup {t}
  /\ UNCHANGED <<container, item, pushed>>

\* A condition variable may wake a waiter without a notification.
SpuriousWakeup(t) ==
  /\ t \in waiters
  /\ Goto(t, "popWaiting", "popRelock")
  /\ waiters' = waiters \ {t}
  /\ UNCHANGED <<container, owner, item, pushed>>

PopRelock(t) ==
  /\ Goto(t, "popRelock", "popCheck")
  /\ Lock(t)
  /\ UNCHANGED <<container, waiters, item, pushed>>

\* mutant: reads the front
PopReadFront(t) ==
  /\ container # <<>>
  /\ Goto(t, "popCheck", "popNotify")
  /\ item' = [item EXCEPT ![t] = container[1]]
  /\ UNCHANGED <<container, owner, waiters, pushed>>

PopRead(t) ==
  /\ container # <<>>
  /\ Goto(t, "popCheck", "popNotify")
  /\ item' = [item EXCEPT ![t] = container[Len(container)]]
  /\ UNCHANGED <<container, owner, waiters, pushed>>

\* mutant: the reader does not pass the notification on
PopNotifyNobody(t) ==
  /\ Goto(t, "popNotify", "popUnlock")
  /\ UNCHANGED <<container, owner, waiters, item, pushed>>

\* The reader passes the notification on: the item is still there.
PopNotify(t) ==
  /\ pc[t] = "popNotify"
  /\ NotifyOne(t, "popUnlock")
  /\ UNCHANGED <<container, owner, item, pushed>>

PopUnlock(t) ==
  /\ Goto(t, "popUnlock", "idle")
  /\ Unlock(t)
  /\ UNCHANGED <<container, waiters, item, pushed>>

-----------------------------------------------------------------------------
Push(t) == PushInsert(t) \/ PushUnlock(t) \/ PushNotify(t)
Pop(t) == PopWait(t) \/ PopRead(t) \/ PopNotify(t) \/ PopUnlock(t)

Next ==
  \/ \E t \in Pushers : PushLock(t) \/ Push(t)
  \/ \E t \in Poppers : PopLock(t) \/ Pop(t) \/ PopRelock(t) \/ SpuriousWakeup(t)

Spec == Init /\ [][Next]_vars

\* A thread that holds the mutex or has left it goes on; the mutex is handed to
\* a thread that keeps asking for it sooner or later.  No fairness for waiting
\* threads: they move only if somebody wakes them.
Fairness ==
  /\ \A t \in Pushers : WF_vars(Push(t))
  /\ \A t \in Poppers : WF_vars(Pop(t)) /\ SF_vars(PopRelock(t))

FairSpec == Spec /\ Fairness

-----------------------------------------------------------------------------
Holding == {"pushInsert", "pushUnlock", "popCheck", "popNotify", "popUnlock"}

TypeOK ==
  /\ container \in Seq(Nat \ {0})
  /\ owner \in Threads \cup {NoThread}
  /\ waiters = {t \in Poppers : pc[t] = "popWaiting"}
  /\ pc \in [Threads -> Holding \cup {"idle", "pushNotify", "popWaiting", "popRelock"}]
  /\ item \in [Threads -> Nat]
  /\ pushed \in Nat

\* No two threads are inside the critical sections at once.
MutualExclusion ==
  \A t \in Threads : pc[t] \in Holding <=> owner = t

\* The threads whose next steps lead to a notify_one
WillNotify == {"pushUnlock", "pushNotify", "popRelock", "popCheck", "popNotify"}

\* No lost wake-up: while a reader sleeps although there are items, some thread
\* is on its way to a notify_one.  One push is enough for any number of waiting
\* readers, because each reader passes the notification on (lines 31 and 49).
NoLostWakeup ==
  container # <<>> /\ waiters # {} => \E t \in Threads : pc[t] \in WillNotify

\* The buffer holds the newest items, up to its capacity, in order.
HoldsNewest ==
  /\ Len(container) = (IF pushed < Capacity THEN pushed ELSE Capacity)
  /\ \A i \in 1..Len(container) : container[i] = pushed - i + 1

\* What a reader has read is never older than the last item overwritten at the
\* time, and it is an item that was really pushed.
ReadsTheOldest ==
  \A t \in Poppers :
    pc[t] \in {"popNotify", "popUnlock"} =>
      item[t] = (IF pushed < Capacity THEN 1 ELSE pushed - Capacity + 1)

\* Once there is an item, every pop_back returns.
EveryReaderReturns ==
  \A t \in Poppers : (pc[t] # "idle" /\ container # <<>>) ~> (pc[t] = "idle")
=============================================================================
