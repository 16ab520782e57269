---------------------------- MODULE CircularQueue ----------------------------
(***************************************************************************)
(* queue (include/queue.hh): a boost::circular_buffer behind a mutex, with *)
(* a condition variable and a count of unread items.  A pop reads the item *)
(* at index m_unread - 1 and then removes the one at the back; the two are *)
(* the same item only while m_unread is the size of the container.  The    *)
(* constructor leaves m_unread uninitialised, and push counts an item up   *)
(* although a full container drops one.                                    *)
(*                                                                         *)
(* The lock covers all of a pop and all of a push but the notification, so *)
(* a critical section is one step.  Items are numbered as they are pushed. *)
(***************************************************************************)
EXTENDS Integers, Sequences, FiniteSets

CONSTANTS
  Pushers,         \* threads that call push
  Poppers,         \* threads that call try_pop and wait_and_pop
  Capacity,        \* argument of the constructor
  Uninitialised,   \* values m_unread may have before the first push
  SizeTypeValues,  \* 2^w for a size_type of w bits
  MaxItems         \* bound: items pushed in total

Threads == Pushers \cup Poppers

ASSUME QueueAssumption ==
  /\ Pushers \cap Poppers = {} /\ IsFiniteSet(Threads)
  /\ Capacity \in Nat \ {0}
  /\ SizeTypeValues \in Nat /\ SizeTypeValues > Capacity
  /\ Uninitialised \subseteq 0..SizeTypeValues - 1
  /\ MaxItems \in Nat

VARIABLES
  m_container,   \* front (newest) first
  m_unread,
  waiters,       \* threads blocked in condition_variable.wait
  pc,            \* control of each thread
  popped,        \* what the last pop of all delivered
  pushed,        \* history: items pushed
  removed,       \* history: items removed by pops
  garbage        \* history: the value m_unread began with

vars == <<m_container, m_unread, waiters, pc, popped, pushed, removed, garbage>>

NoItem == 0
Invalid == -1   \* an index beyond the end: any value, or a failed BOOST_ASSERT

Init ==
  /\ m_container = <<>>
  /\ garbage \in Uninitialised
  /\ m_unread = garbage
  /\ waiters = {}
  /\ pc = [t \in Threads |-> "idle"]
  /\ popped = NoItem
  /\ pushed = 0 /\ removed = 0

-----------------------------------------------------------------------------
Goto(t, from, to) == pc[t] = from /\ pc' = [pc EXCEPT ![t] = to]

\* boost::circular_buffer::push_front: a full buffer drops its back.
PushFront(c, x) == <<x>> \o SubSeq(c, 1, IF Len(c) = Capacity THEN Capacity - 1 ELSE Len(c))

\* mutant: only the push into an empty container is announced
PushQuietly(t) ==
  /\ pushed < MaxItems
  /\ Goto(t, "idle", IF m_container = <<>> THEN "notify" ELSE "idle")
  /\ m_container' = PushFront(m_container, pushed + 1)
  /\ m_unread' = (m_unread + 1) % SizeTypeValues
  /\ pushed' = pushed + 1
  /\ UNCHANGED <<waiters, popped, removed, garbage>>

\* push, up to the unlock
Push(t) ==
  /\ pushed < MaxItems
  /\ Goto(t, "idle", "notify")
  /\ m_container' = PushFront(m_container, pushed + 1)
  /\ m_unread' = (m_unread + 1) % SizeTypeValues
  /\ pushed' = pushed + 1
  /\ UNCHANGED <<waiters, popped, removed, garbage>>

\* notify_one, after the unlock
PushNotify(t) ==
  /\ pc[t] = "notify"
  /\ \/ /\ waiters = {}
        /\ pc' = [pc EXCEPT ![t] = "idle"]
        /\ UNCHANGED waiters
     \/ \E w \in waiters :
          /\ pc' = [pc EXCEPT ![t] = "idle", ![w] = "woken"]
          /\ waiters' = waiters \ {w}
  /\ UNCHANGED <<m_container, m_unread, popped, pushed, removed, garbage>>

-----------------------------------------------------------------------------
\* mutant: reads before it decrements
PopUnreadPostDecrement ==
  /\ m_container # <<>>
  /\ popped' = IF m_unread < Len(m_container) THEN m_container[m_unread + 1] ELSE Invalid
  /\ m_unread' = (m_unread - 1) % SizeTypeValues
  /\ m_container' = SubSeq(m_container, 1, Len(m_container) - 1)
  /\ removed' = removed + 1

\* popped_value = m_container[--m_unread]; m_container.pop_back()
PopUnread ==
  /\ m_container # <<>>
  /\ m_unread' = (m_unread - 1) % SizeTypeValues
  /\ popped' = IF m_unread' < Len(m_container) THEN m_container[m_unread' + 1] ELSE Invalid
  /\ m_container' = SubSeq(m_container, 1, Len(m_container) - 1)
  /\ removed' = removed + 1

TryPop(t) ==
  /\ pc[t] = "idle"
  /\ \/ PopUnread
     \/ /\ m_container = <<>>
        /\ popped' = NoItem   \* returns false
        /\ UNCHANGED <<m_container, m_unread, removed>>
  /\ UNCHANGED <<waiters, pc, pushed, garbage>>

\* while(m_container.empty()) condition_variable.wait(lock); entered by the
\* call, and again by a thread that was woken.
WaitAndPop(t) ==
  /\ \/ /\ PopUnread
        /\ \E from \in {"idle", "woken"} : Goto(t, from, "idle")
        /\ UNCHANGED waiters
     \/ /\ m_container = <<>>
        /\ \E from \in {"idle", "woken"} : Goto(t, from, "wait")
        /\ waiters' = waiters \cup {t}
        /\ UNCHANGED <<m_container, m_unread, popped, removed>>
  /\ UNCHANGED <<pushed, garbage>>

\* A condition variable may wake a waiter without a notification.
SpuriousWakeup(t) ==
  /\ Goto(t, "wait", "woken")
  /\ waiters' = waiters \ {t}
  /\ UNCHANGED <<m_container, m_unread, popped, pushed, removed, garbage>>

Next ==
  \/ \E t \in Pushers : Push(t) \/ PushNotify(t)
  \/ \E t \in Poppers : TryPop(t) \/ WaitAndPop(t) \/ SpuriousWakeup(t)

Spec == Init /\ [][Next]_vars

-----------------------------------------------------------------------------
TypeOK ==
  /\ m_container \in Seq(Nat \ {0}) /\ Len(m_container) <= Capacity
  /\ m_unread \in 0..SizeTypeValues - 1
  /\ waiters = {t \in Poppers : pc[t] = "wait"}
  /\ pc \in [Threads -> {"idle", "notify", "wait", "woken"}]
  /\ \A t \in Pushers : pc[t] \in {"idle", "notify"}
  /\ popped \in Int
  /\ pushed \in Nat /\ removed \in Nat /\ garbage \in Uninitialised

Overwritten == pushed - removed - Len(m_container)

\* m_unread is off by the garbage it began with and by every item overwritten so
\* far, unless these happen to add up to a multiple of 2^w.
Drifted == (garbage + Overwritten) % SizeTypeValues # 0

\* While m_unread is off, every pop removes an item that it does not deliver: what
\* it reads is newer, or beyond the end (lines 45-46 and 56-57).  One overwritten
\* item is enough, and neither pushes nor pops, nor an empty container, set the
\* count right again.
DriftedPopsMiss ==
  [][removed' # removed /\ Drifted =>
       popped' = Invalid \/ popped' > m_container[Len(m_container)]]_vars

\* If the count began at zero and no item was overwritten yet, items are popped
\* in order, each once, by however many threads.
InOrderUntilOverwritten ==
  garbage = 0 /\ Overwritten = 0 /\ popped # NoItem => popped = removed

\* Notifications still to come and threads on their way out of a wait
Wakeups == {t \in Threads : pc[t] \in {"notify", "woken"}}

\* No lost wake-up: while a thread waits, every item in the container is covered
\* by a notification still to come or by a thread already woken.
ItemsWakeWaiters == waiters # {} => Len(m_container) <= Cardinality(Wakeups)
=============================================================================
