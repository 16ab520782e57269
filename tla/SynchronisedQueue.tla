-------------------------- MODULE SynchronisedQueue --------------------------
(***************************************************************************)
(* SynchronisedQueue (include/SynchronisedQueue.hh): a std::queue, a mutex *)
(* and a condition variable.  Dequeue works under the mutex; the lock of   *)
(* Enqueue is commented out, so Enqueue's accesses to m_queue and m_size   *)
(* and its notify_one interleave with everything Dequeue does.             *)
(*                                                                         *)
(* Items are numbered 1, 2, 3, ... in the order in which they are pushed.  *)
(***************************************************************************)
EXTENDS Integers, Sequences

CONSTANTS
  Enqueuers, Dequeuers,  \* threads
  NoThread,
  MaxItems               \* bound: items enqueued in total

Threads == Enqueuers \cup Dequeuers

ASSUME ThreadAssumption ==
  /\ Enqueuers \cap Dequeuers = {}
  /\ NoThread \notin Threads
  /\ MaxItems \in Nat

VARIABLES
  queue,     \* m_queue, oldest item first
  size,      \* m_size
  owner,     \* the thread that holds m_mutex, or NoThread
  waiters,   \* the threads blocked in m_cond.wait
  pc,        \* control of each thread
  loaded,    \* m_size as a thread read it for its ++ or --
  result,    \* Dequeue's result
  pushed,    \* history: items pushed
  delivered, \* history: results returned by Dequeue, in order
  raced      \* history: an access of Enqueue met another thread's access

vars == <<queue, size, owner, waiters, pc, loaded, result, pushed, delivered, raced>>

Init ==
  /\ queue = <<>> /\ size = 0
  /\ owner = NoThread /\ waiters = {}
  /\ pc = [t \in Threads |-> "idle"]
  /\ loaded = [t \in Threads |-> 0]
  /\ result = [t \in Dequeuers |-> 0]
  /\ pushed = 0 /\ delivered = <<>> /\ raced = FALSE

-----------------------------------------------------------------------------
Goto(t, from, to) == pc[t] = from /\ pc' = [pc EXCEPT ![t] = to]

\* The enqueuers in the middle of their accesses
Enqueueing == {e \in Enqueuers : pc[e] \in {"enqLoad", "enqStore"}}

\* An access by enqueuer e that no lock orders with those of other threads.  Only
\* accesses within another call's are recorded: those that are unordered but far
\* apart are races to C++, too, but take effect one after the other.
Access(e) == raced' = (raced \/ owner # NoThread \/ Enqueueing \ {e} # {})

(* Enqueue *)

EnqueuePush(e) ==
  /\ pushed < MaxItems
  /\ Goto(e, "idle", "enqLoad")
  /\ queue' = Append(queue, pushed + 1)
  /\ pushed' = pushed + 1
  /\ Access(e)
  /\ UNCHANGED <<size, owner, waiters, loaded, result, delivered>>

EnqueueLoadSize(e) ==
  /\ Goto(e, "enqLoad", "enqStore")
  /\ loaded' = [loaded EXCEPT ![e] = size]
  /\ Access(e)
  /\ UNCHANGED <<queue, size, owner, waiters, result, pushed, delivered>>

EnqueueStoreSize(e) ==
  /\ Goto(e, "enqStore", "enqNotify")
  /\ size' = loaded[e] + 1
  /\ Access(e)
  /\ UNCHANGED <<queue, owner, waiters, loaded, result, pushed, delivered>>

\* mutant: nobody is notified
EnqueueNotifyNobody(e) ==
  /\ Goto(e, "enqNotify", "idle")
  /\ UNCHANGED <<queue, size, owner, waiters, loaded, result, pushed, delivered, raced>>

\* notify_one: one waiter, if any, goes on to re-acquire the mutex.
EnqueueNotify(e) ==
  /\ pc[e] = "enqNotify"
  /\ \/ /\ waiters = {}
        /\ pc' = [pc EXCEPT ![e] = "idle"]
        /\ UNCHANGED waiters
     \/ \E w \in waiters :
          /\ pc' = [pc EXCEPT ![e] = "idle", ![w] = "lock"]
          /\ waiters' = waiters \ {w}
  /\ UNCHANGED <<queue, size, owner, loaded, result, pushed, delivered, raced>>

(* Dequeue *)

DequeueCall(d) ==
  /\ Goto(d, "idle", "lock")
  /\ UNCHANGED <<queue, size, owner, waiters, loaded, result, pushed, delivered, raced>>

\* The constructor of the unique_lock, or the return from a wait
DequeueLock(d) ==
  /\ owner = NoThread
  /\ owner' = d
  /\ Goto(d, "lock", "check")
  /\ UNCHANGED <<queue, size, waiters, loaded, result, pushed, delivered, raced>>

\* while (m_queue.size() == 0)
DequeueCheck(d) ==
  /\ Goto(d, "check", IF queue = <<>> THEN "wait" ELSE "front")
  /\ raced' = (raced \/ Enqueueing # {})
  /\ UNCHANGED <<queue, size, owner, waiters, loaded, result, pushed, delivered>>

\* m_cond.wait(lock): releasing the mutex and waiting are one step, but nothing
\* keeps a notification from coming between the check and this step.
DequeueWait(d) ==
  /\ Goto(d, "wait", "waiting")
  /\ owner' = NoThread
  /\ waiters' = waiters \cup {d}
  /\ UNCHANGED <<queue, size, loaded, result, pushed, delivered, raced>>

\* After unordered accesses front() may deliver anything.
DequeueFront(d) ==
  /\ Goto(d, "front", "pop")
  /\ \E x \in IF raced THEN 0..MaxItems ELSE {queue[1]} :
       result' = [result EXCEPT ![d] = x]
  /\ UNCHANGED <<queue, size, owner, waiters, loaded, pushed, delivered, raced>>

\* mutant: front() without pop()
DequeuePopNothing(d) ==
  /\ Goto(d, "pop", "deqStore")
  /\ loaded' = [loaded EXCEPT ![d] = size]
  /\ raced' = (raced \/ Enqueueing # {})
  /\ UNCHANGED <<queue, size, owner, waiters, result, pushed, delivered>>

DequeuePop(d) ==
  /\ Goto(d, "pop", "deqStore")
  /\ queue' = Tail(queue)
  /\ loaded' = [loaded EXCEPT ![d] = size]
  /\ raced' = (raced \/ Enqueueing # {})
  /\ UNCHANGED <<size, owner, waiters, result, pushed, delivered>>

DequeueStoreSize(d) ==
  /\ Goto(d, "deqStore", "return")
  /\ size' = loaded[d] - 1
  /\ UNCHANGED <<queue, owner, waiters, loaded, result, pushed, delivered, raced>>

DequeueReturn(d) ==
  /\ Goto(d, "return", "idle")
  /\ owner' = NoThread
  /\ delivered' = Append(delivered, result[d])
  /\ UNCHANGED <<queue, size, waiters, loaded, result, pushed, raced>>

-----------------------------------------------------------------------------
Enqueue(e) == EnqueueLoadSize(e) \/ EnqueueStoreSize(e) \/ EnqueueNotify(e)

Dequeue(d) ==
  \/ DequeueCheck(d) \/ DequeueWait(d) \/ DequeueFront(d) \/ DequeuePop(d)
  \/ DequeueStoreSize(d) \/ DequeueReturn(d)

Next ==
  \/ \E e \in Enqueuers : EnqueuePush(e) \/ Enqueue(e)
  \/ \E d \in Dequeuers : DequeueCall(d) \/ DequeueLock(d) \/ Dequeue(d)

Spec == Init /\ [][Next]_vars

\* Calls once begun go on, the mutex is handed to a thread that keeps asking
\* for it, and client_reader calls Dequeue over and over (buf-sync.cxx).  No
\* fairness for the wake-up: a waiter moves only when it is notified.
Fairness ==
  /\ \A e \in Enqueuers : WF_vars(Enqueue(e))
  /\ \A d \in Dequeuers : WF_vars(DequeueCall(d) \/ Dequeue(d)) /\ SF_vars(DequeueLock(d))

FairSpec == Spec /\ Fairness

-----------------------------------------------------------------------------
Holding == {"check", "wait", "front", "pop", "deqStore", "return"}

EnqueuePcs == {"idle", "enqLoad", "enqStore", "enqNotify"}
DequeuePcs == Holding \cup {"idle", "lock", "waiting"}

TypeOK ==
  /\ queue \in Seq(1..MaxItems)
  /\ size \in Int
  /\ owner \in Dequeuers \cup {NoThread}
  /\ waiters = {d \in Dequeuers : pc[d] = "waiting"}
  /\ pc \in [Threads -> EnqueuePcs \cup DequeuePcs]
  /\ \A e \in Enqueuers : pc[e] \in EnqueuePcs
  /\ \A d \in Dequeuers : pc[d] \in DequeuePcs
  /\ loaded \in [Threads -> Int]
  /\ result \in [Dequeuers -> 0..MaxItems]
  /\ pushed \in 0..MaxItems /\ delivered \in Seq(0..MaxItems)
  /\ raced \in BOOLEAN

\* What the mutex still buys: as long as no access of Enqueue has met another
\* thread's, the items are delivered exactly once and in order, whatever the
\* number of dequeuers, and Size() is exact between calls (lines 46-53).
InOrderUnlessRaced ==
  ~raced =>
    /\ \A i \in 1..Len(delivered) : delivered[i] = i
    /\ owner = NoThread => queue = [i \in 1..pushed - Len(delivered) |-> Len(delivered) + i]
    /\ owner = NoThread /\ Enqueueing = {} => size = Len(queue)

\* A notification that falls between a dequeuer's check and its wait (line 50) is
\* lost, but not for ever: when all dequeuers sleep, the next Enqueue, however
\* its steps fall, gets one of them going again.
WokenByNextEnqueue ==
  \A e \in Enqueuers :
    (waiters = Dequeuers /\ pc[e] = "enqLoad") ~> (waiters # Dequeuers)

\* "when there is no data, wait till someone fills it" (line 47): a dequeuer
\* does not stay asleep while there is data.
WakesWhenFilled ==
  \A d \in Dequeuers : (pc[d] = "waiting" /\ queue # <<>>) ~> (pc[d] # "waiting" \/ queue = <<>>)
=============================================================================
