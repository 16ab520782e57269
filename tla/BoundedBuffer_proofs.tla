------------------------ MODULE BoundedBuffer_proofs ------------------------
(***************************************************************************)
(* The safety properties of bounded_buffer for any sets of threads, any    *)
(* capacity and any number of items.                                       *)
(***************************************************************************)
EXTENDS BoundedBuffer, SequenceTheorems, TLAPS

\* The reader's view of the back: the item read and not overwritten longest
Oldest == IF pushed < Capacity THEN 1 ELSE pushed - Capacity + 1

IInv ==
  /\ TypeOK
  /\ MutualExclusion
  /\ NoLostWakeup
  /\ HoldsNewest
  /\ ReadsTheOldest

\* circular_buffer::push_front puts the item in front, keeps the order of the
\* others and drops the back of a full buffer.
LEMMA PushFrontProperties ==
  ASSUME NEW c \in Seq(Nat \ {0}), NEW x \in Nat \ {0}, Len(c) <= Capacity
  PROVE  /\ PushFront(c, x) \in Seq(Nat \ {0})
         /\ Len(PushFront(c, x)) = IF Len(c) = Capacity THEN Capacity ELSE Len(c) + 1
         /\ PushFront(c, x)[1] = x
         /\ \A i \in 2..Len(PushFront(c, x)) : PushFront(c, x)[i] = c[i - 1]
<1> DEFINE n == IF Len(c) = Capacity THEN Capacity - 1 ELSE Len(c)
           kept == SubSeq(c, 1, n)
<1>1. Capacity \in Nat \ {0}
  BY BufferAssumption DEF BufferAssumption
<1>2. n \in Nat /\ n <= Len(c)
  BY <1>1
<1>3. kept \in Seq(Nat \ {0}) /\ Len(kept) = n /\ \A i \in 1..n : kept[i] = c[i]
  BY <1>2
<1>4. <<x>> \in Seq(Nat \ {0}) /\ Len(<<x>>) = 1 /\ <<x>>[1] = x
  OBVIOUS
<1>5. PushFront(c, x) = <<x>> \o kept
  BY DEF PushFront
<1> HIDE DEF kept
<1>6. /\ <<x>> \o kept \in Seq(Nat \ {0})
      /\ Len(<<x>> \o kept) = 1 + n
      /\ \A i \in 1..1 + n : (<<x>> \o kept)[i] = IF i <= 1 THEN <<x>>[i] ELSE kept[i - 1]
  BY <1>2, <1>3, <1>4, ConcatProperties
<1> QED
  BY <1>1, <1>2, <1>3, <1>4, <1>5, <1>6

LEMMA InitHolds == Init => IInv
<1> SUFFICES ASSUME Init PROVE IInv
  OBVIOUS
<1> USE BufferAssumption DEF BufferAssumption, Init
<1>1. TypeOK
  BY DEF TypeOK, Threads
<1>2. MutualExclusion /\ ReadsTheOldest
  BY DEF MutualExclusion, Holding, ReadsTheOldest, Threads
<1>3. NoLostWakeup /\ HoldsNewest
  BY DEF NoLostWakeup, HoldsNewest
<1> QED
  BY <1>1, <1>2, <1>3 DEF IInv

-----------------------------------------------------------------------------
\* The control of the threads: one step of a thread in its critical section, or
\* one that takes or leaves it, keeps typing, wait set and mutual exclusion.
Control == TypeOK /\ MutualExclusion

LEMMA NotifyKeepsControl ==
  ASSUME Control, NEW t \in Threads,
         NEW from \in {"pushNotify", "popNotify"}, NEW to \in {"idle", "popUnlock"},
         pc[t] = from, from \in Holding <=> to \in Holding,
         NotifyOne(t, to), UNCHANGED <<container, owner, item, pushed>>
  PROVE  Control'
<1> USE DEF Control, TypeOK, MutualExclusion, Holding, NotifyOne, Threads
<1>1. CASE waiters = {} /\ pc' = [pc EXCEPT ![t] = to] /\ UNCHANGED waiters
  BY <1>1
<1>2. ASSUME NEW w \in waiters, waiters' = waiters \ {w},
             pc' = [pc EXCEPT ![t] = to, ![w] = "popRelock"]
      PROVE  Control'
  <2>1. w \in Threads /\ pc[w] = "popWaiting" /\ w # t
    OBVIOUS
  <2> QED
    BY <1>2, <2>1
<1> QED
  BY <1>1, <1>2

LEMMA ControlStep == Control /\ Next => Control'
<1> SUFFICES ASSUME Control, Next PROVE Control'
  OBVIOUS
<1> USE BufferAssumption DEF BufferAssumption, Threads
<1>1. ASSUME NEW t \in Pushers, PushLock(t) PROVE Control'
  BY <1>1 DEF PushLock, Goto, Lock, Control, TypeOK, MutualExclusion, Holding
<1>2. ASSUME NEW t \in Pushers, PushInsert(t) PROVE Control'
  <2>1. container' \in Seq(Nat \ {0})
    BY <1>2 DEF PushInsert, PushFront, Control, TypeOK
  <2> QED
    BY <1>2, <2>1 DEF PushInsert, Goto, Control, TypeOK, MutualExclusion, Holding
<1>3. ASSUME NEW t \in Pushers, PushUnlock(t) PROVE Control'
  BY <1>3 DEF PushUnlock, Goto, Unlock, Control, TypeOK, MutualExclusion, Holding
<1>4. ASSUME NEW t \in Pushers, PushNotify(t) PROVE Control'
  BY <1>4, NotifyKeepsControl DEF PushNotify, Holding
<1>5. ASSUME NEW t \in Poppers, PopLock(t) PROVE Control'
  BY <1>5 DEF PopLock, Goto, Lock, Control, TypeOK, MutualExclusion, Holding
<1>6. ASSUME NEW t \in Poppers, PopWait(t) PROVE Control'
  BY <1>6 DEF PopWait, Goto, Unlock, Control, TypeOK, MutualExclusion, Holding
<1>7. ASSUME NEW t \in Poppers, SpuriousWakeup(t) PROVE Control'
  BY <1>7 DEF SpuriousWakeup, Goto, Control, TypeOK, MutualExclusion, Holding
<1>8. ASSUME NEW t \in Poppers, PopRelock(t) PROVE Control'
  BY <1>8 DEF PopRelock, Goto, Lock, Control, TypeOK, MutualExclusion, Holding
<1>9. ASSUME NEW t \in Poppers, PopRead(t) PROVE Control'
  <2>1. container[Len(container)] \in Nat
    BY <1>9 DEF PopRead, Control, TypeOK
  <2> QED
    BY <1>9, <2>1 DEF PopRead, Goto, Control, TypeOK, MutualExclusion, Holding
<1>10. ASSUME NEW t \in Poppers, PopNotify(t) PROVE Control'
  BY <1>10, NotifyKeepsControl DEF PopNotify, Holding
<1>11. ASSUME NEW t \in Poppers, PopUnlock(t) PROVE Control'
  BY <1>11 DEF PopUnlock, Goto, Unlock, Control, TypeOK, MutualExclusion, Holding
<1> QED
  BY <1>1, <1>2, <1>3, <1>4, <1>5, <1>6, <1>7, <1>8, <1>9, <1>10, <1>11 DEF Next, Push, Pop

-----------------------------------------------------------------------------
\* A notify_one leaves nobody asleep, or the thread it woke will pass it on.
LEMMA NotifyPassesOn ==
  ASSUME Control, NEW t \in Threads, NEW to, NotifyOne(t, to)
  PROVE  waiters' # {} => \E u \in Threads : pc'[u] \in WillNotify
<1>1. ASSUME NEW w \in waiters, pc' = [pc EXCEPT ![t] = to, ![w] = "popRelock"]
      PROVE  \E u \in Threads : pc'[u] \in WillNotify
  <2>1. w \in Threads
    BY DEF Control, TypeOK, Threads
  <2>2. pc'[w] = "popRelock"
    BY <1>1, <2>1 DEF Control, TypeOK
  <2> QED
    BY <2>1, <2>2 DEF WillNotify
<1> QED
  BY <1>1 DEF NotifyOne

\* Every step that could strand a sleeping reader leaves a thread that will call
\* notify_one: the one that pushed, the one that was woken, or the one that reads.
LEMMA WakeupStep == Control /\ NoLostWakeup /\ Next => NoLostWakeup'
<1> SUFFICES ASSUME Control, NoLostWakeup, Next,
                    container' # <<>>, waiters' # {}
             PROVE  \E u \in Threads : pc'[u] \in WillNotify
  BY DEF NoLostWakeup
<1> USE DEF Threads
\* The stepping thread is on its way to a notify_one ...
<1>1. ASSUME NEW t \in Threads, pc'[t] \in WillNotify
      PROVE  \E u \in Threads : pc'[u] \in WillNotify
  BY <1>1
\* ... or it was not before, and the thread that was still is.
<1>2. ASSUME NEW t \in Threads, pc[t] \notin WillNotify, NEW to,
             pc' = [pc EXCEPT ![t] = to], container' = container, waiters' = waiters
      PROVE  \E u \in Threads : pc'[u] \in WillNotify
  <2>1. PICK u \in Threads : pc[u] \in WillNotify
    BY <1>2 DEF NoLostWakeup
  <2> QED
    BY <1>2, <2>1 DEF Control, TypeOK
<1>3. ASSUME NEW t \in Pushers, PushLock(t) \/ Push(t)
      PROVE  \E u \in Threads : pc'[u] \in WillNotify
  <2>1. CASE PushLock(t)
    BY <2>1, <1>2 DEF PushLock, Goto, WillNotify
  <2>2. CASE PushInsert(t) \/ PushUnlock(t)
    BY <2>2, <1>1 DEF PushInsert, PushUnlock, Goto, WillNotify, Control, TypeOK
  <2>3. CASE PushNotify(t)
    BY <2>3, NotifyPassesOn DEF PushNotify
  <2> QED
    BY <1>3, <2>1, <2>2, <2>3 DEF Push
<1>4. ASSUME NEW t \in Poppers, PopLock(t) \/ Pop(t) \/ PopRelock(t) \/ SpuriousWakeup(t)
      PROVE  \E u \in Threads : pc'[u] \in WillNotify
  <2>1. CASE PopWait(t)
    BY <2>1 DEF PopWait
  <2>2. CASE PopUnlock(t)
    BY <2>2, <1>2 DEF PopUnlock, Goto, WillNotify
  <2>3. CASE PopNotify(t)
    BY <2>3, NotifyPassesOn DEF PopNotify
  <2>4. CASE PopLock(t) \/ PopRead(t) \/ PopRelock(t) \/ SpuriousWakeup(t)
    BY <2>4, <1>1 DEF PopLock, PopRead, PopRelock, SpuriousWakeup, Goto, WillNotify, Control, TypeOK
  <2> QED
    BY <1>4, <2>1, <2>2, <2>3, <2>4 DEF Pop
<1> QED
  BY <1>3, <1>4 DEF Next

-----------------------------------------------------------------------------
Items == HoldsNewest /\ ReadsTheOldest

\* A push shifts the window of the newest items by one; a read gives the oldest
\* item of the window, and no push comes between the read and the unlock.
LEMMA ItemsStep == Control /\ Items /\ Next => Items'
<1> SUFFICES ASSUME Control, Items, Next PROVE Items'
  OBVIOUS
<1> USE DEF Threads
<1>0. Capacity \in Nat \ {0} /\ pushed \in Nat
  BY BufferAssumption DEF BufferAssumption, Control, TypeOK
<1>1. ASSUME NEW t \in Pushers, PushInsert(t)
      PROVE  Items'
  <2>1. /\ container \in Seq(Nat \ {0}) /\ Len(container) <= Capacity
        /\ container' = PushFront(container, pushed + 1)
        /\ pushed' = pushed + 1 /\ item' = item
    BY <1>0, <1>1 DEF PushInsert, Control, TypeOK, Items, HoldsNewest
  <2>2. HoldsNewest'
    <3>1. /\ Len(container') = IF Len(container) = Capacity THEN Capacity ELSE Len(container) + 1
          /\ container'[1] = pushed + 1
          /\ \A i \in 2..Len(container') : container'[i] = container[i - 1]
      BY <1>0, <2>1, PushFrontProperties
    <3>2. /\ Len(container) = IF pushed < Capacity THEN pushed ELSE Capacity
          /\ \A i \in 1..Len(container) : container[i] = pushed - i + 1
      BY DEF Items, HoldsNewest
    <3>3. Len(container') = IF pushed' < Capacity THEN pushed' ELSE Capacity
      BY <1>0, <2>1, <3>1, <3>2
    <3>4. ASSUME NEW i \in 1..Len(container') PROVE container'[i] = pushed' - i + 1
      <4>1. CASE i = 1
        BY <4>1, <1>0, <2>1, <3>1
      <4>2. CASE i # 1
        <5>1. i \in 2..Len(container') /\ i - 1 \in 1..Len(container)
          BY <1>0, <2>1, <3>2, <3>3, <4>2
        <5> QED
          BY <1>0, <2>1, <3>1, <3>2, <5>1
      <4> QED
        BY <4>1, <4>2
    <3> QED
      BY <3>3, <3>4 DEF HoldsNewest
  <2>3. ReadsTheOldest'
    <3>1. \A u \in Poppers : pc'[u] \notin {"popNotify", "popUnlock"}
      BY <1>1 DEF PushInsert, Goto, Control, TypeOK, MutualExclusion, Holding
    <3> QED
      BY <3>1 DEF ReadsTheOldest
  <2> QED
    BY <2>2, <2>3 DEF Items
<1>2. ASSUME NEW t \in Poppers, PopRead(t)
      PROVE  Items'
  <2>1. container \in Seq(Nat \ {0}) /\ container # <<>>
    BY <1>2 DEF PopRead, Control, TypeOK
  <2>2. /\ Len(container) \in 1..Len(container) /\ pushed # 0
        /\ container[Len(container)] = Oldest
    BY <1>0, <2>1 DEF Items, HoldsNewest, Oldest
  <2>3. item' = [item EXCEPT ![t] = Oldest] /\ UNCHANGED <<container, pushed>>
    BY <1>2, <2>2 DEF PopRead
  <2>4. ReadsTheOldest'
    <3>1. \A u \in Poppers : pc'[u] \in {"popNotify", "popUnlock"} => u = t
      BY <1>2 DEF PopRead, Goto, Control, TypeOK, MutualExclusion, Holding
    <3> QED
      BY <2>3, <3>1 DEF ReadsTheOldest, Control, TypeOK, Oldest
  <2> QED
    BY <2>3, <2>4 DEF Items, HoldsNewest
<1>3. ASSUME UNCHANGED <<container, item, pushed>>,
             \A u \in Poppers : pc'[u] \in {"popNotify", "popUnlock"}
                                => pc[u] \in {"popNotify", "popUnlock"}
      PROVE  Items'
  BY <1>3 DEF Items, HoldsNewest, ReadsTheOldest
<1>4. ASSUME NEW t \in Pushers, PushLock(t) \/ PushUnlock(t)
      PROVE  Items'
  BY <1>3, <1>4 DEF PushLock, PushUnlock, Goto, Control, TypeOK
<1>5. ASSUME NEW t \in Poppers,
             PopLock(t) \/ PopWait(t) \/ PopRelock(t) \/ SpuriousWakeup(t) \/ PopUnlock(t)
      PROVE  Items'
  BY <1>3, <1>5 DEF PopLock, PopWait, PopRelock, SpuriousWakeup, PopUnlock, Goto, Control, TypeOK
<1>6. ASSUME NEW t \in Threads, NEW to \in {"idle", "popUnlock"}, NotifyOne(t, to),
             to = "popUnlock" => pc[t] = "popNotify", UNCHANGED <<container, item, pushed>>
      PROVE  Items'
  <2>1. \A w \in waiters : w \in Threads
    BY DEF Control, TypeOK
  <2> QED
    BY <1>3, <1>6, <2>1 DEF NotifyOne, Control, TypeOK
<1>7. ASSUME NEW t \in Pushers, PushNotify(t)
      PROVE  Items'
  BY <1>6, <1>7 DEF PushNotify
<1>8. ASSUME NEW t \in Poppers, PopNotify(t)
      PROVE  Items'
  BY <1>6, <1>8 DEF PopNotify
<1> QED
  BY <1>1, <1>2, <1>4, <1>5, <1>7, <1>8 DEF Next, Push, Pop

-----------------------------------------------------------------------------
LEMMA StutterKeeps == IInv /\ UNCHANGED vars => IInv'
  BY DEF vars, IInv, TypeOK, MutualExclusion, NoLostWakeup, HoldsNewest,
         ReadsTheOldest

THEOREM Invariance == Spec => []IInv
<1>1. IInv /\ [Next]_vars => IInv'
  BY ControlStep, WakeupStep, ItemsStep, StutterKeeps DEF IInv, Control, Items
<1> QED
  BY InitHolds, <1>1, PTL DEF Spec

\* At most one thread is in a critical section, the one that owns the mutex.
THEOREM ExclusionHolds == Spec => []MutualExclusion
  BY Invariance, PTL DEF IInv

\* A reader never sleeps on a non-empty buffer without a notification under way:
\* one notify_one per push is enough because every reader passes it on (line 49).
THEOREM WakeupsAreNotLost == Spec => []NoLostWakeup
  BY Invariance, PTL DEF IInv

\* The buffer holds exactly the newest items, newest first, up to its capacity.
THEOREM NewestAreHeld == Spec => []HoldsNewest
  BY Invariance, PTL DEF IInv

\* Until it unlocks the mutex, a reader's item is still the oldest in the buffer.
THEOREM OldestIsRead == Spec => []ReadsTheOldest
  BY Invariance, PTL DEF IInv
=============================================================================
