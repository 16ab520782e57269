------------------------ MODULE CircularQueue_proofs ------------------------
(***************************************************************************)
(* What can be relied on in queue (include/queue.hh) for any threads, any  *)
(* capacity and any value that m_unread may begin with: until when items   *)
(* come in order, what pops do after that, and that no wake-up is lost.    *)
(***************************************************************************)
EXTENDS CircularQueue, SequenceTheorems, FiniteSetTheorems, TLAPS

\* The container holds the items pushed last, newest first.
Window == \A i \in 1..Len(m_container) : m_container[i] = pushed - i + 1

\* m_unread counts pushes and pops, whatever happened to the items.
Ledger ==
  /\ removed + Len(m_container) <= pushed
  /\ \E q \in Int : m_unread + SizeTypeValues * q = garbage + pushed - removed

Items == Window /\ Ledger /\ InOrderUntilOverwritten

IInv == TypeOK /\ Items /\ ItemsWakeWaiters

-----------------------------------------------------------------------------
(* Arithmetic modulo 2^w *)

LEMMA ModUnique ==
  ASSUME NEW V \in Nat, V > 0, NEW q \in Int, NEW r \in 0..V - 1,
         NEW a \in Int, a = V * q + r
  PROVE  a % V = r
  BY SMT

\* ++ and -- wrap around at the ends and nowhere else.
LEMMA CountUp ==
  ASSUME NEW V \in Nat, V > 0, NEW m \in 0..V - 1
  PROVE  (m + 1) % V = IF m = V - 1 THEN 0 ELSE m + 1
<1>1. CASE m = V - 1
  <2>1. m + 1 = V * 1 + 0 /\ 0 \in 0..V - 1
    BY <1>1
  <2> QED
    BY <1>1, <2>1, ModUnique
<1>2. CASE m # V - 1
  <2>1. m + 1 = V * 0 + (m + 1) /\ m + 1 \in 0..V - 1
    BY <1>2
  <2> QED
    BY <1>2, <2>1, ModUnique
<1> QED
  BY <1>1, <1>2

LEMMA CountDown ==
  ASSUME NEW V \in Nat, V > 0, NEW m \in 0..V - 1
  PROVE  (m - 1) % V = IF m = 0 THEN V - 1 ELSE m - 1
<1>1. CASE m = 0
  <2>1. m - 1 = V * (-1) + (V - 1) /\ V - 1 \in 0..V - 1
    BY <1>1
  <2> QED
    BY <1>1, <2>1, ModUnique
<1>2. CASE m # 0
  <2>1. m - 1 = V * 0 + (m - 1) /\ m - 1 \in 0..V - 1
    BY <1>2
  <2> QED
    BY <1>2, <2>1, ModUnique
<1> QED
  BY <1>1, <1>2

-----------------------------------------------------------------------------
(* The critical sections *)

\* boost::circular_buffer::push_front, as in BoundedBuffer_proofs
LEMMA PushFrontProperties ==
  ASSUME NEW c \in Seq(Nat \ {0}), NEW x \in Nat \ {0}, Len(c) <= Capacity
  PROVE  /\ PushFront(c, x) \in Seq(Nat \ {0})
         /\ Len(PushFront(c, x)) = IF Len(c) = Capacity THEN Capacity ELSE Len(c) + 1
         /\ PushFront(c, x)[1] = x
         /\ \A i \in 2..Len(PushFront(c, x)) : PushFront(c, x)[i] = c[i - 1]
<1> DEFINE n == IF Len(c) = Capacity THEN Capacity - 1 ELSE Len(c)
           kept == SubSeq(c, 1, n)
<1>1. Capacity \in Nat \ {0} /\ n \in Nat /\ n <= Len(c)
  BY QueueAssumption DEF QueueAssumption
<1>2. kept \in Seq(Nat \ {0}) /\ Len(kept) = n /\ \A i \in 1..n : kept[i] = c[i]
  BY <1>1
<1>3. <<x>> \in Seq(Nat \ {0}) /\ Len(<<x>>) = 1 /\ <<x>>[1] = x
  OBVIOUS
<1>4. PushFront(c, x) = <<x>> \o kept
  BY DEF PushFront
<1> HIDE DEF kept
<1>5. /\ <<x>> \o kept \in Seq(Nat \ {0})
      /\ Len(<<x>> \o kept) = 1 + n
      /\ \A i \in 1..1 + n : (<<x>> \o kept)[i] = IF i <= 1 THEN <<x>>[i] ELSE kept[i - 1]
  BY <1>1, <1>2, <1>3, ConcatProperties
<1> QED
  BY <1>1, <1>2, <1>3, <1>4, <1>5

\* What a push does to the container and to the count
LEMMA PushKeepsItems ==
  ASSUME TypeOK, Items, NEW t \in Pushers, Push(t)
  PROVE  /\ Items'
         /\ m_container' \in Seq(Nat \ {0}) /\ Len(m_container') <= Capacity
         /\ Len(m_container') <= Len(m_container) + 1
         /\ m_unread' \in 0..SizeTypeValues - 1
<1> DEFINE V == SizeTypeValues
           Full == Len(m_container) = Capacity
<1>1. /\ Capacity \in Nat \ {0} /\ V \in Nat /\ V > 0 /\ garbage \in Int
      /\ m_unread \in 0..V - 1 /\ pushed \in Nat /\ removed \in Nat
      /\ m_container \in Seq(Nat \ {0}) /\ Len(m_container) <= Capacity
  BY QueueAssumption DEF QueueAssumption, TypeOK
<1>2. /\ m_container' = PushFront(m_container, pushed + 1)
      /\ m_unread' = (m_unread + 1) % V
      /\ pushed' = pushed + 1 /\ UNCHANGED <<popped, removed, garbage>>
  BY DEF Push
<1>3. /\ m_container' \in Seq(Nat \ {0})
      /\ Len(m_container') = IF Full THEN Capacity ELSE Len(m_container) + 1
      /\ m_container'[1] = pushed + 1
      /\ \A i \in 2..Len(m_container') : m_container'[i] = m_container[i - 1]
  BY <1>1, <1>2, PushFrontProperties
<1>4. m_unread' = IF m_unread = V - 1 THEN 0 ELSE m_unread + 1
  BY <1>1, <1>2, CountUp
<1>5. Window'
  <2> SUFFICES ASSUME NEW i \in 1..Len(m_container') PROVE m_container'[i] = pushed' - i + 1
    BY DEF Window
  <2>1. CASE i = 1
    BY <2>1, <1>1, <1>2, <1>3
  <2>2. CASE i # 1
    <3>1. i \in 2..Len(m_container') /\ i - 1 \in 1..Len(m_container)
      BY <1>1, <1>3, <2>2
    <3>2. m_container[i - 1] = pushed - (i - 1) + 1
      BY <3>1 DEF Items, Window
    <3>3. m_container'[i] = m_container[i - 1]
      BY <1>3, <3>1
    <3> QED
      BY <1>1, <1>2, <3>1, <3>2, <3>3
  <2> QED
    BY <2>1, <2>2
<1>6. Ledger'
  <2>1. removed' + Len(m_container') <= pushed'
    BY <1>1, <1>2, <1>3 DEF Items, Ledger
  <2>2. PICK q \in Int : m_unread + V * q = garbage + pushed - removed
    BY DEF Items, Ledger
  <2>3. PICK p \in Int : p = IF m_unread = V - 1 THEN q + 1 ELSE q
    OBVIOUS
  <2>4. V * (q + 1) = V * q + V
    BY <1>1
  <2>5. m_unread' + V * p = garbage' + pushed' - removed'
    BY <1>1, <1>2, <1>4, <2>2, <2>3, <2>4
  <2> QED
    BY <2>1, <2>5 DEF Ledger
<1>7. InOrderUntilOverwritten'
  BY <1>1, <1>2, <1>3 DEF Items, Ledger, InOrderUntilOverwritten, Overwritten, NoItem
<1> QED
  BY <1>1, <1>3, <1>4, <1>5, <1>6, <1>7 DEF Items

\* While the count began at zero and nothing was overwritten, it is the number
\* of items, and a pop delivers the oldest one.
LEMMA PopKeepsItems ==
  ASSUME TypeOK, Items, PopUnread, UNCHANGED <<pushed, garbage>>
  PROVE  /\ Items'
         /\ m_container' \in Seq(Nat \ {0}) /\ Len(m_container') = Len(m_container) - 1
         /\ m_unread' \in 0..SizeTypeValues - 1
         /\ popped' \in Int /\ removed' \in Nat
<1> DEFINE V == SizeTypeValues
           n == Len(m_container)
<1>1. /\ Capacity \in Nat \ {0} /\ V \in Nat /\ V > Capacity /\ V > 0 /\ garbage \in Int
      /\ m_unread \in 0..V - 1 /\ pushed \in Nat /\ removed \in Nat
      /\ m_container \in Seq(Nat \ {0}) /\ n \in Nat /\ n >= 1 /\ n <= Capacity
  BY QueueAssumption, EmptySeq DEF QueueAssumption, TypeOK, PopUnread
<1>2. /\ m_unread' = (m_unread - 1) % V
      /\ popped' = IF m_unread' < n THEN m_container[m_unread' + 1] ELSE Invalid
      /\ m_container' = SubSeq(m_container, 1, n - 1)
      /\ removed' = removed + 1 /\ pushed' = pushed /\ garbage' = garbage
  BY DEF PopUnread
<1>3. /\ m_container' \in Seq(Nat \ {0}) /\ Len(m_container') = n - 1
      /\ \A i \in 1..n - 1 : m_container'[i] = m_container[i]
  <2>1. PICK k \in Nat : k + 1 = n
    BY <1>1
  <2> DEFINE kept == SubSeq(m_container, 1, k)
  <2>2. kept \in Seq(Nat \ {0}) /\ Len(kept) = k /\ \A i \in 1..k : kept[i] = m_container[i]
    BY <1>1, <2>1
  <2> QED
    BY <1>2, <2>1, <2>2
<1>4. m_unread' = IF m_unread = 0 THEN V - 1 ELSE m_unread - 1
  BY <1>1, <1>2, CountDown
<1>5. PICK q \in Int : m_unread + V * q = garbage + pushed - removed
  BY DEF Items, Ledger
<1>0. removed + n <= pushed
  BY DEF Items, Ledger
<1>6. Window'
  BY <1>1, <1>3 DEF Items, Window
<1>7. Ledger'
  <2>1. removed' + Len(m_container') <= pushed'
    <3>1. (removed + 1) + (n - 1) <= pushed
      BY <1>0, <1>1
    <3> QED
      BY <1>2, <1>3, <3>1
  <2>2. PICK p \in Int : p = IF m_unread = 0 THEN q - 1 ELSE q
    OBVIOUS
  <2>3. V * (q - 1) = V * q - V
    BY <1>1
  <2>4. m_unread' + V * p = garbage' + pushed' - removed'
    BY <1>1, <1>2, <1>4, <1>5, <2>2, <2>3
  <2> QED
    BY <2>1, <2>4 DEF Ledger
<1>8. popped' \in Int
  <2>1. m_unread' < n => m_container[m_unread' + 1] \in Nat
    BY <1>1, <1>4
  <2> QED
    BY <1>2, <2>1 DEF Invalid
<1>9. InOrderUntilOverwritten'
  <2> SUFFICES ASSUME garbage = 0, pushed - removed - n = 0 PROVE popped' = removed + 1
    BY <1>1, <1>2, <1>3 DEF InOrderUntilOverwritten, Overwritten
  <2>1. m_unread + V * q = n
    BY <1>1, <1>5
  <2>2. CASE q = 0
    <3>1. m_unread = n
      BY <1>1, <2>1, <2>2
    <3>2. m_unread' = n - 1
      BY <1>1, <1>4, <3>1
    <3>3. popped' = m_container[n]
      BY <1>1, <1>2, <3>2
    <3> QED
      BY <1>1, <3>3 DEF Items, Window
  <2>3. CASE q >= 1
    <3>1. V * q >= V
      BY <1>1, <2>3
    <3> QED
      BY <1>1, <2>1, <3>1, SMTT(30)
  <2>4. CASE q <= -1
    <3>1. V * q <= -V
      BY <1>1, <2>4
    <3> QED
      BY <1>1, <2>1, <3>1
  <2> QED
    BY <2>2, <2>3, <2>4
<1> QED
  BY <1>1, <1>2, <1>3, <1>4, <1>6, <1>7, <1>8, <1>9 DEF Items

-----------------------------------------------------------------------------
(* Threads, wait set and notifications *)

LEMMA WakeupsFinite ==
  IsFiniteSet(Wakeups) /\ Cardinality(Wakeups) \in Nat
  BY QueueAssumption, FS_Subset, FS_CardinalityType DEF QueueAssumption, Wakeups

\* A push adds a notification to come ...
LEMMA OneMoreWakeup ==
  ASSUME NEW t \in Threads, t \notin Wakeups, Wakeups' = Wakeups \cup {t}
  PROVE  Cardinality(Wakeups') = Cardinality(Wakeups) + 1
  BY WakeupsFinite, FS_AddElement

\* ... and a woken thread that pops or waits again is one less.
LEMMA OneLessWakeup ==
  ASSUME NEW t \in Wakeups, Wakeups' = Wakeups \ {t}
  PROVE  Cardinality(Wakeups') = Cardinality(Wakeups) - 1
  BY WakeupsFinite, FS_RemoveElement

LEMMA PushStep ==
  ASSUME IInv, NEW t \in Pushers, Push(t)
  PROVE  IInv'
<1>1. TypeOK /\ Items /\ ItemsWakeWaiters
  BY DEF IInv
<1>2. /\ Items' /\ m_container' \in Seq(Nat \ {0}) /\ Len(m_container') <= Capacity
      /\ Len(m_container') <= Len(m_container) + 1 /\ m_unread' \in 0..SizeTypeValues - 1
  BY <1>1, PushKeepsItems
<1>3. /\ pc[t] = "idle" /\ pc' = [pc EXCEPT ![t] = "notify"]
      /\ pushed' = pushed + 1 /\ UNCHANGED <<waiters, popped, removed, garbage>>
  BY DEF Push, Goto
<1>4. TypeOK'
  BY <1>1, <1>2, <1>3, QueueAssumption DEF QueueAssumption, TypeOK, Threads
<1>5. Cardinality(Wakeups') = Cardinality(Wakeups) + 1
  <2>1. t \in Threads /\ t \notin Wakeups /\ Wakeups' = Wakeups \cup {t}
    BY <1>1, <1>3 DEF Wakeups, Threads, TypeOK
  <2> QED
    BY <2>1, OneMoreWakeup
<1>6. ItemsWakeWaiters'
  <2>1. Len(m_container) \in Nat /\ Len(m_container') \in Nat
    BY <1>1, <1>2 DEF TypeOK
  <2> QED
    BY <1>1, <1>2, <1>3, <1>5, <2>1, WakeupsFinite DEF ItemsWakeWaiters
<1> QED
  BY <1>2, <1>4, <1>6 DEF IInv

LEMMA NotifyStep ==
  ASSUME IInv, NEW t \in Pushers, PushNotify(t)
  PROVE  IInv'
<1>1. /\ TypeOK /\ Items /\ ItemsWakeWaiters /\ pc[t] = "notify"
      /\ UNCHANGED <<m_container, m_unread, popped, pushed, removed, garbage>>
  BY DEF IInv, PushNotify
<1>2. Items'
  BY <1>1 DEF Items, Window, Ledger, InOrderUntilOverwritten, Overwritten
<1>3. CASE waiters = {} /\ pc' = [pc EXCEPT ![t] = "idle"] /\ UNCHANGED waiters
  <2>1. TypeOK'
    BY <1>1, <1>3, QueueAssumption DEF QueueAssumption, TypeOK, Threads
  <2>2. ItemsWakeWaiters'
    BY <1>3 DEF ItemsWakeWaiters
  <2> QED
    BY <1>2, <2>1, <2>2 DEF IInv
<1>4. ASSUME NEW w \in waiters, pc' = [pc EXCEPT ![t] = "idle", ![w] = "woken"],
             waiters' = waiters \ {w}
      PROVE  IInv'
  <2>1. w \in Poppers /\ pc[w] = "wait" /\ w # t /\ t \in Threads /\ w \in Threads
    BY <1>1, <1>4, QueueAssumption DEF QueueAssumption, TypeOK, Threads
  <2>2. TypeOK'
    BY <1>1, <1>4, <2>1, QueueAssumption DEF QueueAssumption, TypeOK, Threads
  <2>3. t \in Wakeups /\ w \notin Wakeups /\ Wakeups' = (Wakeups \ {t}) \cup {w}
    BY <1>1, <1>4, <2>1 DEF Wakeups, Threads, TypeOK
  <2>4. /\ IsFiniteSet(Wakeups \ {t}) /\ Cardinality(Wakeups \ {t}) = Cardinality(Wakeups) - 1
        /\ w \notin Wakeups \ {t}
    BY <2>3, WakeupsFinite, FS_RemoveElement
  <2>5. Cardinality(Wakeups') = Cardinality(Wakeups)
    <3>1. Cardinality((Wakeups \ {t}) \cup {w}) = Cardinality(Wakeups \ {t}) + 1
      BY <2>4, FS_AddElement
    <3> QED
      BY <2>3, <2>4, <3>1, WakeupsFinite
  <2>6. waiters # {}
    BY <1>4
  <2>7. ItemsWakeWaiters'
    BY <1>1, <2>5, <2>6 DEF ItemsWakeWaiters
  <2> QED
    BY <1>2, <2>2, <2>7 DEF IInv
<1> QED
  BY <1>3, <1>4 DEF PushNotify

\* try_pop and wait_and_pop
LEMMA PopStep ==
  ASSUME IInv, NEW t \in Poppers, TryPop(t) \/ WaitAndPop(t)
  PROVE  IInv'
<1>1. /\ TypeOK /\ Items /\ ItemsWakeWaiters /\ UNCHANGED <<pushed, garbage>>
      /\ pc[t] \in {"idle", "woken"} /\ t \in Threads /\ t \notin Pushers
  BY QueueAssumption DEF QueueAssumption, IInv, TryPop, WaitAndPop, Goto, Threads
<1>2. CASE PopUnread
  <2>1. /\ Items' /\ m_container' \in Seq(Nat \ {0}) /\ Len(m_container') = Len(m_container) - 1
        /\ m_unread' \in 0..SizeTypeValues - 1 /\ popped' \in Int /\ removed' \in Nat
    BY <1>1, <1>2, PopKeepsItems
  <2>2. pc' = [pc EXCEPT ![t] = "idle"] /\ waiters' = waiters
    BY <1>1, <1>2 DEF TryPop, WaitAndPop, Goto, PopUnread, TypeOK
  <2>3. Len(m_container) \in Nat /\ Len(m_container) <= Capacity /\ Capacity \in Nat
    BY <1>1, QueueAssumption DEF QueueAssumption, TypeOK
  <2>4. TypeOK'
    BY <1>1, <2>1, <2>2, <2>3 DEF TypeOK, Threads
  <2>5. Cardinality(Wakeups') >= Cardinality(Wakeups) - 1
    <3>1. CASE pc[t] = "idle"
      <4>1. Wakeups' = Wakeups
        BY <1>1, <2>2, <3>1 DEF Wakeups, TypeOK
      <4> QED
        BY <4>1, WakeupsFinite
    <3>2. CASE pc[t] = "woken"
      <4>1. t \in Wakeups /\ Wakeups' = Wakeups \ {t}
        BY <1>1, <2>2, <3>2 DEF Wakeups, TypeOK
      <4> QED
        BY <4>1, WakeupsFinite, OneLessWakeup
    <3> QED
      BY <1>1, <3>1, <3>2
  <2>6. Cardinality(Wakeups) \in Nat /\ Cardinality(Wakeups') \in Int
    <3>1. Wakeups' \subseteq Threads
      BY DEF Wakeups
    <3>2. Cardinality(Wakeups') \in Nat
      BY <3>1, QueueAssumption, FS_Subset, FS_CardinalityType DEF QueueAssumption
    <3> QED
      BY <3>2, WakeupsFinite
  <2>7. ItemsWakeWaiters'
    BY <1>1, <2>1, <2>2, <2>3, <2>5, <2>6 DEF ItemsWakeWaiters
  <2> QED
    BY <2>1, <2>4, <2>7 DEF IInv
<1>3. CASE m_container = <<>> /\ UNCHANGED <<m_container, m_unread, removed>>
  <2>1. popped' = popped \/ popped' = NoItem
    BY <1>3 DEF TryPop, WaitAndPop, PopUnread
  <2>2. Items'
    BY <1>1, <1>3, <2>1 DEF Items, Window, Ledger, InOrderUntilOverwritten, Overwritten
  <2>3. \/ pc' = pc /\ waiters' = waiters
        \/ pc' = [pc EXCEPT ![t] = "wait"] /\ waiters' = waiters \cup {t}
    BY <1>3 DEF TryPop, WaitAndPop, PopUnread, Goto
  <2>4. TypeOK'
    BY <1>1, <1>3, <2>1, <2>3 DEF TypeOK, Threads, NoItem
  <2>5. ItemsWakeWaiters'
    <3>1. Len(m_container') = 0
      BY <1>3
    <3>2. Cardinality(Wakeups') \in Nat
      BY QueueAssumption, FS_Subset, FS_CardinalityType DEF QueueAssumption, Wakeups
    <3> QED
      BY <3>1, <3>2 DEF ItemsWakeWaiters
  <2> QED
    BY <2>2, <2>4, <2>5 DEF IInv
<1> QED
  BY <1>2, <1>3 DEF TryPop, WaitAndPop

LEMMA SpuriousStep ==
  ASSUME IInv, NEW t \in Poppers, SpuriousWakeup(t)
  PROVE  IInv'
<1>1. /\ TypeOK /\ Items /\ ItemsWakeWaiters
      /\ pc[t] = "wait" /\ pc' = [pc EXCEPT ![t] = "woken"] /\ waiters' = waiters \ {t}
      /\ UNCHANGED <<m_container, m_unread, popped, pushed, removed, garbage>>
  BY DEF IInv, SpuriousWakeup, Goto
<1>2. Items'
  BY <1>1 DEF Items, Window, Ledger, InOrderUntilOverwritten, Overwritten
<1>3. t \in Threads /\ t \notin Pushers
  BY QueueAssumption DEF QueueAssumption, Threads
<1>4. TypeOK'
  BY <1>1, <1>3 DEF TypeOK, Threads
<1>5. Cardinality(Wakeups') = Cardinality(Wakeups) + 1
  <2>1. t \notin Wakeups /\ Wakeups' = Wakeups \cup {t}
    BY <1>1, <1>3 DEF Wakeups, TypeOK
  <2> QED
    BY <1>3, <2>1, OneMoreWakeup
<1>6. waiters # {}
  BY <1>1 DEF TypeOK
<1>7. ItemsWakeWaiters'
  <2>1. Len(m_container) \in Nat
    BY <1>1 DEF TypeOK
  <2> QED
    BY <1>1, <1>5, <1>6, <2>1, WakeupsFinite DEF ItemsWakeWaiters
<1> QED
  BY <1>2, <1>4, <1>7 DEF IInv

-----------------------------------------------------------------------------
\* The inductive invariant of queue (queue.hh, lines 22-58)
THEOREM InvariantHolds == Spec => []IInv
<1>1. Init => IInv
  <2> SUFFICES ASSUME Init PROVE IInv
    OBVIOUS
  <2> USE QueueAssumption DEF QueueAssumption, Init
  <2>1. TypeOK
    BY EmptySeq DEF TypeOK, Threads, NoItem
  <2>2. Ledger
    <3>1. garbage \in Int /\ m_unread = garbage /\ SizeTypeValues * 0 = 0
      OBVIOUS
    <3> QED
      BY <3>1 DEF Ledger
  <2>3. Window /\ InOrderUntilOverwritten /\ ItemsWakeWaiters
    BY DEF Window, InOrderUntilOverwritten, ItemsWakeWaiters
  <2> QED
    BY <2>1, <2>2, <2>3 DEF IInv, Items
<1>2. IInv /\ [Next]_vars => IInv'
  <2> SUFFICES ASSUME IInv, [Next]_vars PROVE IInv'
    OBVIOUS
  <2>1. ASSUME NEW t \in Pushers, Push(t) \/ PushNotify(t) PROVE IInv'
    BY <2>1, PushStep, NotifyStep
  <2>2. ASSUME NEW t \in Poppers, TryPop(t) \/ WaitAndPop(t) \/ SpuriousWakeup(t) PROVE IInv'
    BY <2>2, PopStep, SpuriousStep
  <2>3. CASE UNCHANGED vars
    BY <2>3 DEF vars, IInv, TypeOK, Items, Window, Ledger, InOrderUntilOverwritten, Overwritten,
                ItemsWakeWaiters, Wakeups
  <2> QED
    BY <2>1, <2>2, <2>3 DEF Next
<1> QED
  BY <1>1, <1>2, PTL DEF Spec

\* A pop by a count that is off reads another item than the one it removes.
LEMMA DriftedPopMisses ==
  ASSUME TypeOK, Items, PopUnread, Drifted
  PROVE  popped' = Invalid \/ popped' > m_container[Len(m_container)]
<1> DEFINE V == SizeTypeValues
           n == Len(m_container)
           a == garbage + Overwritten
<1>1. /\ V \in Nat /\ V > 0 /\ V > Capacity /\ Capacity \in Nat
      /\ m_unread \in 0..V - 1 /\ garbage \in Int /\ pushed \in Nat /\ removed \in Nat
      /\ n \in Nat /\ n >= 1 /\ n <= Capacity
  BY QueueAssumption, EmptySeq DEF QueueAssumption, TypeOK, PopUnread
<1>2. m_unread # n
  <2>1. PICK q \in Int : m_unread + V * q = garbage + pushed - removed
    BY DEF Items, Ledger
  <2>2. a \in Int
    BY <1>1 DEF Overwritten
  <2>3. SUFFICES ASSUME m_unread = n PROVE a % V = 0
    BY DEF Drifted
  <2>4. a = V * q + 0
    BY <1>1, <2>1, <2>3 DEF Overwritten
  <2>5. 0 \in 0..V - 1
    BY <1>1
  <2> HIDE DEF a
  <2> QED
    BY <1>1, <2>2, <2>4, <2>5, ModUnique
<1>3. /\ m_unread' = IF m_unread = 0 THEN V - 1 ELSE m_unread - 1
      /\ popped' = IF m_unread' < n THEN m_container[m_unread' + 1] ELSE Invalid
  BY <1>1, CountDown DEF PopUnread
<1>4. CASE m_unread' < n
  <2>1. m_unread # 0 /\ m_unread \in 1..n - 1 /\ popped' = m_container[m_unread]
    BY <1>1, <1>2, <1>3, <1>4
  <2>2. m_container[m_unread] = pushed - m_unread + 1 /\ m_container[n] = pushed - n + 1
    BY <1>1, <2>1 DEF Items, Window
  <2> QED
    BY <1>1, <2>1, <2>2
<1>5. CASE ~(m_unread' < n)
  BY <1>3, <1>5
<1> QED
  BY <1>4, <1>5

\* While the index that a pop uses (lines 45 and 56) is off, by what m_unread
\* began with or by overwritten items, no pop delivers the item it removes.
THEOREM DriftedPopsLose == Spec => DriftedPopsMiss
<1>1. IInv /\ [Next]_vars =>
        [removed' # removed /\ Drifted =>
           popped' = Invalid \/ popped' > m_container[Len(m_container)]]_vars
  <2> SUFFICES ASSUME IInv, Next, removed' # removed, Drifted
               PROVE  popped' = Invalid \/ popped' > m_container[Len(m_container)]
    OBVIOUS
  <2>1. PopUnread
    BY DEF Next, Push, PushNotify, TryPop, WaitAndPop, SpuriousWakeup
  <2> QED
    BY <2>1, DriftedPopMisses DEF IInv
<1> QED
  BY <1>1, InvariantHolds, PTL DEF Spec, DriftedPopsMiss

\* A queue whose count happens to begin at zero delivers in order, to any number
\* of threads, until the first item is overwritten.
THEOREM InOrderAtFirst == Spec => []InOrderUntilOverwritten
<1>1. IInv => InOrderUntilOverwritten
  BY DEF IInv, Items
<1> QED
  BY <1>1, InvariantHolds, PTL

\* The notify_one after the unlock (line 30) loses no wake-up, for any number of
\* waiting threads and spurious wake-ups.
THEOREM WakeupsAreNotLost == Spec => []ItemsWakeWaiters
<1>1. IInv => ItemsWakeWaiters
  BY DEF IInv
<1> QED
  BY <1>1, InvariantHolds, PTL
=============================================================================
