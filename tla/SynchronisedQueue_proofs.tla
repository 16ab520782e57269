----------------------- MODULE SynchronisedQueue_proofs -----------------------
(***************************************************************************)
(* What the mutex of SynchronisedQueue's Dequeue buys for any threads and  *)
(* any number of items, although Enqueue does not take it: mutual          *)
(* exclusion of the dequeuers always, exact and ordered delivery as long   *)
(* as no access of Enqueue has met another thread's.                       *)
(***************************************************************************)
EXTENDS SynchronisedQueue, SequenceTheorems, TLAPS

\* A dequeuer is in its critical section exactly if it owns the mutex; one that
\* has found an item still has it.
Exclusion ==
  /\ owner # NoThread => pc[owner] \in Holding
  /\ \A d \in Dequeuers : pc[d] \in Holding => owner = d
  /\ \A d \in Dequeuers : pc[d] \in {"front", "pop"} => queue # <<>>

\* Items taken from the queue, the one a dequeuer is about to return included
Taken == Len(delivered) + IF \E d \in Dequeuers : pc[d] \in {"deqStore", "return"} THEN 1 ELSE 0

\* m_size is behind by the increment or the decrement that is under way.
Lag ==
  IF Enqueueing # {} THEN -1
  ELSE IF \E d \in Dequeuers : pc[d] = "deqStore" THEN 1 ELSE 0

\* Why delivery is in order before the first race
InOrder ==
  /\ \A i \in 1..Len(delivered) : delivered[i] = i
  /\ Len(queue) = pushed - Taken
  /\ \A i \in 1..Len(queue) : queue[i] = Taken + i
  /\ \A d \in Dequeuers : pc[d] \in {"pop", "deqStore", "return"} => result[d] = Len(delivered) + 1

\* Why the size is exact before the first race: an enqueuer among its accesses is
\* alone, but for a dequeuer that has just taken the mutex.
Exact ==
  /\ size = Len(queue) + Lag
  /\ \A e, f \in Enqueueing : e = f
  /\ Enqueueing # {} => \A d \in Dequeuers : pc[d] \notin Holding \ {"check"}
  /\ \A e \in Enqueuers : pc[e] = "enqStore" => loaded[e] = size
  /\ \A d \in Dequeuers : pc[d] = "deqStore" => loaded[d] = size

IInv ==
  /\ TypeOK
  /\ Exclusion
  /\ ~raced => InOrder /\ Exact

LEMMA InitHolds == Init => IInv
<1> SUFFICES ASSUME Init PROVE IInv
  OBVIOUS
<1> USE ThreadAssumption DEF ThreadAssumption, Threads
<1>1. TypeOK
  <2>1. queue \in Seq(1..MaxItems) /\ delivered \in Seq(0..MaxItems)
    BY EmptySeq DEF Init
  <2>2. waiters = {d \in Dequeuers : pc[d] = "waiting"}
    BY DEF Init
  <2>3. /\ size \in Int /\ owner \in Dequeuers \cup {NoThread}
        /\ pc \in [Threads -> EnqueuePcs \cup DequeuePcs]
        /\ \A e \in Enqueuers : pc[e] \in EnqueuePcs
        /\ \A d \in Dequeuers : pc[d] \in DequeuePcs
    BY DEF Init, EnqueuePcs, DequeuePcs
  <2>4. /\ loaded \in [Threads -> Int] /\ result \in [Dequeuers -> 0..MaxItems]
        /\ pushed \in 0..MaxItems /\ raced \in BOOLEAN
    <3>1. 0 \in Int /\ 0 \in 0..MaxItems
      OBVIOUS
    <3> QED
      BY <3>1 DEF Init
  <2> QED
    BY <2>1, <2>2, <2>3, <2>4 DEF TypeOK
<1>2. Exclusion
  BY DEF Init, Exclusion, Holding
<1>3. InOrder
  <2>1. Len(queue) = 0 /\ Len(delivered) = 0 /\ pushed = 0
    BY EmptySeq DEF Init
  <2>2. \A d \in Dequeuers : pc[d] = "idle"
    BY DEF Init
  <2>3. Taken = 0
    BY <2>1, <2>2 DEF Taken
  <2> QED
    BY <2>1, <2>2, <2>3 DEF InOrder
<1>4. Exact
  <2>1. Len(queue) = 0 /\ size = 0
    BY EmptySeq DEF Init
  <2>2. \A t \in Threads : pc[t] = "idle"
    BY DEF Init
  <2>3. Enqueueing = {} /\ Lag = 0
    BY <2>2 DEF Lag, Enqueueing
  <2> QED
    BY <2>1, <2>2, <2>3 DEF Exact
<1> QED
  BY <1>1, <1>2, <1>3, <1>4 DEF IInv

\* A step of which the items and the threads among their accesses see nothing
LEMMA QuietStep ==
  ASSUME InOrder /\ Exact,
         UNCHANGED <<queue, size, loaded, result, pushed, delivered>>,
         \A e \in Enqueuers : \A p \in {"enqLoad", "enqStore"} : (pc'[e] = p) = (pc[e] = p),
         \A d \in Dequeuers :
           /\ \A p \in {"pop", "deqStore", "return"} : (pc'[d] = p) = (pc[d] = p)
           /\ Enqueueing # {} => pc'[d] \notin Holding \ {"check"}
  PROVE  (InOrder /\ Exact)'
<1>1. Enqueueing' = Enqueueing
  BY DEF Enqueueing
<1>2. Lag' = Lag /\ Taken' = Taken
  BY <1>1 DEF Lag, Taken
<1>3. InOrder'
  BY <1>2 DEF InOrder
<1>4. Exact'
  BY <1>1, <1>2 DEF Exact
<1> QED
  BY <1>3, <1>4

-----------------------------------------------------------------------------
(* Enqueue *)

LEMMA EnqueuePushKeeps ==
  ASSUME IInv, NEW e \in Enqueuers, EnqueuePush(e)
  PROVE  IInv'
<1>1. /\ TypeOK /\ Exclusion
      /\ pushed < MaxItems /\ pc[e] = "idle" /\ pc' = [pc EXCEPT ![e] = "enqLoad"]
      /\ queue' = Append(queue, pushed + 1) /\ pushed' = pushed + 1
      /\ UNCHANGED <<size, owner, waiters, loaded, result, delivered>>
  BY DEF IInv, EnqueuePush, Goto
<1>2. e \notin Dequeuers /\ e \in Threads /\ MaxItems \in Nat
  BY ThreadAssumption DEF ThreadAssumption, Threads
<1>3. /\ queue' \in Seq(1..MaxItems) /\ Len(queue') = Len(queue) + 1 /\ queue' # <<>>
      /\ \A i \in 1..Len(queue) : queue'[i] = queue[i]
      /\ queue'[Len(queue) + 1] = pushed + 1 /\ Len(queue) \in Nat
  <2>1. pushed + 1 \in 1..MaxItems /\ queue \in Seq(1..MaxItems)
    BY <1>1, <1>2 DEF TypeOK
  <2>2. Len(queue') # 0
    BY <1>1, <2>1
  <2> QED
    BY <1>1, <2>1, <2>2, AppendProperties
<1>4. TypeOK'
  <2>1. raced' \in BOOLEAN
    BY DEF EnqueuePush, Access
  <2> QED
    BY <1>1, <1>2, <1>3, <2>1 DEF TypeOK, Threads, EnqueuePcs, DequeuePcs
<1>5. Exclusion'
  BY <1>1, <1>2, <1>3 DEF Exclusion, TypeOK, Holding
<1>6. ASSUME ~raced' PROVE (InOrder /\ Exact)'
  <2>1. InOrder /\ Exact /\ owner = NoThread /\ Enqueueing \ {e} = {}
    BY <1>1, <1>6 DEF IInv, EnqueuePush, Access
  <2>2. Enqueueing = {}
    BY <1>1, <2>1 DEF Enqueueing
  <2>a. \A f \in Enqueuers \ {e} : pc'[f] = pc[f]
    BY <1>1
  <2>b. pc'[e] = "enqLoad"
    BY <1>1, <1>2 DEF TypeOK
  <2>c. Enqueueing' = {e}
    BY <2>2, <2>a, <2>b DEF Enqueueing
  <2>3. \A d \in Dequeuers : pc'[d] = pc[d] /\ pc[d] \notin Holding
    BY <1>1, <1>2, <2>1, ThreadAssumption DEF Exclusion, TypeOK, ThreadAssumption, Threads
  <2>4. Taken' = Taken /\ Taken = Len(delivered) /\ Taken \in Nat
    BY <1>1, <2>3 DEF Taken, Holding, TypeOK
  <2>5. InOrder'
    <3>1. Len(queue) = pushed - Taken /\ pushed \in Nat
      BY <1>1, <2>1 DEF InOrder, TypeOK
    <3>2. Len(queue') = pushed' - Taken'
      BY <1>1, <1>3, <2>4, <3>1
    <3>3. ASSUME NEW i \in 1..Len(queue') PROVE queue'[i] = Taken' + i
      <4>1. CASE i \in 1..Len(queue)
        BY <1>3, <2>1, <2>4, <4>1 DEF InOrder
      <4>2. CASE i = Len(queue) + 1
        BY <1>3, <2>4, <3>1, <4>2
      <4> QED
        BY <1>3, <4>1, <4>2
    <3> QED
      BY <1>1, <2>1, <2>3, <3>2, <3>3 DEF InOrder
  <2>6. Lag = 0 /\ Lag' = -1
    BY <2>2, <2>c, <2>3 DEF Lag, Holding
  <2>7. Exact'
    <3>1. size' = Len(queue') + Lag'
      BY <1>1, <1>3, <2>1, <2>6 DEF Exact, TypeOK
    <3>2. \A f \in Enqueuers : pc'[f] # "enqStore"
      BY <2>2, <2>a, <2>b DEF Enqueueing
    <3> QED
      BY <3>1, <3>2, <2>c, <2>3 DEF Exact, Holding
  <2> QED
    BY <2>5, <2>7
<1> QED
  BY <1>4, <1>5, <1>6 DEF IInv

LEMMA EnqueueLoadSizeKeeps ==
  ASSUME IInv, NEW e \in Enqueuers, EnqueueLoadSize(e)
  PROVE  IInv'
<1>1. /\ TypeOK /\ Exclusion
      /\ pc[e] = "enqLoad" /\ pc' = [pc EXCEPT ![e] = "enqStore"]
      /\ loaded' = [loaded EXCEPT ![e] = size]
      /\ UNCHANGED <<queue, size, owner, waiters, result, pushed, delivered>>
  BY DEF IInv, EnqueueLoadSize, Goto
<1>2. e \notin Dequeuers /\ e \in Threads /\ e # NoThread
  BY ThreadAssumption DEF ThreadAssumption, Threads
<1>3. TypeOK'
  <2>1. raced' \in BOOLEAN
    BY DEF EnqueueLoadSize, Access
  <2> QED
    BY <1>1, <1>2, <2>1 DEF TypeOK, Threads, EnqueuePcs, DequeuePcs
<1>4. Exclusion'
  BY <1>1, <1>2 DEF Exclusion, TypeOK, Holding
<1>5. ASSUME ~raced' PROVE (InOrder /\ Exact)'
  <2>1. InOrder /\ Exact /\ owner = NoThread
    BY <1>1, <1>5 DEF IInv, EnqueueLoadSize, Access
  <2>2. Enqueueing' = Enqueueing
    BY <1>1, <1>2 DEF Enqueueing, TypeOK
  <2>3. \A d \in Dequeuers : pc'[d] = pc[d] /\ loaded'[d] = loaded[d]
    BY <1>1, <1>2 DEF TypeOK, Threads
  <2>4. Lag' = Lag /\ Taken' = Taken
    BY <1>1, <2>2, <2>3 DEF Lag, Taken
  <2>5. InOrder'
    BY <1>1, <2>1, <2>3, <2>4 DEF InOrder
  <2>6. \A f \in Enqueuers : pc'[f] = "enqStore" => loaded'[f] = size'
    BY <1>1, <1>2, <2>1 DEF TypeOK, Exact, Threads
  <2>7. Exact'
    BY <1>1, <2>1, <2>2, <2>3, <2>4, <2>6 DEF Exact
  <2> QED
    BY <2>5, <2>7
<1> QED
  BY <1>3, <1>4, <1>5 DEF IInv

LEMMA EnqueueStoreSizeKeeps ==
  ASSUME IInv, NEW e \in Enqueuers, EnqueueStoreSize(e)
  PROVE  IInv'
<1>1. /\ TypeOK /\ Exclusion
      /\ pc[e] = "enqStore" /\ pc' = [pc EXCEPT ![e] = "enqNotify"]
      /\ size' = loaded[e] + 1
      /\ UNCHANGED <<queue, owner, waiters, loaded, result, pushed, delivered>>
  BY DEF IInv, EnqueueStoreSize, Goto
<1>2. e \notin Dequeuers /\ e \in Threads /\ e # NoThread
  BY ThreadAssumption DEF ThreadAssumption, Threads
<1>3. TypeOK'
  <2>1. raced' \in BOOLEAN
    BY DEF EnqueueStoreSize, Access
  <2> QED
    BY <1>1, <1>2, <2>1 DEF TypeOK, Threads, EnqueuePcs, DequeuePcs
<1>4. Exclusion'
  BY <1>1, <1>2 DEF Exclusion, TypeOK, Holding
<1>5. ASSUME ~raced' PROVE (InOrder /\ Exact)'
  <2>1. InOrder /\ Exact /\ owner = NoThread /\ Enqueueing \ {e} = {}
    BY <1>1, <1>5 DEF IInv, EnqueueStoreSize, Access
  <2>2. Enqueueing = {e}
    BY <1>1, <2>1 DEF Enqueueing
  <2>3. \A f \in Enqueuers \ {e} : pc'[f] = pc[f]
    BY <1>1
  <2>4. pc'[e] = "enqNotify"
    BY <1>1, <1>2 DEF TypeOK
  <2>5. Enqueueing' = {}
    BY <2>2, <2>3, <2>4 DEF Enqueueing
  <2>6. \A d \in Dequeuers : pc'[d] = pc[d] /\ pc[d] \notin Holding
    BY <1>1, <1>2, <2>1, ThreadAssumption DEF Exclusion, TypeOK, ThreadAssumption, Threads
  <2>7. Taken' = Taken
    BY <1>1, <2>6 DEF Taken
  <2>8. Lag = -1 /\ Lag' = 0
    BY <2>2, <2>5, <2>6 DEF Lag, Holding
  <2>9. InOrder'
    BY <1>1, <2>1, <2>6, <2>7 DEF InOrder
  <2>10. Exact'
    <3>1. size' = Len(queue') + Lag'
      <4>1. size = Len(queue) + Lag /\ loaded[e] = size /\ Len(queue) \in Nat
        BY <1>1, <2>1 DEF Exact, TypeOK
      <4> QED
        BY <1>1, <2>8, <4>1
    <3>2. \A f \in Enqueuers : pc'[f] # "enqStore"
      BY <2>2, <2>3, <2>4 DEF Enqueueing
    <3> QED
      BY <3>1, <3>2, <2>5, <2>6 DEF Exact, Holding
  <2> QED
    BY <2>9, <2>10
<1> QED
  BY <1>3, <1>4, <1>5 DEF IInv

LEMMA EnqueueNotifyKeeps ==
  ASSUME IInv, NEW e \in Enqueuers, EnqueueNotify(e)
  PROVE  IInv'
<1>1. /\ TypeOK /\ Exclusion /\ pc[e] = "enqNotify"
      /\ UNCHANGED <<queue, size, owner, loaded, result, pushed, delivered, raced>>
  BY DEF IInv, EnqueueNotify
<1>2. e \notin Dequeuers /\ e \in Threads /\ Enqueuers \cap Dequeuers = {}
  BY ThreadAssumption DEF ThreadAssumption, Threads
<1>3. CASE waiters = {} /\ pc' = [pc EXCEPT ![e] = "idle"] /\ waiters' = waiters
  <2>1. TypeOK'
    BY <1>1, <1>2, <1>3 DEF TypeOK, Threads, EnqueuePcs, DequeuePcs
  <2>2. Exclusion'
    BY <1>1, <1>2, <1>3 DEF Exclusion, TypeOK, Holding
  <2>3. ASSUME ~raced' PROVE (InOrder /\ Exact)'
    <3>1. InOrder /\ Exact
      BY <1>1, <2>3 DEF IInv
    <3>2. \A f \in Enqueuers : \A p \in {"enqLoad", "enqStore"} : (pc'[f] = p) = (pc[f] = p)
      BY <1>1, <1>2, <1>3 DEF TypeOK
    <3>3. \A d \in Dequeuers : pc'[d] = pc[d]
      BY <1>1, <1>2, <1>3 DEF TypeOK
    <3>4. \A d \in Dequeuers : Enqueueing # {} => pc[d] \notin Holding \ {"check"}
      BY <3>1 DEF Exact
    <3> QED
      BY <1>1, <3>1, <3>2, <3>3, <3>4, QuietStep
  <2> QED
    BY <2>1, <2>2, <2>3 DEF IInv
<1>4. ASSUME NEW w \in waiters,
             pc' = [pc EXCEPT ![e] = "idle", ![w] = "lock"], waiters' = waiters \ {w}
      PROVE  IInv'
  <2>1. w \in Dequeuers /\ w \in Threads /\ w # e /\ pc[w] = "waiting"
    BY <1>1, <1>2 DEF TypeOK, Threads
  <2>2. /\ pc'[e] = "idle" /\ pc'[w] = "lock"
        /\ \A t \in Threads \ {e, w} : pc'[t] = pc[t]
        /\ pc' \in [Threads -> EnqueuePcs \cup DequeuePcs]
    BY <1>1, <1>2, <1>4, <2>1 DEF TypeOK, EnqueuePcs, DequeuePcs
  <2>3. TypeOK'
    <3>1. waiters' = {d \in Dequeuers : pc'[d] = "waiting"}
      BY <1>1, <1>2, <1>4, <2>1, <2>2 DEF TypeOK, Threads
    <3>2. /\ \A f \in Enqueuers : pc'[f] \in EnqueuePcs
          /\ \A d \in Dequeuers : pc'[d] \in DequeuePcs
      BY <1>1, <1>2, <2>1, <2>2 DEF TypeOK, Threads, EnqueuePcs, DequeuePcs
    <3> QED
      BY <1>1, <2>2, <3>1, <3>2 DEF TypeOK
  <2>4. Exclusion'
    <3>1. \A d \in Dequeuers : pc'[d] \in Holding => pc'[d] = pc[d]
      BY <1>2, <2>1, <2>2 DEF Threads, Holding
    <3>2. owner # NoThread => owner # e /\ owner # w
      BY <1>1, <2>1 DEF Exclusion, Holding
    <3>3. owner # NoThread => pc'[owner] = pc[owner]
      BY <1>1, <2>2, <3>2 DEF TypeOK, Threads
    <3> QED
      BY <1>1, <3>1, <3>3 DEF Exclusion, Holding
  <2>5. ASSUME ~raced' PROVE (InOrder /\ Exact)'
    <3>1. InOrder /\ Exact
      BY <1>1, <2>5 DEF IInv
    <3>2. \A f \in Enqueuers : \A p \in {"enqLoad", "enqStore"} : (pc'[f] = p) = (pc[f] = p)
      BY <1>1, <1>2, <2>1, <2>2 DEF Threads
    <3>3. \A d \in Dequeuers : \A p \in {"pop", "deqStore", "return"} : (pc'[d] = p) = (pc[d] = p)
      BY <1>2, <2>1, <2>2 DEF Threads
    <3>4. \A d \in Dequeuers : Enqueueing # {} => pc'[d] \notin Holding \ {"check"}
      BY <1>2, <2>1, <2>2, <3>1 DEF Exact, Threads, Holding
    <3> QED
      BY <1>1, <3>1, <3>2, <3>3, <3>4, QuietStep
  <2> QED
    BY <2>3, <2>4, <2>5 DEF IInv
<1> QED
  BY <1>3, <1>4 DEF EnqueueNotify

-----------------------------------------------------------------------------
(* Dequeue *)

LEMMA DequeuerIsNoEnqueuer ==
  ASSUME NEW d \in Dequeuers
  PROVE  d \in Threads /\ d \notin Enqueuers /\ d # NoThread /\ MaxItems \in Nat
BY ThreadAssumption DEF ThreadAssumption, Threads

\* What only moves one dequeuer, from one place to another
LEMMA MoveTypeOK ==
  ASSUME TypeOK, NEW d \in Dequeuers, NEW to \in DequeuePcs,
         pc' = [pc EXCEPT ![d] = to],
         waiters' = IF to = "waiting" THEN waiters \cup {d} ELSE waiters,
         pc[d] # "waiting"
  PROVE  /\ waiters' = {c \in Dequeuers : pc'[c] = "waiting"}
         /\ pc' \in [Threads -> EnqueuePcs \cup DequeuePcs]
         /\ \A e \in Enqueuers : pc'[e] = pc[e] /\ pc'[e] \in EnqueuePcs
         /\ \A c \in Dequeuers : pc'[c] \in DequeuePcs
         /\ pc'[d] = to /\ \A c \in Dequeuers \ {d} : pc'[c] = pc[c]
         /\ Enqueueing' = Enqueueing
<1>1. d \in Threads /\ d \notin Enqueuers
  BY DequeuerIsNoEnqueuer
<1>2. pc'[d] = to /\ \A t \in Threads \ {d} : pc'[t] = pc[t]
  BY <1>1 DEF TypeOK
<1>3. \A e \in Enqueuers : pc'[e] = pc[e]
  BY <1>1, <1>2 DEF Threads
<1>4. \A c \in Dequeuers \ {d} : pc'[c] = pc[c]
  BY <1>2 DEF Threads
<1>5. waiters' = {c \in Dequeuers : pc'[c] = "waiting"}
  BY <1>2, <1>4 DEF TypeOK
<1>6. Enqueueing' = Enqueueing
  BY <1>3 DEF Enqueueing
<1>7. pc' \in [Threads -> EnqueuePcs \cup DequeuePcs]
  BY <1>1 DEF TypeOK
<1> QED
  BY <1>2, <1>3, <1>4, <1>5, <1>6, <1>7 DEF TypeOK

LEMMA DequeueCallKeeps ==
  ASSUME IInv, NEW d \in Dequeuers, DequeueCall(d)
  PROVE  IInv'
<1>1. /\ TypeOK /\ Exclusion /\ pc[d] = "idle" /\ pc' = [pc EXCEPT ![d] = "lock"]
      /\ UNCHANGED <<queue, size, owner, waiters, loaded, result, pushed, delivered, raced>>
  BY DEF IInv, DequeueCall, Goto
<1>2. "lock" \in DequeuePcs
  BY DEF DequeuePcs
<1>3. /\ waiters' = {c \in Dequeuers : pc'[c] = "waiting"}
      /\ pc' \in [Threads -> EnqueuePcs \cup DequeuePcs]
      /\ \A e \in Enqueuers : pc'[e] = pc[e] /\ pc'[e] \in EnqueuePcs
      /\ \A c \in Dequeuers : pc'[c] \in DequeuePcs
      /\ pc'[d] = "lock" /\ \A c \in Dequeuers \ {d} : pc'[c] = pc[c]
  BY <1>1, <1>2, MoveTypeOK
<1>4. TypeOK'
  BY <1>1, <1>3 DEF TypeOK
<1>5. Exclusion'
  BY <1>1, <1>3 DEF Exclusion, TypeOK, Holding
<1>6. ASSUME ~raced' PROVE (InOrder /\ Exact)'
  <2>1. InOrder /\ Exact
    BY <1>1, <1>6 DEF IInv
  <2>2. \A c \in Dequeuers : \A p \in {"pop", "deqStore", "return"} : (pc'[c] = p) = (pc[c] = p)
    BY <1>1, <1>3
  <2>3. \A c \in Dequeuers : Enqueueing # {} => pc'[c] \notin Holding \ {"check"}
    BY <1>1, <1>3, <2>1 DEF Exact, Holding
  <2> QED
    BY <1>1, <1>3, <2>1, <2>2, <2>3, QuietStep
<1> QED
  BY <1>4, <1>5, <1>6 DEF IInv

LEMMA DequeueLockKeeps ==
  ASSUME IInv, NEW d \in Dequeuers, DequeueLock(d)
  PROVE  IInv'
<1>1. /\ TypeOK /\ Exclusion /\ owner = NoThread /\ owner' = d
      /\ pc[d] = "lock" /\ pc' = [pc EXCEPT ![d] = "check"]
      /\ UNCHANGED <<queue, size, waiters, loaded, result, pushed, delivered, raced>>
  BY DEF IInv, DequeueLock, Goto
<1>2. "check" \in DequeuePcs
  BY DEF DequeuePcs, Holding
<1>3. /\ waiters' = {c \in Dequeuers : pc'[c] = "waiting"}
      /\ pc' \in [Threads -> EnqueuePcs \cup DequeuePcs]
      /\ \A e \in Enqueuers : pc'[e] = pc[e] /\ pc'[e] \in EnqueuePcs
      /\ \A c \in Dequeuers : pc'[c] \in DequeuePcs
      /\ pc'[d] = "check" /\ \A c \in Dequeuers \ {d} : pc'[c] = pc[c]
  BY <1>1, <1>2, MoveTypeOK
<1>4. TypeOK'
  BY <1>1, <1>3 DEF TypeOK
<1>5. \A c \in Dequeuers : pc[c] \notin Holding
  BY <1>1, DequeuerIsNoEnqueuer DEF Exclusion
<1>6. Exclusion'
  BY <1>1, <1>3, <1>5 DEF Exclusion, Holding
<1>7. ASSUME ~raced' PROVE (InOrder /\ Exact)'
  <2>1. InOrder /\ Exact
    BY <1>1, <1>7 DEF IInv
  <2>2. \A c \in Dequeuers : \A p \in {"pop", "deqStore", "return"} : (pc'[c] = p) = (pc[c] = p)
    BY <1>1, <1>3
  <2>3. \A c \in Dequeuers : pc'[c] \notin Holding \ {"check"}
    BY <1>3, <1>5
  <2> QED
    BY <1>1, <1>3, <2>1, <2>2, <2>3, QuietStep
<1> QED
  BY <1>4, <1>6, <1>7 DEF IInv

LEMMA DequeueCheckKeeps ==
  ASSUME IInv, NEW d \in Dequeuers, DequeueCheck(d)
  PROVE  IInv'
<1>1. PICK to \in {"wait", "front"} :
      /\ TypeOK /\ Exclusion /\ pc[d] = "check" /\ pc' = [pc EXCEPT ![d] = to]
      /\ to = "front" => queue # <<>>
      /\ raced' = (raced \/ Enqueueing # {})
      /\ UNCHANGED <<queue, size, owner, waiters, loaded, result, pushed, delivered>>
  BY DEF IInv, DequeueCheck, Goto
<1>2. to \in DequeuePcs /\ to \in Holding /\ to # "waiting"
  BY DEF DequeuePcs, Holding
<1>3. /\ waiters' = {c \in Dequeuers : pc'[c] = "waiting"}
      /\ pc' \in [Threads -> EnqueuePcs \cup DequeuePcs]
      /\ \A e \in Enqueuers : pc'[e] = pc[e] /\ pc'[e] \in EnqueuePcs
      /\ \A c \in Dequeuers : pc'[c] \in DequeuePcs
      /\ pc'[d] = to /\ \A c \in Dequeuers \ {d} : pc'[c] = pc[c]
  BY <1>1, <1>2, MoveTypeOK
<1>4. TypeOK'
  <2>1. raced' \in BOOLEAN
    BY <1>1
  <2> QED
    BY <1>1, <1>3, <2>1 DEF TypeOK
<1>5. Exclusion'
  <2>1. owner = d
    BY <1>1 DEF Exclusion, Holding
  <2>2. \A c \in Dequeuers \ {d} : pc[c] \notin Holding
    BY <1>1, <2>1 DEF Exclusion
  <2> QED
    BY <1>1, <1>2, <1>3, <2>1, <2>2 DEF Exclusion, Holding
<1>6. ASSUME ~raced' PROVE (InOrder /\ Exact)'
  <2>1. InOrder /\ Exact /\ Enqueueing = {}
    BY <1>1, <1>6 DEF IInv
  <2>2. \A c \in Dequeuers : \A p \in {"pop", "deqStore", "return"} : (pc'[c] = p) = (pc[c] = p)
    BY <1>1, <1>3
  <2> QED
    BY <1>1, <1>3, <2>1, <2>2, QuietStep
<1> QED
  BY <1>4, <1>5, <1>6 DEF IInv

LEMMA DequeueWaitKeeps ==
  ASSUME IInv, NEW d \in Dequeuers, DequeueWait(d)
  PROVE  IInv'
<1>1. /\ TypeOK /\ Exclusion /\ pc[d] = "wait" /\ pc' = [pc EXCEPT ![d] = "waiting"]
      /\ owner' = NoThread /\ waiters' = waiters \cup {d}
      /\ UNCHANGED <<queue, size, loaded, result, pushed, delivered, raced>>
  BY DEF IInv, DequeueWait, Goto
<1>2. "waiting" \in DequeuePcs
  BY DEF DequeuePcs
<1>3. /\ waiters' = {c \in Dequeuers : pc'[c] = "waiting"}
      /\ pc' \in [Threads -> EnqueuePcs \cup DequeuePcs]
      /\ \A e \in Enqueuers : pc'[e] = pc[e] /\ pc'[e] \in EnqueuePcs
      /\ \A c \in Dequeuers : pc'[c] \in DequeuePcs
      /\ pc'[d] = "waiting" /\ \A c \in Dequeuers \ {d} : pc'[c] = pc[c]
  BY <1>1, <1>2, MoveTypeOK
<1>4. TypeOK'
  BY <1>1, <1>3 DEF TypeOK
<1>5. \A c \in Dequeuers : pc'[c] \notin Holding
  BY <1>1, <1>3 DEF Exclusion, Holding
<1>6. Exclusion'
  BY <1>1, <1>5 DEF Exclusion, Holding
<1>7. ASSUME ~raced' PROVE (InOrder /\ Exact)'
  <2>1. InOrder /\ Exact
    BY <1>1, <1>7 DEF IInv
  <2>2. \A c \in Dequeuers : \A p \in {"pop", "deqStore", "return"} : (pc'[c] = p) = (pc[c] = p)
    BY <1>1, <1>3
  <2> QED
    BY <1>1, <1>3, <1>5, <2>1, <2>2, QuietStep
<1> QED
  BY <1>4, <1>6, <1>7 DEF IInv

LEMMA DequeueFrontKeeps ==
  ASSUME IInv, NEW d \in Dequeuers, DequeueFront(d)
  PROVE  IInv'
<1>1. PICK x \in IF raced THEN 0..MaxItems ELSE {queue[1]} :
      /\ TypeOK /\ Exclusion /\ pc[d] = "front" /\ pc' = [pc EXCEPT ![d] = "pop"]
      /\ result' = [result EXCEPT ![d] = x]
      /\ UNCHANGED <<queue, size, owner, waiters, loaded, pushed, delivered, raced>>
  BY DEF IInv, DequeueFront, Goto
<1>2. "pop" \in DequeuePcs
  BY DEF DequeuePcs, Holding
<1>3. /\ waiters' = {c \in Dequeuers : pc'[c] = "waiting"}
      /\ pc' \in [Threads -> EnqueuePcs \cup DequeuePcs]
      /\ \A e \in Enqueuers : pc'[e] = pc[e] /\ pc'[e] \in EnqueuePcs
      /\ \A c \in Dequeuers : pc'[c] \in DequeuePcs
      /\ pc'[d] = "pop" /\ \A c \in Dequeuers \ {d} : pc'[c] = pc[c]
      /\ Enqueueing' = Enqueueing
  BY <1>1, <1>2, MoveTypeOK
<1>4. queue # <<>> /\ queue \in Seq(1..MaxItems) /\ Len(queue) \in Nat \ {0}
      /\ queue[1] \in 1..MaxItems /\ Len(delivered) \in Nat
  BY <1>1, DequeuerIsNoEnqueuer, EmptySeq DEF Exclusion, TypeOK
<1>5. x \in 0..MaxItems
  BY <1>1, <1>4, DequeuerIsNoEnqueuer
<1>6. TypeOK'
  BY <1>1, <1>3, <1>5 DEF TypeOK
<1>7. owner = d /\ \A c \in Dequeuers \ {d} : pc[c] \notin Holding
  BY <1>1 DEF Exclusion, Holding
<1>8. Exclusion'
  BY <1>1, <1>3, <1>4, <1>7 DEF Exclusion, Holding
<1>9. ASSUME ~raced' PROVE (InOrder /\ Exact)'
  <2>1. InOrder /\ Exact /\ x = queue[1]
    BY <1>1, <1>9 DEF IInv
  <2>2. \A c \in Dequeuers : /\ pc[c] \notin {"deqStore", "return"} /\ pc'[c] \notin {"deqStore", "return"}
    BY <1>1, <1>3, <1>7 DEF Holding
  <2>3. Taken = Len(delivered) /\ Taken' = Taken
    BY <1>1, <1>4, <2>2 DEF Taken
  <2>4. result'[d] = Len(delivered) + 1
    <3>1. queue[1] = Taken + 1
      BY <1>4, <2>1, <2>3 DEF InOrder
    <3> QED
      BY <1>1, <2>1, <2>3, <3>1 DEF TypeOK
  <2>5. InOrder'
    BY <1>1, <1>3, <1>7, <2>1, <2>3, <2>4 DEF InOrder, Holding
  <2>6. Enqueueing = {}
    BY <1>1, <2>1 DEF Exact, Holding
  <2>7. Lag' = Lag
    BY <1>3, <2>2, <2>6 DEF Lag
  <2>8. Exact'
    BY <1>1, <1>3, <2>1, <2>2, <2>6, <2>7 DEF Exact
  <2> QED
    BY <2>5, <2>8
<1> QED
  BY <1>6, <1>8, <1>9 DEF IInv

LEMMA DequeuePopKeeps ==
  ASSUME IInv, NEW d \in Dequeuers, DequeuePop(d)
  PROVE  IInv'
<1>1. /\ TypeOK /\ Exclusion /\ pc[d] = "pop" /\ pc' = [pc EXCEPT ![d] = "deqStore"]
      /\ queue' = Tail(queue) /\ loaded' = [loaded EXCEPT ![d] = size]
      /\ raced' = (raced \/ Enqueueing # {})
      /\ UNCHANGED <<size, owner, waiters, result, pushed, delivered>>
  BY DEF IInv, DequeuePop, Goto
<1>2. "deqStore" \in DequeuePcs
  BY DEF DequeuePcs, Holding
<1>3. /\ waiters' = {c \in Dequeuers : pc'[c] = "waiting"}
      /\ pc' \in [Threads -> EnqueuePcs \cup DequeuePcs]
      /\ \A e \in Enqueuers : pc'[e] = pc[e] /\ pc'[e] \in EnqueuePcs
      /\ \A c \in Dequeuers : pc'[c] \in DequeuePcs
      /\ pc'[d] = "deqStore" /\ \A c \in Dequeuers \ {d} : pc'[c] = pc[c]
      /\ Enqueueing' = Enqueueing
  BY <1>1, <1>2, MoveTypeOK
<1>4. /\ queue # <<>> /\ queue \in Seq(1..MaxItems)
      /\ Len(queue) \in Nat \ {0} /\ Len(delivered) \in Nat
  BY <1>1, EmptySeq DEF Exclusion, TypeOK
<1>5. /\ queue' \in Seq(1..MaxItems) /\ Len(queue') = Len(queue) - 1
      /\ \A i \in 1..Len(queue') : queue'[i] = queue[i + 1]
  BY <1>1, <1>4, HeadTailProperties
<1>6. TypeOK'
  <2>1. raced' \in BOOLEAN
    BY <1>1
  <2> QED
    BY <1>1, <1>3, <1>5, <2>1 DEF TypeOK
<1>7. owner = d /\ \A c \in Dequeuers \ {d} : pc[c] \notin Holding
  BY <1>1 DEF Exclusion, Holding
<1>8. Exclusion'
  BY <1>1, <1>3, <1>7 DEF Exclusion, Holding
<1>9. ASSUME ~raced' PROVE (InOrder /\ Exact)'
  <2>1. InOrder /\ Exact /\ Enqueueing = {}
    BY <1>1, <1>9 DEF IInv
  <2>2. \A c \in Dequeuers : pc[c] \notin {"deqStore", "return"}
    BY <1>1, <1>7 DEF Holding
  <2>3. Taken = Len(delivered) /\ Taken' = Len(delivered) + 1
    BY <1>1, <1>3, <1>4, <2>2 DEF Taken
  <2>4. InOrder'
    <3>1. Len(queue') = pushed' - Taken'
      BY <1>1, <1>4, <1>5, <2>1, <2>3 DEF InOrder, TypeOK
    <3>2. \A i \in 1..Len(queue') : queue'[i] = Taken' + i
      <4>1. \A j \in 1..Len(queue) : queue[j] = Len(delivered) + j
        BY <2>1, <2>3 DEF InOrder
      <4>2. ASSUME NEW i \in 1..Len(queue') PROVE queue'[i] = Taken' + i
        <5>1. i + 1 \in 1..Len(queue) /\ i \in Nat
          BY <1>4, <1>5
        <5>2. queue'[i] = Len(delivered) + (i + 1)
          BY <1>5, <4>1, <5>1
        <5> QED
          BY <1>4, <2>3, <5>1, <5>2
      <4> QED
        BY <4>2
    <3>3. \A c \in Dequeuers : pc'[c] \in {"pop", "deqStore", "return"} => result'[c] = Len(delivered') + 1
      BY <1>1, <1>3, <2>1 DEF InOrder
    <3> QED
      BY <1>1, <2>1, <3>1, <3>2, <3>3 DEF InOrder
  <2>5. Lag = 0 /\ Lag' = 1
    BY <1>3, <2>1, <2>2 DEF Lag
  <2>6. Exact'
    <3>1. size' = Len(queue') + Lag'
      BY <1>1, <1>4, <1>5, <2>1, <2>5 DEF Exact
    <3>2. \A c \in Dequeuers : pc'[c] = "deqStore" => loaded'[c] = size'
      BY <1>1, <1>3, <2>2, DequeuerIsNoEnqueuer DEF TypeOK
    <3>3. \A e \in Enqueuers : pc'[e] # "enqStore"
      BY <1>3, <2>1 DEF Enqueueing
    <3> QED
      BY <1>3, <2>1, <3>1, <3>2, <3>3 DEF Exact
  <2> QED
    BY <2>4, <2>6
<1> QED
  BY <1>6, <1>8, <1>9 DEF IInv

LEMMA DequeueStoreSizeKeeps ==
  ASSUME IInv, NEW d \in Dequeuers, DequeueStoreSize(d)
  PROVE  IInv'
<1>1. /\ TypeOK /\ Exclusion /\ pc[d] = "deqStore" /\ pc' = [pc EXCEPT ![d] = "return"]
      /\ size' = loaded[d] - 1
      /\ UNCHANGED <<queue, owner, waiters, loaded, result, pushed, delivered, raced>>
  BY DEF IInv, DequeueStoreSize, Goto
<1>2. "return" \in DequeuePcs
  BY DEF DequeuePcs, Holding
<1>3. /\ waiters' = {c \in Dequeuers : pc'[c] = "waiting"}
      /\ pc' \in [Threads -> EnqueuePcs \cup DequeuePcs]
      /\ \A e \in Enqueuers : pc'[e] = pc[e] /\ pc'[e] \in EnqueuePcs
      /\ \A c \in Dequeuers : pc'[c] \in DequeuePcs
      /\ pc'[d] = "return" /\ \A c \in Dequeuers \ {d} : pc'[c] = pc[c]
      /\ Enqueueing' = Enqueueing
  BY <1>1, <1>2, MoveTypeOK
<1>4. loaded[d] \in Int /\ Len(queue) \in Nat
  BY <1>1, DequeuerIsNoEnqueuer DEF TypeOK
<1>5. TypeOK'
  BY <1>1, <1>3, <1>4 DEF TypeOK
<1>6. owner = d /\ \A c \in Dequeuers \ {d} : pc[c] \notin Holding
  BY <1>1 DEF Exclusion, Holding
<1>7. Exclusion'
  BY <1>1, <1>3, <1>6 DEF Exclusion, Holding
<1>8. ASSUME ~raced' PROVE (InOrder /\ Exact)'
  <2>1. InOrder /\ Exact
    BY <1>1, <1>8 DEF IInv
  <2>2. Enqueueing = {}
    BY <1>1, <2>1 DEF Exact, Holding
  <2>3. Taken' = Taken
    BY <1>1, <1>3 DEF Taken
  <2>4. InOrder'
    BY <1>1, <1>3, <2>1, <2>3 DEF InOrder
  <2>5. \A c \in Dequeuers : pc'[c] # "deqStore"
    BY <1>3, <1>6 DEF Holding
  <2>6. Lag = 1 /\ Lag' = 0
    BY <1>1, <1>3, <2>2, <2>5 DEF Lag
  <2>7. Exact'
    <3>1. size' = Len(queue') + Lag'
      <4>1. loaded[d] = size /\ size = Len(queue) + 1
        BY <1>1, <2>1, <2>6 DEF Exact
      <4> QED
        BY <1>1, <1>4, <2>6, <4>1
    <3>2. \A e \in Enqueuers : pc'[e] # "enqStore"
      BY <1>3, <2>2 DEF Enqueueing
    <3> QED
      BY <1>3, <2>2, <2>5, <3>1, <3>2 DEF Exact
  <2> QED
    BY <2>4, <2>7
<1> QED
  BY <1>5, <1>7, <1>8 DEF IInv

LEMMA DequeueReturnKeeps ==
  ASSUME IInv, NEW d \in Dequeuers, DequeueReturn(d)
  PROVE  IInv'
<1>1. /\ TypeOK /\ Exclusion /\ pc[d] = "return" /\ pc' = [pc EXCEPT ![d] = "idle"]
      /\ owner' = NoThread /\ delivered' = Append(delivered, result[d])
      /\ UNCHANGED <<queue, size, waiters, loaded, result, pushed, raced>>
  BY DEF IInv, DequeueReturn, Goto
<1>2. "idle" \in DequeuePcs
  BY DEF DequeuePcs
<1>3. /\ waiters' = {c \in Dequeuers : pc'[c] = "waiting"}
      /\ pc' \in [Threads -> EnqueuePcs \cup DequeuePcs]
      /\ \A e \in Enqueuers : pc'[e] = pc[e] /\ pc'[e] \in EnqueuePcs
      /\ \A c \in Dequeuers : pc'[c] \in DequeuePcs
      /\ pc'[d] = "idle" /\ \A c \in Dequeuers \ {d} : pc'[c] = pc[c]
      /\ Enqueueing' = Enqueueing
  BY <1>1, <1>2, MoveTypeOK
<1>4. result[d] \in 0..MaxItems /\ delivered \in Seq(0..MaxItems) /\ Len(delivered) \in Nat
  BY <1>1 DEF TypeOK
<1>5. /\ delivered' \in Seq(0..MaxItems) /\ Len(delivered') = Len(delivered) + 1
      /\ \A i \in 1..Len(delivered) : delivered'[i] = delivered[i]
      /\ delivered'[Len(delivered) + 1] = result[d]
  BY <1>1, <1>4, AppendProperties
<1>6. TypeOK'
  BY <1>1, <1>3, <1>5 DEF TypeOK
<1>7. \A c \in Dequeuers : pc'[c] \notin Holding
  BY <1>1, <1>3 DEF Exclusion, Holding
<1>8. Exclusion'
  BY <1>1, <1>7 DEF Exclusion, Holding
<1>9. ASSUME ~raced' PROVE (InOrder /\ Exact)'
  <2>1. InOrder /\ Exact
    BY <1>1, <1>9 DEF IInv
  <2>2. Enqueueing = {}
    BY <1>1, <2>1 DEF Exact, Holding
  <2>3. Taken = Len(delivered) + 1 /\ Taken' = Len(delivered')
    BY <1>1, <1>5, <1>4, <1>7 DEF Taken, Holding
  <2>4. \A i \in 1..Len(delivered') : delivered'[i] = i
    <3>1. \A i \in 1..Len(delivered) : delivered'[i] = i
      BY <1>5, <2>1 DEF InOrder
    <3>2. delivered'[Len(delivered) + 1] = Len(delivered) + 1
      BY <1>1, <1>5, <2>1 DEF InOrder
    <3> QED
      BY <1>4, <1>5, <3>1, <3>2
  <2>5. InOrder'
    BY <1>1, <1>5, <1>7, <2>1, <2>3, <2>4 DEF InOrder, Holding
  <2>6. \A c \in Dequeuers : pc[c] # "deqStore" /\ pc'[c] # "deqStore"
    BY <1>1, <1>3 DEF Exclusion, Holding
  <2>7. Lag' = Lag
    BY <1>3, <2>2, <2>6 DEF Lag
  <2>8. \A e \in Enqueuers : pc'[e] # "enqStore"
    BY <1>3, <2>2 DEF Enqueueing
  <2>9. Exact'
    BY <1>1, <1>3, <2>1, <2>2, <2>6, <2>7, <2>8 DEF Exact
  <2> QED
    BY <2>5, <2>9
<1> QED
  BY <1>6, <1>8, <1>9 DEF IInv

-----------------------------------------------------------------------------
LEMMA NextHolds == IInv /\ [Next]_vars => IInv'
<1> SUFFICES ASSUME IInv, [Next]_vars PROVE IInv'
  OBVIOUS
<1>1. ASSUME NEW e \in Enqueuers, EnqueuePush(e) \/ Enqueue(e) PROVE IInv'
  BY <1>1, EnqueuePushKeeps, EnqueueLoadSizeKeeps, EnqueueStoreSizeKeeps, EnqueueNotifyKeeps
     DEF Enqueue
<1>2. ASSUME NEW d \in Dequeuers, DequeueCall(d) \/ DequeueLock(d) \/ Dequeue(d) PROVE IInv'
  BY <1>2, DequeueCallKeeps, DequeueLockKeeps, DequeueCheckKeeps, DequeueWaitKeeps,
     DequeueFrontKeeps, DequeuePopKeeps, DequeueStoreSizeKeeps, DequeueReturnKeeps
     DEF Dequeue
<1>3. ASSUME UNCHANGED vars PROVE IInv'
  BY <1>3 DEF vars, IInv, TypeOK, Exclusion, InOrder, Exact, Taken, Lag, Enqueueing
<1> QED
  BY <1>1, <1>2, <1>3 DEF Next

\* The inductive invariant of SynchronisedQueue.hh with Enqueue's lock left out
\* (lines 30-54): at most one dequeuer in the critical section, and before the
\* first race the queue, the results and m_size in step with each other.
THEOREM InvariantHolds == Spec => []IInv
<1>1. Init => IInv
  BY InitHolds
<1>2. IInv /\ [Next]_vars => IInv'
  BY NextHolds
<1> QED
  BY <1>1, <1>2, PTL DEF Spec

\* Two dequeuers never work on the queue at the same time (line 45), and before
\* the first race front() and pop() find an item (lines 52-53).
THEOREM DequeuersExclude ==
  Spec => [](/\ \A c, d \in Dequeuers : pc[c] \in Holding /\ pc[d] \in Holding => c = d
             /\ ~raced => \A d \in Dequeuers : pc[d] \in {"front", "pop"} => queue # <<>>)
<1>1. IInv => /\ \A c, d \in Dequeuers : pc[c] \in Holding /\ pc[d] \in Holding => c = d
              /\ ~raced => \A d \in Dequeuers : pc[d] \in {"front", "pop"} => queue # <<>>
  BY DEF IInv, Exclusion
<1> QED
  BY <1>1, InvariantHolds, PTL

\* Exactly-once, in-order delivery and an exact Size() (lines 30-54) for as long as
\* no access of Enqueue has met another thread's.
THEOREM OrderUntilRace == Spec => []InOrderUnlessRaced
<1>1. ASSUME IInv, ~raced, owner = NoThread
      PROVE  /\ queue = [i \in 1..pushed - Len(delivered) |-> Len(delivered) + i]
             /\ Enqueueing = {} => size = Len(queue)
  <2>1. TypeOK /\ Exclusion /\ InOrder /\ Exact
    BY <1>1 DEF IInv
  <2>2. \A d \in Dequeuers : pc[d] \notin Holding
    BY <1>1, <2>1, DequeuerIsNoEnqueuer DEF Exclusion
  <2>3. Taken = Len(delivered) /\ Len(delivered) \in Nat /\ Len(queue) \in Nat
    BY <2>1, <2>2 DEF Taken, Holding, TypeOK
  <2>4. Len(queue) = pushed - Len(delivered) /\ \A i \in 1..Len(queue) : queue[i] = Len(delivered) + i
    BY <2>1, <2>3 DEF InOrder
  <2>5. queue = [i \in 1..Len(queue) |-> queue[i]]
    BY <2>1 DEF TypeOK
  <2>6. queue = [i \in 1..pushed - Len(delivered) |-> Len(delivered) + i]
    BY <2>4, <2>5
  <2>7. Enqueueing = {} => Lag = 0
    BY <2>2 DEF Lag, Holding
  <2>8. Enqueueing = {} => size = Len(queue)
    BY <2>1, <2>3, <2>7 DEF Exact
  <2> QED
    BY <2>6, <2>8
<1>2. IInv => InOrderUnlessRaced
  BY <1>1 DEF IInv, InOrder, InOrderUnlessRaced
<1> QED
  BY <1>2, InvariantHolds, PTL
=============================================================================
