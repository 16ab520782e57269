--------------- MODULE RelaxedReaderWriterQueue_proofs ---------------
(***************************************************************************)
(* The fences of moodycamel::ReaderWriterQueue suffice, for any maxSize,   *)
(* MAX_BLOCK_SIZE, number of blocks and number of elements: whatever old   *)
(* values the relaxed loads deliver, there is no data race, the elements   *)
(* arrive in order and the assertions hold.                                *)
(*                                                                         *)
(* A load may deliver any message that its thread can still see.  So the   *)
(* invariant speaks of all of them: what each one, were it loaded next,    *)
(* would tell, and which writes would be known after the fence behind it.  *)
(* Loads and acquire fences only drop messages and add to what is known    *)
(* (Narrows); they keep all of it.  A store appends one message, and what  *)
(* it promises is what its release fence covers.                           *)
(***************************************************************************)
EXTENDS RelaxedReaderWriterQueue, SequenceTheorems, FiniteSetTheorems, TLAPS
-----------------------------------------------------------------------------
(* What a memory holds.  The i-th message of an atomic is the i-th of the   *)
(* stores the other thread may still load.                                  *)

Other(t) == IF t = P THEN C ELSE P

Depth(m, x) == Len(m.visible[x])
Val(m, x, i) == m.visible[x][i].value
Sto(m, x, i) == m.visible[x][i].store
Rel(m, x, i) == m.visible[x][i].release
Last(m, x) == Sto(m, x, Depth(m, x))

El(m, b, s) == m.plain[slot(b, s)].value
By(m, b, s) == m.plain[slot(b, s)].by
Wri(m, b, s) == m.plain[slot(b, s)].write

Acq(m, t) == m.acquired[t]
F(m, b) == Own(m, front(b))
T(m, b) == Own(m, tail(b))

MessageType == [value : Int, store : Nat, release : Nat]
ValuesOf(x) == IF x[1] \in {"front", "tail"} THEN Slots ELSE {NoBlock} \cup Blocks

ValuesOK(m) ==
  /\ \A x \in Atomics : \A i \in 1..Depth(m, x) : Val(m, x, i) \in ValuesOf(x)
  /\ \A p \in Plain : m.plain[p].value \in 0..MaxElements

\* A memory as the operations of WeakAtomics make it: no thread knows of writes
\* that were not made, and what a thread knows of is gone from what it may load,
\* but for the newest value.
MemoryOK(m) ==
  /\ m \in [visible : [Atomics -> Seq(MessageType)],
            plain : [Plain -> [value : Int, by : Threads, write : Nat]],
            writes : [Threads -> Nat], released : [Threads -> Nat],
            promised : [Threads -> Nat], acquired : [Threads -> Nat],
            raced : BOOLEAN]
  /\ \A t \in Threads : /\ m.released[t] <= m.writes[t]
                        /\ m.acquired[t] <= m.writes[Other(t)]
                        /\ m.promised[t] <= m.writes[Other(t)]
  /\ \A x \in Atomics :
       /\ Depth(m, x) >= 1
       /\ \A i \in 1..Depth(m, x) :
            /\ Sto(m, x, i) <= m.writes[WriterOf(x)]
            /\ Rel(m, x, i) <= m.writes[WriterOf(x)]
            /\ i >= 2 => Sto(m, x, i) > Acq(m, Other(WriterOf(x)))
  /\ \A p \in Plain : m.plain[p].write <= m.writes[m.plain[p].by]
  /\ ValuesOK(m)

-----------------------------------------------------------------------------
(* One block, between the indices that the threads know of *)

\* The indices lie in the block.
Indices(m, mask, b) ==
  /\ mask[b] \in Nat /\ mask[b] >= 1 /\ mask[b] < SlotBound
  /\ \A i \in 1..Depth(m, tail(b)) : Val(m, tail(b), i) \in 0..mask[b]
  /\ \A i \in 1..Depth(m, front(b)) : Val(m, front(b), i) \in 0..mask[b]

\* A later tail is further ahead of the front.
TailsAdvance(m, mask, b) ==
  \A i, j \in 1..Depth(m, tail(b)) : i <= j =>
    Span(F(m, b), Val(m, tail(b), i), mask[b]) <= Span(F(m, b), Val(m, tail(b), j), mask[b])

\* A later front leaves less of the block occupied.
FrontsAdvance(m, mask, b) ==
  \A i, j \in 1..Depth(m, front(b)) : i <= j =>
    Span(Val(m, front(b), i), T(m, b), mask[b]) >= Span(Val(m, front(b), j), T(m, b), mask[b])

\* A tail that the consumer may load comes with the slots before it.  The first
\* slot of a block ahead of the front block comes with tailBlock.
TailsCoverSlots(m, mask, b) ==
  \A i \in 1..Depth(m, tail(b)) : \A s \in 0..mask[b] :
    Span(F(m, b), s, mask[b]) < Span(F(m, b), Val(m, tail(b), i), mask[b]) =>
      /\ By(m, b, s) = P
      /\ \/ Wri(m, b, s) <= Rel(m, tail(b), i)
         \/ Wri(m, b, s) <= Acq(m, C)
         \/ s = F(m, b) /\ b # Own(m, frontBlock)

\* A front that the producer may load comes with the slots it gives back.
FrontsCoverSlots(m, mask, b) ==
  \A i \in 1..Depth(m, front(b)) : \A s \in 0..mask[b] :
    Span(Val(m, front(b), i), s, mask[b]) >= Span(Val(m, front(b), i), T(m, b), mask[b]) =>
      \/ By(m, b, s) = P
      \/ Wri(m, b, s) <= Rel(m, front(b), i)
      \/ Wri(m, b, s) <= Acq(m, P)

\* Outside of the indices there are no objects.
FreeSlots(m, mask, b) ==
  \A s \in 0..mask[b] :
    Span(F(m, b), s, mask[b]) >= Span(F(m, b), T(m, b), mask[b]) => El(m, b, s) = Raw

Block(m, mask, b) ==
  /\ Indices(m, mask, b)
  /\ TailsAdvance(m, mask, b) /\ FrontsAdvance(m, mask, b)
  /\ TailsCoverSlots(m, mask, b) /\ FrontsCoverSlots(m, mask, b)
  /\ FreeSlots(m, mask, b)

\* A block that malloc has not delivered yet
Fresh(m, b) ==
  /\ \A x \in {front(b), tail(b), next(b)} : Depth(m, x) = 1
  /\ Val(m, front(b), 1) = 0 /\ Val(m, tail(b), 1) = 0
  /\ \A s \in Slots \cup {Members} : Wri(m, b, s) = 0 /\ El(m, b, s) = Raw

\* Nothing more is stored to a block that the producer has left, and who knows
\* the producer's first n writes knows its last tail and its successor.
Closed(m, b, n) == Last(m, tail(b)) <= n /\ Last(m, next(b)) <= n

\* Who knows the producer's first n writes knows the block and finds an element.
Entered(m, mask, b, n) ==
  /\ Wri(m, b, Members) <= n
  /\ Wri(m, b, F(m, b)) <= n
  /\ \A i \in 1..Depth(m, tail(b)) :
       (\A j \in i+1..Depth(m, tail(b)) : Sto(m, tail(b), j) > n) =>
         Val(m, tail(b), i) # F(m, b)

-----------------------------------------------------------------------------
(* The ring of blocks from the one after the tail block to the tail block;  *)
(* k is the place of the front block.                                        *)

Ring(m, alloc, ring, k) ==
  /\ alloc \in Nat /\ alloc <= HeapBlocks
  /\ ring \in Seq(1..alloc) /\ k \in 1..Len(ring)
  /\ \A i, j \in 1..Len(ring) : ring[i] = ring[j] => i = j
  /\ \A i \in 1..Len(ring) :
       Own(m, next(ring[i])) = ring[IF i = Len(ring) THEN 1 ELSE i + 1]
  /\ Own(m, tailBlock) = ring[Len(ring)]
  /\ Own(m, frontBlock) = ring[k]

\* start[i] is the number of the first element of ring[i]; blocks before the
\* front block are empty, those after it are not.
Elements(m, mask, ring, k, start, rec, snt) ==
  /\ rec \in Nat /\ snt \in Nat
  /\ start \in [1..Len(ring)+1 -> Nat]
  /\ \A i, j \in 1..Len(ring)+1 : i <= j => start[i] <= start[j]
  /\ \A i \in 1..k : start[i] = rec + 1
  /\ start[Len(ring) + 1] = snt + 1
  /\ \A i \in 1..Len(ring) :
       /\ start[i + 1] = start[i] + Span(F(m, ring[i]), T(m, ring[i]), mask[ring[i]])
       /\ i > k => F(m, ring[i]) # T(m, ring[i])
       /\ \A s \in 0..mask[ring[i]] :
            Span(F(m, ring[i]), s, mask[ring[i]]) < Span(F(m, ring[i]), T(m, ring[i]), mask[ring[i]])
              => El(m, ring[i], s) = start[i] + Span(F(m, ring[i]), s, mask[ring[i]])

\* What thread t knows once it has loaded the i-th message of x and fenced
Upto(m, t, x, i) == IF Rel(m, x, i) >= Acq(m, t) THEN Rel(m, x, i) ELSE Acq(m, t)

\* A tail block that the consumer may load lies ahead, and comes with the blocks
\* before it and with its own first element.
TailBlocks(m, mask, ring, k) ==
  /\ \A i \in 1..Depth(m, tailBlock) :
       \E q \in k..Len(ring) :
         /\ Val(m, tailBlock, i) = ring[q]
         /\ \A j \in k..q-1 : Closed(m, ring[j], Upto(m, C, tailBlock, i))
         /\ \A j \in k+1..q : Entered(m, mask, ring[j], Upto(m, C, tailBlock, i))
  /\ \A i, j \in 1..Depth(m, tailBlock) : \A p, q \in 1..Len(ring) :
       i <= j /\ Val(m, tailBlock, i) = ring[p] /\ Val(m, tailBlock, j) = ring[q] => p <= q

\* A front block that the producer may load lies behind the front block, and
\* comes with the fronts of the blocks before it.
FrontBlocks(m, ring, k) ==
  /\ \A i \in 1..Depth(m, frontBlock) :
       \E q \in 1..k :
         /\ Val(m, frontBlock, i) = ring[q]
         /\ \A j \in 1..q-1 : Last(m, front(ring[j])) <= Upto(m, P, frontBlock, i)
  /\ \A i, j \in 1..Depth(m, frontBlock) : \A p, q \in 1..Len(ring) :
       i <= j /\ Val(m, frontBlock, i) = ring[p] /\ Val(m, frontBlock, j) = ring[q] => p <= q

Queue(m, mask, alloc, ring, k, start, rec, snt) ==
  /\ MemoryOK(m)
  /\ Ring(m, alloc, ring, k)
  /\ \A b \in 1..alloc : Block(m, mask, b)
  /\ \A b \in alloc+1..HeapBlocks : Fresh(m, b)
  /\ Elements(m, mask, ring, k, start, rec, snt)
  /\ TailBlocks(m, mask, ring, k)
  /\ FrontBlocks(m, ring, k)
  /\ \A i \in 1..k : Wri(m, ring[i], Members) <= Acq(m, C)

-----------------------------------------------------------------------------
(* What the threads have cached *)

\* The front block's localTail is a tail that was seen, with the slots before it.
LocalTailOK(m, mask, b, lt) ==
  /\ lt \in 0..mask[b]
  /\ \A i \in 1..Depth(m, tail(b)) :
       Span(F(m, b), lt, mask[b]) <= Span(F(m, b), Val(m, tail(b), i), mask[b])
  /\ \A s \in 0..mask[b] :
       Span(F(m, b), s, mask[b]) < Span(F(m, b), lt, mask[b]) => Wri(m, b, s) <= Acq(m, C)

\* The tail block's localFront is a front that was seen, with the slots given back.
LocalFrontOK(m, mask, b, lf) ==
  /\ lf \in 0..mask[b]
  /\ \A i \in 1..Depth(m, front(b)) :
       Span(lf, T(m, b), mask[b]) >= Span(Val(m, front(b), i), T(m, b), mask[b])
  /\ \A s \in 0..mask[b] :
       Span(lf, s, mask[b]) >= Span(lf, T(m, b), mask[b]) =>
         By(m, b, s) = P \/ Wri(m, b, s) <= Acq(m, P)

\* The producer about to enter the block after the tail block knows that the
\* consumer has left it.
ProducerAt(m, ring, k, pc) ==
  pc = "nextFront" =>
    /\ k > 1
    /\ \A i \in 1..Depth(m, frontBlock) : Val(m, frontBlock, i) # ring[1]
    /\ Last(m, front(ring[1])) <= Acq(m, P)

\* The consumer that has seen another tail block knows that the front block gets
\* no more elements, and that the next one has an element.
ConsumerAt(m, mask, ring, k, pc, b) ==
  /\ pc \in {"tail", "tailBlock", "tailAgain", "next"} => b = ring[k]
  /\ pc \in {"tailAgain", "next", "nextTail"} =>
       /\ k < Len(ring)
       /\ \A i \in 1..Depth(m, tailBlock) : Val(m, tailBlock, i) # ring[k]
       /\ Closed(m, ring[k], Acq(m, C))
       /\ Entered(m, mask, ring[k + 1], Acq(m, C))
  /\ pc \in {"next", "nextTail"} => F(m, ring[k]) = T(m, ring[k])
  /\ pc = "nextTail" => b = ring[k + 1]

Sizes ==
  /\ largestBlockSize \in Nat /\ largestBlockSize >= 2 /\ largestBlockSize <= SlotBound
  /\ \E j \in Nat : largestBlockSize = 2^j
  /\ sizeMask \in [Blocks -> Slots] /\ localFront \in [Blocks -> Slots] /\ localTail \in [Blocks -> Slots]
  /\ \A b \in allocated+1..HeapBlocks : localFront[b] = 0

Controls ==
  /\ ppc \in {"idle", "front", "frontBlock", "nextFront"} /\ pmode \in ProducerOps \cup {"none"}
  /\ cpc \in {"idle", "tail", "tailBlock", "tailAgain", "next", "nextTail"}
  /\ cop \in ConsumerOps \cup {"none"}
  /\ sent \in 0..MaxElements /\ (ppc # "idle" => sent < MaxElements)
  /\ cb \in 1..allocated
  /\ InOrderDespiteStaleLoads /\ cret \in 0..MaxElements
  /\ ~memory.raced /\ assertion = "ok"

\* The shape of the queue, over everything that it reads
Shaped(m, mask, alloc, lts, lfs, pp, cp, c, rec, snt, ring, k, start) ==
  /\ Queue(m, mask, alloc, ring, k, start, rec, snt)
  /\ LocalTailOK(m, mask, ring[k], lts[ring[k]])
  /\ LocalFrontOK(m, mask, ring[Len(ring)], lfs[ring[Len(ring)]])
  /\ ProducerAt(m, ring, k, pp)
  /\ ConsumerAt(m, mask, ring, k, cp, c)

Shape(ring, k, start) ==
  Shaped(memory, sizeMask, allocated, localTail, localFront, ppc, cpc, cb, received, sent, ring, k, start)

IInv == Sizes /\ Controls /\ \E ring, k, start : Shape(ring, k, start)
\* Induction over a set of natural numbers
LEMMA NatSets ==
  ASSUME NEW S, 0 \in S, \A n \in Nat : n \in S => n + 1 \in S
  PROVE  \A n \in Nat : n \in S
<1> SUFFICES ASSUME NEW x \in Nat, x \notin S PROVE FALSE
  OBVIOUS
<1> DEFINE below == {n \in 0..x : \A m \in 0..n : m \in S}
           f == [n \in below |-> n + 1]
<1>1. IsFiniteSet(below)
  <2>1. IsFiniteSet(0..x)
    BY FS_Interval
  <2>2. below \in SUBSET (0..x)
    OBVIOUS
  <2> HIDE DEF below
  <2> QED BY <2>1, <2>2, FS_Subset
<1>2. 0 \in below
  OBVIOUS
<1>3. ASSUME NEW n \in below PROVE n + 1 \in below
  <2>1. n \in Nat /\ n <= x /\ n \in S /\ \A m \in 0..n : m \in S
    OBVIOUS
  <2>2. n + 1 \in S /\ n # x
    BY <2>1
  <2>3. \A m \in 0..n+1 : m \in 0..n \/ m = n + 1
    BY <2>1
  <2>4. n + 1 \in 0..x
    BY <2>1, <2>2
  <2> QED BY <2>1, <2>2, <2>3, <2>4
<1>4. f \in Injection(below, below \ {0})
  <2>1. f \in [below -> below \ {0}]
    BY <1>3
  <2>2. \A a, b \in below : f[a] = f[b] => a = b
    OBVIOUS
  <2> QED BY <2>1, <2>2 DEF Injection, IsInjective
<1> HIDE DEF below, f
<1>5. IsFiniteSet(below \ {0}) /\ Cardinality(below \ {0}) = Cardinality(below) - 1
  BY <1>1, <1>2, FS_RemoveElement
<1>6. Cardinality(below) <= Cardinality(below \ {0})
  BY <1>4, <1>5, FS_Injection
<1>7. Cardinality(below) \in Nat
  BY <1>1, FS_CardinalityType
<1> QED BY <1>5, <1>6, <1>7

\* A set of natural numbers has a least element.
LEMMA LeastNatural ==
  ASSUME NEW S \in SUBSET Nat, S # {}
  PROVE  \E m \in S : \A n \in S : m <= n
<1> SUFFICES ASSUME \A m \in S : \E n \in S : n < m PROVE FALSE
  OBVIOUS
<1> DEFINE free == {n \in Nat : \A m \in 0..n : m \notin S}
<1>1. 0 \in free
  OBVIOUS
<1>2. ASSUME NEW n \in Nat, n \in free PROVE n + 1 \in free
  <2>1. \A m \in 0..n : m \notin S
    BY <1>2
  <2>2. n + 1 \notin S
    BY <2>1
  <2>3. \A m \in 0..n+1 : m \in 0..n \/ m = n + 1
    OBVIOUS
  <2> QED BY <2>1, <2>2, <2>3
<1> HIDE DEF free
<1>3. \A n \in Nat : n \in free
  BY <1>1, <1>2, NatSets
<1>4. PICK n \in S : TRUE
  OBVIOUS
<1>5. n \in free /\ n \in 0..n
  BY <1>3
<1> QED BY <1>5 DEF free

-----------------------------------------------------------------------------
\* 2^k, as the number of subsets of a set of k elements
Power(k) == Cardinality(SUBSET (1..k))

\* 2^k counts the subsets of a set of k elements.
LEMMA PowerIsCardinality ==
  ASSUME NEW k \in Nat
  PROVE  IsFiniteSet(SUBSET (1..k)) /\ 2^k = Power(k) /\ Power(k) \in Nat
<1>1. IsFiniteSet(1..k) /\ Cardinality(1..k) = k
  BY FS_Interval
<1>2. IsFiniteSet(SUBSET (1..k)) /\ Cardinality(SUBSET (1..k)) = 2^k
  BY <1>1, FS_SUBSET
<1>3. Power(k) \in Nat
  BY <1>2, FS_CardinalityType DEF Power
<1> QED BY <1>2, <1>3 DEF Power

\* 2^k exceeds k: ceilToPow2 finds a power of two not far away.
LEMMA PowerAbove ==
  ASSUME NEW k \in Nat
  PROVE  Power(k) > k
<1> DEFINE f == [i \in 0..k |-> 1..i]
<1>1. f \in Injection(0..k, SUBSET (1..k))
  <2>1. \A i, j \in 0..k : i < j => f[i] # f[j]
    <3> SUFFICES ASSUME NEW i \in 0..k, NEW j \in 0..k, i < j PROVE f[i] # f[j]
      OBVIOUS
    <3>1. j \in f[j] /\ j \notin f[i]
      OBVIOUS
    <3> QED BY <3>1
  <2>2. \A i, j \in 0..k : f[i] = f[j] => i = j
    BY <2>1
  <2>3. f \in [0..k -> SUBSET (1..k)]
    OBVIOUS
  <2> QED BY <2>2, <2>3 DEF Injection, IsInjective
<1>2. Cardinality(0..k) = k + 1
  BY FS_Interval
<1>3. Cardinality(0..k) <= Power(k)
  BY <1>1, PowerIsCardinality, FS_Injection DEF Power
<1>4. Power(k) \in Nat
  BY PowerIsCardinality
<1> QED BY <1>2, <1>3, <1>4

\* 2^k grows with k.
LEMMA PowerMonotonic ==
  ASSUME NEW j \in Nat, NEW k \in Nat, j <= k
  PROVE  Power(j) <= Power(k)
<1>1. SUBSET (1..j) \in SUBSET (SUBSET (1..k))
  OBVIOUS
<1> QED BY <1>1, PowerIsCardinality, FS_Subset DEF Power

\* Doubling a power of two delivers the next one (enqueue, line 492).
LEMMA PowerDoubles ==
  ASSUME NEW k \in Nat
  PROVE  Power(k + 1) = 2 * Power(k)
<1> DEFINE A == SUBSET (1..k)
           B == {X \in SUBSET (1..k+1) : k + 1 \in X}
           f == [X \in A |-> X \cup {k + 1}]
<1>1. SUBSET (1..k+1) = A \cup B /\ A \cap B = {}
  <2>1. 1..k+1 = 1..k \cup {k+1} /\ k + 1 \notin 1..k
    OBVIOUS
  <2> QED BY <2>1
<1>2. f \in Bijection(A, B)
  <2>1. 1..k+1 = 1..k \cup {k+1} /\ k + 1 \notin 1..k
    OBVIOUS
  <2>2. f \in [A -> B]
    BY <2>1
  <2>3. \A X, Y \in A : f[X] = f[Y] => X = Y
    BY <2>1
  <2>4. \A Y \in B : Y \ {k+1} \in A /\ f[Y \ {k+1}] = Y
    BY <2>1
  <2> QED BY <2>2, <2>3, <2>4 DEF Bijection, Injection, Surjection, IsInjective
<1>3. IsFiniteSet(A) /\ Cardinality(A) = Power(k) /\ Power(k) \in Nat
  BY PowerIsCardinality DEF Power
<1> HIDE DEF A, B, f
<1>4. IsFiniteSet(B) /\ Cardinality(B) = Cardinality(A)
  BY <1>2, <1>3, FS_Bijection DEF ExistsBijection
<1>5. Cardinality(A \cup B) = Cardinality(A) + Cardinality(B) - Cardinality(A \cap B)
  BY <1>3, <1>4, FS_Union
<1>6. Cardinality(A \cap B) = 0
  BY <1>1, FS_EmptySet
<1>7. Power(k + 1) = Cardinality(A \cup B)
  BY <1>1 DEF Power
<1> QED BY <1>3, <1>4, <1>5, <1>6, <1>7

-----------------------------------------------------------------------------
\* ceilToPow2 (lines 539-551) delivers a power of two that is at least its argument.
LEMMA CeilToPow2Is ==
  ASSUME NEW x \in Nat
  PROVE  \E k \in Nat : CeilToPow2(x) = Power(k) /\ Power(k) >= x
<1> DEFINE Powers == {2^k : k \in 0..x}
           Q == {p \in Powers : p >= x}
<1>1. \A p \in Powers : p \in Nat /\ \E k \in Nat : p = Power(k)
  <2> SUFFICES ASSUME NEW k \in 0..x PROVE 2^k \in Nat /\ \E j \in Nat : 2^k = Power(j)
    OBVIOUS
  <2>1. k \in Nat
    OBVIOUS
  <2>2. 2^k = Power(k) /\ Power(k) \in Nat
    BY <2>1, PowerIsCardinality
  <2> QED BY <2>1, <2>2
<1>2. Power(x) \in Q
  <2>1. x \in 0..x
    OBVIOUS
  <2>2. 2^x = Power(x) /\ Power(x) \in Nat /\ Power(x) > x
    BY PowerIsCardinality, PowerAbove
  <2>3. Power(x) \in Powers
    BY <2>1, <2>2
  <2> HIDE DEF Powers
  <2> QED BY <2>2, <2>3
<1>3. Q \subseteq Nat /\ Q # {}
  BY <1>1, <1>2
<1>4. PICK m \in Q : \A n \in Q : m <= n
  BY <1>3, LeastNatural
<1>5. \E p \in Powers : p >= x /\ \A q \in Powers : q >= x => p <= q
  BY <1>4
<1>6. CeilToPow2(x) \in Powers /\ CeilToPow2(x) >= x
  BY <1>5 DEF CeilToPow2
<1> QED BY <1>1, <1>6

\* What the division in the constructor (line 99) leaves
LEMMA Quotient ==
  ASSUME NEW a \in Nat, NEW b \in Nat, b >= 1
  PROVE  a \div b \in Nat /\ b * (a \div b) <= a /\ a < b * (a \div b) + b
OBVIOUS

\* The size computed for a single block is a power of two with a spare slot, and
\* MAX_BLOCK_SIZE is a power of two (lines 87-92).
LEMMA Sizing ==
  /\ \E k \in Nat : OneBlockSize = Power(k)
  /\ OneBlockSize \in Nat /\ OneBlockSize >= MaxSize + 1
  /\ \E k \in Nat : MAX_BLOCK_SIZE = Power(k)
<1>1. MaxSize + 1 \in Nat
  BY SizeAssumption
<1>2. PICK k \in Nat : OneBlockSize = Power(k) /\ Power(k) >= MaxSize + 1
  BY <1>1, CeilToPow2Is DEF OneBlockSize
<1>3. Power(k) \in Nat
  BY PowerIsCardinality
<1>4. \E j \in Nat : MAX_BLOCK_SIZE = Power(j)
  <2>1. PICK j \in 0..MAX_BLOCK_SIZE : MAX_BLOCK_SIZE = 2^j
    BY SizeAssumption
  <2>2. j \in Nat
    BY SizeAssumption
  <2> QED BY <2>1, <2>2, PowerIsCardinality
<1> QED BY <1>2, <1>3, <1>4

\* The constructor makes at least one block, of at least two slots and of no
\* more than SlotBound.
LEMMA SizesPositive == /\ InitialBlockSize \in Nat /\ InitialBlockSize >= 2
                       /\ InitialBlockCount \in Nat /\ InitialBlockCount >= 1
                       /\ SlotBound \in Nat /\ SlotBound >= InitialBlockSize
                       /\ SlotBound >= MAX_BLOCK_SIZE
                       /\ HeapBlocks \in Nat /\ HeapBlocks >= InitialBlockCount
<1>1. /\ MaxSize \in Nat /\ MaxSize >= 1 /\ MAX_BLOCK_SIZE \in Nat /\ MAX_BLOCK_SIZE >= 2
      /\ HeapBlocks \in Nat /\ HeapBlocks >= InitialBlockCount
  BY SizeAssumption
<1>2. /\ InitialBlockSize \in Nat /\ InitialBlockSize >= 2
      /\ SlotBound \in Nat /\ SlotBound >= InitialBlockSize /\ SlotBound >= MAX_BLOCK_SIZE
  BY <1>1, Sizing DEF InitialBlockSize, SlotBound, SeveralBlocks
<1> DEFINE a == MaxSize + 2 * MAX_BLOCK_SIZE - 3
           b == MAX_BLOCK_SIZE - 1
<1>3. a \in Nat /\ b \in Nat /\ b >= 1 /\ a >= b
  BY <1>1
<1>4. a \div b \in Nat /\ a < b * (a \div b) + b
  BY <1>3, Quotient
<1>5. a \div b # 0
  <2> SUFFICES ASSUME a \div b = 0 PROVE FALSE
    OBVIOUS
  <2>1. b * (a \div b) = 0
    BY <1>3
  <2> QED BY <2>1, <1>3, <1>4
<1>6. InitialBlockCount = IF SeveralBlocks THEN a \div b ELSE 1
  BY DEF InitialBlockCount
<1> QED BY <1>1, <1>2, <1>4, <1>5, <1>6

\* The blocks the constructor makes hold maxSize elements: a single one with a
\* spare slot, or all but one of several.
\* Doubling a block size below MAX_BLOCK_SIZE stays within it: both are powers of two.
LEMMA DoublingStaysBelow ==
  ASSUME NEW j \in Nat, 2^j < MAX_BLOCK_SIZE
  PROVE  2 * 2^j <= MAX_BLOCK_SIZE /\ 2 * 2^j = 2^(j + 1)
<1>1. PICK m \in Nat : MAX_BLOCK_SIZE = Power(m)
  BY Sizing
<1>2. 2^j = Power(j) /\ Power(j) \in Nat /\ 2^(j+1) = Power(j + 1) /\ Power(m) \in Nat
      /\ Power(j + 1) = 2 * Power(j) /\ Power(j + 1) \in Nat
  <2>1. j + 1 \in Nat
    OBVIOUS
  <2>2. 2^j = Power(j) /\ Power(j) \in Nat
    BY PowerIsCardinality
  <2>3. 2^(j+1) = Power(j + 1) /\ Power(j + 1) \in Nat
    BY <2>1, PowerIsCardinality
  <2>4. Power(m) \in Nat
    BY PowerIsCardinality
  <2>5. Power(j + 1) = 2 * Power(j)
    BY PowerDoubles
  <2> QED BY <2>2, <2>3, <2>4, <2>5
<1>3. ~ (m <= j)
  BY <1>1, <1>2, PowerMonotonic
<1>4. j + 1 <= m
  BY <1>3
<1>5. Power(j + 1) <= Power(m)
  BY <1>4, PowerMonotonic
<1> QED BY <1>1, <1>2, <1>5

-----------------------------------------------------------------------------
\* The number of elements between two indices of a block is 0 only when they are
\* equal, and the mask only when the slot after the second is the first.
LEMMA SpanRange ==
  ASSUME NEW m \in Nat, NEW f \in 0..m, NEW t \in 0..m
  PROVE  /\ Span(f, t, m) \in 0..m
         /\ Wrap(t, m) \in 0..m
         /\ f = t => Span(f, t, m) = 0
         /\ f # t => Span(f, t, m) > 0
         /\ Wrap(t, m) = f => Span(f, t, m) = m
         /\ Wrap(t, m) # f => Span(f, t, m) < m
BY DEF Span, Wrap

\* Advancing tail adds an element, advancing front takes one away, unless the
\* indices meet.
LEMMA SpanWrap ==
  ASSUME NEW m \in Nat, NEW f \in 0..m, NEW t \in 0..m
  PROVE  /\ Wrap(t, m) # f => Span(f, Wrap(t, m), m) = Span(f, t, m) + 1
         /\ f # t => Span(Wrap(f, m), t, m) = Span(f, t, m) - 1
         /\ Span(Wrap(f, m), f, m) = m
BY DEF Span, Wrap

\* Different slots are at different distances from front.
LEMMA SpanInjective ==
  ASSUME NEW m \in Nat, NEW f \in 0..m, NEW t \in 0..m, NEW i \in 0..m,
         Span(f, i, m) = Span(f, t, m)
  PROVE  i = t
BY DEF Span

-----------------------------------------------------------------------------
(* The operations on memory *)

\* The i-th message of n is the one d places further on in m.
Drops(m, n, x, d) ==
  /\ d \in 0..Depth(m, x) - 1
  /\ Depth(n, x) = Depth(m, x) - d
  /\ \A i \in 1..Depth(n, x) : n.visible[x][i] = m.visible[x][i + d]

\* n is m, but some old values can no longer be loaded and a thread may know more.
Narrows(m, n) ==
  /\ n.plain = m.plain /\ n.writes = m.writes /\ n.released = m.released
  /\ n.raced = m.raced
  /\ \A t \in Threads : Acq(n, t) >= Acq(m, t)
  /\ \A x \in Atomics : \E d \in 0..Depth(m, x) - 1 : Drops(m, n, x, d)

\* The larger of two numbers
LEMMA MaxOfTwo ==
  ASSUME NEW a \in Int, NEW b \in Int
  PROVE  Max({a, b}) = IF a >= b THEN a ELSE b
<1> DEFINE c == IF a >= b THEN a ELSE b
<1>1. c \in {a, b} /\ \A y \in {a, b} : c >= y
  OBVIOUS
<1>2. \A x \in {a, b} : (\A y \in {a, b} : x >= y) => x = c
  OBVIOUS
<1> HIDE DEF c
<1>3. (CHOOSE x \in {a, b} : \A y \in {a, b} : x >= y) = c
  BY <1>1, <1>2
<1> QED BY <1>3 DEF Max, c

\* What is left of a sequence from its k-th element on
LEMMA SuffixIs ==
  ASSUME NEW S, NEW s \in Seq(S), NEW k \in 1..Len(s)
  PROVE  /\ SubSeq(s, k, Len(s)) \in Seq(S)
         /\ Len(SubSeq(s, k, Len(s))) = Len(s) - (k - 1)
         /\ \A i \in 1..Len(s) - (k - 1) : SubSeq(s, k, Len(s))[i] = s[i + (k - 1)]
OBVIOUS

\* There are two threads, and each atomic has one of them as its writer.
LEMMA ThreadFacts ==
  /\ P \in Threads /\ C \in Threads /\ P # C
  /\ Other(P) = C /\ Other(C) = P
  /\ \A t \in Threads : t = P \/ t = C
  /\ \A t \in Threads : Other(t) \in Threads /\ Other(Other(t)) = t /\ Other(t) # t
  /\ \A x : WriterOf(x) \in Threads
BY DEF P, C, Threads, Other, WriterOf

\* The numbers that a memory keeps are numbers, and ordered.
LEMMA MemoryFacts ==
  ASSUME NEW m, MemoryOK(m)
  PROVE  /\ \A t \in Threads : /\ m.writes[t] \in Nat /\ m.released[t] \in Nat
                               /\ Acq(m, t) \in Nat /\ m.promised[t] \in Nat
                               /\ m.released[t] <= m.writes[t]
                               /\ Acq(m, t) <= m.writes[Other(t)]
                               /\ m.promised[t] <= m.writes[Other(t)]
         /\ \A x \in Atomics :
              /\ Depth(m, x) \in Nat /\ Depth(m, x) >= 1
              /\ Own(m, x) = Val(m, x, Depth(m, x))
              /\ m.visible[x] \in Seq(MessageType)
              /\ \A i \in 1..Depth(m, x) :
                   /\ Val(m, x, i) \in Int /\ Sto(m, x, i) \in Nat /\ Rel(m, x, i) \in Nat
                   /\ Sto(m, x, i) <= m.writes[WriterOf(x)]
                   /\ Rel(m, x, i) <= m.writes[WriterOf(x)]
                   /\ i >= 2 => Sto(m, x, i) > Acq(m, Other(WriterOf(x)))
         /\ \A p \in Plain : /\ m.plain[p] \in [value : Int, by : Threads, write : Nat]
                             /\ m.plain[p].write \in Nat /\ m.plain[p].by \in Threads
                             /\ m.plain[p].write <= m.writes[m.plain[p].by]
<1>1. ASSUME NEW t \in Threads
      PROVE  /\ m.writes[t] \in Nat /\ m.released[t] \in Nat
             /\ Acq(m, t) \in Nat /\ m.promised[t] \in Nat
             /\ m.released[t] <= m.writes[t]
             /\ Acq(m, t) <= m.writes[Other(t)]
             /\ m.promised[t] <= m.writes[Other(t)]
  BY DEF MemoryOK, Acq
<1>2. ASSUME NEW x \in Atomics
      PROVE  /\ Depth(m, x) \in Nat /\ Depth(m, x) >= 1
             /\ Own(m, x) = Val(m, x, Depth(m, x))
             /\ m.visible[x] \in Seq(MessageType)
             /\ \A i \in 1..Depth(m, x) :
                   /\ Val(m, x, i) \in Int /\ Sto(m, x, i) \in Nat /\ Rel(m, x, i) \in Nat
                   /\ Sto(m, x, i) <= m.writes[WriterOf(x)]
                   /\ Rel(m, x, i) <= m.writes[WriterOf(x)]
                   /\ i >= 2 => Sto(m, x, i) > Acq(m, Other(WriterOf(x)))
  <2>1. m.visible[x] \in Seq(MessageType)
    BY DEF MemoryOK
  <2>2. Depth(m, x) \in Nat /\ Own(m, x) = Val(m, x, Depth(m, x))
    BY <2>1 DEF Depth, Own, Val
  <2>3. \A i \in 1..Depth(m, x) : m.visible[x][i] \in MessageType
    BY <2>1 DEF Depth
  <2>4. \A i \in 1..Depth(m, x) : Val(m, x, i) \in Int /\ Sto(m, x, i) \in Nat /\ Rel(m, x, i) \in Nat
    BY <2>3 DEF Val, Sto, Rel, MessageType
  <2>5. /\ Depth(m, x) >= 1
        /\ \A i \in 1..Depth(m, x) :
                   /\ Sto(m, x, i) <= m.writes[WriterOf(x)]
                   /\ Rel(m, x, i) <= m.writes[WriterOf(x)]
                   /\ i >= 2 => Sto(m, x, i) > Acq(m, Other(WriterOf(x)))
    BY DEF MemoryOK
  <2> QED BY <2>1, <2>2, <2>4, <2>5
<1>3. ASSUME NEW p \in Plain
      PROVE  /\ m.plain[p] \in [value : Int, by : Threads, write : Nat]
             /\ m.plain[p].write \in Nat /\ m.plain[p].by \in Threads
             /\ m.plain[p].write <= m.writes[m.plain[p].by]
  BY DEF MemoryOK
<1> QED BY <1>1, <1>2, <1>3

\* Narrowing keeps a memory in order, if the promises are kept and what is known
\* is forgotten.
LEMMA NarrowsKeepMemory ==
  ASSUME NEW m, MemoryOK(m), NEW n, Narrows(m, n),
         n = [visible |-> n.visible, plain |-> n.plain, writes |-> n.writes,
              released |-> n.released, promised |-> n.promised, acquired |-> n.acquired,
              raced |-> n.raced],
         n.visible \in [Atomics -> Seq(MessageType)],
         n.promised \in [Threads -> Nat], n.acquired \in [Threads -> Nat],
         \A t \in Threads : n.promised[t] <= m.writes[Other(t)] /\ n.acquired[t] <= m.writes[Other(t)],
         \A x \in Atomics : \A i \in 1..Depth(n, x) :
           i >= 2 => Sto(n, x, i) > Acq(n, Other(WriterOf(x)))
  PROVE  MemoryOK(n)
<1>1. n \in [visible : [Atomics -> Seq(MessageType)],
            plain : [Plain -> [value : Int, by : Threads, write : Nat]],
            writes : [Threads -> Nat], released : [Threads -> Nat],
            promised : [Threads -> Nat], acquired : [Threads -> Nat],
            raced : BOOLEAN]
  <2>1. /\ n.plain \in [Plain -> [value : Int, by : Threads, write : Nat]]
        /\ n.writes \in [Threads -> Nat] /\ n.released \in [Threads -> Nat] /\ n.raced \in BOOLEAN
    BY DEF Narrows, MemoryOK
  <2> QED BY <2>1
<1>2. \A t \in Threads : n.released[t] <= n.writes[t]
  BY DEF Narrows, MemoryOK
<1>3. \A p \in Plain : n.plain[p].write <= n.writes[n.plain[p].by]
  BY DEF Narrows, MemoryOK
<1>4. ASSUME NEW x \in Atomics
      PROVE  /\ Depth(n, x) >= 1
             /\ \A i \in 1..Depth(n, x) :
                  /\ Sto(n, x, i) <= n.writes[WriterOf(x)]
                  /\ Rel(n, x, i) <= n.writes[WriterOf(x)]
  <2>1. PICK d \in 0..Depth(m, x) - 1 : Drops(m, n, x, d)
    BY DEF Narrows
  <2>2. Depth(m, x) \in Nat /\ d \in Nat /\ d < Depth(m, x)
    BY MemoryFacts
  <2>3. Depth(n, x) = Depth(m, x) - d /\ Depth(n, x) >= 1
    BY <2>1, <2>2 DEF Drops
  <2>4. ASSUME NEW i \in 1..Depth(n, x)
        PROVE  Sto(n, x, i) <= n.writes[WriterOf(x)] /\ Rel(n, x, i) <= n.writes[WriterOf(x)]
    <3>1. i + d \in 1..Depth(m, x)
      BY <2>2, <2>3
    <3>2. Sto(n, x, i) = Sto(m, x, i + d) /\ Rel(n, x, i) = Rel(m, x, i + d)
      BY <2>1 DEF Drops, Sto, Rel
    <3> QED BY <3>1, <3>2, MemoryFacts DEF Narrows
  <2> QED BY <2>3, <2>4
<1>5. \A t \in Threads : n.acquired[t] <= n.writes[Other(t)] /\ n.promised[t] <= n.writes[Other(t)]
  BY DEF Narrows
<1>6. ValuesOK(n)
  <2>1. ASSUME NEW x \in Atomics, NEW i \in 1..Depth(n, x) PROVE Val(n, x, i) \in ValuesOf(x)
    <3>1. PICK d \in 0..Depth(m, x) - 1 : Drops(m, n, x, d)
      BY DEF Narrows
    <3>2. Depth(m, x) \in Nat /\ d \in Nat /\ d < Depth(m, x)
      BY MemoryFacts
    <3>3. i + d \in 1..Depth(m, x)
      BY <3>1, <3>2 DEF Drops
    <3>4. Val(n, x, i) = Val(m, x, i + d)
      BY <3>1 DEF Drops, Val
    <3> QED BY <3>3, <3>4 DEF MemoryOK, ValuesOK
  <2>2. \A p \in Plain : n.plain[p].value \in 0..MaxElements
    BY DEF Narrows, MemoryOK, ValuesOK
  <2> QED BY <2>1, <2>2 DEF ValuesOK
<1> QED BY <1>1, <1>2, <1>3, <1>4, <1>5, <1>6 DEF MemoryOK

\* A load forgets what is older than the value it delivers.
LEMMA LoadsNarrow ==
  ASSUME NEW m, MemoryOK(m), NEW t \in Threads, NEW x \in Atomics, WriterOf(x) = Other(t),
         NEW load \in Loads(m, t, x)
  PROVE  /\ MemoryOK(load.memory) /\ Narrows(m, load.memory)
         /\ \A u \in Threads : Acq(load.memory, u) = Acq(m, u)
         /\ \A y \in Atomics : y # x => load.memory.visible[y] = m.visible[y]
         /\ load.value = Val(load.memory, x, 1)
         /\ load.memory.promised[t] >= Rel(load.memory, x, 1)
<1>1. PICK k \in 1..Len(m.visible[x]) :
        load = [value |-> m.visible[x][k].value,
                memory |-> [m EXCEPT !.visible[x] = SubSeq(@, k, Len(@)),
                                     !.promised[t] = Max({@, m.visible[x][k].release})]]
  BY DEF Loads
<1> DEFINE n == load.memory
           r == Rel(m, x, k)
           p == IF m.promised[t] >= r THEN m.promised[t] ELSE r
<1>2. /\ k \in 1..Depth(m, x) /\ r \in Nat /\ r <= m.writes[Other(t)]
      /\ m.promised[t] \in Nat /\ m.promised[t] <= m.writes[Other(t)]
      /\ m.writes[Other(t)] \in Nat /\ k \in Nat
  BY <1>1, MemoryFacts, ThreadFacts DEF Depth
<1>3. Max({m.promised[t], m.visible[x][k].release}) = p /\ p \in Nat /\ p >= r /\ p <= m.writes[Other(t)]
  BY <1>2, MaxOfTwo, SMTT(30) DEF Rel
<1>4. n = [m EXCEPT !.visible[x] = SubSeq(m.visible[x], k, Len(m.visible[x])), !.promised[t] = p]
  BY <1>1, <1>3 DEF MemoryOK
<1>5. /\ load.value = Val(m, x, k)
      /\ n.plain = m.plain /\ n.writes = m.writes /\ n.released = m.released
      /\ n.acquired = m.acquired /\ n.raced = m.raced
      /\ n.visible = [m.visible EXCEPT ![x] = SubSeq(m.visible[x], k, Len(m.visible[x]))]
      /\ n.promised = [m.promised EXCEPT ![t] = p]
  BY <1>1, <1>4 DEF MemoryOK, Val
<1>6. /\ m.visible \in [Atomics -> Seq(MessageType)] /\ m.promised \in [Threads -> Nat]
      /\ m.writes \in [Threads -> Nat]
  BY DEF MemoryOK
<1> DEFINE suffix == SubSeq(m.visible[x], k, Len(m.visible[x]))
<1>7. /\ suffix \in Seq(MessageType) /\ Len(suffix) = Depth(m, x) - (k - 1)
      /\ \A i \in 1..Depth(m, x) - (k - 1) : suffix[i] = m.visible[x][i + (k - 1)]
  <2>1. m.visible[x] \in Seq(MessageType) /\ k \in 1..Len(m.visible[x])
    BY <1>1, <1>6
  <2> QED BY <2>1, SuffixIs DEF Depth
<1> HIDE DEF suffix
<1>8. n.visible[x] = suffix /\ \A y \in Atomics : y # x => n.visible[y] = m.visible[y]
  BY <1>5, <1>6 DEF suffix
<1>9. Drops(m, n, x, k - 1)
  BY <1>2, <1>7, <1>8, MemoryFacts DEF Drops, Depth
<1>10. \A y \in Atomics : y # x => Drops(m, n, y, 0)
  <2> SUFFICES ASSUME NEW y \in Atomics, y # x PROVE Drops(m, n, y, 0)
    OBVIOUS
  <2>1. Depth(m, y) \in Nat /\ Depth(m, y) >= 1 /\ Depth(n, y) = Depth(m, y)
    BY <1>8, MemoryFacts DEF Depth
  <2>2. \A i \in 1..Depth(n, y) : i + 0 = i
    BY <2>1
  <2> QED BY <1>8, <2>1, <2>2 DEF Drops
<1>11. \A u \in Threads : Acq(n, u) = Acq(m, u) /\ Acq(n, u) \in Nat
  BY <1>5, MemoryFacts DEF Acq
<1>12. Narrows(m, n)
  <2>1. \A y \in Atomics : \E d \in 0..Depth(m, y) - 1 : Drops(m, n, y, d)
    BY <1>9, <1>10 DEF Drops
  <2>2. \A u \in Threads : Acq(n, u) >= Acq(m, u)
    BY <1>11
  <2> QED BY <1>5, <2>1, <2>2 DEF Narrows
<1>13. \A u \in Threads : n.promised[u] \in Nat /\ n.promised[u] <= m.writes[Other(u)]
  BY <1>3, <1>5, <1>6, MemoryFacts
<1> HIDE DEF p, r, n
<1>14. MemoryOK(n)
  <2>1. \A y \in Atomics : \A i \in 1..Depth(n, y) :
          i >= 2 => Sto(n, y, i) > Acq(n, Other(WriterOf(y)))
    <3> SUFFICES ASSUME NEW y \in Atomics, NEW i \in 1..Depth(n, y), i >= 2
                 PROVE  Sto(n, y, i) > Acq(n, Other(WriterOf(y)))
      OBVIOUS
    <3>1. PICK d \in 0..Depth(m, y) - 1 : Drops(m, n, y, d)
      BY <1>12 DEF Narrows
    <3>2. Depth(m, y) \in Nat /\ Depth(n, y) = Depth(m, y) - d
      BY <3>1, MemoryFacts DEF Drops
    <3>3. i + d \in 1..Depth(m, y) /\ i + d >= 2
      BY <3>2
    <3>4. Sto(n, y, i) = Sto(m, y, i + d)
      BY <3>1 DEF Drops, Sto
    <3> QED BY <3>3, <3>4, <1>11, MemoryFacts, ThreadFacts
  <2>2. n.visible \in [Atomics -> Seq(MessageType)]
    BY <1>5, <1>6, <1>7 DEF suffix
  <2>3. n.promised \in [Threads -> Nat] /\ n.acquired \in [Threads -> Nat]
    BY <1>3, <1>5 DEF MemoryOK
  <2>4. n = [visible |-> n.visible, plain |-> n.plain, writes |-> n.writes,
              released |-> n.released, promised |-> n.promised, acquired |-> n.acquired,
              raced |-> n.raced]
    BY <1>4 DEF MemoryOK, n
  <2>5. \A u \in Threads : n.promised[u] <= m.writes[Other(u)] /\ n.acquired[u] <= m.writes[Other(u)]
    BY <1>5, <1>13, MemoryFacts DEF Acq
  <2> QED BY <1>12, <2>1, <2>2, <2>3, <2>4, <2>5, NarrowsKeepMemory
<1>15. Val(n, x, 1) = Val(m, x, k) /\ Rel(n, x, 1) = r
  <2>1. 1 \in 1..Depth(m, x) - (k - 1) /\ 1 + (k - 1) = k
    BY <1>2, MemoryFacts
  <2> QED BY <1>7, <1>8, <2>1 DEF Val, Rel, r
<1>16. n.promised[t] >= r
  BY <1>3, <1>5, <1>6
<1> QED BY <1>5, <1>8, <1>11, <1>12, <1>14, <1>15, <1>16 DEF n

\* Remaining leaves a suffix of the messages, all but its first one unknown.
LEMMA RemainingIs ==
  ASSUME NEW s \in Seq(MessageType), Len(s) >= 1, NEW q \in Nat
  PROVE  \E k \in 1..Len(s) : /\ Remaining(s, q) = SubSeq(s, k, Len(s))
                              /\ \A i \in k+1..Len(s) : s[i].store > q
<1> DEFINE S == {i \in DOMAIN s : s[i].store <= q} \cup {1}
           L == {Len(s) - i : i \in S}
<1>1. Len(s) \in Nat /\ DOMAIN s = 1..Len(s) /\ \A i \in 1..Len(s) : s[i].store \in Nat
  <2>1. Len(s) \in Nat /\ DOMAIN s = 1..Len(s) /\ \A i \in 1..Len(s) : s[i] \in MessageType
    OBVIOUS
  <2> QED BY <2>1 DEF MessageType
<1>2. S \in SUBSET (1..Len(s)) /\ 1 \in S
  BY <1>1
<1>3. L \in SUBSET Nat /\ Len(s) - 1 \in L
  BY <1>1, <1>2
<1>4. PICK d \in L : \A e \in L : d <= e
  BY <1>3, LeastNatural
<1>5. PICK k \in S : d = Len(s) - k
  BY <1>4
<1>6. \A i \in S : k >= i
  <2> SUFFICES ASSUME NEW i \in S PROVE k >= i
    OBVIOUS
  <2>1. Len(s) - i \in L
    OBVIOUS
  <2>2. Len(s) - k <= Len(s) - i
    BY <2>1, <1>4, <1>5
  <2> QED BY <2>2, <1>1, <1>2
<1>7. Max(S) = k
  <2>1. \A x \in S : (\A y \in S : x >= y) => x = k
    BY <1>2, <1>6, <1>1
  <2> HIDE DEF S
  <2>2. (CHOOSE x \in S : \A y \in S : x >= y) = k
    BY <1>6, <2>1
  <2> QED BY <2>2 DEF Max
<1>8. Remaining(s, q) = SubSeq(s, k, Len(s))
  BY <1>7 DEF Remaining
<1>9. \A i \in k+1..Len(s) : s[i].store > q
  <2> SUFFICES ASSUME NEW i \in k+1..Len(s), ~ (s[i].store > q) PROVE FALSE
    OBVIOUS
  <2>1. k \in 1..Len(s)
    BY <1>2
  <2>2. i \in 1..Len(s) /\ i > k
    BY <2>1, <1>1
  <2>3. s[i].store <= q
    BY <2>2, <1>1
  <2>4. i \in S
    BY <2>2, <2>3, <1>1
  <2> QED BY <2>4, <2>2, <1>6, <2>1
<1> QED BY <1>2, <1>8, <1>9

\* An acquire fence makes the thread know what it was promised and forget what
\* is older.
LEMMA AcquiredNarrow ==
  ASSUME NEW m, MemoryOK(m), NEW t \in Threads
  PROVE  /\ MemoryOK(Acquired(m, t)) /\ Narrows(m, Acquired(m, t))
         /\ Acq(Acquired(m, t), t) >= m.promised[t]
         /\ Acq(Acquired(m, t), Other(t)) = Acq(m, Other(t))
         /\ \A x \in Atomics : WriterOf(x) = t => Acquired(m, t).visible[x] = m.visible[x]
<1> DEFINE n == Acquired(m, t)
           q == IF m.acquired[t] >= m.promised[t] THEN m.acquired[t] ELSE m.promised[t]
<1>1. /\ m.acquired[t] \in Nat /\ m.promised[t] \in Nat
      /\ m.acquired[t] <= m.writes[Other(t)] /\ m.promised[t] <= m.writes[Other(t)]
  BY MemoryFacts DEF Acq
<1>2. Max({m.acquired[t], m.promised[t]}) = q
  BY <1>1, MaxOfTwo
<1>3. q \in Nat /\ q >= m.acquired[t] /\ q >= m.promised[t] /\ q <= m.writes[Other(t)]
  BY <1>1
<1> HIDE DEF q
<1> DEFINE seen == [x \in Atomics |-> IF WriterOf(x) = t THEN m.visible[x] ELSE Remaining(m.visible[x], q)]
<1>4. n = [m EXCEPT !.acquired[t] = q, !.visible = seen]
  BY <1>2 DEF Acquired, MemoryOK
<1>5. /\ n.plain = m.plain /\ n.writes = m.writes /\ n.released = m.released
      /\ n.promised = m.promised /\ n.raced = m.raced
      /\ n.visible = seen /\ n.acquired = [m.acquired EXCEPT ![t] = q]
  BY <1>4 DEF MemoryOK
<1>6. n = [visible |-> n.visible, plain |-> n.plain, writes |-> n.writes,
           released |-> n.released, promised |-> n.promised, acquired |-> n.acquired,
           raced |-> n.raced]
  BY <1>4 DEF MemoryOK
<1> HIDE DEF n
<1>7. n.acquired[t] = q /\ n.acquired[Other(t)] = m.acquired[Other(t)] /\ n.acquired \in [Threads -> Nat]
  BY <1>3, <1>5, ThreadFacts, SMTT(30) DEF MemoryOK
<1>8. \A x \in Atomics : WriterOf(x) = t => n.visible[x] = m.visible[x]
  BY <1>5
<1>9. ASSUME NEW x \in Atomics
      PROVE  /\ \E d \in 0..Depth(m, x) - 1 : Drops(m, n, x, d)
             /\ n.visible[x] \in Seq(MessageType)
             /\ \A i \in 1..Depth(n, x) : i >= 2 => Sto(n, x, i) > Acq(n, Other(WriterOf(x)))
  <2>1. CASE WriterOf(x) = t
    <3>1. n.visible[x] = m.visible[x]
      BY <2>1, <1>8
    <3>2. Depth(m, x) \in Nat /\ Depth(m, x) >= 1 /\ Depth(n, x) = Depth(m, x)
      BY <3>1, MemoryFacts DEF Depth
    <3>3. \A i \in 1..Depth(n, x) : i + 0 = i
      BY <3>2
    <3>4. Drops(m, n, x, 0)
      BY <3>1, <3>2, <3>3 DEF Drops
    <3>5. Acq(n, Other(t)) = Acq(m, Other(t))
      BY <1>7 DEF Acq
    <3>6. \A i \in 1..Depth(n, x) : Sto(n, x, i) = Sto(m, x, i)
      BY <3>1 DEF Sto
    <3> QED BY <2>1, <3>1, <3>2, <3>4, <3>5, <3>6, MemoryFacts
  <2>2. CASE WriterOf(x) # t
    <3>1. WriterOf(x) = Other(t) /\ Other(WriterOf(x)) = t
      BY <2>2, ThreadFacts
    <3>2. n.visible[x] = Remaining(m.visible[x], q)
      BY <2>2, <1>5
    <3>3. m.visible[x] \in Seq(MessageType) /\ Len(m.visible[x]) >= 1
      BY MemoryFacts DEF Depth
    <3>4. PICK k \in 1..Len(m.visible[x]) :
            /\ n.visible[x] = SubSeq(m.visible[x], k, Len(m.visible[x]))
            /\ \A i \in k+1..Len(m.visible[x]) : m.visible[x][i].store > q
      BY <3>2, <3>3, <1>3, RemainingIs
    <3>5. /\ n.visible[x] \in Seq(MessageType)
          /\ Len(n.visible[x]) = Len(m.visible[x]) - (k - 1)
          /\ \A i \in 1..Len(m.visible[x]) - (k - 1) : n.visible[x][i] = m.visible[x][i + (k - 1)]
      BY <3>3, <3>4, SuffixIs
    <3>6. Drops(m, n, x, k - 1)
      BY <3>4, <3>5, MemoryFacts DEF Drops, Depth
    <3>7. ASSUME NEW i \in 1..Depth(n, x), i >= 2 PROVE Sto(n, x, i) > Acq(n, t)
      <4>1. i + (k - 1) \in k+1..Len(m.visible[x]) /\ i \in 1..Len(m.visible[x]) - (k - 1)
        BY <3>7, <3>4, <3>5, MemoryFacts DEF Depth
      <4> QED BY <4>1, <3>4, <3>5, <1>7 DEF Sto, Acq
    <3> QED BY <3>1, <3>5, <3>6, <3>7 DEF Drops
  <2> QED BY <2>1, <2>2
<1>10. \A u \in Threads : Acq(n, u) >= Acq(m, u) /\ n.acquired[u] <= m.writes[Other(u)]
  <2>1. \A u \in Threads : u = t \/ u = Other(t)
    BY ThreadFacts
  <2>2. Acq(n, t) >= Acq(m, t) /\ n.acquired[t] <= m.writes[Other(t)]
    BY <1>3, <1>7 DEF Acq
  <2>3. Acq(n, Other(t)) = Acq(m, Other(t)) /\ Other(t) \in Threads
    BY <1>7, ThreadFacts DEF Acq
  <2>4. Acq(m, Other(t)) \in Nat /\ Acq(m, Other(t)) <= m.writes[Other(Other(t))]
    BY <2>3, MemoryFacts
  <2>5. Acq(n, Other(t)) >= Acq(m, Other(t)) /\ n.acquired[Other(t)] <= m.writes[Other(Other(t))]
    BY <2>3, <2>4 DEF Acq
  <2> QED BY <2>1, <2>2, <2>5
<1>11. Narrows(m, n)
  BY <1>5, <1>9, <1>10 DEF Narrows
<1>12. n.visible \in [Atomics -> Seq(MessageType)]
  <2>1. n.visible = [x \in Atomics |-> n.visible[x]]
    BY <1>5
  <2> QED BY <2>1, <1>9
<1>13. MemoryOK(n)
  <2>1. \A u \in Threads : n.promised[u] <= m.writes[Other(u)]
    BY <1>5, MemoryFacts
  <2>2. n.promised \in [Threads -> Nat]
    BY <1>5 DEF MemoryOK
  <2> QED BY <1>6, <1>7, <1>9, <1>10, <1>11, <1>12, <2>1, <2>2, NarrowsKeepMemory
<1>14. Acq(n, t) >= m.promised[t] /\ Acq(n, Other(t)) = Acq(m, Other(t))
  BY <1>3, <1>7 DEF Acq
<1> QED BY <1>8, <1>11, <1>13, <1>14 DEF n

-----------------------------------------------------------------------------
(* Narrowing a memory keeps what the invariant says of it.                  *)

\* The members of different blocks are different variables; who stores to which
LEMMA AtomicFacts ==
  /\ frontBlock \in Atomics /\ WriterOf(frontBlock) = C
  /\ tailBlock \in Atomics /\ WriterOf(tailBlock) = P /\ frontBlock # tailBlock
  /\ \A b \in Blocks :
       /\ front(b) \in Atomics /\ WriterOf(front(b)) = C
       /\ tail(b) \in Atomics /\ WriterOf(tail(b)) = P
       /\ next(b) \in Atomics /\ WriterOf(next(b)) = P
       /\ \A s \in Slots \cup {Members} : slot(b, s) \in Plain
  /\ \A b : /\ front(b) \notin {frontBlock, tailBlock}
            /\ tail(b) \notin {frontBlock, tailBlock}
            /\ next(b) \notin {frontBlock, tailBlock}
  /\ \A a, b : /\ front(a) # tail(b) /\ front(a) # next(b) /\ tail(a) # next(b)
               /\ a # b => front(a) # front(b) /\ tail(a) # tail(b) /\ next(a) # next(b)
  /\ \A a, b, s, u : slot(a, s) = slot(b, u) <=> a = b /\ s = u
  /\ Members \notin Slots
<1> USE DEF frontBlock, tailBlock, front, tail, next, slot
<1>1. /\ frontBlock \in Atomics /\ WriterOf(frontBlock) = C
      /\ tailBlock \in Atomics /\ WriterOf(tailBlock) = P /\ frontBlock # tailBlock
  BY DEF Atomics, WriterOf, C, P
<1>2. ASSUME NEW b \in Blocks
      PROVE  /\ front(b) \in Atomics /\ WriterOf(front(b)) = C
             /\ tail(b) \in Atomics /\ WriterOf(tail(b)) = P
             /\ next(b) \in Atomics /\ WriterOf(next(b)) = P
             /\ \A s \in Slots \cup {Members} : slot(b, s) \in Plain
  BY DEF Atomics, WriterOf, Plain, C, P
<1>3. \A b : /\ front(b) \notin {frontBlock, tailBlock}
            /\ tail(b) \notin {frontBlock, tailBlock}
            /\ next(b) \notin {frontBlock, tailBlock}
  OBVIOUS
<1>4. \A a, b : /\ front(a) # tail(b) /\ front(a) # next(b) /\ tail(a) # next(b)
               /\ a # b => front(a) # front(b) /\ tail(a) # tail(b) /\ next(a) # next(b)
  OBVIOUS
<1>5. \A a, b, s, u : slot(a, s) = slot(b, u) <=> a = b /\ s = u
  OBVIOUS
<1>6. Members \notin Slots
  BY SizesPositive DEF Members, Slots
<1> QED BY <1>1, <1>2, <1>3, <1>4, <1>5, <1>6

\* Where the messages of a narrowed memory come from
LEMMA NarrowFacts ==
  ASSUME NEW m, MemoryOK(m), NEW n, Narrows(m, n)
  PROVE  /\ \A x \in Atomics :
              /\ Own(n, x) = Own(m, x) /\ Last(n, x) = Last(m, x)
              /\ Depth(n, x) \in Nat /\ Depth(n, x) >= 1
              /\ \E d \in Nat :
                   /\ Depth(m, x) = Depth(n, x) + d
                   /\ \A i \in 1..Depth(n, x) :
                        /\ i + d \in 1..Depth(m, x)
                        /\ Val(n, x, i) = Val(m, x, i + d)
                        /\ Sto(n, x, i) = Sto(m, x, i + d)
                        /\ Rel(n, x, i) = Rel(m, x, i + d)
         /\ \A b, s : El(n, b, s) = El(m, b, s) /\ By(n, b, s) = By(m, b, s) /\ Wri(n, b, s) = Wri(m, b, s)
         /\ \A t \in Threads : Acq(n, t) >= Acq(m, t)
<1>1. ASSUME NEW x \in Atomics
      PROVE  /\ Own(n, x) = Own(m, x) /\ Last(n, x) = Last(m, x)
             /\ Depth(n, x) \in Nat /\ Depth(n, x) >= 1
             /\ \E d \in Nat :
                   /\ Depth(m, x) = Depth(n, x) + d
                   /\ \A i \in 1..Depth(n, x) :
                        /\ i + d \in 1..Depth(m, x)
                        /\ Val(n, x, i) = Val(m, x, i + d)
                        /\ Sto(n, x, i) = Sto(m, x, i + d)
                        /\ Rel(n, x, i) = Rel(m, x, i + d)
  <2>1. PICK d \in 0..Depth(m, x) - 1 : Drops(m, n, x, d)
    BY DEF Narrows
  <2>2. Depth(m, x) \in Nat /\ Depth(m, x) >= 1
    BY MemoryFacts
  <2>3. d \in Nat /\ Depth(n, x) = Depth(m, x) - d /\ Depth(n, x) \in Nat /\ Depth(n, x) >= 1
    BY <2>1, <2>2 DEF Drops
  <2>4. \A i \in 1..Depth(n, x) : i + d \in 1..Depth(m, x) /\ n.visible[x][i] = m.visible[x][i + d]
    BY <2>1, <2>2, <2>3 DEF Drops
  <2>5. Depth(n, x) + d = Depth(m, x) /\ Depth(n, x) \in 1..Depth(n, x)
    BY <2>2, <2>3
  <2>6. n.visible[x][Depth(n, x)] = m.visible[x][Depth(m, x)]
    BY <2>4, <2>5
  <2>7. Own(n, x) = Own(m, x) /\ Last(n, x) = Last(m, x)
    BY <2>6 DEF Own, Last, Sto, Depth
  <2>8. \A i \in 1..Depth(n, x) :
                        /\ i + d \in 1..Depth(m, x)
                        /\ Val(n, x, i) = Val(m, x, i + d)
                        /\ Sto(n, x, i) = Sto(m, x, i + d)
                        /\ Rel(n, x, i) = Rel(m, x, i + d)
    BY <2>4 DEF Val, Sto, Rel
  <2> QED BY <2>3, <2>5, <2>7, <2>8
<1>2. \A b, s : El(n, b, s) = El(m, b, s) /\ By(n, b, s) = By(m, b, s) /\ Wri(n, b, s) = Wri(m, b, s)
  BY DEF Narrows, El, By, Wri
<1>3. \A t \in Threads : Acq(n, t) >= Acq(m, t)
  BY DEF Narrows
<1> QED BY <1>1, <1>2, <1>3

\* Slots hold numbers, and have been written by one of the threads.
LEMMA PlainFacts ==
  ASSUME NEW m, MemoryOK(m), NEW b \in Blocks, NEW s \in Slots \cup {Members}
  PROVE  /\ El(m, b, s) \in Int /\ By(m, b, s) \in Threads /\ Wri(m, b, s) \in Nat
         /\ Wri(m, b, s) <= m.writes[By(m, b, s)]
BY MemoryFacts, AtomicFacts DEF El, By, Wri

\* Dropping old values keeps the relation of a block to its slots.
LEMMA BlockNarrows ==
  ASSUME NEW m, MemoryOK(m), NEW n, MemoryOK(n), Narrows(m, n), NEW mask, NEW b \in Blocks,
         Block(m, mask, b)
  PROVE  Block(n, mask, b)
<1> DEFINE tb == tail(b)
           fb == front(b)
<1>1. tb \in Atomics /\ fb \in Atomics /\ frontBlock \in Atomics
  BY AtomicFacts
<1>2. /\ F(n, b) = F(m, b) /\ T(n, b) = T(m, b) /\ Own(n, frontBlock) = Own(m, frontBlock)
      /\ \A s : El(n, b, s) = El(m, b, s) /\ By(n, b, s) = By(m, b, s) /\ Wri(n, b, s) = Wri(m, b, s)
  BY <1>1, NarrowFacts DEF F, T
<1>3. PICK d \in Nat :
        /\ Depth(m, tb) = Depth(n, tb) + d
        /\ \A i \in 1..Depth(n, tb) :
             /\ i + d \in 1..Depth(m, tb)
             /\ Val(n, tb, i) = Val(m, tb, i + d)
             /\ Rel(n, tb, i) = Rel(m, tb, i + d)
  BY <1>1, NarrowFacts
<1>4. PICK e \in Nat :
        /\ Depth(m, fb) = Depth(n, fb) + e
        /\ \A i \in 1..Depth(n, fb) :
             /\ i + e \in 1..Depth(m, fb)
             /\ Val(n, fb, i) = Val(m, fb, i + e)
             /\ Rel(n, fb, i) = Rel(m, fb, i + e)
  BY <1>1, NarrowFacts
<1>5. \A i, j \in Int : i <= j => i + d <= j + d /\ i + e <= j + e
  OBVIOUS
<1>6. /\ Acq(m, C) \in Nat /\ Acq(n, C) \in Nat /\ Acq(n, C) >= Acq(m, C)
      /\ Acq(m, P) \in Nat /\ Acq(n, P) \in Nat /\ Acq(n, P) >= Acq(m, P)
  BY NarrowFacts, MemoryFacts, ThreadFacts
<1>7. mask[b] \in Nat /\ \A s \in 0..mask[b] : Wri(m, b, s) \in Nat
  <2>1. mask[b] \in Nat /\ mask[b] < SlotBound
    BY DEF Block, Indices
  <2>2. 0..mask[b] \subseteq Slots
    BY <2>1, SizesPositive DEF Slots
  <2> QED BY <2>1, <2>2, PlainFacts
<1>8. Indices(n, mask, b)
  BY <1>3, <1>4 DEF Block, Indices
<1>9. TailsAdvance(n, mask, b)
  BY <1>2, <1>3, <1>5 DEF Block, TailsAdvance
<1>10. FrontsAdvance(n, mask, b)
  BY <1>2, <1>4, <1>5 DEF Block, FrontsAdvance
<1>11. TailsCoverSlots(n, mask, b)
  <2> SUFFICES ASSUME NEW i \in 1..Depth(n, tb), NEW s \in 0..mask[b],
                      Span(F(n, b), s, mask[b]) < Span(F(n, b), Val(n, tb, i), mask[b])
               PROVE  /\ By(n, b, s) = P
                      /\ \/ Wri(n, b, s) <= Rel(n, tb, i)
                         \/ Wri(n, b, s) <= Acq(n, C)
                         \/ s = F(n, b) /\ b # Own(n, frontBlock)
    BY DEF TailsCoverSlots
  <2>1. i + d \in 1..Depth(m, tb)
    BY <1>3
  <2>2. Span(F(m, b), s, mask[b]) < Span(F(m, b), Val(m, tb, i + d), mask[b])
    BY <1>2, <1>3
  <2>3. /\ By(m, b, s) = P
        /\ \/ Wri(m, b, s) <= Rel(m, tb, i + d)
           \/ Wri(m, b, s) <= Acq(m, C)
           \/ s = F(m, b) /\ b # Own(m, frontBlock)
    BY <2>1, <2>2 DEF Block, TailsCoverSlots
  <2>4. Wri(m, b, s) <= Acq(m, C) => Wri(m, b, s) <= Acq(n, C)
    BY <1>6, <1>7
  <2> QED BY <2>3, <2>4, <1>2, <1>3
<1>12. FrontsCoverSlots(n, mask, b)
  <2> SUFFICES ASSUME NEW i \in 1..Depth(n, fb), NEW s \in 0..mask[b],
                      Span(Val(n, fb, i), s, mask[b]) >= Span(Val(n, fb, i), T(n, b), mask[b])
               PROVE  \/ By(n, b, s) = P
                      \/ Wri(n, b, s) <= Rel(n, fb, i)
                      \/ Wri(n, b, s) <= Acq(n, P)
    BY DEF FrontsCoverSlots
  <2>1. i + e \in 1..Depth(m, fb)
    BY <1>4
  <2>2. Span(Val(m, fb, i + e), s, mask[b]) >= Span(Val(m, fb, i + e), T(m, b), mask[b])
    BY <1>2, <1>4
  <2>3. \/ By(m, b, s) = P
        \/ Wri(m, b, s) <= Rel(m, fb, i + e)
        \/ Wri(m, b, s) <= Acq(m, P)
    BY <2>1, <2>2 DEF Block, FrontsCoverSlots
  <2>4. Wri(m, b, s) <= Acq(m, P) => Wri(m, b, s) <= Acq(n, P)
    BY <1>6, <1>7
  <2> QED BY <2>3, <2>4, <1>2, <1>4
<1>13. FreeSlots(n, mask, b)
  BY <1>2 DEF Block, FreeSlots
<1> QED BY <1>8, <1>9, <1>10, <1>11, <1>12, <1>13 DEF Block

\* It keeps the ring, as own values stay,
LEMMA RingNarrows ==
  ASSUME NEW m, MemoryOK(m), NEW n, Narrows(m, n), NEW alloc, NEW ring, NEW k,
         Ring(m, alloc, ring, k)
  PROVE  Ring(n, alloc, ring, k)
<1>1. \A i \in 1..Len(ring) : next(ring[i]) \in Atomics
  <2>1. \A i \in 1..Len(ring) : ring[i] \in 1..alloc
    BY DEF Ring
  <2>2. 1..alloc \subseteq Blocks
    BY SizesPositive DEF Ring, Blocks
  <2> QED BY <2>1, <2>2, AtomicFacts
<1>2. \A i \in 1..Len(ring) : Own(n, next(ring[i])) = Own(m, next(ring[i]))
  BY <1>1, NarrowFacts
<1>3. Own(n, tailBlock) = Own(m, tailBlock) /\ Own(n, frontBlock) = Own(m, frontBlock)
  BY NarrowFacts, AtomicFacts
<1> QED BY <1>2, <1>3 DEF Ring

\* what malloc has not delivered yet,
LEMMA FreshNarrows ==
  ASSUME NEW m, MemoryOK(m), NEW n, Narrows(m, n), NEW b \in Blocks, Fresh(m, b)
  PROVE  Fresh(n, b)
<1>1. ASSUME NEW x \in {front(b), tail(b), next(b)}
      PROVE  Depth(n, x) = 1 /\ Val(n, x, 1) = Val(m, x, 1)
  <2>1. x \in Atomics /\ Depth(m, x) = 1
    BY AtomicFacts DEF Fresh
  <2>2. PICK d \in Nat : /\ Depth(m, x) = Depth(n, x) + d
                         /\ \A i \in 1..Depth(n, x) : Val(n, x, i) = Val(m, x, i + d)
    BY <2>1, NarrowFacts
  <2>3. Depth(n, x) \in Nat /\ Depth(n, x) >= 1
    BY <2>1, NarrowFacts
  <2>4. d = 0 /\ Depth(n, x) = 1 /\ 1 \in 1..Depth(n, x) /\ 1 + d = 1
    BY <2>1, <2>2, <2>3
  <2> QED BY <2>2, <2>4
<1>2. \A s : Wri(n, b, s) = Wri(m, b, s) /\ El(n, b, s) = El(m, b, s)
  BY NarrowFacts
<1> QED BY <1>1, <1>2 DEF Fresh

\* The blocks of the ring
LEMMA RingFacts ==
  ASSUME NEW m, NEW alloc, NEW ring, NEW k, Ring(m, alloc, ring, k)
  PROVE  /\ alloc \in Nat /\ 1..alloc \subseteq Blocks
         /\ Len(ring) \in Nat /\ Len(ring) >= 1 /\ k \in Nat /\ k >= 1 /\ k <= Len(ring)
         /\ \A i \in 1..Len(ring) : ring[i] \in 1..alloc /\ ring[i] \in Blocks
<1>1. ring \in Seq(1..alloc) /\ k \in 1..Len(ring) /\ alloc \in Nat /\ alloc <= HeapBlocks
  BY DEF Ring
<1>2. Len(ring) \in Nat
  BY <1>1
<1>3. 1..alloc \subseteq Blocks
  BY <1>1, SizesPositive DEF Blocks
<1> QED BY <1>1, <1>2, <1>3

\* the elements,
LEMMA ElementsNarrow ==
  ASSUME NEW m, MemoryOK(m), NEW n, Narrows(m, n), NEW mask, NEW alloc, NEW ring, NEW k,
         NEW start, NEW rec, NEW snt, Ring(m, alloc, ring, k),
         Elements(m, mask, ring, k, start, rec, snt)
  PROVE  Elements(n, mask, ring, k, start, rec, snt)
<1>1. \A i \in 1..Len(ring) : F(n, ring[i]) = F(m, ring[i]) /\ T(n, ring[i]) = T(m, ring[i])
  BY RingFacts, AtomicFacts, NarrowFacts DEF F, T
<1>2. \A b, s : El(n, b, s) = El(m, b, s)
  BY NarrowFacts
<1> QED BY <1>1, <1>2 DEF Elements

\* what is known after a load, if more is known before it,
LEMMA UptoNarrows ==
  ASSUME NEW m, MemoryOK(m), NEW n, MemoryOK(n), NEW t \in Threads, Acq(n, t) >= Acq(m, t),
         NEW x \in Atomics, NEW i \in 1..Depth(n, x), NEW j \in 1..Depth(m, x),
         Rel(n, x, i) = Rel(m, x, j)
  PROVE  /\ Upto(n, t, x, i) >= Upto(m, t, x, j)
         /\ Upto(n, t, x, i) \in Nat /\ Upto(m, t, x, j) \in Nat
BY MemoryFacts, SMTT(30) DEF Upto

\* that a block is closed,
LEMMA ClosedNarrows ==
  ASSUME NEW m, MemoryOK(m), NEW n, Narrows(m, n), NEW b \in Blocks,
         NEW v \in Nat, NEW w \in Nat, w >= v, Closed(m, b, v)
  PROVE  Closed(n, b, w)
<1>1. tail(b) \in Atomics /\ next(b) \in Atomics
  BY AtomicFacts
<1>2. \A x \in Atomics : Last(m, x) \in Nat
  BY MemoryFacts DEF Last
<1> QED BY <1>1, <1>2, NarrowFacts DEF Closed

\* The indices of a block are indices of its slots.
LEMMA IndexFacts ==
  ASSUME NEW m, MemoryOK(m), NEW mask, NEW b \in Blocks, Indices(m, mask, b)
  PROVE  /\ mask[b] \in Nat /\ mask[b] >= 1 /\ mask[b] < SlotBound
         /\ 0..mask[b] \subseteq Slots
         /\ F(m, b) \in 0..mask[b] /\ T(m, b) \in 0..mask[b]
         /\ F(m, b) = Val(m, front(b), Depth(m, front(b)))
         /\ T(m, b) = Val(m, tail(b), Depth(m, tail(b)))
         /\ \A s \in 0..mask[b] :
              /\ Wri(m, b, s) \in Nat /\ By(m, b, s) \in Threads
              /\ Wri(m, b, s) <= m.writes[By(m, b, s)]
<1>1. mask[b] \in Nat /\ mask[b] >= 1 /\ mask[b] < SlotBound
  BY DEF Indices
<1>2. 0..mask[b] \subseteq Slots
  BY <1>1, SizesPositive DEF Slots
<1>3. tail(b) \in Atomics /\ front(b) \in Atomics
  BY AtomicFacts
<1>4. Depth(m, tail(b)) \in 1..Depth(m, tail(b)) /\ Depth(m, front(b)) \in 1..Depth(m, front(b))
  BY <1>3, MemoryFacts
<1>5. /\ F(m, b) = Val(m, front(b), Depth(m, front(b)))
      /\ T(m, b) = Val(m, tail(b), Depth(m, tail(b)))
  BY <1>3, MemoryFacts DEF F, T
<1>6. F(m, b) \in 0..mask[b] /\ T(m, b) \in 0..mask[b]
  BY <1>4, <1>5 DEF Indices
<1> QED BY <1>1, <1>2, <1>5, <1>6, PlainFacts

\* that a block was entered,
LEMMA EnteredNarrows ==
  ASSUME NEW m, MemoryOK(m), NEW n, MemoryOK(n), Narrows(m, n), NEW mask, NEW b \in Blocks,
         Indices(m, mask, b),
         NEW v \in Nat, NEW w \in Nat, w >= v, Entered(m, mask, b, v)
  PROVE  Entered(n, mask, b, w)
<1>1. tail(b) \in Atomics /\ front(b) \in Atomics
  BY AtomicFacts
<1>2. F(m, b) \in Slots
  BY IndexFacts
<1>3. Wri(m, b, Members) \in Nat /\ Wri(m, b, F(m, b)) \in Nat
  BY <1>2, PlainFacts
<1>4. Wri(n, b, Members) <= w /\ Wri(n, b, F(n, b)) <= w
  BY <1>1, <1>3, NarrowFacts DEF Entered, F
<1>5. PICK d \in Nat :
        /\ Depth(m, tail(b)) = Depth(n, tail(b)) + d
        /\ \A i \in 1..Depth(n, tail(b)) :
             /\ i + d \in 1..Depth(m, tail(b))
             /\ Val(n, tail(b), i) = Val(m, tail(b), i + d)
             /\ Sto(n, tail(b), i) = Sto(m, tail(b), i + d)
  BY <1>1, NarrowFacts
<1>6. ASSUME NEW i \in 1..Depth(n, tail(b)),
             \A j \in i+1..Depth(n, tail(b)) : Sto(n, tail(b), j) > w
      PROVE  Val(n, tail(b), i) # F(n, b)
  <2>1. ASSUME NEW j \in (i + d)+1..Depth(m, tail(b)) PROVE Sto(m, tail(b), j) > v
    <3>1. Depth(n, tail(b)) \in Nat /\ Depth(m, tail(b)) \in Nat
      BY <1>1, NarrowFacts, MemoryFacts
    <3>2. j - d \in i+1..Depth(n, tail(b)) /\ j - d \in 1..Depth(n, tail(b)) /\ (j - d) + d = j
      BY <3>1, <1>5
    <3>3. Sto(n, tail(b), j - d) > w /\ Sto(n, tail(b), j - d) = Sto(m, tail(b), j)
      BY <3>2, <1>5, <1>6
    <3>4. j \in 1..Depth(m, tail(b))
      BY <3>1
    <3>5. Sto(m, tail(b), j) \in Nat
      BY <3>4, <1>1, MemoryFacts
    <3> QED BY <3>3, <3>5
  <2>2. i + d \in 1..Depth(m, tail(b))
    BY <1>5
  <2>3. Val(m, tail(b), i + d) # F(m, b)
    BY <2>1, <2>2 DEF Entered
  <2> QED BY <2>3, <1>1, <1>5, NarrowFacts DEF F
<1> QED BY <1>4, <1>6 DEF Entered

\* the tail blocks to be seen,
LEMMA TailBlocksNarrow ==
  ASSUME NEW m, MemoryOK(m), NEW n, MemoryOK(n), Narrows(m, n), NEW mask, NEW alloc, NEW ring, NEW k,
         Ring(m, alloc, ring, k), \A b \in 1..alloc : Indices(m, mask, b),
         TailBlocks(m, mask, ring, k)
  PROVE  TailBlocks(n, mask, ring, k)
<1>1. tailBlock \in Atomics
  BY AtomicFacts
<1>2. PICK d \in Nat :
        /\ Depth(m, tailBlock) = Depth(n, tailBlock) + d
        /\ \A i \in 1..Depth(n, tailBlock) :
             /\ i + d \in 1..Depth(m, tailBlock)
             /\ Val(n, tailBlock, i) = Val(m, tailBlock, i + d)
             /\ Rel(n, tailBlock, i) = Rel(m, tailBlock, i + d)
  BY <1>1, NarrowFacts
<1>3. ASSUME NEW i \in 1..Depth(n, tailBlock)
      PROVE  \E q \in k..Len(ring) :
               /\ Val(n, tailBlock, i) = ring[q]
               /\ \A j \in k..q-1 : Closed(n, ring[j], Upto(n, C, tailBlock, i))
               /\ \A j \in k+1..q : Entered(n, mask, ring[j], Upto(n, C, tailBlock, i))
  <2>1. i + d \in 1..Depth(m, tailBlock)
    BY <1>2
  <2>2. PICK q \in k..Len(ring) :
               /\ Val(m, tailBlock, i + d) = ring[q]
               /\ \A j \in k..q-1 : Closed(m, ring[j], Upto(m, C, tailBlock, i + d))
               /\ \A j \in k+1..q : Entered(m, mask, ring[j], Upto(m, C, tailBlock, i + d))
    BY <2>1 DEF TailBlocks
  <2> DEFINE v == Upto(m, C, tailBlock, i + d)
             w == Upto(n, C, tailBlock, i)
  <2>3. v \in Nat /\ w \in Nat /\ w >= v
    BY <2>1, <1>1, <1>2, UptoNarrows, NarrowFacts, ThreadFacts
  <2> HIDE DEF v, w
  <2>4. \A j \in k..q : ring[j] \in 1..alloc /\ ring[j] \in Blocks
    BY RingFacts
  <2>5. ASSUME NEW j \in k..q-1 PROVE Closed(n, ring[j], w)
    <3>1. j \in k..q /\ Closed(m, ring[j], v)
      BY <2>2, RingFacts DEF v
    <3> QED BY <3>1, <2>3, <2>4, ClosedNarrows
  <2>6. ASSUME NEW j \in k+1..q PROVE Entered(n, mask, ring[j], w)
    <3>1. j \in k..q /\ Entered(m, mask, ring[j], v)
      BY <2>2, RingFacts DEF v
    <3>2. Indices(m, mask, ring[j])
      BY <3>1, <2>4
    <3> QED BY <3>1, <3>2, <2>3, <2>4, EnteredNarrows
  <2> QED BY <2>2, <2>5, <2>6, <1>2 DEF w
<1>4. ASSUME NEW i \in 1..Depth(n, tailBlock), NEW j \in 1..Depth(n, tailBlock),
             NEW p \in 1..Len(ring), NEW q \in 1..Len(ring),
             i <= j, Val(n, tailBlock, i) = ring[p], Val(n, tailBlock, j) = ring[q]
      PROVE  p <= q
  <2>1. i + d <= j + d /\ i + d \in 1..Depth(m, tailBlock) /\ j + d \in 1..Depth(m, tailBlock)
    BY <1>2, <1>4
  <2> QED BY <2>1, <1>2, <1>4 DEF TailBlocks
<1> QED BY <1>3, <1>4 DEF TailBlocks

\* and the front blocks to be seen.
LEMMA FrontBlocksNarrow ==
  ASSUME NEW m, MemoryOK(m), NEW n, MemoryOK(n), Narrows(m, n), NEW alloc, NEW ring, NEW k,
         Ring(m, alloc, ring, k), FrontBlocks(m, ring, k)
  PROVE  FrontBlocks(n, ring, k)
<1>1. frontBlock \in Atomics
  BY AtomicFacts
<1>2. PICK d \in Nat :
        /\ Depth(m, frontBlock) = Depth(n, frontBlock) + d
        /\ \A i \in 1..Depth(n, frontBlock) :
             /\ i + d \in 1..Depth(m, frontBlock)
             /\ Val(n, frontBlock, i) = Val(m, frontBlock, i + d)
             /\ Rel(n, frontBlock, i) = Rel(m, frontBlock, i + d)
  BY <1>1, NarrowFacts
<1>3. ASSUME NEW i \in 1..Depth(n, frontBlock)
      PROVE  \E q \in 1..k :
               /\ Val(n, frontBlock, i) = ring[q]
               /\ \A j \in 1..q-1 : Last(n, front(ring[j])) <= Upto(n, P, frontBlock, i)
  <2>1. i + d \in 1..Depth(m, frontBlock)
    BY <1>2
  <2>2. PICK q \in 1..k :
               /\ Val(m, frontBlock, i + d) = ring[q]
               /\ \A j \in 1..q-1 : Last(m, front(ring[j])) <= Upto(m, P, frontBlock, i + d)
    BY <2>1 DEF FrontBlocks
  <2> DEFINE v == Upto(m, P, frontBlock, i + d)
             w == Upto(n, P, frontBlock, i)
  <2>3. v \in Nat /\ w \in Nat /\ w >= v
    BY <2>1, <1>1, <1>2, UptoNarrows, NarrowFacts, ThreadFacts
  <2> HIDE DEF v, w
  <2>4. ASSUME NEW j \in 1..q-1 PROVE Last(n, front(ring[j])) <= w
    <3>1. j \in 1..Len(ring)
      BY RingFacts
    <3>2. front(ring[j]) \in Atomics
      BY <3>1, RingFacts, AtomicFacts
    <3>3. Last(m, front(ring[j])) <= v /\ Last(m, front(ring[j])) \in Nat
      BY <2>2, <3>2, MemoryFacts DEF v, Last
    <3> QED BY <3>2, <3>3, <2>3, NarrowFacts
  <2> QED BY <2>2, <2>4, <1>2 DEF w
<1>4. ASSUME NEW i \in 1..Depth(n, frontBlock), NEW j \in 1..Depth(n, frontBlock),
             NEW p \in 1..Len(ring), NEW q \in 1..Len(ring),
             i <= j, Val(n, frontBlock, i) = ring[p], Val(n, frontBlock, j) = ring[q]
      PROVE  p <= q
  <2>1. i + d <= j + d /\ i + d \in 1..Depth(m, frontBlock) /\ j + d \in 1..Depth(m, frontBlock)
    BY <1>2, <1>4
  <2> QED BY <2>1, <1>2, <1>4 DEF FrontBlocks
<1> QED BY <1>3, <1>4 DEF FrontBlocks

\* What is true of the queue remains true for one who loads or fences.
LEMMA QueueNarrows ==
  ASSUME NEW m, NEW n, MemoryOK(n), Narrows(m, n), NEW mask, NEW alloc, NEW ring, NEW k,
         NEW start, NEW rec, NEW snt,
         Queue(m, mask, alloc, ring, k, start, rec, snt)
  PROVE  Queue(n, mask, alloc, ring, k, start, rec, snt)
<1>1. /\ MemoryOK(m) /\ Ring(m, alloc, ring, k) /\ \A b \in 1..alloc : Block(m, mask, b)
      /\ \A b \in alloc+1..HeapBlocks : Fresh(m, b)
      /\ Elements(m, mask, ring, k, start, rec, snt)
      /\ TailBlocks(m, mask, ring, k) /\ FrontBlocks(m, ring, k)
      /\ \A i \in 1..k : Wri(m, ring[i], Members) <= Acq(m, C)
  BY DEF Queue
<1>2. \A b \in 1..alloc : Block(n, mask, b)
  BY <1>1, RingFacts, BlockNarrows
<1>3. \A b \in alloc+1..HeapBlocks : Fresh(n, b)
  <2>1. \A b \in alloc+1..HeapBlocks : b \in Blocks
    BY <1>1, RingFacts, SizesPositive DEF Blocks
  <2> QED BY <1>1, <2>1, FreshNarrows
<1>4. \A b \in 1..alloc : Indices(m, mask, b)
  BY <1>1 DEF Block
<1>5. ASSUME NEW i \in 1..k PROVE Wri(n, ring[i], Members) <= Acq(n, C)
  <2>1. i \in 1..Len(ring)
    BY <1>1, RingFacts
  <2>2. ring[i] \in Blocks
    BY <2>1, <1>1, RingFacts
  <2>3. Wri(m, ring[i], Members) \in Nat /\ Acq(m, C) \in Nat /\ Acq(n, C) \in Nat
    BY <1>1, <2>2, PlainFacts, MemoryFacts, ThreadFacts
  <2>4. Wri(n, ring[i], Members) = Wri(m, ring[i], Members) /\ Acq(n, C) >= Acq(m, C)
    BY <1>1, NarrowFacts, ThreadFacts
  <2> QED BY <1>1, <2>3, <2>4
<1> QED BY <1>1, <1>2, <1>3, <1>4, <1>5, RingNarrows, ElementsNarrow, TailBlocksNarrow,
           FrontBlocksNarrow DEF Queue

\* For one atomic: its newest value stays, and each other one was there before.
LEMMA DropFacts ==
  ASSUME NEW m, MemoryOK(m), NEW n, Narrows(m, n), NEW x \in Atomics
  PROVE  /\ Own(n, x) = Own(m, x) /\ Last(n, x) = Last(m, x) /\ Last(m, x) \in Nat
         /\ \E d \in Nat : \A i \in 1..Depth(n, x) :
              i + d \in 1..Depth(m, x) /\ Val(n, x, i) = Val(m, x, i + d)
<1>1. PICK d \in Nat :
        \A i \in 1..Depth(n, x) :
                        /\ i + d \in 1..Depth(m, x)
                        /\ Val(n, x, i) = Val(m, x, i + d)
                        /\ Sto(n, x, i) = Sto(m, x, i + d)
                        /\ Rel(n, x, i) = Rel(m, x, i + d)
  BY NarrowFacts
<1>2. Depth(m, x) \in 1..Depth(m, x)
  BY MemoryFacts
<1>3. Last(m, x) \in Nat
  BY <1>2, MemoryFacts DEF Last
<1>4. Own(n, x) = Own(m, x) /\ Last(n, x) = Last(m, x)
  BY NarrowFacts
<1> QED BY <1>1, <1>3, <1>4

\* The tail that the consumer has seen says no less with fewer values to see.
LEMMA LocalTailNarrows ==
  ASSUME NEW m, MemoryOK(m), NEW n, MemoryOK(n), Narrows(m, n), NEW mask, NEW b \in Blocks,
         Indices(m, mask, b), NEW lt, LocalTailOK(m, mask, b, lt)
  PROVE  LocalTailOK(n, mask, b, lt)
<1>1. tail(b) \in Atomics /\ front(b) \in Atomics
  BY AtomicFacts
<1>2. PICK d \in Nat :
        \A i \in 1..Depth(n, tail(b)) :
             /\ i + d \in 1..Depth(m, tail(b))
             /\ Val(n, tail(b), i) = Val(m, tail(b), i + d)
  BY <1>1, DropFacts
<1>3. F(n, b) = F(m, b) /\ \A s : Wri(n, b, s) = Wri(m, b, s)
  BY <1>1, NarrowFacts DEF F
<1>4. Acq(n, C) >= Acq(m, C) /\ Acq(n, C) \in Nat /\ Acq(m, C) \in Nat
  BY NarrowFacts, MemoryFacts, ThreadFacts
<1>5. \A s \in 0..mask[b] : Wri(m, b, s) <= Acq(m, C) => Wri(m, b, s) <= Acq(n, C)
  BY <1>4, IndexFacts
<1> QED BY <1>2, <1>3, <1>5 DEF LocalTailOK

\* Nor does the front that the producer has seen.
LEMMA LocalFrontNarrows ==
  ASSUME NEW m, MemoryOK(m), NEW n, MemoryOK(n), Narrows(m, n), NEW mask, NEW b \in Blocks,
         Indices(m, mask, b), NEW lf, LocalFrontOK(m, mask, b, lf)
  PROVE  LocalFrontOK(n, mask, b, lf)
<1>1. tail(b) \in Atomics /\ front(b) \in Atomics
  BY AtomicFacts
<1>2. PICK d \in Nat :
        \A i \in 1..Depth(n, front(b)) :
             /\ i + d \in 1..Depth(m, front(b))
             /\ Val(n, front(b), i) = Val(m, front(b), i + d)
  BY <1>1, DropFacts
<1>3. T(n, b) = T(m, b) /\ \A s : Wri(n, b, s) = Wri(m, b, s) /\ By(n, b, s) = By(m, b, s)
  BY <1>1, NarrowFacts DEF T
<1>4. Acq(n, P) >= Acq(m, P) /\ Acq(n, P) \in Nat /\ Acq(m, P) \in Nat
  BY NarrowFacts, MemoryFacts, ThreadFacts
<1>5. \A s \in 0..mask[b] : Wri(m, b, s) <= Acq(m, P) => Wri(m, b, s) <= Acq(n, P)
  BY <1>4, IndexFacts
<1> QED BY <1>2, <1>3, <1>5 DEF LocalFrontOK

\* What the producer has learnt stays true,
LEMMA ProducerNarrows ==
  ASSUME NEW m, MemoryOK(m), NEW n, MemoryOK(n), Narrows(m, n), NEW alloc, NEW ring, NEW k,
         Ring(m, alloc, ring, k), NEW pc, ProducerAt(m, ring, k, pc)
  PROVE  ProducerAt(n, ring, k, pc)
<1> SUFFICES ASSUME pc = "nextFront"
             PROVE  /\ k > 1
                    /\ \A i \in 1..Depth(n, frontBlock) : Val(n, frontBlock, i) # ring[1]
                    /\ Last(n, front(ring[1])) <= Acq(n, P)
  BY DEF ProducerAt
<1>1. 1 \in 1..Len(ring) /\ ring[1] \in Blocks
  <2>1. 1 \in 1..Len(ring)
    BY RingFacts
  <2> QED BY <2>1, RingFacts
<1>2. frontBlock \in Atomics /\ front(ring[1]) \in Atomics
  BY <1>1, AtomicFacts
<1>3. PICK d \in Nat :
        \A i \in 1..Depth(n, frontBlock) :
             /\ i + d \in 1..Depth(m, frontBlock)
             /\ Val(n, frontBlock, i) = Val(m, frontBlock, i + d)
  BY <1>2, DropFacts
<1>4. Acq(n, P) >= Acq(m, P) /\ Acq(n, P) \in Nat /\ Acq(m, P) \in Nat
  BY NarrowFacts, MemoryFacts, ThreadFacts
<1>5. Last(m, front(ring[1])) \in Nat /\ Last(n, front(ring[1])) = Last(m, front(ring[1]))
  BY <1>2, DropFacts
<1>6. /\ k > 1
      /\ \A i \in 1..Depth(m, frontBlock) : Val(m, frontBlock, i) # ring[1]
      /\ Last(m, front(ring[1])) <= Acq(m, P)
  BY DEF ProducerAt
<1> QED BY <1>3, <1>4, <1>5, <1>6

\* and what the consumer has learnt.
LEMMA ConsumerNarrows ==
  ASSUME NEW m, MemoryOK(m), NEW n, MemoryOK(n), Narrows(m, n), NEW mask, NEW alloc, NEW ring, NEW k,
         Ring(m, alloc, ring, k), \A b \in 1..alloc : Indices(m, mask, b),
         NEW pc, NEW b, ConsumerAt(m, mask, ring, k, pc, b)
  PROVE  ConsumerAt(n, mask, ring, k, pc, b)
<1>1. k \in 1..Len(ring) /\ ring[k] \in Blocks /\ k \in Nat
  <2>1. k \in 1..Len(ring) /\ k \in Nat
    BY RingFacts
  <2> QED BY <2>1, RingFacts
<1>2. F(n, ring[k]) = F(m, ring[k]) /\ T(n, ring[k]) = T(m, ring[k])
  <2>1. front(ring[k]) \in Atomics /\ tail(ring[k]) \in Atomics
    BY <1>1, AtomicFacts
  <2> QED BY <2>1, DropFacts DEF F, T
<1>3. ASSUME k < Len(ring), \A i \in 1..Depth(m, tailBlock) : Val(m, tailBlock, i) # ring[k],
             Closed(m, ring[k], Acq(m, C)), Entered(m, mask, ring[k + 1], Acq(m, C))
      PROVE  /\ \A i \in 1..Depth(n, tailBlock) : Val(n, tailBlock, i) # ring[k]
             /\ Closed(n, ring[k], Acq(n, C))
             /\ Entered(n, mask, ring[k + 1], Acq(n, C))
  <2>1. k + 1 \in 1..Len(ring)
    BY <1>1, <1>3
  <2>2. ring[k + 1] \in Blocks /\ Indices(m, mask, ring[k + 1])
    BY <2>1, RingFacts
  <2>3. Acq(n, C) >= Acq(m, C) /\ Acq(n, C) \in Nat /\ Acq(m, C) \in Nat
    BY NarrowFacts, MemoryFacts, ThreadFacts
  <2>4. PICK d \in Nat :
        \A i \in 1..Depth(n, tailBlock) :
             /\ i + d \in 1..Depth(m, tailBlock)
             /\ Val(n, tailBlock, i) = Val(m, tailBlock, i + d)
    BY AtomicFacts, DropFacts
  <2>5. Closed(n, ring[k], Acq(n, C))
    BY <1>1, <1>3, <2>3, ClosedNarrows
  <2>6. Entered(n, mask, ring[k + 1], Acq(n, C))
    BY <1>3, <2>2, <2>3, EnteredNarrows
  <2> QED BY <1>3, <2>4, <2>5, <2>6
<1> QED BY <1>2, <1>3 DEF ConsumerAt

-----------------------------------------------------------------------------
(* What the operations of WeakAtomics change                                *)

\* A memory is the record of its fields.
LEMMA RecordOf ==
  ASSUME NEW m, MemoryOK(m)
  PROVE  m = [visible |-> m.visible, plain |-> m.plain, writes |-> m.writes,
              released |-> m.released, promised |-> m.promised, acquired |-> m.acquired,
              raced |-> m.raced]
BY DEF MemoryOK

\* n is m after a release fence of t.
Releases(m, n, t) ==
  /\ MemoryOK(n)
  /\ n.visible = m.visible /\ n.plain = m.plain /\ n.writes = m.writes
  /\ n.acquired = m.acquired /\ n.promised = m.promised /\ n.raced = m.raced
  /\ n.released[t] = m.writes[t]

\* A release fence changes only what the next stores promise.
LEMMA ReleasedFacts ==
  ASSUME NEW m, MemoryOK(m), NEW t \in Threads, NEW n, n = Released(m, t)
  PROVE  Releases(m, n, t)
<1>1. /\ n.visible = m.visible /\ n.plain = m.plain /\ n.writes = m.writes
      /\ n.acquired = m.acquired /\ n.promised = m.promised /\ n.raced = m.raced
      /\ n.released = [m.released EXCEPT ![t] = m.writes[t]]
  BY DEF Released, MemoryOK
<1>2. n.released[t] = m.writes[t] /\ n.released \in [Threads -> Nat]
      /\ \A u \in Threads : n.released[u] <= n.writes[u]
  BY <1>1 DEF MemoryOK
<1>3. n \in [visible : [Atomics -> Seq(MessageType)],
            plain : [Plain -> [value : Int, by : Threads, write : Nat]],
            writes : [Threads -> Nat], released : [Threads -> Nat],
            promised : [Threads -> Nat], acquired : [Threads -> Nat],
            raced : BOOLEAN]
  BY <1>2 DEF Released, MemoryOK
<1>4. \A x, i : Depth(n, x) = Depth(m, x) /\ Sto(n, x, i) = Sto(m, x, i) /\ Rel(n, x, i) = Rel(m, x, i)
  BY <1>1 DEF Depth, Sto, Rel
<1>5. \A u : Acq(n, u) = Acq(m, u)
  BY <1>1 DEF Acq
<1>6. ValuesOK(n)
  BY <1>1 DEF MemoryOK, ValuesOK, Depth, Val
<1>7. MemoryOK(n)
  <2>1. \A u \in Threads : /\ n.released[u] <= n.writes[u]
                           /\ n.acquired[u] <= n.writes[Other(u)]
                           /\ n.promised[u] <= n.writes[Other(u)]
    BY <1>1, <1>2 DEF MemoryOK
  <2>2. \A x \in Atomics :
          /\ Depth(n, x) >= 1
          /\ \A i \in 1..Depth(n, x) :
               /\ Sto(n, x, i) <= n.writes[WriterOf(x)]
               /\ Rel(n, x, i) <= n.writes[WriterOf(x)]
               /\ i >= 2 => Sto(n, x, i) > Acq(n, Other(WriterOf(x)))
    BY <1>1, <1>4, <1>5 DEF MemoryOK
  <2>3. \A p \in Plain : n.plain[p].write <= n.writes[n.plain[p].by]
    BY <1>1 DEF MemoryOK
  <2> QED BY <1>3, <1>6, <2>1, <2>2, <2>3 DEF MemoryOK
<1> QED BY <1>1, <1>2, <1>7 DEF Releases

\* What Append makes
LEMMA AppendIs ==
  ASSUME NEW S, NEW s \in Seq(S), NEW e \in S
  PROVE  /\ Append(s, e) \in Seq(S) /\ Len(Append(s, e)) = Len(s) + 1
         /\ \A i \in 1..Len(s) : Append(s, e)[i] = s[i]
         /\ Append(s, e)[Len(s) + 1] = e
OBVIOUS

\* n has what m has of x, and one message more.
Appends(m, n, x, value, store, release) ==
  /\ Depth(n, x) = Depth(m, x) + 1
  /\ \A i \in 1..Depth(m, x) : n.visible[x][i] = m.visible[x][i]
  /\ n.visible[x][Depth(m, x) + 1] = Message(value, store, release)

\* n is m after t has stored v to x.
Stores(m, n, t, x, v) ==
  /\ MemoryOK(n)
  /\ n.plain = m.plain /\ n.released = m.released
  /\ n.acquired = m.acquired /\ n.promised = m.promised /\ n.raced = m.raced
  /\ n.writes = [m.writes EXCEPT ![t] = m.writes[t] + 1]
  /\ \A y \in Atomics : y # x => n.visible[y] = m.visible[y]
  /\ Appends(m, n, x, v, m.writes[t] + 1, m.released[t])

\* A store appends a message with what was released.
LEMMA StoredFacts ==
  ASSUME NEW m, MemoryOK(m), NEW t \in Threads, NEW x \in Atomics, WriterOf(x) = t,
         NEW v \in Int, v \in ValuesOf(x), NEW n, n = Stored(m, t, x, v)
  PROVE  Stores(m, n, t, x, v)
<1> DEFINE msg == Message(v, m.writes[t] + 1, m.released[t])
<1>1. /\ n.plain = m.plain /\ n.released = m.released
      /\ n.acquired = m.acquired /\ n.promised = m.promised /\ n.raced = m.raced
      /\ n.writes = [m.writes EXCEPT ![t] = m.writes[t] + 1]
      /\ n.visible = [m.visible EXCEPT ![x] = Append(m.visible[x], msg)]
  BY DEF Stored, MemoryOK
<1>2. /\ m.writes[t] \in Nat /\ m.released[t] \in Nat /\ m.released[t] <= m.writes[t]
      /\ m.visible[x] \in Seq(MessageType) /\ m.visible \in [Atomics -> Seq(MessageType)]
      /\ m.writes \in [Threads -> Nat]
  BY MemoryFacts DEF MemoryOK
<1>3. msg \in MessageType /\ msg.value = v /\ msg.store = m.writes[t] + 1 /\ msg.release = m.released[t]
  BY <1>2 DEF MessageType, Message
<1> HIDE DEF msg
<1>4. /\ Append(m.visible[x], msg) \in Seq(MessageType)
      /\ Len(Append(m.visible[x], msg)) = Len(m.visible[x]) + 1
      /\ \A i \in 1..Len(m.visible[x]) : Append(m.visible[x], msg)[i] = m.visible[x][i]
      /\ Append(m.visible[x], msg)[Len(m.visible[x]) + 1] = msg
  BY <1>2, <1>3, AppendIs
<1>5. n.visible[x] = Append(m.visible[x], msg) /\ \A y \in Atomics : y # x => n.visible[y] = m.visible[y]
  BY <1>1, <1>2
<1>6. Appends(m, n, x, v, m.writes[t] + 1, m.released[t])
  BY <1>4, <1>5 DEF Appends, Depth, msg
<1>7. n \in [visible : [Atomics -> Seq(MessageType)],
            plain : [Plain -> [value : Int, by : Threads, write : Nat]],
            writes : [Threads -> Nat], released : [Threads -> Nat],
            promised : [Threads -> Nat], acquired : [Threads -> Nat],
            raced : BOOLEAN]
  <2>1. n.visible \in [Atomics -> Seq(MessageType)]
    BY <1>1, <1>2, <1>4
  <2>2. n.writes \in [Threads -> Nat]
    BY <1>1, <1>2
  <2>3. n = [visible |-> n.visible, plain |-> n.plain, writes |-> n.writes,
              released |-> n.released, promised |-> n.promised, acquired |-> n.acquired,
              raced |-> n.raced]
    BY DEF Stored, MemoryOK
  <2>4. /\ m.plain \in [Plain -> [value : Int, by : Threads, write : Nat]]
        /\ m.released \in [Threads -> Nat] /\ m.promised \in [Threads -> Nat]
        /\ m.acquired \in [Threads -> Nat] /\ m.raced \in BOOLEAN
    BY DEF MemoryOK
  <2> QED BY <1>1, <2>1, <2>2, <2>3, <2>4
<1>8. \A u \in Threads : n.writes[u] \in Nat /\ n.writes[u] >= m.writes[u]
  BY <1>1, <1>2
<1>9. \A u \in Threads : /\ n.released[u] <= n.writes[u]
                         /\ n.acquired[u] <= n.writes[Other(u)]
                         /\ n.promised[u] <= n.writes[Other(u)]
  <2> SUFFICES ASSUME NEW u \in Threads
               PROVE  /\ n.released[u] <= n.writes[u]
                      /\ n.acquired[u] <= n.writes[Other(u)]
                      /\ n.promised[u] <= n.writes[Other(u)]
    OBVIOUS
  <2>1. Other(u) \in Threads
    BY ThreadFacts
  <2>2. /\ m.released[u] \in Nat /\ m.released[u] <= m.writes[u]
        /\ m.acquired[u] \in Nat /\ m.acquired[u] <= m.writes[Other(u)]
        /\ m.promised[u] \in Nat /\ m.promised[u] <= m.writes[Other(u)]
        /\ m.writes[u] \in Nat /\ m.writes[Other(u)] \in Nat
    BY <2>1, MemoryFacts DEF Acq
  <2> QED BY <1>1, <1>8, <2>1, <2>2, SMTT(30)
<1>10. ASSUME NEW p \in Plain PROVE n.plain[p].write <= n.writes[n.plain[p].by]
  BY <1>1, <1>8, MemoryFacts, SMTT(30)
<1>11. \A u : Acq(n, u) = Acq(m, u)
  BY <1>1 DEF Acq
<1>12. ASSUME NEW y \in Atomics, NEW i \in 1..Depth(m, y), n.visible[y][i] = m.visible[y][i]
       PROVE  /\ Sto(n, y, i) <= n.writes[WriterOf(y)]
              /\ Rel(n, y, i) <= n.writes[WriterOf(y)]
              /\ i >= 2 => Sto(n, y, i) > Acq(n, Other(WriterOf(y)))
  <2>1. Sto(n, y, i) = Sto(m, y, i) /\ Rel(n, y, i) = Rel(m, y, i)
    BY <1>12 DEF Sto, Rel
  <2>2. WriterOf(y) \in Threads
    BY ThreadFacts
  <2>3. /\ Sto(m, y, i) \in Nat /\ Rel(m, y, i) \in Nat
        /\ Sto(m, y, i) <= m.writes[WriterOf(y)] /\ Rel(m, y, i) <= m.writes[WriterOf(y)]
        /\ i >= 2 => Sto(m, y, i) > Acq(m, Other(WriterOf(y)))
        /\ m.writes[WriterOf(y)] \in Nat
    BY <2>2, MemoryFacts
  <2> QED BY <2>1, <2>2, <2>3, <1>8, <1>11
<1>13. ASSUME NEW y \in Atomics
       PROVE  /\ Depth(n, y) >= 1
              /\ \A i \in 1..Depth(n, y) :
                   /\ Sto(n, y, i) <= n.writes[WriterOf(y)]
                   /\ Rel(n, y, i) <= n.writes[WriterOf(y)]
                   /\ i >= 2 => Sto(n, y, i) > Acq(n, Other(WriterOf(y)))
  <2>1. Depth(m, y) \in Nat /\ Depth(m, y) >= 1
    BY MemoryFacts
  <2>2. CASE y # x
    <3>1. n.visible[y] = m.visible[y] /\ Depth(n, y) = Depth(m, y)
      BY <2>2, <1>5 DEF Depth
    <3> QED BY <3>1, <2>1, <1>12
  <2>3. CASE y = x
    <3>1. Depth(n, x) = Depth(m, x) + 1
      BY <1>6 DEF Appends
    <3>2. /\ Sto(n, x, Depth(m, x) + 1) = m.writes[t] + 1 /\ Rel(n, x, Depth(m, x) + 1) = m.released[t]
      BY <1>6 DEF Appends, Sto, Rel, Message
    <3>3. n.writes[t] = m.writes[t] + 1
      BY <1>1, <1>2
    <3>4. Acq(n, Other(t)) < m.writes[t] + 1
      <4>1. Acq(m, Other(t)) \in Nat /\ Acq(m, Other(t)) <= m.writes[t]
        BY MemoryFacts, ThreadFacts
      <4> QED BY <4>1, <1>2, <1>11
    <3>5. \A i \in 1..Depth(m, x) : n.visible[x][i] = m.visible[x][i]
      BY <1>6 DEF Appends
    <3>6. \A i \in 1..Depth(n, x) : i \in 1..Depth(m, x) \/ i = Depth(m, x) + 1
      BY <3>1, <2>1, <2>3
    <3>7. /\ Sto(n, x, Depth(m, x) + 1) <= n.writes[t]
          /\ Rel(n, x, Depth(m, x) + 1) <= n.writes[t]
          /\ Sto(n, x, Depth(m, x) + 1) > Acq(n, Other(t))
      BY <3>2, <3>3, <3>4, <1>2
    <3> QED BY <2>1, <2>3, <3>1, <3>5, <3>6, <3>7, <1>12
  <2> QED BY <2>2, <2>3
<1>14. ValuesOK(n)
  <2>1. ASSUME NEW y \in Atomics, NEW i \in 1..Depth(n, y) PROVE Val(n, y, i) \in ValuesOf(y)
    <3>1. \A j \in 1..Depth(m, y) : Val(m, y, j) \in ValuesOf(y)
      BY DEF MemoryOK, ValuesOK
    <3>2. CASE y # x
      BY <3>1, <3>2, <1>5, <2>1 DEF Depth, Val
    <3>3. CASE y = x
      <4>1. Depth(m, x) \in Nat /\ Depth(n, x) = Depth(m, x) + 1
        BY <1>6, MemoryFacts DEF Appends
      <4>2. i \in 1..Depth(m, x) \/ i = Depth(m, x) + 1
        BY <4>1, <3>3, <2>1
      <4>3. Val(n, x, Depth(m, x) + 1) = v
        BY <1>6 DEF Appends, Val, Message
      <4>4. \A j \in 1..Depth(m, x) : Val(n, x, j) = Val(m, x, j)
        BY <1>6 DEF Appends, Val
      <4> QED BY <4>2, <4>3, <4>4, <3>1, <3>3
    <3> QED BY <3>2, <3>3
  <2>2. \A p \in Plain : n.plain[p].value \in 0..MaxElements
    BY <1>1 DEF MemoryOK, ValuesOK
  <2> QED BY <2>1, <2>2 DEF ValuesOK
<1>15. MemoryOK(n)
  BY <1>7, <1>9, <1>10, <1>13, <1>14 DEF MemoryOK
<1> QED BY <1>1, <1>5, <1>6, <1>15 DEF Stores

\* n is m after t has written v to p.
Writes(m, n, t, p, v) ==
  /\ MemoryOK(n)
  /\ n.visible = m.visible /\ n.released = m.released
  /\ n.acquired = m.acquired /\ n.promised = m.promised
  /\ n.writes = [m.writes EXCEPT ![t] = m.writes[t] + 1]
  /\ n.plain[p] = [value |-> v, by |-> t, write |-> m.writes[t] + 1]
  /\ \A q \in Plain : q # p => n.plain[q] = m.plain[q]
  /\ n.raced = (m.raced \/ Races(m, t, p))

\* A write changes one slot, and tells a race.
LEMMA WrittenFacts ==
  ASSUME NEW m, MemoryOK(m), NEW t \in Threads, NEW p \in Plain, NEW v \in 0..MaxElements,
         NEW n, n = Written(m, t, p, v)
  PROVE  Writes(m, n, t, p, v)
<1> DEFINE val == [value |-> v, by |-> t, write |-> m.writes[t] + 1]
<1>1. /\ n.visible = m.visible /\ n.released = m.released
      /\ n.acquired = m.acquired /\ n.promised = m.promised
      /\ n.writes = [m.writes EXCEPT ![t] = m.writes[t] + 1]
      /\ n.plain = [m.plain EXCEPT ![p] = val]
      /\ n.raced = (m.raced \/ Races(m, t, p))
  BY DEF Written, MemoryOK
<1>2. /\ m.writes[t] \in Nat /\ m.writes \in [Threads -> Nat]
      /\ m.plain \in [Plain -> [value : Int, by : Threads, write : Nat]]
  BY MemoryFacts DEF MemoryOK
<1>3. n.plain[p] = val /\ \A q \in Plain : q # p => n.plain[q] = m.plain[q]
  BY <1>1, <1>2
<1>4. \A u \in Threads : n.writes[u] \in Nat /\ n.writes[u] >= m.writes[u]
  BY <1>1, <1>2
<1>5. n.writes[t] = m.writes[t] + 1
  BY <1>1, <1>2
<1>6. n \in [visible : [Atomics -> Seq(MessageType)],
            plain : [Plain -> [value : Int, by : Threads, write : Nat]],
            writes : [Threads -> Nat], released : [Threads -> Nat],
            promised : [Threads -> Nat], acquired : [Threads -> Nat],
            raced : BOOLEAN]
  <2>1. n.plain \in [Plain -> [value : Int, by : Threads, write : Nat]]
    <3>1. val \in [value : Int, by : Threads, write : Nat]
      BY <1>2, OpsAssumption
    <3> HIDE DEF val
    <3> QED BY <1>1, <1>2, <3>1
  <2>2. n.writes \in [Threads -> Nat]
    BY <1>1, <1>2
  <2>3. n = [visible |-> n.visible, plain |-> n.plain, writes |-> n.writes,
              released |-> n.released, promised |-> n.promised, acquired |-> n.acquired,
              raced |-> n.raced]
    BY DEF Written, MemoryOK
  <2>4. /\ m.visible \in [Atomics -> Seq(MessageType)]
        /\ m.released \in [Threads -> Nat] /\ m.promised \in [Threads -> Nat]
        /\ m.acquired \in [Threads -> Nat] /\ n.raced \in BOOLEAN
    BY DEF MemoryOK, Written, Races
  <2> QED BY <1>1, <2>1, <2>2, <2>3, <2>4
<1>7. \A u \in Threads : /\ n.released[u] <= n.writes[u]
                         /\ n.acquired[u] <= n.writes[Other(u)]
                         /\ n.promised[u] <= n.writes[Other(u)]
  <2> SUFFICES ASSUME NEW u \in Threads
               PROVE  /\ n.released[u] <= n.writes[u]
                      /\ n.acquired[u] <= n.writes[Other(u)]
                      /\ n.promised[u] <= n.writes[Other(u)]
    OBVIOUS
  <2>1. Other(u) \in Threads
    BY ThreadFacts
  <2>2. /\ m.released[u] \in Nat /\ m.released[u] <= m.writes[u]
        /\ m.acquired[u] \in Nat /\ m.acquired[u] <= m.writes[Other(u)]
        /\ m.promised[u] \in Nat /\ m.promised[u] <= m.writes[Other(u)]
        /\ m.writes[u] \in Nat /\ m.writes[Other(u)] \in Nat
    BY <2>1, MemoryFacts DEF Acq
  <2> QED BY <1>1, <1>4, <2>1, <2>2
<1>8. ASSUME NEW q \in Plain PROVE n.plain[q].write <= n.writes[n.plain[q].by]
  <2>1. CASE q = p
    BY <2>1, <1>2, <1>3, <1>5
  <2>2. CASE q # p
    <3>1. /\ n.plain[q] = m.plain[q] /\ m.plain[q].write \in Nat /\ m.plain[q].by \in Threads
          /\ m.plain[q].write <= m.writes[m.plain[q].by]
      BY <2>2, <1>3, MemoryFacts
    <3> QED BY <3>1, <1>4, MemoryFacts, SMTT(30)
  <2> QED BY <2>1, <2>2
<1>9. \A y \in Atomics :
         /\ Depth(n, y) >= 1
         /\ \A i \in 1..Depth(n, y) :
                   /\ Sto(n, y, i) <= n.writes[WriterOf(y)]
                   /\ Rel(n, y, i) <= n.writes[WriterOf(y)]
                   /\ i >= 2 => Sto(n, y, i) > Acq(n, Other(WriterOf(y)))
  <2> SUFFICES ASSUME NEW y \in Atomics
               PROVE  /\ Depth(n, y) >= 1
                      /\ \A i \in 1..Depth(n, y) :
                           /\ Sto(n, y, i) <= n.writes[WriterOf(y)]
                           /\ Rel(n, y, i) <= n.writes[WriterOf(y)]
                           /\ i >= 2 => Sto(n, y, i) > Acq(n, Other(WriterOf(y)))
    OBVIOUS
  <2>1. \A i : Depth(n, y) = Depth(m, y) /\ Sto(n, y, i) = Sto(m, y, i) /\ Rel(n, y, i) = Rel(m, y, i)
    BY <1>1 DEF Depth, Sto, Rel
  <2>2. \A u : Acq(n, u) = Acq(m, u)
    BY <1>1 DEF Acq
  <2>3. WriterOf(y) \in Threads /\ m.writes[WriterOf(y)] \in Nat
    BY ThreadFacts, MemoryFacts
  <2>4. Depth(m, y) >= 1
    BY MemoryFacts
  <2>5. ASSUME NEW i \in 1..Depth(n, y)
        PROVE  /\ Sto(n, y, i) <= n.writes[WriterOf(y)]
               /\ Rel(n, y, i) <= n.writes[WriterOf(y)]
               /\ i >= 2 => Sto(n, y, i) > Acq(n, Other(WriterOf(y)))
    <3>1. i \in 1..Depth(m, y)
      BY <2>1
    <3>2. /\ Sto(m, y, i) \in Nat /\ Rel(m, y, i) \in Nat
          /\ Sto(m, y, i) <= m.writes[WriterOf(y)]
          /\ Rel(m, y, i) <= m.writes[WriterOf(y)]
          /\ i >= 2 => Sto(m, y, i) > Acq(m, Other(WriterOf(y)))
      BY <3>1, MemoryFacts
    <3>3. n.writes[WriterOf(y)] >= m.writes[WriterOf(y)] /\ n.writes[WriterOf(y)] \in Nat
      BY <2>3, <1>4
    <3> QED BY <2>1, <2>2, <2>3, <3>2, <3>3
  <2> QED BY <2>1, <2>4, <2>5
<1>10. ValuesOK(n)
  <2>1. \A y, i : Val(n, y, i) = Val(m, y, i) /\ Depth(n, y) = Depth(m, y)
    BY <1>1 DEF Val, Depth
  <2>2. ASSUME NEW q \in Plain PROVE n.plain[q].value \in 0..MaxElements
    <3>1. CASE q = p
      BY <3>1, <1>3
    <3>2. CASE q # p
      BY <3>2, <1>3 DEF MemoryOK, ValuesOK
    <3> QED BY <3>1, <3>2
  <2> QED BY <2>1, <2>2 DEF MemoryOK, ValuesOK
<1>11. MemoryOK(n)
  BY <1>6, <1>7, <1>8, <1>9, <1>10 DEF MemoryOK
<1> QED BY <1>1, <1>3, <1>11 DEF Writes
-----------------------------------------------------------------------------
(* One block while an element enters or leaves it                           *)

\* From v to t by way of f
LEMMA SpanSplit ==
  ASSUME NEW m \in Nat, NEW v \in 0..m, NEW f \in 0..m, NEW t \in 0..m,
         Span(f, t, m) <= Span(v, t, m)
  PROVE  Span(v, f, m) = Span(v, t, m) - Span(f, t, m)
BY DEF Span

\* Leaving out the slot at f
LEMMA SpanBehind ==
  ASSUME NEW m \in Nat, NEW f \in 0..m, NEW s \in 0..m
  PROVE  /\ s # f => Span(Wrap(f, m), s, m) = Span(f, s, m) - 1
         /\ Span(Wrap(f, m), f, m) = m
         /\ Span(f, s, m) = 0 <=> s = f
BY DEF Span, Wrap

\* Depth, newest value and older messages after a store
LEMMA AppendFacts ==
  ASSUME NEW m, NEW n, NEW x, NEW v, NEW s, NEW r, Depth(m, x) \in Nat, Appends(m, n, x, v, s, r)
  PROVE  /\ Depth(n, x) = Depth(m, x) + 1
         /\ Own(n, x) = v /\ Last(n, x) = s
         /\ Val(n, x, Depth(n, x)) = v /\ Sto(n, x, Depth(n, x)) = s /\ Rel(n, x, Depth(n, x)) = r
         /\ \A i \in 1..Depth(m, x) :
              /\ i \in 1..Depth(n, x) /\ i # Depth(n, x)
              /\ Val(n, x, i) = Val(m, x, i) /\ Sto(n, x, i) = Sto(m, x, i) /\ Rel(n, x, i) = Rel(m, x, i)
         /\ \A i \in 1..Depth(n, x) : i \in 1..Depth(m, x) \/ i = Depth(n, x)
<1>1. /\ Depth(n, x) = Depth(m, x) + 1
      /\ \A i \in 1..Depth(m, x) : n.visible[x][i] = m.visible[x][i]
      /\ n.visible[x][Depth(n, x)] = Message(v, s, r)
  BY DEF Appends
<1>2. Own(n, x) = v /\ Last(n, x) = s
      /\ Val(n, x, Depth(n, x)) = v /\ Sto(n, x, Depth(n, x)) = s /\ Rel(n, x, Depth(n, x)) = r
  BY <1>1 DEF Own, Last, Val, Sto, Rel, Message, Depth
<1>3. \A i \in 1..Depth(m, x) :
        /\ i \in 1..Depth(n, x) /\ i # Depth(n, x)
        /\ Val(n, x, i) = Val(m, x, i) /\ Sto(n, x, i) = Sto(m, x, i) /\ Rel(n, x, i) = Rel(m, x, i)
  BY <1>1 DEF Val, Sto, Rel
<1>4. \A i \in 1..Depth(n, x) : i \in 1..Depth(m, x) \/ i = Depth(n, x)
  BY <1>1
<1> QED BY <1>1, <1>2, <1>3, <1>4

\* An atomic that was not stored to has the same messages.
LEMMA SameFacts ==
  ASSUME NEW m, NEW n, NEW x, n.visible[x] = m.visible[x]
  PROVE  /\ Depth(n, x) = Depth(m, x) /\ Own(n, x) = Own(m, x) /\ Last(n, x) = Last(m, x)
         /\ \A i : Val(n, x, i) = Val(m, x, i) /\ Sto(n, x, i) = Sto(m, x, i) /\ Rel(n, x, i) = Rel(m, x, i)
BY DEF Depth, Own, Last, Val, Sto, Rel

\* The step from m to n leaves block b alone.
SameSlots(m, n, b) ==
  /\ \A x \in {front(b), tail(b)} : n.visible[x] = m.visible[x]
  /\ \A s \in Slots \cup {Members} : n.plain[slot(b, s)] = m.plain[slot(b, s)]

\* Nor to its next
SameBlock(m, n, b) == SameSlots(m, n, b) /\ n.visible[next(b)] = m.visible[next(b)]

\* A block not stored to has the same indices and slots,
LEMMA SameSlotsFacts ==
  ASSUME NEW m, NEW n, NEW b, SameSlots(m, n, b)
  PROVE  /\ \A x \in {front(b), tail(b)} :
              /\ Depth(n, x) = Depth(m, x) /\ Own(n, x) = Own(m, x) /\ Last(n, x) = Last(m, x)
              /\ \A i : Val(n, x, i) = Val(m, x, i) /\ Sto(n, x, i) = Sto(m, x, i) /\ Rel(n, x, i) = Rel(m, x, i)
         /\ F(n, b) = F(m, b) /\ T(n, b) = T(m, b)
         /\ \A s \in Slots \cup {Members} :
              El(n, b, s) = El(m, b, s) /\ By(n, b, s) = By(m, b, s) /\ Wri(n, b, s) = Wri(m, b, s)
<1>1. \A x \in {front(b), tail(b)} :
              /\ Depth(n, x) = Depth(m, x) /\ Own(n, x) = Own(m, x) /\ Last(n, x) = Last(m, x)
              /\ \A i : Val(n, x, i) = Val(m, x, i) /\ Sto(n, x, i) = Sto(m, x, i) /\ Rel(n, x, i) = Rel(m, x, i)
  BY SameFacts DEF SameSlots
<1>2. F(n, b) = F(m, b) /\ T(n, b) = T(m, b)
  BY <1>1 DEF F, T
<1>3. \A s \in Slots \cup {Members} :
              El(n, b, s) = El(m, b, s) /\ By(n, b, s) = By(m, b, s) /\ Wri(n, b, s) = Wri(m, b, s)
  BY DEF SameSlots, El, By, Wri
<1> QED BY <1>1, <1>2, <1>3

\* and the same successor.
LEMMA SameBlockFacts ==
  ASSUME NEW m, NEW n, NEW b, SameBlock(m, n, b)
  PROVE  /\ \A x \in {front(b), tail(b), next(b)} :
              /\ Depth(n, x) = Depth(m, x) /\ Own(n, x) = Own(m, x) /\ Last(n, x) = Last(m, x)
              /\ \A i : Val(n, x, i) = Val(m, x, i) /\ Sto(n, x, i) = Sto(m, x, i) /\ Rel(n, x, i) = Rel(m, x, i)
         /\ F(n, b) = F(m, b) /\ T(n, b) = T(m, b)
         /\ \A s \in Slots \cup {Members} :
              El(n, b, s) = El(m, b, s) /\ By(n, b, s) = By(m, b, s) /\ Wri(n, b, s) = Wri(m, b, s)
<1>1. \A x \in {front(b), tail(b), next(b)} :
              /\ Depth(n, x) = Depth(m, x) /\ Own(n, x) = Own(m, x) /\ Last(n, x) = Last(m, x)
              /\ \A i : Val(n, x, i) = Val(m, x, i) /\ Sto(n, x, i) = Sto(m, x, i) /\ Rel(n, x, i) = Rel(m, x, i)
  BY SameFacts DEF SameBlock, SameSlots
<1>2. F(n, b) = F(m, b) /\ T(n, b) = T(m, b)
  BY <1>1 DEF F, T
<1>3. \A s \in Slots \cup {Members} :
              El(n, b, s) = El(m, b, s) /\ By(n, b, s) = By(m, b, s) /\ Wri(n, b, s) = Wri(m, b, s)
  BY DEF SameBlock, SameSlots, El, By, Wri
<1> QED BY <1>1, <1>2, <1>3

\* A block not stored to keeps its relation to its slots.
LEMMA BlockSame ==
  ASSUME NEW m, MemoryOK(m), NEW n, NEW b \in Blocks, SameSlots(m, n, b),
         NEW mask, NEW mask2, mask2[b] = mask[b], Block(m, mask, b),
         \A t \in Threads : Acq(n, t) = Acq(m, t),
         \/ Own(n, frontBlock) = Own(m, frontBlock)
         \/ Own(n, frontBlock) # b
         \/ Wri(m, b, F(m, b)) <= Acq(m, C)
  PROVE  Block(n, mask2, b)
<1>1. Indices(m, mask, b)
  BY DEF Block
<1>2. 0..mask[b] \subseteq Slots
  BY <1>1, IndexFacts
<1> DEFINE tb == tail(b)
           fb == front(b)
<1>3. /\ Depth(n, tb) = Depth(m, tb)
      /\ \A i : Val(n, tb, i) = Val(m, tb, i) /\ Rel(n, tb, i) = Rel(m, tb, i)
      /\ Depth(n, fb) = Depth(m, fb)
      /\ \A i : Val(n, fb, i) = Val(m, fb, i) /\ Rel(n, fb, i) = Rel(m, fb, i)
      /\ F(n, b) = F(m, b) /\ T(n, b) = T(m, b)
  BY SameSlotsFacts
<1>4. \A s \in 0..mask[b] :
        El(n, b, s) = El(m, b, s) /\ By(n, b, s) = By(m, b, s) /\ Wri(n, b, s) = Wri(m, b, s)
  BY <1>2, SameSlotsFacts
<1>5. Acq(n, C) = Acq(m, C) /\ Acq(n, P) = Acq(m, P)
  BY ThreadFacts
<1>6. Indices(n, mask2, b)
  BY <1>1, <1>3 DEF Indices
<1>7. TailsAdvance(n, mask2, b) /\ FrontsAdvance(n, mask2, b)
  BY <1>3 DEF Block, TailsAdvance, FrontsAdvance
<1>8. TailsCoverSlots(n, mask2, b)
  <2> SUFFICES ASSUME NEW i \in 1..Depth(m, tb), NEW s \in 0..mask[b],
                      Span(F(m, b), s, mask[b]) < Span(F(m, b), Val(m, tb, i), mask[b])
               PROVE  /\ By(m, b, s) = P
                      /\ \/ Wri(m, b, s) <= Rel(m, tb, i)
                         \/ Wri(m, b, s) <= Acq(m, C)
                         \/ s = F(m, b) /\ b # Own(n, frontBlock)
    BY <1>3, <1>4, <1>5 DEF TailsCoverSlots
  <2>1. /\ By(m, b, s) = P
        /\ \/ Wri(m, b, s) <= Rel(m, tb, i)
           \/ Wri(m, b, s) <= Acq(m, C)
           \/ s = F(m, b) /\ b # Own(m, frontBlock)
    BY DEF Block, TailsCoverSlots
  <2> QED BY <2>1
<1>9. FrontsCoverSlots(n, mask2, b)
  BY <1>3, <1>4, <1>5 DEF Block, FrontsCoverSlots
<1>10. FreeSlots(n, mask2, b)
  BY <1>3, <1>4 DEF Block, FreeSlots
<1> QED BY <1>6, <1>7, <1>8, <1>9, <1>10 DEF Block

\* The producer constructs element e behind the tail of block b and publishes
\* the slot with the store to tail or, in a block ahead, with a later one.
FillsSlots(m, n, mask, b, e) ==
  /\ n.visible[front(b)] = m.visible[front(b)]
  /\ \E s, r : /\ Appends(m, n, tail(b), Wrap(T(m, b), mask[b]), s, r)
               /\ s > m.writes[P] /\ s \in Nat /\ r \in Nat
               /\ \/ r >= m.writes[P] /\ Wri(n, b, T(m, b)) <= r
                  \/ F(m, b) = T(m, b) /\ b # Own(m, frontBlock)
  /\ El(n, b, T(m, b)) = e /\ By(n, b, T(m, b)) = P
  /\ \A s \in Slots : s # T(m, b) => n.plain[slot(b, s)] = m.plain[slot(b, s)]

\* Element e was constructed behind the tail of b, and nothing else of b changed.
Fills(m, n, mask, b, e) ==
  /\ FillsSlots(m, n, mask, b, e)
  /\ n.visible[next(b)] = m.visible[next(b)]
  /\ n.plain[slot(b, Members)] = m.plain[slot(b, Members)]

\* A block keeps it when an element is constructed behind its tail.
LEMMA BlockFills ==
  ASSUME NEW m, MemoryOK(m), NEW n, MemoryOK(n), NEW mask, NEW b \in Blocks, NEW e,
         Block(m, mask, b), FillsSlots(m, n, mask, b, e),
         \A t \in Threads : Acq(n, t) = Acq(m, t),
         Own(n, frontBlock) = Own(m, frontBlock),
         \A i \in 1..Depth(m, front(b)) : Span(Val(m, front(b), i), T(m, b), mask[b]) < mask[b]
  PROVE  /\ Block(n, mask, b)
         /\ F(n, b) = F(m, b) /\ T(n, b) = Wrap(T(m, b), mask[b])
         /\ T(m, b) \in 0..mask[b]
         /\ Span(F(n, b), T(n, b), mask[b]) = Span(F(m, b), T(m, b), mask[b]) + 1
         /\ F(n, b) # T(n, b)
         /\ \A s \in 0..mask[b] :
              Span(F(n, b), s, mask[b]) < Span(F(n, b), T(n, b), mask[b])
                <=> (s = T(m, b) \/ Span(F(m, b), s, mask[b]) < Span(F(m, b), T(m, b), mask[b]))
<1> DEFINE tb == tail(b)
           fb == front(b)
           k == mask[b]
           f == F(m, b)
           t == T(m, b)
<1>1. Indices(m, mask, b)
  BY DEF Block
<1>2. /\ k \in Nat /\ k >= 1 /\ k < SlotBound /\ 0..k \subseteq Slots /\ f \in 0..k /\ t \in 0..k
      /\ f = Val(m, fb, Depth(m, fb)) /\ t = Val(m, tb, Depth(m, tb))
      /\ \A s \in 0..k : Wri(m, b, s) \in Nat /\ By(m, b, s) \in Threads /\ Wri(m, b, s) <= m.writes[By(m, b, s)]
  BY <1>1, IndexFacts
<1>3. /\ tb \in Atomics /\ fb \in Atomics
      /\ Depth(m, tb) \in Nat /\ Depth(m, tb) >= 1 /\ Depth(m, fb) \in Nat /\ Depth(m, fb) >= 1
  BY AtomicFacts, MemoryFacts
<1>4. /\ Depth(n, fb) = Depth(m, fb) /\ F(n, b) = f
      /\ \A i : Val(n, fb, i) = Val(m, fb, i) /\ Rel(n, fb, i) = Rel(m, fb, i)
  BY SameFacts, SMTT(30) DEF FillsSlots, F
<1>5. PICK st, r : /\ Appends(m, n, tb, Wrap(t, k), st, r)
                   /\ r \in Nat
                   /\ \/ r >= m.writes[P] /\ Wri(n, b, t) <= r
                      \/ f = t /\ b # Own(m, frontBlock)
  BY DEF FillsSlots
<1>6. /\ Depth(n, tb) = Depth(m, tb) + 1
      /\ T(n, b) = Wrap(t, k)
      /\ Val(n, tb, Depth(n, tb)) = Wrap(t, k) /\ Rel(n, tb, Depth(n, tb)) = r
      /\ \A i \in 1..Depth(m, tb) : Val(n, tb, i) = Val(m, tb, i) /\ Rel(n, tb, i) = Rel(m, tb, i)
      /\ \A i \in 1..Depth(n, tb) : i \in 1..Depth(m, tb) \/ i = Depth(n, tb)
  BY <1>3, <1>5, AppendFacts DEF T
<1>7. Span(f, t, k) < k
  <2>1. Depth(m, fb) \in 1..Depth(m, fb)
    BY <1>3
  <2> QED BY <2>1, <1>2
<1>8. /\ Wrap(t, k) \in 0..k /\ Wrap(t, k) # f
      /\ Span(f, Wrap(t, k), k) = Span(f, t, k) + 1
  <2>1. Wrap(t, k) # f
    <3>1. Wrap(t, k) = f => Span(f, t, k) = k
      BY <1>2, SpanRange
    <3> QED BY <3>1, <1>2, <1>7
  <2> QED BY <2>1, <1>2, SpanRange, SpanWrap
<1>9. \A s \in 0..k : s # t => /\ El(n, b, s) = El(m, b, s) /\ By(n, b, s) = By(m, b, s)
                               /\ Wri(n, b, s) = Wri(m, b, s)
  BY <1>2 DEF FillsSlots, El, By, Wri
<1>10. By(n, b, t) = P /\ El(n, b, t) = e
  BY DEF FillsSlots
<1>11. Acq(n, C) = Acq(m, C) /\ Acq(n, P) = Acq(m, P) /\ P \in Threads
  BY ThreadFacts
<1> HIDE DEF tb, fb, k, f, t
<1>12. \A s \in 0..k : Span(f, s, k) \in 0..k
  BY <1>2, SpanRange
<1>13. \A s \in 0..k : Span(f, s, k) < Span(f, t, k) + 1 <=> (s = t \/ Span(f, s, k) < Span(f, t, k))
  <2> SUFFICES ASSUME NEW s \in 0..k
               PROVE Span(f, s, k) < Span(f, t, k) + 1 <=> (s = t \/ Span(f, s, k) < Span(f, t, k))
    OBVIOUS
  <2>1. Span(f, s, k) = Span(f, t, k) => s = t
    BY <1>2, SpanInjective
  <2> QED BY <2>1, <1>2, <1>12
<1>14. Indices(n, mask, b)
  <2>1. \A i \in 1..Depth(n, tb) : Val(n, tb, i) \in 0..k
    BY <1>1, <1>6, <1>8 DEF Indices, tb, k
  <2> QED BY <1>1, <1>4, <2>1 DEF Indices, tb, fb, k
<1>15. TailsAdvance(n, mask, b)
  <2> SUFFICES ASSUME NEW i \in 1..Depth(n, tb), NEW j \in 1..Depth(n, tb), i <= j
               PROVE  Span(f, Val(n, tb, i), k) <= Span(f, Val(n, tb, j), k)
    BY <1>4 DEF TailsAdvance, f, k, tb
  <2>1. \A h \in 1..Depth(m, tb) : Val(m, tb, h) \in 0..k /\ Span(f, Val(m, tb, h), k) <= Span(f, t, k)
    <3> SUFFICES ASSUME NEW h \in 1..Depth(m, tb)
                 PROVE  Val(m, tb, h) \in 0..k /\ Span(f, Val(m, tb, h), k) <= Span(f, t, k)
      OBVIOUS
    <3>1. h <= Depth(m, tb) /\ Depth(m, tb) \in 1..Depth(m, tb)
      BY <1>3
    <3>2. TailsAdvance(m, mask, b) /\ Indices(m, mask, b)
      BY DEF Block
    <3>3. Span(f, Val(m, tb, h), k) <= Span(f, Val(m, tb, Depth(m, tb)), k)
      BY <3>1, <3>2 DEF TailsAdvance, tb, f, k
    <3> QED BY <3>2, <3>3, <1>2 DEF Indices, tb, k, t
  <2>2. CASE i \in 1..Depth(m, tb) /\ j \in 1..Depth(m, tb)
    BY <2>2, <1>6 DEF Block, TailsAdvance, f, tb, k
  <2>3. CASE i \in 1..Depth(m, tb) /\ j = Depth(n, tb)
    <3>1. Span(f, Val(n, tb, i), k) <= Span(f, t, k) /\ Span(f, Val(n, tb, i), k) \in 0..k
      BY <2>1, <2>3, <1>6, <1>12
    <3>2. Span(f, Val(n, tb, j), k) = Span(f, t, k) + 1
      BY <2>3, <1>6, <1>8
    <3> QED BY <3>1, <3>2, <1>12, <1>2
  <2>4. CASE i = Depth(n, tb)
    <3>1. j = i
      BY <2>4, <1>3, <1>6
    <3> QED BY <3>1, <2>4, <1>6, <1>8, <1>12
  <2> QED BY <2>2, <2>3, <2>4, <1>6
<1>16. ASSUME NEW i \in 1..Depth(m, fb)
       PROVE  /\ Val(m, fb, i) \in 0..k
              /\ Span(Val(m, fb, i), Wrap(t, k), k) = Span(Val(m, fb, i), t, k) + 1
              /\ Span(Val(m, fb, i), t, k) \in 0..k
  <2>1. Val(m, fb, i) \in 0..k
    BY <1>1 DEF Indices, fb, k
  <2>2. Span(Val(m, fb, i), t, k) < k
    BY DEF fb, k, t
  <2>3. Wrap(t, k) # Val(m, fb, i) /\ Span(Val(m, fb, i), t, k) \in 0..k
    BY <2>1, <2>2, <1>2, SpanRange
  <2> QED BY <2>1, <2>3, <1>2, SpanWrap
<1>17. FrontsAdvance(n, mask, b)
  <2> SUFFICES ASSUME NEW i \in 1..Depth(m, fb), NEW j \in 1..Depth(m, fb), i <= j
               PROVE  Span(Val(m, fb, i), Wrap(t, k), k) >= Span(Val(m, fb, j), Wrap(t, k), k)
    BY <1>4, <1>6 DEF FrontsAdvance, fb, k, t
  <2>1. Span(Val(m, fb, i), t, k) >= Span(Val(m, fb, j), t, k)
    BY DEF Block, FrontsAdvance, fb, k, t
  <2> QED BY <2>1, <1>16
<1>18. TailsCoverSlots(n, mask, b)
  <2> SUFFICES ASSUME NEW i \in 1..Depth(n, tb), NEW s \in 0..k,
                      Span(f, s, k) < Span(f, Val(n, tb, i), k)
               PROVE  /\ By(n, b, s) = P
                      /\ \/ Wri(n, b, s) <= Rel(n, tb, i)
                         \/ Wri(n, b, s) <= Acq(m, C)
                         \/ s = f /\ b # Own(m, frontBlock)
    BY <1>4, <1>11 DEF TailsCoverSlots, f, tb, k
  <2>1. \A h \in 1..Depth(m, tb) : \A u \in 0..k : Span(f, u, k) < Span(f, Val(m, tb, h), k) =>
          /\ By(m, b, u) = P
          /\ \/ Wri(m, b, u) <= Rel(m, tb, h)
             \/ Wri(m, b, u) <= Acq(m, C)
             \/ u = f /\ b # Own(m, frontBlock)
    BY DEF Block, TailsCoverSlots, f, tb, k
  <2>2. CASE i \in 1..Depth(m, tb)
    <3>1. Span(f, s, k) < Span(f, Val(m, tb, i), k)
      BY <2>2, <1>6
    <3>2. Span(f, Val(m, tb, i), k) <= Span(f, t, k) /\ Val(m, tb, i) \in 0..k
      <4>1. i <= Depth(m, tb) /\ Depth(m, tb) \in 1..Depth(m, tb)
        BY <1>3, <2>2
      <4>2. Span(f, Val(m, tb, i), k) <= Span(f, Val(m, tb, Depth(m, tb)), k)
        BY <4>1, <2>2 DEF Block, TailsAdvance, tb, f, k
      <4> QED BY <4>2, <2>2, <1>1, <1>2 DEF Indices, tb, k, t
    <3>3. s # t
      BY <3>1, <3>2, <1>12, <1>2
    <3> QED BY <2>1, <2>2, <3>1, <3>3, <1>6, <1>9
  <2>3. CASE i = Depth(n, tb)
    <3>1. Span(f, s, k) < Span(f, t, k) + 1
      BY <2>3, <1>6, <1>8
    <3>2. s = t \/ Span(f, s, k) < Span(f, t, k)
      BY <3>1, <1>13
    <3>3. CASE s = t
      BY <3>3, <1>5, <1>6, <1>10, <2>3 DEF t, f
    <3>4. CASE s # t
      <4>1. Span(f, s, k) < Span(f, Val(m, tb, Depth(m, tb)), k) /\ Depth(m, tb) \in 1..Depth(m, tb)
        BY <3>2, <3>4, <1>2, <1>3 DEF t, tb
      <4>2. By(m, b, s) = P /\ Wri(m, b, s) <= m.writes[P] /\ Wri(m, b, s) \in Nat
        BY <4>1, <2>1, <1>2
      <4>3. f # t
        BY <3>2, <3>4, <1>2, <1>12, SpanRange
      <4>4. r >= m.writes[P] /\ m.writes[P] \in Nat
        BY <1>5, <4>3, MemoryFacts, ThreadFacts DEF f, t
      <4> QED BY <4>2, <4>4, <3>4, <1>5, <1>6, <1>9, <2>3
    <3> QED BY <3>3, <3>4
  <2> QED BY <2>2, <2>3, <1>6
<1>19. FrontsCoverSlots(n, mask, b)
  <2> SUFFICES ASSUME NEW i \in 1..Depth(m, fb), NEW s \in 0..k,
                      Span(Val(m, fb, i), s, k) >= Span(Val(m, fb, i), Wrap(t, k), k)
               PROVE  \/ By(n, b, s) = P
                      \/ Wri(n, b, s) <= Rel(m, fb, i)
                      \/ Wri(n, b, s) <= Acq(m, P)
    BY <1>4, <1>6, <1>11 DEF FrontsCoverSlots, fb, k, t
  <2>1. s # t /\ Span(Val(m, fb, i), s, k) >= Span(Val(m, fb, i), t, k)
    <3>1. Span(Val(m, fb, i), s, k) \in 0..k
      BY <1>2, <1>16, SpanRange
    <3> QED BY <3>1, <1>16
  <2>2. \/ By(m, b, s) = P \/ Wri(m, b, s) <= Rel(m, fb, i) \/ Wri(m, b, s) <= Acq(m, P)
    BY <2>1 DEF Block, FrontsCoverSlots, fb, k, t
  <2> QED BY <2>1, <2>2, <1>9
<1>20. FreeSlots(n, mask, b)
  <2> SUFFICES ASSUME NEW s \in 0..k, Span(f, s, k) >= Span(f, Wrap(t, k), k)
               PROVE  El(n, b, s) = Raw
    BY <1>4, <1>6 DEF FreeSlots, f, k, t
  <2>1. Span(f, s, k) >= Span(f, t, k) + 1
    BY <1>8
  <2>2. s # t /\ Span(f, s, k) >= Span(f, t, k)
    BY <2>1, <1>12, <1>2
  <2>3. El(m, b, s) = Raw
    BY <2>2 DEF Block, FreeSlots, f, k, t
  <2> QED BY <2>2, <2>3, <1>9
<1> QED BY <1>2, <1>4, <1>6, <1>8, <1>13, <1>14, <1>15, <1>17, <1>18, <1>19, <1>20 DEF Block, f, t, k

\* The consumer destroys the element at the front of block b and gives the slot
\* back.
Takes(m, n, mask, b) ==
  /\ n.visible[tail(b)] = m.visible[tail(b)] /\ n.visible[next(b)] = m.visible[next(b)]
  /\ \E s, r : /\ Appends(m, n, front(b), Wrap(F(m, b), mask[b]), s, r)
               /\ r \in Nat /\ r >= m.writes[C] /\ Wri(n, b, F(m, b)) <= r
  /\ El(n, b, F(m, b)) = Raw
  /\ \A s \in Slots \cup {Members} : s # F(m, b) => n.plain[slot(b, s)] = m.plain[slot(b, s)]

\* A block keeps it when the element at its front is taken.
LEMMA BlockTakes ==
  ASSUME NEW m, MemoryOK(m), NEW n, MemoryOK(n), NEW mask, NEW b \in Blocks,
         Block(m, mask, b), Takes(m, n, mask, b),
         \A t \in Threads : Acq(n, t) = Acq(m, t),
         Own(n, frontBlock) = Own(m, frontBlock),
         \A i \in 1..Depth(m, tail(b)) : Val(m, tail(b), i) # F(m, b)
  PROVE  /\ Block(n, mask, b)
         /\ F(n, b) = Wrap(F(m, b), mask[b]) /\ T(n, b) = T(m, b) /\ F(m, b) # T(m, b)
         /\ Span(F(n, b), T(n, b), mask[b]) = Span(F(m, b), T(m, b), mask[b]) - 1
         /\ Span(F(m, b), T(m, b), mask[b]) \in 1..mask[b]
         /\ \A s \in 0..mask[b] :
              Span(F(n, b), s, mask[b]) < Span(F(n, b), T(n, b), mask[b])
                => /\ s # F(m, b)
                   /\ Span(F(n, b), s, mask[b]) = Span(F(m, b), s, mask[b]) - 1
                   /\ Span(F(m, b), s, mask[b]) < Span(F(m, b), T(m, b), mask[b])
<1> DEFINE tb == tail(b)
           fb == front(b)
           k == mask[b]
           f == F(m, b)
           t == T(m, b)
           w == Wrap(f, k)
<1>1. Indices(m, mask, b)
  BY DEF Block
<1>2. /\ k \in Nat /\ k >= 1 /\ k < SlotBound /\ 0..k \subseteq Slots /\ f \in 0..k /\ t \in 0..k
      /\ f = Val(m, fb, Depth(m, fb)) /\ t = Val(m, tb, Depth(m, tb))
      /\ \A s \in 0..k : Wri(m, b, s) \in Nat /\ By(m, b, s) \in Threads /\ Wri(m, b, s) <= m.writes[By(m, b, s)]
  BY <1>1, IndexFacts
<1>3. /\ tb \in Atomics /\ fb \in Atomics
      /\ Depth(m, tb) \in Nat /\ Depth(m, tb) >= 1 /\ Depth(m, fb) \in Nat /\ Depth(m, fb) >= 1
  BY AtomicFacts, MemoryFacts
<1>4. /\ Depth(n, tb) = Depth(m, tb) /\ T(n, b) = t
      /\ \A i : Val(n, tb, i) = Val(m, tb, i) /\ Rel(n, tb, i) = Rel(m, tb, i)
  BY SameFacts DEF Takes, T
<1>5. PICK st, r : /\ Appends(m, n, fb, w, st, r)
                   /\ r \in Nat /\ r >= m.writes[C] /\ Wri(n, b, f) <= r
  BY DEF Takes
<1>6. /\ Depth(n, fb) = Depth(m, fb) + 1
      /\ F(n, b) = w
      /\ Val(n, fb, Depth(n, fb)) = w /\ Rel(n, fb, Depth(n, fb)) = r
      /\ \A i \in 1..Depth(m, fb) : Val(n, fb, i) = Val(m, fb, i) /\ Rel(n, fb, i) = Rel(m, fb, i)
      /\ \A i \in 1..Depth(n, fb) : i \in 1..Depth(m, fb) \/ i = Depth(n, fb)
  BY <1>3, <1>5, AppendFacts DEF F
<1>7. f # t
  <2>1. Depth(m, tb) \in 1..Depth(m, tb)
    BY <1>3
  <2> QED BY <2>1, <1>2
<1>8. \A s \in 0..k : s # f => /\ El(n, b, s) = El(m, b, s) /\ By(n, b, s) = By(m, b, s)
                               /\ Wri(n, b, s) = Wri(m, b, s)
  BY <1>2 DEF Takes, El, By, Wri
<1>9. El(n, b, f) = Raw
  BY DEF Takes
<1>10. Acq(n, C) = Acq(m, C) /\ Acq(n, P) = Acq(m, P) /\ C \in Threads /\ m.writes[C] \in Nat
  BY ThreadFacts, MemoryFacts
<1>11. \A i \in 1..Depth(m, tb) : Val(m, tb, i) \in 0..k /\ Val(m, tb, i) # f
  BY <1>1 DEF Indices
<1>12. \A i \in 1..Depth(m, fb) : Val(m, fb, i) \in 0..k
  BY <1>1 DEF Indices
<1>13. Own(n, frontBlock) = Own(m, frontBlock)
  OBVIOUS
<1>14. /\ \A i, j \in 1..Depth(m, tb) : i <= j => Span(f, Val(m, tb, i), k) <= Span(f, Val(m, tb, j), k)
       /\ \A i, j \in 1..Depth(m, fb) : i <= j => Span(Val(m, fb, i), t, k) >= Span(Val(m, fb, j), t, k)
       /\ \A i \in 1..Depth(m, tb) : \A s \in 0..k : Span(f, s, k) < Span(f, Val(m, tb, i), k) =>
            /\ By(m, b, s) = P
            /\ \/ Wri(m, b, s) <= Rel(m, tb, i)
               \/ Wri(m, b, s) <= Acq(m, C)
               \/ s = f /\ b # Own(m, frontBlock)
       /\ \A i \in 1..Depth(m, fb) : \A s \in 0..k : Span(Val(m, fb, i), s, k) >= Span(Val(m, fb, i), t, k) =>
            \/ By(m, b, s) = P \/ Wri(m, b, s) <= Rel(m, fb, i) \/ Wri(m, b, s) <= Acq(m, P)
       /\ \A s \in 0..k : Span(f, s, k) >= Span(f, t, k) => El(m, b, s) = Raw
  BY DEF Block, TailsAdvance, FrontsAdvance, TailsCoverSlots, FrontsCoverSlots, FreeSlots
<1> HIDE DEF tb, fb, k, f, t, w
<1>15. w \in 0..k /\ Span(w, f, k) = k
  BY <1>2, SpanRange, SpanWrap DEF w
<1>16. \A s \in 0..k : s # f => Span(w, s, k) = Span(f, s, k) - 1
  BY <1>2, SpanBehind DEF w
<1>17. \A v, s \in 0..k : Span(v, s, k) \in 0..k
  BY <1>2, SpanRange
<1>18. Span(w, t, k) = Span(f, t, k) - 1 /\ Span(f, t, k) \in 1..k
  <2>1. t \in 0..k /\ t # f /\ f \in 0..k
    BY <1>2, <1>7
  <2>2. Span(w, t, k) = Span(f, t, k) - 1
    BY <2>1, <1>16
  <2>3. Span(f, t, k) > 0 /\ Span(f, t, k) \in 0..k
    BY <2>1, <1>2, SpanRange
  <2> QED BY <2>2, <2>3, <1>2
<1>19. Indices(n, mask, b)
  <2>1. \A i \in 1..Depth(n, fb) : Val(n, fb, i) \in 0..k
    BY <1>12, <1>6, <1>15
  <2>2. \A i \in 1..Depth(n, tb) : Val(n, tb, i) \in 0..k
    BY <1>4, <1>11
  <2> QED BY <1>2, <2>1, <2>2 DEF Indices, tb, fb, k
<1>20. TailsAdvance(n, mask, b)
  <2> SUFFICES ASSUME NEW i \in 1..Depth(m, tb), NEW j \in 1..Depth(m, tb), i <= j
               PROVE  Span(w, Val(m, tb, i), k) <= Span(w, Val(m, tb, j), k)
    BY <1>4, <1>6 DEF TailsAdvance, tb, k
  <2>1. Span(f, Val(m, tb, i), k) <= Span(f, Val(m, tb, j), k)
    BY <1>14
  <2>2. ASSUME NEW h \in 1..Depth(m, tb)
        PROVE  /\ Span(w, Val(m, tb, h), k) = Span(f, Val(m, tb, h), k) - 1
               /\ Span(f, Val(m, tb, h), k) \in 0..k
    BY <1>2, <1>11, <1>16, <1>17
  <2>3. /\ Span(w, Val(m, tb, i), k) = Span(f, Val(m, tb, i), k) - 1
        /\ Span(w, Val(m, tb, j), k) = Span(f, Val(m, tb, j), k) - 1
        /\ Span(f, Val(m, tb, i), k) \in 0..k /\ Span(f, Val(m, tb, j), k) \in 0..k
    BY <2>2
  <2> QED BY <2>1, <2>3, <1>2
<1>21. \A i \in 1..Depth(m, fb) : Span(Val(m, fb, i), t, k) >= Span(f, t, k)
  <2> SUFFICES ASSUME NEW i \in 1..Depth(m, fb) PROVE Span(Val(m, fb, i), t, k) >= Span(f, t, k)
    OBVIOUS
  <2>1. i <= Depth(m, fb) /\ Depth(m, fb) \in 1..Depth(m, fb)
    BY <1>3
  <2> QED BY <2>1, <1>2, <1>14
<1>22. FrontsAdvance(n, mask, b)
  <2> SUFFICES ASSUME NEW i \in 1..Depth(n, fb), NEW j \in 1..Depth(n, fb), i <= j
               PROVE  Span(Val(n, fb, i), t, k) >= Span(Val(n, fb, j), t, k)
    BY <1>4 DEF FrontsAdvance, fb, k
  <2>1. CASE i \in 1..Depth(m, fb) /\ j \in 1..Depth(m, fb)
    BY <2>1, <1>6, <1>14
  <2>2. CASE i \in 1..Depth(m, fb) /\ j = Depth(n, fb)
    <3>1. Span(Val(m, fb, i), t, k) >= Span(f, t, k) /\ Span(Val(m, fb, i), t, k) \in 0..k
      BY <2>2, <1>2, <1>12, <1>17, <1>21
    <3> QED BY <3>1, <2>2, <1>6, <1>18, <1>2
  <2>3. CASE i = Depth(n, fb)
    <3>1. j = i
      BY <2>3, <1>3, <1>6
    <3> QED BY <3>1, <2>3, <1>6, <1>18, <1>2
  <2> QED BY <2>1, <2>2, <2>3, <1>6
<1>23. TailsCoverSlots(n, mask, b)
  <2> SUFFICES ASSUME NEW i \in 1..Depth(m, tb), NEW s \in 0..k,
                      Span(w, s, k) < Span(w, Val(m, tb, i), k)
               PROVE  /\ By(n, b, s) = P
                      /\ \/ Wri(n, b, s) <= Rel(m, tb, i)
                         \/ Wri(n, b, s) <= Acq(m, C)
    BY <1>4, <1>6, <1>10 DEF TailsCoverSlots, tb, k
  <2>1. s # f
    BY <1>15, <1>17, <1>11, <1>2
  <2>2. Span(f, s, k) < Span(f, Val(m, tb, i), k)
    <3>1. Span(w, s, k) = Span(f, s, k) - 1
      BY <2>1, <1>16
    <3>2. Span(w, Val(m, tb, i), k) = Span(f, Val(m, tb, i), k) - 1
      BY <1>11, <1>16
    <3>3. Span(f, s, k) \in 0..k /\ Span(f, Val(m, tb, i), k) \in 0..k
      BY <1>2, <1>11, <1>17
    <3> QED BY <3>1, <3>2, <3>3, <1>2
  <2> QED BY <2>1, <2>2, <1>8, <1>14
<1>24. FrontsCoverSlots(n, mask, b)
  <2> SUFFICES ASSUME NEW i \in 1..Depth(n, fb), NEW s \in 0..k,
                      Span(Val(n, fb, i), s, k) >= Span(Val(n, fb, i), t, k)
               PROVE  \/ By(n, b, s) = P
                      \/ Wri(n, b, s) <= Rel(n, fb, i)
                      \/ Wri(n, b, s) <= Acq(m, P)
    BY <1>4, <1>10 DEF FrontsCoverSlots, fb, k
  <2>1. CASE i \in 1..Depth(m, fb)
    <3> DEFINE v == Val(m, fb, i)
    <3>1. v \in 0..k /\ Span(v, t, k) >= Span(f, t, k) /\ Span(v, s, k) >= Span(v, t, k)
      BY <2>1, <1>6, <1>12, <1>21
    <3>2. Span(v, f, k) = Span(v, t, k) - Span(f, t, k)
      <4>1. Span(f, t, k) <= Span(v, t, k)
        BY <3>1, <1>2, <1>17
      <4> QED BY <4>1, <3>1, <1>2, SpanSplit
    <3>3. s # f
      <4>1. Span(v, t, k) \in Nat
        BY <3>1, <1>2, <1>17
      <4> QED BY <4>1, <3>1, <3>2, <1>18
    <3> QED BY <2>1, <3>1, <3>3, <1>6, <1>8, <1>14
  <2>2. CASE i = Depth(n, fb)
    <3>1. CASE s = f
      BY <2>2, <3>1, <1>5, <1>6 DEF f
    <3>2. CASE s # f
      <4>1. By(m, b, s) = P \/ By(m, b, s) = C
        BY <1>2, ThreadFacts
      <4>2. By(m, b, s) = C => Wri(m, b, s) <= r
        BY <1>2, <1>5, <1>10
      <4> QED BY <4>1, <4>2, <3>2, <2>2, <1>6, <1>8
    <3> QED BY <3>1, <3>2
  <2> QED BY <2>1, <2>2, <1>6
<1>25. FreeSlots(n, mask, b)
  <2> SUFFICES ASSUME NEW s \in 0..k, Span(w, s, k) >= Span(w, t, k)
               PROVE  El(n, b, s) = Raw
    BY <1>4, <1>6 DEF FreeSlots, k
  <2>1. CASE s = f
    BY <2>1, <1>9
  <2>2. CASE s # f
    <3>1. Span(f, s, k) >= Span(f, t, k)
      BY <2>2, <1>2, <1>16, <1>17, <1>18, SMTT(30)
    <3> QED BY <3>1, <2>2, <1>8, <1>14
  <2> QED BY <2>1, <2>2
<1>26. \A s \in 0..k : Span(w, s, k) < Span(w, t, k) =>
         s # f /\ Span(w, s, k) = Span(f, s, k) - 1 /\ Span(f, s, k) < Span(f, t, k)
  <2> SUFFICES ASSUME NEW s \in 0..k, Span(w, s, k) < Span(w, t, k)
               PROVE s # f /\ Span(w, s, k) = Span(f, s, k) - 1 /\ Span(f, s, k) < Span(f, t, k)
    OBVIOUS
  <2>1. s # f
    BY <1>15, <1>17, <1>18, <1>2
  <2> QED BY <2>1, <1>2, <1>16, <1>17, <1>18, SMTT(30)
<1> QED BY <1>4, <1>6, <1>7, <1>18, <1>19, <1>20, <1>22, <1>23, <1>24, <1>25, <1>26 DEF Block, f, t, k, w

\* A block not stored to stays closed,
LEMMA ClosedSame ==
  ASSUME NEW m, NEW n, NEW b, SameBlock(m, n, b), NEW v, Closed(m, b, v)
  PROVE  Closed(n, b, v)
BY SameBlockFacts DEF Closed

\* and stays entered.
LEMMA EnteredSame ==
  ASSUME NEW m, MemoryOK(m), NEW n, NEW b \in Blocks, SameSlots(m, n, b), NEW mask, Indices(m, mask, b),
         NEW mask2, NEW v, Entered(m, mask, b, v)
  PROVE  Entered(n, mask2, b, v)
<1>1. F(m, b) \in Slots
  BY IndexFacts
<1>2. /\ F(n, b) = F(m, b)
      /\ Depth(n, tail(b)) = Depth(m, tail(b))
      /\ \A i : Val(n, tail(b), i) = Val(m, tail(b), i) /\ Sto(n, tail(b), i) = Sto(m, tail(b), i)
  BY SameSlotsFacts
<1>3. Wri(n, b, Members) = Wri(m, b, Members) /\ Wri(n, b, F(m, b)) = Wri(m, b, F(m, b))
  BY <1>1, SameSlotsFacts
<1> QED BY <1>2, <1>3 DEF Entered

\* A block with an element is not emptied by another one.
LEMMA EnteredFills ==
  ASSUME NEW m, MemoryOK(m), NEW n, NEW b \in Blocks, NEW mask, Indices(m, mask, b), NEW e,
         Fills(m, n, mask, b, e), NEW v \in Nat, v <= m.writes[P], Entered(m, mask, b, v),
         Wrap(T(m, b), mask[b]) # F(m, b)
  PROVE  Entered(n, mask, b, v)
<1>1. /\ tail(b) \in Atomics /\ Depth(m, tail(b)) \in Nat /\ Depth(m, tail(b)) >= 1
      /\ m.writes[P] \in Nat
  BY AtomicFacts, MemoryFacts, ThreadFacts
<1>2. F(n, b) = F(m, b)
  BY SameFacts DEF Fills, FillsSlots, F
<1>3. PICK s, r : Appends(m, n, tail(b), Wrap(T(m, b), mask[b]), s, r) /\ s > m.writes[P] /\ s \in Nat
  BY DEF Fills, FillsSlots
<1>4. /\ Depth(n, tail(b)) = Depth(m, tail(b)) + 1
      /\ Val(n, tail(b), Depth(n, tail(b))) = Wrap(T(m, b), mask[b])
      /\ Sto(n, tail(b), Depth(n, tail(b))) = s
      /\ \A i \in 1..Depth(m, tail(b)) : /\ Val(n, tail(b), i) = Val(m, tail(b), i)
                                         /\ Sto(n, tail(b), i) = Sto(m, tail(b), i)
      /\ \A i \in 1..Depth(n, tail(b)) : i \in 1..Depth(m, tail(b)) \/ i = Depth(n, tail(b))
  BY <1>1, <1>3, AppendFacts
<1>5. T(m, b) # F(m, b)
  <2>1. Depth(m, tail(b)) \in 1..Depth(m, tail(b)) /\ Depth(m, tail(b)) + 1 > Depth(m, tail(b))
    BY <1>1
  <2>2. \A j \in Depth(m, tail(b)) + 1..Depth(m, tail(b)) : Sto(m, tail(b), j) > v
    BY <1>1
  <2>3. T(m, b) = Val(m, tail(b), Depth(m, tail(b)))
    BY IndexFacts
  <2> QED BY <2>1, <2>2, <2>3 DEF Entered
<1>6. F(m, b) \in Slots /\ T(m, b) \in Slots
  BY IndexFacts
<1>7. Members # T(m, b)
  BY <1>6, AtomicFacts
<1>8. Wri(n, b, Members) = Wri(m, b, Members) /\ Wri(n, b, F(m, b)) = Wri(m, b, F(m, b))
  BY <1>5, <1>6, <1>7 DEF Fills, FillsSlots, Wri
<1>9. ASSUME NEW i \in 1..Depth(n, tail(b)),
             \A j \in i+1..Depth(n, tail(b)) : Sto(n, tail(b), j) > v
      PROVE  Val(n, tail(b), i) # F(m, b)
  <2>1. CASE i \in 1..Depth(m, tail(b))
    <3>1. ASSUME NEW j \in i+1..Depth(m, tail(b)) PROVE Sto(m, tail(b), j) > v
      <4>1. j \in i+1..Depth(n, tail(b)) /\ j \in 1..Depth(m, tail(b))
        BY <1>1, <1>4, <2>1
      <4> QED BY <4>1, <1>4, <1>9
    <3> QED BY <2>1, <3>1, <1>4 DEF Entered
  <2>2. CASE i = Depth(n, tail(b))
    BY <2>2, <1>4
  <2> QED BY <2>1, <2>2, <1>4
<1> QED BY <1>2, <1>8, <1>9 DEF Entered

\* The producer's writes that a consumer may come to know of
LEMMA UptoBound ==
  ASSUME NEW m, MemoryOK(m), NEW t \in Threads, NEW x \in Atomics, WriterOf(x) = Other(t),
         NEW i \in 1..Depth(m, x)
  PROVE  Upto(m, t, x, i) \in Nat /\ Upto(m, t, x, i) <= m.writes[Other(t)]
BY MemoryFacts DEF Upto

\* What is known after a load depends on the message and on what was known.
LEMMA UptoSame ==
  ASSUME NEW m, NEW n, NEW t, Acq(n, t) = Acq(m, t), NEW x, NEW i, Rel(n, x, i) = Rel(m, x, i)
  PROVE  Upto(n, t, x, i) = Upto(m, t, x, i)
BY DEF Upto

\* The room that the producer has seen shrinks with the element.
LEMMA LocalFrontFills ==
  ASSUME NEW m, MemoryOK(m), NEW n, NEW mask, NEW b \in Blocks, NEW e, Indices(m, mask, b),
         Fills(m, n, mask, b, e), T(n, b) = Wrap(T(m, b), mask[b]), Acq(n, P) = Acq(m, P),
         \A i \in 1..Depth(m, front(b)) : Span(Val(m, front(b), i), T(m, b), mask[b]) < mask[b],
         NEW lf, LocalFrontOK(m, mask, b, lf), Span(lf, T(m, b), mask[b]) < mask[b]
  PROVE  LocalFrontOK(n, mask, b, lf)
<1>1. /\ lf \in 0..mask[b]
      /\ \A i \in 1..Depth(m, front(b)) :
           Span(lf, T(m, b), mask[b]) >= Span(Val(m, front(b), i), T(m, b), mask[b])
      /\ \A s \in 0..mask[b] :
           Span(lf, s, mask[b]) >= Span(lf, T(m, b), mask[b]) => By(m, b, s) = P \/ Wri(m, b, s) <= Acq(m, P)
  BY DEF LocalFrontOK
<1>2. mask[b] \in Nat /\ 0..mask[b] \subseteq Slots /\ T(m, b) \in 0..mask[b]
  BY IndexFacts
<1>3. \A v, u \in 0..mask[b] : Span(v, u, mask[b]) \in 0..mask[b]
  BY <1>2, SpanRange
<1>4. ASSUME NEW v \in 0..mask[b], Span(v, T(m, b), mask[b]) < mask[b]
      PROVE  Span(v, T(n, b), mask[b]) = Span(v, T(m, b), mask[b]) + 1
  <2>1. Wrap(T(m, b), mask[b]) = v => Span(v, T(m, b), mask[b]) = mask[b]
    BY <1>2, SpanRange
  <2>2. Wrap(T(m, b), mask[b]) # v
    BY <2>1, <1>2, <1>4
  <2> QED BY <2>2, <1>2, SpanWrap
<1>5. /\ Depth(n, front(b)) = Depth(m, front(b))
      /\ \A i : Val(n, front(b), i) = Val(m, front(b), i)
  BY SameFacts DEF Fills, FillsSlots
<1>6. ASSUME NEW i \in 1..Depth(m, front(b))
      PROVE  Span(lf, T(n, b), mask[b]) >= Span(Val(m, front(b), i), T(n, b), mask[b])
  <2>1. Val(m, front(b), i) \in 0..mask[b]
    BY DEF Indices
  <2>2. Span(Val(m, front(b), i), T(m, b), mask[b]) < mask[b]
    OBVIOUS
  <2>3. Span(Val(m, front(b), i), T(n, b), mask[b]) = Span(Val(m, front(b), i), T(m, b), mask[b]) + 1
    BY <2>1, <2>2, <1>4
  <2>4. Span(lf, T(n, b), mask[b]) = Span(lf, T(m, b), mask[b]) + 1
    BY <1>1, <1>4
  <2>5. Span(lf, T(m, b), mask[b]) \in 0..mask[b] /\ Span(Val(m, front(b), i), T(m, b), mask[b]) \in 0..mask[b]
    BY <2>1, <1>1, <1>2, <1>3
  <2>6. Span(lf, T(m, b), mask[b]) >= Span(Val(m, front(b), i), T(m, b), mask[b])
    BY <1>1
  <2> QED BY <2>3, <2>4, <2>5, <2>6, <1>2
<1>7. ASSUME NEW s \in 0..mask[b], Span(lf, s, mask[b]) >= Span(lf, T(n, b), mask[b])
      PROVE  By(n, b, s) = P \/ Wri(n, b, s) <= Acq(m, P)
  <2>1. Span(lf, s, mask[b]) >= Span(lf, T(m, b), mask[b]) /\ s # T(m, b)
    <3>1. Span(lf, T(n, b), mask[b]) = Span(lf, T(m, b), mask[b]) + 1
      BY <1>1, <1>4
    <3>2. Span(lf, T(m, b), mask[b]) \in 0..mask[b] /\ Span(lf, s, mask[b]) \in 0..mask[b]
      BY <1>1, <1>2, <1>3
    <3>3. Span(lf, s, mask[b]) >= Span(lf, T(m, b), mask[b]) + 1
      BY <3>1, <1>7
    <3> QED BY <3>2, <3>3, <1>2
  <2>2. By(n, b, s) = By(m, b, s) /\ Wri(n, b, s) = Wri(m, b, s)
    BY <2>1, <1>2 DEF Fills, FillsSlots, By, Wri
  <2> QED BY <2>1, <2>2, <1>1
<1> QED BY <1>1, <1>5, <1>6, <1>7 DEF LocalFrontOK

\* The producer adds element snt + 1 to the tail block.
LEMMA QueueFills ==
  ASSUME NEW m, NEW n, NEW mask, NEW alloc, NEW ring, NEW k, NEW start, NEW rec, NEW snt,
         Queue(m, mask, alloc, ring, k, start, rec, snt),
         MemoryOK(n), \A t \in Threads : Acq(n, t) = Acq(m, t),
         n.visible[frontBlock] = m.visible[frontBlock], n.visible[tailBlock] = m.visible[tailBlock],
         NEW b, b = ring[Len(ring)], Fills(m, n, mask, b, snt + 1),
         \A c \in Blocks : c # b => SameBlock(m, n, c),
         \A i \in 1..Depth(m, front(b)) : Span(Val(m, front(b), i), T(m, b), mask[b]) < mask[b]
  PROVE  /\ Queue(n, mask, alloc, ring, k, [start EXCEPT ![Len(ring) + 1] = snt + 2], rec, snt + 1)
         /\ \A pc, c : ConsumerAt(m, mask, ring, k, pc, c) => ConsumerAt(n, mask, ring, k, pc, c)
         /\ \A lt : LocalTailOK(m, mask, ring[k], lt) => LocalTailOK(n, mask, ring[k], lt)
         /\ \A lf : LocalFrontOK(m, mask, b, lf) /\ Span(lf, T(m, b), mask[b]) < mask[b]
                      => LocalFrontOK(n, mask, b, lf)
<1>1. /\ MemoryOK(m) /\ Ring(m, alloc, ring, k) /\ \A c \in 1..alloc : Block(m, mask, c)
      /\ \A c \in alloc+1..HeapBlocks : Fresh(m, c)
      /\ Elements(m, mask, ring, k, start, rec, snt)
      /\ TailBlocks(m, mask, ring, k) /\ FrontBlocks(m, ring, k)
      /\ \A i \in 1..k : Wri(m, ring[i], Members) <= Acq(m, C)
  BY DEF Queue
<1> DEFINE N == Len(ring)
<1>2. /\ alloc \in Nat /\ 1..alloc \subseteq Blocks
      /\ N \in Nat /\ N >= 1 /\ k \in Nat /\ k >= 1 /\ k <= N
      /\ \A i \in 1..N : ring[i] \in 1..alloc /\ ring[i] \in Blocks
      /\ \A i, j \in 1..N : ring[i] = ring[j] => i = j
  <2>1. \A i, j \in 1..N : ring[i] = ring[j] => i = j
    BY <1>1 DEF Ring
  <2>2. /\ alloc \in Nat /\ 1..alloc \subseteq Blocks
        /\ N \in Nat /\ N >= 1 /\ k \in Nat /\ k >= 1 /\ k <= N
        /\ \A i \in 1..N : ring[i] \in 1..alloc /\ ring[i] \in Blocks
    <3> HIDE DEF N
    <3> QED BY <1>1, RingFacts DEF N
  <2> QED BY <2>1, <2>2
<1>3. N \in 1..N /\ b = ring[N] /\ b \in Blocks /\ b \in 1..alloc /\ k \in 1..N
  BY <1>2
<1> HIDE DEF N
<1>4. Block(m, mask, b) /\ Indices(m, mask, b) /\ \A c \in 1..alloc : Indices(m, mask, c)
  BY <1>1, <1>3 DEF Block
<1>5. Own(n, frontBlock) = Own(m, frontBlock) /\ Own(n, tailBlock) = Own(m, tailBlock)
  BY SameFacts
<1>6. /\ Block(n, mask, b)
      /\ F(n, b) = F(m, b) /\ T(n, b) = Wrap(T(m, b), mask[b])
      /\ T(m, b) \in 0..mask[b]
      /\ Span(F(n, b), T(n, b), mask[b]) = Span(F(m, b), T(m, b), mask[b]) + 1
      /\ F(n, b) # T(n, b)
      /\ \A s \in 0..mask[b] :
              Span(F(n, b), s, mask[b]) < Span(F(n, b), T(n, b), mask[b])
                <=> (s = T(m, b) \/ Span(F(m, b), s, mask[b]) < Span(F(m, b), T(m, b), mask[b]))
  BY <1>1, <1>3, <1>4, <1>5, BlockFills DEF Fills
<1>7. \A c \in 1..alloc : Block(n, mask, c)
  <2> SUFFICES ASSUME NEW c \in 1..alloc, c # b PROVE Block(n, mask, c)
    BY <1>6
  <2>1. c \in Blocks /\ SameSlots(m, n, c)
    BY <1>2 DEF SameBlock
  <2> QED BY <2>1, <1>1, <1>5, BlockSame
<1>8. \A i \in 1..N : i # N => ring[i] # b /\ SameBlock(m, n, ring[i])
  BY <1>2, <1>3
<1>9. \A i \in 1..N : Own(n, next(ring[i])) = Own(m, next(ring[i])) /\ Last(n, next(ring[i])) = Last(m, next(ring[i]))
  <2>1. Own(n, next(b)) = Own(m, next(b)) /\ Last(n, next(b)) = Last(m, next(b))
    BY SameFacts DEF Fills, FillsSlots
  <2> QED BY <2>1, <1>3, <1>8, SameBlockFacts
<1>10. Ring(n, alloc, ring, k)
  BY <1>1, <1>5, <1>9 DEF Ring, N
<1>11. \A c \in alloc+1..HeapBlocks : Fresh(n, c)
  <2> SUFFICES ASSUME NEW c \in alloc+1..HeapBlocks PROVE Fresh(n, c)
    OBVIOUS
  <2>1. c \in Blocks /\ c # b
    BY <1>2, <1>3, SizesPositive DEF Blocks
  <2>2. SameBlock(m, n, c) /\ Fresh(m, c)
    BY <2>1, <1>1
  <2> QED BY <2>2, SameBlockFacts DEF Fresh
<1> DEFINE start2 == [start EXCEPT ![N + 1] = snt + 2]
<1>12. Elements(n, mask, ring, k, start2, rec, snt + 1)
  <2>1. /\ rec \in Nat /\ snt \in Nat /\ start \in [1..N+1 -> Nat]
        /\ \A i, j \in 1..N+1 : i <= j => start[i] <= start[j]
        /\ \A i \in 1..k : start[i] = rec + 1
        /\ start[N + 1] = snt + 1
        /\ \A i \in 1..N :
             /\ start[i + 1] = start[i] + Span(F(m, ring[i]), T(m, ring[i]), mask[ring[i]])
             /\ i > k => F(m, ring[i]) # T(m, ring[i])
             /\ \A s \in 0..mask[ring[i]] :
                  Span(F(m, ring[i]), s, mask[ring[i]]) < Span(F(m, ring[i]), T(m, ring[i]), mask[ring[i]])
                    => El(m, ring[i], s) = start[i] + Span(F(m, ring[i]), s, mask[ring[i]])
    BY <1>1 DEF Elements, N
  <2>2. start2 \in [1..N+1 -> Nat] /\ start2[N+1] = snt + 2 /\ \A i \in 1..N : start2[i] = start[i]
    BY <2>1, <1>2
  <2>3. \A i, j \in 1..N+1 : i <= j => start2[i] <= start2[j]
    <3> SUFFICES ASSUME NEW i \in 1..N+1, NEW j \in 1..N+1, i <= j PROVE start2[i] <= start2[j]
      OBVIOUS
    <3>1. CASE j = N + 1
      <4>1. start[i] <= snt + 1 /\ start[i] \in Nat
        BY <2>1, <1>2, <3>1
      <4>2. i = N + 1 \/ i \in 1..N
        BY <1>2
      <4> QED BY <4>1, <4>2, <3>1, <2>1, <2>2
    <3>2. CASE j # N + 1
      <4>1. i \in 1..N /\ j \in 1..N
        BY <3>2, <1>2
      <4> QED BY <4>1, <2>1, <2>2
    <3> QED BY <3>1, <3>2
  <2>4. \A i \in 1..k : start2[i] = rec + 1
    BY <2>1, <2>2, <1>2
  <2>5. ASSUME NEW i \in 1..N, i # N
        PROVE  /\ start2[i + 1] = start2[i] + Span(F(n, ring[i]), T(n, ring[i]), mask[ring[i]])
               /\ i > k => F(n, ring[i]) # T(n, ring[i])
               /\ \A s \in 0..mask[ring[i]] :
                  Span(F(n, ring[i]), s, mask[ring[i]]) < Span(F(n, ring[i]), T(n, ring[i]), mask[ring[i]])
                    => El(n, ring[i], s) = start2[i] + Span(F(n, ring[i]), s, mask[ring[i]])
    <3>1. i + 1 \in 1..N /\ start2[i + 1] = start[i + 1] /\ start2[i] = start[i]
      BY <2>5, <1>2, <2>2
    <3>2. F(n, ring[i]) = F(m, ring[i]) /\ T(n, ring[i]) = T(m, ring[i])
      BY <2>5, <1>8, SameBlockFacts
    <3>3. \A s \in 0..mask[ring[i]] : El(n, ring[i], s) = El(m, ring[i], s)
      <4>1. 0..mask[ring[i]] \subseteq Slots
        BY <1>1, <1>2, <1>4, IndexFacts
      <4> QED BY <4>1, <2>5, <1>8, SameBlockFacts
    <3> QED BY <3>1, <3>2, <3>3, <2>1
  <2>6. /\ start2[N + 1] = start2[N] + Span(F(n, b), T(n, b), mask[b])
        /\ F(n, b) # T(n, b)
    <3>1. start[N + 1] = start[N] + Span(F(m, b), T(m, b), mask[b]) /\ start[N] \in Nat
      BY <2>1, <1>2, <1>3
    <3>2. Span(F(m, b), T(m, b), mask[b]) \in Nat
      <4>1. mask[b] \in Nat /\ F(m, b) \in 0..mask[b] /\ T(m, b) \in 0..mask[b]
        BY <1>1, <1>3, <1>4, IndexFacts
      <4> QED BY <4>1, SpanRange
    <3>3. start2[N] = start[N] /\ start2[N + 1] = snt + 2 /\ start[N + 1] = snt + 1 /\ snt \in Nat
      BY <1>3, <2>1, <2>2
    <3>4. Span(F(n, b), T(n, b), mask[b]) = Span(F(m, b), T(m, b), mask[b]) + 1 /\ F(n, b) # T(n, b)
      BY <1>6
    <3> HIDE DEF start2
    <3> QED BY <3>1, <3>2, <3>3, <3>4
  <2>7. ASSUME NEW s \in 0..mask[b], Span(F(n, b), s, mask[b]) < Span(F(n, b), T(n, b), mask[b])
        PROVE  El(n, b, s) = start2[N] + Span(F(n, b), s, mask[b])
    <3>1. s = T(m, b) \/ (s # T(m, b) /\ Span(F(m, b), s, mask[b]) < Span(F(m, b), T(m, b), mask[b]))
      BY <2>7, <1>6
    <3>2. CASE s = T(m, b)
      <4>1. El(n, b, s) = snt + 1
        BY <3>2 DEF Fills, FillsSlots
      <4>2. start[N + 1] = start[N] + Span(F(m, b), s, mask[b]) /\ start[N + 1] = snt + 1
        BY <3>2, <2>1, <1>3
      <4> QED BY <4>1, <4>2, <1>3, <1>6, <2>2
    <3>3. CASE s # T(m, b) /\ Span(F(m, b), s, mask[b]) < Span(F(m, b), T(m, b), mask[b])
      <4>1. s \in Slots
        BY <1>1, <1>3, <1>4, IndexFacts
      <4>2. El(n, b, s) = El(m, b, s)
        BY <4>1, <3>3 DEF Fills, FillsSlots, El
      <4> QED BY <4>2, <3>3, <2>1, <2>2, <1>3, <1>6, SMTT(30)
    <3> QED BY <3>1, <3>2, <3>3
  <2>8. ASSUME NEW i \in 1..N
        PROVE  /\ start2[i + 1] = start2[i] + Span(F(n, ring[i]), T(n, ring[i]), mask[ring[i]])
               /\ i > k => F(n, ring[i]) # T(n, ring[i])
               /\ \A s \in 0..mask[ring[i]] :
                  Span(F(n, ring[i]), s, mask[ring[i]]) < Span(F(n, ring[i]), T(n, ring[i]), mask[ring[i]])
                    => El(n, ring[i], s) = start2[i] + Span(F(n, ring[i]), s, mask[ring[i]])
    <3>1. CASE i = N
      BY <3>1, <2>6, <2>7, <1>3
    <3>2. CASE i # N
      BY <3>2, <2>5
    <3> QED BY <3>1, <3>2
  <2>9. snt + 1 \in Nat /\ start2[N + 1] = (snt + 1) + 1
    BY <2>1, <2>2
  <2> HIDE DEF start2
  <2> QED BY <2>1, <2>2, <2>3, <2>4, <2>8, <2>9 DEF Elements, N
<1>13. \A i \in 1..N : i < N => \A v : Closed(m, ring[i], v) => Closed(n, ring[i], v)
  <2> SUFFICES ASSUME NEW i \in 1..N, i < N, NEW v, Closed(m, ring[i], v) PROVE Closed(n, ring[i], v)
    OBVIOUS
  <2>1. i # N
    BY <1>2
  <2> QED BY <2>1, <1>8, ClosedSame
<1>14. Wrap(T(m, b), mask[b]) # F(m, b)
  BY <1>6
<1>15. \A i \in 1..N : \A v \in Nat : v <= m.writes[P] /\ Entered(m, mask, ring[i], v) => Entered(n, mask, ring[i], v)
  <2> SUFFICES ASSUME NEW i \in 1..N, NEW v \in Nat, v <= m.writes[P], Entered(m, mask, ring[i], v)
               PROVE  Entered(n, mask, ring[i], v)
    OBVIOUS
  <2>1. ring[i] \in Blocks /\ Indices(m, mask, ring[i])
    BY <1>2, <1>4
  <2>2. CASE i = N
    BY <2>1, <2>2, <1>1, <1>3, <1>14, EnteredFills
  <2>3. CASE i # N
    BY <2>1, <2>3, <1>1, <1>8, EnteredSame DEF SameBlock
  <2> QED BY <2>2, <2>3
<1>16. /\ Depth(n, tailBlock) = Depth(m, tailBlock)
       /\ \A i : Val(n, tailBlock, i) = Val(m, tailBlock, i) /\ Rel(n, tailBlock, i) = Rel(m, tailBlock, i)
       /\ Depth(n, frontBlock) = Depth(m, frontBlock)
       /\ \A i : Val(n, frontBlock, i) = Val(m, frontBlock, i) /\ Rel(n, frontBlock, i) = Rel(m, frontBlock, i)
       /\ Acq(n, C) = Acq(m, C) /\ Acq(n, P) = Acq(m, P)
  <2>1. Acq(n, C) = Acq(m, C) /\ Acq(n, P) = Acq(m, P)
    BY ThreadFacts
  <2>2. /\ Depth(n, tailBlock) = Depth(m, tailBlock)
        /\ \A i : Val(n, tailBlock, i) = Val(m, tailBlock, i) /\ Rel(n, tailBlock, i) = Rel(m, tailBlock, i)
    BY DEF Depth, Val, Rel
  <2>3. /\ Depth(n, frontBlock) = Depth(m, frontBlock)
        /\ \A i : Val(n, frontBlock, i) = Val(m, frontBlock, i) /\ Rel(n, frontBlock, i) = Rel(m, frontBlock, i)
    BY DEF Depth, Val, Rel
  <2> QED BY <2>1, <2>2, <2>3
<1>17. /\ \A i : Upto(n, C, tailBlock, i) = Upto(m, C, tailBlock, i)
       /\ \A i : Upto(n, P, frontBlock, i) = Upto(m, P, frontBlock, i)
  BY <1>16, UptoSame
<1>18. TailBlocks(n, mask, ring, k)
  <2>1. ASSUME NEW i \in 1..Depth(m, tailBlock)
        PROVE  \E q \in k..N :
                 /\ Val(m, tailBlock, i) = ring[q]
                 /\ \A j \in k..q-1 : Closed(n, ring[j], Upto(m, C, tailBlock, i))
                 /\ \A j \in k+1..q : Entered(n, mask, ring[j], Upto(m, C, tailBlock, i))
    <3>1. PICK q \in k..N :
                 /\ Val(m, tailBlock, i) = ring[q]
                 /\ \A j \in k..q-1 : Closed(m, ring[j], Upto(m, C, tailBlock, i))
                 /\ \A j \in k+1..q : Entered(m, mask, ring[j], Upto(m, C, tailBlock, i))
      BY <1>1 DEF TailBlocks, N
    <3> DEFINE v == Upto(m, C, tailBlock, i)
    <3>2. v \in Nat /\ v <= m.writes[P]
      <4>1. WriterOf(tailBlock) = Other(C)
        BY AtomicFacts, ThreadFacts
      <4> QED BY <4>1, <1>1, UptoBound, AtomicFacts, ThreadFacts
    <3> HIDE DEF v
    <3>3. ASSUME NEW j \in k..q-1 PROVE Closed(n, ring[j], v)
      <4>1. j \in 1..N /\ j < N
        BY <1>2
      <4> QED BY <4>1, <3>1, <1>13 DEF v
    <3>4. ASSUME NEW j \in k+1..q PROVE Entered(n, mask, ring[j], v)
      <4>1. j \in 1..N
        BY <1>2
      <4> QED BY <4>1, <3>1, <3>2, <1>15 DEF v
    <3> QED BY <3>1, <3>3, <3>4 DEF v
  <2> QED BY <2>1, <1>1, <1>16, <1>17 DEF TailBlocks, N
<1>19. FrontBlocks(n, ring, k)
  <2>1. n.visible[front(b)] = m.visible[front(b)]
    BY DEF Fills, FillsSlots
  <2>2. \A j \in 1..N : Last(n, front(ring[j])) = Last(m, front(ring[j]))
    BY <2>1, <1>3, <1>8, SameFacts, SameBlockFacts
  <2>3. ASSUME NEW i \in 1..Depth(m, frontBlock)
        PROVE  \E q \in 1..k : /\ Val(m, frontBlock, i) = ring[q]
                               /\ \A j \in 1..q-1 : Last(n, front(ring[j])) <= Upto(m, P, frontBlock, i)
    <3>1. PICK q \in 1..k : /\ Val(m, frontBlock, i) = ring[q]
                            /\ \A j \in 1..q-1 : Last(m, front(ring[j])) <= Upto(m, P, frontBlock, i)
      BY <1>1 DEF FrontBlocks
    <3>2. \A j \in 1..q-1 : j \in 1..N
      BY <1>2
    <3> QED BY <3>1, <3>2, <2>2
  <2> QED BY <2>3, <1>1, <1>16, <1>17 DEF FrontBlocks
<1>20. \A c \in Blocks : Wri(n, c, Members) = Wri(m, c, Members)
  <2>1. Wri(n, b, Members) = Wri(m, b, Members)
    <3>1. T(m, b) \in Slots
      BY <1>1, <1>3, <1>4, IndexFacts
    <3> QED BY <3>1, AtomicFacts DEF Fills, FillsSlots, Wri
  <2> QED BY <2>1, SameBlockFacts
<1>21. Queue(n, mask, alloc, ring, k, start2, rec, snt + 1)
  <2>1. \A i \in 1..k : ring[i] \in Blocks
    BY <1>2
  <2> QED BY <2>1, <1>1, <1>7, <1>10, <1>11, <1>12, <1>16, <1>18, <1>19, <1>20 DEF Queue
<1>22. ASSUME NEW pc, NEW c, ConsumerAt(m, mask, ring, k, pc, c) PROVE ConsumerAt(n, mask, ring, k, pc, c)
  <2>1. ASSUME k < N, Closed(m, ring[k], Acq(m, C)), Entered(m, mask, ring[k + 1], Acq(m, C))
        PROVE  Closed(n, ring[k], Acq(m, C)) /\ Entered(n, mask, ring[k + 1], Acq(m, C))
    <3>1. Acq(m, C) \in Nat /\ Acq(m, C) <= m.writes[P]
      BY <1>1, MemoryFacts, ThreadFacts
    <3>2. k + 1 \in 1..N
      BY <2>1, <1>2
    <3> QED BY <2>1, <3>1, <3>2, <1>3, <1>13, <1>15
  <2>2. ASSUME k < N PROVE F(n, ring[k]) = F(m, ring[k]) /\ T(n, ring[k]) = T(m, ring[k])
    <3>1. k # N
      BY <2>2, <1>2
    <3> QED BY <3>1, <1>3, <1>8, SameBlockFacts
  <2> QED BY <2>1, <2>2, <1>22, <1>16 DEF ConsumerAt, N
<1>23. ASSUME NEW lt, LocalTailOK(m, mask, ring[k], lt) PROVE LocalTailOK(n, mask, ring[k], lt)
  <2>1. CASE k # N
    <3>1. SameBlock(m, n, ring[k])
      BY <2>1, <1>3, <1>8
    <3>2. 0..mask[ring[k]] \subseteq Slots
      BY <1>1, <1>2, <1>3, <1>4, IndexFacts
    <3>3. \A s \in 0..mask[ring[k]] : Wri(n, ring[k], s) = Wri(m, ring[k], s)
      BY <3>1, <3>2, SameBlockFacts
    <3>4. /\ F(n, ring[k]) = F(m, ring[k]) /\ Depth(n, tail(ring[k])) = Depth(m, tail(ring[k]))
          /\ \A i : Val(n, tail(ring[k]), i) = Val(m, tail(ring[k]), i)
      BY <3>1, SameBlockFacts
    <3> QED BY <3>3, <3>4, <1>16, <1>23 DEF LocalTailOK
  <2>2. CASE k = N
    <3>1. ring[k] = b
      BY <2>2, <1>3
    <3>2. /\ mask[b] \in Nat /\ 0..mask[b] \subseteq Slots /\ F(m, b) \in 0..mask[b]
          /\ T(m, b) = Val(m, tail(b), Depth(m, tail(b)))
      BY <1>1, <1>3, <1>4, IndexFacts
    <3>3. /\ lt \in 0..mask[b]
          /\ \A i \in 1..Depth(m, tail(b)) :
               Span(F(m, b), lt, mask[b]) <= Span(F(m, b), Val(m, tail(b), i), mask[b])
          /\ \A s \in 0..mask[b] :
               Span(F(m, b), s, mask[b]) < Span(F(m, b), lt, mask[b]) => Wri(m, b, s) <= Acq(m, C)
      BY <3>1, <1>23 DEF LocalTailOK
    <3>4. Depth(m, tail(b)) \in Nat /\ Depth(m, tail(b)) \in 1..Depth(m, tail(b))
      <4>1. tail(b) \in Atomics
        BY <1>3, AtomicFacts
      <4>2. Depth(m, tail(b)) \in Nat /\ Depth(m, tail(b)) >= 1
        BY <4>1, <1>1, MemoryFacts
      <4> QED BY <4>2
    <3>5. Span(F(m, b), lt, mask[b]) <= Span(F(m, b), T(m, b), mask[b])
      BY <3>2, <3>3, <3>4
    <3>6. \A u \in 0..mask[b] : Span(F(m, b), u, mask[b]) \in 0..mask[b]
      BY <3>2, SpanRange
    <3>7. PICK st, r : Appends(m, n, tail(b), Wrap(T(m, b), mask[b]), st, r)
      BY DEF Fills, FillsSlots
    <3>8. ASSUME NEW i \in 1..Depth(n, tail(b))
          PROVE  Span(F(m, b), lt, mask[b]) <= Span(F(m, b), Val(n, tail(b), i), mask[b])
      <4>1. CASE i \in 1..Depth(m, tail(b))
        BY <4>1, <3>3, <3>4, <3>7, AppendFacts
      <4>2. CASE i = Depth(n, tail(b))
        <5>1. Val(n, tail(b), i) = T(n, b)
          BY <4>2, <3>4, <3>7, <1>6, AppendFacts
        <5> QED BY <5>1, <3>2, <3>3, <3>5, <3>6, <1>6
      <4> QED BY <4>1, <4>2, <3>4, <3>7, AppendFacts
    <3>9. ASSUME NEW s \in 0..mask[b], Span(F(m, b), s, mask[b]) < Span(F(m, b), lt, mask[b])
          PROVE  Wri(n, b, s) <= Acq(m, C)
      <4>1. s # T(m, b)
        BY <3>9, <3>2, <3>3, <3>5, <3>6
      <4>2. Wri(n, b, s) = Wri(m, b, s)
        BY <4>1, <3>2 DEF Fills, FillsSlots, Wri
      <4> QED BY <4>2, <3>3, <3>9
    <3> QED BY <3>1, <3>3, <3>8, <3>9, <1>6, <1>16 DEF LocalTailOK
  <2> QED BY <2>1, <2>2
<1>24. ASSUME NEW lf, LocalFrontOK(m, mask, b, lf), Span(lf, T(m, b), mask[b]) < mask[b]
       PROVE  LocalFrontOK(n, mask, b, lf)
  BY <1>1, <1>3, <1>4, <1>6, <1>16, <1>24, LocalFrontFills
<1> QED BY <1>21, <1>22, <1>23, <1>24 DEF N

\* The parts of Queue, and the ranges of its indices
LEMMA QueueParts ==
  ASSUME NEW m, NEW mask, NEW alloc, NEW ring, NEW k, NEW start, NEW rec, NEW snt,
         Queue(m, mask, alloc, ring, k, start, rec, snt)
  PROVE  /\ MemoryOK(m) /\ Ring(m, alloc, ring, k) /\ \A c \in 1..alloc : Block(m, mask, c)
         /\ \A c \in alloc+1..HeapBlocks : Fresh(m, c)
         /\ Elements(m, mask, ring, k, start, rec, snt)
         /\ TailBlocks(m, mask, ring, k) /\ FrontBlocks(m, ring, k)
         /\ \A i \in 1..k : Wri(m, ring[i], Members) <= Acq(m, C)
         /\ alloc \in Nat /\ alloc <= HeapBlocks /\ 1..alloc \subseteq Blocks
         /\ Len(ring) \in Nat /\ Len(ring) >= 1 /\ k \in Nat /\ k >= 1 /\ k <= Len(ring)
         /\ Len(ring) \in 1..Len(ring) /\ k \in 1..Len(ring) /\ 1 \in 1..Len(ring)
         /\ \A i \in 1..Len(ring) : /\ ring[i] \in 1..alloc /\ ring[i] \in Blocks
                                    /\ Block(m, mask, ring[i]) /\ Indices(m, mask, ring[i])
         /\ \A i, j \in 1..Len(ring) : ring[i] = ring[j] => i = j
         /\ Own(m, tailBlock) = ring[Len(ring)] /\ Own(m, frontBlock) = ring[k]
         /\ \A c \in 1..alloc : Indices(m, mask, c)
<1>1. /\ MemoryOK(m) /\ Ring(m, alloc, ring, k) /\ \A c \in 1..alloc : Block(m, mask, c)
      /\ \A c \in alloc+1..HeapBlocks : Fresh(m, c)
      /\ Elements(m, mask, ring, k, start, rec, snt)
      /\ TailBlocks(m, mask, ring, k) /\ FrontBlocks(m, ring, k)
      /\ \A i \in 1..k : Wri(m, ring[i], Members) <= Acq(m, C)
  BY DEF Queue
<1>2. /\ alloc \in Nat /\ 1..alloc \subseteq Blocks
      /\ Len(ring) \in Nat /\ Len(ring) >= 1 /\ k \in Nat /\ k >= 1 /\ k <= Len(ring)
      /\ \A i \in 1..Len(ring) : ring[i] \in 1..alloc /\ ring[i] \in Blocks
  BY <1>1, RingFacts
<1>3. /\ alloc <= HeapBlocks
      /\ \A i, j \in 1..Len(ring) : ring[i] = ring[j] => i = j
      /\ Own(m, tailBlock) = ring[Len(ring)] /\ Own(m, frontBlock) = ring[k]
  BY <1>1 DEF Ring
<1>4. Len(ring) \in 1..Len(ring) /\ k \in 1..Len(ring) /\ 1 \in 1..Len(ring)
  BY <1>2
<1>5. \A c \in 1..alloc : Block(m, mask, c) /\ Indices(m, mask, c)
  BY <1>1 DEF Block
<1> QED BY <1>1, <1>2, <1>3, <1>4, <1>5

\* The tail seen of a block not stored to
LEMMA LocalTailSame ==
  ASSUME NEW m, MemoryOK(m), NEW n, NEW b \in Blocks, SameSlots(m, n, b), Acq(n, C) = Acq(m, C),
         NEW mask, NEW mask2, mask2[b] = mask[b], Indices(m, mask, b),
         NEW lt, LocalTailOK(m, mask, b, lt)
  PROVE  LocalTailOK(n, mask2, b, lt)
<1>1. 0..mask[b] \subseteq Slots
  BY IndexFacts
<1>2. \A s \in 0..mask[b] : Wri(n, b, s) = Wri(m, b, s)
  BY <1>1, SameSlotsFacts
<1>3. /\ F(n, b) = F(m, b) /\ Depth(n, tail(b)) = Depth(m, tail(b))
      /\ \A i : Val(n, tail(b), i) = Val(m, tail(b), i)
  BY SameSlotsFacts
<1> QED BY <1>2, <1>3 DEF LocalTailOK

\* The front seen of a block not stored to
LEMMA LocalFrontSame ==
  ASSUME NEW m, MemoryOK(m), NEW n, NEW b \in Blocks, SameSlots(m, n, b), Acq(n, P) = Acq(m, P),
         NEW mask, NEW mask2, mask2[b] = mask[b], Indices(m, mask, b),
         NEW lf, LocalFrontOK(m, mask, b, lf)
  PROVE  LocalFrontOK(n, mask2, b, lf)
<1>1. 0..mask[b] \subseteq Slots
  BY IndexFacts
<1>2. \A s \in 0..mask[b] : By(n, b, s) = By(m, b, s) /\ Wri(n, b, s) = Wri(m, b, s)
  BY <1>1, SameSlotsFacts
<1>3. /\ T(n, b) = T(m, b) /\ Depth(n, front(b)) = Depth(m, front(b))
      /\ \A i : Val(n, front(b), i) = Val(m, front(b), i)
  BY SameSlotsFacts
<1> QED BY <1>2, <1>3 DEF LocalFrontOK

\* The front that the producer has seen is still behind the front.
LEMMA LocalFrontTakes ==
  ASSUME NEW m, MemoryOK(m), NEW n, NEW mask, NEW b \in Blocks, Indices(m, mask, b),
         Takes(m, n, mask, b), T(n, b) = T(m, b), Acq(n, P) = Acq(m, P),
         Span(Wrap(F(m, b), mask[b]), T(m, b), mask[b]) = Span(F(m, b), T(m, b), mask[b]) - 1,
         Span(F(m, b), T(m, b), mask[b]) \in 1..mask[b],
         NEW lf, LocalFrontOK(m, mask, b, lf)
  PROVE  LocalFrontOK(n, mask, b, lf)
<1>1. /\ lf \in 0..mask[b]
      /\ \A i \in 1..Depth(m, front(b)) :
           Span(lf, T(m, b), mask[b]) >= Span(Val(m, front(b), i), T(m, b), mask[b])
      /\ \A s \in 0..mask[b] :
           Span(lf, s, mask[b]) >= Span(lf, T(m, b), mask[b]) => By(m, b, s) = P \/ Wri(m, b, s) <= Acq(m, P)
  BY DEF LocalFrontOK
<1>2. /\ mask[b] \in Nat /\ 0..mask[b] \subseteq Slots /\ T(m, b) \in 0..mask[b] /\ F(m, b) \in 0..mask[b]
      /\ F(m, b) = Val(m, front(b), Depth(m, front(b)))
  BY IndexFacts
<1>3. \A v, u \in 0..mask[b] : Span(v, u, mask[b]) \in 0..mask[b]
  BY <1>2, SpanRange
<1>4. Depth(m, front(b)) \in Nat /\ Depth(m, front(b)) \in 1..Depth(m, front(b))
  <2>1. front(b) \in Atomics
    BY AtomicFacts
  <2>2. Depth(m, front(b)) \in Nat /\ Depth(m, front(b)) >= 1
    BY <2>1, MemoryFacts
  <2> QED BY <2>2
<1>5. Span(lf, T(m, b), mask[b]) >= Span(F(m, b), T(m, b), mask[b])
  BY <1>1, <1>2, <1>4
<1>6. Span(lf, F(m, b), mask[b]) = Span(lf, T(m, b), mask[b]) - Span(F(m, b), T(m, b), mask[b])
  <2>1. Span(F(m, b), T(m, b), mask[b]) <= Span(lf, T(m, b), mask[b])
    BY <1>5, <1>3, <1>1, <1>2
  <2> QED BY <2>1, <1>1, <1>2, SpanSplit
<1>7. PICK st, r : Appends(m, n, front(b), Wrap(F(m, b), mask[b]), st, r)
  BY DEF Takes
<1>8. /\ Val(n, front(b), Depth(n, front(b))) = Wrap(F(m, b), mask[b])
      /\ \A i \in 1..Depth(m, front(b)) : Val(n, front(b), i) = Val(m, front(b), i)
      /\ \A i \in 1..Depth(n, front(b)) : i \in 1..Depth(m, front(b)) \/ i = Depth(n, front(b))
  BY <1>4, <1>7, AppendFacts
<1>9. ASSUME NEW i \in 1..Depth(n, front(b))
      PROVE  Span(lf, T(m, b), mask[b]) >= Span(Val(n, front(b), i), T(m, b), mask[b])
  <2>1. CASE i \in 1..Depth(m, front(b))
    BY <2>1, <1>1, <1>8
  <2>2. CASE i = Depth(n, front(b))
    <3>1. Span(lf, T(m, b), mask[b]) \in 0..mask[b] /\ Span(F(m, b), T(m, b), mask[b]) \in 0..mask[b]
      BY <1>1, <1>2, <1>3
    <3>2. Span(Val(n, front(b), i), T(m, b), mask[b]) = Span(F(m, b), T(m, b), mask[b]) - 1
      BY <2>2, <1>8
    <3> QED BY <3>1, <3>2, <1>2, <1>5
  <2> QED BY <2>1, <2>2, <1>8
<1>10. ASSUME NEW s \in 0..mask[b], Span(lf, s, mask[b]) >= Span(lf, T(m, b), mask[b])
       PROVE  By(n, b, s) = P \/ Wri(n, b, s) <= Acq(m, P)
  <2>1. s # F(m, b)
    <3>1. Span(lf, T(m, b), mask[b]) \in 0..mask[b] /\ Span(lf, s, mask[b]) \in 0..mask[b]
      BY <1>1, <1>2, <1>3
    <3>2. Span(lf, F(m, b), mask[b]) < Span(lf, T(m, b), mask[b])
      BY <3>1, <1>2, <1>6
    <3> QED BY <3>1, <3>2, <1>2, <1>10
  <2>2. By(n, b, s) = By(m, b, s) /\ Wri(n, b, s) = Wri(m, b, s)
    BY <2>1, <1>2 DEF Takes, By, Wri
  <2> QED BY <2>2, <1>1, <1>10
<1> QED BY <1>1, <1>9, <1>10 DEF LocalFrontOK

\* The tail that the consumer has seen is still ahead of the front.
LEMMA LocalTailTakes ==
  ASSUME NEW m, MemoryOK(m), NEW n, NEW mask, NEW b \in Blocks, Indices(m, mask, b),
         Takes(m, n, mask, b), F(n, b) = Wrap(F(m, b), mask[b]), Acq(n, C) = Acq(m, C),
         NEW lt, LocalTailOK(m, mask, b, lt), lt # F(m, b)
  PROVE  LocalTailOK(n, mask, b, lt)
<1>1. /\ lt \in 0..mask[b]
      /\ \A i \in 1..Depth(m, tail(b)) :
           Span(F(m, b), lt, mask[b]) <= Span(F(m, b), Val(m, tail(b), i), mask[b])
      /\ \A s \in 0..mask[b] :
           Span(F(m, b), s, mask[b]) < Span(F(m, b), lt, mask[b]) => Wri(m, b, s) <= Acq(m, C)
  BY DEF LocalTailOK
<1>2. mask[b] \in Nat /\ 0..mask[b] \subseteq Slots /\ F(m, b) \in 0..mask[b]
  BY IndexFacts
<1>3. \A v, u \in 0..mask[b] : Span(v, u, mask[b]) \in 0..mask[b]
  BY <1>2, SpanRange
<1>4. \A s \in 0..mask[b] : s # F(m, b) => Span(F(n, b), s, mask[b]) = Span(F(m, b), s, mask[b]) - 1
  BY <1>2, SpanBehind
<1>5. Span(F(m, b), lt, mask[b]) > 0 /\ Span(F(m, b), lt, mask[b]) \in 0..mask[b]
  BY <1>1, <1>2, SpanRange
<1>6. /\ Depth(n, tail(b)) = Depth(m, tail(b))
      /\ \A i : Val(n, tail(b), i) = Val(m, tail(b), i)
  BY DEF Takes, Depth, Val
<1>7. ASSUME NEW i \in 1..Depth(m, tail(b))
      PROVE  Span(F(n, b), lt, mask[b]) <= Span(F(n, b), Val(m, tail(b), i), mask[b])
  <2>1. Val(m, tail(b), i) \in 0..mask[b]
    BY DEF Indices
  <2>2. Span(F(m, b), lt, mask[b]) <= Span(F(m, b), Val(m, tail(b), i), mask[b])
    BY <1>1
  <2>3. Span(F(m, b), Val(m, tail(b), i), mask[b]) \in 0..mask[b]
    BY <2>1, <1>2, <1>3
  <2>4. Val(m, tail(b), i) # F(m, b)
    <3>1. Span(F(m, b), F(m, b), mask[b]) = 0
      BY <1>2, SpanBehind
    <3> QED BY <3>1, <2>2, <2>3, <1>5
  <2>5. /\ Span(F(n, b), lt, mask[b]) = Span(F(m, b), lt, mask[b]) - 1
        /\ Span(F(n, b), Val(m, tail(b), i), mask[b]) = Span(F(m, b), Val(m, tail(b), i), mask[b]) - 1
    BY <2>1, <2>4, <1>1, <1>4
  <2> QED BY <2>2, <2>3, <2>5, <1>5
<1>8. ASSUME NEW s \in 0..mask[b], Span(F(n, b), s, mask[b]) < Span(F(n, b), lt, mask[b])
      PROVE  Wri(n, b, s) <= Acq(m, C)
  <2>1. Span(F(n, b), lt, mask[b]) = Span(F(m, b), lt, mask[b]) - 1
    BY <1>1, <1>4
  <2>2. s # F(m, b)
    <3>1. Span(F(n, b), F(m, b), mask[b]) = mask[b]
      BY <1>2, SpanBehind
    <3> QED BY <3>1, <2>1, <1>2, <1>5, <1>8
  <2>3. Span(F(n, b), s, mask[b]) = Span(F(m, b), s, mask[b]) - 1 /\ Span(F(m, b), s, mask[b]) \in 0..mask[b]
    BY <2>2, <1>2, <1>3, <1>4
  <2>4. Span(F(m, b), s, mask[b]) < Span(F(m, b), lt, mask[b])
    BY <2>1, <2>3, <1>5, <1>8
  <2>5. Wri(n, b, s) = Wri(m, b, s)
    BY <2>2, <1>2 DEF Takes, Wri
  <2> QED BY <2>4, <2>5, <1>1
<1> QED BY <1>1, <1>6, <1>7, <1>8 DEF LocalTailOK

\* The consumer takes element rec + 1 from the front block.
LEMMA QueueTakes ==
  ASSUME NEW m, NEW n, NEW mask, NEW alloc, NEW ring, NEW k, NEW start, NEW rec, NEW snt,
         Queue(m, mask, alloc, ring, k, start, rec, snt),
         MemoryOK(n), \A t \in Threads : Acq(n, t) = Acq(m, t),
         n.visible[frontBlock] = m.visible[frontBlock], n.visible[tailBlock] = m.visible[tailBlock],
         NEW b, b = ring[k], Takes(m, n, mask, b),
         \A c \in Blocks : c # b => SameBlock(m, n, c),
         NEW lt, LocalTailOK(m, mask, b, lt), lt # F(m, b),
         NEW lf, LocalFrontOK(m, mask, ring[Len(ring)], lf)
  PROVE  /\ \E start2 : Queue(n, mask, alloc, ring, k, start2, rec + 1, snt)
         /\ LocalTailOK(n, mask, b, lt)
         /\ LocalFrontOK(n, mask, ring[Len(ring)], lf)
         /\ \A pc : ProducerAt(m, ring, k, pc) => ProducerAt(n, ring, k, pc)
         /\ rec < snt
<1> DEFINE N == Len(ring)
<1>1. /\ MemoryOK(m) /\ Ring(m, alloc, ring, k) /\ \A c \in 1..alloc : Block(m, mask, c)
      /\ \A c \in alloc+1..HeapBlocks : Fresh(m, c)
      /\ Elements(m, mask, ring, k, start, rec, snt)
      /\ TailBlocks(m, mask, ring, k) /\ FrontBlocks(m, ring, k)
      /\ \A i \in 1..k : Wri(m, ring[i], Members) <= Acq(m, C)
  BY QueueParts
<1>2. /\ alloc \in Nat /\ alloc <= HeapBlocks /\ 1..alloc \subseteq Blocks
      /\ N \in Nat /\ N >= 1 /\ k \in Nat /\ k >= 1 /\ k <= N
      /\ N \in 1..N /\ k \in 1..N
      /\ \A i \in 1..N : /\ ring[i] \in 1..alloc /\ ring[i] \in Blocks
                         /\ Block(m, mask, ring[i]) /\ Indices(m, mask, ring[i])
      /\ \A i, j \in 1..N : ring[i] = ring[j] => i = j
  BY QueueParts
<1> HIDE DEF N
<1>3. b \in Blocks /\ b \in 1..alloc /\ Block(m, mask, b) /\ Indices(m, mask, b)
  BY <1>2
<1>4. Own(n, frontBlock) = Own(m, frontBlock) /\ Own(n, tailBlock) = Own(m, tailBlock)
  BY DEF Own
<1>5. \A i \in 1..Depth(m, tail(b)) : Val(m, tail(b), i) # F(m, b)
  <2> SUFFICES ASSUME NEW i \in 1..Depth(m, tail(b)), Val(m, tail(b), i) = F(m, b) PROVE FALSE
    OBVIOUS
  <2>1. Span(F(m, b), lt, mask[b]) <= Span(F(m, b), F(m, b), mask[b]) /\ lt \in 0..mask[b]
    BY DEF LocalTailOK
  <2>2. mask[b] \in Nat /\ F(m, b) \in 0..mask[b]
    BY <1>1, <1>3, IndexFacts
  <2>3. Span(F(m, b), F(m, b), mask[b]) = 0 /\ Span(F(m, b), lt, mask[b]) > 0
    BY <2>1, <2>2, SpanRange
  <2>4. Span(F(m, b), lt, mask[b]) \in 0..mask[b]
    BY <2>1, <2>2, SpanRange
  <2> QED BY <2>1, <2>3, <2>4
<1>6. /\ Block(n, mask, b)
      /\ F(n, b) = Wrap(F(m, b), mask[b]) /\ T(n, b) = T(m, b) /\ F(m, b) # T(m, b)
      /\ Span(F(n, b), T(n, b), mask[b]) = Span(F(m, b), T(m, b), mask[b]) - 1
      /\ Span(F(m, b), T(m, b), mask[b]) \in 1..mask[b]
      /\ \A s \in 0..mask[b] :
              Span(F(n, b), s, mask[b]) < Span(F(n, b), T(n, b), mask[b])
                => /\ s # F(m, b)
                   /\ Span(F(n, b), s, mask[b]) = Span(F(m, b), s, mask[b]) - 1
                   /\ Span(F(m, b), s, mask[b]) < Span(F(m, b), T(m, b), mask[b])
  BY <1>1, <1>3, <1>4, <1>5, BlockTakes
<1>7. \A c \in 1..alloc : Block(n, mask, c)
  <2> SUFFICES ASSUME NEW c \in 1..alloc, c # b PROVE Block(n, mask, c)
    BY <1>6
  <2>1. c \in Blocks /\ SameSlots(m, n, c)
    BY <1>2 DEF SameBlock
  <2> QED BY <2>1, <1>1, <1>4, BlockSame
<1>8. \A i \in 1..N : i # k => ring[i] # b /\ SameBlock(m, n, ring[i])
  BY <1>2
<1>9. \A i \in 1..N : Own(n, next(ring[i])) = Own(m, next(ring[i])) /\ Last(n, next(ring[i])) = Last(m, next(ring[i]))
  <2>1. Own(n, next(b)) = Own(m, next(b)) /\ Last(n, next(b)) = Last(m, next(b))
    BY SameFacts DEF Takes
  <2> QED BY <2>1, <1>8, SameBlockFacts
<1>10. Ring(n, alloc, ring, k)
  BY <1>1, <1>4, <1>9 DEF Ring, N
<1>11. \A c \in alloc+1..HeapBlocks : Fresh(n, c)
  <2> SUFFICES ASSUME NEW c \in alloc+1..HeapBlocks PROVE Fresh(n, c)
    OBVIOUS
  <2>1. c \in Blocks /\ c # b
    BY <1>2, <1>3, SizesPositive DEF Blocks
  <2>2. SameBlock(m, n, c) /\ Fresh(m, c)
    BY <2>1, <1>1
  <2> QED BY <2>2, SameBlockFacts DEF Fresh
<1> DEFINE start2 == [i \in 1..N+1 |-> IF i <= k THEN start[i] + 1 ELSE start[i]]
<1>12. /\ rec \in Nat /\ snt \in Nat /\ start \in [1..N+1 -> Nat]
       /\ \A i, j \in 1..N+1 : i <= j => start[i] <= start[j]
       /\ \A i \in 1..k : start[i] = rec + 1
       /\ start[N + 1] = snt + 1
       /\ \A i \in 1..N :
            /\ start[i + 1] = start[i] + Span(F(m, ring[i]), T(m, ring[i]), mask[ring[i]])
            /\ i > k => F(m, ring[i]) # T(m, ring[i])
            /\ \A s \in 0..mask[ring[i]] :
                 Span(F(m, ring[i]), s, mask[ring[i]]) < Span(F(m, ring[i]), T(m, ring[i]), mask[ring[i]])
                   => El(m, ring[i], s) = start[i] + Span(F(m, ring[i]), s, mask[ring[i]])
  BY <1>1 DEF Elements, N
<1>13. /\ start[k] = rec + 1 /\ start[k + 1] = rec + 1 + Span(F(m, b), T(m, b), mask[b])
       /\ k + 1 \in 1..N+1 /\ N + 1 \in 1..N+1
  BY <1>2, <1>12
<1>14. start[k + 1] >= rec + 2
  BY <1>6, <1>12, <1>13
<1>15. rec < snt
  <2>1. start[k + 1] <= start[N + 1]
    BY <1>2, <1>12, <1>13
  <2>2. start[k + 1] \in Nat
    BY <1>12, <1>13
  <2> QED BY <2>1, <2>2, <1>12, <1>14
<1>16. Elements(n, mask, ring, k, start2, rec + 1, snt)
  <2>1. /\ start2 \in [1..N+1 -> Nat]
        /\ \A i \in 1..N+1 : i <= k => start2[i] = start[i] + 1
        /\ \A i \in 1..N+1 : i > k => start2[i] = start[i]
    BY <1>2, <1>12, SMTT(30)
  <2> HIDE DEF start2
  <2>2. \A i \in 1..k : start2[i] = rec + 2
    <3>1. TAKE i \in 1..k
    <3>2. i \in 1..N+1 /\ i <= k
      BY <3>1, <1>2
    <3>3. start2[i] = start[i] + 1 /\ start[i] = rec + 1
      BY <3>1, <3>2, <2>1, <1>12
    <3> QED BY <3>3, <1>12
  <2>3. start2[N + 1] = snt + 1
    BY <2>1, <1>2, <1>12, <1>13
  <2>4. \A i, j \in 1..N+1 : i <= j => start2[i] <= start2[j]
    <3> SUFFICES ASSUME NEW i \in 1..N+1, NEW j \in 1..N+1, i <= j PROVE start2[i] <= start2[j]
      OBVIOUS
    <3>1. start[i] \in Nat /\ start[j] \in Nat /\ start[i] <= start[j] /\ start[k + 1] \in Nat
      BY <1>12, <1>13
    <3>2. CASE j <= k
      <4>1. i <= k
        BY <3>2, <1>2
      <4>2. start2[i] = start[i] + 1 /\ start2[j] = start[j] + 1
        BY <4>1, <3>2, <2>1
      <4> QED BY <4>2, <3>1
    <3>3. CASE i > k
      BY <3>1, <3>3, <2>1, <1>2
    <3>4. CASE i <= k /\ j > k
      <4>1. i \in 1..k
        BY <3>4, <1>2
      <4>2. start2[i] = rec + 2
        BY <4>1, <2>2
      <4>3. start2[j] = start[j]
        BY <3>4, <2>1
      <4>4. j \in 1..N+1 /\ k + 1 \in 1..N+1 /\ k + 1 <= j
        BY <3>4, <1>2, <1>13
      <4>5. start[k + 1] <= start[j]
        BY <4>4, <1>12
      <4> QED BY <4>2, <4>3, <4>5, <3>1, <1>12, <1>14
    <3> QED BY <3>2, <3>3, <3>4, <1>2
  <2>5. ASSUME NEW i \in 1..N, i # k
        PROVE  /\ start2[i + 1] = start2[i] + Span(F(n, ring[i]), T(n, ring[i]), mask[ring[i]])
               /\ i > k => F(n, ring[i]) # T(n, ring[i])
               /\ \A s \in 0..mask[ring[i]] :
                  Span(F(n, ring[i]), s, mask[ring[i]]) < Span(F(n, ring[i]), T(n, ring[i]), mask[ring[i]])
                    => El(n, ring[i], s) = start2[i] + Span(F(n, ring[i]), s, mask[ring[i]])
    <3>1. F(n, ring[i]) = F(m, ring[i]) /\ T(n, ring[i]) = T(m, ring[i])
      BY <2>5, <1>8, SameBlockFacts
    <3>2. /\ mask[ring[i]] \in Nat /\ 0..mask[ring[i]] \subseteq Slots
          /\ F(m, ring[i]) \in 0..mask[ring[i]] /\ T(m, ring[i]) \in 0..mask[ring[i]]
      BY <1>1, <1>2, IndexFacts
    <3>3. \A s \in 0..mask[ring[i]] : El(n, ring[i], s) = El(m, ring[i], s)
      BY <3>2, <2>5, <1>8, SameBlockFacts
    <3>4. Span(F(m, ring[i]), T(m, ring[i]), mask[ring[i]]) \in 0..mask[ring[i]]
      BY <3>2, SpanRange
    <3>5. start[i] \in Nat /\ start[i + 1] \in Nat /\ i \in 1..N+1 /\ i + 1 \in 1..N+1
      BY <1>2, <1>12, SMTT(30)
    <3>6. CASE i > k
      <4>1. start2[i] = start[i] /\ start2[i + 1] = start[i + 1]
        BY <3>5, <3>6, <2>1, <1>2
      <4> QED BY <4>1, <3>1, <3>3, <1>12
    <3>7. CASE i < k
      <4>1. start2[i] = start[i] + 1 /\ start2[i + 1] = start[i + 1] + 1 /\ start[i] = rec + 1 /\ start[i + 1] = rec + 1
        BY <3>5, <3>7, <2>1, <1>2, <1>12
      <4>2. Span(F(m, ring[i]), T(m, ring[i]), mask[ring[i]]) = 0
        BY <4>1, <3>4, <3>5, <1>12
      <4>3. \A s \in 0..mask[ring[i]] : Span(F(m, ring[i]), s, mask[ring[i]]) \in 0..mask[ring[i]]
        BY <3>2, SpanRange
      <4>4. \A s \in 0..mask[ring[i]] : ~ (Span(F(m, ring[i]), s, mask[ring[i]]) < 0)
        BY <4>3, <3>2
      <4>5. start2[i + 1] = start2[i] + Span(F(m, ring[i]), T(m, ring[i]), mask[ring[i]])
        BY <4>1, <4>2, <1>12
      <4>6. ~ (i > k)
        BY <3>7, <1>2
      <4>7. \A s \in 0..mask[ring[i]] :
              ~ (Span(F(m, ring[i]), s, mask[ring[i]]) < Span(F(m, ring[i]), T(m, ring[i]), mask[ring[i]]))
        BY <4>2, <4>4
      <4> QED BY <4>5, <4>6, <4>7, <3>1
    <3> QED BY <3>6, <3>7, <2>5, <1>2
  <2>6. /\ start2[k + 1] = start2[k] + Span(F(n, b), T(n, b), mask[b])
        /\ \A s \in 0..mask[b] :
             Span(F(n, b), s, mask[b]) < Span(F(n, b), T(n, b), mask[b])
               => El(n, b, s) = start2[k] + Span(F(n, b), s, mask[b])
    <3>1. start2[k] = rec + 2 /\ start2[k + 1] = start[k + 1]
      BY <2>1, <2>2, <1>2, <1>13
    <3>2. start2[k + 1] = start2[k] + Span(F(n, b), T(n, b), mask[b])
      BY <3>1, <1>6, <1>12, <1>13
    <3>3. ASSUME NEW s \in 0..mask[b], Span(F(n, b), s, mask[b]) < Span(F(n, b), T(n, b), mask[b])
          PROVE  El(n, b, s) = start2[k] + Span(F(n, b), s, mask[b])
      <4>1. /\ s # F(m, b)
            /\ Span(F(n, b), s, mask[b]) = Span(F(m, b), s, mask[b]) - 1
            /\ Span(F(m, b), s, mask[b]) < Span(F(m, b), T(m, b), mask[b])
        BY <3>3, <1>6
      <4>2. El(m, b, s) = rec + 1 + Span(F(m, b), s, mask[b])
        BY <4>1, <1>2, <1>12
      <4>3. s \in Slots
        BY <1>1, <1>3, IndexFacts
      <4>4. El(n, b, s) = El(m, b, s)
        BY <4>1, <4>3 DEF Takes, El
      <4>5. Span(F(m, b), s, mask[b]) \in Nat
        <5>1. mask[b] \in Nat /\ F(m, b) \in 0..mask[b]
          BY <1>1, <1>3, IndexFacts
        <5>2. Span(F(m, b), s, mask[b]) \in 0..mask[b]
          BY <5>1, SpanRange
        <5> QED BY <5>2
      <4> QED BY <4>1, <4>2, <4>4, <4>5, <3>1, <1>12
    <3> QED BY <3>2, <3>3
  <2>7. ASSUME NEW i \in 1..N
        PROVE  /\ start2[i + 1] = start2[i] + Span(F(n, ring[i]), T(n, ring[i]), mask[ring[i]])
               /\ i > k => F(n, ring[i]) # T(n, ring[i])
               /\ \A s \in 0..mask[ring[i]] :
                  Span(F(n, ring[i]), s, mask[ring[i]]) < Span(F(n, ring[i]), T(n, ring[i]), mask[ring[i]])
                    => El(n, ring[i], s) = start2[i] + Span(F(n, ring[i]), s, mask[ring[i]])
    <3>1. CASE i = k
      <4>1. ~ (i > k)
        BY <3>1, <1>2
      <4> QED BY <4>1, <3>1, <2>6
    <3>2. CASE i # k
      BY <3>2, <2>5
    <3> QED BY <3>1, <3>2
  <2>8. rec + 1 \in Nat /\ (rec + 1) + 1 = rec + 2
    BY <1>12
  <2> QED BY <2>1, <2>2, <2>3, <2>4, <2>7, <2>8, <1>12 DEF Elements, N
<1> HIDE DEF start2
<1>17. Acq(n, C) = Acq(m, C) /\ Acq(n, P) = Acq(m, P)
  BY ThreadFacts
<1>18. /\ Depth(n, tailBlock) = Depth(m, tailBlock)
       /\ \A i : Val(n, tailBlock, i) = Val(m, tailBlock, i) /\ Rel(n, tailBlock, i) = Rel(m, tailBlock, i)
  BY DEF Depth, Val, Rel
<1>19. /\ Depth(n, frontBlock) = Depth(m, frontBlock)
       /\ \A i : Val(n, frontBlock, i) = Val(m, frontBlock, i) /\ Rel(n, frontBlock, i) = Rel(m, frontBlock, i)
  BY DEF Depth, Val, Rel
<1>20. /\ \A i : Upto(n, C, tailBlock, i) = Upto(m, C, tailBlock, i)
       /\ \A i : Upto(n, P, frontBlock, i) = Upto(m, P, frontBlock, i)
  BY <1>17, <1>18, <1>19, UptoSame
<1>21. TailBlocks(n, mask, ring, k)
  <2>1. ASSUME NEW j \in 1..N, NEW v, Closed(m, ring[j], v) PROVE Closed(n, ring[j], v)
    <3>1. CASE j = k
      <4>1. Last(n, tail(b)) = Last(m, tail(b)) /\ Last(n, next(b)) = Last(m, next(b))
        BY SameFacts DEF Takes
      <4> QED BY <4>1, <3>1, <2>1 DEF Closed
    <3>2. CASE j # k
      BY <3>2, <2>1, <1>8, ClosedSame
    <3> QED BY <3>1, <3>2
  <2>2. ASSUME NEW j \in 1..N, j # k, NEW v, Entered(m, mask, ring[j], v) PROVE Entered(n, mask, ring[j], v)
    BY <2>2, <1>1, <1>2, <1>8, EnteredSame DEF SameBlock
  <2>3. ASSUME NEW i \in 1..Depth(m, tailBlock)
        PROVE  \E q \in k..N :
                 /\ Val(m, tailBlock, i) = ring[q]
                 /\ \A j \in k..q-1 : Closed(n, ring[j], Upto(m, C, tailBlock, i))
                 /\ \A j \in k+1..q : Entered(n, mask, ring[j], Upto(m, C, tailBlock, i))
    <3>1. PICK q \in k..N :
                 /\ Val(m, tailBlock, i) = ring[q]
                 /\ \A j \in k..q-1 : Closed(m, ring[j], Upto(m, C, tailBlock, i))
                 /\ \A j \in k+1..q : Entered(m, mask, ring[j], Upto(m, C, tailBlock, i))
      BY <1>1 DEF TailBlocks, N
    <3>2. /\ \A j \in k..q-1 : j \in 1..N
          /\ \A j \in k+1..q : j \in 1..N /\ j # k
      BY <1>2
    <3> QED BY <3>1, <3>2, <2>1, <2>2
  <2> QED BY <2>3, <1>1, <1>18, <1>20 DEF TailBlocks, N
<1>22. FrontBlocks(n, ring, k)
  <2>1. ASSUME NEW j \in 1..k-1 PROVE Last(n, front(ring[j])) = Last(m, front(ring[j]))
    <3>1. j \in 1..N /\ j # k
      BY <1>2
    <3> QED BY <3>1, <1>8, SameBlockFacts
  <2>2. ASSUME NEW i \in 1..Depth(m, frontBlock)
        PROVE  \E q \in 1..k : /\ Val(m, frontBlock, i) = ring[q]
                               /\ \A j \in 1..q-1 : Last(n, front(ring[j])) <= Upto(m, P, frontBlock, i)
    <3>1. PICK q \in 1..k : /\ Val(m, frontBlock, i) = ring[q]
                            /\ \A j \in 1..q-1 : Last(m, front(ring[j])) <= Upto(m, P, frontBlock, i)
      BY <1>1 DEF FrontBlocks
    <3>2. \A j \in 1..q-1 : j \in 1..k-1
      BY <1>2
    <3> QED BY <3>1, <3>2, <2>1
  <2> QED BY <2>2, <1>1, <1>19, <1>20 DEF FrontBlocks
<1>23. \A i \in 1..k : Wri(n, ring[i], Members) <= Acq(n, C)
  <2> SUFFICES ASSUME NEW i \in 1..k PROVE Wri(n, ring[i], Members) = Wri(m, ring[i], Members)
    BY <1>1, <1>17
  <2>1. CASE i = k
    <3>1. F(m, b) \in Slots
      BY <1>1, <1>3, IndexFacts
    <3> QED BY <3>1, <2>1, AtomicFacts DEF Takes, Wri
  <2>2. CASE i # k
    <3>1. i \in 1..N
      BY <1>2
    <3> QED BY <3>1, <2>2, <1>8, SameBlockFacts
  <2> QED BY <2>1, <2>2
<1>24. Queue(n, mask, alloc, ring, k, start2, rec + 1, snt)
  BY <1>1, <1>7, <1>10, <1>11, <1>16, <1>21, <1>22, <1>23 DEF Queue
<1>25. LocalTailOK(n, mask, b, lt)
  BY <1>1, <1>3, <1>6, <1>17, LocalTailTakes
<1>26. LocalFrontOK(n, mask, ring[N], lf)
  <2>1. CASE k = N
    <3>1. ring[N] = b /\ LocalFrontOK(m, mask, b, lf)
      BY <2>1 DEF N
    <3>2. Span(Wrap(F(m, b), mask[b]), T(m, b), mask[b]) = Span(F(m, b), T(m, b), mask[b]) - 1
      BY <1>6
    <3> QED BY <3>1, <3>2, <1>1, <1>3, <1>6, <1>17, LocalFrontTakes
  <2>2. CASE k # N
    <3>1. SameSlots(m, n, ring[N]) /\ ring[N] \in Blocks /\ Indices(m, mask, ring[N]) /\ LocalFrontOK(m, mask, ring[N], lf)
      BY <2>2, <1>2, <1>8 DEF SameBlock, N
    <3> QED BY <3>1, <1>1, <1>17, LocalFrontSame
  <2> QED BY <2>1, <2>2
<1>27. ASSUME NEW pc, ProducerAt(m, ring, k, pc) PROVE ProducerAt(n, ring, k, pc)
  <2>1. ASSUME k > 1 PROVE Last(n, front(ring[1])) = Last(m, front(ring[1]))
    <3>1. 1 \in 1..N /\ 1 # k
      BY <2>1, <1>2
    <3> QED BY <3>1, <1>8, SameBlockFacts
  <2> QED BY <2>1, <1>17, <1>19, <1>27 DEF ProducerAt
<1> QED BY <1>15, <1>24, <1>25, <1>26, <1>27 DEF N

\* The queue whose consumer has gone on to block b
Enters(m, n, mask, alloc, ring, k, start, rec, snt, b, lf) ==
  /\ Queue(n, mask, alloc, ring, k + 1, start, rec, snt)
  /\ \A lt : LocalTailOK(m, mask, b, lt) => LocalTailOK(n, mask, b, lt)
  /\ LocalFrontOK(n, mask, ring[Len(ring)], lf)
  /\ \A pc : ProducerAt(m, ring, k, pc) => ProducerAt(n, ring, k + 1, pc)

\* The consumer leaves the empty front block for the next one.
LEMMA QueueAdvances ==
  ASSUME NEW m, NEW n, NEW mask, NEW alloc, NEW ring, NEW k, NEW start, NEW rec, NEW snt,
         Queue(m, mask, alloc, ring, k, start, rec, snt),
         MemoryOK(n), \A t \in Threads : Acq(n, t) = Acq(m, t),
         n.plain = m.plain, \A x \in Atomics : x # frontBlock => n.visible[x] = m.visible[x],
         k < Len(ring), NEW b, b = ring[k + 1],
         NEW s, NEW r \in Nat, r >= m.writes[C], Appends(m, n, frontBlock, b, s, r),
         F(m, ring[k]) = T(m, ring[k]),
         \A i \in 1..Depth(m, tailBlock) : Val(m, tailBlock, i) # ring[k],
         Entered(m, mask, b, Acq(m, C)),
         NEW lf, LocalFrontOK(m, mask, ring[Len(ring)], lf)
  PROVE  Enters(m, n, mask, alloc, ring, k, start, rec, snt, b, lf)
<1> DEFINE N == Len(ring)
<1>1. /\ MemoryOK(m) /\ Ring(m, alloc, ring, k) /\ \A c \in 1..alloc : Block(m, mask, c)
      /\ \A c \in alloc+1..HeapBlocks : Fresh(m, c)
      /\ Elements(m, mask, ring, k, start, rec, snt)
      /\ TailBlocks(m, mask, ring, k) /\ FrontBlocks(m, ring, k)
      /\ \A i \in 1..k : Wri(m, ring[i], Members) <= Acq(m, C)
  BY QueueParts
<1>2. /\ alloc \in Nat /\ alloc <= HeapBlocks /\ 1..alloc \subseteq Blocks
      /\ N \in Nat /\ N >= 1 /\ k \in Nat /\ k >= 1 /\ k <= N
      /\ N \in 1..N /\ k \in 1..N
      /\ \A i \in 1..N : /\ ring[i] \in 1..alloc /\ ring[i] \in Blocks
                         /\ Block(m, mask, ring[i]) /\ Indices(m, mask, ring[i])
      /\ \A i, j \in 1..N : ring[i] = ring[j] => i = j
  BY QueueParts
<1>3. k < N
  OBVIOUS
<1> HIDE DEF N
<1>4. k + 1 \in 1..N /\ b \in Blocks /\ b \in 1..alloc /\ Indices(m, mask, b)
  BY <1>2, <1>3
<1>5. /\ frontBlock \in Atomics /\ tailBlock \in Atomics /\ n.visible[tailBlock] = m.visible[tailBlock]
      /\ Depth(m, frontBlock) \in Nat /\ Depth(m, frontBlock) >= 1
  BY <1>1, AtomicFacts, MemoryFacts
<1>6. \A c \in Blocks : SameBlock(m, n, c) /\ SameSlots(m, n, c)
  BY AtomicFacts DEF SameBlock, SameSlots
<1>7. /\ Depth(n, frontBlock) = Depth(m, frontBlock) + 1
      /\ Own(n, frontBlock) = b
      /\ Val(n, frontBlock, Depth(n, frontBlock)) = b /\ Rel(n, frontBlock, Depth(n, frontBlock)) = r
      /\ \A i \in 1..Depth(m, frontBlock) :
           /\ Val(n, frontBlock, i) = Val(m, frontBlock, i)
           /\ Rel(n, frontBlock, i) = Rel(m, frontBlock, i)
      /\ \A i \in 1..Depth(n, frontBlock) : i \in 1..Depth(m, frontBlock) \/ i = Depth(n, frontBlock)
  BY <1>5, AppendFacts
<1>8. Acq(n, C) = Acq(m, C) /\ Acq(n, P) = Acq(m, P)
  BY ThreadFacts
<1>9. \A c \in 1..alloc : Block(n, mask, c)
  <2> SUFFICES ASSUME NEW c \in 1..alloc PROVE Block(n, mask, c)
    OBVIOUS
  <2>1. c \in Blocks /\ SameSlots(m, n, c)
    BY <1>2, <1>6
  <2>2. Own(n, frontBlock) # c \/ Wri(m, c, F(m, c)) <= Acq(m, C)
    BY <1>7 DEF Entered
  <2> QED BY <2>1, <2>2, <1>1, BlockSame
<1>10. Ring(n, alloc, ring, k + 1)
  <2>1. \A i \in 1..N : Own(n, next(ring[i])) = Own(m, next(ring[i]))
    BY <1>2, <1>6, SameBlockFacts
  <2>2. Own(n, tailBlock) = Own(m, tailBlock)
    BY <1>5 DEF Own
  <2> QED BY <2>1, <2>2, <1>1, <1>4, <1>7 DEF Ring, N
<1>11. \A c \in alloc+1..HeapBlocks : Fresh(n, c)
  <2> SUFFICES ASSUME NEW c \in alloc+1..HeapBlocks PROVE Fresh(n, c)
    OBVIOUS
  <2>1. c \in Blocks
    BY <1>2, SizesPositive DEF Blocks
  <2>2. SameBlock(m, n, c) /\ Fresh(m, c)
    BY <2>1, <1>1, <1>6
  <2> QED BY <2>2, SameBlockFacts DEF Fresh
<1>12. Elements(n, mask, ring, k + 1, start, rec, snt)
  <2>1. /\ rec \in Nat /\ snt \in Nat /\ start \in [1..N+1 -> Nat]
        /\ \A i, j \in 1..N+1 : i <= j => start[i] <= start[j]
        /\ \A i \in 1..k : start[i] = rec + 1
        /\ start[N + 1] = snt + 1
        /\ \A i \in 1..N :
            /\ start[i + 1] = start[i] + Span(F(m, ring[i]), T(m, ring[i]), mask[ring[i]])
            /\ i > k => F(m, ring[i]) # T(m, ring[i])
            /\ \A u \in 0..mask[ring[i]] :
                 Span(F(m, ring[i]), u, mask[ring[i]]) < Span(F(m, ring[i]), T(m, ring[i]), mask[ring[i]])
                   => El(m, ring[i], u) = start[i] + Span(F(m, ring[i]), u, mask[ring[i]])
    BY <1>1 DEF Elements, N
  <2>2. start[k + 1] = rec + 1
    <3>1. mask[ring[k]] \in Nat /\ F(m, ring[k]) \in 0..mask[ring[k]]
      BY <1>1, <1>2, IndexFacts
    <3>2. Span(F(m, ring[k]), T(m, ring[k]), mask[ring[k]]) = 0
      BY <3>1, SpanRange
    <3>3. start[k] = rec + 1
      BY <2>1, <1>2
    <3> QED BY <3>2, <3>3, <2>1, <1>2
  <2>3. \A i \in 1..k + 1 : start[i] = rec + 1
    BY <2>1, <2>2, <1>2, SMTT(30)
  <2>4. \A i \in 1..N : /\ F(n, ring[i]) = F(m, ring[i]) /\ T(n, ring[i]) = T(m, ring[i])
                        /\ \A u : El(n, ring[i], u) = El(m, ring[i], u)
    BY <1>2, <1>6, SameBlockFacts DEF El
  <2>5. \A i \in 1..N : i > k + 1 => i > k
    BY <1>2
  <2> QED BY <2>1, <2>3, <2>4, <2>5 DEF Elements, N
<1>13. /\ Depth(n, tailBlock) = Depth(m, tailBlock)
       /\ \A i : Val(n, tailBlock, i) = Val(m, tailBlock, i) /\ Rel(n, tailBlock, i) = Rel(m, tailBlock, i)
  BY <1>5 DEF Depth, Val, Rel
<1>14. /\ \A i : Upto(n, C, tailBlock, i) = Upto(m, C, tailBlock, i)
       /\ \A i \in 1..Depth(m, frontBlock) : Upto(n, P, frontBlock, i) = Upto(m, P, frontBlock, i)
  BY <1>7, <1>8, <1>13, UptoSame
<1>15. TailBlocks(n, mask, ring, k + 1)
  <2>1. ASSUME NEW i \in 1..Depth(m, tailBlock)
        PROVE  \E q \in k+1..N :
                 /\ Val(m, tailBlock, i) = ring[q]
                 /\ \A j \in k+1..q-1 : Closed(n, ring[j], Upto(m, C, tailBlock, i))
                 /\ \A j \in (k+1)+1..q : Entered(n, mask, ring[j], Upto(m, C, tailBlock, i))
    <3>1. PICK q \in k..N :
                 /\ Val(m, tailBlock, i) = ring[q]
                 /\ \A j \in k..q-1 : Closed(m, ring[j], Upto(m, C, tailBlock, i))
                 /\ \A j \in k+1..q : Entered(m, mask, ring[j], Upto(m, C, tailBlock, i))
      BY <1>1 DEF TailBlocks, N
    <3>2. q # k
      BY <3>1
    <3>3. q \in k+1..N
      BY <3>2, <1>2
    <3>4. ASSUME NEW j \in k+1..q-1 PROVE Closed(n, ring[j], Upto(m, C, tailBlock, i))
      <4>1. j \in k..q-1 /\ j \in 1..N
        BY <1>2
      <4>2. Closed(m, ring[j], Upto(m, C, tailBlock, i)) /\ SameBlock(m, n, ring[j])
        BY <4>1, <3>1, <1>2, <1>6
      <4> QED BY <4>2, ClosedSame
    <3>5. ASSUME NEW j \in (k+1)+1..q PROVE Entered(n, mask, ring[j], Upto(m, C, tailBlock, i))
      <4>1. j \in k+1..q /\ j \in 1..N
        BY <1>2
      <4>2. /\ Entered(m, mask, ring[j], Upto(m, C, tailBlock, i)) /\ SameSlots(m, n, ring[j])
            /\ ring[j] \in Blocks /\ Indices(m, mask, ring[j])
        BY <4>1, <3>1, <1>2, <1>6
      <4> QED BY <4>2, <1>1, EnteredSame
    <3> QED BY <3>1, <3>3, <3>4, <3>5
  <2> QED BY <2>1, <1>1, <1>13, <1>14, SMTT(30) DEF TailBlocks, N
<1>16. \A j \in 1..N : /\ Last(n, front(ring[j])) = Last(m, front(ring[j]))
                       /\ Last(m, front(ring[j])) <= m.writes[C] /\ Last(m, front(ring[j])) \in Nat
  <2> SUFFICES ASSUME NEW j \in 1..N
               PROVE  /\ Last(n, front(ring[j])) = Last(m, front(ring[j]))
                      /\ Last(m, front(ring[j])) <= m.writes[C] /\ Last(m, front(ring[j])) \in Nat
    OBVIOUS
  <2>1. ring[j] \in Blocks
    BY <1>2
  <2>2. front(ring[j]) \in Atomics /\ WriterOf(front(ring[j])) = C
    BY <2>1, AtomicFacts
  <2> DEFINE d == Depth(m, front(ring[j]))
  <2>3. d \in Nat /\ d >= 1
    BY <2>2, <1>1, MemoryFacts
  <2>4. d \in 1..d
    BY <2>3
  <2>5. Sto(m, front(ring[j]), d) \in Nat /\ Sto(m, front(ring[j]), d) <= m.writes[C]
    BY <2>2, <2>4, <1>1, MemoryFacts
  <2> QED BY <2>1, <2>5, <1>6, SameBlockFacts DEF Last
<1>17. FrontBlocks(n, ring, k + 1)
  <2>1. ASSUME NEW i \in 1..Depth(m, frontBlock)
        PROVE  \E q \in 1..k : /\ Val(n, frontBlock, i) = ring[q]
                               /\ \A j \in 1..q-1 : Last(n, front(ring[j])) <= Upto(n, P, frontBlock, i)
    <3>1. PICK q \in 1..k : /\ Val(m, frontBlock, i) = ring[q]
                            /\ \A j \in 1..q-1 : Last(m, front(ring[j])) <= Upto(m, P, frontBlock, i)
      BY <1>1 DEF FrontBlocks
    <3>2. \A j \in 1..q-1 : j \in 1..N
      BY <1>2
    <3> QED BY <3>1, <3>2, <1>7, <1>14, <1>16
  <2>2. ASSUME NEW j \in 1..N PROVE Last(n, front(ring[j])) <= Upto(n, P, frontBlock, Depth(n, frontBlock))
    <3>1. Acq(n, P) \in Nat /\ m.writes[C] \in Nat
      BY <1>1, MemoryFacts, ThreadFacts
    <3> QED BY <3>1, <1>7, <1>16 DEF Upto
  <2>3. ASSUME NEW i \in 1..Depth(n, frontBlock)
        PROVE  \E q \in 1..k+1 : /\ Val(n, frontBlock, i) = ring[q]
                                 /\ \A j \in 1..q-1 : Last(n, front(ring[j])) <= Upto(n, P, frontBlock, i)
    <3>1. CASE i \in 1..Depth(m, frontBlock)
      <4>1. 1..k \subseteq 1..k+1
        BY <1>2
      <4> QED BY <4>1, <3>1, <2>1
    <3>2. CASE i = Depth(n, frontBlock)
      <4>1. \A j \in 1..(k+1)-1 : j \in 1..N
        BY <1>2
      <4>2. k + 1 \in 1..k+1
        BY <1>2
      <4> QED BY <4>1, <4>2, <3>2, <2>2, <1>7
    <3> QED BY <3>1, <3>2, <1>7
  <2>4. ASSUME NEW i \in 1..Depth(n, frontBlock), NEW j \in 1..Depth(n, frontBlock),
               NEW p \in 1..N, NEW q \in 1..N,
               i <= j, Val(n, frontBlock, i) = ring[p], Val(n, frontBlock, j) = ring[q]
        PROVE  p <= q
    <3>1. CASE i \in 1..Depth(m, frontBlock) /\ j \in 1..Depth(m, frontBlock)
      BY <3>1, <2>4, <1>1, <1>7 DEF FrontBlocks, N
    <3>2. CASE j = Depth(n, frontBlock)
      <4>1. q = k + 1
        BY <3>2, <2>4, <1>2, <1>4, <1>7
      <4>2. PICK h \in 1..k+1 : Val(n, frontBlock, i) = ring[h]
        BY <2>3
      <4>3. h \in 1..N
        BY <1>2, <1>3
      <4>4. p = h
        BY <4>2, <4>3, <2>4, <1>2
      <4> QED BY <4>1, <4>4, <1>2
    <3>3. CASE i = Depth(n, frontBlock)
      <4>1. j = i
        BY <3>3, <2>4, <1>5, <1>7
      <4> QED BY <4>1, <3>3, <3>2
    <3> QED BY <3>1, <3>2, <3>3, <1>7
  <2> QED BY <2>3, <2>4 DEF FrontBlocks, N
<1>18. \A i \in 1..k + 1 : Wri(n, ring[i], Members) <= Acq(n, C)
  <2> SUFFICES ASSUME NEW i \in 1..k + 1 PROVE Wri(m, ring[i], Members) <= Acq(m, C)
    BY <1>8 DEF Wri
  <2>1. CASE i = k + 1
    BY <2>1 DEF Entered
  <2>2. CASE i # k + 1
    <3>1. i \in 1..k
      BY <2>2, <1>2
    <3> QED BY <3>1, <1>1
  <2> QED BY <2>1, <2>2
<1>19. Queue(n, mask, alloc, ring, k + 1, start, rec, snt)
  BY <1>9, <1>10, <1>11, <1>12, <1>15, <1>17, <1>18 DEF Queue
<1>20. ASSUME NEW lt, LocalTailOK(m, mask, b, lt) PROVE LocalTailOK(n, mask, b, lt)
  BY <1>1, <1>4, <1>6, <1>8, <1>20, LocalTailSame
<1>21. LocalFrontOK(n, mask, ring[N], lf)
  <2>1. LocalFrontOK(m, mask, ring[N], lf)
    BY DEF N
  <2> QED BY <2>1, <1>1, <1>2, <1>6, <1>8, LocalFrontSame
<1>22. ASSUME NEW pc, ProducerAt(m, ring, k, pc) PROVE ProducerAt(n, ring, k + 1, pc)
  <2> SUFFICES ASSUME pc = "nextFront"
               PROVE  /\ k + 1 > 1
                      /\ \A i \in 1..Depth(n, frontBlock) : Val(n, frontBlock, i) # ring[1]
                      /\ Last(n, front(ring[1])) <= Acq(n, P)
    BY DEF ProducerAt
  <2>1. /\ k > 1
        /\ \A i \in 1..Depth(m, frontBlock) : Val(m, frontBlock, i) # ring[1]
        /\ Last(m, front(ring[1])) <= Acq(m, P)
    BY <1>22 DEF ProducerAt
  <2>2. 1 \in 1..N /\ b # ring[1]
    BY <2>1, <1>2, <1>4
  <2> QED BY <2>1, <2>2, <1>2, <1>7, <1>8, <1>16, SMTT(30)
<1> QED BY <1>19, <1>20, <1>21, <1>22 DEF N, Enters

\* Who knows more knows a block entered, too.
LEMMA EnteredLater ==
  ASSUME NEW m, MemoryOK(m), NEW b \in Blocks, NEW mask, Indices(m, mask, b),
         NEW v \in Nat, NEW w \in Nat, w >= v, Entered(m, mask, b, v)
  PROVE  Entered(m, mask, b, w)
<1>1. /\ Wri(m, b, Members) \in Nat /\ Wri(m, b, F(m, b)) \in Nat
  <2>1. F(m, b) \in Slots
    BY IndexFacts
  <2> QED BY <2>1, PlainFacts
<1>2. tail(b) \in Atomics
  BY AtomicFacts
<1>3. \A j \in 1..Depth(m, tail(b)) : Sto(m, tail(b), j) \in Nat
  BY <1>2, MemoryFacts
<1>4. ASSUME NEW i \in 1..Depth(m, tail(b)),
             \A j \in i+1..Depth(m, tail(b)) : Sto(m, tail(b), j) > w
      PROVE  Val(m, tail(b), i) # F(m, b)
  <2>1. ASSUME NEW j \in i+1..Depth(m, tail(b)) PROVE Sto(m, tail(b), j) > v
    <3>1. Sto(m, tail(b), j) > w /\ j \in 1..Depth(m, tail(b))
      BY <1>4
    <3> QED BY <3>1, <1>3
  <2> QED BY <2>1 DEF Entered
<1> QED BY <1>1, <1>4 DEF Entered

\* One who knows the last store knows the value.
LEMMA OneMessage ==
  ASSUME NEW m, MemoryOK(m), NEW x \in Atomics, Last(m, x) <= Acq(m, Other(WriterOf(x)))
  PROVE  Depth(m, x) = 1 /\ Val(m, x, 1) = Own(m, x)
<1>1. Depth(m, x) \in Nat /\ Depth(m, x) >= 1 /\ Own(m, x) = Val(m, x, Depth(m, x))
  BY MemoryFacts
<1>2. Depth(m, x) \in 1..Depth(m, x)
  BY <1>1
<1>3. Depth(m, x) >= 2 => Last(m, x) > Acq(m, Other(WriterOf(x)))
  BY <1>2, MemoryFacts DEF Last
<1>4. Last(m, x) \in Nat /\ Acq(m, Other(WriterOf(x))) \in Nat
  BY <1>2, MemoryFacts, ThreadFacts DEF Last
<1> QED BY <1>1, <1>3, <1>4

\* Blocks behind the front block are empty.
LEMMA EmptyBehind ==
  ASSUME NEW m, NEW mask, NEW alloc, NEW ring, NEW k, NEW start, NEW rec, NEW snt,
         Queue(m, mask, alloc, ring, k, start, rec, snt), NEW i \in 1..k-1
  PROVE  F(m, ring[i]) = T(m, ring[i])
<1>1. /\ k \in Nat /\ k <= Len(ring) /\ Len(ring) \in Nat /\ MemoryOK(m)
  BY QueueParts
<1>2. i \in 1..Len(ring) /\ i \in 1..k /\ i + 1 \in 1..k
  BY <1>1
<1>3. ring[i] \in Blocks /\ Indices(m, mask, ring[i])
  BY <1>2, QueueParts
<1>4. /\ rec \in Nat /\ start[i] = rec + 1 /\ start[i + 1] = rec + 1
      /\ start[i + 1] = start[i] + Span(F(m, ring[i]), T(m, ring[i]), mask[ring[i]])
  <2>1. Elements(m, mask, ring, k, start, rec, snt)
    BY QueueParts
  <2> QED BY <2>1, <1>2 DEF Elements
<1>5. mask[ring[i]] \in Nat /\ F(m, ring[i]) \in 0..mask[ring[i]] /\ T(m, ring[i]) \in 0..mask[ring[i]]
  BY <1>1, <1>3, IndexFacts
<1>6. Span(F(m, ring[i]), T(m, ring[i]), mask[ring[i]]) \in 0..mask[ring[i]]
  BY <1>5, SpanRange
<1>7. Span(F(m, ring[i]), T(m, ring[i]), mask[ring[i]]) = 0
  BY <1>4, <1>5, <1>6
<1> QED BY <1>5, <1>7, SpanRange

\* The ring from the next block on
Rotated(ring) == [i \in 1..Len(ring) |-> IF i = Len(ring) THEN ring[1] ELSE ring[i + 1]]

\* The ring from the next block on has the same blocks.
LEMMA RotatedIs ==
  ASSUME NEW S, NEW ring \in Seq(S), Len(ring) >= 1,
         \A i, j \in 1..Len(ring) : ring[i] = ring[j] => i = j
  PROVE  /\ Rotated(ring) \in Seq(S) /\ Len(Rotated(ring)) = Len(ring)
         /\ \A i \in 1..Len(ring) - 1 : Rotated(ring)[i] = ring[i + 1]
         /\ Rotated(ring)[Len(ring)] = ring[1]
         /\ \A i, j \in 1..Len(ring) : Rotated(ring)[i] = Rotated(ring)[j] => i = j
<1> DEFINE N == Len(ring)
           r == Rotated(ring)
<1>1. N \in Nat /\ \A i \in 1..N : ring[i] \in S
  OBVIOUS
<1> HIDE DEF N
<1>2. r = [i \in 1..N |-> IF i = N THEN ring[1] ELSE ring[i + 1]]
  BY DEF Rotated, N
<1>3. \A i \in 1..N : (IF i = N THEN ring[1] ELSE ring[i + 1]) \in S
  BY <1>1 DEF N
<1>4. r \in [1..N -> S]
  BY <1>2, <1>3
<1> HIDE DEF r
<1>5. r \in Seq(S) /\ Len(r) = N
  BY <1>1, <1>4
<1>6. /\ \A i \in 1..N - 1 : i \in 1..N /\ r[i] = ring[i + 1]
      /\ r[N] = ring[1]
  <2>1. N \in 1..N
    BY <1>1 DEF N
  <2> QED BY <2>1, <1>1, <1>2
<1>7. ASSUME NEW i \in 1..N, NEW j \in 1..N, r[i] = r[j] PROVE i = j
  <2>1. \A h \in 1..N : h = N \/ h \in 1..N-1
    BY <1>1
  <2>2. \A h \in 1..N-1 : h + 1 \in 1..N /\ h + 1 # 1
    BY <1>1
  <2>3. 1 \in 1..N
    BY <1>1 DEF N
  <2>4. \A g, h \in 1..N : ring[g] = ring[h] => g = h
    BY DEF N
  <2>5. CASE i = N
    BY <2>5, <2>1, <2>2, <2>3, <2>4, <1>6, <1>7
  <2>6. CASE i \in 1..N-1 /\ j = N
    BY <2>6, <2>2, <2>3, <2>4, <1>6, <1>7
  <2>7. CASE i \in 1..N-1 /\ j \in 1..N-1
    <3>1. i + 1 = j + 1
      BY <2>7, <2>2, <2>4, <1>6, <1>7
    <3> QED BY <3>1
  <2> QED BY <2>1, <2>5, <2>6, <2>7
<1> QED BY <1>5, <1>6, <1>7 DEF N, r

\* The queue goes on with b as its tail block, as the consumer knows it.
Continues(m, mask, ring, k, n, mask2, alloc, b, rec, snt, lf, lt) ==
  \E ring2, k2, start2 :
    /\ Queue(n, mask2, alloc, ring2, k2, start2, rec, snt)
    /\ ring2[Len(ring2)] = b /\ LocalFrontOK(n, mask2, b, lf)
    /\ ring2[k2] = ring[k] /\ LocalTailOK(n, mask2, ring[k], lt)
    /\ \A pc, c : ConsumerAt(m, mask, ring, k, pc, c) => ConsumerAt(n, mask2, ring2, k2, pc, c)

\* The producer puts element snt + 1 into the block after the tail block, which
\* becomes the tail block.
LEMMA QueueMoves ==
  ASSUME NEW m, NEW n, NEW mask, NEW alloc, NEW ring, NEW k, NEW start, NEW rec, NEW snt,
         Queue(m, mask, alloc, ring, k, start, rec, snt),
         MemoryOK(n), \A t \in Threads : Acq(n, t) = Acq(m, t),
         n.visible[frontBlock] = m.visible[frontBlock],
         NEW b, b = ring[1], Fills(m, n, mask, b, snt + 1), k > 1,
         \A c \in Blocks : c # b => SameBlock(m, n, c),
         NEW st, NEW r \in Nat, Appends(m, n, tailBlock, b, st, r), r >= m.writes[P],
         Last(n, tail(b)) <= r, Wri(n, b, T(m, b)) <= r,
         \A i \in 1..Depth(m, frontBlock) : Val(m, frontBlock, i) # b,
         Last(m, front(b)) <= Acq(m, P),
         NEW lf, LocalFrontOK(m, mask, b, lf), Span(lf, T(m, b), mask[b]) < mask[b],
         NEW lt, LocalTailOK(m, mask, ring[k], lt)
  PROVE  Continues(m, mask, ring, k, n, mask, alloc, b, rec, snt + 1, lf, lt)
<1> DEFINE N == Len(ring)
           R == Rotated(ring)
<1>1. /\ MemoryOK(m) /\ Ring(m, alloc, ring, k) /\ \A c \in 1..alloc : Block(m, mask, c)
      /\ \A c \in alloc+1..HeapBlocks : Fresh(m, c)
      /\ Elements(m, mask, ring, k, start, rec, snt)
      /\ TailBlocks(m, mask, ring, k) /\ FrontBlocks(m, ring, k)
      /\ \A i \in 1..k : Wri(m, ring[i], Members) <= Acq(m, C)
  BY QueueParts
<1>2. /\ alloc \in Nat /\ alloc <= HeapBlocks /\ 1..alloc \subseteq Blocks
      /\ N \in Nat /\ N >= 1 /\ k \in Nat /\ k >= 1 /\ k <= N
      /\ N \in 1..N /\ k \in 1..N /\ 1 \in 1..N
      /\ \A i \in 1..N : /\ ring[i] \in 1..alloc /\ ring[i] \in Blocks
                         /\ Block(m, mask, ring[i]) /\ Indices(m, mask, ring[i])
      /\ \A i, j \in 1..N : ring[i] = ring[j] => i = j
      /\ Own(m, tailBlock) = ring[N] /\ Own(m, frontBlock) = ring[k]
  BY QueueParts
<1>3. /\ R \in Seq(1..alloc) /\ Len(R) = N
      /\ \A i \in 1..N - 1 : R[i] = ring[i + 1]
      /\ R[N] = ring[1]
      /\ \A i, j \in 1..N : R[i] = R[j] => i = j
  <2>1. ring \in Seq(1..alloc)
    BY <1>1 DEF Ring
  <2> QED BY <2>1, <1>2, RotatedIs
<1> HIDE DEF N, R
<1>4. b \in Blocks /\ b \in 1..alloc /\ Block(m, mask, b) /\ Indices(m, mask, b)
  BY <1>2
<1>5. k - 1 \in 1..N - 1 /\ k - 1 \in 1..N /\ R[k - 1] = ring[k] /\ k - 1 \in Nat /\ (k - 1) + 1 = k
  BY <1>2, <1>3
<1>6. \A i \in 1..N : i # 1 => ring[i] # b /\ SameBlock(m, n, ring[i]) /\ SameSlots(m, n, ring[i])
  BY <1>2 DEF SameBlock
<1>7. \A i \in 1..N - 1 : /\ i + 1 \in 1..N /\ i \in 1..N /\ R[i] = ring[i + 1] /\ R[i] # b
                          /\ SameBlock(m, n, R[i]) /\ SameSlots(m, n, R[i])
                          /\ R[i] \in Blocks /\ Indices(m, mask, R[i])
  <2>1. \A i \in 1..N - 1 : i + 1 \in 1..N /\ i + 1 # 1 /\ i \in 1..N
    BY <1>2
  <2> QED BY <2>1, <1>2, <1>3, <1>6, SMTT(30)
<1>8. \A i \in 1..N : i \in 1..N - 1 \/ i = N
  BY <1>2
<1>9. F(m, b) = T(m, b)
  <2>1. 1 \in 1..k-1
    BY <1>2
  <2> QED BY <2>1, EmptyBehind
<1>10. Own(n, frontBlock) = Own(m, frontBlock) /\ ring[k] # b
  BY <1>2 DEF Own
<1>11. /\ mask[b] \in Nat /\ mask[b] >= 1 /\ 0..mask[b] \subseteq Slots
       /\ F(m, b) \in 0..mask[b] /\ T(m, b) \in 0..mask[b]
  BY <1>1, <1>4, IndexFacts
<1>12. \A i \in 1..Depth(m, front(b)) : Span(Val(m, front(b), i), T(m, b), mask[b]) < mask[b]
  <2>1. front(b) \in Atomics /\ Other(WriterOf(front(b))) = P
    BY <1>4, AtomicFacts, ThreadFacts
  <2>2. Depth(m, front(b)) = 1 /\ Val(m, front(b), 1) = F(m, b)
    BY <2>1, <1>1, OneMessage DEF F
  <2>3. Span(F(m, b), T(m, b), mask[b]) = 0
    BY <1>9, <1>11, SpanRange
  <2> QED BY <2>2, <2>3, <1>11
<1>13. /\ Block(n, mask, b)
       /\ F(n, b) = F(m, b) /\ T(n, b) = Wrap(T(m, b), mask[b])
       /\ Span(F(n, b), T(n, b), mask[b]) = Span(F(m, b), T(m, b), mask[b]) + 1
       /\ F(n, b) # T(n, b)
       /\ \A s \in 0..mask[b] :
              Span(F(n, b), s, mask[b]) < Span(F(n, b), T(n, b), mask[b])
                <=> (s = T(m, b) \/ Span(F(m, b), s, mask[b]) < Span(F(m, b), T(m, b), mask[b]))
  BY <1>1, <1>4, <1>10, <1>12, BlockFills DEF Fills
<1>14. Span(F(m, b), T(m, b), mask[b]) = 0 /\ Span(F(n, b), T(n, b), mask[b]) = 1
  <2>1. Span(F(m, b), T(m, b), mask[b]) = 0
    BY <1>9, <1>11, SpanRange
  <2> QED BY <2>1, <1>13
<1>15. \A c \in 1..alloc : Block(n, mask, c)
  <2> SUFFICES ASSUME NEW c \in 1..alloc, c # b PROVE Block(n, mask, c)
    BY <1>13
  <2>1. c \in Blocks /\ SameSlots(m, n, c)
    BY <1>2 DEF SameBlock
  <2> QED BY <2>1, <1>1, <1>10, BlockSame
<1>16. /\ tailBlock \in Atomics /\ Depth(m, tailBlock) \in Nat /\ Depth(m, tailBlock) >= 1
       /\ Depth(m, tailBlock) \in 1..Depth(m, tailBlock)
       /\ Own(m, tailBlock) = Val(m, tailBlock, Depth(m, tailBlock))
       /\ m.writes[P] \in Nat /\ Acq(m, C) \in Nat /\ Acq(m, C) <= m.writes[P]
  <2>1. tailBlock \in Atomics
    BY AtomicFacts
  <2>2. /\ Depth(m, tailBlock) \in Nat /\ Depth(m, tailBlock) >= 1
        /\ Own(m, tailBlock) = Val(m, tailBlock, Depth(m, tailBlock))
    BY <2>1, <1>1, MemoryFacts
  <2>3. m.writes[P] \in Nat /\ Acq(m, C) \in Nat /\ Acq(m, C) <= m.writes[P]
    BY <1>1, MemoryFacts, ThreadFacts
  <2> QED BY <2>1, <2>2, <2>3
<1>17. /\ Depth(n, tailBlock) = Depth(m, tailBlock) + 1
       /\ Own(n, tailBlock) = b
       /\ Val(n, tailBlock, Depth(n, tailBlock)) = b /\ Rel(n, tailBlock, Depth(n, tailBlock)) = r
       /\ \A i \in 1..Depth(m, tailBlock) :
            /\ Val(n, tailBlock, i) = Val(m, tailBlock, i) /\ Rel(n, tailBlock, i) = Rel(m, tailBlock, i)
       /\ \A i \in 1..Depth(n, tailBlock) : i \in 1..Depth(m, tailBlock) \/ i = Depth(n, tailBlock)
  BY <1>16, AppendFacts
<1>18. \A i \in 1..N : Own(n, next(ring[i])) = Own(m, next(ring[i])) /\ Last(n, next(ring[i])) = Last(m, next(ring[i]))
  <2>1. Own(n, next(b)) = Own(m, next(b)) /\ Last(n, next(b)) = Last(m, next(b))
    BY SameFacts DEF Fills, FillsSlots
  <2> QED BY <2>1, <1>6, SameBlockFacts
<1>19. Ring(n, alloc, R, k - 1)
  <2>1. \A i \in 1..N : Own(m, next(ring[i])) = ring[IF i = N THEN 1 ELSE i + 1]
    BY <1>1 DEF Ring, N
  <2>2. ASSUME NEW i \in 1..N - 1 PROVE Own(n, next(R[i])) = R[i + 1]
    <3>1. R[i] = ring[i + 1] /\ i + 1 \in 1..N /\ Own(n, next(R[i])) = ring[IF i + 1 = N THEN 1 ELSE (i + 1) + 1]
      BY <2>1, <1>7, <1>18
    <3>2. CASE i + 1 = N
      BY <3>1, <3>2, <1>3
    <3>3. CASE i + 1 # N
      <4>1. i + 1 \in 1..N-1
        BY <3>3, <1>2
      <4> QED BY <4>1, <3>1, <3>3, <1>3
    <3> QED BY <3>2, <3>3
  <2>3. Own(n, next(R[N])) = R[1]
    <3>1. 1 \in 1..N - 1 /\ N # 1
      BY <1>2
    <3>2. Own(n, next(ring[1])) = ring[2]
      BY <3>1, <2>1, <1>2, <1>18
    <3> QED BY <3>1, <3>2, <1>3
  <2>4. \A i \in 1..N : Own(n, next(R[i])) = R[IF i = N THEN 1 ELSE i + 1]
    <3> SUFFICES ASSUME NEW i \in 1..N PROVE Own(n, next(R[i])) = R[IF i = N THEN 1 ELSE i + 1]
      OBVIOUS
    <3>1. CASE i = N
      BY <3>1, <2>3
    <3>2. CASE i # N
      BY <3>2, <2>2, <1>8
    <3> QED BY <3>1, <3>2
  <2>5. Own(n, tailBlock) = R[N] /\ Own(n, frontBlock) = R[k - 1]
    BY <1>2, <1>3, <1>5, <1>10, <1>17
  <2> QED BY <2>4, <2>5, <1>2, <1>3, <1>5 DEF Ring
<1>20. \A c \in alloc+1..HeapBlocks : Fresh(n, c)
  <2> SUFFICES ASSUME NEW c \in alloc+1..HeapBlocks PROVE Fresh(n, c)
    OBVIOUS
  <2>1. c \in Blocks /\ c # b
    BY <1>2, <1>4, SizesPositive DEF Blocks
  <2>2. SameBlock(m, n, c) /\ Fresh(m, c)
    BY <2>1, <1>1
  <2> QED BY <2>2, SameBlockFacts DEF Fresh
<1> DEFINE start2 == [i \in 1..N+1 |-> IF i = N + 1 THEN snt + 2 ELSE start[i + 1]]
<1>21. Elements(n, mask, R, k - 1, start2, rec, snt + 1)
  <2>1. /\ rec \in Nat /\ snt \in Nat /\ start \in [1..N+1 -> Nat]
        /\ \A i, j \in 1..N+1 : i <= j => start[i] <= start[j]
        /\ \A i \in 1..k : start[i] = rec + 1
        /\ start[N + 1] = snt + 1
        /\ \A i \in 1..N :
             /\ start[i + 1] = start[i] + Span(F(m, ring[i]), T(m, ring[i]), mask[ring[i]])
             /\ i > k => F(m, ring[i]) # T(m, ring[i])
             /\ \A s \in 0..mask[ring[i]] :
                  Span(F(m, ring[i]), s, mask[ring[i]]) < Span(F(m, ring[i]), T(m, ring[i]), mask[ring[i]])
                    => El(m, ring[i], s) = start[i] + Span(F(m, ring[i]), s, mask[ring[i]])
    BY <1>1 DEF Elements, N
  <2>2. /\ start2 \in [1..N+1 -> Nat] /\ start2[N + 1] = snt + 2
        /\ \A i \in 1..N : start2[i] = start[i + 1] /\ i + 1 \in 1..N+1
        /\ start2[N] = snt + 1
    <3>1. \A i \in 1..N : i # N + 1 /\ i + 1 \in 1..N+1 /\ i \in 1..N+1
      BY <1>2
    <3>2. \A i \in 1..N+1 : i # N + 1 => i \in 1..N
      BY <1>2
    <3>3. N + 1 \in 1..N+1
      BY <1>2
    <3>4. \A i \in 1..N+1 : (IF i = N + 1 THEN snt + 2 ELSE start[i + 1]) \in Nat
      BY <3>1, <3>2, <2>1
    <3>5. start2 \in [1..N+1 -> Nat]
      BY <3>4
    <3>6. start2[N + 1] = snt + 2
      BY <3>3
    <3>7. \A i \in 1..N : start2[i] = start[i + 1] /\ i + 1 \in 1..N+1
      BY <3>1
    <3>8. start2[N] = snt + 1
      BY <3>7, <2>1, <1>2
    <3> QED BY <3>5, <3>6, <3>7, <3>8
  <2> HIDE DEF start2
  <2>3. \A i, j \in 1..N+1 : i <= j => start2[i] <= start2[j]
    <3> SUFFICES ASSUME NEW i \in 1..N+1, NEW j \in 1..N+1, i <= j PROVE start2[i] <= start2[j]
      OBVIOUS
    <3>1. CASE j = N + 1
      <4>1. CASE i = N + 1
        BY <4>1, <3>1, <2>1, <2>2
      <4>2. CASE i # N + 1
        <5>1. i \in 1..N
          BY <4>2, <1>2
        <5>2. start2[i] = start[i + 1] /\ start[i + 1] <= start[N + 1] /\ start[i + 1] \in Nat
          <6>1. i + 1 \in 1..N+1 /\ N + 1 \in 1..N+1 /\ i + 1 <= N + 1
            BY <5>1, <1>2
          <6> QED BY <6>1, <5>1, <2>1, <2>2
        <5> QED BY <5>2, <3>1, <2>1, <2>2
      <4> QED BY <4>1, <4>2
    <3>2. CASE j # N + 1
      <4>1. i \in 1..N /\ j \in 1..N /\ i + 1 \in 1..N+1 /\ j + 1 \in 1..N+1 /\ i + 1 <= j + 1
        BY <3>2, <1>2
      <4>2. start2[i] = start[i + 1] /\ start2[j] = start[j + 1] /\ start[i + 1] <= start[j + 1]
        BY <4>1, <2>1, <2>2
      <4> QED BY <4>2
    <3> QED BY <3>1, <3>2
  <2>4. \A i \in 1..k - 1 : start2[i] = rec + 1
    <3>1. \A i \in 1..k - 1 : i \in 1..N /\ i + 1 \in 1..k
      BY <1>2
    <3> QED BY <3>1, <2>1, <2>2
  <2>5. ASSUME NEW i \in 1..N - 1
        PROVE  /\ start2[i + 1] = start2[i] + Span(F(n, R[i]), T(n, R[i]), mask[R[i]])
               /\ i > k - 1 => F(n, R[i]) # T(n, R[i])
               /\ \A s \in 0..mask[R[i]] :
                    Span(F(n, R[i]), s, mask[R[i]]) < Span(F(n, R[i]), T(n, R[i]), mask[R[i]])
                      => El(n, R[i], s) = start2[i] + Span(F(n, R[i]), s, mask[R[i]])
    <3>1. i + 1 \in 1..N /\ i \in 1..N /\ R[i] = ring[i + 1] /\ SameSlots(m, n, R[i])
      BY <1>7
    <3>2. start2[i] = start[i + 1] /\ start2[i + 1] = start[(i + 1) + 1]
      BY <3>1, <2>2
    <3>3. F(n, R[i]) = F(m, R[i]) /\ T(n, R[i]) = T(m, R[i])
      BY <3>1, SameSlotsFacts
    <3>4. \A s \in 0..mask[R[i]] : El(n, R[i], s) = El(m, R[i], s)
      <4>1. 0..mask[R[i]] \subseteq Slots
        BY <1>1, <1>7, IndexFacts
      <4> QED BY <4>1, <3>1, SameSlotsFacts
    <3>5. i > k - 1 => i + 1 > k
      BY <1>2
    <3> QED BY <3>1, <3>2, <3>3, <3>4, <3>5, <2>1
  <2>6. /\ start2[N + 1] = start2[N] + Span(F(n, b), T(n, b), mask[b])
        /\ \A s \in 0..mask[b] :
             Span(F(n, b), s, mask[b]) < Span(F(n, b), T(n, b), mask[b])
               => El(n, b, s) = start2[N] + Span(F(n, b), s, mask[b])
    <3>1. start2[N + 1] = start2[N] + Span(F(n, b), T(n, b), mask[b])
      BY <2>1, <2>2, <1>14
    <3>2. ASSUME NEW s \in 0..mask[b], Span(F(n, b), s, mask[b]) < Span(F(n, b), T(n, b), mask[b])
          PROVE  El(n, b, s) = start2[N] + Span(F(n, b), s, mask[b])
      <4>1. s = T(m, b)
        <5>1. s = T(m, b) \/ Span(F(m, b), s, mask[b]) < 0
          BY <3>2, <1>13, <1>14
        <5>2. Span(F(m, b), s, mask[b]) \in 0..mask[b]
          BY <1>11, SpanRange
        <5> QED BY <5>1, <5>2, <1>11
      <4>2. El(n, b, s) = snt + 1
        BY <4>1 DEF Fills, FillsSlots
      <4>3. Span(F(n, b), s, mask[b]) = 0
        BY <4>1, <1>13, <1>14
      <4> QED BY <4>2, <4>3, <2>1, <2>2
    <3> QED BY <3>1, <3>2
  <2>7. ASSUME NEW i \in 1..N
        PROVE  /\ start2[i + 1] = start2[i] + Span(F(n, R[i]), T(n, R[i]), mask[R[i]])
               /\ i > k - 1 => F(n, R[i]) # T(n, R[i])
               /\ \A s \in 0..mask[R[i]] :
                    Span(F(n, R[i]), s, mask[R[i]]) < Span(F(n, R[i]), T(n, R[i]), mask[R[i]])
                      => El(n, R[i], s) = start2[i] + Span(F(n, R[i]), s, mask[R[i]])
    <3>1. CASE i = N
      BY <3>1, <2>6, <1>3, <1>13
    <3>2. CASE i # N
      BY <3>2, <2>5, <1>8
    <3> QED BY <3>1, <3>2
  <2>8. snt + 1 \in Nat /\ start2[N + 1] = (snt + 1) + 1
    BY <2>1, <2>2
  <2> QED BY <2>1, <2>2, <2>3, <2>4, <2>7, <2>8, <1>3 DEF Elements
<1> HIDE DEF start2
<1>22. Acq(n, C) = Acq(m, C) /\ Acq(n, P) = Acq(m, P)
  BY ThreadFacts
<1>23. /\ Depth(n, frontBlock) = Depth(m, frontBlock)
       /\ \A i : Val(n, frontBlock, i) = Val(m, frontBlock, i) /\ Rel(n, frontBlock, i) = Rel(m, frontBlock, i)
  BY DEF Depth, Val, Rel
<1>24. /\ \A i \in 1..Depth(m, tailBlock) : Upto(n, C, tailBlock, i) = Upto(m, C, tailBlock, i)
       /\ \A i : Upto(n, P, frontBlock, i) = Upto(m, P, frontBlock, i)
  BY <1>17, <1>22, <1>23, UptoSame
<1>25. Upto(n, C, tailBlock, Depth(n, tailBlock)) >= r /\ Upto(n, C, tailBlock, Depth(n, tailBlock)) \in Nat
  BY <1>16, <1>17, <1>22 DEF Upto
\* What a tail block told before, it tells still.
<1>26. ASSUME NEW i \in 1..Depth(m, tailBlock)
       PROVE  \E q \in k-1..N-1 :
                 /\ Val(m, tailBlock, i) = R[q]
                 /\ \A j \in k-1..q-1 : Closed(n, R[j], Upto(m, C, tailBlock, i))
                 /\ \A j \in k..q : Entered(m, mask, R[j], Upto(m, C, tailBlock, i)) /\ Entered(n, mask, R[j], Upto(m, C, tailBlock, i))
  <2>1. PICK q \in k..N :
                 /\ Val(m, tailBlock, i) = ring[q]
                 /\ \A j \in k..q-1 : Closed(m, ring[j], Upto(m, C, tailBlock, i))
                 /\ \A j \in k+1..q : Entered(m, mask, ring[j], Upto(m, C, tailBlock, i))
    BY <1>1 DEF TailBlocks, N
  <2>2. q - 1 \in k-1..N-1 /\ q - 1 \in 1..N-1 /\ (q - 1) + 1 = q
    BY <1>2
  <2>3. Val(m, tailBlock, i) = R[q - 1]
    BY <2>1, <2>2, <1>7
  <2>4. ASSUME NEW j \in k-1..(q-1)-1 PROVE Closed(n, R[j], Upto(m, C, tailBlock, i))
    <3>1. j \in 1..N-1 /\ j + 1 \in k..q-1
      BY <1>2
    <3>2. Closed(m, R[j], Upto(m, C, tailBlock, i)) /\ SameBlock(m, n, R[j])
      BY <3>1, <2>1, <1>7
    <3> QED BY <3>2, ClosedSame
  <2>5. ASSUME NEW j \in k..q-1
        PROVE  Entered(m, mask, R[j], Upto(m, C, tailBlock, i)) /\ Entered(n, mask, R[j], Upto(m, C, tailBlock, i))
    <3>1. j \in 1..N-1 /\ j + 1 \in k+1..q
      BY <1>2
    <3>2. /\ Entered(m, mask, R[j], Upto(m, C, tailBlock, i)) /\ SameSlots(m, n, R[j])
          /\ R[j] \in Blocks /\ Indices(m, mask, R[j])
      BY <3>1, <2>1, <1>7
    <3> QED BY <3>2, <1>1, EnteredSame
  <2> QED BY <2>2, <2>3, <2>4, <2>5
\* The new one comes with all that the producer has done.
<1>27. \A j \in k-1..N-1 : Closed(n, R[j], r)
  <2> SUFFICES ASSUME NEW j \in k-1..N-1 PROVE Closed(n, R[j], r)
    OBVIOUS
  <2>1. j \in 1..N-1
    BY <1>2
  <2>2. R[j] \in Blocks /\ SameBlock(m, n, R[j])
    BY <2>1, <1>7
  <2>3. \A x \in Atomics : WriterOf(x) = P => Last(m, x) <= m.writes[P] /\ Last(m, x) \in Nat
    <3> SUFFICES ASSUME NEW x \in Atomics, WriterOf(x) = P PROVE Last(m, x) <= m.writes[P] /\ Last(m, x) \in Nat
      OBVIOUS
    <3>1. Depth(m, x) \in Nat /\ Depth(m, x) >= 1
      BY <1>1, MemoryFacts
    <3>2. Depth(m, x) \in 1..Depth(m, x)
      BY <3>1
    <3> QED BY <3>2, <1>1, MemoryFacts DEF Last
  <2>4. /\ Last(m, tail(R[j])) <= m.writes[P] /\ Last(m, tail(R[j])) \in Nat
        /\ Last(m, next(R[j])) <= m.writes[P] /\ Last(m, next(R[j])) \in Nat
    BY <2>2, <2>3, AtomicFacts
  <2>5. Closed(m, R[j], r)
    BY <2>4, <1>16 DEF Closed
  <2> QED BY <2>2, <2>5, ClosedSame
<1>28. \A j \in k..N : Entered(n, mask, R[j], r)
  <2>1. ASSUME NEW j \in k..N-1 PROVE Entered(n, mask, R[j], r)
    <3> DEFINE v == Upto(m, C, tailBlock, Depth(m, tailBlock))
    <3>1. v \in Nat /\ v <= m.writes[P]
      <4>1. WriterOf(tailBlock) = Other(C)
        BY AtomicFacts, ThreadFacts
      <4> QED BY <4>1, <1>1, <1>16, UptoBound, ThreadFacts
    <3>2. PICK q \in k-1..N-1 :
                 /\ Val(m, tailBlock, Depth(m, tailBlock)) = R[q]
                 /\ \A h \in k..q : Entered(m, mask, R[h], v)
      BY <1>16, <1>26
    <3> HIDE DEF v
    <3>3. q = N - 1
      <4>1. N - 1 \in 1..N-1 /\ (N - 1) + 1 = N /\ q \in 1..N-1
        BY <1>2
      <4>2. R[N - 1] = ring[N] /\ N - 1 \in 1..N /\ q \in 1..N
        BY <4>1, <1>7
      <4>3. R[q] = R[N - 1]
        BY <4>2, <3>2, <1>2, <1>16
      <4> QED BY <4>2, <4>3, <1>3
    <3>4. Entered(m, mask, R[j], v)
      BY <3>2, <3>3
    <3>5. j \in 1..N-1
      BY <1>2
    <3>6. R[j] \in Blocks /\ Indices(m, mask, R[j]) /\ SameSlots(m, n, R[j])
      BY <3>5, <1>7
    <3>7. Entered(m, mask, R[j], r)
      <4>1. r >= v
        BY <3>1, <1>16
      <4> QED BY <4>1, <3>1, <3>4, <3>6, <1>1, EnteredLater
    <3> QED BY <3>6, <3>7, <1>1, EnteredSame
  <2>2. Entered(n, mask, b, r)
    <3>1. Wri(n, b, Members) <= r
      <4>1. Wri(n, b, Members) = Wri(m, b, Members)
        <5>1. T(m, b) \in Slots
          BY <1>11
        <5> QED BY <5>1, AtomicFacts DEF Fills, FillsSlots, Wri
      <4>2. Wri(m, b, Members) <= Acq(m, C) /\ Wri(m, b, Members) \in Nat
        <5>1. 1 \in 1..k
          BY <1>2
        <5> QED BY <5>1, <1>1, <1>4, PlainFacts
      <4> QED BY <4>1, <4>2, <1>16
    <3>2. Wri(n, b, F(n, b)) <= r
      BY <1>9, <1>13
    <3>3. ASSUME NEW i \in 1..Depth(n, tail(b)),
                 \A j \in i+1..Depth(n, tail(b)) : Sto(n, tail(b), j) > r
          PROVE  Val(n, tail(b), i) # F(n, b)
      <4>1. tail(b) \in Atomics
        BY <1>4, AtomicFacts
      <4>2. Depth(n, tail(b)) \in Nat /\ Depth(n, tail(b)) >= 1 /\ Own(n, tail(b)) = Val(n, tail(b), Depth(n, tail(b)))
        BY <4>1, MemoryFacts
      <4>3. Depth(n, tail(b)) \in 1..Depth(n, tail(b))
        BY <4>2
      <4>4. Sto(n, tail(b), Depth(n, tail(b))) \in Nat /\ Sto(n, tail(b), Depth(n, tail(b))) <= r
        BY <4>1, <4>3, MemoryFacts DEF Last
      <4>5. ~ (Depth(n, tail(b)) \in i+1..Depth(n, tail(b)))
        BY <4>4, <3>3
      <4>6. i = Depth(n, tail(b))
        BY <4>2, <4>5
      <4> QED BY <4>2, <4>6, <1>13 DEF T
    <3> QED BY <3>1, <3>2, <3>3 DEF Entered
  <2>3. \A j \in k..N : j \in k..N-1 \/ j = N
    BY <1>2
  <2> QED BY <2>1, <2>2, <2>3, <1>3
<1>29. TailBlocks(n, mask, R, k - 1)
  <2>1. ASSUME NEW i \in 1..Depth(m, tailBlock)
        PROVE  \E q \in k-1..N-1 :
                 /\ Val(n, tailBlock, i) = R[q]
                 /\ \A j \in k-1..q-1 : Closed(n, R[j], Upto(n, C, tailBlock, i))
                 /\ \A j \in k..q : Entered(n, mask, R[j], Upto(n, C, tailBlock, i))
    <3>1. Val(n, tailBlock, i) = Val(m, tailBlock, i) /\ Upto(n, C, tailBlock, i) = Upto(m, C, tailBlock, i)
      BY <1>17, <1>24
    <3> QED BY <3>1, <1>26
  <2>2. ASSUME NEW i \in 1..Depth(n, tailBlock)
        PROVE  \E q \in k-1..N :
                 /\ Val(n, tailBlock, i) = R[q]
                 /\ \A j \in k-1..q-1 : Closed(n, R[j], Upto(n, C, tailBlock, i))
                 /\ \A j \in (k-1)+1..q : Entered(n, mask, R[j], Upto(n, C, tailBlock, i))
    <3>1. CASE i \in 1..Depth(m, tailBlock)
      <4>1. \A q \in k-1..N-1 : q \in k-1..N
        BY <1>2
      <4> QED BY <3>1, <4>1, <2>1, <1>5
    <3>2. CASE i = Depth(n, tailBlock)
      <4> DEFINE w == Upto(n, C, tailBlock, i)
      <4>1. w \in Nat /\ w >= r
        BY <3>2, <1>25
      <4> HIDE DEF w
      <4>2. ASSUME NEW j \in k-1..N-1 PROVE Closed(n, R[j], w)
        <5>1. Closed(n, R[j], r)
          BY <1>27
        <5>2. j \in 1..N-1
          BY <1>2
        <5>3. R[j] \in Blocks
          BY <5>2, <1>7
        <5>4. tail(R[j]) \in Atomics /\ next(R[j]) \in Atomics
          BY <5>3, AtomicFacts
        <5>5. \A x \in Atomics : Last(n, x) \in Nat
          <6> SUFFICES ASSUME NEW x \in Atomics PROVE Last(n, x) \in Nat
            OBVIOUS
          <6>1. Depth(n, x) \in Nat /\ Depth(n, x) >= 1
            BY MemoryFacts
          <6>2. Depth(n, x) \in 1..Depth(n, x)
            BY <6>1
          <6> QED BY <6>2, MemoryFacts DEF Last
        <5> QED BY <5>1, <5>4, <5>5, <4>1 DEF Closed
      <4>3. ASSUME NEW j \in k..N PROVE Entered(n, mask, R[j], w)
        <5>1. R[j] \in Blocks /\ Indices(n, mask, R[j])
          <6>1. j \in 1..N
            BY <1>2
          <6>2. CASE j = N
            BY <6>2, <1>2, <1>3, <1>15 DEF Block
          <6>3. CASE j # N
            <7>1. j \in 1..N-1
              BY <6>1, <6>3, <1>8
            <7>2. R[j] = ring[j + 1] /\ j + 1 \in 1..N
              BY <7>1, <1>7
            <7> QED BY <7>2, <1>2, <1>15 DEF Block
          <6> QED BY <6>2, <6>3
        <5> QED BY <5>1, <4>1, <1>28, EnteredLater
      <4>4. N \in k-1..N
        BY <1>2
      <4> QED BY <4>2, <4>3, <4>4, <3>2, <1>3, <1>5, <1>17 DEF w
    <3> QED BY <3>1, <3>2, <1>17
  <2>3. ASSUME NEW i \in 1..Depth(n, tailBlock), NEW j \in 1..Depth(n, tailBlock),
               NEW p \in 1..N, NEW q \in 1..N,
               i <= j, Val(n, tailBlock, i) = R[p], Val(n, tailBlock, j) = R[q]
        PROVE  p <= q
    <3>1. CASE j = Depth(n, tailBlock)
      <4>1. q = N
        BY <3>1, <2>3, <1>2, <1>3, <1>17
      <4> QED BY <4>1, <1>2
    <3>2. CASE i \in 1..Depth(m, tailBlock) /\ j \in 1..Depth(m, tailBlock)
      <4>1. \A h \in 1..Depth(m, tailBlock) : \A g \in 1..N : Val(n, tailBlock, h) = R[g] => g \in 1..N-1
        <5> SUFFICES ASSUME NEW h \in 1..Depth(m, tailBlock), NEW g \in 1..N, Val(n, tailBlock, h) = R[g] PROVE g \in 1..N-1
          OBVIOUS
        <5>1. PICK f \in k-1..N-1 : Val(n, tailBlock, h) = R[f]
          BY <2>1
        <5>2. f \in 1..N-1 /\ f \in 1..N
          BY <1>2
        <5> QED BY <5>1, <5>2, <1>3
      <4>2. p \in 1..N-1 /\ q \in 1..N-1
        BY <4>1, <3>2, <2>3
      <4>3. Val(m, tailBlock, i) = ring[p + 1] /\ Val(m, tailBlock, j) = ring[q + 1] /\ p + 1 \in 1..N /\ q + 1 \in 1..N
        BY <4>2, <3>2, <2>3, <1>7, <1>17
      <4>4. p + 1 <= q + 1
        BY <4>3, <3>2, <2>3, <1>1 DEF TailBlocks, N
      <4> QED BY <4>4
    <3>3. CASE i = Depth(n, tailBlock)
      <4>1. j = i
        BY <3>3, <2>3, <1>16, <1>17
      <4> QED BY <4>1, <3>3, <3>1
    <3> QED BY <3>1, <3>2, <3>3, <1>17
  <2> QED BY <2>2, <2>3, <1>3 DEF TailBlocks
<1>30. FrontBlocks(n, R, k - 1)
  <2>1. ASSUME NEW i \in 1..Depth(m, frontBlock)
        PROVE  \E q \in 1..k-1 : /\ Val(m, frontBlock, i) = R[q]
                                 /\ \A j \in 1..q-1 : Last(n, front(R[j])) <= Upto(m, P, frontBlock, i)
    <3>1. PICK q \in 1..k : /\ Val(m, frontBlock, i) = ring[q]
                            /\ \A j \in 1..q-1 : Last(m, front(ring[j])) <= Upto(m, P, frontBlock, i)
      BY <1>1 DEF FrontBlocks
    <3>2. q # 1
      BY <3>1
    <3>3. q - 1 \in 1..k-1 /\ q - 1 \in 1..N-1 /\ (q - 1) + 1 = q
      BY <3>2, <1>2
    <3>4. ASSUME NEW j \in 1..(q-1)-1 PROVE Last(n, front(R[j])) <= Upto(m, P, frontBlock, i)
      <4>1. j \in 1..N-1 /\ j + 1 \in 1..q-1
        BY <1>2
      <4>2. Last(n, front(R[j])) = Last(m, front(R[j]))
        BY <4>1, <1>7, SameSlotsFacts
      <4> QED BY <4>1, <4>2, <3>1, <1>7
    <3> QED BY <3>1, <3>3, <3>4, <1>7
  <2>2. ASSUME NEW i \in 1..Depth(m, frontBlock), NEW j \in 1..Depth(m, frontBlock),
               NEW p \in 1..N, NEW q \in 1..N,
               i <= j, Val(m, frontBlock, i) = R[p], Val(m, frontBlock, j) = R[q]
        PROVE  p <= q
    <3>1. p # N /\ q # N
      BY <2>2, <1>3
    <3>2. p \in 1..N-1 /\ q \in 1..N-1
      BY <3>1, <1>8
    <3>3. Val(m, frontBlock, i) = ring[p + 1] /\ Val(m, frontBlock, j) = ring[q + 1] /\ p + 1 \in 1..N /\ q + 1 \in 1..N
      BY <3>2, <2>2, <1>7
    <3>4. p + 1 <= q + 1
      <4>1. \A h, j2 \in 1..Depth(m, frontBlock) : \A p2, q2 \in 1..N :
              h <= j2 /\ Val(m, frontBlock, h) = ring[p2] /\ Val(m, frontBlock, j2) = ring[q2] => p2 <= q2
        BY <1>1 DEF FrontBlocks, N
      <4> QED BY <4>1, <3>3, <2>2
    <3> QED BY <3>4, <3>2
  <2> QED BY <2>1, <2>2, <1>3, <1>23, <1>24 DEF FrontBlocks
<1>31. \A i \in 1..k - 1 : Wri(n, R[i], Members) <= Acq(n, C)
  <2> SUFFICES ASSUME NEW i \in 1..k - 1 PROVE Wri(n, R[i], Members) <= Acq(n, C)
    OBVIOUS
  <2>1. i \in 1..N-1 /\ i + 1 \in 1..k
    BY <1>2
  <2>2. Wri(n, R[i], Members) = Wri(m, R[i], Members)
    BY <2>1, <1>7, SameSlotsFacts
  <2> QED BY <2>1, <2>2, <1>1, <1>7, <1>22
<1>32. Queue(n, mask, alloc, R, k - 1, start2, rec, snt + 1)
  BY <1>15, <1>19, <1>20, <1>21, <1>29, <1>30, <1>31 DEF Queue
<1>33. LocalFrontOK(n, mask, b, lf)
  BY <1>1, <1>4, <1>12, <1>13, <1>22, LocalFrontFills
<1>34. LocalTailOK(n, mask, ring[k], lt)
  <2>1. SameSlots(m, n, ring[k]) /\ ring[k] \in Blocks /\ Indices(m, mask, ring[k])
    BY <1>2, <1>6
  <2> QED BY <2>1, <1>1, <1>22, LocalTailSame
<1>35. ASSUME NEW pc, NEW c, ConsumerAt(m, mask, ring, k, pc, c) PROVE ConsumerAt(n, mask, R, k - 1, pc, c)
  <2>1. SameBlock(m, n, ring[k]) /\ F(n, ring[k]) = F(m, ring[k]) /\ T(n, ring[k]) = T(m, ring[k])
    BY <1>2, <1>6, SameBlockFacts
  <2>2. ASSUME k < N, Entered(m, mask, ring[k + 1], Acq(m, C))
        PROVE  R[(k - 1) + 1] = ring[k + 1] /\ Entered(n, mask, ring[k + 1], Acq(m, C))
    <3>1. k \in 1..N-1 /\ (k - 1) + 1 = k
      BY <2>2, <1>2
    <3>2. R[k] = ring[k + 1] /\ SameSlots(m, n, R[k]) /\ R[k] \in Blocks /\ Indices(m, mask, R[k])
      BY <3>1, <1>7
    <3> QED BY <3>1, <3>2, <2>2, <1>1, EnteredSame
  <2>3. ASSUME Closed(m, ring[k], Acq(m, C)) PROVE Closed(n, ring[k], Acq(m, C))
    BY <2>1, <2>3, ClosedSame
  <2>4. ASSUME \A i \in 1..Depth(m, tailBlock) : Val(m, tailBlock, i) # ring[k]
        PROVE  \A i \in 1..Depth(n, tailBlock) : Val(n, tailBlock, i) # ring[k]
    BY <2>4, <1>10, <1>17
  <2>5. k < N => k - 1 < N
    BY <1>2
  <2>6. /\ pc \in {"tail", "tailBlock", "tailAgain", "next"} => c = ring[k]
        /\ pc \in {"tailAgain", "next", "nextTail"} =>
             /\ k < N
             /\ \A i \in 1..Depth(m, tailBlock) : Val(m, tailBlock, i) # ring[k]
             /\ Closed(m, ring[k], Acq(m, C))
             /\ Entered(m, mask, ring[k + 1], Acq(m, C))
        /\ pc \in {"next", "nextTail"} => F(m, ring[k]) = T(m, ring[k])
        /\ pc = "nextTail" => c = ring[k + 1]
    BY <1>35 DEF ConsumerAt, N
  <2>7. pc \in {"tailAgain", "next", "nextTail"} =>
             /\ k - 1 < N /\ k < N /\ R[(k - 1) + 1] = ring[k + 1]
             /\ \A i \in 1..Depth(n, tailBlock) : Val(n, tailBlock, i) # ring[k]
             /\ Closed(n, ring[k], Acq(n, C))
             /\ Entered(n, mask, ring[k + 1], Acq(n, C))
    BY <2>2, <2>3, <2>4, <2>5, <2>6, <1>22
  <2> QED BY <2>1, <2>6, <2>7, <1>3, <1>5 DEF ConsumerAt
<1> QED BY <1>3, <1>5, <1>32, <1>33, <1>34, <1>35 DEF Continues

\* A block that malloc delivers is a block without elements.
LEMMA BlockFresh ==
  ASSUME NEW m, MemoryOK(m), NEW b \in Blocks, Fresh(m, b),
         NEW mask, mask[b] \in Nat, mask[b] >= 1, mask[b] < SlotBound
  PROVE  Block(m, mask, b) /\ F(m, b) = 0 /\ T(m, b) = 0
<1>1. /\ front(b) \in Atomics /\ tail(b) \in Atomics
      /\ Depth(m, front(b)) = 1 /\ Depth(m, tail(b)) = 1
      /\ Val(m, front(b), 1) = 0 /\ Val(m, tail(b), 1) = 0
  BY AtomicFacts DEF Fresh
<1>2. F(m, b) = 0 /\ T(m, b) = 0
  BY <1>1, MemoryFacts DEF F, T
<1>3. 0 \in 0..mask[b] /\ 0..mask[b] \subseteq Slots
  BY SizesPositive DEF Slots
<1>4. \A i \in 1..1 : i = 1
  OBVIOUS
<1>5. Indices(m, mask, b)
  BY <1>1, <1>3, <1>4 DEF Indices
<1>6. \A s \in 0..mask[b] : Span(0, s, mask[b]) \in 0..mask[b] /\ Span(0, s, mask[b]) >= Span(0, 0, mask[b])
  <2>1. \A s \in 0..mask[b] : Span(0, s, mask[b]) \in 0..mask[b]
    BY <1>3, SpanRange
  <2>2. Span(0, 0, mask[b]) = 0
    BY <1>3, SpanRange
  <2> QED BY <2>1, <2>2
<1>7. TailsAdvance(m, mask, b)
  BY <1>1, <1>2, <1>3, <1>4, <1>6 DEF TailsAdvance
<1>8. FrontsAdvance(m, mask, b)
  BY <1>1, <1>2, <1>3, <1>4, <1>6 DEF FrontsAdvance
<1>9. TailsCoverSlots(m, mask, b)
  <2> SUFFICES ASSUME NEW i \in 1..1, NEW s \in 0..mask[b], Span(0, s, mask[b]) < Span(0, 0, mask[b]) PROVE FALSE
    BY <1>1, <1>2, <1>4 DEF TailsCoverSlots
  <2>1. Span(0, 0, mask[b]) \in 0..mask[b]
    BY <1>3, <1>6
  <2> QED BY <2>1, <1>6
<1>10. FrontsCoverSlots(m, mask, b)
  <2>1. \A s \in 0..mask[b] : Wri(m, b, s) = 0
    BY <1>3 DEF Fresh
  <2>2. Acq(m, P) \in Nat
    BY MemoryFacts, ThreadFacts
  <2> QED BY <2>1, <2>2 DEF FrontsCoverSlots
<1>11. FreeSlots(m, mask, b)
  BY <1>3 DEF FreeSlots, Fresh
<1> QED BY <1>2, <1>5, <1>7, <1>8, <1>9, <1>10, <1>11 DEF Block

\* The producer puts element snt + 1 into a new block behind the tail block b, and
\* the new block becomes the tail block.
LEMMA QueueGrows ==
  ASSUME NEW m, NEW n, NEW mask, NEW alloc, NEW ring, NEW k, NEW start, NEW rec, NEW snt,
         Queue(m, mask, alloc, ring, k, start, rec, snt),
         MemoryOK(n), \A t \in Threads : Acq(n, t) = Acq(m, t),
         n.visible[frontBlock] = m.visible[frontBlock],
         alloc < HeapBlocks, NEW new, new = alloc + 1, NEW b, b = ring[Len(ring)],
         NEW mask2, \A c \in 1..alloc : mask2[c] = mask[c],
         mask2[new] \in Nat, mask2[new] >= 1, mask2[new] < SlotBound,
         FillsSlots(m, n, mask2, new, snt + 1), Own(n, next(new)) = Own(m, next(b)),
         SameSlots(m, n, b), Own(n, next(b)) = new,
         \A c \in Blocks : c # b /\ c # new => SameBlock(m, n, c),
         NEW st, NEW r \in Nat, Appends(m, n, tailBlock, new, st, r), r >= m.writes[P],
         Last(n, next(b)) <= r, Last(n, tail(new)) <= r,
         Wri(n, new, 0) <= r, Wri(n, new, Members) <= r,
         NEW lt, LocalTailOK(m, mask, ring[k], lt)
  PROVE  Continues(m, mask, ring, k, n, mask2, alloc + 1, new, rec, snt + 1, 0, lt)
<1> DEFINE N == Len(ring)
           R == Append(ring, new)
<1>1. /\ MemoryOK(m) /\ Ring(m, alloc, ring, k) /\ \A c \in 1..alloc : Block(m, mask, c)
      /\ \A c \in alloc+1..HeapBlocks : Fresh(m, c)
      /\ Elements(m, mask, ring, k, start, rec, snt)
      /\ TailBlocks(m, mask, ring, k) /\ FrontBlocks(m, ring, k)
      /\ \A i \in 1..k : Wri(m, ring[i], Members) <= Acq(m, C)
  BY QueueParts
<1>2. /\ alloc \in Nat /\ alloc <= HeapBlocks /\ 1..alloc \subseteq Blocks
      /\ N \in Nat /\ N >= 1 /\ k \in Nat /\ k >= 1 /\ k <= N
      /\ N \in 1..N /\ k \in 1..N /\ 1 \in 1..N
      /\ \A i \in 1..N : /\ ring[i] \in 1..alloc /\ ring[i] \in Blocks
                         /\ Block(m, mask, ring[i]) /\ Indices(m, mask, ring[i])
      /\ \A i, j \in 1..N : ring[i] = ring[j] => i = j
      /\ Own(m, tailBlock) = ring[N] /\ Own(m, frontBlock) = ring[k]
  BY QueueParts
<1>3. /\ new \in Nat /\ HeapBlocks \in Nat /\ new \in alloc+1..HeapBlocks /\ new \in Blocks /\ new \in 1..alloc+1
      /\ \A c \in 1..alloc : c # new /\ c \in 1..alloc+1
      /\ \A c \in 1..alloc+1 : c \in 1..alloc \/ c = new
  BY <1>2, SizesPositive, SMTT(30) DEF Blocks
<1>4. /\ R \in Seq(1..alloc+1) /\ Len(R) = N + 1
      /\ \A i \in 1..N : R[i] = ring[i]
      /\ R[N + 1] = new
  <2>1. ring \in Seq(1..alloc+1)
    <3>1. ring \in Seq(1..alloc)
      BY <1>1 DEF Ring
    <3>2. 1..alloc \subseteq 1..alloc+1
      BY <1>2
    <3> QED BY <3>1, <3>2, SeqMonotonic
  <2> QED BY <2>1, <1>3, AppendIs
<1> HIDE DEF N, R
<1>5. /\ \A i \in 1..N : i \in 1..N+1 /\ R[i] = ring[i] /\ R[i] \in 1..alloc /\ R[i] # new
                         /\ R[i] \in Blocks /\ Indices(m, mask, R[i]) /\ mask2[R[i]] = mask[R[i]]
      /\ \A i \in 1..N+1 : i \in 1..N \/ i = N + 1
      /\ N + 1 \in 1..N+1 /\ ~ (N + 1 \in 1..N)
      /\ \A i \in k..N : i \in 1..N
  BY <1>2, <1>3, <1>4, SMTT(30)
<1>6. \A i, j \in 1..N+1 : R[i] = R[j] => i = j
  <2> SUFFICES ASSUME NEW i \in 1..N+1, NEW j \in 1..N+1, R[i] = R[j] PROVE i = j
    OBVIOUS
  <2>1. CASE i \in 1..N /\ j \in 1..N
    BY <2>1, <1>2, <1>4
  <2>2. CASE i = N + 1
    <3>1. j \notin 1..N
      BY <2>2, <1>4, <1>5
    <3> QED BY <3>1, <2>2, <1>5
  <2>3. CASE j = N + 1
    <3>1. i \notin 1..N
      BY <2>3, <1>4, <1>5
    <3> QED BY <3>1, <2>3, <1>5
  <2> QED BY <2>1, <2>2, <2>3, <1>5
<1>7. /\ \A i \in 1..N : SameSlots(m, n, R[i])
      /\ \A i \in 1..N : i # N => SameBlock(m, n, R[i])
      /\ b = R[N] /\ b \in 1..alloc /\ b \in Blocks
  <2>1. b = R[N] /\ b \in 1..alloc /\ b \in Blocks
    BY <1>2, <1>5 DEF N
  <2>2. \A i \in 1..N : i # N => R[i] # b
    BY <2>1, <1>2, <1>4, ZenonT(60)
  <2> QED BY <2>1, <2>2, <1>5 DEF SameBlock
<1>8. Fresh(m, new) /\ Block(m, mask2, new) /\ F(m, new) = 0 /\ T(m, new) = 0 /\ Indices(m, mask2, new)
  <2>1. Fresh(m, new) /\ Block(m, mask2, new) /\ F(m, new) = 0 /\ T(m, new) = 0
    BY <1>1, <1>3, BlockFresh
  <2> QED BY <2>1 DEF Block
<1>9. Own(n, frontBlock) = Own(m, frontBlock) /\ new # Own(m, frontBlock)
  BY <1>2, <1>5 DEF Own
<1>10. 0 \in 0..mask2[new] /\ 0..mask2[new] \subseteq Slots /\ Wrap(0, mask2[new]) = 1
  BY SizesPositive DEF Slots, Wrap
<1>11. \A i \in 1..Depth(m, front(new)) : Span(Val(m, front(new), i), T(m, new), mask2[new]) < mask2[new]
  <2>1. Depth(m, front(new)) = 1 /\ Val(m, front(new), 1) = 0
    BY <1>8 DEF Fresh
  <2>2. Span(0, 0, mask2[new]) = 0
    BY <1>10, SpanRange
  <2> QED BY <2>1, <2>2, <1>8
<1>12. /\ Block(n, mask2, new)
       /\ F(n, new) = 0 /\ T(n, new) = 1
       /\ Span(0, 1, mask2[new]) = 1
       /\ \A s \in 0..mask2[new] : Span(0, s, mask2[new]) < 1 => s = 0
  <2>1. /\ Block(n, mask2, new)
        /\ F(n, new) = F(m, new) /\ T(n, new) = Wrap(T(m, new), mask2[new])
    BY <1>1, <1>3, <1>8, <1>9, <1>11, BlockFills
  <2>2. Span(0, 1, mask2[new]) = 1 /\ \A s \in 0..mask2[new] : Span(0, s, mask2[new]) < 1 => s = 0
    BY DEF Span
  <2> QED BY <2>1, <2>2, <1>8, <1>10
<1>13. \A c \in 1..alloc+1 : Block(n, mask2, c)
  <2> SUFFICES ASSUME NEW c \in 1..alloc PROVE Block(n, mask2, c)
    BY <1>3, <1>12
  <2>1. c \in Blocks /\ SameSlots(m, n, c) /\ mask2[c] = mask[c]
    BY <1>2, <1>3 DEF SameBlock
  <2> QED BY <2>1, <1>1, <1>9, BlockSame
<1>14. /\ tailBlock \in Atomics /\ Depth(m, tailBlock) \in Nat /\ Depth(m, tailBlock) >= 1
       /\ Depth(m, tailBlock) \in 1..Depth(m, tailBlock)
       /\ Own(m, tailBlock) = Val(m, tailBlock, Depth(m, tailBlock))
       /\ m.writes[P] \in Nat /\ Acq(m, C) \in Nat /\ Acq(m, C) <= m.writes[P]
  <2>1. tailBlock \in Atomics
    BY AtomicFacts
  <2>2. /\ Depth(m, tailBlock) \in Nat /\ Depth(m, tailBlock) >= 1
        /\ Own(m, tailBlock) = Val(m, tailBlock, Depth(m, tailBlock))
    BY <2>1, <1>1, MemoryFacts
  <2>3. m.writes[P] \in Nat /\ Acq(m, C) \in Nat /\ Acq(m, C) <= m.writes[P]
    BY <1>1, MemoryFacts, ThreadFacts
  <2> QED BY <2>1, <2>2, <2>3
<1>15. /\ Depth(n, tailBlock) = Depth(m, tailBlock) + 1
       /\ Own(n, tailBlock) = new
       /\ Val(n, tailBlock, Depth(n, tailBlock)) = new /\ Rel(n, tailBlock, Depth(n, tailBlock)) = r
       /\ \A i \in 1..Depth(m, tailBlock) :
            /\ Val(n, tailBlock, i) = Val(m, tailBlock, i) /\ Rel(n, tailBlock, i) = Rel(m, tailBlock, i)
       /\ \A i \in 1..Depth(n, tailBlock) : i \in 1..Depth(m, tailBlock) \/ i = Depth(n, tailBlock)
  BY <1>14, AppendFacts
<1>16. Ring(n, alloc + 1, R, k)
  <2>1. \A i \in 1..N : Own(m, next(ring[i])) = ring[IF i = N THEN 1 ELSE i + 1]
    BY <1>1 DEF Ring, N
  <2>2. ASSUME NEW i \in 1..N, i # N PROVE Own(n, next(R[i])) = R[i + 1]
    <3>1. i + 1 \in 1..N
      BY <2>2, <1>2
    <3>2. Own(n, next(R[i])) = Own(m, next(R[i]))
      BY <2>2, <1>7, SameBlockFacts
    <3> QED BY <3>1, <3>2, <2>1, <2>2, <1>4
  <2>3. Own(n, next(R[N])) = R[N + 1]
    BY <1>4, <1>7
  <2>4. Own(n, next(R[N + 1])) = R[1]
    BY <2>1, <1>2, <1>4, <1>7
  <2>5. \A i \in 1..N+1 : Own(n, next(R[i])) = R[IF i = N + 1 THEN 1 ELSE i + 1]
    <3> SUFFICES ASSUME NEW i \in 1..N+1 PROVE Own(n, next(R[i])) = R[IF i = N + 1 THEN 1 ELSE i + 1]
      OBVIOUS
    <3>1. CASE i = N + 1
      BY <3>1, <2>4
    <3>2. CASE i = N
      <4>1. i # N + 1
        BY <3>2, <1>2
      <4> QED BY <4>1, <3>2, <2>3
    <3>3. CASE i \in 1..N /\ i # N
      <4>1. i # N + 1
        BY <3>3, <1>2
      <4> QED BY <4>1, <3>3, <2>2
    <3> QED BY <3>1, <3>2, <3>3, <1>5
  <2>6. Own(n, tailBlock) = R[N + 1] /\ Own(n, frontBlock) = R[k]
    BY <1>2, <1>4, <1>9, <1>15
  <2>7. alloc + 1 \in Nat /\ alloc + 1 <= HeapBlocks /\ k \in 1..N+1
    BY <1>2, <1>3
  <2> QED BY <2>5, <2>6, <2>7, <1>4, <1>6 DEF Ring
<1>17. \A c \in (alloc+1)+1..HeapBlocks : Fresh(n, c)
  <2> SUFFICES ASSUME NEW c \in (alloc+1)+1..HeapBlocks PROVE Fresh(n, c)
    OBVIOUS
  <2>1. c \in Blocks /\ c # new /\ c \in alloc+1..HeapBlocks /\ c \notin 1..alloc
    BY <1>2, <1>3 DEF Blocks
  <2>2. SameBlock(m, n, c) /\ Fresh(m, c)
    BY <2>1, <1>1, <1>7
  <2> QED BY <2>2, SameBlockFacts DEF Fresh
<1> DEFINE start2 == [i \in 1..(N+1)+1 |-> IF i = (N + 1) + 1 THEN snt + 2 ELSE start[i]]
<1>18. Elements(n, mask2, R, k, start2, rec, snt + 1)
  <2>1. /\ rec \in Nat /\ snt \in Nat /\ start \in [1..N+1 -> Nat]
        /\ \A i, j \in 1..N+1 : i <= j => start[i] <= start[j]
        /\ \A i \in 1..k : start[i] = rec + 1
        /\ start[N + 1] = snt + 1
        /\ \A i \in 1..N :
             /\ start[i + 1] = start[i] + Span(F(m, ring[i]), T(m, ring[i]), mask[ring[i]])
             /\ i > k => F(m, ring[i]) # T(m, ring[i])
             /\ \A s \in 0..mask[ring[i]] :
                  Span(F(m, ring[i]), s, mask[ring[i]]) < Span(F(m, ring[i]), T(m, ring[i]), mask[ring[i]])
                    => El(m, ring[i], s) = start[i] + Span(F(m, ring[i]), s, mask[ring[i]])
    BY <1>1 DEF Elements, N
  <2>2. /\ start2 \in [1..(N+1)+1 -> Nat] /\ start2[(N + 1) + 1] = snt + 2
        /\ \A i \in 1..N+1 : start2[i] = start[i] /\ i \in 1..(N+1)+1
    <3>1. \A i \in 1..N+1 : i # (N + 1) + 1 /\ i \in 1..(N+1)+1
      BY <1>2
    <3>2. \A i \in 1..(N+1)+1 : i # (N + 1) + 1 => i \in 1..N+1
      BY <1>2
    <3>3. (N + 1) + 1 \in 1..(N+1)+1
      BY <1>2
    <3>4. snt + 2 \in Nat
      BY <2>1
    <3> QED BY <3>1, <3>2, <3>3, <3>4, <2>1
  <2> HIDE DEF start2
  <2>3. \A i, j \in 1..(N+1)+1 : i <= j => start2[i] <= start2[j]
    <3> SUFFICES ASSUME NEW i \in 1..(N+1)+1, NEW j \in 1..(N+1)+1, i <= j PROVE start2[i] <= start2[j]
      OBVIOUS
    <3>1. CASE j = (N + 1) + 1
      <4>1. CASE i = (N + 1) + 1
        BY <4>1, <3>1, <2>1, <2>2
      <4>2. CASE i # (N + 1) + 1
        <5>1. i \in 1..N+1 /\ N + 1 \in 1..N+1 /\ i <= N + 1
          BY <4>2, <1>2, SMTT(30)
        <5>2. start2[i] = start[i] /\ start[i] <= start[N + 1] /\ start[i] \in Nat
          BY <5>1, <2>1, <2>2
        <5> QED BY <5>2, <3>1, <2>1, <2>2
      <4> QED BY <4>1, <4>2
    <3>2. CASE j # (N + 1) + 1
      <4>1. i \in 1..N+1 /\ j \in 1..N+1
        BY <3>2, <1>2, SMTT(30)
      <4> QED BY <4>1, <2>1, <2>2
    <3> QED BY <3>1, <3>2
  <2>4. \A i \in 1..k : start2[i] = rec + 1
    <3>1. \A i \in 1..k : i \in 1..N+1
      BY <1>2
    <3> QED BY <3>1, <2>1, <2>2
  <2>5. ASSUME NEW i \in 1..N
        PROVE  /\ start2[i + 1] = start2[i] + Span(F(n, R[i]), T(n, R[i]), mask2[R[i]])
               /\ i > k => F(n, R[i]) # T(n, R[i])
               /\ \A s \in 0..mask2[R[i]] :
                    Span(F(n, R[i]), s, mask2[R[i]]) < Span(F(n, R[i]), T(n, R[i]), mask2[R[i]])
                      => El(n, R[i], s) = start2[i] + Span(F(n, R[i]), s, mask2[R[i]])
    <3>1. i \in 1..N+1 /\ i + 1 \in 1..N+1 /\ R[i] = ring[i] /\ SameSlots(m, n, R[i]) /\ mask2[R[i]] = mask[R[i]]
      BY <1>2, <1>5, <1>7
    <3>2. start2[i] = start[i] /\ start2[i + 1] = start[i + 1]
      BY <3>1, <2>2
    <3>3. F(n, R[i]) = F(m, R[i]) /\ T(n, R[i]) = T(m, R[i])
      BY <3>1, SameSlotsFacts
    <3>4. \A s \in 0..mask[R[i]] : El(n, R[i], s) = El(m, R[i], s)
      <4>1. 0..mask[R[i]] \subseteq Slots
        BY <1>1, <1>5, IndexFacts
      <4> QED BY <4>1, <3>1, SameSlotsFacts
    <3> QED BY <3>1, <3>2, <3>3, <3>4, <2>1
  <2>6. /\ start2[(N + 1) + 1] = start2[N + 1] + Span(F(n, new), T(n, new), mask2[new])
        /\ F(n, new) # T(n, new)
        /\ \A s \in 0..mask2[new] :
             Span(F(n, new), s, mask2[new]) < Span(F(n, new), T(n, new), mask2[new])
               => El(n, new, s) = start2[N + 1] + Span(F(n, new), s, mask2[new])
    <3>1. start2[N + 1] = snt + 1 /\ start2[(N + 1) + 1] = snt + 2
      BY <2>1, <2>2, <1>5
    <3>2. ASSUME NEW s \in 0..mask2[new], Span(0, s, mask2[new]) < 1
          PROVE  El(n, new, s) = (snt + 1) + Span(0, s, mask2[new])
      <4>1. s = 0
        BY <3>2, <1>12
      <4>3. Span(0, 0, mask2[new]) = 0
        BY <1>10, SpanRange
      <4>2. El(n, new, 0) = snt + 1
        BY <1>8 DEF FillsSlots
      <4> QED BY <4>1, <4>2, <4>3, <2>1
    <3>3. (snt + 1) + 1 = snt + 2
      BY <2>1
    <3> QED BY <3>1, <3>2, <3>3, <1>12
  <2>7. ASSUME NEW i \in 1..N+1
        PROVE  /\ start2[i + 1] = start2[i] + Span(F(n, R[i]), T(n, R[i]), mask2[R[i]])
               /\ i > k => F(n, R[i]) # T(n, R[i])
               /\ \A s \in 0..mask2[R[i]] :
                    Span(F(n, R[i]), s, mask2[R[i]]) < Span(F(n, R[i]), T(n, R[i]), mask2[R[i]])
                      => El(n, R[i], s) = start2[i] + Span(F(n, R[i]), s, mask2[R[i]])
    <3>1. CASE i = N + 1
      BY <3>1, <2>6, <1>4
    <3>2. CASE i \in 1..N
      BY <3>2, <2>5
    <3> QED BY <3>1, <3>2, <1>5
  <2>8. snt + 1 \in Nat /\ start2[(N + 1) + 1] = (snt + 1) + 1
    BY <2>1, <2>2
  <2> QED BY <2>1, <2>2, <2>3, <2>4, <2>7, <2>8, <1>4 DEF Elements
<1> HIDE DEF start2
<1>19. Acq(n, C) = Acq(m, C) /\ Acq(n, P) = Acq(m, P)
  BY ThreadFacts
<1>20. /\ Depth(n, frontBlock) = Depth(m, frontBlock)
       /\ \A i : Val(n, frontBlock, i) = Val(m, frontBlock, i) /\ Rel(n, frontBlock, i) = Rel(m, frontBlock, i)
  BY DEF Depth, Val, Rel
<1>21. /\ \A i \in 1..Depth(m, tailBlock) : Upto(n, C, tailBlock, i) = Upto(m, C, tailBlock, i)
       /\ \A i : Upto(n, P, frontBlock, i) = Upto(m, P, frontBlock, i)
  BY <1>15, <1>19, <1>20, UptoSame
<1>22. Upto(n, C, tailBlock, Depth(n, tailBlock)) >= r /\ Upto(n, C, tailBlock, Depth(n, tailBlock)) \in Nat
  BY <1>14, <1>15, <1>19 DEF Upto
<1>23. ASSUME NEW i \in 1..Depth(m, tailBlock)
       PROVE  \E q \in k..N :
                 /\ Val(m, tailBlock, i) = R[q]
                 /\ \A j \in k..q-1 : Closed(n, R[j], Upto(m, C, tailBlock, i))
                 /\ \A j \in k+1..q : Entered(m, mask, R[j], Upto(m, C, tailBlock, i)) /\ Entered(n, mask2, R[j], Upto(m, C, tailBlock, i))
  <2>1. PICK q \in k..N :
                 /\ Val(m, tailBlock, i) = ring[q]
                 /\ \A j \in k..q-1 : Closed(m, ring[j], Upto(m, C, tailBlock, i))
                 /\ \A j \in k+1..q : Entered(m, mask, ring[j], Upto(m, C, tailBlock, i))
    BY <1>1 DEF TailBlocks, N
  <2>2. ASSUME NEW j \in k..q-1 PROVE Closed(n, R[j], Upto(m, C, tailBlock, i))
    <3>1. j \in 1..N /\ j # N
      BY <1>2
    <3>2. Closed(m, R[j], Upto(m, C, tailBlock, i)) /\ SameBlock(m, n, R[j])
      BY <3>1, <2>1, <1>5, <1>7
    <3> QED BY <3>2, ClosedSame
  <2>3. ASSUME NEW j \in k+1..q
        PROVE  Entered(m, mask, R[j], Upto(m, C, tailBlock, i)) /\ Entered(n, mask2, R[j], Upto(m, C, tailBlock, i))
    <3>1. j \in 1..N
      BY <1>2
    <3>2. /\ Entered(m, mask, R[j], Upto(m, C, tailBlock, i)) /\ SameSlots(m, n, R[j])
          /\ R[j] \in Blocks /\ Indices(m, mask, R[j])
      BY <3>1, <2>1, <1>5, <1>7
    <3> QED BY <3>2, <1>1, EnteredSame
  <2> QED BY <2>1, <2>2, <2>3, <1>5
\* The new one comes with all that the producer has done.
<1>24. \A j \in k..N : Closed(n, R[j], r)
  <2> SUFFICES ASSUME NEW j \in k..N PROVE Closed(n, R[j], r)
    OBVIOUS
  <2>1. j \in 1..N /\ R[j] \in Blocks /\ SameSlots(m, n, R[j])
    BY <1>5, <1>7
  <2>2. \A x \in Atomics : WriterOf(x) = P => Last(m, x) <= m.writes[P] /\ Last(m, x) \in Nat
    <3> SUFFICES ASSUME NEW x \in Atomics, WriterOf(x) = P PROVE Last(m, x) <= m.writes[P] /\ Last(m, x) \in Nat
      OBVIOUS
    <3>1. Depth(m, x) \in Nat /\ Depth(m, x) >= 1
      BY <1>1, MemoryFacts
    <3>2. Depth(m, x) \in 1..Depth(m, x)
      BY <3>1
    <3> QED BY <3>2, <1>1, MemoryFacts DEF Last
  <2>3. /\ Last(m, tail(R[j])) <= m.writes[P] /\ Last(m, tail(R[j])) \in Nat
        /\ Last(m, next(R[j])) <= m.writes[P] /\ Last(m, next(R[j])) \in Nat
    BY <2>1, <2>2, AtomicFacts
  <2>4. Last(n, tail(R[j])) = Last(m, tail(R[j]))
    BY <2>1, SameSlotsFacts
  <2>5. CASE j = N
    BY <2>3, <2>4, <2>5, <1>7, <1>14 DEF Closed
  <2>6. CASE j # N
    <3>1. Last(n, next(R[j])) = Last(m, next(R[j]))
      BY <2>1, <2>6, <1>7, SameBlockFacts
    <3> QED BY <3>1, <2>3, <2>4, <1>14 DEF Closed
  <2> QED BY <2>5, <2>6
<1>25. \A j \in k+1..N+1 : Entered(n, mask2, R[j], r)
  <2>1. ASSUME NEW j \in k+1..N PROVE Entered(n, mask2, R[j], r)
    <3> DEFINE v == Upto(m, C, tailBlock, Depth(m, tailBlock))
    <3>1. v \in Nat /\ v <= m.writes[P]
      <4>1. WriterOf(tailBlock) = Other(C)
        BY AtomicFacts, ThreadFacts
      <4> QED BY <4>1, <1>1, <1>14, UptoBound, ThreadFacts
    <3>2. PICK q \in k..N :
                 /\ Val(m, tailBlock, Depth(m, tailBlock)) = R[q]
                 /\ \A h \in k+1..q : Entered(m, mask, R[h], v)
      BY <1>14, <1>23
    <3> HIDE DEF v
    <3>3. q = N
      <4>1. q \in 1..N
        BY <1>2
      <4>2. R[q] = ring[q] /\ R[q] = ring[N]
        BY <4>1, <3>2, <1>2, <1>5, <1>14
      <4> QED BY <4>1, <4>2, <1>2
    <3>4. Entered(m, mask, R[j], v)
      BY <3>2, <3>3
    <3>5. j \in 1..N
      BY <1>2
    <3>6. R[j] \in Blocks /\ Indices(m, mask, R[j]) /\ SameSlots(m, n, R[j])
      BY <3>5, <1>5, <1>7
    <3>7. Entered(m, mask, R[j], r)
      <4>1. r >= v
        BY <3>1, <1>14
      <4> QED BY <4>1, <3>1, <3>4, <3>6, <1>1, EnteredLater
    <3> QED BY <3>6, <3>7, <1>1, EnteredSame
  <2>2. Entered(n, mask2, new, r)
    <3>1. ASSUME NEW i \in 1..Depth(n, tail(new)),
                 \A j \in i+1..Depth(n, tail(new)) : Sto(n, tail(new), j) > r
          PROVE  Val(n, tail(new), i) # F(n, new)
      <4>1. tail(new) \in Atomics
        BY <1>3, AtomicFacts
      <4>2. Depth(n, tail(new)) \in Nat /\ Depth(n, tail(new)) >= 1 /\ Own(n, tail(new)) = Val(n, tail(new), Depth(n, tail(new)))
        BY <4>1, MemoryFacts
      <4>3. Depth(n, tail(new)) \in 1..Depth(n, tail(new))
        BY <4>2
      <4>4. Sto(n, tail(new), Depth(n, tail(new))) \in Nat /\ Sto(n, tail(new), Depth(n, tail(new))) <= r
        BY <4>1, <4>3, MemoryFacts DEF Last
      <4>5. ~ (Depth(n, tail(new)) \in i+1..Depth(n, tail(new)))
        BY <4>4, <3>1
      <4>6. i = Depth(n, tail(new))
        BY <4>2, <4>5
      <4> QED BY <4>2, <4>6, <1>12 DEF T
    <3> QED BY <3>1, <1>12 DEF Entered
  <2>3. \A j \in k+1..N+1 : j \in k+1..N \/ j = N + 1
    BY <1>2
  <2> QED BY <2>1, <2>2, <2>3, <1>4
<1>26. TailBlocks(n, mask2, R, k)
  <2>1. ASSUME NEW i \in 1..Depth(m, tailBlock)
        PROVE  \E q \in k..N :
                 /\ Val(n, tailBlock, i) = R[q]
                 /\ \A j \in k..q-1 : Closed(n, R[j], Upto(n, C, tailBlock, i))
                 /\ \A j \in k+1..q : Entered(n, mask2, R[j], Upto(n, C, tailBlock, i))
    <3>1. Val(n, tailBlock, i) = Val(m, tailBlock, i) /\ Upto(n, C, tailBlock, i) = Upto(m, C, tailBlock, i)
      BY <1>15, <1>21
    <3> QED BY <3>1, <1>23
  <2>2. ASSUME NEW i \in 1..Depth(n, tailBlock)
        PROVE  \E q \in k..N+1 :
                 /\ Val(n, tailBlock, i) = R[q]
                 /\ \A j \in k..q-1 : Closed(n, R[j], Upto(n, C, tailBlock, i))
                 /\ \A j \in k+1..q : Entered(n, mask2, R[j], Upto(n, C, tailBlock, i))
    <3>1. CASE i \in 1..Depth(m, tailBlock)
      <4>1. \A q \in k..N : q \in k..N+1
        BY <1>2
      <4> QED BY <3>1, <4>1, <2>1
    <3>2. CASE i = Depth(n, tailBlock)
      <4> DEFINE w == Upto(n, C, tailBlock, i)
      <4>1. w \in Nat /\ w >= r
        BY <3>2, <1>22
      <4> HIDE DEF w
      <4>2. ASSUME NEW j \in k..N PROVE Closed(n, R[j], w)
        <5>1. Closed(n, R[j], r)
          BY <1>24
        <5>2. R[j] \in Blocks
          BY <1>5
        <5>3. tail(R[j]) \in Atomics /\ next(R[j]) \in Atomics
          BY <5>2, AtomicFacts
        <5>4. \A x \in Atomics : Last(n, x) \in Nat
          <6> SUFFICES ASSUME NEW x \in Atomics PROVE Last(n, x) \in Nat
            OBVIOUS
          <6>1. Depth(n, x) \in Nat /\ Depth(n, x) >= 1
            BY MemoryFacts
          <6>2. Depth(n, x) \in 1..Depth(n, x)
            BY <6>1
          <6> QED BY <6>2, MemoryFacts DEF Last
        <5> QED BY <5>1, <5>3, <5>4, <4>1 DEF Closed
      <4>3. ASSUME NEW j \in k+1..N+1 PROVE Entered(n, mask2, R[j], w)
        <5>1. R[j] \in Blocks /\ Indices(n, mask2, R[j])
          <6>1. j \in 1..N+1
            BY <1>2
          <6>2. CASE j \in 1..N
            BY <6>2, <1>3, <1>5, <1>13 DEF Block
          <6>3. CASE j = N + 1
            BY <6>3, <1>3, <1>4, <1>12 DEF Block
          <6> QED BY <6>1, <6>2, <6>3, <1>5
        <5> QED BY <5>1, <4>1, <1>25, EnteredLater
      <4>4. N + 1 \in k..N+1 /\ (N + 1) - 1 = N
        BY <1>2
      <4> QED BY <4>2, <4>3, <4>4, <3>2, <1>4, <1>15 DEF w
    <3> QED BY <3>1, <3>2, <1>15
  <2>3. ASSUME NEW i \in 1..Depth(n, tailBlock), NEW j \in 1..Depth(n, tailBlock),
               NEW p \in 1..N+1, NEW q \in 1..N+1,
               i <= j, Val(n, tailBlock, i) = R[p], Val(n, tailBlock, j) = R[q]
        PROVE  p <= q
    <3>1. CASE j = Depth(n, tailBlock)
      <4>1. q = N + 1
        BY <3>1, <2>3, <1>4, <1>5, <1>6, <1>15
      <4> QED BY <4>1, <1>2
    <3>2. CASE i \in 1..Depth(m, tailBlock) /\ j \in 1..Depth(m, tailBlock)
      <4>1. \A h \in 1..Depth(m, tailBlock) : \A g \in 1..N+1 : Val(n, tailBlock, h) = R[g] => g \in 1..N
        <5> SUFFICES ASSUME NEW h \in 1..Depth(m, tailBlock), NEW g \in 1..N+1, Val(n, tailBlock, h) = R[g] PROVE g \in 1..N
          OBVIOUS
        <5>1. PICK f \in k..N : Val(n, tailBlock, h) = R[f]
          BY <2>1
        <5>2. f \in 1..N /\ f \in 1..N+1
          BY <1>5
        <5> QED BY <5>1, <5>2, <1>6
      <4>2. p \in 1..N /\ q \in 1..N
        BY <4>1, <3>2, <2>3
      <4>3. Val(m, tailBlock, i) = ring[p] /\ Val(m, tailBlock, j) = ring[q]
        BY <4>2, <3>2, <2>3, <1>5, <1>15
      <4>4. \A h, j2 \in 1..Depth(m, tailBlock) : \A p2, q2 \in 1..N :
              h <= j2 /\ Val(m, tailBlock, h) = ring[p2] /\ Val(m, tailBlock, j2) = ring[q2] => p2 <= q2
        BY <1>1 DEF TailBlocks, N
      <4> QED BY <4>2, <4>3, <4>4, <3>2, <2>3
    <3>3. CASE i = Depth(n, tailBlock)
      <4>1. j = i
        BY <3>3, <2>3, <1>14, <1>15
      <4> QED BY <4>1, <3>3, <3>1
    <3> QED BY <3>1, <3>2, <3>3, <1>15
  <2> QED BY <2>2, <2>3, <1>4 DEF TailBlocks
<1>27. FrontBlocks(n, R, k)
  <2>1. ASSUME NEW i \in 1..Depth(m, frontBlock)
        PROVE  \E q \in 1..k : /\ Val(m, frontBlock, i) = R[q]
                               /\ \A j \in 1..q-1 : Last(n, front(R[j])) <= Upto(m, P, frontBlock, i)
    <3>1. PICK q \in 1..k : /\ Val(m, frontBlock, i) = ring[q]
                            /\ \A j \in 1..q-1 : Last(m, front(ring[j])) <= Upto(m, P, frontBlock, i)
      BY <1>1 DEF FrontBlocks
    <3>2. q \in 1..N
      BY <1>2
    <3>3. ASSUME NEW j \in 1..q-1 PROVE Last(n, front(R[j])) <= Upto(m, P, frontBlock, i)
      <4>1. j \in 1..N
        BY <1>2
      <4>2. Last(n, front(R[j])) = Last(m, front(R[j]))
        BY <4>1, <1>7, SameSlotsFacts
      <4> QED BY <4>1, <4>2, <3>1, <1>5
    <3> QED BY <3>1, <3>2, <3>3, <1>5
  <2>2. ASSUME NEW i \in 1..Depth(m, frontBlock), NEW j \in 1..Depth(m, frontBlock),
               NEW p \in 1..N+1, NEW q \in 1..N+1,
               i <= j, Val(m, frontBlock, i) = R[p], Val(m, frontBlock, j) = R[q]
        PROVE  p <= q
    <3>1. \A h \in 1..Depth(m, frontBlock) : \A g \in 1..N+1 : Val(m, frontBlock, h) = R[g] => g \in 1..N
      <4> SUFFICES ASSUME NEW h \in 1..Depth(m, frontBlock), NEW g \in 1..N+1, Val(m, frontBlock, h) = R[g] PROVE g \in 1..N
        OBVIOUS
      <4>1. PICK f \in 1..k : Val(m, frontBlock, h) = R[f]
        BY <2>1
      <4>2. f \in 1..N /\ f \in 1..N+1
        BY <1>2
      <4> QED BY <4>1, <4>2, <1>6
    <3>2. p \in 1..N /\ q \in 1..N
      BY <3>1, <2>2
    <3>3. Val(m, frontBlock, i) = ring[p] /\ Val(m, frontBlock, j) = ring[q]
      BY <3>2, <2>2, <1>5
    <3>4. \A h, j2 \in 1..Depth(m, frontBlock) : \A p2, q2 \in 1..N :
            h <= j2 /\ Val(m, frontBlock, h) = ring[p2] /\ Val(m, frontBlock, j2) = ring[q2] => p2 <= q2
      BY <1>1 DEF FrontBlocks, N
    <3> QED BY <3>2, <3>3, <3>4, <2>2
  <2> QED BY <2>1, <2>2, <1>4, <1>20, <1>21, SMTT(30) DEF FrontBlocks
<1>28. \A i \in 1..k : Wri(n, R[i], Members) <= Acq(n, C)
  <2> SUFFICES ASSUME NEW i \in 1..k PROVE Wri(n, R[i], Members) <= Acq(n, C)
    OBVIOUS
  <2>1. i \in 1..N
    BY <1>2
  <2>2. Wri(n, R[i], Members) = Wri(m, R[i], Members)
    BY <2>1, <1>7, SameSlotsFacts
  <2> QED BY <2>1, <2>2, <1>1, <1>5, <1>19
<1>29. Queue(n, mask2, alloc + 1, R, k, start2, rec, snt + 1)
  BY <1>13, <1>16, <1>17, <1>18, <1>26, <1>27, <1>28 DEF Queue
<1>30. LocalFrontOK(n, mask2, new, 0)
  <2>1. Depth(n, front(new)) = 1 /\ Val(n, front(new), 1) = 0
    BY <1>8, SameFacts DEF FillsSlots, Fresh
  <2>2. \A s \in 0..mask2[new] : By(n, new, s) = P \/ Wri(n, new, s) = 0
    <3> SUFFICES ASSUME NEW s \in 0..mask2[new] PROVE By(n, new, s) = P \/ Wri(n, new, s) = 0
      OBVIOUS
    <3>1. CASE s = 0
      BY <3>1, <1>8 DEF FillsSlots
    <3>2. CASE s # 0
      BY <3>2, <1>8, <1>10 DEF FillsSlots, Fresh, Wri
    <3> QED BY <3>1, <3>2
  <2>3. Acq(n, P) \in Nat
    BY MemoryFacts, ThreadFacts
  <2>4. Span(0, T(n, new), mask2[new]) = 1
    BY <1>12
  <2>5. ASSUME NEW i \in 1..Depth(n, front(new)) PROVE Span(0, T(n, new), mask2[new]) >= Span(Val(n, front(new), i), T(n, new), mask2[new])
    <3>1. i = 1
      BY <2>1
    <3> QED BY <3>1, <2>1, <2>4
  <2>6. \A s \in 0..mask2[new] : By(n, new, s) = P \/ Wri(n, new, s) <= Acq(n, P)
    BY <2>2, <2>3
  <2> QED BY <2>5, <2>6, <1>10 DEF LocalFrontOK
<1>31. LocalTailOK(n, mask2, ring[k], lt)
  <2>1. SameSlots(m, n, ring[k]) /\ ring[k] \in Blocks /\ Indices(m, mask, ring[k]) /\ mask2[ring[k]] = mask[ring[k]]
    BY <1>2, <1>5, <1>7
  <2> QED BY <2>1, <1>1, <1>19, LocalTailSame
<1>32. ASSUME NEW pc, NEW c, ConsumerAt(m, mask, ring, k, pc, c) PROVE ConsumerAt(n, mask2, R, k, pc, c)
  <2>1. SameSlots(m, n, ring[k]) /\ R[k] = ring[k] /\ k \in 1..N
    BY <1>2, <1>5, <1>7
  <2>2. F(n, ring[k]) = F(m, ring[k]) /\ T(n, ring[k]) = T(m, ring[k])
    BY <2>1, SameSlotsFacts
  <2>3. ASSUME k < N, Entered(m, mask, ring[k + 1], Acq(m, C))
        PROVE  R[k + 1] = ring[k + 1] /\ Entered(n, mask2, ring[k + 1], Acq(m, C))
    <3>1. k + 1 \in 1..N
      BY <2>3, <1>2
    <3>2. R[k + 1] = ring[k + 1] /\ SameSlots(m, n, R[k + 1]) /\ R[k + 1] \in Blocks /\ Indices(m, mask, R[k + 1])
      BY <3>1, <1>5, <1>7
    <3> QED BY <3>1, <3>2, <2>3, <1>1, EnteredSame
  <2>4. ASSUME k < N, Closed(m, ring[k], Acq(m, C)) PROVE Closed(n, ring[k], Acq(m, C))
    <3>1. k # N
      BY <2>4, <1>2
    <3>2. SameBlock(m, n, ring[k])
      BY <3>1, <2>1, <1>7
    <3> QED BY <3>2, <2>4, ClosedSame
  <2>5. ASSUME \A i \in 1..Depth(m, tailBlock) : Val(m, tailBlock, i) # ring[k]
        PROVE  \A i \in 1..Depth(n, tailBlock) : Val(n, tailBlock, i) # ring[k]
    BY <2>1, <2>5, <1>5, <1>15
  <2>6. k < N => k < N + 1
    BY <1>2
  <2>7. /\ pc \in {"tail", "tailBlock", "tailAgain", "next"} => c = ring[k]
        /\ pc \in {"tailAgain", "next", "nextTail"} =>
             /\ k < N
             /\ \A i \in 1..Depth(m, tailBlock) : Val(m, tailBlock, i) # ring[k]
             /\ Closed(m, ring[k], Acq(m, C))
             /\ Entered(m, mask, ring[k + 1], Acq(m, C))
        /\ pc \in {"next", "nextTail"} => F(m, ring[k]) = T(m, ring[k])
        /\ pc = "nextTail" => c = ring[k + 1]
    BY <1>32 DEF ConsumerAt, N
  <2>8. pc \in {"tailAgain", "next", "nextTail"} =>
             /\ k < N + 1 /\ R[k + 1] = ring[k + 1]
             /\ \A i \in 1..Depth(n, tailBlock) : Val(n, tailBlock, i) # ring[k]
             /\ Closed(n, ring[k], Acq(n, C))
             /\ Entered(n, mask2, ring[k + 1], Acq(n, C))
    BY <2>3, <2>4, <2>5, <2>6, <2>7, <1>19
  <2> QED BY <2>1, <2>2, <2>7, <2>8, <1>4 DEF ConsumerAt
<1>33. R[Len(R)] = new /\ R[k] = ring[k]
  BY <1>2, <1>4
<1> QED BY <1>29, <1>30, <1>31, <1>32, <1>33 DEF Continues

-----------------------------------------------------------------------------
(* What a thread learns from a load *)

\* Who knows a block's first element sees no tail that hides it.
LEMMA EnteredSeen ==
  ASSUME NEW m, MemoryOK(m), NEW mask, NEW b \in Blocks, Entered(m, mask, b, Acq(m, C))
  PROVE  \A i \in 1..Depth(m, tail(b)) : Val(m, tail(b), i) # F(m, b)
<1> SUFFICES ASSUME NEW i \in 1..Depth(m, tail(b)) PROVE Val(m, tail(b), i) # F(m, b)
  OBVIOUS
<1>1. tail(b) \in Atomics /\ Other(WriterOf(tail(b))) = C
  BY AtomicFacts, ThreadFacts
<1>2. Depth(m, tail(b)) \in Nat
  BY <1>1, MemoryFacts
<1>3. ASSUME NEW j \in i+1..Depth(m, tail(b)) PROVE Sto(m, tail(b), j) > Acq(m, C)
  <2>1. j \in 1..Depth(m, tail(b)) /\ j >= 2
    BY <1>2
  <2> QED BY <2>1, <1>1, MemoryFacts
<1> QED BY <1>3 DEF Entered

\* Who knows the last stores to a block's tail and next sees nothing else.
LEMMA ClosedSeen ==
  ASSUME NEW m, MemoryOK(m), NEW b \in Blocks, Closed(m, b, Acq(m, C))
  PROVE  /\ Depth(m, tail(b)) = 1 /\ Val(m, tail(b), 1) = T(m, b)
         /\ Depth(m, next(b)) = 1 /\ Val(m, next(b), 1) = Own(m, next(b))
<1>1. /\ tail(b) \in Atomics /\ Other(WriterOf(tail(b))) = C
      /\ next(b) \in Atomics /\ Other(WriterOf(next(b))) = C
  BY AtomicFacts, ThreadFacts
<1> QED BY <1>1, OneMessage DEF Closed, T

\* A tail that equals the front says nothing.
LEMMA LocalTailEmpty ==
  ASSUME NEW m, MemoryOK(m), NEW mask, NEW b \in Blocks, Indices(m, mask, b)
  PROVE  LocalTailOK(m, mask, b, F(m, b))
<1>1. mask[b] \in Nat /\ F(m, b) \in 0..mask[b]
  BY IndexFacts
<1>2. Span(F(m, b), F(m, b), mask[b]) = 0
  BY <1>1, SpanRange
<1>3. \A s \in 0..mask[b] : Span(F(m, b), s, mask[b]) \in 0..mask[b]
  BY <1>1, SpanRange
<1>4. \A i \in 1..Depth(m, tail(b)) : Val(m, tail(b), i) \in 0..mask[b]
  BY DEF Indices
<1> QED BY <1>1, <1>2, <1>3, <1>4 DEF LocalTailOK

\* A tail that the consumer has loaded, and the slots before it after the fence.
LEMMA TailSeen ==
  ASSUME NEW m, MemoryOK(m), NEW mask, NEW b \in Blocks, Block(m, mask, b),
         b = Own(m, frontBlock) \/ Wri(m, b, F(m, b)) <= Acq(m, C),
         NEW load \in Loads(m, C, tail(b)), NEW n, n = Acquired(load.memory, C)
  PROVE  LocalTailOK(n, mask, b, load.value)
<1> DEFINE lm == load.memory
<1>1. tail(b) \in Atomics /\ WriterOf(tail(b)) = Other(C) /\ C \in Threads /\ frontBlock \in Atomics
  BY AtomicFacts, ThreadFacts
<1>2. /\ MemoryOK(lm) /\ Narrows(m, lm)
      /\ Acq(lm, C) = Acq(m, C)
      /\ load.value = Val(lm, tail(b), 1)
      /\ lm.promised[C] >= Rel(lm, tail(b), 1)
  BY <1>1, LoadsNarrow
<1>3. MemoryOK(n) /\ Narrows(lm, n) /\ Acq(n, C) >= lm.promised[C] /\ Acq(n, C) >= Acq(lm, C)
  <2>1. MemoryOK(n) /\ Narrows(lm, n) /\ Acq(n, C) >= lm.promised[C]
    BY <1>1, <1>2, AcquiredNarrow
  <2> QED BY <2>1, <1>1 DEF Narrows
<1>4. Block(lm, mask, b) /\ Indices(lm, mask, b)
  <2>1. Block(lm, mask, b)
    BY <1>2, BlockNarrows
  <2> QED BY <2>1 DEF Block
<1>5. /\ F(lm, b) = F(m, b) /\ Own(lm, frontBlock) = Own(m, frontBlock)
      /\ \A s : Wri(lm, b, s) = Wri(m, b, s)
  BY <1>1, <1>2, NarrowFacts, AtomicFacts DEF F
<1>6. /\ Depth(lm, tail(b)) \in Nat /\ Depth(lm, tail(b)) >= 1
      /\ lm.promised[C] \in Nat /\ Acq(lm, C) \in Nat /\ Acq(n, C) \in Nat
      /\ Rel(lm, tail(b), 1) \in Nat
  <2>1. /\ Depth(lm, tail(b)) \in Nat /\ Depth(lm, tail(b)) >= 1
        /\ lm.promised[C] \in Nat /\ Acq(lm, C) \in Nat /\ Acq(n, C) \in Nat
    BY <1>1, <1>2, <1>3, MemoryFacts
  <2>2. 1 \in 1..Depth(lm, tail(b))
    BY <2>1
  <2> QED BY <2>1, <2>2, <1>1, <1>2, MemoryFacts
<1>7. 1 \in 1..Depth(lm, tail(b))
  BY <1>6
\* First as if the consumer had acquired already
<1> HIDE DEF lm
<1>8. load.value \in 0..mask[b]
  BY <1>2, <1>4, <1>7 DEF Indices
<1>9. \A i \in 1..Depth(lm, tail(b)) :
        Span(F(lm, b), load.value, mask[b]) <= Span(F(lm, b), Val(lm, tail(b), i), mask[b])
  BY <1>2, <1>4, <1>7 DEF Block, TailsAdvance
<1>10. /\ F(n, b) = F(lm, b)
       /\ \A s : Wri(n, b, s) = Wri(lm, b, s)
       /\ \E d \in Nat : \A i \in 1..Depth(n, tail(b)) :
             i + d \in 1..Depth(lm, tail(b)) /\ Val(n, tail(b), i) = Val(lm, tail(b), i + d)
  <2>1. F(n, b) = F(lm, b)
    BY <1>1, <1>2, <1>3, DropFacts, AtomicFacts DEF F
  <2>2. \A s : Wri(n, b, s) = Wri(lm, b, s)
    BY <1>2, <1>3, NarrowFacts
  <2>3. \E d \in Nat : \A i \in 1..Depth(n, tail(b)) :
             i + d \in 1..Depth(lm, tail(b)) /\ Val(n, tail(b), i) = Val(lm, tail(b), i + d)
    <3>1. tail(b) \in Atomics /\ MemoryOK(lm) /\ Narrows(lm, n)
      BY <1>1, <1>2, <1>3
    <3> QED BY ONLY <3>1, DropFacts
  <2> QED BY <2>1, <2>2, <2>3
<1>11. ASSUME NEW s \in 0..mask[b], Span(F(lm, b), s, mask[b]) < Span(F(lm, b), load.value, mask[b])
       PROVE  Wri(lm, b, s) <= Acq(n, C)
  <2>1. \/ Wri(lm, b, s) <= Rel(lm, tail(b), 1)
        \/ Wri(lm, b, s) <= Acq(lm, C)
        \/ s = F(lm, b) /\ b # Own(lm, frontBlock)
    BY <1>2, <1>4, <1>7, <1>11 DEF Block, TailsCoverSlots
  <2>2. Wri(lm, b, s) \in Nat
    BY <1>2, <1>4, IndexFacts
  <2>3. \/ Wri(lm, b, s) <= Rel(lm, tail(b), 1)
        \/ Wri(lm, b, s) <= Acq(lm, C)
    BY <2>1, <1>2, <1>5
  <2> QED BY <2>2, <2>3, <1>2, <1>3, <1>6
<1>12. ASSUME NEW i \in 1..Depth(n, tail(b))
       PROVE  Span(F(n, b), load.value, mask[b]) <= Span(F(n, b), Val(n, tail(b), i), mask[b])
  BY <1>9, <1>10
<1>13. ASSUME NEW s \in 0..mask[b], Span(F(n, b), s, mask[b]) < Span(F(n, b), load.value, mask[b])
       PROVE  Wri(n, b, s) <= Acq(n, C)
  BY <1>10, <1>11, <1>13
<1> QED BY <1>8, <1>12, <1>13 DEF LocalTailOK

\* A front that the producer has loaded, and the slots it gives back after the fence.
LEMMA FrontSeen ==
  ASSUME NEW m, MemoryOK(m), NEW mask, NEW b \in Blocks, Block(m, mask, b),
         NEW load \in Loads(m, P, front(b)), NEW n, n = Acquired(load.memory, P)
  PROVE  LocalFrontOK(n, mask, b, load.value)
<1> DEFINE lm == load.memory
<1>1. front(b) \in Atomics /\ WriterOf(front(b)) = Other(P) /\ P \in Threads
  BY AtomicFacts, ThreadFacts
<1>2. /\ MemoryOK(lm) /\ Narrows(m, lm)
      /\ Acq(lm, P) = Acq(m, P)
      /\ load.value = Val(lm, front(b), 1)
      /\ lm.promised[P] >= Rel(lm, front(b), 1)
  BY <1>1, LoadsNarrow
<1>3. MemoryOK(n) /\ Narrows(lm, n) /\ Acq(n, P) >= lm.promised[P] /\ Acq(n, P) >= Acq(lm, P)
  <2>1. MemoryOK(n) /\ Narrows(lm, n) /\ Acq(n, P) >= lm.promised[P]
    BY <1>1, <1>2, AcquiredNarrow
  <2> QED BY <2>1, <1>1 DEF Narrows
<1>4. Block(lm, mask, b) /\ Indices(lm, mask, b)
  <2>1. Block(lm, mask, b)
    BY <1>2, BlockNarrows
  <2> QED BY <2>1 DEF Block
<1>6. /\ Depth(lm, front(b)) \in Nat /\ Depth(lm, front(b)) >= 1
      /\ lm.promised[P] \in Nat /\ Acq(lm, P) \in Nat /\ Acq(n, P) \in Nat
      /\ Rel(lm, front(b), 1) \in Nat
  <2>1. /\ Depth(lm, front(b)) \in Nat /\ Depth(lm, front(b)) >= 1
        /\ lm.promised[P] \in Nat /\ Acq(lm, P) \in Nat /\ Acq(n, P) \in Nat
    BY <1>1, <1>2, <1>3, MemoryFacts
  <2>2. 1 \in 1..Depth(lm, front(b))
    BY <2>1
  <2> QED BY <2>1, <2>2, <1>1, <1>2, MemoryFacts
<1>7. 1 \in 1..Depth(lm, front(b))
  BY <1>6
<1> HIDE DEF lm
<1>8. load.value \in 0..mask[b]
  BY <1>2, <1>4, <1>7 DEF Indices
<1>9. \A i \in 1..Depth(lm, front(b)) :
        Span(load.value, T(lm, b), mask[b]) >= Span(Val(lm, front(b), i), T(lm, b), mask[b])
  BY <1>2, <1>4, <1>7 DEF Block, FrontsAdvance
<1>10. /\ T(n, b) = T(lm, b)
       /\ \A s : Wri(n, b, s) = Wri(lm, b, s) /\ By(n, b, s) = By(lm, b, s)
       /\ \E d \in Nat : \A i \in 1..Depth(n, front(b)) :
             i + d \in 1..Depth(lm, front(b)) /\ Val(n, front(b), i) = Val(lm, front(b), i + d)
  <2>1. T(n, b) = T(lm, b)
    BY <1>1, <1>2, <1>3, DropFacts, AtomicFacts DEF T
  <2>2. \A s : Wri(n, b, s) = Wri(lm, b, s) /\ By(n, b, s) = By(lm, b, s)
    BY <1>2, <1>3, NarrowFacts
  <2>3. \E d \in Nat : \A i \in 1..Depth(n, front(b)) :
             i + d \in 1..Depth(lm, front(b)) /\ Val(n, front(b), i) = Val(lm, front(b), i + d)
    <3>1. front(b) \in Atomics /\ MemoryOK(lm) /\ Narrows(lm, n)
      BY <1>1, <1>2, <1>3
    <3> QED BY ONLY <3>1, DropFacts
  <2> QED BY <2>1, <2>2, <2>3
<1>11. ASSUME NEW s \in 0..mask[b], Span(load.value, s, mask[b]) >= Span(load.value, T(lm, b), mask[b])
       PROVE  By(lm, b, s) = P \/ Wri(lm, b, s) <= Acq(n, P)
  <2>1. \/ By(lm, b, s) = P
        \/ Wri(lm, b, s) <= Rel(lm, front(b), 1)
        \/ Wri(lm, b, s) <= Acq(lm, P)
    BY <1>2, <1>4, <1>7, <1>11 DEF Block, FrontsCoverSlots
  <2>2. Wri(lm, b, s) \in Nat
    BY <1>2, <1>4, IndexFacts
  <2> QED BY <2>1, <2>2, <1>2, <1>3, <1>6
<1>12. ASSUME NEW i \in 1..Depth(n, front(b))
       PROVE  Span(load.value, T(n, b), mask[b]) >= Span(Val(n, front(b), i), T(n, b), mask[b])
  BY <1>9, <1>10
<1>13. ASSUME NEW s \in 0..mask[b], Span(load.value, s, mask[b]) >= Span(load.value, T(n, b), mask[b])
       PROVE  By(n, b, s) = P \/ Wri(n, b, s) <= Acq(n, P)
  BY <1>10, <1>11, <1>13
<1> QED BY <1>8, <1>12, <1>13 DEF LocalFrontOK

\* A tail block other than the front block: the front block gets no more
\* elements, and the next one has an element.
LEMMA TailBlockSeen ==
  ASSUME NEW m, NEW mask, NEW alloc, NEW ring, NEW k, NEW start, NEW rec, NEW snt,
         Queue(m, mask, alloc, ring, k, start, rec, snt),
         NEW load \in Loads(m, C, tailBlock), load.value # ring[k],
         NEW n, n = Acquired(load.memory, C)
  PROVE  /\ k < Len(ring)
         /\ \A i \in 1..Depth(n, tailBlock) : Val(n, tailBlock, i) # ring[k]
         /\ Closed(n, ring[k], Acq(n, C))
         /\ Entered(n, mask, ring[k + 1], Acq(n, C))
<1> DEFINE lm == load.memory
           N == Len(ring)
           u == Upto(lm, C, tailBlock, 1)
<1>1. tailBlock \in Atomics /\ WriterOf(tailBlock) = Other(C) /\ C \in Threads
  BY AtomicFacts, ThreadFacts
<1>2. MemoryOK(m) /\ \A c \in 1..alloc : Indices(m, mask, c)
  BY QueueParts
<1>3. /\ MemoryOK(lm) /\ Narrows(m, lm)
      /\ load.value = Val(lm, tailBlock, 1)
      /\ lm.promised[C] >= Rel(lm, tailBlock, 1)
  BY <1>1, <1>2, LoadsNarrow
<1>4. MemoryOK(n) /\ Narrows(lm, n) /\ Acq(n, C) >= lm.promised[C] /\ Acq(n, C) >= Acq(lm, C)
  <2>1. MemoryOK(n) /\ Narrows(lm, n) /\ Acq(n, C) >= lm.promised[C]
    BY <1>1, <1>3, AcquiredNarrow
  <2> QED BY <2>1, <1>1 DEF Narrows
<1> HIDE DEF lm
<1>5. Queue(lm, mask, alloc, ring, k, start, rec, snt)
  BY <1>3, QueueNarrows
<1>6. /\ N \in Nat /\ k \in Nat /\ k >= 1 /\ k <= N /\ k \in 1..N
      /\ \A i \in 1..N : ring[i] \in 1..alloc /\ ring[i] \in Blocks /\ Indices(lm, mask, ring[i])
      /\ \A i, j \in 1..N : ring[i] = ring[j] => i = j
      /\ TailBlocks(lm, mask, ring, k)
  BY <1>5, QueueParts
<1>7. /\ Depth(lm, tailBlock) \in Nat /\ Depth(lm, tailBlock) >= 1 /\ 1 \in 1..Depth(lm, tailBlock)
      /\ lm.promised[C] \in Nat /\ Acq(lm, C) \in Nat /\ Acq(n, C) \in Nat
  <2>1. /\ Depth(lm, tailBlock) \in Nat /\ Depth(lm, tailBlock) >= 1
        /\ lm.promised[C] \in Nat /\ Acq(lm, C) \in Nat /\ Acq(n, C) \in Nat
    BY <1>1, <1>3, <1>4, MemoryFacts
  <2> QED BY <2>1
<1>8. u \in Nat /\ u <= Acq(n, C)
  <2>1. Rel(lm, tailBlock, 1) \in Nat
    BY <1>1, <1>3, <1>7, MemoryFacts
  <2> QED BY <2>1, <1>3, <1>4, <1>7 DEF Upto
<1> HIDE DEF N, u
<1>9. PICK q \in k..N :
        /\ Val(lm, tailBlock, 1) = ring[q]
        /\ \A j \in k..q-1 : Closed(lm, ring[j], u)
        /\ \A j \in k+1..q : Entered(lm, mask, ring[j], u)
  BY <1>6, <1>7 DEF TailBlocks, N, u
<1>10. q # k /\ q \in 1..N /\ k \in k..q-1 /\ k + 1 \in k+1..q /\ k + 1 \in 1..N /\ k < N
  <2>1. q # k
    BY <1>3, <1>9
  <2> QED BY <2>1, <1>6
<1>11. Closed(n, ring[k], Acq(n, C))
  <2>1. Closed(lm, ring[k], u) /\ ring[k] \in Blocks
    BY <1>6, <1>9, <1>10
  <2> QED BY <2>1, <1>3, <1>4, <1>7, <1>8, ClosedNarrows
<1>12. Entered(n, mask, ring[k + 1], Acq(n, C))
  <2>1. Entered(lm, mask, ring[k + 1], u) /\ ring[k + 1] \in Blocks /\ Indices(lm, mask, ring[k + 1])
    BY <1>6, <1>9, <1>10
  <2> QED BY <2>1, <1>3, <1>4, <1>7, <1>8, EnteredNarrows
<1>13. ASSUME NEW i \in 1..Depth(n, tailBlock) PROVE Val(n, tailBlock, i) # ring[k]
  <2>1. PICK d \in Nat : i + d \in 1..Depth(lm, tailBlock) /\ Val(n, tailBlock, i) = Val(lm, tailBlock, i + d)
    BY <1>1, <1>3, <1>4, DropFacts
  <2>2. 1 <= i + d
    BY <2>1
  <2>3. \A h, j \in 1..Depth(lm, tailBlock) : \A p, p2 \in 1..N :
          h <= j /\ Val(lm, tailBlock, h) = ring[p] /\ Val(lm, tailBlock, j) = ring[p2] => p <= p2
    BY <1>6 DEF TailBlocks, N
  <2>4. Val(lm, tailBlock, i + d) = ring[k] => q <= k
    BY <2>1, <2>2, <2>3, <1>6, <1>7, <1>9, <1>10
  <2>5. q > k
    BY <1>6, <1>10
  <2> QED BY <2>1, <2>4, <2>5, <1>6
<1> QED BY <1>10, <1>11, <1>12, <1>13 DEF N

\* A front block other than the one after the tail block: the consumer has left
\* the latter.
LEMMA FrontBlockSeen ==
  ASSUME NEW m, NEW mask, NEW alloc, NEW ring, NEW k, NEW start, NEW rec, NEW snt,
         Queue(m, mask, alloc, ring, k, start, rec, snt),
         NEW load \in Loads(m, P, frontBlock), load.value # ring[1],
         NEW n, n = Acquired(load.memory, P)
  PROVE  ProducerAt(n, ring, k, "nextFront")
<1> DEFINE lm == load.memory
           N == Len(ring)
           u == Upto(lm, P, frontBlock, 1)
<1>1. frontBlock \in Atomics /\ WriterOf(frontBlock) = Other(P) /\ P \in Threads
  BY AtomicFacts, ThreadFacts
<1>2. MemoryOK(m)
  BY QueueParts
<1>3. /\ MemoryOK(lm) /\ Narrows(m, lm)
      /\ load.value = Val(lm, frontBlock, 1)
      /\ lm.promised[P] >= Rel(lm, frontBlock, 1)
  BY <1>1, <1>2, LoadsNarrow
<1>4. MemoryOK(n) /\ Narrows(lm, n) /\ Acq(n, P) >= lm.promised[P] /\ Acq(n, P) >= Acq(lm, P)
  <2>1. MemoryOK(n) /\ Narrows(lm, n) /\ Acq(n, P) >= lm.promised[P]
    BY <1>1, <1>3, AcquiredNarrow
  <2> QED BY <2>1, <1>1 DEF Narrows
<1> HIDE DEF lm
<1>5. Queue(lm, mask, alloc, ring, k, start, rec, snt)
  BY <1>3, QueueNarrows
<1>6. /\ N \in Nat /\ k \in Nat /\ k >= 1 /\ k <= N /\ 1 \in 1..N
      /\ \A i \in 1..N : ring[i] \in 1..alloc /\ ring[i] \in Blocks
      /\ \A i, j \in 1..N : ring[i] = ring[j] => i = j
      /\ FrontBlocks(lm, ring, k)
  BY <1>5, QueueParts
<1>7. /\ Depth(lm, frontBlock) \in Nat /\ Depth(lm, frontBlock) >= 1 /\ 1 \in 1..Depth(lm, frontBlock)
      /\ lm.promised[P] \in Nat /\ Acq(lm, P) \in Nat /\ Acq(n, P) \in Nat
  <2>1. /\ Depth(lm, frontBlock) \in Nat /\ Depth(lm, frontBlock) >= 1
        /\ lm.promised[P] \in Nat /\ Acq(lm, P) \in Nat /\ Acq(n, P) \in Nat
    BY <1>1, <1>3, <1>4, MemoryFacts
  <2> QED BY <2>1
<1>8. u \in Nat /\ u <= Acq(n, P)
  <2>1. Rel(lm, frontBlock, 1) \in Nat
    BY <1>1, <1>3, <1>7, MemoryFacts
  <2> QED BY <2>1, <1>3, <1>4, <1>7 DEF Upto
<1> HIDE DEF N, u
<1>9. PICK q \in 1..k :
        /\ Val(lm, frontBlock, 1) = ring[q]
        /\ \A j \in 1..q-1 : Last(lm, front(ring[j])) <= u
  BY <1>6, <1>7 DEF FrontBlocks, u
<1>10. q # 1 /\ q \in 1..N /\ 1 \in 1..q-1 /\ k > 1 /\ q > 1
  <2>1. q # 1
    BY <1>3, <1>9
  <2> QED BY <2>1, <1>6
<1>11. Last(n, front(ring[1])) <= Acq(n, P)
  <2>1. Last(lm, front(ring[1])) <= u /\ front(ring[1]) \in Atomics
    BY <1>6, <1>9, <1>10, AtomicFacts
  <2>2. Last(n, front(ring[1])) = Last(lm, front(ring[1])) /\ Last(lm, front(ring[1])) \in Nat
    BY <2>1, <1>3, <1>4, DropFacts
  <2> QED BY <2>1, <2>2, <1>7, <1>8
<1>12. ASSUME NEW i \in 1..Depth(n, frontBlock) PROVE Val(n, frontBlock, i) # ring[1]
  <2>1. PICK d \in Nat : i + d \in 1..Depth(lm, frontBlock) /\ Val(n, frontBlock, i) = Val(lm, frontBlock, i + d)
    BY <1>1, <1>3, <1>4, DropFacts
  <2>2. 1 <= i + d
    BY <2>1
  <2>3. \A h, j \in 1..Depth(lm, frontBlock) : \A p, p2 \in 1..N :
          h <= j /\ Val(lm, frontBlock, h) = ring[p] /\ Val(lm, frontBlock, j) = ring[p2] => p <= p2
    BY <1>6 DEF FrontBlocks, N
  <2>4. Val(lm, frontBlock, i + d) = ring[1] => q <= 1
    BY <2>1, <2>2, <2>3, <1>6, <1>7, <1>9, <1>10
  <2> QED BY <2>1, <2>4, <1>10
<1> QED BY <1>10, <1>11, <1>12 DEF ProducerAt

\* The first element of a block that begins with the next element to dequeue
LEMMA FirstElement ==
  ASSUME NEW m, NEW mask, NEW alloc, NEW ring, NEW k, NEW start, NEW rec, NEW snt,
         Queue(m, mask, alloc, ring, k, start, rec, snt),
         NEW i \in 1..Len(ring), start[i] = rec + 1, F(m, ring[i]) # T(m, ring[i])
  PROVE  El(m, ring[i], F(m, ring[i])) = rec + 1 /\ rec < snt
<1> DEFINE b == ring[i]
           N == Len(ring)
<1>1. /\ N \in Nat /\ MemoryOK(m) /\ b \in Blocks /\ Indices(m, mask, b)
      /\ Elements(m, mask, ring, k, start, rec, snt)
  BY QueueParts
<1>2. /\ mask[b] \in Nat /\ F(m, b) \in 0..mask[b] /\ T(m, b) \in 0..mask[b]
  BY <1>1, IndexFacts
<1>3. /\ Span(F(m, b), F(m, b), mask[b]) = 0
      /\ Span(F(m, b), T(m, b), mask[b]) \in 0..mask[b]
      /\ Span(F(m, b), T(m, b), mask[b]) > 0
  BY <1>2, SpanRange
<1>4. /\ rec \in Nat /\ snt \in Nat
      /\ start[i + 1] = start[i] + Span(F(m, b), T(m, b), mask[b])
      /\ \A s \in 0..mask[b] :
           Span(F(m, b), s, mask[b]) < Span(F(m, b), T(m, b), mask[b])
             => El(m, b, s) = start[i] + Span(F(m, b), s, mask[b])
      /\ start[N + 1] = snt + 1
      /\ \A j, h \in 1..N+1 : j <= h => start[j] <= start[h]
  BY <1>1 DEF Elements
<1>5. El(m, b, F(m, b)) = start[i] + 0
  BY <1>2, <1>3, <1>4
<1>6. i + 1 \in 1..N+1 /\ N + 1 \in 1..N+1 /\ i + 1 <= N + 1
  BY <1>1
<1>7. start[i + 1] <= snt + 1
  BY <1>4, <1>6
<1> HIDE DEF b, N
<1>8. rec < snt
  BY <1>2, <1>3, <1>4, <1>7
<1> QED BY <1>4, <1>5, <1>8 DEF b

\* When the front block is used up, the next one begins with the next element.
LEMMA NextStart ==
  ASSUME NEW m, NEW mask, NEW alloc, NEW ring, NEW k, NEW start, NEW rec, NEW snt,
         Queue(m, mask, alloc, ring, k, start, rec, snt),
         k < Len(ring), F(m, ring[k]) = T(m, ring[k])
  PROVE  /\ start[k + 1] = rec + 1 /\ F(m, ring[k + 1]) # T(m, ring[k + 1])
         /\ k + 1 \in 1..Len(ring)
<1> DEFINE b == ring[k]
           N == Len(ring)
<1>1. /\ N \in Nat /\ k \in Nat /\ k >= 1 /\ k \in 1..N /\ MemoryOK(m) /\ b \in Blocks /\ Indices(m, mask, b)
      /\ Elements(m, mask, ring, k, start, rec, snt)
  BY QueueParts
<1>2. /\ mask[b] \in Nat /\ F(m, b) \in 0..mask[b] /\ T(m, b) \in 0..mask[b]
  BY <1>1, IndexFacts
<1>3. Span(F(m, b), T(m, b), mask[b]) = 0
  BY <1>2, SpanRange
<1>4. k \in 1..k /\ k + 1 \in 1..N /\ k + 1 > k
  BY <1>1
<1>5. /\ rec \in Nat /\ start[k] = rec + 1
      /\ start[k + 1] = start[k] + Span(F(m, b), T(m, b), mask[b])
      /\ F(m, ring[k + 1]) # T(m, ring[k + 1])
  BY <1>1, <1>4 DEF Elements
<1> QED BY <1>3, <1>4, <1>5

\* In the front block the next element comes first.
LEMMA FrontStart ==
  ASSUME NEW m, NEW mask, NEW alloc, NEW ring, NEW k, NEW start, NEW rec, NEW snt,
         Queue(m, mask, alloc, ring, k, start, rec, snt)
  PROVE  k \in 1..Len(ring) /\ start[k] = rec + 1 /\ rec \in Nat /\ snt \in Nat /\ rec <= snt
<1>1. /\ Len(ring) \in Nat /\ k \in Nat /\ k >= 1 /\ k \in 1..Len(ring)
      /\ Elements(m, mask, ring, k, start, rec, snt)
  BY QueueParts
<1>2. k \in 1..k /\ k \in 1..Len(ring)+1 /\ Len(ring) + 1 \in 1..Len(ring)+1 /\ k <= Len(ring) + 1
  BY <1>1
<1>3. /\ rec \in Nat /\ snt \in Nat /\ start[k] = rec + 1 /\ start[Len(ring) + 1] = snt + 1
      /\ start[k] <= start[Len(ring) + 1]
  BY <1>1, <1>2 DEF Elements
<1> QED BY <1>1, <1>3

\* A localTail that is not the front tells that there is an element.
LEMMA LocalTailTells ==
  ASSUME NEW m, MemoryOK(m), NEW mask, NEW b \in Blocks, Indices(m, mask, b),
         NEW lt, LocalTailOK(m, mask, b, lt), lt # F(m, b)
  PROVE  F(m, b) # T(m, b) /\ Wri(m, b, F(m, b)) <= Acq(m, C)
<1>1. /\ mask[b] \in Nat /\ F(m, b) \in 0..mask[b] /\ T(m, b) \in 0..mask[b] /\ lt \in 0..mask[b]
      /\ T(m, b) = Val(m, tail(b), Depth(m, tail(b)))
  BY IndexFacts DEF LocalTailOK
<1>2. Span(F(m, b), lt, mask[b]) > 0 /\ Span(F(m, b), F(m, b), mask[b]) = 0 /\ Span(F(m, b), lt, mask[b]) \in 0..mask[b]
  BY <1>1, SpanRange
<1>3. Depth(m, tail(b)) \in 1..Depth(m, tail(b))
  <2>1. tail(b) \in Atomics
    BY AtomicFacts
  <2>2. Depth(m, tail(b)) \in Nat /\ Depth(m, tail(b)) >= 1
    BY <2>1, MemoryFacts
  <2> QED BY <2>2
<1>4. Span(F(m, b), lt, mask[b]) <= Span(F(m, b), T(m, b), mask[b])
  BY <1>1, <1>3 DEF LocalTailOK
<1>5. Wri(m, b, F(m, b)) <= Acq(m, C)
  BY <1>1, <1>2 DEF LocalTailOK
<1>6. F(m, b) # T(m, b)
  BY <1>1, <1>2, <1>4
<1> QED BY <1>5, <1>6

\* The producer may construct behind the tail, and there is no object.
LEMMA LocalFrontTells ==
  ASSUME NEW m, MemoryOK(m), NEW mask, NEW b \in Blocks, Block(m, mask, b),
         NEW lf, LocalFrontOK(m, mask, b, lf)
  PROVE  /\ ~Races(m, P, slot(b, T(m, b)))
         /\ ValueOf(m, slot(b, T(m, b))) = Raw
         /\ Wrap(T(m, b), mask[b]) # lf =>
              /\ Span(lf, T(m, b), mask[b]) < mask[b]
              /\ \A i \in 1..Depth(m, front(b)) : Span(Val(m, front(b), i), T(m, b), mask[b]) < mask[b]
<1>1. Indices(m, mask, b)
  BY DEF Block
<1>2. mask[b] \in Nat /\ F(m, b) \in 0..mask[b] /\ T(m, b) \in 0..mask[b] /\ lf \in 0..mask[b]
  BY <1>1, IndexFacts DEF LocalFrontOK
<1>3. /\ Span(lf, T(m, b), mask[b]) \in 0..mask[b] /\ Span(F(m, b), T(m, b), mask[b]) \in 0..mask[b]
      /\ Wrap(T(m, b), mask[b]) # lf => Span(lf, T(m, b), mask[b]) < mask[b]
  BY <1>2, SpanRange
<1>4. By(m, b, T(m, b)) = P \/ Wri(m, b, T(m, b)) <= Acq(m, P)
  BY <1>2, <1>3 DEF LocalFrontOK
<1>5. Wri(m, b, T(m, b)) \in Nat /\ Acq(m, P) \in Nat
  BY <1>1, <1>2, IndexFacts, MemoryFacts, ThreadFacts
<1>6. ~Races(m, P, slot(b, T(m, b)))
  <2>1. By(m, b, T(m, b)) = P => ~Races(m, P, slot(b, T(m, b)))
    BY DEF Races, By
  <2>2. Wri(m, b, T(m, b)) <= Acq(m, P) => ~Races(m, P, slot(b, T(m, b)))
    <3> SUFFICES ASSUME Wri(m, b, T(m, b)) <= Acq(m, P) PROVE ~(Wri(m, b, T(m, b)) > Acq(m, P))
      BY DEF Races, Wri, Acq
    <3> QED BY <1>5
  <2> QED BY <1>4, <2>1, <2>2
<1>7. ValueOf(m, slot(b, T(m, b))) = Raw
  BY <1>2, <1>3 DEF Block, FreeSlots, El, ValueOf
<1>8. ASSUME Span(lf, T(m, b), mask[b]) < mask[b], NEW i \in 1..Depth(m, front(b))
      PROVE  Span(Val(m, front(b), i), T(m, b), mask[b]) < mask[b]
  <2>1. Val(m, front(b), i) \in 0..mask[b]
    BY <1>1 DEF Indices
  <2>2. Span(Val(m, front(b), i), T(m, b), mask[b]) \in 0..mask[b]
    BY <2>1, <1>2, SpanRange
  <2>3. Span(lf, T(m, b), mask[b]) >= Span(Val(m, front(b), i), T(m, b), mask[b])
    BY DEF LocalFrontOK
  <2> QED BY <2>2, <2>3, <1>2, <1>3, <1>8
<1> QED BY <1>3, <1>6, <1>7, <1>8

\* An access that is no race leaves no trace but its write.
LEMMA ReadQuietly ==
  ASSUME NEW m, MemoryOK(m), NEW t, NEW p, ~Races(m, t, p)
  PROVE  Read(m, t, p) = m
BY DEF Read, MemoryOK

\* An access to what was written before the last known write is no race.
LEMMA KnownIsNoRace ==
  ASSUME NEW m, MemoryOK(m), NEW t \in Threads, NEW b \in Blocks, NEW s \in Slots \cup {Members},
         Wri(m, b, s) <= Acq(m, t)
  PROVE  ~Races(m, t, slot(b, s))
<1>1. Wri(m, b, s) \in Nat /\ Acq(m, t) \in Nat
  BY PlainFacts, MemoryFacts
<1>2. ~(Wri(m, b, s) > Acq(m, t))
  BY <1>1
<1> QED BY <1>2 DEF Races, Wri, Acq

-----------------------------------------------------------------------------
(* What the operations of the queue do to the memory *)

\* A fence and a store behind a write
LEMMA EnqueuesHere ==
  ASSUME NEW m, MemoryOK(m), NEW mask, NEW b \in Blocks, Indices(m, mask, b), NEW e \in 0..MaxElements,
         ~Races(m, P, slot(b, T(m, b))), NEW o,
         o = Stored(Released(Written(m, P, slot(b, T(m, b)), e), P), P, tail(b), Wrap(T(m, b), mask[b]))
  PROVE  /\ MemoryOK(o) /\ Fills(m, o, mask, b, e)
         /\ \A c \in Blocks : c # b => SameBlock(m, o, c)
         /\ o.visible[frontBlock] = m.visible[frontBlock] /\ o.visible[tailBlock] = m.visible[tailBlock]
         /\ \A t \in Threads : Acq(o, t) = Acq(m, t)
         /\ o.raced = m.raced
<1>0. PICK t, v, w, rl : /\ t = T(m, b) /\ v = Wrap(t, mask[b])
                         /\ w = Written(m, P, slot(b, t), e) /\ rl = Released(w, P)
  OBVIOUS
<1>1. /\ mask[b] \in Nat /\ 0..mask[b] \subseteq Slots /\ t \in 0..mask[b] /\ t \in Slots
  BY <1>0, IndexFacts
<1>2. v \in Slots /\ v \in Int
  <2>1. v \in 0..mask[b]
    BY <1>0, <1>1, SpanRange
  <2> QED BY <2>1, <1>1
<1>3. /\ slot(b, t) \in Plain /\ tail(b) \in Atomics /\ WriterOf(tail(b)) = P /\ P \in Threads
      /\ frontBlock \in Atomics /\ tailBlock \in Atomics /\ tail(b) # frontBlock /\ tail(b) # tailBlock
      /\ v \in ValuesOf(tail(b))
  <2>1. /\ slot(b, t) \in Plain /\ tail(b) \in Atomics /\ WriterOf(tail(b)) = P /\ P \in Threads
        /\ frontBlock \in Atomics /\ tailBlock \in Atomics /\ tail(b) # frontBlock /\ tail(b) # tailBlock
    BY <1>1, AtomicFacts, ThreadFacts
  <2>2. ValuesOf(tail(b)) = Slots
    BY DEF ValuesOf, tail
  <2> QED BY <2>1, <2>2, <1>2
<1>4. /\ MemoryOK(w) /\ w.visible = m.visible /\ w.acquired = m.acquired
      /\ w.writes = [m.writes EXCEPT ![P] = m.writes[P] + 1]
      /\ w.plain[slot(b, t)] = [value |-> e, by |-> P, write |-> m.writes[P] + 1]
      /\ \A q \in Plain : q # slot(b, t) => w.plain[q] = m.plain[q]
      /\ w.raced = (m.raced \/ Races(m, P, slot(b, t)))
  <2>1. Writes(m, w, P, slot(b, t), e)
    BY <1>0, <1>3, WrittenFacts
  <2> QED BY ONLY <2>1 DEF Writes
<1>5. /\ MemoryOK(rl) /\ rl.visible = w.visible /\ rl.plain = w.plain /\ rl.writes = w.writes
      /\ rl.acquired = w.acquired /\ rl.raced = w.raced /\ rl.released[P] = w.writes[P]
  <2>1. rl = Released(w, P)
    BY <1>0
  <2>2. MemoryOK(w) /\ P \in Threads
    BY <1>3, <1>4
  <2>3. Releases(w, rl, P)
    BY ONLY <2>1, <2>2, ReleasedFacts
  <2> QED BY ONLY <2>3 DEF Releases
<1>6. o = Stored(rl, P, tail(b), v)
  BY <1>0
<1>7. /\ MemoryOK(o) /\ o.plain = rl.plain /\ o.acquired = rl.acquired /\ o.raced = rl.raced
      /\ \A y \in Atomics : y # tail(b) => o.visible[y] = rl.visible[y]
      /\ Appends(rl, o, tail(b), v, rl.writes[P] + 1, rl.released[P])
  <2>1. /\ MemoryOK(rl) /\ P \in Threads /\ tail(b) \in Atomics /\ WriterOf(tail(b)) = P
        /\ v \in Int /\ v \in ValuesOf(tail(b)) /\ o = Stored(rl, P, tail(b), v)
    BY <1>2, <1>3, <1>5, <1>6
  <2>2. Stores(rl, o, P, tail(b), v)
    BY ONLY <2>1, StoredFacts
  <2> QED BY <2>2 DEF Stores
<1>8. m.writes[P] \in Nat /\ rl.writes[P] = m.writes[P] + 1 /\ rl.released[P] = m.writes[P] + 1
  <2>1. m.writes[P] \in Nat /\ m.writes \in [Threads -> Nat]
    BY <1>3 DEF MemoryOK
  <2> QED BY <2>1, <1>3, <1>4, <1>5
<1>9. Appends(m, o, tail(b), v, rl.writes[P] + 1, rl.released[P])
  BY <1>4, <1>5, <1>7, SMTT(30) DEF Appends, Depth
<1>10. /\ o.plain[slot(b, t)] = [value |-> e, by |-> P, write |-> m.writes[P] + 1]
       /\ \A q \in Plain : q # slot(b, t) => o.plain[q] = m.plain[q]
       /\ \A y \in Atomics : y # tail(b) => o.visible[y] = m.visible[y]
       /\ o.acquired = m.acquired /\ o.raced = m.raced
  BY <1>0, <1>4, <1>5, <1>7 DEF MemoryOK
<1>11. Fills(m, o, mask, b, e)
  <2>1. o.visible[front(b)] = m.visible[front(b)] /\ o.visible[next(b)] = m.visible[next(b)]
    BY <1>10, AtomicFacts
  <2>2. \E s, r : /\ Appends(m, o, tail(b), v, s, r)
                  /\ s > m.writes[P] /\ s \in Nat /\ r \in Nat
                  /\ r >= m.writes[P] /\ Wri(o, b, t) <= r
    <3>1. Wri(o, b, t) = m.writes[P] + 1
      BY <1>10 DEF Wri
    <3>2. rl.writes[P] + 1 > m.writes[P] /\ rl.writes[P] + 1 \in Nat /\ rl.released[P] \in Nat
          /\ rl.released[P] >= m.writes[P] /\ Wri(o, b, t) <= rl.released[P]
      BY <3>1, <1>8
    <3> QED BY <3>2, <1>9
  <2>3. El(o, b, t) = e /\ By(o, b, t) = P
    BY <1>10 DEF El, By
  <2>4. \A s \in Slots \cup {Members} : s # t => o.plain[slot(b, s)] = m.plain[slot(b, s)]
    BY <1>10, AtomicFacts
  <2>5. Members # t
    BY <1>1, AtomicFacts
  <2> QED BY <2>1, <2>2, <2>3, <2>4, <2>5, <1>0 DEF Fills, FillsSlots
<1>12. ASSUME NEW c \in Blocks, c # b PROVE SameBlock(m, o, c)
  <2>1. \A x \in {front(c), tail(c), next(c)} : o.visible[x] = m.visible[x]
    BY <1>10, <1>12, AtomicFacts
  <2>2. \A s \in Slots \cup {Members} : o.plain[slot(c, s)] = m.plain[slot(c, s)]
    BY <1>10, <1>12, AtomicFacts
  <2> QED BY <2>1, <2>2 DEF SameBlock, SameSlots
<1>13. \A u \in Threads : Acq(o, u) = Acq(m, u)
  BY <1>10, SMTT(30) DEF Acq
<1> QED BY <1>3, <1>7, <1>10, <1>11, <1>12, <1>13

\* Into the block after the tail block: the fence comes with the store to tailBlock.
LEMMA EnqueuesNext ==
  ASSUME NEW m, MemoryOK(m), NEW mask, NEW b \in Blocks, Indices(m, mask, b), NEW e \in 0..MaxElements,
         ~Races(m, P, slot(b, T(m, b))), F(m, b) = T(m, b), b # Own(m, frontBlock), NEW o,
         o = Stored(Released(Stored(Written(m, P, slot(b, T(m, b)), e), P, tail(b), Wrap(T(m, b), mask[b])), P),
                    P, tailBlock, b)
  PROVE  /\ MemoryOK(o) /\ Fills(m, o, mask, b, e)
         /\ \A c \in Blocks : c # b => SameBlock(m, o, c)
         /\ o.visible[frontBlock] = m.visible[frontBlock]
         /\ \A t \in Threads : Acq(o, t) = Acq(m, t)
         /\ o.raced = m.raced
         /\ \E st, r : /\ r \in Nat /\ Appends(m, o, tailBlock, b, st, r) /\ r >= m.writes[P]
                       /\ Last(o, tail(b)) <= r /\ Wri(o, b, T(m, b)) <= r
<1>0. PICK t, v, w, f, rl : /\ t = T(m, b) /\ v = Wrap(t, mask[b])
                            /\ w = Written(m, P, slot(b, t), e) /\ f = Stored(w, P, tail(b), v)
                            /\ rl = Released(f, P)
  OBVIOUS
<1>1. /\ mask[b] \in Nat /\ 0..mask[b] \subseteq Slots /\ t \in 0..mask[b] /\ t \in Slots
  BY <1>0, IndexFacts
<1>2. v \in Slots /\ v \in Int
  <2>1. v \in 0..mask[b]
    BY <1>0, <1>1, SpanRange
  <2> QED BY <2>1, <1>1
<1>3. /\ slot(b, t) \in Plain /\ tail(b) \in Atomics /\ WriterOf(tail(b)) = P /\ P \in Threads
      /\ frontBlock \in Atomics /\ tailBlock \in Atomics /\ tail(b) # frontBlock /\ tail(b) # tailBlock
      /\ WriterOf(tailBlock) = P /\ frontBlock # tailBlock
      /\ v \in ValuesOf(tail(b)) /\ b \in ValuesOf(tailBlock) /\ b \in Int
  <2>1. /\ slot(b, t) \in Plain /\ tail(b) \in Atomics /\ WriterOf(tail(b)) = P /\ P \in Threads
        /\ frontBlock \in Atomics /\ tailBlock \in Atomics /\ tail(b) # frontBlock /\ tail(b) # tailBlock
        /\ WriterOf(tailBlock) = P /\ frontBlock # tailBlock
    BY <1>1, AtomicFacts, ThreadFacts
  <2>2. ValuesOf(tail(b)) = Slots
    BY DEF ValuesOf, tail
  <2>3. b \in ValuesOf(tailBlock)
    BY DEF ValuesOf, tailBlock
  <2>4. b \in Int
    BY DEF Blocks
  <2> QED BY <2>1, <2>2, <2>3, <2>4, <1>2
<1>4. /\ MemoryOK(w) /\ w.visible = m.visible /\ w.acquired = m.acquired
      /\ w.writes = [m.writes EXCEPT ![P] = m.writes[P] + 1]
      /\ w.plain[slot(b, t)] = [value |-> e, by |-> P, write |-> m.writes[P] + 1]
      /\ \A q \in Plain : q # slot(b, t) => w.plain[q] = m.plain[q]
      /\ w.raced = (m.raced \/ Races(m, P, slot(b, t)))
  <2>1. Writes(m, w, P, slot(b, t), e)
    BY <1>0, <1>3, WrittenFacts
  <2> QED BY <2>1 DEF Writes
<1>5. /\ MemoryOK(f) /\ f.plain = w.plain /\ f.acquired = w.acquired /\ f.raced = w.raced
      /\ f.writes = [w.writes EXCEPT ![P] = w.writes[P] + 1]
      /\ \A y \in Atomics : y # tail(b) => f.visible[y] = w.visible[y]
      /\ Appends(w, f, tail(b), v, w.writes[P] + 1, w.released[P])
  <2>1. f = Stored(w, P, tail(b), v)
    BY <1>0
  <2>2. /\ MemoryOK(w) /\ P \in Threads /\ tail(b) \in Atomics /\ WriterOf(tail(b)) = P
        /\ v \in Int /\ v \in ValuesOf(tail(b))
    BY <1>2, <1>3, <1>4
  <2>3. Stores(w, f, P, tail(b), v)
    BY ONLY <2>1, <2>2, StoredFacts
  <2> QED BY ONLY <2>3 DEF Stores
<1>6. w.released[P] \in Nat
  BY <1>3, <1>4, MemoryFacts
<1>7. /\ MemoryOK(rl) /\ rl.visible = f.visible /\ rl.plain = f.plain /\ rl.writes = f.writes
      /\ rl.acquired = f.acquired /\ rl.raced = f.raced /\ rl.released[P] = f.writes[P]
  <2>1. rl = Released(f, P)
    BY <1>0
  <2>2. MemoryOK(f) /\ P \in Threads
    BY <1>3, <1>5
  <2>3. Releases(f, rl, P)
    BY ONLY <2>1, <2>2, ReleasedFacts
  <2> QED BY ONLY <2>3 DEF Releases
<1>8. o = Stored(rl, P, tailBlock, b)
  BY <1>0
<1>9. /\ MemoryOK(o) /\ o.plain = rl.plain /\ o.acquired = rl.acquired /\ o.raced = rl.raced
      /\ \A y \in Atomics : y # tailBlock => o.visible[y] = rl.visible[y]
      /\ Appends(rl, o, tailBlock, b, rl.writes[P] + 1, rl.released[P])
  <2>1. /\ MemoryOK(rl) /\ P \in Threads /\ tailBlock \in Atomics /\ WriterOf(tailBlock) = P
        /\ b \in Int /\ b \in ValuesOf(tailBlock) /\ o = Stored(rl, P, tailBlock, b)
    BY <1>3, <1>7, <1>8
  <2>2. Stores(rl, o, P, tailBlock, b)
    BY ONLY <2>1, StoredFacts
  <2> QED BY ONLY <2>2 DEF Stores
<1>10. /\ m.writes[P] \in Nat /\ w.writes[P] = m.writes[P] + 1 /\ f.writes[P] = m.writes[P] + 2
       /\ rl.released[P] = m.writes[P] + 2
  <2>1. m.writes[P] \in Nat /\ m.writes \in [Threads -> Nat] /\ w.writes \in [Threads -> Nat]
    BY <1>3, <1>4 DEF MemoryOK
  <2>2. w.writes[P] = m.writes[P] + 1 /\ f.writes[P] = w.writes[P] + 1
    BY <2>1, <1>3, <1>4, <1>5
  <2> QED BY <2>1, <2>2, <1>7
<1>11. /\ o.plain[slot(b, t)] = [value |-> e, by |-> P, write |-> m.writes[P] + 1]
       /\ \A q \in Plain : q # slot(b, t) => o.plain[q] = m.plain[q]
       /\ \A y \in Atomics : y # tail(b) /\ y # tailBlock => o.visible[y] = m.visible[y]
       /\ o.acquired = m.acquired /\ o.raced = m.raced
       /\ o.visible[tail(b)] = f.visible[tail(b)] /\ rl.visible[tailBlock] = m.visible[tailBlock]
  <2>1. o.plain = w.plain /\ o.acquired = m.acquired /\ o.raced = w.raced
    BY <1>4, <1>5, <1>7, <1>9
  <2>2. o.raced = m.raced
    <3>1. m.raced \in BOOLEAN /\ ~Races(m, P, slot(b, t))
      BY <1>0 DEF MemoryOK
    <3> QED BY <3>1, <2>1, <1>4
  <2>3. \A y \in Atomics : y # tail(b) /\ y # tailBlock => o.visible[y] = m.visible[y]
    BY <1>4, <1>5, <1>7, <1>9
  <2> QED BY <2>1, <2>2, <2>3, <1>3, <1>4, <1>5, <1>7, <1>9
<1>12. Appends(m, o, tail(b), v, w.writes[P] + 1, w.released[P])
  BY <1>4, <1>5, <1>11 DEF Appends, Depth
<1>13. Appends(m, o, tailBlock, b, rl.writes[P] + 1, rl.released[P])
  BY <1>9, <1>11 DEF Appends, Depth
<1>14. Fills(m, o, mask, b, e)
  <2>1. o.visible[front(b)] = m.visible[front(b)] /\ o.visible[next(b)] = m.visible[next(b)]
    BY <1>11, AtomicFacts
  <2>2. \E s, r : /\ Appends(m, o, tail(b), v, s, r)
                  /\ s > m.writes[P] /\ s \in Nat /\ r \in Nat
    <3>1. w.writes[P] + 1 > m.writes[P] /\ w.writes[P] + 1 \in Nat
      BY <1>10
    <3> QED BY <3>1, <1>6, <1>12
  <2>3. El(o, b, t) = e /\ By(o, b, t) = P
    BY <1>11 DEF El, By
  <2>4. \A s \in Slots \cup {Members} : s # t => o.plain[slot(b, s)] = m.plain[slot(b, s)]
    BY <1>11, AtomicFacts
  <2>5. Members # t
    BY <1>1, AtomicFacts
  <2> QED BY <2>1, <2>2, <2>3, <2>4, <2>5, <1>0 DEF Fills, FillsSlots
<1>15. ASSUME NEW c \in Blocks, c # b PROVE SameBlock(m, o, c)
  <2>1. \A x \in {front(c), tail(c), next(c)} : o.visible[x] = m.visible[x]
    BY <1>11, <1>15, AtomicFacts
  <2>2. \A s \in Slots \cup {Members} : o.plain[slot(c, s)] = m.plain[slot(c, s)]
    BY <1>11, <1>15, AtomicFacts
  <2> QED BY <2>1, <2>2 DEF SameBlock, SameSlots
<1>16. \A u \in Threads : Acq(o, u) = Acq(m, u)
  BY <1>11 DEF Acq
<1>17. /\ rl.released[P] \in Nat /\ rl.released[P] >= m.writes[P]
       /\ Last(o, tail(b)) <= rl.released[P] /\ Wri(o, b, t) <= rl.released[P]
  <2>1. Wri(o, b, t) = m.writes[P] + 1
    BY <1>11 DEF Wri
  <2>2. Depth(m, tail(b)) \in Nat
    BY <1>3, MemoryFacts
  <2>3. Last(o, tail(b)) = w.writes[P] + 1
    BY <2>2, <1>12, AppendFacts
  <2> QED BY <2>1, <2>3, <1>10
<1> QED BY <1>3, <1>9, <1>11, <1>13, <1>14, <1>15, <1>16, <1>17, <1>0

\* Into a new block: the one fence comes with the store to tailBlock.
LEMMA EnqueuesNew ==
  ASSUME NEW m, MemoryOK(m), NEW mask, NEW b \in Blocks, NEW new \in Blocks, new # b,
         Fresh(m, new), mask[new] \in Nat, mask[new] >= 1, mask[new] < SlotBound,
         Own(m, next(b)) \in Blocks, new # Own(m, frontBlock),
         NEW e \in 1..MaxElements, NEW o, NEW made, NEW built, NEW filled, NEW hung, NEW linked,
         made = Written(m, P, slot(new, Members), 1),
         built = Written(made, P, slot(new, 0), e),
         filled = Stored(built, P, tail(new), 1),
         hung = Stored(filled, P, next(new), Own(m, next(b))),
         linked = Stored(hung, P, next(b), new),
         o = Stored(Released(linked, P), P, tailBlock, new)
  PROVE  /\ MemoryOK(o) /\ FillsSlots(m, o, mask, new, e)
         /\ SameSlots(m, o, b) /\ Own(o, next(b)) = new /\ Own(o, next(new)) = Own(m, next(b))
         /\ \A c \in Blocks : c # b /\ c # new => SameBlock(m, o, c)
         /\ o.visible[frontBlock] = m.visible[frontBlock]
         /\ \A t \in Threads : Acq(o, t) = Acq(m, t)
         /\ o.raced = m.raced
         /\ \E st, r : /\ r \in Nat /\ Appends(m, o, tailBlock, new, st, r) /\ r >= m.writes[P]
                       /\ Last(o, tail(new)) <= r /\ Last(o, next(b)) <= r
                       /\ Wri(o, new, 0) <= r /\ Wri(o, new, Members) <= r
<1>0. PICK w, rl : w = m.writes[P] /\ rl = Released(linked, P)
  OBVIOUS
<1>1. /\ 0 \in Slots /\ 1 \in Slots /\ 1 \in 0..MaxElements /\ e \in 0..MaxElements /\ 1 \in Int
      /\ 0 \in 0..mask[new] /\ Wrap(0, mask[new]) = 1
  <2>1. 0 \in Slots /\ 1 \in Slots
    BY SizesPositive DEF Slots
  <2>2. 1 \in 0..MaxElements /\ e \in 0..MaxElements
    BY OpsAssumption
  <2> QED BY <2>1, <2>2 DEF Wrap
<1>2. /\ slot(new, 0) \in Plain /\ slot(new, Members) \in Plain /\ slot(new, 0) # slot(new, Members)
      /\ tail(new) \in Atomics /\ next(new) \in Atomics /\ next(b) \in Atomics /\ tailBlock \in Atomics
      /\ frontBlock \in Atomics
      /\ WriterOf(tail(new)) = P /\ WriterOf(next(new)) = P /\ WriterOf(next(b)) = P /\ WriterOf(tailBlock) = P
      /\ P \in Threads
      /\ tail(new) # next(new) /\ tail(new) # next(b) /\ tail(new) # tailBlock
      /\ next(new) # next(b) /\ next(new) # tailBlock /\ next(b) # tailBlock
      /\ frontBlock \notin {tail(new), next(new), next(b), tailBlock}
  BY <1>1, AtomicFacts, ThreadFacts
<1>3. /\ 1 \in ValuesOf(tail(new)) /\ Own(m, next(b)) \in ValuesOf(next(new)) /\ new \in ValuesOf(next(b))
      /\ new \in ValuesOf(tailBlock) /\ new \in Int /\ Own(m, next(b)) \in Int
  <2>1. ValuesOf(tail(new)) = Slots
    BY DEF ValuesOf, tail
  <2>2. ValuesOf(next(new)) = {NoBlock} \cup Blocks /\ ValuesOf(next(b)) = {NoBlock} \cup Blocks
    BY DEF ValuesOf, next
  <2>3. ValuesOf(tailBlock) = {NoBlock} \cup Blocks
    BY DEF ValuesOf, tailBlock
  <2>4. Blocks \subseteq Int
    BY DEF Blocks
  <2> QED BY <2>1, <2>2, <2>3, <2>4, <1>1
<1>4. w \in Nat /\ m.writes \in [Threads -> Nat]
  BY <1>0, <1>2 DEF MemoryOK
<1>5. ~Races(m, P, slot(new, Members)) /\ ~Races(m, P, slot(new, 0))
  <2>1. Acq(m, P) \in Nat
    BY <1>2, MemoryFacts
  <2>2. Wri(m, new, Members) <= Acq(m, P) /\ Wri(m, new, 0) <= Acq(m, P)
    BY <2>1, <1>1 DEF Fresh
  <2> QED BY <2>2, <1>1, <1>2, KnownIsNoRace
<1>6. /\ MemoryOK(made) /\ made.visible = m.visible /\ made.acquired = m.acquired /\ made.released = m.released
      /\ made.writes[P] = w + 1
      /\ made.plain[slot(new, Members)].write = w + 1
      /\ \A q \in Plain : q # slot(new, Members) => made.plain[q] = m.plain[q]
      /\ made.raced = m.raced
  <2>1. /\ MemoryOK(made) /\ made.visible = m.visible /\ made.acquired = m.acquired /\ made.released = m.released
        /\ made.writes = [m.writes EXCEPT ![P] = m.writes[P] + 1]
        /\ made.plain[slot(new, Members)] = [value |-> 1, by |-> P, write |-> m.writes[P] + 1]
        /\ \A q \in Plain : q # slot(new, Members) => made.plain[q] = m.plain[q]
        /\ made.raced = (m.raced \/ Races(m, P, slot(new, Members)))
    <3>1. Writes(m, made, P, slot(new, Members), 1)
      BY <1>1, <1>2, WrittenFacts
    <3> QED BY ONLY <3>1 DEF Writes
  <2>2. made.raced = m.raced
    <3>1. m.raced \in BOOLEAN
      BY DEF MemoryOK
    <3> QED BY <3>1, <2>1, <1>5
  <2>3. made.writes[P] = w + 1
    BY <2>1, <1>2, <1>4, <1>0
  <2> QED BY <2>1, <2>2, <2>3, <1>0
<1>7. ~Races(made, P, slot(new, 0))
  BY <1>2, <1>5, <1>6 DEF Races
<1>8. /\ MemoryOK(built) /\ built.visible = m.visible /\ built.acquired = m.acquired
      /\ built.writes[P] = w + 2
      /\ built.plain[slot(new, 0)] = [value |-> e, by |-> P, write |-> w + 2]
      /\ \A q \in Plain : q # slot(new, 0) => built.plain[q] = made.plain[q]
      /\ built.raced = m.raced
  <2>1. /\ MemoryOK(built) /\ built.visible = made.visible /\ built.acquired = made.acquired
        /\ built.writes = [made.writes EXCEPT ![P] = made.writes[P] + 1]
        /\ built.plain[slot(new, 0)] = [value |-> e, by |-> P, write |-> made.writes[P] + 1]
        /\ \A q \in Plain : q # slot(new, 0) => built.plain[q] = made.plain[q]
        /\ built.raced = (made.raced \/ Races(made, P, slot(new, 0)))
    <3>1. Writes(made, built, P, slot(new, 0), e)
      BY <1>1, <1>2, <1>6, WrittenFacts
    <3> QED BY ONLY <3>1 DEF Writes
  <2>2. made.writes \in [Threads -> Nat] /\ (w + 1) + 1 = w + 2
    BY <1>4, <1>6 DEF MemoryOK
  <2>3. built.raced = m.raced
    <3>1. m.raced \in BOOLEAN
      BY DEF MemoryOK
    <3> QED BY <3>1, <2>1, <1>6, <1>7
  <2>4. built.writes[P] = w + 2
    BY <2>1, <2>2, <1>2, <1>6
  <2> QED BY <2>1, <2>2, <2>3, <2>4, <1>6
<1>9. /\ MemoryOK(filled) /\ filled.plain = built.plain /\ filled.acquired = m.acquired /\ filled.raced = m.raced
      /\ filled.writes[P] = w + 3
      /\ \A y \in Atomics : y # tail(new) => filled.visible[y] = m.visible[y]
      /\ Appends(m, filled, tail(new), 1, w + 3, built.released[P])
  <2>1. /\ MemoryOK(filled) /\ filled.plain = built.plain /\ filled.acquired = built.acquired /\ filled.raced = built.raced
        /\ filled.writes = [built.writes EXCEPT ![P] = built.writes[P] + 1]
        /\ \A y \in Atomics : y # tail(new) => filled.visible[y] = built.visible[y]
        /\ Appends(built, filled, tail(new), 1, built.writes[P] + 1, built.released[P])
    <3>1. /\ MemoryOK(built) /\ P \in Threads /\ tail(new) \in Atomics /\ WriterOf(tail(new)) = P
          /\ 1 \in Int /\ 1 \in ValuesOf(tail(new)) /\ filled = Stored(built, P, tail(new), 1)
      BY <1>1, <1>2, <1>3, <1>8
    <3>2. Stores(built, filled, P, tail(new), 1)
      BY ONLY <3>1, StoredFacts
    <3> QED BY ONLY <3>2 DEF Stores
  <2>2. built.writes \in [Threads -> Nat] /\ (w + 2) + 1 = w + 3
    BY <1>4, <1>8 DEF MemoryOK
  <2>3. Appends(m, filled, tail(new), 1, w + 3, built.released[P])
    <3>1. Appends(built, filled, tail(new), 1, w + 3, built.released[P])
      BY <2>1, <2>2, <1>8
    <3> QED BY ONLY <3>1, <1>8 DEF Appends, Depth
  <2> QED BY <2>1, <2>2, <2>3, <1>2, <1>8
<1>10. built.released[P] \in Nat
  BY <1>2, <1>8, MemoryFacts
<1>11. /\ MemoryOK(hung) /\ hung.plain = built.plain /\ hung.acquired = m.acquired /\ hung.raced = m.raced
       /\ hung.writes[P] = w + 4
       /\ \A y \in Atomics : y # next(new) => hung.visible[y] = filled.visible[y]
       /\ Own(hung, next(new)) = Own(m, next(b))
  <2>1. /\ MemoryOK(hung) /\ hung.plain = filled.plain /\ hung.acquired = filled.acquired /\ hung.raced = filled.raced
        /\ hung.writes = [filled.writes EXCEPT ![P] = filled.writes[P] + 1]
        /\ \A y \in Atomics : y # next(new) => hung.visible[y] = filled.visible[y]
        /\ Appends(filled, hung, next(new), Own(m, next(b)), filled.writes[P] + 1, filled.released[P])
    <3>1. /\ MemoryOK(filled) /\ P \in Threads /\ next(new) \in Atomics /\ WriterOf(next(new)) = P
          /\ Own(m, next(b)) \in Int /\ Own(m, next(b)) \in ValuesOf(next(new)) /\ hung = Stored(filled, P, next(new), Own(m, next(b)))
      BY <1>2, <1>3, <1>9
    <3>2. Stores(filled, hung, P, next(new), Own(m, next(b)))
      BY ONLY <3>1, StoredFacts
    <3> QED BY ONLY <3>2 DEF Stores
  <2>2. filled.writes \in [Threads -> Nat] /\ (w + 3) + 1 = w + 4
    BY <1>4, <1>9 DEF MemoryOK
  <2>3. Depth(filled, next(new)) \in Nat
    BY <1>2, <1>9, MemoryFacts
  <2>4. Own(hung, next(new)) = Own(m, next(b))
    BY <2>1, <2>3, AppendFacts
  <2> QED BY <2>1, <2>2, <2>4, <1>2, <1>9
<1>12. /\ MemoryOK(linked) /\ linked.plain = built.plain /\ linked.acquired = m.acquired /\ linked.raced = m.raced
       /\ linked.writes[P] = w + 5
       /\ \A y \in Atomics : y # next(b) => linked.visible[y] = hung.visible[y]
       /\ Own(linked, next(b)) = new /\ Last(linked, next(b)) = w + 5
  <2>1. /\ MemoryOK(linked) /\ linked.plain = hung.plain /\ linked.acquired = hung.acquired /\ linked.raced = hung.raced
        /\ linked.writes = [hung.writes EXCEPT ![P] = hung.writes[P] + 1]
        /\ \A y \in Atomics : y # next(b) => linked.visible[y] = hung.visible[y]
        /\ Appends(hung, linked, next(b), new, hung.writes[P] + 1, hung.released[P])
    <3>1. /\ MemoryOK(hung) /\ P \in Threads /\ next(b) \in Atomics /\ WriterOf(next(b)) = P
          /\ new \in Int /\ new \in ValuesOf(next(b)) /\ linked = Stored(hung, P, next(b), new)
      BY <1>2, <1>3, <1>11
    <3>2. Stores(hung, linked, P, next(b), new)
      BY ONLY <3>1, StoredFacts
    <3> QED BY ONLY <3>2 DEF Stores
  <2>2. hung.writes \in [Threads -> Nat] /\ (w + 4) + 1 = w + 5
    BY <1>4, <1>11 DEF MemoryOK
  <2>3. Depth(hung, next(b)) \in Nat
    BY <1>2, <1>11, MemoryFacts
  <2>4. Own(linked, next(b)) = new /\ Last(linked, next(b)) = hung.writes[P] + 1
    BY <2>1, <2>3, AppendFacts
  <2> QED BY <2>1, <2>2, <2>4, <1>2, <1>11
<1>13. /\ MemoryOK(rl) /\ rl.visible = linked.visible /\ rl.plain = linked.plain /\ rl.writes = linked.writes
       /\ rl.acquired = linked.acquired /\ rl.raced = linked.raced /\ rl.released[P] = w + 5
  <2>1. MemoryOK(linked) /\ P \in Threads /\ rl = Released(linked, P)
    BY <1>0, <1>2, <1>12
  <2>2. Releases(linked, rl, P)
    BY ONLY <2>1, ReleasedFacts
  <2>3. /\ MemoryOK(rl) /\ rl.visible = linked.visible /\ rl.plain = linked.plain /\ rl.writes = linked.writes
        /\ rl.acquired = linked.acquired /\ rl.raced = linked.raced /\ rl.released[P] = linked.writes[P]
    BY ONLY <2>2 DEF Releases
  <2> QED BY <2>3, <1>12
<1>14. o = Stored(rl, P, tailBlock, new)
  BY <1>0
<1>15. /\ MemoryOK(o) /\ o.plain = built.plain /\ o.acquired = m.acquired /\ o.raced = m.raced
       /\ \A y \in Atomics : y # tailBlock => o.visible[y] = linked.visible[y]
       /\ Appends(rl, o, tailBlock, new, rl.writes[P] + 1, w + 5)
  <2>1. /\ MemoryOK(o) /\ o.plain = rl.plain /\ o.acquired = rl.acquired /\ o.raced = rl.raced
        /\ \A y \in Atomics : y # tailBlock => o.visible[y] = rl.visible[y]
        /\ Appends(rl, o, tailBlock, new, rl.writes[P] + 1, rl.released[P])
    <3>1. /\ MemoryOK(rl) /\ P \in Threads /\ tailBlock \in Atomics /\ WriterOf(tailBlock) = P
          /\ new \in Int /\ new \in ValuesOf(tailBlock) /\ o = Stored(rl, P, tailBlock, new)
      BY <1>2, <1>3, <1>13, <1>14
    <3>2. Stores(rl, o, P, tailBlock, new)
      BY ONLY <3>1, StoredFacts
    <3> QED BY ONLY <3>2 DEF Stores
  <2> QED BY <2>1, <1>12, <1>13
<1>16. /\ \A y \in Atomics : y \notin {tail(new), next(new), next(b), tailBlock} => o.visible[y] = m.visible[y]
       /\ o.visible[tail(new)] = filled.visible[tail(new)]
       /\ o.visible[next(new)] = hung.visible[next(new)]
       /\ o.visible[next(b)] = linked.visible[next(b)]
       /\ rl.visible[tailBlock] = m.visible[tailBlock]
  BY <1>2, <1>9, <1>11, <1>12, <1>13, <1>15
<1>17. Own(o, next(b)) = new /\ Last(o, next(b)) = w + 5 /\ Own(o, next(new)) = Own(m, next(b))
  BY <1>11, <1>12, <1>16, SameFacts
<1>18. Appends(m, o, tailBlock, new, rl.writes[P] + 1, w + 5)
  BY <1>15, <1>16 DEF Appends, Depth
<1>19. Appends(m, o, tail(new), 1, w + 3, built.released[P])
  BY <1>9, <1>16, SMTT(30) DEF Appends, Depth
<1>20. T(m, new) = 0 /\ F(m, new) = 0
  BY BlockFresh
<1>21. /\ o.plain[slot(new, 0)] = [value |-> e, by |-> P, write |-> w + 2]
       /\ o.plain[slot(new, Members)].write = w + 1
       /\ \A q \in Plain : q # slot(new, 0) /\ q # slot(new, Members) => o.plain[q] = m.plain[q]
  BY <1>2, <1>6, <1>8, <1>15
<1>22. FillsSlots(m, o, mask, new, e)
  <2>1. o.visible[front(new)] = m.visible[front(new)]
    BY <1>16, AtomicFacts
  <2>2. w + 3 > w /\ w + 3 \in Nat
    BY <1>4
  <2>3. El(o, new, 0) = e /\ By(o, new, 0) = P
    BY <1>21 DEF El, By
  <2>4. \A s \in Slots : s # 0 => o.plain[slot(new, s)] = m.plain[slot(new, s)]
    BY <1>21, AtomicFacts
  <2>5. \E s, r : /\ Appends(m, o, tail(new), 1, s, r)
                  /\ s > w /\ s \in Nat /\ r \in Nat
    BY <2>2, <1>10, <1>19
  <2> QED BY <2>1, <2>3, <2>4, <2>5, <1>1, <1>20, <1>0 DEF FillsSlots
<1>23. ASSUME NEW c \in Blocks, c # new PROVE SameSlots(m, o, c) /\ (c # b => SameBlock(m, o, c))
  <2>1. /\ \A x \in {front(c), tail(c)} : o.visible[x] = m.visible[x]
        /\ c # b => o.visible[next(c)] = m.visible[next(c)]
    BY <1>16, <1>23, AtomicFacts
  <2>2. \A s \in Slots \cup {Members} : o.plain[slot(c, s)] = m.plain[slot(c, s)]
    BY <1>21, <1>23, AtomicFacts
  <2> QED BY <2>1, <2>2 DEF SameBlock, SameSlots
<1>24. \A u \in Threads : Acq(o, u) = Acq(m, u)
  BY <1>15 DEF Acq
<1>25. /\ w + 5 \in Nat /\ w + 5 >= w
       /\ Last(o, tail(new)) <= w + 5 /\ Last(o, next(b)) <= w + 5
       /\ Wri(o, new, 0) <= w + 5 /\ Wri(o, new, Members) <= w + 5
  <2>1. Wri(o, new, 0) = w + 2 /\ Wri(o, new, Members) = w + 1
    BY <1>21 DEF Wri
  <2>2. Depth(m, tail(new)) \in Nat
    BY <1>2, MemoryFacts
  <2>3. Last(o, tail(new)) = w + 3
    BY <2>2, <1>19, AppendFacts
  <2> QED BY <2>1, <2>3, <1>4, <1>17
<1>26. \E st, r : /\ r \in Nat /\ Appends(m, o, tailBlock, new, st, r) /\ r >= m.writes[P]
                  /\ Last(o, tail(new)) <= r /\ Last(o, next(b)) <= r
                  /\ Wri(o, new, 0) <= r /\ Wri(o, new, Members) <= r
  BY <1>18, <1>25, <1>0
<1> QED BY <1>2, <1>15, <1>16, <1>17, <1>22, <1>23, <1>24, <1>26

\* The element moved out and destroyed, a fence, and the slot given back
LEMMA TakesHere ==
  ASSUME NEW m, MemoryOK(m), NEW mask, NEW b \in Blocks, Indices(m, mask, b),
         ~Races(m, C, slot(b, F(m, b))), NEW o,
         o = Stored(Released(Written(m, C, slot(b, F(m, b)), Raw), C), C, front(b), Wrap(F(m, b), mask[b]))
  PROVE  /\ MemoryOK(o) /\ Takes(m, o, mask, b)
         /\ \A c \in Blocks : c # b => SameBlock(m, o, c)
         /\ o.visible[frontBlock] = m.visible[frontBlock] /\ o.visible[tailBlock] = m.visible[tailBlock]
         /\ \A t \in Threads : Acq(o, t) = Acq(m, t)
         /\ o.raced = m.raced
<1>0. PICK f, v, w, rl : /\ f = F(m, b) /\ v = Wrap(f, mask[b])
                         /\ w = Written(m, C, slot(b, f), Raw) /\ rl = Released(w, C)
  OBVIOUS
<1>1. /\ mask[b] \in Nat /\ 0..mask[b] \subseteq Slots /\ f \in 0..mask[b] /\ f \in Slots
      /\ Raw \in 0..MaxElements
  BY <1>0, IndexFacts, OpsAssumption DEF Raw
<1>2. v \in Slots /\ v \in Int
  <2>1. v \in 0..mask[b]
    BY <1>0, <1>1, SpanRange
  <2> QED BY <2>1, <1>1
<1>3. /\ slot(b, f) \in Plain /\ front(b) \in Atomics /\ WriterOf(front(b)) = C /\ C \in Threads
      /\ frontBlock \in Atomics /\ tailBlock \in Atomics /\ front(b) # frontBlock /\ front(b) # tailBlock
      /\ v \in ValuesOf(front(b))
  <2>1. /\ slot(b, f) \in Plain /\ front(b) \in Atomics /\ WriterOf(front(b)) = C /\ C \in Threads
        /\ frontBlock \in Atomics /\ tailBlock \in Atomics /\ front(b) # frontBlock /\ front(b) # tailBlock
    BY <1>1, AtomicFacts, ThreadFacts
  <2>2. ValuesOf(front(b)) = Slots
    BY DEF ValuesOf, front
  <2> QED BY <2>1, <2>2, <1>2
<1>4. /\ MemoryOK(w) /\ w.visible = m.visible /\ w.acquired = m.acquired
      /\ w.writes = [m.writes EXCEPT ![C] = m.writes[C] + 1]
      /\ w.plain[slot(b, f)] = [value |-> Raw, by |-> C, write |-> m.writes[C] + 1]
      /\ \A q \in Plain : q # slot(b, f) => w.plain[q] = m.plain[q]
      /\ w.raced = (m.raced \/ Races(m, C, slot(b, f)))
  <2>1. Writes(m, w, C, slot(b, f), Raw)
    BY <1>0, <1>1, <1>3, WrittenFacts
  <2> QED BY <2>1 DEF Writes
<1>5. /\ MemoryOK(rl) /\ rl.visible = w.visible /\ rl.plain = w.plain /\ rl.writes = w.writes
      /\ rl.acquired = w.acquired /\ rl.raced = w.raced /\ rl.released[C] = w.writes[C]
  <2>1. Releases(w, rl, C)
    BY <1>0, <1>3, <1>4, ReleasedFacts
  <2> QED BY <2>1 DEF Releases
<1>6. o = Stored(rl, C, front(b), v)
  BY <1>0
<1>7. /\ MemoryOK(o) /\ o.plain = rl.plain /\ o.acquired = rl.acquired /\ o.raced = rl.raced
      /\ \A y \in Atomics : y # front(b) => o.visible[y] = rl.visible[y]
      /\ Appends(rl, o, front(b), v, rl.writes[C] + 1, rl.released[C])
  <2>1. Stores(rl, o, C, front(b), v)
    BY <1>2, <1>3, <1>5, <1>6, StoredFacts
  <2> QED BY <2>1 DEF Stores
<1>8. m.writes[C] \in Nat /\ rl.writes[C] = m.writes[C] + 1 /\ rl.released[C] = m.writes[C] + 1
  <2>1. m.writes[C] \in Nat /\ m.writes \in [Threads -> Nat]
    BY <1>3 DEF MemoryOK
  <2> QED BY <2>1, <1>3, <1>4, <1>5
<1>9. Appends(m, o, front(b), v, rl.writes[C] + 1, rl.released[C])
  BY <1>4, <1>5, <1>7 DEF Appends, Depth
<1>10. /\ o.plain[slot(b, f)] = [value |-> Raw, by |-> C, write |-> m.writes[C] + 1]
       /\ \A q \in Plain : q # slot(b, f) => o.plain[q] = m.plain[q]
       /\ \A y \in Atomics : y # front(b) => o.visible[y] = m.visible[y]
       /\ o.acquired = m.acquired /\ o.raced = m.raced
  <2>1. m.raced \in BOOLEAN /\ ~Races(m, C, slot(b, f))
    BY <1>0 DEF MemoryOK
  <2> QED BY <2>1, <1>4, <1>5, <1>7
<1>11. Takes(m, o, mask, b)
  <2>1. o.visible[tail(b)] = m.visible[tail(b)] /\ o.visible[next(b)] = m.visible[next(b)]
    BY <1>10, AtomicFacts
  <2>2. \E s, r : /\ Appends(m, o, front(b), v, s, r)
                  /\ r \in Nat /\ r >= m.writes[C] /\ Wri(o, b, f) <= r
    <3>1. Wri(o, b, f) = m.writes[C] + 1
      BY <1>10 DEF Wri
    <3>2. /\ rl.released[C] \in Nat /\ rl.released[C] >= m.writes[C] /\ Wri(o, b, f) <= rl.released[C]
      BY <3>1, <1>8
    <3> QED BY <3>2, <1>9
  <2>3. El(o, b, f) = Raw
    BY <1>10 DEF El
  <2>4. \A s \in Slots \cup {Members} : s # f => o.plain[slot(b, s)] = m.plain[slot(b, s)]
    BY <1>10, AtomicFacts
  <2> QED BY <2>1, <2>2, <2>3, <2>4, <1>0 DEF Takes
<1>12. ASSUME NEW c \in Blocks, c # b PROVE SameBlock(m, o, c)
  <2>1. \A x \in {front(c), tail(c), next(c)} : o.visible[x] = m.visible[x]
    BY <1>10, <1>12, AtomicFacts
  <2>2. \A s \in Slots \cup {Members} : o.plain[slot(c, s)] = m.plain[slot(c, s)]
    BY <1>10, <1>12, AtomicFacts
  <2> QED BY <2>1, <2>2 DEF SameBlock, SameSlots
<1>13. \A u \in Threads : Acq(o, u) = Acq(m, u)
  BY <1>10 DEF Acq
<1> QED BY <1>3, <1>7, <1>10, <1>11, <1>12, <1>13

\* The front block left behind a fence
LEMMA Advances ==
  ASSUME NEW m, MemoryOK(m), NEW b \in Blocks, NEW o,
         o = Stored(Released(m, C), C, frontBlock, b)
  PROVE  /\ MemoryOK(o) /\ o.plain = m.plain /\ o.raced = m.raced
         /\ \A x \in Atomics : x # frontBlock => o.visible[x] = m.visible[x]
         /\ \A t \in Threads : Acq(o, t) = Acq(m, t)
         /\ \E s, r : r \in Nat /\ r >= m.writes[C] /\ Appends(m, o, frontBlock, b, s, r)
<1>0. PICK rl : rl = Released(m, C)
  OBVIOUS
<1>1. /\ C \in Threads /\ frontBlock \in Atomics /\ WriterOf(frontBlock) = C
      /\ b \in ValuesOf(frontBlock) /\ b \in Int
  <2>1. b \in ValuesOf(frontBlock)
    BY DEF ValuesOf, frontBlock
  <2>2. b \in Int
    BY DEF Blocks
  <2> QED BY <2>1, <2>2, AtomicFacts, ThreadFacts
<1>2. /\ MemoryOK(rl) /\ rl.visible = m.visible /\ rl.plain = m.plain /\ rl.writes = m.writes
      /\ rl.acquired = m.acquired /\ rl.raced = m.raced /\ rl.released[C] = m.writes[C]
  <2>1. Releases(m, rl, C)
    BY <1>0, <1>1, ReleasedFacts
  <2> QED BY <2>1 DEF Releases
<1>3. /\ MemoryOK(o) /\ o.plain = rl.plain /\ o.acquired = rl.acquired /\ o.raced = rl.raced
      /\ \A y \in Atomics : y # frontBlock => o.visible[y] = rl.visible[y]
      /\ Appends(rl, o, frontBlock, b, rl.writes[C] + 1, rl.released[C])
  <2>1. o = Stored(rl, C, frontBlock, b)
    BY <1>0
  <2>2. Stores(rl, o, C, frontBlock, b)
    BY <1>1, <1>2, <2>1, StoredFacts
  <2> QED BY <2>2 DEF Stores
<1>4. Appends(m, o, frontBlock, b, m.writes[C] + 1, m.writes[C])
  BY <1>2, <1>3 DEF Appends, Depth
<1>5. m.writes[C] \in Nat
  BY <1>1, MemoryFacts
<1>6. \A t \in Threads : Acq(o, t) = Acq(m, t)
  BY <1>2, <1>3 DEF Acq
<1>7. \E s, r : r \in Nat /\ r >= m.writes[C] /\ Appends(m, o, frontBlock, b, s, r)
  BY <1>4, <1>5
<1> QED BY <1>2, <1>3, <1>6, <1>7

-----------------------------------------------------------------------------
(* The steps of the threads, on the shape of the queue *)

\* Dropping old values keeps the shape.
LEMMA ShapeNarrows ==
  ASSUME NEW m, NEW n, MemoryOK(n), Narrows(m, n), NEW mask, NEW alloc, NEW lts, NEW lfs,
         NEW pp, NEW cp, NEW c, NEW rec, NEW snt, NEW ring, NEW k, NEW start,
         Shaped(m, mask, alloc, lts, lfs, pp, cp, c, rec, snt, ring, k, start)
  PROVE  Shaped(n, mask, alloc, lts, lfs, pp, cp, c, rec, snt, ring, k, start)
<1>1. /\ Queue(m, mask, alloc, ring, k, start, rec, snt)
      /\ LocalTailOK(m, mask, ring[k], lts[ring[k]])
      /\ LocalFrontOK(m, mask, ring[Len(ring)], lfs[ring[Len(ring)]])
      /\ ProducerAt(m, ring, k, pp)
      /\ ConsumerAt(m, mask, ring, k, cp, c)
  BY DEF Shaped
<1>2. /\ MemoryOK(m) /\ Ring(m, alloc, ring, k)
      /\ \A b \in 1..alloc : Indices(m, mask, b)
      /\ ring[k] \in Blocks /\ ring[Len(ring)] \in Blocks
      /\ Indices(m, mask, ring[k]) /\ Indices(m, mask, ring[Len(ring)])
  BY <1>1, QueueParts
<1>3. Queue(n, mask, alloc, ring, k, start, rec, snt)
  BY <1>1, QueueNarrows
<1>4. LocalTailOK(n, mask, ring[k], lts[ring[k]])
  BY <1>1, <1>2, LocalTailNarrows
<1>5. LocalFrontOK(n, mask, ring[Len(ring)], lfs[ring[Len(ring)]])
  BY <1>1, <1>2, LocalFrontNarrows
<1>6. ProducerAt(n, ring, k, pp)
  BY <1>1, <1>2, ProducerNarrows
<1>7. ConsumerAt(n, mask, ring, k, cp, c)
  BY <1>1, <1>2, ConsumerNarrows
<1> QED BY <1>3, <1>4, <1>5, <1>6, <1>7 DEF Shaped

\* What is left of the memory after a load, and after a load and a fence
LEMMA LoadShapes ==
  ASSUME NEW m, NEW mask, NEW alloc, NEW lts, NEW lfs,
         NEW pp, NEW cp, NEW c, NEW rec, NEW snt, NEW ring, NEW k, NEW start,
         Shaped(m, mask, alloc, lts, lfs, pp, cp, c, rec, snt, ring, k, start),
         NEW t \in Threads, NEW x \in Atomics, WriterOf(x) = Other(t), NEW load \in Loads(m, t, x),
         NEW n, n = Acquired(load.memory, t)
  PROVE  /\ MemoryOK(m) /\ MemoryOK(load.memory) /\ MemoryOK(n)
         /\ Narrows(m, load.memory) /\ Narrows(load.memory, n)
         /\ Shaped(load.memory, mask, alloc, lts, lfs, pp, cp, c, rec, snt, ring, k, start)
         /\ Shaped(n, mask, alloc, lts, lfs, pp, cp, c, rec, snt, ring, k, start)
         /\ n.raced = m.raced /\ load.memory.raced = m.raced
         /\ n.plain = m.plain /\ load.memory.plain = m.plain
         /\ \A y \in Atomics : Own(n, y) = Own(m, y) /\ Own(load.memory, y) = Own(m, y)
<1>1. MemoryOK(m)
  BY QueueParts DEF Shaped
<1>2. MemoryOK(load.memory) /\ Narrows(m, load.memory)
  BY <1>1, LoadsNarrow
<1>3. MemoryOK(n) /\ Narrows(load.memory, n)
  BY <1>2, AcquiredNarrow
<1>4. Shaped(load.memory, mask, alloc, lts, lfs, pp, cp, c, rec, snt, ring, k, start)
  BY <1>2, ShapeNarrows
<1>5. Shaped(n, mask, alloc, lts, lfs, pp, cp, c, rec, snt, ring, k, start)
  BY <1>3, <1>4, ShapeNarrows
<1>6. /\ n.raced = m.raced /\ load.memory.raced = m.raced
      /\ n.plain = m.plain /\ load.memory.plain = m.plain
  BY <1>2, <1>3 DEF Narrows
<1>7. \A y \in Atomics : Own(n, y) = Own(m, y) /\ Own(load.memory, y) = Own(m, y)
  BY <1>1, <1>2, <1>3, NarrowFacts
<1> QED BY <1>1, <1>2, <1>3, <1>4, <1>5, <1>6, <1>7

\* The memory after a step, without a race and of some shape
Reshaped(m, n, mask, alloc, lts, lfs, pp, cp, c, rec, snt) ==
  \E ring, k, start : /\ Shaped(n, mask, alloc, lts, lfs, pp, cp, c, rec, snt, ring, k, start)
                      /\ n.raced = m.raced

\* No race, and no object overwritten
WasFree(m, n, p) == ValueOf(m, p) = Raw /\ n.raced = m.raced

\* An element goes into the tail block, as far as the known front tells.
LEMMA TailBlockFills ==
  ASSUME NEW m, NEW mask, NEW alloc, NEW lts, NEW lfs, NEW lfs2,
         NEW pp, NEW cp, NEW c, NEW rec, NEW snt, NEW ring, NEW k, NEW start,
         Shaped(m, mask, alloc, lts, lfs, pp, cp, c, rec, snt, ring, k, start),
         NEW b, b = Own(m, tailBlock), LocalFrontOK(m, mask, b, lfs2[b]),
         Wrap(T(m, b), mask[b]) # lfs2[b], snt + 1 \in 0..MaxElements, NEW o,
         o = Stored(Released(Written(m, P, slot(b, T(m, b)), snt + 1), P), P, tail(b), Wrap(T(m, b), mask[b]))
  PROVE  /\ WasFree(m, o, slot(b, T(m, b)))
         /\ \E start2 : Shaped(o, mask, alloc, lts, lfs2, "idle", cp, c, rec, snt + 1, ring, k, start2)
<1>1. /\ Queue(m, mask, alloc, ring, k, start, rec, snt)
      /\ LocalTailOK(m, mask, ring[k], lts[ring[k]])
      /\ ConsumerAt(m, mask, ring, k, cp, c)
  BY DEF Shaped
<1>2. /\ MemoryOK(m) /\ b = ring[Len(ring)] /\ b \in Blocks
      /\ Block(m, mask, b) /\ Indices(m, mask, b)
  BY <1>1, QueueParts
<1>3. PICK lf : lf = lfs2[b]
  OBVIOUS
<1>4. /\ ~Races(m, P, slot(b, T(m, b))) /\ ValueOf(m, slot(b, T(m, b))) = Raw
      /\ Span(lf, T(m, b), mask[b]) < mask[b]
      /\ \A i \in 1..Depth(m, front(b)) : Span(Val(m, front(b), i), T(m, b), mask[b]) < mask[b]
  BY <1>2, <1>3, LocalFrontTells
<1>5. /\ MemoryOK(o) /\ Fills(m, o, mask, b, snt + 1)
      /\ \A d \in Blocks : d # b => SameBlock(m, o, d)
      /\ o.visible[frontBlock] = m.visible[frontBlock] /\ o.visible[tailBlock] = m.visible[tailBlock]
      /\ \A t \in Threads : Acq(o, t) = Acq(m, t)
      /\ o.raced = m.raced
  BY <1>2, <1>4, EnqueuesHere
<1>6. PICK start2 : start2 = [start EXCEPT ![Len(ring) + 1] = snt + 2]
  OBVIOUS
<1>7. /\ Queue(o, mask, alloc, ring, k, start2, rec, snt + 1)
      /\ \A q, d : ConsumerAt(m, mask, ring, k, q, d) => ConsumerAt(o, mask, ring, k, q, d)
      /\ \A lt : LocalTailOK(m, mask, ring[k], lt) => LocalTailOK(o, mask, ring[k], lt)
      /\ \A g : LocalFrontOK(m, mask, b, g) /\ Span(g, T(m, b), mask[b]) < mask[b]
                  => LocalFrontOK(o, mask, b, g)
  <2>1. Queue(m, mask, alloc, ring, k, start, rec, snt) /\ b = ring[Len(ring)]
    BY <1>1, <1>2
  <2>2. \A i \in 1..Depth(m, front(b)) : Span(Val(m, front(b), i), T(m, b), mask[b]) < mask[b]
    BY <1>4
  <2>3. Queue(o, mask, alloc, ring, k, [start EXCEPT ![Len(ring) + 1] = snt + 2], rec, snt + 1)
    BY ONLY <2>1, <2>2, <1>5, QueueFills
  <2>4. \A q, d : ConsumerAt(m, mask, ring, k, q, d) => ConsumerAt(o, mask, ring, k, q, d)
    BY ONLY <2>1, <2>2, <1>5, QueueFills, ZenonT(60)
  <2>6. ASSUME NEW lt, LocalTailOK(m, mask, ring[k], lt) PROVE LocalTailOK(o, mask, ring[k], lt)
    <3>1. LocalTailOK(m, mask, ring[k], lt)
      BY <2>6
    <3> QED BY ONLY <2>1, <2>2, <1>5, <3>1, QueueFills, ZenonT(60)
  <2>5. \A g : LocalFrontOK(m, mask, b, g) /\ Span(g, T(m, b), mask[b]) < mask[b]
                  => LocalFrontOK(o, mask, b, g)
    BY ONLY <2>1, <2>2, <1>5, QueueFills
  <2> QED BY <2>3, <2>4, <2>5, <2>6, <1>6
<1>8. LocalFrontOK(o, mask, ring[Len(ring)], lfs2[ring[Len(ring)]])
  BY <1>2, <1>3, <1>4, <1>7
<1>9. ProducerAt(o, ring, k, "idle")
  BY DEF ProducerAt
<1>10. Shaped(o, mask, alloc, lts, lfs2, "idle", cp, c, rec, snt + 1, ring, k, start2)
  BY <1>1, <1>7, <1>8, <1>9 DEF Shaped
<1> QED BY <1>4, <1>5, <1>10 DEF WasFree

\* The front of block b holds the element after the first rec, to be read at once.
Shows(m, b, rec, snt) ==
  /\ Read(Read(m, C, slot(b, Members)), C, slot(b, F(m, b))) = m
  /\ ~Races(m, C, slot(b, F(m, b)))
  /\ ValueOf(m, slot(b, F(m, b))) = rec + 1 /\ rec \in Nat /\ snt \in Nat /\ rec < snt

\* The consumer knows of an element in the front block and looks at it.
LEMMA FrontBlockShows ==
  ASSUME NEW m, NEW mask, NEW alloc, NEW rec, NEW snt, NEW ring, NEW k, NEW start,
         Queue(m, mask, alloc, ring, k, start, rec, snt),
         NEW b, b = ring[k], NEW lt, LocalTailOK(m, mask, b, lt), lt # F(m, b)
  PROVE  Shows(m, b, rec, snt)
<1>1. /\ MemoryOK(m) /\ b \in Blocks /\ Indices(m, mask, b) /\ k \in 1..Len(ring)
      /\ Wri(m, b, Members) <= Acq(m, C)
  BY QueueParts
<1>2. F(m, b) # T(m, b) /\ Wri(m, b, F(m, b)) <= Acq(m, C)
  BY <1>1, LocalTailTells
<1>3. F(m, b) \in Slots \cup {Members} /\ Members \in Slots \cup {Members} /\ C \in Threads
  BY <1>1, IndexFacts, ThreadFacts
<1>4. ~Races(m, C, slot(b, F(m, b))) /\ ~Races(m, C, slot(b, Members))
  BY <1>1, <1>2, <1>3, KnownIsNoRace
<1>5. Read(m, C, slot(b, Members)) = m /\ Read(m, C, slot(b, F(m, b))) = m
  BY <1>1, <1>4, ReadQuietly
<1>6. start[k] = rec + 1 /\ rec \in Nat /\ snt \in Nat
  BY FrontStart
<1>7. El(m, b, F(m, b)) = rec + 1 /\ rec < snt
  BY <1>1, <1>2, <1>6, FirstElement
<1> QED BY <1>4, <1>5, <1>6, <1>7 DEF El, ValueOf, Shows

\* The consumer takes it.
LEMMA FrontBlockGives ==
  ASSUME NEW m, NEW mask, NEW alloc, NEW lts, NEW lfs,
         NEW pp, NEW cp, NEW c, NEW rec, NEW snt, NEW ring, NEW k, NEW start,
         Queue(m, mask, alloc, ring, k, start, rec, snt),
         LocalFrontOK(m, mask, ring[Len(ring)], lfs[ring[Len(ring)]]),
         ProducerAt(m, ring, k, pp),
         NEW b, b = ring[k], LocalTailOK(m, mask, b, lts[b]), lts[b] # F(m, b), NEW o,
         o = Stored(Released(Written(m, C, slot(b, F(m, b)), Raw), C), C, front(b), Wrap(F(m, b), mask[b]))
  PROVE  Reshaped(m, o, mask, alloc, lts, lfs, pp, "idle", c, rec + 1, snt)
<1>1. /\ MemoryOK(m) /\ b \in Blocks /\ Indices(m, mask, b)
  BY QueueParts
<1>2. ~Races(m, C, slot(b, F(m, b)))
  BY FrontBlockShows DEF Shows
<1>3. /\ MemoryOK(o) /\ Takes(m, o, mask, b)
      /\ \A d \in Blocks : d # b => SameBlock(m, o, d)
      /\ o.visible[frontBlock] = m.visible[frontBlock] /\ o.visible[tailBlock] = m.visible[tailBlock]
      /\ \A t \in Threads : Acq(o, t) = Acq(m, t)
      /\ o.raced = m.raced
  BY <1>1, <1>2, TakesHere
<1>4. PICK lt, lf : lt = lts[b] /\ lf = lfs[ring[Len(ring)]]
  OBVIOUS
<1>5. /\ \E start2 : Queue(o, mask, alloc, ring, k, start2, rec + 1, snt)
      /\ LocalTailOK(o, mask, b, lt)
      /\ LocalFrontOK(o, mask, ring[Len(ring)], lf)
      /\ \A q : ProducerAt(m, ring, k, q) => ProducerAt(o, ring, k, q)
  <2>1. /\ Queue(m, mask, alloc, ring, k, start, rec, snt) /\ b = ring[k]
        /\ LocalTailOK(m, mask, b, lt) /\ lt # F(m, b)
        /\ LocalFrontOK(m, mask, ring[Len(ring)], lf)
    BY <1>4
  <2> QED BY ONLY <2>1, <1>3, QueueTakes
<1>6. ConsumerAt(o, mask, ring, k, "idle", c)
  BY DEF ConsumerAt
<1>7. PICK start2 : Queue(o, mask, alloc, ring, k, start2, rec + 1, snt)
  BY <1>5
<1>8. Shaped(o, mask, alloc, lts, lfs, pp, "idle", c, rec + 1, snt, ring, k, start2)
  BY <1>4, <1>5, <1>6, <1>7 DEF Shaped
<1> QED BY <1>3, <1>8 DEF Reshaped

\* A producer's step that puts an element behind the known front
LEMMA EnqueueInTailBlockKeeps ==
  ASSUME NEW m, NEW n, n = Acquired(m, P), NEW f, NEW lfs2, NEW ring, NEW k, NEW start,
         Shaped(n, sizeMask, allocated, localTail, localFront, ppc, cpc, cb, received, sent, ring, k, start),
         MemoryOK(m), m.plain = memory.plain, ~m.raced, assertion = "ok", sent \in Nat, sent < MaxElements,
         lfs2[Own(m, tailBlock)] = f, LocalFrontOK(n, sizeMask, Own(m, tailBlock), f),
         EnqueueInTailBlock(m, f)
  PROVE  /\ \E start2 : Shaped(memory', sizeMask, allocated, localTail, lfs2, "idle", cpc, cb, received, sent',
                               ring, k, start2)
         /\ ~memory'.raced /\ assertion' = "ok"
         /\ sent' = sent + 1 /\ sent' \in 0..MaxElements /\ ppc' = "idle"
<1>1. PICK b, t : b = Own(m, tailBlock) /\ t = Own(m, tail(b))
  OBVIOUS
<1>2. /\ MemoryOK(n) /\ Narrows(m, n)
  BY AcquiredNarrow, ThreadFacts
<1>3. /\ b = Own(n, tailBlock) /\ b = ring[Len(ring)] /\ b \in Blocks
  <2>1. b = Own(n, tailBlock)
    BY <1>1, <1>2, NarrowFacts, AtomicFacts
  <2>2. Own(n, tailBlock) = ring[Len(ring)] /\ ring[Len(ring)] \in Blocks
    BY QueueParts DEF Shaped
  <2> QED BY <2>1, <2>2
<1>4. t = T(n, b)
  BY <1>1, <1>2, <1>3, NarrowFacts, AtomicFacts DEF T
<1>5. /\ Wrap(t, sizeMask[b]) # f
      /\ memory' = EnqueueHere(n, b)
      /\ Constructs(b, t)
      /\ sent' = sent + 1
      /\ ppc' = "idle"
  BY <1>1 DEF EnqueueInTailBlock
<1>6. memory' = Stored(Released(Written(n, P, slot(b, T(n, b)), sent + 1), P), P, tail(b), Wrap(T(n, b), sizeMask[b]))
  BY <1>5 DEF EnqueueHere, T
<1>7. sent + 1 \in 0..MaxElements
  BY OpsAssumption
<1>8. PICK o : o = memory'
  OBVIOUS
<1>9. /\ ValueOf(n, slot(b, T(n, b))) = Raw /\ o.raced = n.raced
      /\ \E start2 : Shaped(o, sizeMask, allocated, localTail, lfs2, "idle", cpc, cb, received, sent + 1, ring, k, start2)
  <2>1. o = Stored(Released(Written(n, P, slot(b, T(n, b)), sent + 1), P), P, tail(b), Wrap(T(n, b), sizeMask[b]))
    BY <1>6, <1>8
  <2>2. /\ Shaped(n, sizeMask, allocated, localTail, localFront, ppc, cpc, cb, received, sent, ring, k, start)
        /\ b = Own(n, tailBlock) /\ LocalFrontOK(n, sizeMask, b, lfs2[b])
        /\ Wrap(T(n, b), sizeMask[b]) # lfs2[b]
    BY <1>1, <1>3, <1>4, <1>5
  <2>3. PICK lts, lfs, mask, e : /\ lts = localTail /\ lfs = localFront /\ mask = sizeMask /\ e = sent
    OBVIOUS
  <2>4. /\ Shaped(n, mask, allocated, lts, lfs, ppc, cpc, cb, received, e, ring, k, start)
        /\ b = Own(n, tailBlock) /\ LocalFrontOK(n, mask, b, lfs2[b])
        /\ Wrap(T(n, b), mask[b]) # lfs2[b] /\ e + 1 \in 0..MaxElements
        /\ o = Stored(Released(Written(n, P, slot(b, T(n, b)), e + 1), P), P, tail(b), Wrap(T(n, b), mask[b]))
    BY <2>1, <2>2, <2>3, <1>7
  <2>5. WasFree(n, o, slot(b, T(n, b)))
    BY ONLY <2>4, TailBlockFills
  <2>6. \E start2 : Shaped(o, mask, allocated, lts, lfs2, "idle", cpc, cb, received, e + 1, ring, k, start2)
    BY ONLY <2>4, TailBlockFills
  <2> QED BY <2>3, <2>5, <2>6 DEF WasFree
<1>10. n.raced = m.raced /\ n.plain = m.plain
  BY <1>2 DEF Narrows
<1>11. assertion' = "ok"
  BY <1>4, <1>5, <1>9, <1>10 DEF Constructs, ValueOf
<1> QED BY <1>5, <1>7, <1>8, <1>9, <1>10, <1>11

\* A producer's step changes nothing of the consumer's.
LEMMA ProducerControls ==
  ASSUME Controls, UNCHANGED consVars \/ UNCHANGED <<cpc, cop, cb, cret, received>>,
         ppc' \in {"idle", "front", "frontBlock", "nextFront"}, pmode' \in ProducerOps \cup {"none"},
         sent' \in 0..MaxElements, ppc' # "idle" => sent' < MaxElements,
         allocated' \in Nat, allocated' >= allocated, allocated \in Nat,
         ~memory'.raced, assertion' = "ok"
  PROVE  Controls'
<1>1. UNCHANGED <<cpc, cop, cb, cret, received>>
  BY DEF consVars
<1>2. InOrderDespiteStaleLoads'
  BY <1>1 DEF Controls, InOrderDespiteStaleLoads
<1>3. cb' \in 1..allocated'
  BY <1>1 DEF Controls
<1> QED BY <1>1, <1>2, <1>3 DEF Controls

\* The first step of an enqueue keeps the invariant (lines 447-460),
LEMMA EnqueueCallKeeps ==
  ASSUME IInv, NEW op \in ProducerOps, EnqueueCall(op)
  PROVE  IInv'
<1>1. PICK ring, k, start : Shape(ring, k, start)
  BY DEF IInv
<1>2. Sizes /\ Controls
  BY DEF IInv
<1>3. PICK b : b = Own(memory, tailBlock)
  OBVIOUS
<1>4. /\ ppc = "idle" /\ sent < MaxElements /\ pmode' = op
      /\ \/ EnqueueInTailBlock(memory, localFront[b])
         \/ ppc' = "front" /\ UNCHANGED <<memory, sent, assertion>>
      /\ UNCHANGED <<localFront, sizeMask, largestBlockSize, allocated>>
      /\ UNCHANGED consVars
  BY <1>3 DEF EnqueueCall
<1>5. Sizes'
  BY <1>2, <1>4 DEF Sizes, consVars
<1>6. allocated \in Nat /\ sent \in Nat /\ ~memory.raced /\ assertion = "ok"
  <2>1. allocated \in Nat
    BY <1>1, QueueParts DEF Shape, Shaped
  <2> QED BY <2>1, <1>2, OpsAssumption DEF Controls
<1>7. UNCHANGED <<localTail, cpc, cop, cb, cret, received>>
  BY <1>4 DEF consVars
<1>8. CASE EnqueueInTailBlock(memory, localFront[b])
  <2>1. PICK n : n = Acquired(memory, P)
    OBVIOUS
  <2>2. MemoryOK(memory) /\ MemoryOK(n) /\ Narrows(memory, n)
    BY <1>1, <2>1, QueueParts, AcquiredNarrow, ThreadFacts DEF Shape, Shaped
  <2>3. Shaped(n, sizeMask, allocated, localTail, localFront, ppc, cpc, cb, received, sent, ring, k, start)
    BY <1>1, <2>2, ShapeNarrows DEF Shape
  <2>4. LocalFrontOK(n, sizeMask, b, localFront[b])
    <3>1. b = ring[Len(ring)]
      BY <1>1, <1>3, QueueParts DEF Shape, Shaped
    <3> QED BY <2>3, <3>1 DEF Shaped
  <2>5. /\ \E start2 : Shaped(memory', sizeMask, allocated, localTail, localFront, "idle", cpc, cb, received, sent',
                              ring, k, start2)
        /\ ~memory'.raced /\ assertion' = "ok"
        /\ sent' = sent + 1 /\ sent' \in 0..MaxElements /\ ppc' = "idle"
    BY <1>3, <1>4, <1>6, <1>8, <2>1, <2>2, <2>3, <2>4, EnqueueInTailBlockKeeps
  <2>6. Controls'
    BY <1>2, <1>4, <1>6, <2>5, ProducerControls
  <2>7. \E start2 : Shape(ring, k, start2)'
    BY <2>5, <1>4, <1>7 DEF Shape
  <2> QED BY <1>5, <2>6, <2>7 DEF IInv
<1>9. CASE ppc' = "front" /\ UNCHANGED <<memory, sent, assertion>>
  <2>1. Controls'
    BY <1>2, <1>4, <1>6, <1>9, ProducerControls DEF Controls
  <2>2. Shaped(memory, sizeMask, allocated, localTail, localFront, "front", cpc, cb, received, sent, ring, k, start)
    BY <1>1 DEF Shape, Shaped, ProducerAt
  <2>3. Shape(ring, k, start)'
    BY <2>2, <1>4, <1>7, <1>9 DEF Shape
  <2> QED BY <1>5, <2>1, <2>3 DEF IInv
<1> QED BY <1>4, <1>8, <1>9

\* so does the second look at front (452-462),
LEMMA EnqueueLoadFrontKeeps ==
  ASSUME IInv, EnqueueLoadFront
  PROVE  IInv'
<1>1. PICK ring, k, start : Shape(ring, k, start)
  BY DEF IInv
<1>2. Sizes /\ Controls
  BY DEF IInv
<1>3. PICK b : b = Own(memory, tailBlock)
  OBVIOUS
<1>4. /\ ppc = "front"
      /\ UNCHANGED <<sizeMask, largestBlockSize, allocated, pmode>>
      /\ UNCHANGED <<localTail, cpc, cop, cb, cret, received>>
  BY DEF EnqueueLoadFront, consVars
<1>5. PICK load \in Loads(memory, P, front(b)) :
        /\ localFront' = [localFront EXCEPT ![b] = load.value]
        /\ \/ EnqueueInTailBlock(load.memory, load.value)
           \/ /\ memory' = Acquired(load.memory, P)
              /\ ppc' = "frontBlock"
              /\ UNCHANGED <<sent, assertion>>
  BY <1>3 DEF EnqueueLoadFront
<1>6. PICK n : n = Acquired(load.memory, P)
  OBVIOUS
<1>7. /\ b = ring[Len(ring)] /\ b \in Blocks /\ b \in 1..allocated /\ Block(memory, sizeMask, b)
      /\ allocated \in Nat /\ MemoryOK(memory)
  BY <1>1, <1>3, QueueParts DEF Shape, Shaped
<1>8. /\ sent \in Nat /\ sent < MaxElements /\ ~memory.raced /\ assertion = "ok"
  BY <1>2, <1>4, OpsAssumption DEF Controls
<1>9. /\ MemoryOK(load.memory) /\ MemoryOK(n)
      /\ Shaped(n, sizeMask, allocated, localTail, localFront, ppc, cpc, cb, received, sent, ring, k, start)
      /\ ~n.raced /\ ~load.memory.raced
      /\ load.memory.plain = memory.plain
      /\ b = Own(load.memory, tailBlock)
  <2>1. /\ front(b) \in Atomics /\ WriterOf(front(b)) = Other(P) /\ P \in Threads /\ tailBlock \in Atomics
    BY <1>7, AtomicFacts, ThreadFacts
  <2>2. Shaped(memory, sizeMask, allocated, localTail, localFront, ppc, cpc, cb, received, sent, ring, k, start)
    BY <1>1 DEF Shape
  <2>3. /\ MemoryOK(load.memory) /\ MemoryOK(n)
        /\ Shaped(n, sizeMask, allocated, localTail, localFront, ppc, cpc, cb, received, sent, ring, k, start)
        /\ n.raced = memory.raced /\ load.memory.raced = memory.raced
        /\ load.memory.plain = memory.plain
        /\ \A y \in Atomics : Own(load.memory, y) = Own(memory, y)
    BY <1>6, <2>1, <2>2, LoadShapes
  <2> QED BY <2>1, <2>3, <1>3, <1>8
<1>10. LocalFrontOK(n, sizeMask, b, load.value)
  BY <1>6, <1>7, FrontSeen
<1>11. load.value \in Slots
  <2>1. load.value \in 0..sizeMask[b]
    BY <1>10 DEF LocalFrontOK
  <2>2. 0..sizeMask[b] \subseteq Slots
    BY <1>7, IndexFacts DEF Block
  <2> QED BY <2>1, <2>2
<1>12. Sizes' /\ localFront'[b] = load.value
  BY <1>2, <1>4, <1>5, <1>7, <1>11 DEF Sizes
<1>13. CASE EnqueueInTailBlock(load.memory, load.value)
  <2>0. PICK lfs2 : lfs2 = localFront'
    OBVIOUS
  <2>1. /\ \E start2 : Shaped(memory', sizeMask, allocated, localTail, lfs2, "idle", cpc, cb, received, sent',
                              ring, k, start2)
        /\ ~memory'.raced /\ assertion' = "ok"
        /\ sent' = sent + 1 /\ sent' \in 0..MaxElements /\ ppc' = "idle"
    <3>1. lfs2[Own(load.memory, tailBlock)] = load.value
      BY <2>0, <1>9, <1>12
    <3>2. LocalFrontOK(n, sizeMask, Own(load.memory, tailBlock), load.value)
      BY <1>9, <1>10
    <3>3. PICK m, f : m = load.memory /\ f = load.value
      OBVIOUS
    <3> QED BY <1>6, <1>8, <1>9, <1>13, <3>1, <3>2, <3>3, EnqueueInTailBlockKeeps
  <2>2. Controls'
    BY <1>2, <1>4, <1>7, <2>1, ProducerControls DEF Controls
  <2>3. \E start2 : Shape(ring, k, start2)'
    BY <2>0, <2>1, <1>4 DEF Shape
  <2> QED BY <1>12, <2>2, <2>3 DEF IInv
<1>14. CASE /\ memory' = Acquired(load.memory, P)
            /\ ppc' = "frontBlock"
            /\ UNCHANGED <<sent, assertion>>
  <2>1. Controls'
    BY <1>2, <1>4, <1>6, <1>7, <1>8, <1>9, <1>14, ProducerControls DEF Controls
  <2>2. Shaped(n, sizeMask, allocated, localTail, localFront', "frontBlock", cpc, cb, received, sent, ring, k, start)
    BY <1>7, <1>9, <1>10, <1>12 DEF Shaped, ProducerAt
  <2>3. Shape(ring, k, start)'
    BY <2>2, <1>4, <1>6, <1>14 DEF Shape
  <2> QED BY <1>12, <2>1, <2>3 DEF IInv
<1> QED BY <1>5, <1>13, <1>14

\* An element goes into a new block.
LEMMA NewBlockFills ==
  ASSUME NEW m, NEW mask, NEW mask2, NEW alloc, NEW lts, NEW lts2, NEW lfs,
         NEW pp, NEW cp, NEW c, NEW rec, NEW snt, NEW ring, NEW k, NEW start,
         Shaped(m, mask, alloc, lts, lfs, pp, cp, c, rec, snt, ring, k, start),
         NEW b, b = Own(m, tailBlock), alloc < HeapBlocks, NEW new, new = alloc + 1,
         \A d \in 1..alloc : mask2[d] = mask[d] /\ lts2[d] = lts[d],
         mask2[new] \in Nat, mask2[new] >= 1, mask2[new] < SlotBound, lfs[new] = 0,
         snt + 1 \in 1..MaxElements, NEW o, NEW made, NEW built, NEW filled, NEW hung, NEW linked,
         made = Written(m, P, slot(new, Members), 1),
         built = Written(made, P, slot(new, 0), snt + 1),
         filled = Stored(built, P, tail(new), 1),
         hung = Stored(filled, P, next(new), Own(m, next(b))),
         linked = Stored(hung, P, next(b), new),
         o = Stored(Released(linked, P), P, tailBlock, new)
  PROVE  Reshaped(m, o, mask2, alloc + 1, lts2, lfs, "idle", cp, c, rec, snt + 1)
<1>1. /\ Queue(m, mask, alloc, ring, k, start, rec, snt)
      /\ LocalTailOK(m, mask, ring[k], lts[ring[k]])
      /\ ConsumerAt(m, mask, ring, k, cp, c)
  BY DEF Shaped
<1>2. /\ MemoryOK(m) /\ b = ring[Len(ring)] /\ b \in Blocks /\ b \in 1..alloc
      /\ ring[k] \in 1..alloc /\ Own(m, frontBlock) = ring[k] /\ ring[1] \in Blocks
      /\ alloc \in Nat /\ \A d \in alloc+1..HeapBlocks : Fresh(m, d)
      /\ Len(ring) \in 1..Len(ring) /\ Ring(m, alloc, ring, k)
  BY <1>1, QueueParts
<1>3. /\ new \in Blocks /\ new # b /\ new # ring[k] /\ Fresh(m, new)
  <2>1. HeapBlocks \in Nat
    BY SizeAssumption
  <2>2. new \in alloc+1..HeapBlocks /\ new \in 1..HeapBlocks /\ new \notin 1..alloc
    BY <2>1, <1>2
  <2> QED BY <2>2, <1>2 DEF Blocks
<1>4. Own(m, next(b)) = ring[1] /\ Own(m, next(b)) \in Blocks
  <2>1. Own(m, next(ring[Len(ring)])) = ring[1]
    BY <1>2 DEF Ring
  <2> QED BY <2>1, <1>2
<1>5. /\ MemoryOK(o) /\ FillsSlots(m, o, mask2, new, snt + 1)
      /\ SameSlots(m, o, b) /\ Own(o, next(b)) = new /\ Own(o, next(new)) = Own(m, next(b))
      /\ \A d \in Blocks : d # b /\ d # new => SameBlock(m, o, d)
      /\ o.visible[frontBlock] = m.visible[frontBlock]
      /\ \A t \in Threads : Acq(o, t) = Acq(m, t)
      /\ o.raced = m.raced
      /\ \E st, r : /\ r \in Nat /\ Appends(m, o, tailBlock, new, st, r) /\ r >= m.writes[P]
                    /\ Last(o, tail(new)) <= r /\ Last(o, next(b)) <= r
                    /\ Wri(o, new, 0) <= r /\ Wri(o, new, Members) <= r
  <2>1. new # Own(m, frontBlock)
    BY <1>2, <1>3
  <2> QED BY <2>1, <1>2, <1>3, <1>4, EnqueuesNew, SMTT(30)
<1>6. PICK st, r : /\ r \in Nat /\ Appends(m, o, tailBlock, new, st, r) /\ r >= m.writes[P]
                   /\ Last(o, tail(new)) <= r /\ Last(o, next(b)) <= r
                   /\ Wri(o, new, 0) <= r /\ Wri(o, new, Members) <= r
  BY <1>5
<1>7. PICK lt : lt = lts[ring[k]]
  OBVIOUS
<1>8. Continues(m, mask, ring, k, o, mask2, alloc + 1, new, rec, snt + 1, 0, lt)
  <2>1. /\ Queue(m, mask, alloc, ring, k, start, rec, snt)
        /\ LocalTailOK(m, mask, ring[k], lt) /\ b = ring[Len(ring)]
        /\ alloc < HeapBlocks /\ new = alloc + 1 /\ \A d \in 1..alloc : mask2[d] = mask[d]
        /\ mask2[new] \in Nat /\ mask2[new] >= 1 /\ mask2[new] < SlotBound
    BY <1>1, <1>2, <1>7
  <2> QED BY ONLY <2>1, <1>5, <1>6, QueueGrows
<1>9. PICK ring2, k2, start2 :
           /\ Queue(o, mask2, alloc + 1, ring2, k2, start2, rec, snt + 1)
           /\ ring2[Len(ring2)] = new /\ LocalFrontOK(o, mask2, new, 0)
           /\ ring2[k2] = ring[k] /\ LocalTailOK(o, mask2, ring[k], lt)
           /\ \A pc, d : ConsumerAt(m, mask, ring, k, pc, d) => ConsumerAt(o, mask2, ring2, k2, pc, d)
  BY <1>8 DEF Continues
<1>10. lts2[ring2[k2]] = lt
  BY <1>2, <1>7, <1>9
<1>11. ProducerAt(o, ring2, k2, "idle")
  BY DEF ProducerAt
<1>12. Shaped(o, mask2, alloc + 1, lts2, lfs, "idle", cp, c, rec, snt + 1, ring2, k2, start2)
  BY <1>1, <1>9, <1>10, <1>11 DEF Shaped
<1> QED BY <1>5, <1>12 DEF Reshaped

\* The producer at the front of the next block finds it empty, and free of races.
LEMMA NextBlockFree ==
  ASSUME NEW m, NEW mask, NEW alloc, NEW lts, NEW lfs,
         NEW cp, NEW c, NEW rec, NEW snt, NEW ring, NEW k, NEW start,
         Shaped(m, mask, alloc, lts, lfs, "nextFront", cp, c, rec, snt, ring, k, start),
         NEW b, b = Own(m, next(Own(m, tailBlock)))
  PROVE  /\ b = ring[1] /\ b \in 1..alloc /\ b \in Blocks /\ b # Own(m, frontBlock) /\ Block(m, mask, b)
         /\ F(m, b) = T(m, b) /\ k > 1
         /\ Depth(m, front(b)) = 1 /\ Val(m, front(b), 1) = T(m, b)
<1>1. /\ Queue(m, mask, alloc, ring, k, start, rec, snt)
      /\ k > 1 /\ Last(m, front(ring[1])) <= Acq(m, P)
  BY DEF Shaped, ProducerAt
<1>2. /\ MemoryOK(m) /\ Ring(m, alloc, ring, k)
      /\ Len(ring) \in 1..Len(ring) /\ k \in 1..Len(ring) /\ 1 \in 1..Len(ring)
      /\ ring[1] \in 1..alloc /\ ring[1] \in Blocks /\ Block(m, mask, ring[1])
      /\ Own(m, tailBlock) = ring[Len(ring)] /\ Own(m, frontBlock) = ring[k]
      /\ ring[1] # ring[k] /\ k \in Nat
  BY <1>1, QueueParts
<1>3. b = ring[1]
  BY <1>2 DEF Ring
<1>4. F(m, b) = T(m, b)
  <2>1. 1 \in 1..k-1
    BY <1>1, <1>2
  <2> QED BY <2>1, <1>1, <1>3, EmptyBehind
<1>5. Depth(m, front(b)) = 1 /\ Val(m, front(b), 1) = F(m, b)
  <2>1. front(b) \in Atomics /\ Other(WriterOf(front(b))) = P
    BY <1>2, <1>3, AtomicFacts, ThreadFacts
  <2> QED BY <2>1, <1>1, <1>2, <1>3, OneMessage DEF F
<1> QED BY <1>1, <1>2, <1>3, <1>4, <1>5

\* An element goes into the next block.
LEMMA NextBlockFills ==
  ASSUME NEW m, NEW mask, NEW alloc, NEW lts, NEW lfs, NEW lfs2,
         NEW cp, NEW c, NEW rec, NEW snt, NEW ring, NEW k, NEW start,
         Shaped(m, mask, alloc, lts, lfs, "nextFront", cp, c, rec, snt, ring, k, start),
         NEW b, b = Own(m, next(Own(m, tailBlock))), LocalFrontOK(m, mask, b, lfs2[b]),
         lfs2[b] = T(m, b), snt + 1 \in 0..MaxElements, NEW o,
         o = Stored(Released(Stored(Written(m, P, slot(b, T(m, b)), snt + 1), P, tail(b), Wrap(T(m, b), mask[b])), P),
                    P, tailBlock, b)
  PROVE  /\ WasFree(m, o, slot(b, T(m, b)))
         /\ \E ring2, k2, start2 : Shaped(o, mask, alloc, lts, lfs2, "idle", cp, c, rec, snt + 1, ring2, k2, start2)
<1>1. /\ Queue(m, mask, alloc, ring, k, start, rec, snt)
      /\ LocalTailOK(m, mask, ring[k], lts[ring[k]])
      /\ \A i \in 1..Depth(m, frontBlock) : Val(m, frontBlock, i) # ring[1]
      /\ Last(m, front(ring[1])) <= Acq(m, P)
      /\ ConsumerAt(m, mask, ring, k, cp, c)
  BY DEF Shaped, ProducerAt
<1>2. /\ b = ring[1] /\ b \in Blocks /\ b # Own(m, frontBlock) /\ Block(m, mask, b)
      /\ F(m, b) = T(m, b) /\ k > 1 /\ MemoryOK(m) /\ Indices(m, mask, b)
  BY <1>1, NextBlockFree, QueueParts DEF Block
<1>3. PICK lf, lt : lf = lfs2[b] /\ lt = lts[ring[k]]
  OBVIOUS
<1>4. ~Races(m, P, slot(b, T(m, b))) /\ ValueOf(m, slot(b, T(m, b))) = Raw
  BY <1>2, <1>3, LocalFrontTells
<1>5. Span(lf, T(m, b), mask[b]) < mask[b]
  <2>1. mask[b] \in Nat /\ mask[b] >= 1 /\ T(m, b) \in 0..mask[b] /\ lf = T(m, b)
    BY <1>2, <1>3, IndexFacts
  <2>2. Span(lf, T(m, b), mask[b]) = 0
    BY <2>1, SpanBehind
  <2> QED BY <2>1, <2>2
<1>6. /\ MemoryOK(o) /\ Fills(m, o, mask, b, snt + 1)
      /\ \A d \in Blocks : d # b => SameBlock(m, o, d)
      /\ o.visible[frontBlock] = m.visible[frontBlock]
      /\ \A t \in Threads : Acq(o, t) = Acq(m, t)
      /\ o.raced = m.raced
      /\ \E st, r : /\ r \in Nat /\ Appends(m, o, tailBlock, b, st, r) /\ r >= m.writes[P]
                    /\ Last(o, tail(b)) <= r /\ Wri(o, b, T(m, b)) <= r
  BY <1>2, <1>4, EnqueuesNext
<1>7. PICK st, r : /\ r \in Nat /\ Appends(m, o, tailBlock, b, st, r) /\ r >= m.writes[P]
                   /\ Last(o, tail(b)) <= r /\ Wri(o, b, T(m, b)) <= r
  BY <1>6
<1>8. Continues(m, mask, ring, k, o, mask, alloc, b, rec, snt + 1, lf, lt)
  <2>1. /\ Queue(m, mask, alloc, ring, k, start, rec, snt) /\ b = ring[1] /\ k > 1
        /\ \A i \in 1..Depth(m, frontBlock) : Val(m, frontBlock, i) # b
        /\ Last(m, front(b)) <= Acq(m, P)
        /\ LocalFrontOK(m, mask, b, lf) /\ Span(lf, T(m, b), mask[b]) < mask[b]
        /\ LocalTailOK(m, mask, ring[k], lt)
    BY <1>1, <1>2, <1>3, <1>5
  <2> QED BY ONLY <2>1, <1>6, <1>7, QueueMoves
<1>9. PICK ring2, k2, start2 :
           /\ Queue(o, mask, alloc, ring2, k2, start2, rec, snt + 1)
           /\ ring2[Len(ring2)] = b /\ LocalFrontOK(o, mask, b, lf)
           /\ ring2[k2] = ring[k] /\ LocalTailOK(o, mask, ring[k], lt)
           /\ \A pc, d : ConsumerAt(m, mask, ring, k, pc, d) => ConsumerAt(o, mask, ring2, k2, pc, d)
  BY <1>8 DEF Continues
<1>10. ProducerAt(o, ring2, k2, "idle")
  BY DEF ProducerAt
<1>11. Shaped(o, mask, alloc, lts, lfs2, "idle", cp, c, rec, snt + 1, ring2, k2, start2)
  BY <1>1, <1>3, <1>9, <1>10 DEF Shaped
<1> QED BY <1>4, <1>6, <1>11 DEF WasFree

\* the look at frontBlock, with the allocation of a block (463, 490-520),
LEMMA EnqueueLoadFrontBlockKeeps ==
  ASSUME IInv, EnqueueLoadFrontBlock
  PROVE  IInv'
<1>1. PICK ring, k, start : Shape(ring, k, start)
  BY DEF IInv
<1>2. Sizes /\ Controls
  BY DEF IInv
<1>3. PICK b : b = Own(memory, tailBlock)
  OBVIOUS
<1>4. /\ ppc = "frontBlock"
      /\ UNCHANGED <<localFront, pmode>>
      /\ UNCHANGED <<cpc, cop, cb, cret, received, assertion>>
  BY DEF EnqueueLoadFrontBlock
<1>5. PICK load \in Loads(memory, P, frontBlock) :
           \/ /\ Own(memory, next(b)) # load.value
              /\ memory' = Acquired(load.memory, P)
              /\ ppc' = "nextFront"
              /\ UNCHANGED <<sizeMask, largestBlockSize, allocated, localTail, sent>>
           \/ /\ allocated < HeapBlocks
              /\ LET size == IF largestBlockSize >= MAX_BLOCK_SIZE
                             THEN largestBlockSize ELSE 2 * largestBlockSize
                 IN  /\ largestBlockSize' = size
                     /\ sizeMask' = [sizeMask EXCEPT ![allocated + 1] = size - 1]
              /\ allocated' = allocated + 1
              /\ localTail' = [localTail EXCEPT ![allocated + 1] = 1]
              /\ memory' = WithNewBlock(load.memory, b, allocated + 1)
              /\ sent' = sent + 1
              /\ ppc' = "idle"
           \/ /\ memory' = load.memory
              /\ ppc' = "idle"
              /\ UNCHANGED <<sizeMask, largestBlockSize, allocated, localTail, sent>>
  BY <1>3 DEF EnqueueLoadFrontBlock
<1>6. PICK n : n = Acquired(load.memory, P)
  OBVIOUS
<1>7. /\ Queue(memory, sizeMask, allocated, ring, k, start, received, sent)
      /\ b = ring[Len(ring)] /\ b \in Blocks
      /\ allocated \in Nat /\ MemoryOK(memory) /\ Own(memory, next(b)) = ring[1]
  <2>1. Queue(memory, sizeMask, allocated, ring, k, start, received, sent)
    BY <1>1 DEF Shape, Shaped
  <2>2. /\ b = ring[Len(ring)] /\ b \in Blocks
        /\ allocated \in Nat /\ MemoryOK(memory) /\ Ring(memory, allocated, ring, k)
        /\ Len(ring) \in 1..Len(ring)
    BY <2>1, <1>3, QueueParts
  <2> QED BY <2>1, <2>2 DEF Ring
<1>8. /\ sent \in Nat /\ sent < MaxElements /\ ~memory.raced /\ assertion = "ok"
      /\ pmode \in ProducerOps \cup {"none"}
  BY <1>2, <1>4, OpsAssumption DEF Controls
<1>9. /\ MemoryOK(load.memory) /\ MemoryOK(n)
      /\ Shaped(load.memory, sizeMask, allocated, localTail, localFront, ppc, cpc, cb, received, sent, ring, k, start)
      /\ Shaped(n, sizeMask, allocated, localTail, localFront, ppc, cpc, cb, received, sent, ring, k, start)
      /\ ~n.raced /\ ~load.memory.raced
      /\ b = Own(load.memory, tailBlock)
  <2>1. /\ frontBlock \in Atomics /\ WriterOf(frontBlock) = Other(P) /\ P \in Threads /\ tailBlock \in Atomics
    BY AtomicFacts, ThreadFacts
  <2>2. Shaped(memory, sizeMask, allocated, localTail, localFront, ppc, cpc, cb, received, sent, ring, k, start)
    BY <1>1 DEF Shape
  <2>3. /\ MemoryOK(load.memory) /\ MemoryOK(n)
        /\ Shaped(load.memory, sizeMask, allocated, localTail, localFront, ppc, cpc, cb, received, sent, ring, k, start)
        /\ Shaped(n, sizeMask, allocated, localTail, localFront, ppc, cpc, cb, received, sent, ring, k, start)
        /\ n.raced = memory.raced /\ load.memory.raced = memory.raced
        /\ \A y \in Atomics : Own(load.memory, y) = Own(memory, y)
    BY <1>6, <2>1, <2>2, LoadShapes
  <2> QED BY <2>1, <2>3, <1>3, <1>8
<1>10. CASE /\ Own(memory, next(b)) # load.value
            /\ memory' = Acquired(load.memory, P)
            /\ ppc' = "nextFront"
            /\ UNCHANGED <<sizeMask, largestBlockSize, allocated, localTail, sent>>
  <2>1. Controls'
    BY <1>2, <1>4, <1>6, <1>7, <1>8, <1>9, <1>10, ProducerControls DEF Controls
  <2>2. ProducerAt(n, ring, k, "nextFront")
    BY <1>6, <1>7, <1>10, FrontBlockSeen
  <2>3. Shaped(n, sizeMask, allocated, localTail, localFront, "nextFront", cpc, cb, received, sent, ring, k, start)
    BY <1>9, <2>2 DEF Shaped
  <2>4. Shape(ring, k, start)'
    BY <2>3, <1>4, <1>6, <1>10 DEF Shape
  <2>5. Sizes'
    BY <1>2, <1>4, <1>10 DEF Sizes
  <2> QED BY <2>1, <2>4, <2>5 DEF IInv
<1>11. CASE /\ memory' = load.memory
            /\ ppc' = "idle"
            /\ UNCHANGED <<sizeMask, largestBlockSize, allocated, localTail, sent>>
  <2>1. Controls'
    BY <1>2, <1>4, <1>7, <1>8, <1>9, <1>11, ProducerControls DEF Controls
  <2>3. Shaped(load.memory, sizeMask, allocated, localTail, localFront, "idle", cpc, cb, received, sent, ring, k, start)
    BY <1>9 DEF Shaped, ProducerAt
  <2>4. Shape(ring, k, start)'
    BY <2>3, <1>4, <1>11 DEF Shape
  <2>5. Sizes'
    BY <1>2, <1>4, <1>11 DEF Sizes
  <2> QED BY <2>1, <2>4, <2>5 DEF IInv
<1>12. CASE /\ allocated < HeapBlocks
            /\ LET size == IF largestBlockSize >= MAX_BLOCK_SIZE
                           THEN largestBlockSize ELSE 2 * largestBlockSize
               IN  /\ largestBlockSize' = size
                   /\ sizeMask' = [sizeMask EXCEPT ![allocated + 1] = size - 1]
            /\ allocated' = allocated + 1
            /\ localTail' = [localTail EXCEPT ![allocated + 1] = 1]
            /\ memory' = WithNewBlock(load.memory, b, allocated + 1)
            /\ sent' = sent + 1
            /\ ppc' = "idle"
  <2>1. PICK size, new : /\ size = IF largestBlockSize >= MAX_BLOCK_SIZE
                                   THEN largestBlockSize ELSE 2 * largestBlockSize
                         /\ new = allocated + 1
    OBVIOUS
  <2>2. /\ largestBlockSize' = size /\ sizeMask' = [sizeMask EXCEPT ![new] = size - 1]
        /\ allocated' = new /\ localTail' = [localTail EXCEPT ![new] = 1]
        /\ memory' = WithNewBlock(load.memory, b, new)
    BY <2>1, <1>12
  <2>3. new \in Blocks /\ new \in allocated+1..HeapBlocks /\ new \in Nat /\ new >= allocated
    BY <2>1, <1>7, <1>12, SizeAssumption DEF Blocks
  <2>4. /\ largestBlockSize \in Nat /\ largestBlockSize >= 2 /\ largestBlockSize <= SlotBound
        /\ sizeMask \in [Blocks -> Slots] /\ localFront \in [Blocks -> Slots] /\ localTail \in [Blocks -> Slots]
        /\ \A c \in allocated+1..HeapBlocks : localFront[c] = 0
    BY <1>2 DEF Sizes
  <2>5. /\ size \in Nat /\ size >= 2 /\ size <= SlotBound
        /\ \E j \in Nat : size = 2^j
    <3>1. PICK j \in Nat : largestBlockSize = 2^j
      BY <1>2 DEF Sizes
    <3>2. CASE largestBlockSize >= MAX_BLOCK_SIZE
      BY <3>1, <3>2, <2>1, <2>4
    <3>3. CASE ~(largestBlockSize >= MAX_BLOCK_SIZE)
      <4>1. MAX_BLOCK_SIZE \in Nat /\ 2^j < MAX_BLOCK_SIZE /\ size = 2 * largestBlockSize
        BY <3>1, <3>3, <2>1, <2>4, SizeAssumption
      <4>2. 2 * largestBlockSize <= MAX_BLOCK_SIZE /\ 2 * largestBlockSize = 2^(j + 1)
        BY <3>1, <4>1, DoublingStaysBelow
      <4>3. MAX_BLOCK_SIZE <= SlotBound /\ SlotBound \in Nat
        BY <4>1, SizesPositive DEF SlotBound
      <4>4. j + 1 \in Nat
        BY <3>1
      <4>5. size = 2^(j + 1)
        BY <4>1, <4>2
      <4>6. size \in Nat /\ size >= 2 /\ size <= SlotBound
        BY <4>1, <4>2, <4>3, <2>4
      <4> QED BY <4>4, <4>5, <4>6
    <3> QED BY <3>2, <3>3
  <2>6. size - 1 \in Nat /\ size - 1 >= 1 /\ size - 1 < SlotBound /\ size - 1 \in Slots /\ 1 \in Slots
    <3>1. SlotBound \in Nat /\ SlotBound >= 2
      BY SizesPositive, SizeAssumption DEF SlotBound
    <3> QED BY <3>1, <2>5 DEF Slots
  <2>7. /\ sizeMask' \in [Blocks -> Slots] /\ localTail' \in [Blocks -> Slots]
        /\ sizeMask'[new] = size - 1
        /\ \A d \in 1..allocated : sizeMask'[d] = sizeMask[d] /\ localTail'[d] = localTail[d]
    <3>1. 1..allocated \subseteq Blocks /\ new \notin 1..allocated
      BY <2>1, <1>7, QueueParts
    <3> QED BY <3>1, <2>2, <2>3, <2>4, <2>6
  <2>8. Sizes'
    <3>1. allocated'+1..HeapBlocks \subseteq allocated+1..HeapBlocks
      BY <2>1, <2>2, <1>7, SizeAssumption
    <3> QED BY <3>1, <2>2, <2>4, <2>5, <2>7, <1>4 DEF Sizes
  <2>9. PICK mask2, lts2, lfs, e : mask2 = sizeMask' /\ lts2 = localTail' /\ lfs = localFront /\ e = sent
    OBVIOUS
  <2>10. PICK m, made, built, filled, hung, linked, o :
           /\ m = load.memory
           /\ made = Written(m, P, slot(new, Members), 1)
           /\ built = Written(made, P, slot(new, 0), e + 1)
           /\ filled = Stored(built, P, tail(new), 1)
           /\ hung = Stored(filled, P, next(new), Own(m, next(b)))
           /\ linked = Stored(hung, P, next(b), new)
           /\ o = Stored(Released(linked, P), P, tailBlock, new)
    OBVIOUS
  <2>11. memory' = o
    BY <2>2, <2>9, <2>10 DEF WithNewBlock
  <2>12. Reshaped(m, o, mask2, allocated + 1, lts2, lfs, "idle", cpc, cb, received, e + 1)
    <3>1. /\ Shaped(m, sizeMask, allocated, localTail, lfs, ppc, cpc, cb, received, e, ring, k, start)
          /\ b = Own(m, tailBlock) /\ allocated < HeapBlocks /\ new = allocated + 1
          /\ \A d \in 1..allocated : mask2[d] = sizeMask[d] /\ lts2[d] = localTail[d]
          /\ mask2[new] \in Nat /\ mask2[new] >= 1 /\ mask2[new] < SlotBound /\ lfs[new] = 0
      BY <1>9, <1>12, <2>1, <2>3, <2>4, <2>6, <2>7, <2>9, <2>10
    <3>2. e + 1 \in 1..MaxElements
      BY <1>8, <2>9, OpsAssumption
    <3> QED BY ONLY <3>1, <3>2, <2>10, NewBlockFills
  <2>13. sent' = sent + 1 /\ sent' \in 0..MaxElements /\ ~memory'.raced
    BY <1>8, <1>9, <1>12, <2>10, <2>11, <2>12, OpsAssumption DEF Reshaped
  <2>14. Controls'
    BY <1>2, <1>4, <1>7, <1>8, <1>12, <2>2, <2>3, <2>13, ProducerControls
  <2>15. \E ring2, k2, start2 : Shape(ring2, k2, start2)'
    BY <1>4, <1>12, <2>9, <2>11, <2>12 DEF Shape, Reshaped
  <2> QED BY <2>8, <2>14, <2>15 DEF IInv
<1> QED BY <1>5, <1>10, <1>11, <1>12

\* A load delivers one of the values that the thread may still load.
LEMMA LoadedIs ==
  ASSUME NEW m, NEW t, NEW x, NEW load \in Loads(m, t, x)
  PROVE  \E i \in 1..Depth(m, x) : load.value = Val(m, x, i)
<1>1. PICK i \in 1..Len(m.visible[x]) :
        load = [value |-> m.visible[x][i].value,
                memory |-> [m EXCEPT !.visible[x] = SubSeq(@, i, Len(@)),
                                     !.promised[t] = Max({@, m.visible[x][i].release})]]
  BY DEF Loads
<1> QED BY <1>1 DEF Depth, Val

\* and the step into the next block (469-488).
LEMMA EnqueueLoadNextFrontKeeps ==
  ASSUME IInv, EnqueueLoadNextFront
  PROVE  IInv'
<1>1. PICK ring, k, start : Shape(ring, k, start)
  BY DEF IInv
<1>2. Sizes /\ Controls
  BY DEF IInv
<1>3. PICK b, t : b = Own(memory, next(Own(memory, tailBlock))) /\ t = Own(memory, tail(b))
  OBVIOUS
<1>4. /\ ppc = "nextFront" /\ sent' = sent + 1 /\ ppc' = "idle"
      /\ UNCHANGED <<sizeMask, largestBlockSize, allocated, pmode>>
      /\ UNCHANGED <<localTail, cpc, cop, cb, cret, received>>
  BY DEF EnqueueLoadNextFront, consVars
<1>5. PICK load \in Loads(memory, P, front(b)) :
        /\ localFront' = [localFront EXCEPT ![b] = load.value]
        /\ IF load.value # t THEN assertion' = "next block not empty" ELSE Constructs(b, t)
        /\ memory' = EnqueueInNextBlock(load.memory, b)
  BY <1>3 DEF EnqueueLoadNextFront
<1>6. PICK n : n = Acquired(load.memory, P)
  OBVIOUS
<1>7. Shaped(memory, sizeMask, allocated, localTail, localFront, "nextFront", cpc, cb, received, sent, ring, k, start)
  BY <1>1, <1>4 DEF Shape
<1>8. /\ b \in Blocks /\ b \in 1..allocated /\ Block(memory, sizeMask, b)
      /\ F(memory, b) = T(memory, b)
      /\ Depth(memory, front(b)) = 1 /\ Val(memory, front(b), 1) = T(memory, b)
      /\ allocated \in Nat /\ MemoryOK(memory)
  <2>1. allocated \in Nat /\ MemoryOK(memory)
    BY <1>7, QueueParts DEF Shaped
  <2> QED BY <2>1, <1>3, <1>7, NextBlockFree
<1>9. /\ sent \in Nat /\ sent < MaxElements /\ ~memory.raced /\ assertion = "ok"
  BY <1>2, <1>4, OpsAssumption DEF Controls
<1>10. t = T(memory, b) /\ load.value = t
  <2>1. t = T(memory, b)
    BY <1>3 DEF T
  <2>2. PICK i \in 1..Depth(memory, front(b)) : load.value = Val(memory, front(b), i)
    BY LoadedIs
  <2>3. i = 1
    BY <2>2, <1>8
  <2> QED BY <2>1, <2>2, <2>3, <1>8
<1>11. /\ MemoryOK(n)
       /\ Shaped(n, sizeMask, allocated, localTail, localFront, "nextFront", cpc, cb, received, sent, ring, k, start)
       /\ ~n.raced /\ n.plain = memory.plain
       /\ b = Own(n, next(Own(n, tailBlock))) /\ T(n, b) = t
       /\ Own(load.memory, tail(b)) = t
  <2>1. /\ front(b) \in Atomics /\ WriterOf(front(b)) = Other(P) /\ P \in Threads /\ tailBlock \in Atomics
        /\ tail(b) \in Atomics
    BY <1>8, AtomicFacts, ThreadFacts
  <2>2. next(Own(memory, tailBlock)) \in Atomics
    <3>1. Own(memory, tailBlock) \in Blocks
      BY <1>7, QueueParts DEF Shaped
    <3> QED BY <3>1, AtomicFacts
  <2>3. /\ MemoryOK(n)
        /\ Shaped(n, sizeMask, allocated, localTail, localFront, "nextFront", cpc, cb, received, sent, ring, k, start)
        /\ n.raced = memory.raced /\ n.plain = memory.plain
        /\ \A y \in Atomics : Own(n, y) = Own(memory, y) /\ Own(load.memory, y) = Own(memory, y)
    BY <1>6, <1>7, <2>1, LoadShapes
  <2> QED BY <2>1, <2>2, <2>3, <1>3, <1>9 DEF T
<1>12. LocalFrontOK(n, sizeMask, b, t)
  BY <1>6, <1>8, <1>10, FrontSeen
<1>13. t \in Slots
  <2>1. t \in 0..sizeMask[b] /\ 0..sizeMask[b] \subseteq Slots
    BY <1>8, <1>10, IndexFacts DEF Block
  <2> QED BY <2>1
<1>14. Sizes' /\ localFront'[b] = t
  BY <1>2, <1>4, <1>5, <1>8, <1>10, <1>13 DEF Sizes
<1>15. PICK o : o = memory'
  OBVIOUS
<1>16. o = Stored(Released(Stored(Written(n, P, slot(b, t), sent + 1), P, tail(b), Wrap(t, sizeMask[b])), P), P, tailBlock, b)
  BY <1>5, <1>6, <1>11, <1>15 DEF EnqueueInNextBlock
<1>17. /\ WasFree(n, o, slot(b, T(n, b)))
       /\ \E ring2, k2, start2 : Shaped(o, sizeMask, allocated, localTail, localFront', "idle", cpc, cb, received,
                                        sent + 1, ring2, k2, start2)
  <2>1. PICK lts, lfs, lfs2, mask, e :
          lts = localTail /\ lfs = localFront /\ lfs2 = localFront' /\ mask = sizeMask /\ e = sent
    OBVIOUS
  <2>2. /\ Shaped(n, mask, allocated, lts, lfs, "nextFront", cpc, cb, received, e, ring, k, start)
        /\ b = Own(n, next(Own(n, tailBlock))) /\ LocalFrontOK(n, mask, b, lfs2[b])
        /\ lfs2[b] = T(n, b) /\ e + 1 \in 0..MaxElements
        /\ o = Stored(Released(Stored(Written(n, P, slot(b, T(n, b)), e + 1), P, tail(b), Wrap(T(n, b), mask[b])), P),
                      P, tailBlock, b)
    BY <2>1, <1>9, <1>11, <1>12, <1>14, <1>16, OpsAssumption
  <2>3. WasFree(n, o, slot(b, T(n, b)))
    BY ONLY <2>2, NextBlockFills
  <2>4. \E ring2, k2, start2 : Shaped(o, mask, allocated, lts, lfs2, "idle", cpc, cb, received, e + 1, ring2, k2, start2)
    BY ONLY <2>2, NextBlockFills
  <2> QED BY <2>1, <2>3, <2>4
<1>18. assertion' = "ok" /\ ~memory'.raced
  BY <1>5, <1>9, <1>10, <1>11, <1>15, <1>17 DEF Constructs, WasFree, ValueOf
<1>19. Controls'
  <2>1. sent' \in 0..MaxElements
    BY <1>4, <1>9, OpsAssumption
  <2> QED BY <2>1, <1>2, <1>4, <1>8, <1>18, ProducerControls DEF Controls
<1>20. \E ring2, k2, start2 : Shape(ring2, k2, start2)'
  BY <1>4, <1>15, <1>17 DEF Shape
<1> QED BY <1>14, <1>19, <1>20 DEF IInv

-----------------------------------------------------------------------------
(* try_dequeue and peek *)

\* Taking or looking at the element that the consumer knows of in the front block
Served(m, n, op, rec, ret, mask, alloc, lts, lfs, pp, cp, c, rec2, snt) ==
  /\ n.raced = m.raced
  /\ ret = rec + 1 /\ rec2 = (IF op = "peek" THEN rec ELSE rec + 1)
  /\ rec \in Nat /\ snt \in Nat /\ rec < snt
  /\ \E ring, k, start : Shaped(n, mask, alloc, lts, lfs, pp, cp, c, rec2, snt, ring, k, start)

\* The consumer looks at the first element of the front block, or takes it.
LEMMA FrontBlockServes ==
  ASSUME NEW m, NEW mask, NEW alloc, NEW lts, NEW lfs,
         NEW pp, NEW c, NEW rec, NEW snt, NEW ring, NEW k, NEW start,
         Queue(m, mask, alloc, ring, k, start, rec, snt),
         LocalFrontOK(m, mask, ring[Len(ring)], lfs[ring[Len(ring)]]),
         ProducerAt(m, ring, k, pp),
         NEW b, b = ring[k], LocalTailOK(m, mask, b, lts[b]), lts[b] # F(m, b),
         NEW seen, seen = Read(Read(m, C, slot(b, Members)), C, slot(b, F(m, b))), NEW op, NEW o,
         o = (IF op = "peek" THEN seen
              ELSE Stored(Released(Written(seen, C, slot(b, F(m, b)), Raw), C), C, front(b), Wrap(F(m, b), mask[b])))
  PROVE  Served(m, o, op, rec, ValueOf(m, slot(b, F(m, b))), mask, alloc, lts, lfs, pp, "idle", c,
                IF op = "peek" THEN rec ELSE rec + 1, snt)
<1>1. PICK lt : lt = lts[b]
  OBVIOUS
<1>2. /\ seen = m /\ ValueOf(m, slot(b, F(m, b))) = rec + 1
      /\ rec \in Nat /\ snt \in Nat /\ rec < snt
  <2>1. /\ Queue(m, mask, alloc, ring, k, start, rec, snt) /\ b = ring[k]
        /\ LocalTailOK(m, mask, b, lt) /\ lt # F(m, b)
    BY <1>1
  <2>2. Shows(m, b, rec, snt)
    BY ONLY <2>1, FrontBlockShows
  <2> QED BY <2>2 DEF Shows
<1>3. CASE op = "peek"
  <2>1. o = m
    BY <1>2, <1>3
  <2>2. Shaped(m, mask, alloc, lts, lfs, pp, "idle", c, rec, snt, ring, k, start)
    BY DEF Shaped, ConsumerAt
  <2> QED BY <2>1, <2>2, <1>2, <1>3 DEF Served
<1>4. CASE op # "peek"
  <2>1. o = Stored(Released(Written(m, C, slot(b, F(m, b)), Raw), C), C, front(b), Wrap(F(m, b), mask[b]))
    BY <1>2, <1>4
  <2>2. Reshaped(m, o, mask, alloc, lts, lfs, pp, "idle", c, rec + 1, snt)
    BY <2>1, FrontBlockGives
  <2> QED BY <2>2, <1>2, <1>4 DEF Served, Reshaped
<1> QED BY <1>3, <1>4

\* So does Take.
LEMMA TakeServes ==
  ASSUME NEW m, NEW lts, NEW c, NEW ring, NEW k, NEW start,
         Queue(m, sizeMask, allocated, ring, k, start, received, sent),
         LocalFrontOK(m, sizeMask, ring[Len(ring)], localFront[ring[Len(ring)]]),
         ProducerAt(m, ring, k, ppc),
         NEW b, b = ring[k], LocalTailOK(m, sizeMask, b, lts[b]), lts[b] # F(m, b),
         Take(m, b)
  PROVE  /\ Served(m, memory', cop', received, cret', sizeMask, allocated, lts, localFront, ppc, "idle", c,
                   received', sent)
         /\ cpc' = "idle"
<1>1. PICK lfs, mask, rec, snt, op, o, seen :
        /\ lfs = localFront /\ mask = sizeMask /\ rec = received /\ snt = sent /\ op = cop' /\ o = memory'
        /\ seen = Read(Read(m, C, slot(b, Members)), C, slot(b, F(m, b)))
  OBVIOUS
<1>2. /\ o = (IF op = "peek" THEN seen
              ELSE Stored(Released(Written(seen, C, slot(b, F(m, b)), Raw), C), C, front(b), Wrap(F(m, b), mask[b])))
      /\ cret' = ValueOf(m, slot(b, F(m, b)))
      /\ received' = IF op = "peek" THEN rec ELSE rec + 1
      /\ cpc' = "idle"
  BY <1>1 DEF Take, Taken, F
<1>3. /\ Queue(m, mask, allocated, ring, k, start, rec, snt)
      /\ LocalFrontOK(m, mask, ring[Len(ring)], lfs[ring[Len(ring)]])
      /\ ProducerAt(m, ring, k, ppc)
      /\ b = ring[k] /\ LocalTailOK(m, mask, b, lts[b]) /\ lts[b] # F(m, b)
  BY <1>1
<1>4. Served(m, o, op, rec, ValueOf(m, slot(b, F(m, b))), mask, allocated, lts, lfs, ppc, "idle", c,
             IF op = "peek" THEN rec ELSE rec + 1, snt)
  BY ONLY <1>1, <1>2, <1>3, FrontBlockServes
<1> QED BY <1>1, <1>2, <1>4

\* A consumer's step changes nothing of the producer's.
LEMMA ConsumerControls ==
  ASSUME Controls, UNCHANGED <<ppc, pmode, sent, allocated>>,
         cpc' \in {"idle", "tail", "tailBlock", "tailAgain", "next", "nextTail"},
         cop' \in ConsumerOps \cup {"none"}, cb' \in 1..allocated,
         InOrderDespiteStaleLoads', cret' \in 0..MaxElements,
         ~memory'.raced, assertion' = "ok"
  PROVE  Controls'
BY DEF Controls

\* What a consumer's step leaves of the invariant when it has served its call
LEMMA ServedKeeps ==
  ASSUME Sizes, Controls, NEW m, ~m.raced, UNCHANGED prodVars, assertion' = "ok",
         localTail' \in [Blocks -> Slots],
         cop' \in ConsumerOps \cup {"none"}, cb' \in 1..allocated, cpc' = "idle",
         Served(m, memory', cop', received, cret', sizeMask, allocated, localTail', localFront, ppc, "idle", cb',
                received', sent)
  PROVE  IInv'
<1>1. UNCHANGED <<localFront, sizeMask, largestBlockSize, allocated, ppc, pmode, sent>>
  BY DEF prodVars
<1>2. /\ ~memory'.raced /\ cret' = received + 1
      /\ received' = IF cop' = "peek" THEN received ELSE received + 1
      /\ received \in Nat /\ sent \in Nat /\ received < sent
  BY DEF Served
<1>3. PICK ring, k, start : Shaped(memory', sizeMask, allocated, localTail', localFront, ppc, "idle", cb',
                                   received', sent, ring, k, start)
  BY DEF Served
<1>4. Shape(ring, k, start)'
  BY <1>1, <1>3 DEF Shape
<1>5. Sizes'
  BY <1>1 DEF Sizes
<1>6. sent <= MaxElements
  BY OpsAssumption DEF Controls
<1>7. InOrderDespiteStaleLoads'
  BY <1>2 DEF InOrderDespiteStaleLoads
<1>8. cret' \in 0..MaxElements
  BY <1>2, <1>6, OpsAssumption
<1>9. Controls'
  BY <1>1, <1>2, <1>7, <1>8, ConsumerControls
<1> QED BY <1>4, <1>5, <1>9 DEF IInv

\* What it leaves when the call goes on, or ends without an element
LEMMA GoesOnKeeps ==
  ASSUME Sizes, Controls, UNCHANGED prodVars, assertion' = "ok", ~memory'.raced,
         localTail' \in [Blocks -> Slots],
         cop' \in ConsumerOps \cup {"none"}, cb' \in 1..allocated,
         cpc' \in {"idle", "tail", "tailBlock", "tailAgain", "next", "nextTail"},
         received' = received, cret' = Raw \/ (cret' = cret /\ cop' = cop),
         NEW ring, NEW k, NEW start,
         Shaped(memory', sizeMask, allocated, localTail', localFront, ppc, cpc', cb', received, sent, ring, k, start)
  PROVE  IInv'
<1>1. UNCHANGED <<localFront, sizeMask, largestBlockSize, allocated, ppc, pmode, sent>>
  BY DEF prodVars
<1>4. Shape(ring, k, start)'
  BY <1>1 DEF Shape
<1>5. Sizes'
  BY <1>1 DEF Sizes
<1>7. InOrderDespiteStaleLoads'
  BY DEF InOrderDespiteStaleLoads, Controls
<1>8. cret' \in 0..MaxElements
  BY OpsAssumption DEF Raw, Controls
<1>9. Controls'
  BY <1>1, <1>7, <1>8, ConsumerControls
<1> QED BY <1>4, <1>5, <1>9 DEF IInv

\* The first step of try_dequeue or peek keeps the invariant (lines 230-233),
LEMMA DequeueCallKeeps ==
  ASSUME IInv, NEW op \in ConsumerOps, DequeueCall(op)
  PROVE  IInv'
<1>1. PICK ring, k, start : Shape(ring, k, start)
  BY DEF IInv
<1>2. Sizes /\ Controls
  BY DEF IInv
<1>3. PICK b : b = Own(memory, frontBlock)
  OBVIOUS
<1>4. /\ cop' = op /\ cb' = b
      /\ IF Own(memory, front(b)) # localTail[b]
         THEN Take(Acquired(memory, C), b)
         ELSE cpc' = "tail" /\ cret' = Raw /\ UNCHANGED <<memory, received>>
      /\ UNCHANGED localTail /\ UNCHANGED prodVars /\ UNCHANGED assertion
  BY <1>3 DEF DequeueCall
<1>5. Shaped(memory, sizeMask, allocated, localTail, localFront, ppc, cpc, cb, received, sent, ring, k, start)
  BY <1>1 DEF Shape
<1>6. /\ b = ring[k] /\ b \in Blocks /\ b \in 1..allocated /\ MemoryOK(memory)
  BY <1>3, <1>5, QueueParts DEF Shaped
<1>7. /\ ~memory.raced /\ assertion = "ok" /\ localTail \in [Blocks -> Slots]
  BY <1>2 DEF Controls, Sizes
<1>8. CASE Own(memory, front(b)) # localTail[b]
  <2>1. PICK n : n = Acquired(memory, C)
    OBVIOUS
  <2>2. MemoryOK(n) /\ Narrows(memory, n)
    BY <1>6, <2>1, AcquiredNarrow, ThreadFacts
  <2>3. Shaped(n, sizeMask, allocated, localTail, localFront, ppc, cpc, cb, received, sent, ring, k, start)
    BY <1>5, <2>2, ShapeNarrows
  <2>4. F(n, b) = Own(memory, front(b)) /\ ~n.raced
    <3>1. front(b) \in Atomics
      BY <1>6, AtomicFacts
    <3> QED BY <3>1, <1>6, <1>7, <2>2, NarrowFacts DEF F, Narrows
  <2>5. /\ Queue(n, sizeMask, allocated, ring, k, start, received, sent)
        /\ LocalFrontOK(n, sizeMask, ring[Len(ring)], localFront[ring[Len(ring)]])
        /\ ProducerAt(n, ring, k, ppc)
        /\ LocalTailOK(n, sizeMask, b, localTail[b]) /\ localTail[b] # F(n, b) /\ Take(n, b)
    BY <1>4, <1>6, <1>8, <2>1, <2>3, <2>4 DEF Shaped
  <2>6. PICK lts, c : lts = localTail' /\ c = cb' /\ lts = localTail
    BY <1>4
  <2>7. /\ Served(n, memory', cop', received, cret', sizeMask, allocated, lts, localFront, ppc, "idle", c,
                  received', sent)
        /\ cpc' = "idle"
    BY <1>6, <2>5, <2>6, TakeServes
  <2> QED BY <1>2, <1>4, <1>6, <1>7, <2>4, <2>6, <2>7, ServedKeeps
<1>9. CASE ~(Own(memory, front(b)) # localTail[b])
  <2>1. Shaped(memory, sizeMask, allocated, localTail, localFront, ppc, "tail", b, received, sent, ring, k, start)
    BY <1>5, <1>6 DEF Shaped, ConsumerAt
  <2> QED BY <1>2, <1>4, <1>6, <1>7, <1>9, <2>1, GoesOnKeeps
<1> QED BY <1>8, <1>9

\* so does the look at tail (233-245),
LEMMA DequeueLoadTailKeeps ==
  ASSUME IInv, DequeueLoadTail
  PROVE  IInv'
<1>1. PICK ring, k, start : Shape(ring, k, start)
  BY DEF IInv
<1>2. Sizes /\ Controls
  BY DEF IInv
<1>4. cpc = "tail" /\ UNCHANGED <<cop, cb>> /\ UNCHANGED prodVars /\ UNCHANGED assertion
  BY DEF DequeueLoadTail
<1>5. PICK load \in Loads(memory, C, tail(cb)) :
        /\ localTail' = [localTail EXCEPT ![cb] = load.value]
        /\ IF Own(memory, front(cb)) # load.value
           THEN Take(Acquired(load.memory, C), cb)
           ELSE memory' = load.memory /\ cpc' = "tailBlock" /\ UNCHANGED <<cret, received>>
  BY DEF DequeueLoadTail
<1>6. Shaped(memory, sizeMask, allocated, localTail, localFront, ppc, "tail", cb, received, sent, ring, k, start)
  BY <1>1, <1>4 DEF Shape
<1>7. PICK b : b = cb
  OBVIOUS
<1>8. /\ b = ring[k] /\ b \in Blocks /\ b \in 1..allocated /\ MemoryOK(memory)
      /\ b = Own(memory, frontBlock) /\ Block(memory, sizeMask, b) /\ Indices(memory, sizeMask, b)
  <2>1. b = ring[k]
    BY <1>6, <1>7 DEF Shaped, ConsumerAt
  <2> QED BY <2>1, <1>6, QueueParts DEF Shaped
<1>9. /\ ~memory.raced /\ assertion = "ok" /\ localTail \in [Blocks -> Slots]
      /\ cop \in ConsumerOps \cup {"none"}
  BY <1>2 DEF Controls, Sizes
<1>10. PICK n : n = Acquired(load.memory, C)
  OBVIOUS
<1>11. /\ front(b) \in Atomics /\ tail(b) \in Atomics /\ WriterOf(tail(b)) = Other(C) /\ C \in Threads
  BY <1>8, AtomicFacts, ThreadFacts
<1>12. /\ MemoryOK(load.memory) /\ MemoryOK(n)
       /\ Narrows(memory, load.memory) /\ Narrows(load.memory, n)
       /\ Shaped(load.memory, sizeMask, allocated, localTail, localFront, ppc, "tail", b, received, sent, ring, k, start)
       /\ Shaped(n, sizeMask, allocated, localTail, localFront, ppc, "tail", b, received, sent, ring, k, start)
       /\ n.raced = memory.raced /\ load.memory.raced = memory.raced
       /\ \A y \in Atomics : Own(n, y) = Own(memory, y) /\ Own(load.memory, y) = Own(memory, y)
  BY <1>5, <1>6, <1>7, <1>10, <1>11, LoadShapes
<1>13. F(n, b) = Own(memory, front(b)) /\ F(load.memory, b) = Own(memory, front(b))
  BY <1>11, <1>12 DEF F
<1>14. LocalTailOK(n, sizeMask, b, load.value)
  BY <1>5, <1>7, <1>8, <1>10, TailSeen
<1>15. load.value \in Slots /\ localTail' \in [Blocks -> Slots] /\ localTail'[b] = load.value
  <2>1. load.value \in 0..sizeMask[b] /\ 0..sizeMask[b] \subseteq Slots
    BY <1>8, <1>14, IndexFacts DEF LocalTailOK
  <2> QED BY <2>1, <1>5, <1>7, <1>8, <1>9
<1>16. CASE Own(memory, front(b)) # load.value
  <2>1. PICK lts, c : lts = localTail' /\ c = cb'
    OBVIOUS
  <2>2. /\ Queue(n, sizeMask, allocated, ring, k, start, received, sent)
        /\ LocalFrontOK(n, sizeMask, ring[Len(ring)], localFront[ring[Len(ring)]])
        /\ ProducerAt(n, ring, k, ppc)
        /\ LocalTailOK(n, sizeMask, b, lts[b]) /\ lts[b] # F(n, b) /\ Take(n, b)
    BY <1>5, <1>7, <1>10, <1>12, <1>13, <1>14, <1>15, <1>16, <2>1 DEF Shaped
  <2>3. /\ Served(n, memory', cop', received, cret', sizeMask, allocated, lts, localFront, ppc, "idle", c,
                  received', sent)
        /\ cpc' = "idle"
    BY <1>8, <2>2, TakeServes
  <2>4. ~n.raced /\ cop' \in ConsumerOps \cup {"none"} /\ cb' \in 1..allocated /\ assertion' = "ok"
    BY <1>4, <1>7, <1>8, <1>9, <1>12
  <2> QED BY <1>2, <1>4, <1>15, <2>1, <2>3, <2>4, ServedKeeps
<1>17. CASE ~(Own(memory, front(b)) # load.value)
  <2>1. LocalTailOK(load.memory, sizeMask, b, load.value)
    <3>1. Indices(load.memory, sizeMask, b)
      BY <1>8, <1>12, QueueParts DEF Shaped
    <3> QED BY <3>1, <1>8, <1>12, <1>13, <1>17, LocalTailEmpty
  <2>2. Shaped(load.memory, sizeMask, allocated, localTail', localFront, ppc, "tailBlock", b, received, sent, ring, k, start)
    BY <1>8, <1>12, <1>15, <2>1 DEF Shaped, ConsumerAt
  <2>3. memory' = load.memory /\ cpc' = "tailBlock" /\ UNCHANGED <<cret, received>>
    BY <1>5, <1>7, <1>17
  <2> QED BY <1>2, <1>4, <1>7, <1>8, <1>9, <1>12, <1>15, <2>2, <2>3, GoesOnKeeps
<1> QED BY <1>16, <1>17

\* the look at tailBlock (247-249),
LEMMA DequeueLoadTailBlockKeeps ==
  ASSUME IInv, DequeueLoadTailBlock
  PROVE  IInv'
<1>1. PICK ring, k, start : Shape(ring, k, start)
  BY DEF IInv
<1>2. Sizes /\ Controls
  BY DEF IInv
<1>4. cpc = "tailBlock" /\ UNCHANGED <<localTail, cop, cb, cret, received, assertion>> /\ UNCHANGED prodVars
  BY DEF DequeueLoadTailBlock
<1>5. PICK load \in Loads(memory, C, tailBlock) :
        IF load.value = cb
        THEN memory' = load.memory /\ cpc' = "idle"
        ELSE memory' = Acquired(load.memory, C) /\ cpc' = "tailAgain"
  BY DEF DequeueLoadTailBlock
<1>6. Shaped(memory, sizeMask, allocated, localTail, localFront, ppc, "tailBlock", cb, received, sent, ring, k, start)
  BY <1>1, <1>4 DEF Shape
<1>7. /\ Queue(memory, sizeMask, allocated, ring, k, start, received, sent) /\ cb = ring[k] /\ cb \in 1..allocated
  <2>1. cb = ring[k] /\ Queue(memory, sizeMask, allocated, ring, k, start, received, sent)
    BY <1>6 DEF Shaped, ConsumerAt
  <2> QED BY <2>1, QueueParts
<1>8. /\ ~memory.raced /\ assertion = "ok" /\ localTail \in [Blocks -> Slots]
      /\ cop \in ConsumerOps \cup {"none"}
  BY <1>2 DEF Controls, Sizes
<1>9. PICK n : n = Acquired(load.memory, C)
  OBVIOUS
<1>10. /\ Shaped(load.memory, sizeMask, allocated, localTail, localFront, ppc, "tailBlock", cb, received, sent, ring, k, start)
       /\ Shaped(n, sizeMask, allocated, localTail, localFront, ppc, "tailBlock", cb, received, sent, ring, k, start)
       /\ n.raced = memory.raced /\ load.memory.raced = memory.raced
  <2>1. tailBlock \in Atomics /\ WriterOf(tailBlock) = Other(C) /\ C \in Threads
    BY AtomicFacts, ThreadFacts
  <2> QED BY <2>1, <1>6, <1>9, LoadShapes
<1>11. CASE load.value = cb
  <2>1. Shaped(load.memory, sizeMask, allocated, localTail, localFront, ppc, "idle", cb, received, sent, ring, k, start)
    BY <1>10 DEF Shaped, ConsumerAt
  <2> QED BY <1>2, <1>4, <1>5, <1>7, <1>8, <1>10, <1>11, <2>1, GoesOnKeeps
<1>12. CASE load.value # cb
  <2>1. /\ k < Len(ring)
        /\ \A i \in 1..Depth(n, tailBlock) : Val(n, tailBlock, i) # ring[k]
        /\ Closed(n, ring[k], Acq(n, C))
        /\ Entered(n, sizeMask, ring[k + 1], Acq(n, C))
    BY <1>7, <1>9, <1>12, TailBlockSeen
  <2>2. ConsumerAt(n, sizeMask, ring, k, "tailAgain", cb)
    BY <1>7, <2>1 DEF ConsumerAt
  <2>3. Shaped(n, sizeMask, allocated, localTail, localFront, ppc, "tailAgain", cb, received, sent, ring, k, start)
    BY <1>10, <2>2 DEF Shaped
  <2> QED BY <1>2, <1>4, <1>5, <1>7, <1>8, <1>9, <1>10, <1>12, <2>3, GoesOnKeeps
<1> QED BY <1>11, <1>12

\* the second look at tail (250-258),
LEMMA DequeueLoadTailAgainKeeps ==
  ASSUME IInv, DequeueLoadTailAgain
  PROVE  IInv'
<1>1. PICK ring, k, start : Shape(ring, k, start)
  BY DEF IInv
<1>2. Sizes /\ Controls
  BY DEF IInv
<1>4. cpc = "tailAgain" /\ UNCHANGED <<cop, cb>> /\ UNCHANGED prodVars /\ UNCHANGED assertion
  BY DEF DequeueLoadTailAgain
<1>5. PICK load \in Loads(memory, C, tail(cb)) :
        /\ localTail' = [localTail EXCEPT ![cb] = load.value]
        /\ IF Own(memory, front(cb)) # load.value
           THEN Take(Acquired(load.memory, C), cb)
           ELSE memory' = Acquired(load.memory, C) /\ cpc' = "next" /\ UNCHANGED <<cret, received>>
  BY DEF DequeueLoadTailAgain
<1>6. Shaped(memory, sizeMask, allocated, localTail, localFront, ppc, "tailAgain", cb, received, sent, ring, k, start)
  BY <1>1, <1>4 DEF Shape
<1>7. PICK b : b = cb
  OBVIOUS
<1>8. /\ b = ring[k] /\ b \in Blocks /\ b \in 1..allocated /\ MemoryOK(memory)
      /\ b = Own(memory, frontBlock) /\ Block(memory, sizeMask, b) /\ Indices(memory, sizeMask, b)
      /\ Closed(memory, b, Acq(memory, C))
  <2>1. b = ring[k] /\ Closed(memory, b, Acq(memory, C))
    BY <1>6, <1>7 DEF Shaped, ConsumerAt
  <2> QED BY <2>1, <1>6, QueueParts DEF Shaped
<1>9. /\ ~memory.raced /\ assertion = "ok" /\ localTail \in [Blocks -> Slots]
      /\ cop \in ConsumerOps \cup {"none"}
  BY <1>2 DEF Controls, Sizes
<1>10. PICK n : n = Acquired(load.memory, C)
  OBVIOUS
<1>11. /\ front(b) \in Atomics /\ tail(b) \in Atomics /\ WriterOf(tail(b)) = Other(C) /\ C \in Threads
  BY <1>8, AtomicFacts, ThreadFacts
<1>12. /\ MemoryOK(n)
       /\ Shaped(n, sizeMask, allocated, localTail, localFront, ppc, "tailAgain", b, received, sent, ring, k, start)
       /\ n.raced = memory.raced
       /\ \A y \in Atomics : Own(n, y) = Own(memory, y)
  BY <1>5, <1>6, <1>7, <1>10, <1>11, LoadShapes
<1>13. F(n, b) = Own(memory, front(b)) /\ T(n, b) = T(memory, b)
  BY <1>11, <1>12 DEF F, T
<1>14. LocalTailOK(n, sizeMask, b, load.value)
  BY <1>5, <1>7, <1>8, <1>10, TailSeen
<1>15. load.value \in Slots /\ localTail' \in [Blocks -> Slots] /\ localTail'[b] = load.value
  <2>1. load.value \in 0..sizeMask[b] /\ 0..sizeMask[b] \subseteq Slots
    BY <1>8, <1>14, IndexFacts DEF LocalTailOK
  <2> QED BY <2>1, <1>5, <1>7, <1>8, <1>9
<1>16. CASE Own(memory, front(b)) # load.value
  <2>1. PICK lts, c : lts = localTail' /\ c = cb'
    OBVIOUS
  <2>2. /\ Queue(n, sizeMask, allocated, ring, k, start, received, sent)
        /\ LocalFrontOK(n, sizeMask, ring[Len(ring)], localFront[ring[Len(ring)]])
        /\ ProducerAt(n, ring, k, ppc)
        /\ LocalTailOK(n, sizeMask, b, lts[b]) /\ lts[b] # F(n, b) /\ Take(n, b)
    BY <1>5, <1>7, <1>10, <1>12, <1>13, <1>14, <1>15, <1>16, <2>1 DEF Shaped
  <2>3. /\ Served(n, memory', cop', received, cret', sizeMask, allocated, lts, localFront, ppc, "idle", c,
                  received', sent)
        /\ cpc' = "idle"
    BY <1>8, <2>2, TakeServes
  <2>4. ~n.raced /\ cop' \in ConsumerOps \cup {"none"} /\ cb' \in 1..allocated /\ assertion' = "ok"
    BY <1>4, <1>7, <1>8, <1>9, <1>12
  <2> QED BY <1>2, <1>4, <1>15, <2>1, <2>3, <2>4, ServedKeeps
<1>17. CASE ~(Own(memory, front(b)) # load.value)
  <2>1. F(n, b) = T(n, b)
    <3>1. PICK i \in 1..Depth(memory, tail(b)) : load.value = Val(memory, tail(b), i)
      BY <1>7, LoadedIs
    <3>2. Depth(memory, tail(b)) = 1 /\ Val(memory, tail(b), 1) = T(memory, b)
      BY <1>8, ClosedSeen
    <3> QED BY <3>1, <3>2, <1>13, <1>17
  <2>2. ConsumerAt(n, sizeMask, ring, k, "next", b)
    <3>1. /\ k < Len(ring)
          /\ \A i \in 1..Depth(n, tailBlock) : Val(n, tailBlock, i) # ring[k]
          /\ Closed(n, ring[k], Acq(n, C))
          /\ Entered(n, sizeMask, ring[k + 1], Acq(n, C))
      BY <1>12 DEF Shaped, ConsumerAt
    <3> QED BY <3>1, <2>1, <1>8 DEF ConsumerAt
  <2>3. Shaped(n, sizeMask, allocated, localTail', localFront, ppc, "next", b, received, sent, ring, k, start)
    BY <1>8, <1>12, <1>14, <1>15, <2>2 DEF Shaped
  <2>4. memory' = n /\ cpc' = "next" /\ UNCHANGED <<cret, received>>
    BY <1>5, <1>7, <1>10, <1>17
  <2> QED BY <1>2, <1>4, <1>7, <1>8, <1>9, <1>12, <1>15, <2>3, <2>4, GoesOnKeeps
<1> QED BY <1>16, <1>17

\* the look at next (261),
LEMMA DequeueLoadNextKeeps ==
  ASSUME IInv, DequeueLoadNext
  PROVE  IInv'
<1>1. PICK ring, k, start : Shape(ring, k, start)
  BY DEF IInv
<1>2. Sizes /\ Controls
  BY DEF IInv
<1>4. cpc = "next" /\ cpc' = "nextTail" /\ UNCHANGED <<localTail, cop, cret, received, assertion>> /\ UNCHANGED prodVars
  BY DEF DequeueLoadNext
<1>5. PICK load \in Loads(memory, C, next(cb)) : memory' = load.memory /\ cb' = load.value
  BY DEF DequeueLoadNext
<1>6. Shaped(memory, sizeMask, allocated, localTail, localFront, ppc, "next", cb, received, sent, ring, k, start)
  BY <1>1, <1>4 DEF Shape
<1>7. /\ cb = ring[k] /\ k < Len(ring) /\ Closed(memory, cb, Acq(memory, C))
      /\ Queue(memory, sizeMask, allocated, ring, k, start, received, sent)
  BY <1>6 DEF Shaped, ConsumerAt
<1>8. /\ cb \in Blocks /\ MemoryOK(memory) /\ k \in 1..Len(ring) /\ k + 1 \in 1..Len(ring)
      /\ ring[k + 1] \in 1..allocated /\ Own(memory, next(cb)) = ring[k + 1]
  <2>1. /\ cb \in Blocks /\ MemoryOK(memory) /\ k \in 1..Len(ring) /\ k \in Nat /\ Len(ring) \in Nat
        /\ Ring(memory, allocated, ring, k)
        /\ \A i \in 1..Len(ring) : ring[i] \in 1..allocated
    BY <1>7, QueueParts
  <2>2. k + 1 \in 1..Len(ring) /\ k # Len(ring)
    BY <2>1, <1>7
  <2> QED BY <2>1, <2>2, <1>7 DEF Ring
<1>9. /\ ~memory.raced /\ assertion = "ok" /\ localTail \in [Blocks -> Slots]
      /\ cop \in ConsumerOps \cup {"none"}
  BY <1>2 DEF Controls, Sizes
<1>10. PICK m : m = load.memory
  OBVIOUS
<1>11. /\ Shaped(m, sizeMask, allocated, localTail, localFront, ppc, "next", cb, received, sent, ring, k, start)
       /\ m.raced = memory.raced
  <2>1. next(cb) \in Atomics /\ WriterOf(next(cb)) = Other(C) /\ C \in Threads
    BY <1>8, AtomicFacts, ThreadFacts
  <2>2. PICK n : n = Acquired(load.memory, C)
    OBVIOUS
  <2> QED BY <2>1, <2>2, <1>6, <1>10, LoadShapes
<1>12. load.value = ring[k + 1]
  <2>1. PICK i \in 1..Depth(memory, next(cb)) : load.value = Val(memory, next(cb), i)
    BY LoadedIs
  <2>2. Depth(memory, next(cb)) = 1 /\ Val(memory, next(cb), 1) = Own(memory, next(cb))
    BY <1>7, <1>8, ClosedSeen
  <2> QED BY <2>1, <2>2, <1>8
<1>13. ConsumerAt(m, sizeMask, ring, k, "nextTail", ring[k + 1])
  <2>1. /\ k < Len(ring)
        /\ \A i \in 1..Depth(m, tailBlock) : Val(m, tailBlock, i) # ring[k]
        /\ Closed(m, ring[k], Acq(m, C))
        /\ Entered(m, sizeMask, ring[k + 1], Acq(m, C))
        /\ F(m, ring[k]) = T(m, ring[k])
    BY <1>11 DEF Shaped, ConsumerAt
  <2> QED BY <2>1 DEF ConsumerAt
<1>14. Shaped(m, sizeMask, allocated, localTail, localFront, ppc, "nextTail", ring[k + 1], received, sent, ring, k, start)
  BY <1>11, <1>13 DEF Shaped
<1> QED BY <1>2, <1>4, <1>5, <1>8, <1>9, <1>10, <1>11, <1>12, <1>14, GoesOnKeeps

\* The first element of the next block is looked at.
LEMMA NextBlockPeeks ==
  ASSUME NEW m, NEW mask, NEW alloc, NEW lts, NEW lfs,
         NEW pp, NEW c, NEW rec, NEW snt, NEW ring, NEW k, NEW start,
         Shaped(m, mask, alloc, lts, lfs, pp, "nextTail", c, rec, snt, ring, k, start), Take(m, c), cop' = "peek",
         rec = received
  PROVE  /\ Served(m, memory', cop', rec, cret', mask, alloc, lts, lfs, pp, "idle", c, received', snt)
         /\ cpc' = "idle"
<1>1. /\ Queue(m, mask, alloc, ring, k, start, rec, snt) /\ c = ring[k + 1] /\ k < Len(ring)
      /\ F(m, ring[k]) = T(m, ring[k]) /\ Entered(m, mask, c, Acq(m, C))
  BY DEF Shaped, ConsumerAt
<1>2. /\ start[k + 1] = rec + 1 /\ F(m, c) # T(m, c) /\ k + 1 \in 1..Len(ring)
  BY <1>1, NextStart
<1>3. El(m, c, F(m, c)) = rec + 1 /\ rec < snt
  BY <1>1, <1>2, FirstElement
<1>4. /\ MemoryOK(m) /\ c \in Blocks /\ Indices(m, mask, c)
  BY <1>1, <1>2, QueueParts
<1>5. F(m, c) \in Slots \cup {Members} /\ Members \in Slots \cup {Members}
  BY <1>4, IndexFacts
<1>6. Wri(m, c, F(m, c)) <= Acq(m, C) /\ Wri(m, c, Members) <= Acq(m, C)
  BY <1>1 DEF Entered
<1>7. C \in Threads
  BY ThreadFacts
<1>8. ~Races(m, C, slot(c, Members)) /\ ~Races(m, C, slot(c, F(m, c)))
  BY <1>4, <1>5, <1>6, <1>7, KnownIsNoRace
<1>9. Read(Read(m, C, slot(c, Members)), C, slot(c, F(m, c))) = m
  BY <1>4, <1>8, ReadQuietly
<1>10. memory' = m /\ cret' = El(m, c, F(m, c)) /\ received' = rec /\ cpc' = "idle"
  BY <1>9 DEF Take, Taken, F, ValueOf, El
<1>11. Shaped(m, mask, alloc, lts, lfs, pp, "idle", c, rec, snt, ring, k, start)
  BY DEF Shaped, ConsumerAt
<1>12. rec \in Nat /\ snt \in Nat
  BY <1>1, FrontStart
<1> QED BY <1>3, <1>10, <1>11, <1>12 DEF Served

\* The consumer enters the next block.
LEMMA NextBlockEntered ==
  ASSUME NEW m, NEW mask, NEW alloc, NEW lts, NEW lfs,
         NEW pp, NEW c, NEW rec, NEW snt, NEW ring, NEW k, NEW start,
         Shaped(m, mask, alloc, lts, lfs, pp, "nextTail", c, rec, snt, ring, k, start),
         NEW lt, LocalTailOK(m, mask, c, lt),
         NEW o, o = Stored(Released(m, C), C, frontBlock, c)
  PROVE  /\ Queue(o, mask, alloc, ring, k + 1, start, rec, snt)
         /\ LocalTailOK(o, mask, c, lt)
         /\ LocalFrontOK(o, mask, ring[Len(ring)], lfs[ring[Len(ring)]])
         /\ ProducerAt(o, ring, k + 1, pp)
         /\ o.raced = m.raced /\ F(o, c) = F(m, c)
<1>1. /\ Queue(m, mask, alloc, ring, k, start, rec, snt) /\ c = ring[k + 1] /\ k < Len(ring)
      /\ F(m, ring[k]) = T(m, ring[k]) /\ Entered(m, mask, c, Acq(m, C))
      /\ \A i \in 1..Depth(m, tailBlock) : Val(m, tailBlock, i) # ring[k]
      /\ ProducerAt(m, ring, k, pp)
  BY DEF Shaped, ConsumerAt
<1>2. PICK lf : lf = lfs[ring[Len(ring)]]
  OBVIOUS
<1>3. LocalFrontOK(m, mask, ring[Len(ring)], lf)
  BY <1>2 DEF Shaped
<1>4. /\ MemoryOK(m) /\ c \in Blocks
  BY <1>1, NextStart, QueueParts
<1>5. /\ MemoryOK(o) /\ o.plain = m.plain /\ o.raced = m.raced
      /\ \A x \in Atomics : x # frontBlock => o.visible[x] = m.visible[x]
      /\ \A t \in Threads : Acq(o, t) = Acq(m, t)
      /\ \E s, r : r \in Nat /\ r >= m.writes[C] /\ Appends(m, o, frontBlock, c, s, r)
  BY <1>4, Advances
<1>6. PICK s, r : r \in Nat /\ r >= m.writes[C] /\ Appends(m, o, frontBlock, c, s, r)
  BY <1>5
<1>7. /\ Queue(o, mask, alloc, ring, k + 1, start, rec, snt)
      /\ LocalFrontOK(o, mask, ring[Len(ring)], lf)
      /\ \A lt2 : LocalTailOK(m, mask, c, lt2) => LocalTailOK(o, mask, c, lt2)
      /\ \A pc : ProducerAt(m, ring, k, pc) => ProducerAt(o, ring, k + 1, pc)
  <2>1. /\ Queue(m, mask, alloc, ring, k, start, rec, snt)
        /\ MemoryOK(o) /\ \A t \in Threads : Acq(o, t) = Acq(m, t)
        /\ o.plain = m.plain /\ \A x \in Atomics : x # frontBlock => o.visible[x] = m.visible[x]
        /\ k < Len(ring) /\ c = ring[k + 1]
        /\ r \in Nat /\ r >= m.writes[C] /\ Appends(m, o, frontBlock, c, s, r)
        /\ F(m, ring[k]) = T(m, ring[k])
        /\ \A i \in 1..Depth(m, tailBlock) : Val(m, tailBlock, i) # ring[k]
        /\ Entered(m, mask, c, Acq(m, C))
        /\ LocalFrontOK(m, mask, ring[Len(ring)], lf)
    BY ONLY <1>1, <1>3, <1>5, <1>6
  <2>2. Enters(m, o, mask, alloc, ring, k, start, rec, snt, c, lf)
    BY ONLY <2>1, QueueAdvances
  <2> QED BY ONLY <2>2 DEF Enters
<1>8. F(o, c) = F(m, c)
  BY <1>4, <1>5, AtomicFacts DEF F, Own
<1>9. LocalTailOK(o, mask, c, lt) /\ ProducerAt(o, ring, k + 1, pp)
  BY <1>1, <1>7
<1> QED BY <1>2, <1>5, <1>7, <1>8, <1>9

\* and the step into the next block (266-289).
LEMMA DequeueLoadNextTailKeeps ==
  ASSUME IInv, DequeueLoadNextTail
  PROVE  IInv'
<1>1. PICK ring, k, start : Shape(ring, k, start)
  BY DEF IInv
<1>2. Sizes /\ Controls
  BY DEF IInv
<1>4. cpc = "nextTail" /\ UNCHANGED <<cop, cb>> /\ UNCHANGED prodVars
  BY DEF DequeueLoadNextTail
<1>5. PICK load \in Loads(memory, C, tail(cb)) :
       /\ assertion' = IF Own(memory, front(cb)) # load.value THEN assertion
                       ELSE "next block empty"
       /\ IF cop = "peek"
          THEN Take(load.memory, cb) /\ UNCHANGED localTail
          ELSE /\ Take(Advanced(Acquired(Read(load.memory, C, slot(cb, Members)), C)), cb)
               /\ localTail' = [localTail EXCEPT ![cb] = load.value]
  BY DEF DequeueLoadNextTail
<1>6. Shaped(memory, sizeMask, allocated, localTail, localFront, ppc, "nextTail", cb, received, sent, ring, k, start)
  BY <1>1, <1>4 DEF Shape
<1>7. PICK b : b = cb
  OBVIOUS
<1>8. /\ b = ring[k + 1] /\ k < Len(ring) /\ Entered(memory, sizeMask, b, Acq(memory, C))
      /\ Queue(memory, sizeMask, allocated, ring, k, start, received, sent)
  BY <1>6, <1>7 DEF Shaped, ConsumerAt
<1>9. /\ b \in Blocks /\ b \in 1..allocated /\ MemoryOK(memory) /\ Block(memory, sizeMask, b)
      /\ Indices(memory, sizeMask, b)
  <2>1. k \in Nat /\ k >= 1 /\ Len(ring) \in Nat
    BY <1>8, QueueParts
  <2>2. k + 1 \in 1..Len(ring)
    BY <2>1, <1>8
  <2> QED BY <2>2, <1>8, QueueParts
<1>10. /\ ~memory.raced /\ assertion = "ok" /\ localTail \in [Blocks -> Slots]
       /\ cop \in ConsumerOps \cup {"none"}
  BY <1>2 DEF Controls, Sizes
<1>11. PICK m, n : m = load.memory /\ n = Acquired(load.memory, C)
  OBVIOUS
<1>12. /\ front(b) \in Atomics /\ tail(b) \in Atomics /\ WriterOf(tail(b)) = Other(C) /\ C \in Threads
  BY <1>9, AtomicFacts, ThreadFacts
<1>13. /\ MemoryOK(m) /\ MemoryOK(n)
       /\ Shaped(m, sizeMask, allocated, localTail, localFront, ppc, "nextTail", b, received, sent, ring, k, start)
       /\ Shaped(n, sizeMask, allocated, localTail, localFront, ppc, "nextTail", b, received, sent, ring, k, start)
       /\ m.raced = memory.raced /\ n.raced = memory.raced
       /\ \A y \in Atomics : Own(n, y) = Own(memory, y) /\ Own(m, y) = Own(memory, y)
  <2>1. /\ Shaped(memory, sizeMask, allocated, localTail, localFront, ppc, "nextTail", b, received, sent, ring, k, start)
        /\ load \in Loads(memory, C, tail(b)) /\ C \in Threads /\ tail(b) \in Atomics /\ WriterOf(tail(b)) = Other(C)
        /\ n = Acquired(load.memory, C)
    BY <1>5, <1>6, <1>7, <1>11, <1>12
  <2>2. /\ MemoryOK(memory) /\ MemoryOK(load.memory) /\ MemoryOK(n)
        /\ Narrows(memory, load.memory) /\ Narrows(load.memory, n)
        /\ Shaped(load.memory, sizeMask, allocated, localTail, localFront, ppc, "nextTail", b, received, sent, ring, k, start)
        /\ Shaped(n, sizeMask, allocated, localTail, localFront, ppc, "nextTail", b, received, sent, ring, k, start)
        /\ n.raced = memory.raced /\ load.memory.raced = memory.raced
        /\ n.plain = memory.plain /\ load.memory.plain = memory.plain
        /\ \A y \in Atomics : Own(n, y) = Own(memory, y) /\ Own(load.memory, y) = Own(memory, y)
    BY ONLY <2>1, LoadShapes
  <2> QED BY <1>11, <2>2
<1>14. load.value # Own(memory, front(b)) /\ assertion' = "ok"
  <2>1. PICK i \in 1..Depth(memory, tail(b)) : load.value = Val(memory, tail(b), i)
    BY <1>7, LoadedIs
  <2>2. Val(memory, tail(b), i) # F(memory, b)
    BY <1>8, <1>9, EnteredSeen
  <2> QED BY <2>1, <2>2, <1>5, <1>7, <1>10 DEF F
<1>15. /\ cop' \in ConsumerOps \cup {"none"} /\ cb' \in 1..allocated /\ cb' = b
  BY <1>4, <1>7, <1>9, <1>10
<1>16. CASE cop = "peek"
  <2>1. PICK lts, lfs, mask, alloc, pp, rec, snt :
          /\ lts = localTail /\ lfs = localFront /\ mask = sizeMask /\ alloc = allocated /\ pp = ppc
          /\ rec = received /\ snt = sent
    OBVIOUS
  <2>2. /\ Shaped(m, mask, alloc, lts, lfs, pp, "nextTail", b, rec, snt, ring, k, start)
        /\ Take(m, b) /\ cop' = "peek" /\ rec = received
    BY <1>4, <1>5, <1>7, <1>11, <1>13, <1>16, <2>1
  <2>3. /\ Served(m, memory', cop', rec, cret', mask, alloc, lts, lfs, pp, "idle", b, received', snt)
        /\ cpc' = "idle"
    BY <2>2, NextBlockPeeks
  <2>4. localTail' = localTail
    BY <1>5, <1>16
  <2>5. Served(m, memory', cop', received, cret', sizeMask, allocated, localTail', localFront, ppc, "idle", cb', received', sent)
    BY <2>1, <2>3, <2>4, <1>15
  <2> QED BY <1>2, <1>4, <1>10, <1>13, <1>14, <1>15, <2>3, <2>4, <2>5, ServedKeeps
<1>17. CASE cop # "peek"
  <2>1. Read(m, C, slot(b, Members)) = m
    <3>1. Wri(m, b, Members) <= Acq(m, C)
      BY <1>13 DEF Shaped, ConsumerAt, Entered
    <3>2. Members \in Slots \cup {Members}
      OBVIOUS
    <3>3. ~Races(m, C, slot(b, Members))
      BY <3>1, <3>2, <1>9, <1>12, <1>13, KnownIsNoRace
    <3> QED BY <3>3, <1>13, ReadQuietly
  <2>2. LocalTailOK(n, sizeMask, b, load.value)
    <3>1. Wri(memory, b, F(memory, b)) <= Acq(memory, C)
      BY <1>8 DEF Entered
    <3> QED BY <3>1, <1>5, <1>7, <1>9, <1>11, TailSeen
  <2>3. load.value \in Slots /\ localTail' \in [Blocks -> Slots] /\ localTail'[b] = load.value
    <3>1. load.value \in 0..sizeMask[b] /\ 0..sizeMask[b] \subseteq Slots
      BY <1>9, <2>2, IndexFacts DEF LocalTailOK
    <3>2. localTail' = [localTail EXCEPT ![b] = load.value]
      BY <1>5, <1>7, <1>17
    <3> QED BY <3>1, <3>2, <1>9, <1>10
  <2>4. PICK o : o = Stored(Released(n, C), C, frontBlock, b)
    OBVIOUS
  <2>5. Take(o, b)
    BY <1>5, <1>7, <1>11, <1>17, <2>1, <2>4 DEF Advanced
  <2>6. PICK lts, c, lfs, pp, mask, alloc, rec, snt :
          /\ lts = localTail' /\ c = cb' /\ lfs = localFront /\ pp = ppc /\ mask = sizeMask
          /\ alloc = allocated /\ rec = received /\ snt = sent
    OBVIOUS
  <2>7. PICK lts0 : lts0 = localTail
    OBVIOUS
  <2>8. /\ Queue(o, mask, alloc, ring, k + 1, start, rec, snt)
        /\ LocalTailOK(o, mask, b, load.value)
        /\ LocalFrontOK(o, mask, ring[Len(ring)], lfs[ring[Len(ring)]])
        /\ ProducerAt(o, ring, k + 1, pp)
        /\ o.raced = n.raced /\ F(o, b) = F(n, b)
    <3>1. /\ Shaped(n, mask, alloc, lts0, lfs, pp, "nextTail", b, rec, snt, ring, k, start)
          /\ LocalTailOK(n, mask, b, load.value)
      BY <1>13, <2>2, <2>6, <2>7
    <3> QED BY ONLY <3>1, <2>4, NextBlockEntered
  <2>9. F(n, b) = Own(memory, front(b))
    BY <1>12, <1>13 DEF F
  <2>10. PICK j : j = k + 1
    OBVIOUS
  <2>11. /\ Queue(o, sizeMask, allocated, ring, j, start, received, sent)
         /\ LocalFrontOK(o, sizeMask, ring[Len(ring)], localFront[ring[Len(ring)]])
         /\ ProducerAt(o, ring, j, ppc)
         /\ b = ring[j] /\ LocalTailOK(o, sizeMask, b, lts[b]) /\ lts[b] # F(o, b) /\ Take(o, b)
    BY <1>8, <1>14, <2>3, <2>5, <2>6, <2>8, <2>9, <2>10
  <2>12. /\ Served(o, memory', cop', received, cret', sizeMask, allocated, lts, localFront, ppc, "idle", c,
                   received', sent)
         /\ cpc' = "idle"
    BY <2>11, TakeServes
  <2>13. ~o.raced
    BY <1>10, <1>13, <2>8
  <2> QED BY <1>2, <1>4, <1>14, <1>15, <2>3, <2>6, <2>12, <2>13, ServedKeeps
<1> QED BY <1>16, <1>17

-----------------------------------------------------------------------------
(* The constructor *)

\* What the constructed memory holds
Initially(m, n) ==
  /\ MemoryOK(m)
  /\ \A x \in Atomics : Depth(m, x) = 1 /\ Val(m, x, 1) = Own(m, x) /\ Sto(m, x, 1) = 0 /\ Rel(m, x, 1) = 0
  /\ \A b \in Blocks : /\ Own(m, front(b)) = 0 /\ Own(m, tail(b)) = 0
                       /\ \A s \in Slots \cup {Members} : Wri(m, b, s) = 0 /\ El(m, b, s) = Raw
  /\ Own(m, frontBlock) = 1 /\ Own(m, tailBlock) = 1
  /\ \A b \in 1..n : Own(m, next(b)) = IF b = n THEN 1 ELSE b + 1
  /\ \A t \in Threads : Acq(m, t) = 0
  /\ ~m.raced

\* The memory as the constructor leaves it (lines 86-133)
LEMMA ConstructedIs ==
  ASSUME Init
  PROVE  Initially(memory, InitialBlockCount)
<1>1. PICK n : n = InitialBlockCount
  OBVIOUS
<1>2. /\ n \in Nat /\ n >= 1 /\ HeapBlocks \in Nat /\ n <= HeapBlocks /\ 0 \in Slots /\ MaxElements \in Nat
      /\ 1..n \subseteq Blocks /\ 1 \in Blocks
  BY <1>1, SizesPositive, OpsAssumption DEF Blocks, Slots
<1>3. PICK v : v = [x \in Atomics |->
          CASE x[1] \in {"front", "tail"} -> 0
            [] x[1] \in {"frontBlock", "tailBlock"} -> 1
            [] x[1] = "next" -> IF x[2] > n THEN NoBlock ELSE (x[2] % n) + 1]
  OBVIOUS
<1>4. PICK w : w = CHOOSE t \in Threads : TRUE
  OBVIOUS
<1>5. w \in Threads
  BY <1>4, ThreadFacts
<1>6. PICK m : m = memory
  OBVIOUS
<1>7. m = [visible |-> [x \in Atomics |-> <<[value |-> v[x], store |-> 0, release |-> 0]>>],
           plain |-> [p \in Plain |-> [value |-> Raw, by |-> w, write |-> 0]],
           writes |-> [t \in Threads |-> 0], released |-> [t \in Threads |-> 0],
           promised |-> [t \in Threads |-> 0], acquired |-> [t \in Threads |-> 0],
           raced |-> FALSE]
  <2>1. m = Constructed(v, [p \in Plain |-> Raw])
    BY <1>1, <1>3, <1>6 DEF Init
  <2>2. \A p \in Plain : [q \in Plain |-> Raw][p] = Raw
    OBVIOUS
  <2> QED BY <2>1, <2>2, <1>4 DEF Constructed, Message
<1>8. \A x \in Atomics : v[x] \in ValuesOf(x) /\ v[x] \in Int
  <2>1. TAKE x \in Atomics
  <2>2. CASE x[1] \in {"front", "tail"}
    BY <2>1, <2>2, <1>2, <1>3 DEF ValuesOf
  <2>3. CASE x \in {frontBlock, tailBlock}
    <3>1. x[1] \in {"frontBlock", "tailBlock"} /\ x[1] \notin {"front", "tail"}
      BY <2>3 DEF frontBlock, tailBlock
    <3>2. v[x] = 1
      BY <3>1, <2>1, <1>3
    <3> QED BY <3>1, <3>2, <1>2 DEF ValuesOf
  <2>4. ASSUME NEW b \in Blocks, x = next(b) PROVE v[x] \in ValuesOf(x) /\ v[x] \in Int
    <3>1. x[1] = "next" /\ x[2] = b /\ b \in Nat /\ b >= 1
      BY <2>4 DEF next, Blocks
    <3>2. v[x] = IF b > n THEN NoBlock ELSE (b % n) + 1
      BY <3>1, <2>1, <1>3
    <3>3. b % n \in 0..n-1
      BY <3>1, <1>2
    <3>4. v[x] = NoBlock \/ v[x] \in 1..n
      BY <3>2, <3>3, <1>2
    <3>5. v[x] \in {NoBlock} \cup Blocks
      BY <3>4, <1>2
    <3>6. v[x] \in Int
      BY <3>4, <1>2 DEF NoBlock
    <3> QED BY <3>1, <3>5, <3>6 DEF ValuesOf
  <2>5. \/ x[1] \in {"front", "tail"} \/ x \in {frontBlock, tailBlock}
        \/ \E b \in Blocks : x = next(b)
    BY <2>1 DEF Atomics, next
  <2> QED BY <2>2, <2>3, <2>4, <2>5
<1>9. \A x \in Atomics : /\ Depth(m, x) = 1 /\ Val(m, x, 1) = v[x] /\ Own(m, x) = v[x]
                         /\ Sto(m, x, 1) = 0 /\ Rel(m, x, 1) = 0
                         /\ m.visible[x] \in Seq(MessageType)
  <2>1. TAKE x \in Atomics
  <2>2. m.visible[x] = <<[value |-> v[x], store |-> 0, release |-> 0]>>
    BY <2>1, <1>7
  <2>3. [value |-> v[x], store |-> 0, release |-> 0] \in MessageType
    BY <2>1, <1>8 DEF MessageType
  <2> QED BY <2>2, <2>3 DEF Depth, Val, Own, Sto, Rel
<1>10. \A p \in Plain : m.plain[p].value = Raw /\ m.plain[p].write = 0 /\ m.plain[p].by = w
  BY <1>7
<1>11. \A t \in Threads : /\ m.writes[t] = 0 /\ m.released[t] = 0
                          /\ m.promised[t] = 0 /\ m.acquired[t] = 0
  BY <1>7
<1>12. MemoryOK(m)
  <2>1. m \in [visible : [Atomics -> Seq(MessageType)],
            plain : [Plain -> [value : Int, by : Threads, write : Nat]],
            writes : [Threads -> Nat], released : [Threads -> Nat],
            promised : [Threads -> Nat], acquired : [Threads -> Nat],
            raced : BOOLEAN]
    <3>1. m.visible \in [Atomics -> Seq(MessageType)]
      BY <1>7, <1>9
    <3>2. m.plain \in [Plain -> [value : Int, by : Threads, write : Nat]]
      BY <1>5, <1>7 DEF Raw
    <3>3. /\ m.writes \in [Threads -> Nat] /\ m.released \in [Threads -> Nat]
          /\ m.promised \in [Threads -> Nat] /\ m.acquired \in [Threads -> Nat] /\ m.raced \in BOOLEAN
      BY <1>7
    <3> QED BY <1>7, <3>1, <3>2, <3>3
  <2>2. \A t \in Threads : /\ m.released[t] <= m.writes[t]
                           /\ m.acquired[t] <= m.writes[Other(t)]
                           /\ m.promised[t] <= m.writes[Other(t)]
    BY <1>11, ThreadFacts
  <2>3. \A x \in Atomics :
       /\ Depth(m, x) >= 1
       /\ \A i \in 1..Depth(m, x) :
            /\ Sto(m, x, i) <= m.writes[WriterOf(x)]
            /\ Rel(m, x, i) <= m.writes[WriterOf(x)]
            /\ i >= 2 => Sto(m, x, i) > Acq(m, Other(WriterOf(x)))
    BY <1>9, <1>11, ThreadFacts
  <2>4. \A p \in Plain : m.plain[p].write <= m.writes[m.plain[p].by]
    BY <1>5, <1>10, <1>11
  <2>5. ValuesOK(m)
    BY <1>2, <1>8, <1>9, <1>10 DEF ValuesOK, Raw
  <2> QED BY <2>1, <2>2, <2>3, <2>4, <2>5 DEF MemoryOK
<1>13. \A b \in Blocks : /\ Own(m, front(b)) = 0 /\ Own(m, tail(b)) = 0
                         /\ \A s \in Slots \cup {Members} : Wri(m, b, s) = 0 /\ El(m, b, s) = Raw
  <2>1. TAKE b \in Blocks
  <2>2. /\ front(b) \in Atomics /\ tail(b) \in Atomics
        /\ \A s \in Slots \cup {Members} : slot(b, s) \in Plain
    BY <2>1, AtomicFacts
  <2>3. v[front(b)] = 0 /\ v[tail(b)] = 0
    BY <2>2, <1>3 DEF front, tail
  <2> QED BY <2>2, <2>3, <1>9, <1>10 DEF Wri, El
<1>14. Own(m, frontBlock) = 1 /\ Own(m, tailBlock) = 1
  <2>1. v[frontBlock] = 1 /\ v[tailBlock] = 1
    BY <1>3, AtomicFacts DEF frontBlock, tailBlock
  <2> QED BY <2>1, <1>9, AtomicFacts
<1>15. \A b \in 1..n : Own(m, next(b)) = IF b = n THEN 1 ELSE b + 1
  <2>1. TAKE b \in 1..n
  <2>2. b \in Blocks /\ b \in Nat /\ b >= 1 /\ b <= n /\ next(b) \in Atomics
    BY <2>1, <1>2, AtomicFacts
  <2>3. v[next(b)] = (b % n) + 1
    BY <2>2, <1>2, <1>3 DEF next
  <2>4. b % n = IF b = n THEN 0 ELSE b
    BY <2>2, <1>2
  <2> QED BY <2>2, <2>3, <2>4, <1>9
<1>16. ~m.raced
  BY <1>7
<1> QED BY <1>1, <1>6, <1>9, <1>11, <1>12, <1>13, <1>14, <1>15, <1>16 DEF Initially, Acq

\* The constructor establishes the invariant: a ring that ends with block 1,
\* where both threads are, and no elements.
LEMMA InitInv ==
  ASSUME Init
  PROVE  IInv
<1>1. PICK n, mask : n = InitialBlockCount /\ mask = InitialBlockSize - 1
  OBVIOUS
<1>2. /\ n \in Nat /\ n >= 1 /\ HeapBlocks \in Nat /\ n <= HeapBlocks /\ n \in Blocks
      /\ 0 \in Slots /\ mask \in Slots /\ mask \in Nat /\ mask >= 1 /\ mask < SlotBound
      /\ 1..n \subseteq Blocks /\ \A b \in n+1..HeapBlocks : b \in Blocks /\ b > n
      /\ InitialBlockSize \in Nat /\ InitialBlockSize >= 2 /\ InitialBlockSize <= SlotBound
  BY <1>1, SizesPositive DEF Blocks, Slots
<1>3. PICK m, masks : m = memory /\ masks = sizeMask
  OBVIOUS
<1>4. Initially(m, n)
  BY <1>1, <1>3, ConstructedIs
<1>5. /\ allocated = n /\ received = 0 /\ sent = 0 /\ ppc = "idle" /\ cpc = "idle" /\ cb = 1
      /\ \A b \in 1..n : masks[b] = mask
      /\ \A b \in Blocks : localFront[b] = 0 /\ localTail[b] = 0
  BY <1>1, <1>2, <1>3 DEF Init
<1>6. Sizes
  <2>1. \E j \in Nat : InitialBlockSize = 2^j
    BY Sizing, PowerIsCardinality DEF InitialBlockSize
  <2>2. largestBlockSize = InitialBlockSize
    BY DEF Init
  <2>3. sizeMask \in [Blocks -> Slots] /\ localFront \in [Blocks -> Slots] /\ localTail \in [Blocks -> Slots]
    BY <1>1, <1>2 DEF Init
  <2> QED BY <1>2, <1>5, <2>1, <2>2, <2>3 DEF Sizes
<1>7. Controls
  <2>1. pmode = "none" /\ cop = "none" /\ cret = Raw /\ assertion = "ok"
    BY DEF Init
  <2>2. ~memory.raced
    BY <1>3, <1>4 DEF Initially
  <2>3. MaxElements \in Nat
    BY OpsAssumption
  <2>4. cret \in 0..MaxElements /\ sent \in 0..MaxElements /\ cb \in 1..allocated
    BY <2>1, <2>3, <1>2, <1>5 DEF Raw
  <2>5. InOrderDespiteStaleLoads
    BY <2>1 DEF InOrderDespiteStaleLoads
  <2> QED BY <2>1, <2>2, <2>4, <2>5, <1>5 DEF Controls
<1>8. PICK ring : ring = [i \in 1..n |-> IF i = n THEN 1 ELSE i + 1]
  OBVIOUS
<1>9. PICK start : start = [i \in 1..n+1 |-> 1]
  OBVIOUS
<1>10. /\ ring \in Seq(1..n) /\ Len(ring) = n
       /\ \A i \in 1..n : ring[i] = (IF i = n THEN 1 ELSE i + 1) /\ ring[i] \in 1..n /\ ring[i] \in Blocks
       /\ \A i, j \in 1..n : ring[i] = ring[j] => i = j
       /\ n \in 1..n /\ ring[n] = 1
  BY <1>2, <1>8
<1>11. \A b \in Blocks : Fresh(m, b)
  <2>1. TAKE b \in Blocks
  <2>2. front(b) \in Atomics /\ tail(b) \in Atomics /\ next(b) \in Atomics
    BY <2>1, AtomicFacts
  <2> QED BY <2>1, <2>2, <1>4 DEF Initially, Fresh
<1>12. \A b \in 1..n : Block(m, masks, b) /\ F(m, b) = 0 /\ T(m, b) = 0
  <2>1. MemoryOK(m)
    BY <1>4 DEF Initially
  <2> QED BY <2>1, <1>2, <1>5, <1>11, BlockFresh
<1>13. Ring(m, n, ring, n)
  <2>1. \A i \in 1..n : Own(m, next(ring[i])) = ring[IF i = n THEN 1 ELSE i + 1]
    <3>1. TAKE i \in 1..n
    <3>2. Own(m, next(ring[i])) = IF ring[i] = n THEN 1 ELSE ring[i] + 1
      BY <3>1, <1>4, <1>10 DEF Initially
    <3> QED BY <3>1, <3>2, <1>2, <1>10
  <2> QED BY <2>1, <1>2, <1>4, <1>10 DEF Ring, Initially
<1>14. Elements(m, masks, ring, n, start, 0, 0)
  <2>1. \A i \in 1..n : Span(F(m, ring[i]), T(m, ring[i]), masks[ring[i]]) = 0
    BY <1>10, <1>12 DEF Span
  <2>2. \A i \in 1..n : \A s \in 0..masks[ring[i]] : ~(Span(F(m, ring[i]), s, masks[ring[i]]) < 0)
    BY <1>2, <1>5, <1>10, <1>12 DEF Span
  <2>3. start \in [1..n+1 -> Nat] /\ \A i \in 1..n+1 : start[i] = 1
    BY <1>9
  <2> QED BY <2>1, <2>2, <2>3, <1>2, <1>10 DEF Elements
<1>15. TailBlocks(m, masks, ring, n)
  BY <1>2, <1>4, <1>10, AtomicFacts DEF TailBlocks, Initially
<1>16. FrontBlocks(m, ring, n)
  <2>1. /\ \A i \in 1..Depth(m, frontBlock) : Val(m, frontBlock, i) = ring[n]
        /\ \A q \in 1..n : Last(m, front(ring[q])) = 0
        /\ \A i \in 1..Depth(m, frontBlock) : Upto(m, P, frontBlock, i) = 0
    <3>1. \A i \in 1..Depth(m, frontBlock) : Val(m, frontBlock, i) = ring[n] /\ Upto(m, P, frontBlock, i) = 0
      BY <1>4, <1>10, AtomicFacts, ThreadFacts DEF Initially, Upto
    <3>2. \A q \in 1..n : Last(m, front(ring[q])) = 0
      BY <1>4, <1>10, AtomicFacts DEF Initially, Last
    <3> QED BY <3>1, <3>2
  <2> QED BY <2>1, <1>2, <1>10, SMTT(30) DEF FrontBlocks
<1>17. Queue(m, masks, n, ring, n, start, 0, 0)
  <2>1. \A i \in 1..n : Wri(m, ring[i], Members) <= Acq(m, C)
    BY <1>4, <1>10, ThreadFacts DEF Initially
  <2>2. \A b \in n+1..HeapBlocks : Fresh(m, b)
    BY <1>2, <1>11
  <2>3. MemoryOK(m)
    BY <1>4 DEF Initially
  <2> QED BY <2>1, <2>2, <2>3, <1>12, <1>13, <1>14, <1>15, <1>16 DEF Queue
<1>18. LocalTailOK(m, masks, 1, 0)
  <2>1. MemoryOK(m) /\ Indices(m, masks, 1) /\ 1 \in Blocks /\ F(m, 1) = 0
    BY <1>2, <1>4, <1>12 DEF Initially, Block
  <2> QED BY <2>1, LocalTailEmpty
<1>19. LocalFrontOK(m, masks, 1, 0)
  <2>1. /\ masks[1] = mask /\ T(m, 1) = 0 /\ 1 \in Blocks
    BY <1>2, <1>5, <1>12
  <2>2. \A i \in 1..Depth(m, front(1)) : Val(m, front(1), i) = 0
    BY <2>1, <1>4, AtomicFacts DEF Initially
  <2>3. \A s \in 0..mask : s \in Slots
    BY <1>2, SizesPositive DEF Slots
  <2>4. \A s \in 0..mask : Wri(m, 1, s) <= Acq(m, P)
    BY <2>1, <2>3, <1>4, ThreadFacts DEF Initially
  <2> QED BY <2>1, <2>2, <2>4, <1>2 DEF LocalFrontOK, Span
<1>20. Shape(ring, n, start)
  <2>1. /\ ProducerAt(m, ring, n, ppc) /\ ConsumerAt(m, masks, ring, n, cpc, cb)
    BY <1>5 DEF ProducerAt, ConsumerAt
  <2>2. localTail[ring[n]] = 0 /\ localFront[ring[Len(ring)]] = 0 /\ ring[n] = 1 /\ ring[Len(ring)] = 1
    BY <1>5, <1>10
  <2> QED BY <2>1, <2>2, <1>3, <1>5, <1>17, <1>18, <1>19 DEF Shape, Shaped
<1> QED BY <1>6, <1>7, <1>20 DEF IInv

-----------------------------------------------------------------------------
(* The invariant and what follows from it *)

\* Every step keeps the invariant.
LEMMA IInvKept == IInv /\ [Next]_vars => IInv'
<1> SUFFICES ASSUME IInv, [Next]_vars PROVE IInv'
  OBVIOUS
<1>1. ASSUME NEW op \in ProducerOps, EnqueueCall(op) PROVE IInv'
  BY <1>1, EnqueueCallKeeps
<1>2. CASE EnqueueLoadFront
  BY <1>2, EnqueueLoadFrontKeeps
<1>3. CASE EnqueueLoadFrontBlock
  BY <1>3, EnqueueLoadFrontBlockKeeps
<1>4. CASE EnqueueLoadNextFront
  BY <1>4, EnqueueLoadNextFrontKeeps
<1>5. ASSUME NEW op \in ConsumerOps, DequeueCall(op) PROVE IInv'
  BY <1>5, DequeueCallKeeps
<1>6. CASE DequeueLoadTail
  BY <1>6, DequeueLoadTailKeeps
<1>7. CASE DequeueLoadTailBlock
  BY <1>7, DequeueLoadTailBlockKeeps
<1>8. CASE DequeueLoadTailAgain
  BY <1>8, DequeueLoadTailAgainKeeps
<1>9. CASE DequeueLoadNext
  BY <1>9, DequeueLoadNextKeeps
<1>10. CASE DequeueLoadNextTail
  BY <1>10, DequeueLoadNextTailKeeps
<1>11. CASE UNCHANGED vars
  BY <1>11 DEF vars, prodVars, consVars, IInv, Sizes, Controls, InOrderDespiteStaleLoads, Shape
<1> QED BY <1>1, <1>2, <1>3, <1>4, <1>5, <1>6, <1>7, <1>8, <1>9, <1>10, <1>11 DEF Next, Enqueue, Dequeue

\* Whatever old values the loads deliver, the queue keeps its shape.
THEOREM InvariantHolds == Spec => []IInv
<1>1. Init => IInv
  BY InitInv
<1> QED BY <1>1, IInvKept, PTL DEF Spec

\* The fences order every access to a slot or to a new block after the other
\* thread's accesses, for any sizes, operations and number of elements.
THEOREM RacesNever == Spec => []NoDataRace
<1>1. IInv => NoDataRace
  BY DEF IInv, Controls, NoDataRace
<1> QED BY <1>1, InvariantHolds, PTL

\* The consumer gets the elements in order, each exactly once.
THEOREM ArrivesInOrder == Spec => []InOrderDespiteStaleLoads
<1>1. IInv => InOrderDespiteStaleLoads
  BY DEF IInv, Controls
<1> QED BY <1>1, InvariantHolds, PTL

\* No element is overwritten, and the block that a thread enters is as the
\* assertions of the code expect (lines 272, 337, 479).
THEOREM AssertionsNeverFail == Spec => []AssertionsDespiteStaleLoads
<1>1. IInv => AssertionsDespiteStaleLoads
  BY DEF IInv, Controls, AssertionsDespiteStaleLoads
<1> QED BY <1>1, InvariantHolds, PTL

\* The variables have their types, and what a thread knows of the other one's
\* writes has been written.
THEOREM TypeCorrect == Spec => []TypeOK
<1>1. IInv => TypeOK
  <2> SUFFICES ASSUME IInv PROVE TypeOK
    OBVIOUS
  <2>1. Sizes /\ Controls
    BY DEF IInv
  <2>2. PICK ring, k, start : Queue(memory, sizeMask, allocated, ring, k, start, received, sent)
    BY DEF IInv, Shape, Shaped
  <2>3. /\ MemoryOK(memory) /\ ValuesOK(memory) /\ allocated \in Nat /\ allocated <= HeapBlocks
    BY <2>2 DEF Queue, Ring, MemoryOK
  <2>4. PICK m : m = memory
    OBVIOUS
  <2>5. \A x \in Atomics : memory.visible[x] \in Seq(Messages(x)) \ {<<>>}
    <3>1. TAKE x \in Atomics
    <3>2. /\ m.visible[x] \in Seq(MessageType) /\ Len(m.visible[x]) \in Nat /\ Len(m.visible[x]) >= 1
          /\ \A i \in 1..Len(m.visible[x]) : m.visible[x][i].value \in ValuesOf(x)
      BY <3>1, <2>3, <2>4, MemoryFacts DEF ValuesOK, Depth, Val, MemoryOK
    <3>3. \A i \in 1..Len(m.visible[x]) : m.visible[x][i] \in Messages(x)
      <4>1. TAKE i \in 1..Len(m.visible[x])
      <4>2. m.visible[x][i] \in MessageType
        BY <4>1, <3>2
      <4> QED BY <4>1, <4>2, <3>2 DEF MessageType, Messages, ValuesOf
    <3>4. m.visible[x] \in Seq(Messages(x))
      BY <3>2, <3>3
    <3> QED BY <2>4, <3>2, <3>4
  <2>6. \A p \in Plain : memory.plain[p] \in [value : 0..MaxElements, by : Threads, write : Nat]
    BY <2>3 DEF MemoryOK, ValuesOK
  <2>7. \A t \in Threads :
       /\ memory.released[t] \in 0..memory.writes[t]
       /\ {memory.acquired[t], memory.promised[t]}
            \subseteq 0..memory.writes[CHOOSE u \in Threads : u # t]
    <3>1. TAKE t \in Threads
    <3>2. (CHOOSE u \in Threads : u # t) = Other(t)
      BY <3>1 DEF Threads, Other, P, C
    <3>3. /\ m.released[t] \in Nat /\ m.acquired[t] \in Nat /\ m.promised[t] \in Nat
          /\ m.writes[t] \in Nat /\ m.writes[Other(t)] \in Nat
          /\ m.released[t] <= m.writes[t] /\ m.acquired[t] <= m.writes[Other(t)]
          /\ m.promised[t] <= m.writes[Other(t)]
      BY <3>1, <2>3, <2>4, ThreadFacts DEF MemoryOK
    <3>4. /\ m.released[t] \in 0..m.writes[t]
          /\ m.acquired[t] \in 0..m.writes[Other(t)] /\ m.promised[t] \in 0..m.writes[Other(t)]
      BY <3>3
    <3> QED BY <3>2, <3>4, <2>4
  <2>8. received \in 0..MaxElements
    <3>1. received \in Nat /\ sent \in Nat /\ received <= sent
      BY <2>2, FrontStart
    <3> QED BY <3>1, <2>1, OpsAssumption DEF Controls
  <2>9. largestBlockSize \in 1..SlotBound /\ SlotBound \in Nat
    BY <2>1, SizesPositive DEF Sizes
  <2>10. allocated \in Blocks /\ cb \in 0..allocated
    BY <2>1, <2>3, SizesPositive DEF Controls, Blocks
  <2>11. {localFront, localTail, sizeMask} \subseteq [Blocks -> Slots]
    BY <2>1 DEF Sizes
  <2> QED BY <2>1, <2>5, <2>6, <2>7, <2>8, <2>9, <2>10, <2>11 DEF Controls, TypeOK
<1> QED BY <1>1, InvariantHolds, PTL
=============================================================================
