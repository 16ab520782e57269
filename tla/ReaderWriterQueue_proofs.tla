---------------------- MODULE ReaderWriterQueue_proofs ----------------------
(***************************************************************************)
(* The safety properties of moodycamel::ReaderWriterQueue for any maxSize, *)
(* MAX_BLOCK_SIZE, number of blocks and number of elements; and that it    *)
(* implements SpscFifo.                                                    *)
(***************************************************************************)
EXTENDS ReaderWriterQueueFifo, SequenceTheorems, FiniteSetTheorems, TLAPS

\* Induction over a set of natural numbers
LEMMA NatSets ==
  ASSUME NEW P, 0 \in P, \A n \in Nat : n \in P => n + 1 \in P
  PROVE  \A n \in Nat : n \in P
<1> SUFFICES ASSUME NEW x \in Nat, x \notin P PROVE FALSE
  OBVIOUS
<1> DEFINE T == {n \in 0..x : \A m \in 0..n : m \in P}
           f == [n \in T |-> n + 1]
<1>1. IsFiniteSet(T)
  <2>1. IsFiniteSet(0..x)
    BY FS_Interval
  <2>2. T \in SUBSET (0..x)
    OBVIOUS
  <2> HIDE DEF T
  <2> QED BY <2>1, <2>2, FS_Subset
<1>2. 0 \in T
  OBVIOUS
<1>3. ASSUME NEW n \in T PROVE n + 1 \in T
  <2>1. n \in Nat /\ n <= x /\ n \in P /\ \A m \in 0..n : m \in P
    OBVIOUS
  <2>2. n + 1 \in P /\ n # x
    BY <2>1
  <2>3. \A m \in 0..n+1 : m \in 0..n \/ m = n + 1
    BY <2>1
  <2>4. n + 1 \in 0..x
    BY <2>1, <2>2
  <2> QED BY <2>1, <2>2, <2>3, <2>4
<1>4. f \in Injection(T, T \ {0})
  <2>1. f \in [T -> T \ {0}]
    BY <1>3
  <2>2. \A a, b \in T : f[a] = f[b] => a = b
    OBVIOUS
  <2> QED BY <2>1, <2>2 DEF Injection, IsInjective
<1> HIDE DEF T, f
<1>5. IsFiniteSet(T \ {0}) /\ Cardinality(T \ {0}) = Cardinality(T) - 1
  BY <1>1, <1>2, FS_RemoveElement
<1>6. Cardinality(T) <= Cardinality(T \ {0})
  BY <1>4, <1>5, FS_Injection
<1>7. Cardinality(T) \in Nat
  BY <1>1, FS_CardinalityType
<1> QED BY <1>5, <1>6, <1>7

\* A set of natural numbers has a least element.
LEMMA LeastNatural ==
  ASSUME NEW S \in SUBSET Nat, S # {}
  PROVE  \E m \in S : \A n \in S : m <= n
<1> SUFFICES ASSUME \A m \in S : \E n \in S : n < m PROVE FALSE
  OBVIOUS
<1> DEFINE P == {n \in Nat : \A m \in 0..n : m \notin S}
<1>1. 0 \in P
  OBVIOUS
<1>2. ASSUME NEW n \in Nat, n \in P PROVE n + 1 \in P
  <2>1. \A m \in 0..n : m \notin S
    BY <1>2
  <2>2. n + 1 \notin S
    BY <2>1
  <2>3. \A m \in 0..n+1 : m \in 0..n \/ m = n + 1
    OBVIOUS
  <2> QED BY <2>1, <2>2, <2>3
<1> HIDE DEF P
<1>3. \A n \in Nat : n \in P
  BY <1>1, <1>2, NatSets
<1>4. PICK n \in S : TRUE
  OBVIOUS
<1>5. n \in P /\ n \in 0..n
  BY <1>3
<1> QED BY <1>5 DEF P

-----------------------------------------------------------------------------
Power(k) == Cardinality(SUBSET (1..k))

\* 2^k counts the subsets of a set of k elements.
LEMMA PowerIsCardinality ==
  ASSUME NEW k \in Nat
  PROVE  IsFiniteSet(SUBSET (1..k)) /\ 2^k = Power(k) /\ Power(k) \in Nat
<1>1. IsFiniteSet(1..k) /\ Cardinality(1..k) = k
  BY FS_Interval
<1>2. IsFiniteSet(SUBSET (1..k)) /\ Cardinality(SUBSET (1..k)) = 2^k
  BY <1>1, FS_SUBSET
<1>3. Power(k) \in Nat
  BY <1>2, FS_CardinalityType DEF Power
<1> QED BY <1>2, <1>3 DEF Power

\* 2^k exceeds k: ceilToPow2 finds a power of two not far away.
LEMMA PowerAbove ==
  ASSUME NEW k \in Nat
  PROVE  Power(k) > k
<1> DEFINE f == [i \in 0..k |-> 1..i]
<1>1. f \in Injection(0..k, SUBSET (1..k))
  <2>1. \A i, j \in 0..k : i < j => f[i] # f[j]
    <3> SUFFICES ASSUME NEW i \in 0..k, NEW j \in 0..k, i < j PROVE f[i] # f[j]
      OBVIOUS
    <3>1. j \in f[j] /\ j \notin f[i]
      OBVIOUS
    <3> QED BY <3>1
  <2>2. \A i, j \in 0..k : f[i] = f[j] => i = j
    BY <2>1
  <2>3. f \in [0..k -> SUBSET (1..k)]
    OBVIOUS
  <2> QED BY <2>2, <2>3 DEF Injection, IsInjective
<1>2. Cardinality(0..k) = k + 1
  BY FS_Interval
<1>3. Cardinality(0..k) <= Power(k)
  BY <1>1, PowerIsCardinality, FS_Injection DEF Power
<1>4. Power(k) \in Nat
  BY PowerIsCardinality
<1> QED BY <1>2, <1>3, <1>4

\* 2^k grows with k.
LEMMA PowerMonotonic ==
  ASSUME NEW j \in Nat, NEW k \in Nat, j <= k
  PROVE  Power(j) <= Power(k)
<1>1. SUBSET (1..j) \in SUBSET (SUBSET (1..k))
  OBVIOUS
<1> QED BY <1>1, PowerIsCardinality, FS_Subset DEF Power

\* Doubling a power of two delivers the next one (enqueue, line 492).
LEMMA PowerDoubles ==
  ASSUME NEW k \in Nat
  PROVE  Power(k + 1) = 2 * Power(k)
<1> DEFINE A == SUBSET (1..k)
           B == {X \in SUBSET (1..k+1) : k + 1 \in X}
           f == [X \in A |-> X \cup {k + 1}]
<1>1. SUBSET (1..k+1) = A \cup B /\ A \cap B = {}
  <2>1. 1..k+1 = 1..k \cup {k+1} /\ k + 1 \notin 1..k
    OBVIOUS
  <2> QED BY <2>1
<1>2. f \in Bijection(A, B)
  <2>1. 1..k+1 = 1..k \cup {k+1} /\ k + 1 \notin 1..k
    OBVIOUS
  <2>2. f \in [A -> B]
    BY <2>1
  <2>3. \A X, Y \in A : f[X] = f[Y] => X = Y
    BY <2>1
  <2>4. \A Y \in B : Y \ {k+1} \in A /\ f[Y \ {k+1}] = Y
    BY <2>1
  <2> QED BY <2>2, <2>3, <2>4 DEF Bijection, Injection, Surjection, IsInjective
<1>3. IsFiniteSet(A) /\ Cardinality(A) = Power(k) /\ Power(k) \in Nat
  BY PowerIsCardinality DEF Power
<1> HIDE DEF A, B, f
<1>4. IsFiniteSet(B) /\ Cardinality(B) = Cardinality(A)
  BY <1>2, <1>3, FS_Bijection DEF ExistsBijection
<1>5. Cardinality(A \cup B) = Cardinality(A) + Cardinality(B) - Cardinality(A \cap B)
  BY <1>3, <1>4, FS_Union
<1>6. Cardinality(A \cap B) = 0
  BY <1>1, FS_EmptySet
<1>7. Power(k + 1) = Cardinality(A \cup B)
  BY <1>1 DEF Power
<1> QED BY <1>3, <1>4, <1>5, <1>6, <1>7

-----------------------------------------------------------------------------
\* ceilToPow2 (lines 539-551) delivers a power of two that is at least its argument.
LEMMA CeilToPow2Is ==
  ASSUME NEW x \in Nat
  PROVE  \E k \in Nat : CeilToPow2(x) = Power(k) /\ Power(k) >= x
<1> DEFINE Powers == {2^k : k \in 0..x}
           Q == {p \in Powers : p >= x}
<1>1. \A p \in Powers : p \in Nat /\ \E k \in Nat : p = Power(k)
  <2> SUFFICES ASSUME NEW k \in 0..x PROVE 2^k \in Nat /\ \E j \in Nat : 2^k = Power(j)
    OBVIOUS
  <2>1. k \in Nat
    OBVIOUS
  <2>2. 2^k = Power(k) /\ Power(k) \in Nat
    BY <2>1, PowerIsCardinality
  <2> QED BY <2>1, <2>2
<1>2. Power(x) \in Q
  <2>1. x \in 0..x
    OBVIOUS
  <2>2. 2^x = Power(x) /\ Power(x) \in Nat /\ Power(x) > x
    BY PowerIsCardinality, PowerAbove
  <2>3. Power(x) \in Powers
    BY <2>1, <2>2
  <2> HIDE DEF Powers
  <2> QED BY <2>2, <2>3
<1>3. Q \subseteq Nat /\ Q # {}
  BY <1>1, <1>2
<1>4. PICK m \in Q : \A n \in Q : m <= n
  BY <1>3, LeastNatural
<1>5. \E p \in Powers : p >= x /\ \A q \in Powers : q >= x => p <= q
  BY <1>4
<1>6. CeilToPow2(x) \in Powers /\ CeilToPow2(x) >= x
  BY <1>5 DEF CeilToPow2
<1> QED BY <1>1, <1>6

\* What the division in the constructor (line 99) leaves
LEMMA Quotient ==
  ASSUME NEW a \in Nat, NEW b \in Nat, b >= 1
  PROVE  a \div b \in Nat /\ b * (a \div b) <= a /\ a < b * (a \div b) + b
OBVIOUS

\* The size computed for a single block is a power of two with a spare slot, and
\* MAX_BLOCK_SIZE is a power of two (lines 87-92).
LEMMA Sizing ==
  /\ \E k \in Nat : OneBlockSize = Power(k)
  /\ OneBlockSize \in Nat /\ OneBlockSize >= MaxSize + 1
  /\ \E k \in Nat : MAX_BLOCK_SIZE = Power(k)
<1>1. MaxSize + 1 \in Nat
  BY SizeAssumption
<1>2. PICK k \in Nat : OneBlockSize = Power(k) /\ Power(k) >= MaxSize + 1
  BY <1>1, CeilToPow2Is DEF OneBlockSize
<1>3. Power(k) \in Nat
  BY PowerIsCardinality
<1>4. \E j \in Nat : MAX_BLOCK_SIZE = Power(j)
  <2>1. PICK j \in 0..MAX_BLOCK_SIZE : MAX_BLOCK_SIZE = 2^j
    BY SizeAssumption
  <2>2. j \in Nat
    BY SizeAssumption
  <2> QED BY <2>1, <2>2, PowerIsCardinality
<1> QED BY <1>2, <1>3, <1>4

\* The constructor makes at least one block, of at least two slots and of no
\* more than SlotBound.
LEMMA SizesPositive == /\ InitialBlockSize \in Nat /\ InitialBlockSize >= 2
                       /\ InitialBlockCount \in Nat /\ InitialBlockCount >= 1
                       /\ SlotBound \in Nat /\ SlotBound >= InitialBlockSize
                       /\ SlotBound >= MAX_BLOCK_SIZE
                       /\ HeapBlocks \in Nat /\ HeapBlocks >= InitialBlockCount
<1>1. /\ MaxSize \in Nat /\ MaxSize >= 1 /\ MAX_BLOCK_SIZE \in Nat /\ MAX_BLOCK_SIZE >= 2
      /\ HeapBlocks \in Nat /\ HeapBlocks >= InitialBlockCount
  BY SizeAssumption
<1>2. /\ InitialBlockSize \in Nat /\ InitialBlockSize >= 2
      /\ SlotBound \in Nat /\ SlotBound >= InitialBlockSize /\ SlotBound >= MAX_BLOCK_SIZE
  BY <1>1, Sizing DEF InitialBlockSize, SlotBound, SeveralBlocks
<1> DEFINE a == MaxSize + 2 * MAX_BLOCK_SIZE - 3
           b == MAX_BLOCK_SIZE - 1
<1>3. a \in Nat /\ b \in Nat /\ b >= 1 /\ a >= b
  BY <1>1
<1>4. a \div b \in Nat /\ a < b * (a \div b) + b
  BY <1>3, Quotient
<1>5. a \div b # 0
  <2> SUFFICES ASSUME a \div b = 0 PROVE FALSE
    OBVIOUS
  <2>1. b * (a \div b) = 0
    BY <1>3
  <2> QED BY <2>1, <1>3, <1>4
<1>6. InitialBlockCount = IF SeveralBlocks THEN a \div b ELSE 1
  BY DEF InitialBlockCount
<1> QED BY <1>1, <1>2, <1>4, <1>5, <1>6

\* The blocks the constructor makes hold maxSize elements: a single one with a
\* spare slot, or all but one of several.
LEMMA InitialCapacity ==
  /\ ~ SeveralBlocks => InitialBlockSize - 1 >= MaxSize
  /\ SeveralBlocks => InitialBlockCount >= 2 /\ (InitialBlockCount - 1) * (InitialBlockSize - 1) >= MaxSize
<1>1. /\ MaxSize \in Nat /\ MaxSize >= 1 /\ MAX_BLOCK_SIZE \in Nat /\ MAX_BLOCK_SIZE >= 2
  BY SizeAssumption
<1>2. ~ SeveralBlocks => InitialBlockSize - 1 >= MaxSize
  BY <1>1, Sizing DEF InitialBlockSize
<1> DEFINE a == MaxSize + 2 * MAX_BLOCK_SIZE - 3
           b == MAX_BLOCK_SIZE - 1
<1>3. a \in Nat /\ b \in Nat /\ b >= 1 /\ a = MaxSize + 2 * b - 1
  BY <1>1
<1>4. PICK q \in Nat : q = a \div b /\ a < b * q + b
  BY <1>3, Quotient
<1> HIDE DEF a, b
<1>5. (q - 1) * b = b * q - b
  BY <1>3
<1>6. (q - 1) * b >= MaxSize
  BY <1>1, <1>3, <1>4, <1>5
<1>7. q >= 2
  <2> SUFFICES ASSUME q = 0 \/ q = 1 PROVE FALSE
    BY <1>4
  <2>1. CASE q = 0
    <3>1. (q - 1) * b = 0 - b
      BY <2>1, <1>3
    <3> QED BY <3>1, <1>1, <1>3, <1>6
  <2>2. CASE q = 1
    <3>1. (q - 1) * b = 0
      BY <2>2, <1>3
    <3> QED BY <3>1, <1>1, <1>6
  <2> QED BY <2>1, <2>2
<1>8. SeveralBlocks => InitialBlockCount = q /\ InitialBlockSize - 1 = b
  BY <1>4 DEF InitialBlockCount, InitialBlockSize, a, b
<1> QED BY <1>2, <1>6, <1>7, <1>8

\* Doubling a block size below MAX_BLOCK_SIZE stays within it: both are powers of two.
LEMMA DoublingStaysBelow ==
  ASSUME NEW j \in Nat, 2^j < MAX_BLOCK_SIZE
  PROVE  2 * 2^j <= MAX_BLOCK_SIZE /\ 2 * 2^j = 2^(j + 1)
<1>1. PICK m \in Nat : MAX_BLOCK_SIZE = Power(m)
  BY Sizing
<1>2. 2^j = Power(j) /\ Power(j) \in Nat /\ 2^(j+1) = Power(j + 1) /\ Power(m) \in Nat
      /\ Power(j + 1) = 2 * Power(j) /\ Power(j + 1) \in Nat
  <2>1. j + 1 \in Nat
    OBVIOUS
  <2>2. 2^j = Power(j) /\ Power(j) \in Nat
    BY PowerIsCardinality
  <2>3. 2^(j+1) = Power(j + 1) /\ Power(j + 1) \in Nat
    BY <2>1, PowerIsCardinality
  <2>4. Power(m) \in Nat
    BY PowerIsCardinality
  <2>5. Power(j + 1) = 2 * Power(j)
    BY PowerDoubles
  <2> QED BY <2>2, <2>3, <2>4, <2>5
<1>3. ~ (m <= j)
  BY <1>1, <1>2, PowerMonotonic
<1>4. j + 1 <= m
  BY <1>3
<1>5. Power(j + 1) <= Power(m)
  BY <1>4, PowerMonotonic
<1> QED BY <1>1, <1>2, <1>5

-----------------------------------------------------------------------------
\* The number of elements between two indices of a block is 0 only when they are
\* equal, and the mask only when the slot after the second is the first.
LEMMA SpanRange ==
  ASSUME NEW m \in Nat, NEW f \in 0..m, NEW t \in 0..m
  PROVE  /\ Span(f, t, m) \in 0..m
         /\ Wrap(t, m) \in 0..m
         /\ f = t => Span(f, t, m) = 0
         /\ f # t => Span(f, t, m) > 0
         /\ Wrap(t, m) = f => Span(f, t, m) = m
         /\ Wrap(t, m) # f => Span(f, t, m) < m
BY DEF Span, Wrap

\* Advancing tail adds an element, advancing front takes one away, unless the
\* indices meet.
LEMMA SpanWrap ==
  ASSUME NEW m \in Nat, NEW f \in 0..m, NEW t \in 0..m
  PROVE  /\ Wrap(t, m) # f => Span(f, Wrap(t, m), m) = Span(f, t, m) + 1
         /\ f # t => Span(Wrap(f, m), t, m) = Span(f, t, m) - 1
         /\ Span(Wrap(f, m), f, m) = m
BY DEF Span, Wrap

\* Different slots are at different distances from front.
LEMMA SpanInjective ==
  ASSUME NEW m \in Nat, NEW f \in 0..m, NEW t \in 0..m, NEW i \in 0..m,
         Span(f, i, m) = Span(f, t, m)
  PROVE  i = t
BY DEF Span

-----------------------------------------------------------------------------
EnqueuePcs == {"refresh", "construct", "publish", "full", "nextFront",
               "nextConstruct", "nextTail", "alloc", "link", "advance"}
NextBlockPcs == EnqueuePcs \ {"refresh", "construct", "publish"}

\* The elements of block b; what the producer's copy of front and the
\* consumer's copy of tail make of them.
Count(b) == Span(front[b], tail[b], sizeMask[b])
ProducerCount(b) == Span(localFront[b], tail[b], sizeMask[b])
ConsumerCount(b) == Span(front[b], localTail[b], sizeMask[b])

\* How far slot i is behind the first element of block b
Off(b, i) == Span(front[b], i, sizeMask[b])

\* The blocks in the ring: all but one that enqueue has yet to link
LinkedCount == IF ppc = "link" THEN allocated - 1 ELSE allocated
Linked == 1..LinkedCount

Sizes ==
  /\ \E k \in Nat : largestBlockSize = 2^k
  /\ InitialBlockSize <= largestBlockSize
  /\ \A b \in 1..allocated : InitialBlockSize - 1 <= sizeMask[b]
  /\ InitialBlockCount <= LinkedCount

Indices ==
  \A b \in 1..allocated :
    /\ {front[b], tail[b], localFront[b], localTail[b]} \subseteq 0..sizeMask[b]
    /\ ConsumerCount(b) <= Count(b)
    /\ Count(b) <= ProducerCount(b)

\* pos numbers the blocks in the order of the ring, from frontBlock on.
Ring(pos) ==
  /\ pos \in [Blocks -> Nat]
  /\ \A b \in Linked :
       /\ pos[b] < LinkedCount
       /\ next[b] \in Linked
       /\ pos[next[b]] = IF pos[b] = LinkedCount - 1 THEN 0 ELSE pos[b] + 1
  /\ \A b, c \in Linked : pos[b] = pos[c] => b = c
  /\ frontBlock \in Linked /\ tailBlock \in Linked
  /\ pos[frontBlock] = 0
  /\ ppc = "link" => pnb = allocated /\ next[pnb] = next[tailBlock]

\* Blocks between the consumer's and the producer's are full, others empty.
Fill(pos) ==
  /\ \A b \in Linked \ {frontBlock} :
       /\ pos[b] < pos[tailBlock] => Count(b) = sizeMask[b]
       /\ pos[b] <= pos[tailBlock] => Count(b) > 0
  /\ \A b \in Linked :
       pos[b] > pos[tailBlock] /\ ~(ppc = "advance" /\ b = pnb) => Count(b) = 0

\* base[b] is the number of the oldest element of block b.
Chain(pos, base) ==
  /\ base \in [Blocks -> Nat]
  /\ base[frontBlock] = received + 1
  /\ base[tailBlock] + Count(tailBlock) = sent + 1
  /\ \A b \in Linked : pos[b] < pos[tailBlock] => base[next[b]] = base[b] + Count(b)
  /\ \A b, c \in Linked :
       pos[b] < pos[c] /\ pos[c] <= pos[tailBlock] => base[b] + Count(b) <= base[c]
  /\ ppc \in {"link", "advance"} => base[pnb] = sent + 1 /\ Count(pnb) = 1

Holds(b, i) ==
  /\ i \in 0..sizeMask[b] /\ Off(b, i) < Count(b)
  /\ ~ (cpc = "publish" /\ b = frontBlock /\ i = front[b])
Unpublished(b, i) ==
  \/ ppc = "publish" /\ b = tailBlock /\ i = tail[b]
  \/ ppc = "nextTail" /\ b = pnb /\ i = tail[b]

Contents(base) ==
  /\ alive => \A b \in 1..allocated, i \in Slots :
       /\ Holds(b, i) => data[b][i] = base[b] + Off(b, i)
       /\ ~ Holds(b, i) /\ Unpublished(b, i) => data[b][i] = sent + 1
       /\ ~ Holds(b, i) /\ ~ Unpublished(b, i) => data[b][i] = Raw
  /\ ~ alive => \A b \in 1..allocated, i \in Slots : data[b][i] = Raw
  /\ \A b \in Blocks \ 1..allocated, i \in Slots : data[b][i] = Raw

Producer ==
  /\ ppc \in EnqueuePcs => pmode # "none" /\ heldAtCall >= Held
  /\ ppc \in {"construct", "publish"} =>
       Wrap(tail[tailBlock], sizeMask[tailBlock]) # localFront[tailBlock]
  /\ ppc \in NextBlockPcs /\ tailBlock # frontBlock =>
       Count(tailBlock) = sizeMask[tailBlock]
  /\ ppc \in {"nextFront", "nextConstruct", "nextTail", "advance"} =>
       pnb = next[tailBlock] /\ pnb # frontBlock
  /\ ppc \in {"nextConstruct", "nextTail"} => localFront[pnb] = tail[pnb]
  /\ ppc = "full" => heldAtCall >= sizeMask[tailBlock]
  /\ ppc = "alloc" => heldAtCall >= MaxSize
  /\ pret = "refused" /\ ppc \notin EnqueuePcs => heldAtCall >= MaxSize

Consumer ==
  /\ cpc \in {"refresh", "checkTailBlock", "recheck", "readNext"} => cb = frontBlock
  /\ cpc \in {"recheck", "readNext", "readNextTail", "advance"} => frontBlock # tailBlock
  /\ cpc \in {"readNext", "readNextTail", "advance"} => Count(frontBlock) = 0
  /\ cpc \in {"readNextTail", "advance"} => cb = next[frontBlock]
  /\ cpc = "advance" => cop # "peek" /\ front[cb] # localTail[cb]
  /\ cpc = "take" =>
       /\ front[cb] # tail[cb]
       /\ \/ cb = frontBlock
          \/ /\ cop = "peek" /\ cb = next[frontBlock]
             /\ frontBlock # tailBlock /\ Count(frontBlock) = 0
       /\ cop # "peek" => front[cb] # localTail[cb]
  /\ cpc = "publish" =>
       cb = frontBlock /\ celem = received + 1 /\ front[cb] # localTail[cb]

Walk ==
  /\ \A t \in Threads : SizePc(t) \in {"size", "sizeNext"} => szBlock[t] \in Linked
  /\ ~ alive => ppc = "idle" /\ cpc = "idle"

Structure ==
  \E pos, base : Ring(pos) /\ Fill(pos) /\ Chain(pos, base) /\ Contents(base)

IInv == TypeOK /\ Sizes /\ Indices /\ Producer /\ Consumer /\ Walk /\ Structure


BlockFacts(b) ==
  /\ b \in Blocks
  /\ sizeMask[b] \in Slots /\ sizeMask[b] \in Nat /\ sizeMask[b] >= 1
  /\ 0..sizeMask[b] \subseteq Slots
  /\ front[b] \in 0..sizeMask[b] /\ tail[b] \in 0..sizeMask[b]
  /\ localFront[b] \in 0..sizeMask[b] /\ localTail[b] \in 0..sizeMask[b]
  /\ Count(b) \in 0..sizeMask[b]
  /\ ProducerCount(b) \in 0..sizeMask[b]
  /\ ConsumerCount(b) \in 0..sizeMask[b]
  /\ ConsumerCount(b) <= Count(b)
  /\ Count(b) <= ProducerCount(b)
  /\ front[b] = tail[b] => Count(b) = 0
  /\ front[b] # tail[b] => Count(b) > 0

\* Every block made so far has indices in range and counts that fit together.
LEMMA IndexFacts ==
  ASSUME TypeOK, Sizes, Indices
  PROVE  \A b \in 1..allocated : BlockFacts(b)
<1> SUFFICES ASSUME NEW b \in 1..allocated PROVE BlockFacts(b)
  OBVIOUS
<1>1. b \in Blocks
  BY SizesPositive, SMTT(30) DEF TypeOK, Blocks
<1>2. sizeMask[b] \in Slots
  BY <1>1 DEF TypeOK
<1>3. sizeMask[b] \in Nat /\ 0..sizeMask[b] \subseteq Slots
  BY <1>2, SizesPositive DEF Slots
<1>4. sizeMask[b] >= 1
  BY <1>3, SizesPositive DEF Sizes
<1>5. front[b] \in 0..sizeMask[b] /\ tail[b] \in 0..sizeMask[b] /\
      localFront[b] \in 0..sizeMask[b] /\ localTail[b] \in 0..sizeMask[b]
  BY DEF Indices
<1>6. /\ Count(b) \in 0..sizeMask[b]
      /\ front[b] = tail[b] => Count(b) = 0
      /\ front[b] # tail[b] => Count(b) > 0
  BY <1>3, <1>5, SpanRange DEF Count
<1>7. ProducerCount(b) \in 0..sizeMask[b] /\ ConsumerCount(b) \in 0..sizeMask[b]
  BY <1>3, <1>5, SpanRange DEF ProducerCount, ConsumerCount
<1>8. ConsumerCount(b) <= Count(b) /\ Count(b) <= ProducerCount(b)
  BY DEF Indices
<1> QED BY <1>1, <1>2, <1>3, <1>4, <1>5, <1>6, <1>7, <1>8 DEF BlockFacts

\* The slot at distance 0 from front is front, the one at distance Count is tail.
LEMMA OffFacts ==
  ASSUME NEW b, BlockFacts(b), NEW i \in 0..sizeMask[b]
  PROVE  /\ Off(b, i) \in 0..sizeMask[b]
         /\ Off(b, i) = Count(b) => i = tail[b]
         /\ Off(b, i) = 0 => i = front[b]
<1>1. Off(b, i) \in 0..sizeMask[b]
  BY SpanRange DEF BlockFacts, Off
<1>2. Off(b, i) = Count(b) => i = tail[b]
  BY SpanInjective DEF BlockFacts, Off, Count
<1>3. front[b] # i => Off(b, i) > 0
  BY SpanRange DEF BlockFacts, Off
<1> QED BY <1>1, <1>2, <1>3

\* tail is Count slots behind front.
LEMMA OffEnds ==
  ASSUME NEW b, BlockFacts(b)
  PROVE  Off(b, tail[b]) = Count(b) /\ Off(b, front[b]) = 0
BY SpanRange DEF BlockFacts, Off, Count

-----------------------------------------------------------------------------
(* The four ways in which a step moves an index *)

\* The producer puts an element into block c.
LEMMA TailMoves ==
  ASSUME TypeOK, Sizes, Indices, NEW c \in 1..allocated,
         Wrap(tail[c], sizeMask[c]) # localFront[c],
         tail' = [tail EXCEPT ![c] = Wrap(tail[c], sizeMask[c])],
         UNCHANGED <<front, localFront, localTail, sizeMask, allocated>>
  PROVE  /\ tail' \in [Blocks -> Slots]
         /\ Indices'
         /\ Count(c)' = Count(c) + 1
         /\ Count(c) < sizeMask[c]
         /\ tail'[c] = Wrap(tail[c], sizeMask[c])
         /\ tail'[c] # front[c]
         /\ \A b \in 1..allocated \ {c} : Count(b)' = Count(b) /\ tail'[b] = tail[b]
<1> DEFINE m == sizeMask[c]
           new == Wrap(tail[c], m)
<1>1. \A b \in 1..allocated : BlockFacts(b)
  BY IndexFacts
<1>2. BlockFacts(c)
  BY <1>1
<1>3. ProducerCount(c) < m
  BY <1>2, SpanRange DEF BlockFacts, ProducerCount
<1>4. Count(c) < m
  BY <1>2, <1>3 DEF BlockFacts
<1>5. new # front[c]
  <2>1. Span(front[c], tail[c], m) # m
    BY <1>2, <1>4 DEF BlockFacts, Count
  <2> QED BY <1>2, <2>1, SpanRange DEF BlockFacts
<1>6. new \in 0..m /\ new \in Slots
  BY <1>2, SpanRange DEF BlockFacts
<1>7. tail \in [Blocks -> Slots]
  BY DEF TypeOK
<1>8. tail' \in [Blocks -> Slots] /\ tail'[c] = new
  BY <1>2, <1>6, <1>7 DEF BlockFacts
<1>9. \A b \in 1..allocated \ {c} : tail'[b] = tail[b]
  BY <1>1, <1>7 DEF BlockFacts
<1>10. \A b \in 1..allocated \ {c} :
          Count(b)' = Count(b) /\ ProducerCount(b)' = ProducerCount(b)
  BY <1>9 DEF Count, ProducerCount
<1>11. Count(c)' = Count(c) + 1
  BY <1>2, <1>5, <1>8, SpanWrap DEF BlockFacts, Count
<1>12. ProducerCount(c)' = ProducerCount(c) + 1
  BY <1>2, <1>8, SpanWrap DEF BlockFacts, ProducerCount
<1>13. \A b \in 1..allocated : ConsumerCount(b)' = ConsumerCount(b)
  BY DEF ConsumerCount
<1>14. Indices'
  <2> SUFFICES ASSUME NEW b \in 1..allocated
      PROVE  /\ {front[b], tail'[b], localFront[b], localTail[b]} \subseteq 0..sizeMask[b]
             /\ ConsumerCount(b)' <= Count(b)'
             /\ Count(b)' <= ProducerCount(b)'
    BY DEF Indices
  <2>1. CASE b # c
    BY <2>1, <1>1, <1>9, <1>10, <1>13 DEF BlockFacts
  <2>2. CASE b = c
    BY <2>2, <1>2, <1>6, <1>8, <1>11, <1>12, <1>13 DEF BlockFacts
  <2> QED BY <2>1, <2>2
<1> QED BY <1>4, <1>5, <1>8, <1>9, <1>10, <1>11, <1>14

\* The consumer releases the first element of block c.
LEMMA FrontMoves ==
  ASSUME TypeOK, Sizes, Indices, NEW c \in 1..allocated,
         front[c] # localTail[c],
         front' = [front EXCEPT ![c] = Wrap(front[c], sizeMask[c])],
         UNCHANGED <<tail, localFront, localTail, sizeMask, allocated>>
  PROVE  /\ front' \in [Blocks -> Slots]
         /\ Indices'
         /\ Count(c)' = Count(c) - 1
         /\ Count(c) > 0
         /\ front'[c] = Wrap(front[c], sizeMask[c])
         /\ \A b \in 1..allocated \ {c} : Count(b)' = Count(b) /\ front'[b] = front[b]
<1> DEFINE m == sizeMask[c]
           new == Wrap(front[c], m)
<1>1. \A b \in 1..allocated : BlockFacts(b)
  BY IndexFacts
<1>2. BlockFacts(c)
  BY <1>1
<1>3. ConsumerCount(c) > 0
  BY <1>2, SpanRange DEF BlockFacts, ConsumerCount
<1>4. Count(c) > 0
  BY <1>2, <1>3 DEF BlockFacts
<1>5. front[c] # tail[c]
  BY <1>2, <1>4 DEF BlockFacts
<1>6. new \in 0..m /\ new \in Slots
  BY <1>2, SpanRange DEF BlockFacts
<1>7. front \in [Blocks -> Slots]
  BY DEF TypeOK
<1>8. front' \in [Blocks -> Slots] /\ front'[c] = new
  BY <1>2, <1>6, <1>7 DEF BlockFacts
<1>9. \A b \in 1..allocated \ {c} : front'[b] = front[b]
  BY <1>1, <1>7 DEF BlockFacts
<1>10. \A b \in 1..allocated \ {c} :
          Count(b)' = Count(b) /\ ConsumerCount(b)' = ConsumerCount(b)
  BY <1>9 DEF Count, ConsumerCount
<1>11. Count(c)' = Count(c) - 1
  BY <1>2, <1>5, <1>8, SpanWrap DEF BlockFacts, Count
<1>12. ConsumerCount(c)' = ConsumerCount(c) - 1
  BY <1>2, <1>8, SpanWrap DEF BlockFacts, ConsumerCount
<1>13. \A b \in 1..allocated : ProducerCount(b)' = ProducerCount(b)
  BY DEF ProducerCount
<1>14. Indices'
  <2> SUFFICES ASSUME NEW b \in 1..allocated
      PROVE  /\ {front'[b], tail[b], localFront[b], localTail[b]} \subseteq 0..sizeMask[b]
             /\ ConsumerCount(b)' <= Count(b)'
             /\ Count(b)' <= ProducerCount(b)'
    BY DEF Indices
  <2>1. CASE b # c
    BY <2>1, <1>1, <1>9, <1>10, <1>13 DEF BlockFacts
  <2>2. CASE b = c
    BY <2>2, <1>2, <1>6, <1>8, <1>11, <1>12, <1>13 DEF BlockFacts
  <2> QED BY <2>1, <2>2
<1> QED BY <1>4, <1>8, <1>9, <1>10, <1>11, <1>14

\* The producer takes a fresh copy of front.
LEMMA LocalFrontRefreshed ==
  ASSUME TypeOK, Sizes, Indices, NEW c \in 1..allocated,
         localFront' = [localFront EXCEPT ![c] = front[c]],
         UNCHANGED <<front, tail, localTail, sizeMask, allocated>>
  PROVE  /\ localFront' \in [Blocks -> Slots]
         /\ Indices'
         /\ localFront'[c] = front[c]
<1>1. \A b \in 1..allocated : BlockFacts(b)
  BY IndexFacts
<1>2. localFront \in [Blocks -> Slots] /\ front \in [Blocks -> Slots]
  BY DEF TypeOK
<1>3. localFront' \in [Blocks -> Slots] /\ localFront'[c] = front[c]
  BY <1>1, <1>2 DEF BlockFacts
<1>4. \A b \in 1..allocated \ {c} : localFront'[b] = localFront[b]
  BY <1>1, <1>2 DEF BlockFacts
<1>5. \A b \in 1..allocated : Count(b)' = Count(b) /\ ConsumerCount(b)' = ConsumerCount(b)
  BY DEF Count, ConsumerCount
<1>6. \A b \in 1..allocated \ {c} : ProducerCount(b)' = ProducerCount(b)
  BY <1>4 DEF ProducerCount
<1>7. ProducerCount(c)' = Count(c)
  BY <1>3 DEF ProducerCount, Count
<1>8. Indices'
  <2> SUFFICES ASSUME NEW b \in 1..allocated
      PROVE  /\ {front[b], tail[b], localFront'[b], localTail[b]} \subseteq 0..sizeMask[b]
             /\ ConsumerCount(b)' <= Count(b)'
             /\ Count(b)' <= ProducerCount(b)'
    BY DEF Indices
  <2>1. CASE b # c
    BY <2>1, <1>1, <1>4, <1>5, <1>6 DEF BlockFacts
  <2>2. CASE b = c
    BY <2>2, <1>1, <1>3, <1>5, <1>7 DEF BlockFacts
  <2> QED BY <2>1, <2>2
<1> QED BY <1>3, <1>8

\* The consumer takes a fresh copy of tail.
LEMMA LocalTailRefreshed ==
  ASSUME TypeOK, Sizes, Indices, NEW c \in 1..allocated,
         localTail' = [localTail EXCEPT ![c] = tail[c]],
         UNCHANGED <<front, tail, localFront, sizeMask, allocated>>
  PROVE  /\ localTail' \in [Blocks -> Slots]
         /\ Indices'
         /\ localTail'[c] = tail[c]
         /\ \A b \in 1..allocated \ {c} : localTail'[b] = localTail[b]
<1>1. \A b \in 1..allocated : BlockFacts(b)
  BY IndexFacts
<1>2. localTail \in [Blocks -> Slots] /\ tail \in [Blocks -> Slots]
  BY DEF TypeOK
<1>3. localTail' \in [Blocks -> Slots] /\ localTail'[c] = tail[c]
  BY <1>1, <1>2 DEF BlockFacts
<1>4. \A b \in 1..allocated \ {c} : localTail'[b] = localTail[b]
  BY <1>1, <1>2 DEF BlockFacts
<1>5. \A b \in 1..allocated : Count(b)' = Count(b) /\ ProducerCount(b)' = ProducerCount(b)
  BY DEF Count, ProducerCount
<1>6. \A b \in 1..allocated \ {c} : ConsumerCount(b)' = ConsumerCount(b)
  BY <1>4 DEF ConsumerCount
<1>7. ConsumerCount(c)' = Count(c)
  BY <1>3 DEF ConsumerCount, Count
<1>8. Indices'
  <2> SUFFICES ASSUME NEW b \in 1..allocated
      PROVE  /\ {front[b], tail[b], localFront[b], localTail'[b]} \subseteq 0..sizeMask[b]
             /\ ConsumerCount(b)' <= Count(b)'
             /\ Count(b)' <= ProducerCount(b)'
    BY DEF Indices
  <2>1. CASE b # c
    BY <2>1, <1>1, <1>4, <1>5, <1>6 DEF BlockFacts
  <2>2. CASE b = c
    BY <2>2, <1>1, <1>3, <1>5, <1>7 DEF BlockFacts
  <2> QED BY <2>1, <2>2
<1> QED BY <1>3, <1>4, <1>8

\* A step that moves no index keeps all counts.
LEMMA IndicesUnchanged ==
  ASSUME Indices, UNCHANGED <<front, tail, localFront, localTail, sizeMask, allocated>>
  PROVE  /\ Indices'
         /\ \A b \in 1..allocated : Count(b)' = Count(b)
BY DEF Indices, Count, ProducerCount, ConsumerCount

\* A step that leaves the blocks, their places in the ring and their contents
\* alone leaves Structure alone.
LEMMA StructureKept ==
  ASSUME Structure,
         UNCHANGED <<front, tail, sizeMask, next, allocated, frontBlock, tailBlock,
                     data, alive, sent, received>>,
         \/ ppc' = ppc /\ pnb' = pnb
         \/ {ppc, ppc'} \cap {"link", "advance", "publish", "nextTail"} = {},
         cpc' = cpc \/ {cpc, cpc'} \cap {"publish"} = {}
  PROVE  Structure'
<1>1. PICK pos, base : Ring(pos) /\ Fill(pos) /\ Chain(pos, base) /\ Contents(base)
  BY DEF Structure
<1>2. \A b : Count(b)' = Count(b)
  BY DEF Count
<1>3. Linked' = Linked /\ LinkedCount' = LinkedCount
  BY DEF Linked, LinkedCount
<1>4. Ring(pos)'
  BY <1>1, <1>3 DEF Ring
<1>5. Fill(pos)'
  BY <1>1, <1>2, <1>3 DEF Fill
<1>6. Chain(pos, base)'
  BY <1>1, <1>2, <1>3 DEF Chain
<1>7. \A b, i : Off(b, i)' = Off(b, i)
  BY DEF Off
<1>8. \A b, i : (Holds(b, i)' <=> Holds(b, i)) /\ (Unpublished(b, i)' <=> Unpublished(b, i))
  BY <1>2, <1>7 DEF Holds, Unpublished
<1>9. Contents(base)'
  BY <1>1, <1>7, <1>8 DEF Contents
<1> QED BY <1>4, <1>5, <1>6, <1>9 DEF Structure

-----------------------------------------------------------------------------
\* What every step can use of the state it starts in
LEMMA InvFacts ==
  ASSUME IInv
  PROVE  /\ frontBlock \in 1..allocated /\ tailBlock \in 1..allocated /\ cb \in 1..allocated
         /\ \A b \in 1..allocated : BlockFacts(b)
         /\ sent \in Nat /\ received \in Nat /\ heldAtCall \in Nat
         /\ allocated \in Nat /\ allocated \in Blocks
         /\ LinkedCount \in Nat /\ Linked \subseteq 1..allocated
         /\ frontBlock \in Linked /\ tailBlock \in Linked
         /\ \A b \in Linked : next[b] \in Linked
<1>1. \A b \in 1..allocated : BlockFacts(b)
  BY IndexFacts DEF IInv
<1>2. allocated \in Nat /\ allocated \in Blocks
  BY SizesPositive DEF IInv, TypeOK, Blocks
<1>3. LinkedCount \in Nat /\ Linked \subseteq 1..allocated
  BY <1>2 DEF IInv, TypeOK, Linked, LinkedCount, Blocks
<1>4. frontBlock \in Linked /\ tailBlock \in Linked /\ \A b \in Linked : next[b] \in Linked
  BY DEF IInv, Structure, Ring
<1> QED BY <1>1, <1>2, <1>3, <1>4 DEF IInv, TypeOK

\* Where the blocks after frontBlock and tailBlock are
LEMMA NextBlocks ==
  ASSUME IInv, NEW pos, Ring(pos), Fill(pos)
  PROVE  /\ \A b \in Linked : pos[b] \in Nat /\ (b # frontBlock => pos[b] > 0)
         /\ next[tailBlock] # frontBlock =>
              /\ pos[next[tailBlock]] = pos[tailBlock] + 1
              /\ next[tailBlock] # tailBlock
              /\ ppc # "advance" => Count(next[tailBlock]) = 0
         /\ frontBlock # tailBlock =>
              /\ pos[next[frontBlock]] = 1 /\ pos[tailBlock] >= 1
              /\ next[frontBlock] # frontBlock
              /\ Count(next[frontBlock]) > 0
<1>1. /\ frontBlock \in Linked /\ tailBlock \in Linked
      /\ next[tailBlock] \in Linked /\ next[frontBlock] \in Linked
  BY DEF Ring
<1>2. \A b \in Linked : pos[b] \in Nat
  BY InvFacts DEF Ring, BlockFacts
<1>3. \A b \in Linked : b # frontBlock => pos[b] > 0
  BY <1>1, <1>2 DEF Ring
<1>4. ASSUME next[tailBlock] # frontBlock
      PROVE  /\ pos[next[tailBlock]] = pos[tailBlock] + 1
             /\ next[tailBlock] # tailBlock
             /\ ppc # "advance" => Count(next[tailBlock]) = 0
  <2>1. pos[next[tailBlock]] > 0
    BY <1>1, <1>3, <1>4
  <2>2. pos[next[tailBlock]] = pos[tailBlock] + 1
    BY <1>1, <2>1 DEF Ring
  <2>3. pos[next[tailBlock]] > pos[tailBlock]
    BY <1>1, <1>2, <2>2
  <2> QED BY <1>1, <1>2, <2>2, <2>3 DEF Fill
<1>5. ASSUME frontBlock # tailBlock
      PROVE  /\ pos[next[frontBlock]] = 1 /\ pos[tailBlock] >= 1
             /\ next[frontBlock] # frontBlock
             /\ Count(next[frontBlock]) > 0
  <2>1. pos[tailBlock] >= 1
    BY <1>1, <1>2, <1>3, <1>5
  <2>2. pos[tailBlock] < LinkedCount /\ pos[frontBlock] = 0
    BY <1>1 DEF Ring
  <2>3. pos[next[frontBlock]] = 1
    BY <1>1, <1>2, <2>1, <2>2, InvFacts DEF Ring
  <2>4. next[frontBlock] # frontBlock
    BY <2>2, <2>3
  <2>5. Count(next[frontBlock]) > 0
    BY <1>1, <1>2, <2>1, <2>3, <2>4 DEF Fill
  <2> QED BY <2>1, <2>3, <2>4, <2>5
<1> QED BY <1>2, <1>3, <1>4, <1>5

\* What the numbers of the elements say about sent and received
LEMMA ChainFacts ==
  ASSUME IInv, NEW pos, NEW base, Ring(pos), Fill(pos), Chain(pos, base)
  PROVE  /\ \A b \in 1..allocated : base[b] \in Nat /\ pos[b] \in Nat /\ Count(b) \in Nat
         /\ \A b \in Linked : pos[b] <= pos[tailBlock] =>
              received + 1 <= base[b] /\ base[b] + Count(b) <= sent + 1
<1>1. \A b \in 1..allocated : base[b] \in Nat /\ pos[b] \in Nat /\ Count(b) \in Nat
  BY InvFacts DEF Ring, Chain, BlockFacts
<1>2. /\ Linked \subseteq 1..allocated /\ frontBlock \in Linked /\ tailBlock \in Linked
      /\ sent \in Nat /\ received \in Nat
  BY InvFacts
<1>3. ASSUME NEW b \in Linked, pos[b] <= pos[tailBlock]
      PROVE  received + 1 <= base[b]
  <2>1. CASE b = frontBlock
    BY <2>1, <1>1, <1>2 DEF Chain
  <2>2. CASE b # frontBlock
    <3>1. pos[frontBlock] < pos[b]
      BY <2>2, <1>1, <1>2, NextBlocks DEF Ring
    <3>2. base[frontBlock] + Count(frontBlock) <= base[b]
      BY <3>1, <1>2, <1>3 DEF Chain
    <3>3. base[frontBlock] = received + 1
      BY DEF Chain
    <3> QED BY <3>2, <3>3, <1>1, <1>2
  <2> QED BY <2>1, <2>2
<1>4. ASSUME NEW b \in Linked, pos[b] <= pos[tailBlock]
      PROVE  base[b] + Count(b) <= sent + 1
  <2>1. base[tailBlock] + Count(tailBlock) = sent + 1
    BY DEF Chain
  <2>2. CASE b = tailBlock
    BY <2>1, <2>2, <1>1, <1>2
  <2>3. CASE b # tailBlock
    <3>1. pos[b] < pos[tailBlock]
      BY <2>3, <1>1, <1>2, <1>4 DEF Ring
    <3>2. base[b] + Count(b) <= base[tailBlock]
      BY <3>1, <1>1, <1>2, <1>4 DEF Chain
    <3> QED BY <3>2, <2>1, <1>1, <1>2
  <2> QED BY <2>2, <2>3
<1> QED BY <1>1, <1>3, <1>4

\* What is published and not yet taken includes the contents of tailBlock, of
\* frontBlock and of the block after it.
LEMMA HeldFacts ==
  ASSUME IInv
  PROVE  /\ received <= sent /\ Held \in Nat
         /\ Count(tailBlock) <= Held
         /\ Count(frontBlock) <= Held
         /\ frontBlock # tailBlock => Count(next[frontBlock]) <= Held
<1>1. PICK pos, base : Ring(pos) /\ Fill(pos) /\ Chain(pos, base)
  BY DEF IInv, Structure
<1>2. /\ Linked \subseteq 1..allocated /\ frontBlock \in Linked /\ tailBlock \in Linked
      /\ sent \in Nat /\ received \in Nat /\ next[frontBlock] \in Linked
  BY InvFacts
<1>3. \A b \in 1..allocated : base[b] \in Nat /\ pos[b] \in Nat /\ Count(b) \in Nat
  BY <1>1, ChainFacts
<1>4. \A b \in Linked : pos[b] <= pos[tailBlock] => Count(b) <= sent - received
  <2> SUFFICES ASSUME NEW b \in Linked, pos[b] <= pos[tailBlock]
               PROVE  Count(b) <= sent - received
    OBVIOUS
  <2>1. received + 1 <= base[b] /\ base[b] + Count(b) <= sent + 1
    BY <1>1, ChainFacts
  <2> QED BY <2>1, <1>2, <1>3
<1>5. Count(tailBlock) <= Held /\ Count(frontBlock) <= Held
  BY <1>1, <1>2, <1>3, <1>4 DEF Ring, Held
<1>6. frontBlock # tailBlock => Count(next[frontBlock]) <= Held
  BY <1>1, <1>2, <1>3, <1>4, NextBlocks DEF Held
<1>7. received <= sent /\ Held \in Nat
  BY <1>2, <1>3, <1>5 DEF Held
<1> QED BY <1>5, <1>6, <1>7

-----------------------------------------------------------------------------
\* inner_enqueue looks at tail and its copy of front (lines 447-452).
LEMMA EnqueueCallInv ==
  ASSUME IInv, NEW op \in ProducerOps, EnqueueCall(op) PROVE IInv'
<1> USE DEF EnqueueCall, PUnchangedElse, consOwned, consLocal, sizeVars, prodOwned
<1>1. TypeOK'
  BY OpsAssumption, HeldFacts DEF IInv, TypeOK, ProducerPcs
<1>2. Sizes' /\ Indices'
  BY IndicesUnchanged DEF IInv, Sizes, LinkedCount
<1>3. Producer'
  BY OpsAssumption, InvFacts DEF Producer, EnqueuePcs, NextBlockPcs, Held, IInv
<1>4. Consumer'
  BY IndicesUnchanged, InvFacts DEF Consumer, IInv
<1>5. Walk'
  BY DEF Walk, IInv, SizePc, Linked, LinkedCount
<1>6. Structure'
  BY StructureKept DEF IInv
<1> QED BY <1>1, <1>2, <1>3, <1>4, <1>5, <1>6 DEF IInv

\* The size of the block that enqueue allocates (line 492) fits a block and is
\* a power of two again.
LEMMA Doubling ==
  ASSUME TypeOK, Sizes, NEW s,
         s = IF largestBlockSize >= MAX_BLOCK_SIZE THEN largestBlockSize ELSE 2 * largestBlockSize
  PROVE  /\ s \in 1..SlotBound /\ s >= 2 /\ s - 1 \in Slots /\ s - 1 \in Nat
         /\ 0..s - 1 \subseteq Slots
         /\ \E k \in Nat : s = 2^k
         /\ InitialBlockSize <= s
<1>1. PICK k \in Nat : largestBlockSize = 2^k
  BY DEF Sizes
<1>2. /\ largestBlockSize \in 1..SlotBound /\ InitialBlockSize <= largestBlockSize
      /\ InitialBlockSize >= 2 /\ InitialBlockSize \in Nat
      /\ SlotBound \in Nat /\ SlotBound >= MAX_BLOCK_SIZE /\ MAX_BLOCK_SIZE \in Nat
  BY SizesPositive, SizeAssumption DEF TypeOK, Sizes
<1>3. s \in 1..SlotBound /\ InitialBlockSize <= s /\ \E j \in Nat : s = 2^j
  <2>1. CASE largestBlockSize >= MAX_BLOCK_SIZE
    BY <2>1, <1>1, <1>2
  <2>2. CASE largestBlockSize < MAX_BLOCK_SIZE
    <3>1. 2 * 2^k <= MAX_BLOCK_SIZE /\ 2 * 2^k = 2^(k + 1)
      BY <2>2, <1>1, DoublingStaysBelow
    <3>2. s = 2 * largestBlockSize
      BY <2>2, <1>2
    <3>3. s = 2^(k + 1) /\ k + 1 \in Nat
      BY <3>1, <3>2, <1>1
    <3>4. s <= MAX_BLOCK_SIZE
      BY <3>1, <3>2, <1>1
    <3>5. s \in 1..SlotBound /\ InitialBlockSize <= s
      BY <3>2, <3>4, <1>2
    <3> QED BY <3>3, <3>5
  <2> QED BY <2>1, <2>2, <1>2
<1>4. s >= 2 /\ s - 1 \in Nat /\ s - 1 \in Slots /\ 0..s - 1 \subseteq Slots
  BY <1>2, <1>3 DEF Slots
<1> QED BY <1>3, <1>4

\* When the ring has no free block (line 463), it holds at least maxSize elements:
\* all its blocks but the one after the last are full.
LEMMA NoFreeBlock ==
  ASSUME IInv, ppc = "full", next[tailBlock] = frontBlock PROVE heldAtCall >= MaxSize
<1>1. PICK pos, base : Ring(pos) /\ Fill(pos) /\ Chain(pos, base)
  BY DEF IInv, Structure
<1>2. PICK g : g = InitialBlockSize - 1
  OBVIOUS
<1>3. PICK d : d = pos[tailBlock]
  OBVIOUS
<1>4. /\ frontBlock \in Linked /\ tailBlock \in Linked /\ Linked \subseteq 1..allocated
      /\ \A b \in Linked : next[b] \in Linked
      /\ sent \in Nat /\ received \in Nat /\ heldAtCall \in Nat /\ LinkedCount \in Nat
  BY InvFacts
<1>5. /\ g \in Nat /\ MaxSize \in Nat /\ InitialBlockCount \in Nat
      /\ InitialBlockCount <= LinkedCount
  BY <1>2, SizesPositive, SizeAssumption DEF IInv, Sizes
<1>6. \A b \in 1..allocated : sizeMask[b] >= g /\ sizeMask[b] \in Nat
  BY <1>2, InvFacts DEF IInv, Sizes, BlockFacts
<1>7. heldAtCall >= Held /\ heldAtCall >= sizeMask[tailBlock]
      /\ (tailBlock # frontBlock => Count(tailBlock) = sizeMask[tailBlock])
  BY DEF IInv, Producer, EnqueuePcs, NextBlockPcs
<1>8. CASE ~ SeveralBlocks
  <2>1. g >= MaxSize
    BY <1>8, <1>2, InitialCapacity
  <2>2. sizeMask[tailBlock] >= g /\ sizeMask[tailBlock] \in Nat
    BY <1>4, <1>6
  <2> QED BY <2>1, <2>2, <1>4, <1>5, <1>7
<1>9. CASE SeveralBlocks
  <2>1. InitialBlockCount >= 2 /\ (InitialBlockCount - 1) * g >= MaxSize
    BY <1>9, <1>2, InitialCapacity
  <2>2. d = LinkedCount - 1 /\ d \in Nat /\ d >= 1
    <3>1. pos[tailBlock] = LinkedCount - 1
      <4>1. pos[frontBlock] = 0
            /\ pos[next[tailBlock]] = IF pos[tailBlock] = LinkedCount - 1 THEN 0 ELSE pos[tailBlock] + 1
        BY <1>1, <1>4 DEF Ring
      <4>2. pos[tailBlock] \in Nat
        BY <1>1, <1>4, ChainFacts
      <4> QED BY <4>1, <4>2
    <3> QED BY <3>1, <2>1, <1>3, <1>4, <1>5
  <2>3. tailBlock # frontBlock
    BY <1>1, <1>3, <2>2 DEF Ring
  <2>4. \A b \in Linked : base[b] \in Nat /\ Count(b) \in Nat /\ pos[b] \in Nat
    BY <1>1, <1>4, ChainFacts
  <2>5. \A b \in Linked : pos[b] >= 1 /\ pos[b] <= d => Count(b) >= g
    <3> SUFFICES ASSUME NEW b \in Linked, pos[b] >= 1, pos[b] <= d PROVE Count(b) >= g
      OBVIOUS
    <3>1. b # frontBlock
      BY <1>1 DEF Ring
    <3>2. Count(b) = sizeMask[b]
      <4>1. CASE pos[b] < d
        BY <4>1, <3>1, <1>1, <1>3 DEF Fill
      <4>2. CASE pos[b] = d
        BY <4>2, <2>3, <1>1, <1>3, <1>4, <1>7 DEF Ring
      <4> QED BY <4>1, <4>2, <2>2, <2>4
    <3> QED BY <3>2, <1>4, <1>6
  <2> DEFINE P == {i \in Nat : i <= d => \E b \in Linked :
                     /\ pos[b] = i
                     /\ i >= 1 => base[b] + Count(b) >= received + 1 + i * g}
  <2>6. 0 \in P
    BY <1>1, <1>4 DEF Ring
  <2>7. \A i \in Nat : i \in P => i + 1 \in P
    <3> SUFFICES ASSUME NEW i \in Nat, i \in P, i + 1 <= d
                 PROVE  \E b \in Linked : /\ pos[b] = i + 1
                                          /\ base[b] + Count(b) >= received + 1 + (i + 1) * g
      OBVIOUS
    <3>1. PICK b \in Linked : /\ pos[b] = i
                              /\ i >= 1 => base[b] + Count(b) >= received + 1 + i * g
      BY <2>2
    <3>2. PICK c \in Linked : c = next[b]
      BY <1>4
    <3>3. pos[c] = i + 1
      BY <1>1, <2>2, <3>1, <3>2 DEF Ring
    <3>4. Count(c) >= g
      BY <2>5, <3>3, <2>2
    <3>5. base[c] = base[b] + Count(b)
      BY <1>1, <1>3, <2>2, <3>1, <3>2 DEF Chain
    <3>6. received + 1 <= base[c]
      BY <1>1, <1>3, <3>3, ChainFacts
    <3>7. (i + 1) * g = i * g + g /\ i * g \in Nat /\ (i = 0 => i * g = 0)
      BY <1>5
    <3>8. base[c] \in Nat /\ Count(c) \in Nat
      BY <2>4
    <3>9. base[c] >= received + 1 + i * g
      BY <3>1, <3>5, <3>6, <3>7, <3>8, <1>4
    <3>10. base[c] + Count(c) >= received + 1 + (i + 1) * g
      BY <3>4, <3>7, <3>8, <3>9, <1>4, <1>5
    <3> QED BY <3>3, <3>10
  <2> HIDE DEF P
  <2>8. d \in P
    BY <2>2, <2>6, <2>7, NatSets
  <2>9. PICK b \in Linked : pos[b] = d /\ base[b] + Count(b) >= received + 1 + d * g
    BY <2>8, <2>2 DEF P
  <2>10. b = tailBlock
    BY <2>9, <1>1, <1>3, <1>4 DEF Ring
  <2>11. sent + 1 >= received + 1 + d * g
    BY <2>9, <2>10, <1>1 DEF Chain
  <2>12. d * g >= (InitialBlockCount - 1) * g /\ d * g \in Nat
    <3>1. PICK e \in Nat : e = InitialBlockCount - 1
      BY <2>1, <1>5
    <3>2. PICK f \in Nat : d = e + f
      BY <3>1, <2>2, <1>4, <1>5
    <3>3. (e + f) * g = e * g + f * g /\ e * g \in Nat /\ f * g \in Nat
      BY <1>5
    <3> QED BY <3>1, <3>2, <3>3
  <2>13. (InitialBlockCount - 1) * g \in Int
    BY <1>5
  <2>14. Held >= MaxSize
    BY <2>1, <2>11, <2>12, <2>13, <1>4, <1>5 DEF Held
  <2> QED BY <2>14, <1>4, <1>5, <1>7 DEF Held
<1> QED BY <1>8, <1>9

-----------------------------------------------------------------------------
(* The steps of the producer *)

\* A fresh copy of tailBlock's front (line 452) keeps the invariant.
LEMMA EnqueueRefreshFrontInv ==
  ASSUME IInv, EnqueueRefreshFront PROVE IInv'
<1> USE DEF EnqueueRefreshFront, PGoto, PUnchangedElse, consOwned, consLocal, sizeVars
<1>1. PICK c \in 1..allocated : c = tailBlock
  BY InvFacts
<1>2. localFront' \in [Blocks -> Slots] /\ Indices' /\ localFront'[c] = front[c]
  BY <1>1, LocalFrontRefreshed DEF IInv
<1>3. TypeOK'
  BY <1>2 DEF IInv, TypeOK, ProducerPcs
<1>4. Sizes'
  BY DEF IInv, Sizes, LinkedCount
<1>5. \A b : Count(b)' = Count(b)
  BY DEF Count
<1>6. ppc' = "full" => Count(c) = sizeMask[c]
  BY <1>1, InvFacts, SpanRange DEF BlockFacts, Count
<1>7. heldAtCall >= Held /\ Count(c) <= Held
  BY <1>1, HeldFacts DEF IInv, Producer, EnqueuePcs
<1>8. ppc' = "full" => heldAtCall >= sizeMask[c]
  BY <1>6, <1>7, InvFacts, HeldFacts DEF BlockFacts
<1>9. Producer'
  BY <1>1, <1>2, <1>5, <1>6, <1>8 DEF Producer, IInv, EnqueuePcs, NextBlockPcs, Held
<1>10. Consumer'
  BY <1>5 DEF Consumer, IInv
<1>11. Walk'
  BY DEF Walk, IInv, SizePc, Linked, LinkedCount
<1>12. Structure'
  BY StructureKept DEF IInv
<1> QED BY <1>2, <1>3, <1>4, <1>9, <1>10, <1>11, <1>12 DEF IInv

\* A fresh copy of the next block's front (line 473) keeps the invariant.
LEMMA EnqueueNextFrontInv ==
  ASSUME IInv, EnqueueNextFront PROVE IInv'
<1> USE DEF EnqueueNextFront, PGoto, PUnchangedElse, consOwned, consLocal, sizeVars
<1>1. /\ pnb \in Linked /\ pnb \in 1..allocated
      /\ pnb = next[tailBlock] /\ pnb # frontBlock
  BY InvFacts DEF IInv, Producer
<1>2. localFront' \in [Blocks -> Slots] /\ Indices' /\ localFront'[pnb] = front[pnb]
  BY <1>1, LocalFrontRefreshed DEF IInv
<1>3. TypeOK'
  BY <1>2 DEF IInv, TypeOK, ProducerPcs
<1>4. Sizes'
  BY DEF IInv, Sizes, LinkedCount
<1>5. \A b : Count(b)' = Count(b)
  BY DEF Count
<1>6. Count(pnb) = 0
  BY <1>1, NextBlocks DEF IInv, Structure
<1>7. front[pnb] = tail[pnb]
  BY <1>1, <1>6, InvFacts DEF BlockFacts
<1>8. Producer'
  BY <1>1, <1>2, <1>5, <1>7 DEF Producer, IInv, EnqueuePcs, NextBlockPcs, Held
<1>9. Consumer'
  BY <1>5 DEF Consumer, IInv
<1>10. Walk'
  BY DEF Walk, IInv, SizePc, Linked, LinkedCount
<1>11. Structure'
  BY StructureKept DEF IInv
<1> QED BY <1>2, <1>3, <1>4, <1>8, <1>9, <1>10, <1>11 DEF IInv


\* The choice between the next block, a new block and refusal (lines 463-520)
\* keeps the invariant.
LEMMA EnqueueTailFullInv ==
  ASSUME IInv, EnqueueTailFull PROVE IInv'
<1> USE DEF EnqueueTailFull, PUnchangedElse, consOwned, consLocal, sizeVars, prodOwned
<1>1. ppc' \in {"nextFront", "alloc", "idle"} /\ pnb' \in 0..allocated
  BY InvFacts DEF IInv, TypeOK
<1>2. TypeOK'
  BY <1>1 DEF IInv, TypeOK, ProducerPcs
<1>3. Sizes' /\ Indices' /\ \A b \in 1..allocated : Count(b)' = Count(b)
  BY <1>1, IndicesUnchanged DEF IInv, Sizes, LinkedCount
<1>4. Producer'
  <2>1. ppc' # "nextFront" => heldAtCall >= MaxSize
    BY NoFreeBlock DEF IInv
  <2> QED BY <1>1, <1>3, <2>1, InvFacts DEF Producer, IInv, EnqueuePcs, NextBlockPcs, Held
<1>5. Consumer'
  BY <1>3, InvFacts DEF Consumer, IInv
<1>6. Walk'
  BY <1>1 DEF Walk, IInv, SizePc, Linked, LinkedCount
<1>7. Structure'
  BY <1>1, StructureKept DEF IInv
<1> QED BY <1>2, <1>3, <1>4, <1>5, <1>6, <1>7 DEF IInv

\* An enqueue that finds no memory (lines 494-497) leaves the queue as it was.
LEMMA EnqueueOutOfMemoryInv ==
  ASSUME IInv, EnqueueOutOfMemory PROVE IInv'
<1> USE DEF EnqueueOutOfMemory, PReturn, PUnchangedElse, consOwned, consLocal, sizeVars, prodOwned
<1>1. TypeOK'
  BY DEF IInv, TypeOK, ProducerPcs
<1>2. Sizes' /\ Indices' /\ \A b \in 1..allocated : Count(b)' = Count(b)
  BY IndicesUnchanged DEF IInv, Sizes, LinkedCount
<1>3. Producer'
  BY DEF Producer, IInv, EnqueuePcs, NextBlockPcs
<1>4. Consumer'
  BY <1>2, InvFacts DEF Consumer, IInv
<1>5. Walk'
  BY DEF Walk, IInv, SizePc, Linked, LinkedCount
<1>6. Structure'
  BY StructureKept DEF IInv
<1> QED BY <1>1, <1>2, <1>3, <1>4, <1>5, <1>6 DEF IInv

\* The producer constructs an element in the slot at the tail of block c.
LEMMA Constructs ==
  ASSUME IInv, NEW c \in 1..allocated,
         \/ ppc = "construct" /\ ppc' = "publish" /\ c = tailBlock
         \/ ppc = "nextConstruct" /\ ppc' = "nextTail" /\ c = pnb,
         data' = [data EXCEPT ![c][tail[c]] = sent + 1],
         UNCHANGED <<front, tail, sizeMask, next, allocated, frontBlock, tailBlock,
                     alive, sent, received, pnb, cpc>>
  PROVE  data' \in [Blocks -> [Slots -> Nat]] /\ Structure'
<1>1. PICK pos, base : Ring(pos) /\ Fill(pos) /\ Chain(pos, base) /\ Contents(base)
  BY DEF IInv, Structure
<1>2. PICK t : t = tail[c]
  OBVIOUS
<1>3. BlockFacts(c) /\ c \in Blocks /\ t \in Slots /\ t \in 0..sizeMask[c] /\ Count(c) \in Nat
  BY <1>2, InvFacts DEF BlockFacts
<1>4. /\ data' \in [Blocks -> [Slots -> Nat]]
      /\ data'[c][t] = sent + 1
      /\ \A b \in Blocks, j \in Slots : ~ (b = c /\ j = t) => data'[b][j] = data[b][j]
  <2>1. sent + 1 \in Nat
    BY InvFacts
  <2>2. data' = [data EXCEPT ![c][t] = sent + 1]
    BY <1>2
  <2>3. data \in [Blocks -> [Slots -> Nat]]
    BY DEF IInv, TypeOK
  <2>4. data[c] \in [Slots -> Nat]
    BY <1>3, <2>3
  <2>5. [data[c] EXCEPT ![t] = sent + 1] \in [Slots -> Nat]
    BY <2>1, <2>4
  <2>6. data' \in [Blocks -> [Slots -> Nat]]
    BY <1>3, <2>2, <2>3, <2>5
  <2>7. data'[c] = [data[c] EXCEPT ![t] = sent + 1] /\ \A b \in Blocks : b # c => data'[b] = data[b]
    BY <1>3, <2>2, <2>3
  <2> QED BY <1>3, <2>4, <2>6, <2>7
<1>5. \A b : Count(b)' = Count(b)
  BY DEF Count
<1>6. Linked' = Linked /\ LinkedCount' = LinkedCount
  BY DEF Linked, LinkedCount
<1>7. Ring(pos)'
  BY <1>1, <1>6 DEF Ring
<1>8. Fill(pos)'
  BY <1>1, <1>5, <1>6 DEF Fill
<1>9. Chain(pos, base)'
  BY <1>1, <1>5, <1>6 DEF Chain
<1>10. \A b, i : Off(b, i)' = Off(b, i)
  BY DEF Off
<1>11. \A b, i : Holds(b, i)' <=> Holds(b, i)
  BY <1>5, <1>10 DEF Holds
<1>12. ~ Holds(c, t)
  BY <1>2, <1>3, OffEnds DEF Holds
<1>13. \A b, i : ~ Unpublished(b, i) /\ (Unpublished(b, i)' <=> b = c /\ i = t)
  BY <1>2 DEF Unpublished
<1>14. alive
  BY DEF IInv, Walk
<1>15. \A b \in 1..allocated : b \in Blocks
  BY InvFacts DEF BlockFacts
<1>16. \A b \in 1..allocated, i \in Slots :
       /\ Holds(b, i)' => data'[b][i] = base[b] + Off(b, i)'
       /\ ~ Holds(b, i)' /\ Unpublished(b, i)' => data'[b][i] = sent + 1
       /\ ~ Holds(b, i)' /\ ~ Unpublished(b, i)' => data'[b][i] = Raw
  <2> SUFFICES ASSUME NEW b \in 1..allocated, NEW i \in Slots
      PROVE  /\ Holds(b, i)' => data'[b][i] = base[b] + Off(b, i)'
             /\ ~ Holds(b, i)' /\ Unpublished(b, i)' => data'[b][i] = sent + 1
             /\ ~ Holds(b, i)' /\ ~ Unpublished(b, i)' => data'[b][i] = Raw
    OBVIOUS
  <2>1. CASE b = c /\ i = t
    BY <2>1, <1>4, <1>11, <1>12, <1>13
  <2>2. CASE ~ (b = c /\ i = t)
    BY <2>2, <1>1, <1>4, <1>10, <1>11, <1>13, <1>14, <1>15 DEF Contents
  <2> QED BY <2>1, <2>2
<1>17. \A b \in Blocks \ 1..allocated, i \in Slots : data'[b][i] = Raw
  BY <1>1, <1>4 DEF Contents
<1>18. Contents(base)'
  BY <1>14, <1>16, <1>17 DEF Contents
<1> QED BY <1>4, <1>7, <1>8, <1>9, <1>18 DEF Structure

\* Constructing the element in tailBlock (line 456) keeps the invariant.
LEMMA EnqueueConstructInv ==
  ASSUME IInv, EnqueueConstruct PROVE IInv'
<1> USE DEF EnqueueConstruct, PGoto, PUnchangedElse, consOwned, consLocal, sizeVars, prodOwned
<1>1. data' \in [Blocks -> [Slots -> Nat]] /\ Structure'
  BY Constructs, InvFacts
<1>2. TypeOK'
  BY <1>1 DEF IInv, TypeOK, ProducerPcs
<1>3. Sizes' /\ Indices' /\ \A b \in 1..allocated : Count(b)' = Count(b)
  BY IndicesUnchanged DEF IInv, Sizes, LinkedCount
<1>4. Producer'
  BY DEF Producer, IInv, EnqueuePcs, NextBlockPcs, Held
<1>5. Consumer'
  BY <1>3, InvFacts DEF Consumer, IInv
<1>6. Walk'
  BY DEF Walk, IInv, SizePc, Linked, LinkedCount
<1> QED BY <1>1, <1>2, <1>3, <1>4, <1>5, <1>6 DEF IInv

\* Constructing the element in the next block (line 483) keeps the invariant.
LEMMA EnqueueNextConstructInv ==
  ASSUME IInv, EnqueueNextConstruct PROVE IInv'
<1> USE DEF EnqueueNextConstruct, PGoto, PUnchangedElse, consOwned, consLocal, sizeVars, prodOwned
<1>1. pnb \in 1..allocated
  BY InvFacts DEF IInv, Producer
<1>2. data' \in [Blocks -> [Slots -> Nat]] /\ Structure'
  BY <1>1, Constructs
<1>3. TypeOK'
  BY <1>2 DEF IInv, TypeOK, ProducerPcs
<1>4. Sizes' /\ Indices' /\ \A b \in 1..allocated : Count(b)' = Count(b)
  BY IndicesUnchanged DEF IInv, Sizes, LinkedCount
<1>5. Producer'
  BY <1>4, InvFacts DEF Producer, IInv, EnqueuePcs, NextBlockPcs, Held
<1>6. Consumer'
  BY <1>4, InvFacts DEF Consumer, IInv
<1>7. Walk'
  BY DEF Walk, IInv, SizePc, Linked, LinkedCount
<1> QED BY <1>2, <1>3, <1>4, <1>5, <1>6, <1>7 DEF IInv

\* In a block of two slots or more the slot after tail is another one.
LEMMA WrapMoves == ASSUME NEW m \in Nat, m >= 1, NEW t \in 0..m PROVE Wrap(t, m) # t
BY DEF Wrap

\* Advancing the next block's tail, before that block is tailBlock (line 485),
\* keeps the invariant.
LEMMA EnqueueNextTailInv ==
  ASSUME IInv, EnqueueNextTail PROVE IInv'
<1>1. PICK pos, base : Ring(pos) /\ Fill(pos) /\ Chain(pos, base) /\ Contents(base)
  BY DEF IInv, Structure
<1>2. /\ pnb = next[tailBlock] /\ pnb # frontBlock /\ localFront[pnb] = tail[pnb]
      /\ pnb \in Linked /\ pnb \in 1..allocated
  BY InvFacts DEF IInv, Producer, EnqueueNextTail
<1>3. PICK c \in 1..allocated : c = pnb
  BY <1>2
<1>4. PICK t : t = tail[c]
  OBVIOUS
<1>5. /\ ppc = "nextTail" /\ ppc' = "advance"
      /\ tail' = [tail EXCEPT ![c] = Wrap(tail[c], sizeMask[c])]
      /\ UNCHANGED <<localFront, next, tailBlock, largestBlockSize, sizeMask, allocated, data,
                     front, localTail, frontBlock, cpc, cop, cb, celem, cret, emptyAtCall,
                     szStart, szBlock, szSum, szHeld, alive, received, sent, pmode, pnb,
                     pret, heldAtCall>>
  BY <1>3 DEF EnqueueNextTail, PGoto, PUnchangedElse, consOwned, consLocal, sizeVars
<1>6. Linked' = Linked /\ LinkedCount' = LinkedCount /\ Linked \subseteq 1..allocated
  BY <1>5, InvFacts DEF Linked, LinkedCount
<1>7. BlockFacts(c) /\ \A b \in 1..allocated : BlockFacts(b)
  BY InvFacts
<1>8. /\ tail' \in [Blocks -> Slots] /\ Indices'
      /\ Count(c)' = Count(c) + 1
      /\ tail'[c] # front[c]
      /\ \A b \in 1..allocated \ {c} : Count(b)' = Count(b) /\ tail'[b] = tail[b]
  <2>1. Wrap(tail[c], sizeMask[c]) # localFront[c]
    BY <1>2, <1>3, <1>7, WrapMoves DEF BlockFacts
  <2> QED BY <1>5, <2>1, TailMoves DEF IInv
<1>9. /\ \A b \in 1..allocated : base[b] \in Nat /\ pos[b] \in Nat /\ Count(b) \in Nat
      /\ sent \in Nat /\ received \in Nat
      /\ frontBlock \in Linked /\ tailBlock \in Linked
      /\ c # frontBlock /\ c # tailBlock /\ c \in Linked /\ c \in Blocks
  BY <1>1, <1>2, <1>3, <1>7, ChainFacts, InvFacts, NextBlocks DEF BlockFacts
<1>10. Count(c) = 0 /\ Count(c)' = 1 /\ pos[c] > pos[tailBlock]
  <2>1. Count(c) = 0
    BY <1>1, <1>2, <1>3, <1>5, NextBlocks
  <2>2. pos[c] = pos[tailBlock] + 1
    BY <1>1, <1>2, <1>3, NextBlocks
  <2>3. pos[c] > pos[tailBlock]
    BY <2>2, <1>6, <1>9
  <2>4. Count(c)' = 1
    BY <2>1, <1>8
  <2> QED BY <2>1, <2>3, <2>4
<1>11. TypeOK'
  BY <1>5, <1>8 DEF IInv, TypeOK, ProducerPcs
<1>12. Sizes'
  BY <1>5, <1>6 DEF IInv, Sizes
<1>13. Producer'
  BY <1>3, <1>5, <1>6, <1>8, <1>9 DEF Producer, IInv, EnqueuePcs, NextBlockPcs, Held
<1>14. Consumer'
  <2>1. \A b \in 1..allocated : tail'[b] # front[b] \/ tail'[b] = tail[b]
    BY <1>8
  <2>2. cb \in 1..allocated
    BY InvFacts
  <2> QED BY <1>5, <1>6, <1>8, <1>9, <2>1, <2>2 DEF Consumer, IInv
<1>15. Walk'
  BY <1>5, <1>6 DEF Walk, IInv, SizePc
<1>21. PICK newBase : newBase = [base EXCEPT ![c] = sent + 1]
  OBVIOUS
<1>16. newBase \in [Blocks -> Nat] /\ newBase[c] = sent + 1 /\ \A b \in Blocks \ {c} : newBase[b] = base[b]
  BY <1>1, <1>9, <1>21 DEF Chain
<1>17. Ring(pos)'
  BY <1>1, <1>5, <1>6 DEF Ring
<1>18. Fill(pos)'
  <2> SUFFICES ASSUME NEW b \in Linked
      PROVE  /\ b # frontBlock /\ pos[b] < pos[tailBlock] => Count(b)' = sizeMask[b]
             /\ b # frontBlock /\ pos[b] <= pos[tailBlock] => Count(b)' > 0
             /\ pos[b] > pos[tailBlock] /\ b # c => Count(b)' = 0
    BY <1>3, <1>5, <1>6 DEF Fill
  <2>1. CASE b = c
    BY <2>1, <1>6, <1>9, <1>10
  <2>2. CASE b # c
    BY <2>2, <1>1, <1>5, <1>6, <1>8 DEF Fill
  <2> QED BY <2>1, <2>2
<1>19. Chain(pos, newBase)'
  <2>1. \A b \in Linked : pos[b] <= pos[tailBlock] =>
          b # c /\ Count(b)' = Count(b) /\ newBase[b] = base[b]
    BY <1>6, <1>7, <1>8, <1>9, <1>10, <1>16 DEF BlockFacts
  <2>2. newBase[frontBlock] = received + 1
    BY <1>1, <1>6, <1>7, <1>9, <1>16 DEF Chain, BlockFacts
  <2>3. newBase[tailBlock] + Count(tailBlock)' = sent + 1
    BY <1>1, <1>5, <1>6, <1>9, <2>1 DEF Chain
  <2>4. \A b \in Linked : pos[b] < pos[tailBlock] => newBase[next[b]] = newBase[b] + Count(b)'
    <3> SUFFICES ASSUME NEW b \in Linked, pos[b] < pos[tailBlock]
                 PROVE  newBase[next[b]] = newBase[b] + Count(b)'
      OBVIOUS
    <3>1. next[b] \in Linked /\ pos[next[b]] <= pos[tailBlock]
      BY <1>1, <1>6, <1>9 DEF Ring
    <3>2. base[next[b]] = base[b] + Count(b)
      BY <1>1 DEF Chain
    <3>3. pos[b] <= pos[tailBlock]
      BY <1>6, <1>9
    <3> QED BY <2>1, <3>1, <3>2, <3>3
  <2>5. \A b, e \in Linked :
       pos[b] < pos[e] /\ pos[e] <= pos[tailBlock] => newBase[b] + Count(b)' <= newBase[e]
    <3> SUFFICES ASSUME NEW b \in Linked, NEW e \in Linked, pos[b] < pos[e], pos[e] <= pos[tailBlock]
                 PROVE  newBase[b] + Count(b)' <= newBase[e]
      OBVIOUS
    <3>1. pos[b] <= pos[tailBlock]
      BY <1>6, <1>9
    <3> QED BY <1>1, <2>1, <3>1 DEF Chain
  <2>6. newBase[pnb] = sent + 1 /\ Count(pnb)' = 1
    BY <1>3, <1>5, <1>10, <1>16
  <2> QED BY <1>5, <1>6, <1>16, <2>2, <2>3, <2>4, <2>5, <2>6 DEF Chain
<1>20. Contents(newBase)'
  <2>1. t \in Slots /\ t \in 0..sizeMask[c] /\ Off(c, t) = 0 /\ t = front[c]
    BY <1>4, <1>7, <1>10, OffEnds DEF BlockFacts
  <2>2. \A b, i : Off(b, i)' = Off(b, i)
    BY <1>5 DEF Off
  <2>3. \A i \in 0..sizeMask[c] : Off(c, i) \in Nat /\ (i # t => Off(c, i) # 0)
    BY <1>7, <2>1, OffFacts
  <2>4. \A b \in 1..allocated \ {c}, i \in Slots : Holds(b, i)' <=> Holds(b, i)
    BY <1>5, <1>8, <2>2 DEF Holds
  <2>5. \A i \in Slots : ~ Holds(c, i) /\ (Holds(c, i)' <=> i = t)
    <3> SUFFICES ASSUME NEW i \in Slots PROVE ~ Holds(c, i) /\ (Holds(c, i)' <=> i = t)
      OBVIOUS
    <3>1. ~ Holds(c, i)
      BY <1>10, <2>3 DEF Holds
    <3>2. i \in 0..sizeMask[c] /\ Off(c, i) < 1 <=> i = t
      BY <2>1, <2>3
    <3> QED BY <1>5, <1>9, <1>10, <2>2, <3>1, <3>2 DEF Holds
  <2>6. \A b \in 1..allocated, i \in Slots : ~ Unpublished(b, i)' /\
          (Unpublished(b, i) <=> b = c /\ i = t)
    BY <1>3, <1>4, <1>5 DEF Unpublished
  <2>7. alive
    BY <1>5 DEF IInv, Walk
  <2>8. \A b \in 1..allocated, i \in Slots :
           /\ Holds(b, i)' => data[b][i] = newBase[b] + Off(b, i)
           /\ ~ Holds(b, i)' => data[b][i] = Raw
    <3> SUFFICES ASSUME NEW b \in 1..allocated, NEW i \in Slots
                 PROVE /\ Holds(b, i)' => data[b][i] = newBase[b] + Off(b, i)
                       /\ ~ Holds(b, i)' => data[b][i] = Raw
      OBVIOUS
    <3>1. CASE b = c /\ i = t
      <4>1. data[b][i] = sent + 1
        BY <3>1, <2>5, <2>6, <2>7, <1>1 DEF Contents
      <4> QED BY <3>1, <4>1, <2>1, <2>5, <1>9, <1>16
    <3>2. CASE b = c /\ i # t
      BY <3>2, <2>5, <2>6, <2>7, <1>1 DEF Contents
    <3>3. CASE b # c
      BY <3>3, <2>4, <2>6, <2>7, <1>1, <1>7, <1>16 DEF Contents, BlockFacts
    <3> QED BY <3>1, <3>2, <3>3
  <2> QED BY <1>1, <1>5, <2>2, <2>6, <2>7, <2>8 DEF Contents
<1> QED
  BY <1>8, <1>11, <1>12, <1>13, <1>14, <1>15, <1>17, <1>18, <1>19, <1>20 DEF IInv, Structure

\* Moving tailBlock on (lines 488, 515) publishes the element in the next block
\* and keeps the invariant.
LEMMA EnqueueAdvanceInv ==
  ASSUME IInv, EnqueueAdvance PROVE IInv'
<1>1. PICK pos, base : Ring(pos) /\ Fill(pos) /\ Chain(pos, base) /\ Contents(base)
  BY DEF IInv, Structure
<1>2. /\ ppc = "advance" /\ ppc' = "idle" /\ pret' = "ok" /\ tailBlock' = pnb /\ sent' = sent + 1
      /\ UNCHANGED <<tail, localFront, next, largestBlockSize, sizeMask, allocated, data,
                     front, localTail, frontBlock, cpc, cop, cb, celem, cret, emptyAtCall,
                     szStart, szBlock, szSum, szHeld, alive, received, pmode, pnb, heldAtCall>>
  BY DEF EnqueueAdvance, PReturn, PUnchangedElse, consOwned, consLocal, sizeVars
<1>3. pnb = next[tailBlock] /\ pnb # frontBlock /\ pnb \in Linked /\ pnb \in 1..allocated
  BY <1>2, InvFacts DEF IInv, Producer
<1>4. Linked' = Linked /\ LinkedCount' = LinkedCount /\ Linked \subseteq 1..allocated
  BY <1>2, InvFacts DEF Linked, LinkedCount
<1>5. \A b : Count(b)' = Count(b)
  BY <1>2 DEF Count
<1>6. /\ \A b \in 1..allocated : base[b] \in Nat /\ pos[b] \in Nat /\ Count(b) \in Nat
      /\ sent \in Nat /\ received \in Nat
      /\ frontBlock \in Linked /\ tailBlock \in Linked
  BY <1>1, ChainFacts, InvFacts
<1>7. pos[pnb] = pos[tailBlock] + 1
  BY <1>1, <1>3, NextBlocks
<1>8. base[pnb] = sent + 1 /\ Count(pnb) = 1
  BY <1>1, <1>2 DEF Chain
<1>9. tailBlock # frontBlock => Count(tailBlock) = sizeMask[tailBlock]
  BY <1>2 DEF IInv, Producer, EnqueuePcs, NextBlockPcs
<1>10. \A b \in Linked : pos[b] = pos[pnb] => b = pnb
  BY <1>1, <1>3 DEF Ring
<1>11. \A b \in Linked : pos[b] = pos[tailBlock] => b = tailBlock
  BY <1>1, <1>6 DEF Ring
<1>12. TypeOK'
  BY <1>2, <1>3 DEF IInv, TypeOK, ProducerPcs
<1>13. Sizes' /\ Indices'
  BY <1>2, <1>4, IndicesUnchanged DEF IInv, Sizes
<1>14. Producer'
  BY <1>2 DEF Producer, IInv, EnqueuePcs, NextBlockPcs
<1>15. Consumer'
  BY <1>2, <1>3, <1>5 DEF Consumer, IInv
<1>16. Walk'
  BY <1>2, <1>4 DEF Walk, IInv, SizePc
<1>17. Ring(pos)'
  BY <1>1, <1>2, <1>3, <1>4 DEF Ring
<1>18. Fill(pos)'
  <2> SUFFICES ASSUME NEW b \in Linked
      PROVE  /\ b # frontBlock /\ pos[b] < pos[pnb] => Count(b) = sizeMask[b]
             /\ b # frontBlock /\ pos[b] <= pos[pnb] => Count(b) > 0
             /\ pos[b] > pos[pnb] => Count(b) = 0
    BY <1>2, <1>4, <1>5 DEF Fill
  <2>1. CASE b = pnb
    BY <2>1, <1>3, <1>6, <1>8
  <2>2. CASE b = tailBlock
    BY <2>2, <1>1, <1>3, <1>4, <1>6, <1>7, <1>9 DEF Fill
  <2>3. CASE b # pnb /\ b # tailBlock
    <3>1. pos[b] # pos[tailBlock] /\ pos[b] # pos[pnb]
      BY <2>3, <1>10, <1>11
    <3>2. /\ pos[b] < pos[pnb] => pos[b] < pos[tailBlock]
          /\ pos[b] <= pos[pnb] => pos[b] <= pos[tailBlock]
          /\ pos[b] > pos[pnb] => pos[b] > pos[tailBlock]
      BY <3>1, <1>3, <1>4, <1>6, <1>7
    <3> QED BY <2>3, <3>2, <1>1 DEF Fill
  <2> QED BY <2>1, <2>2, <2>3
<1>19. Chain(pos, base)'
  <2>1. base[pnb] + Count(pnb) = sent' + 1
    BY <1>2, <1>6, <1>8
  <2>2. \A b \in Linked : pos[b] < pos[pnb] => base[next[b]] = base[b] + Count(b)
    <3> SUFFICES ASSUME NEW b \in Linked, pos[b] < pos[pnb]
                 PROVE  base[next[b]] = base[b] + Count(b)
      OBVIOUS
    <3>1. CASE b = tailBlock
      BY <3>1, <1>1, <1>3, <1>8 DEF Chain
    <3>2. CASE b # tailBlock
      <4>1. pos[b] < pos[tailBlock]
        BY <3>2, <1>3, <1>4, <1>6, <1>7, <1>11
      <4> QED BY <4>1, <1>1 DEF Chain
    <3> QED BY <3>1, <3>2
  <2>3. \A b, e \in Linked : pos[b] < pos[e] /\ pos[e] <= pos[pnb] => base[b] + Count(b) <= base[e]
    <3> SUFFICES ASSUME NEW b \in Linked, NEW e \in Linked, pos[b] < pos[e], pos[e] <= pos[pnb]
                 PROVE  base[b] + Count(b) <= base[e]
      OBVIOUS
    <3>1. CASE e = pnb
      <4>1. pos[b] <= pos[tailBlock]
        BY <3>1, <1>3, <1>4, <1>6, <1>7
      <4> QED BY <3>1, <4>1, <1>1, <1>8, ChainFacts
    <3>2. CASE e # pnb
      <4>1. pos[e] <= pos[tailBlock]
        BY <3>2, <1>3, <1>4, <1>6, <1>7, <1>10
      <4> QED BY <4>1, <1>1 DEF Chain
    <3> QED BY <3>1, <3>2
  <2> QED BY <1>1, <1>2, <1>4, <1>5, <2>1, <2>2, <2>3 DEF Chain
<1>20. Contents(base)'
  <2>1. \A b, i : Off(b, i)' = Off(b, i)
    BY <1>2 DEF Off
  <2>2. \A b, i : Holds(b, i)' <=> Holds(b, i)
    BY <1>2, <1>5, <2>1 DEF Holds
  <2>3. \A b, i : ~ Unpublished(b, i) /\ ~ Unpublished(b, i)'
    BY <1>2 DEF Unpublished
  <2> QED BY <1>1, <1>2, <2>1, <2>2, <2>3 DEF Contents
<1> QED BY <1>12, <1>13, <1>14, <1>15, <1>16, <1>17, <1>18, <1>19, <1>20 DEF IInv, Structure

\* Advancing tailBlock's tail (line 459) publishes the element and keeps the
\* invariant.
LEMMA EnqueuePublishInv ==
  ASSUME IInv, EnqueuePublish PROVE IInv'
<1>1. PICK pos, base : Ring(pos) /\ Fill(pos) /\ Chain(pos, base) /\ Contents(base)
  BY DEF IInv, Structure
<1>2. PICK c \in 1..allocated : c = tailBlock
  BY DEF IInv, TypeOK
<1>3. /\ ppc = "publish" /\ ppc' = "idle" /\ pret' = "ok" /\ sent' = sent + 1
      /\ tail' = [tail EXCEPT ![c] = Wrap(tail[c], sizeMask[c])]
      /\ UNCHANGED <<localFront, next, tailBlock, largestBlockSize, sizeMask, allocated, data,
                     front, localTail, frontBlock, cpc, cop, cb, celem, cret, emptyAtCall,
                     szStart, szBlock, szSum, szHeld, alive, received, pmode, pnb, heldAtCall>>
  BY <1>2 DEF EnqueuePublish, PReturn, PUnchangedElse, consOwned, consLocal, sizeVars
<1>4. /\ Linked = 1..allocated /\ Linked' = 1..allocated
      /\ LinkedCount = allocated /\ LinkedCount' = allocated
      /\ frontBlock \in 1..allocated /\ cb \in 1..allocated
  BY <1>3 DEF IInv, TypeOK, Linked, LinkedCount
<1>5. \A b \in 1..allocated : BlockFacts(b)
  BY IndexFacts DEF IInv
<1>6. /\ tail' \in [Blocks -> Slots]
      /\ Indices'
      /\ Count(c)' = Count(c) + 1
      /\ Count(c) < sizeMask[c]
      /\ tail'[c] = Wrap(tail[c], sizeMask[c])
      /\ tail'[c] # front[c]
      /\ \A b \in 1..allocated \ {c} : Count(b)' = Count(b) /\ tail'[b] = tail[b]
  <2>1. Wrap(tail[c], sizeMask[c]) # localFront[c]
    BY <1>2, <1>3 DEF IInv, Producer
  <2> QED BY <1>3, <2>1, TailMoves DEF IInv
<1>7. \A b \in 1..allocated :
        b \in Blocks /\ pos[b] \in Nat /\ base[b] \in Nat /\ Count(b) \in Nat
  BY <1>1, <1>5 DEF BlockFacts, Ring, Chain
<1>8. sent \in Nat /\ received \in Nat
  BY DEF IInv, TypeOK
<1>9. PICK t : t = tail[c]
  OBVIOUS
<1>10. TypeOK'
  BY <1>3, <1>6 DEF IInv, TypeOK, ProducerPcs
<1>11. Sizes'
  BY <1>3, <1>4 DEF IInv, Sizes
<1>13. Producer'
  BY <1>3 DEF Producer, IInv, TypeOK, EnqueuePcs, NextBlockPcs
<1>14. Consumer'
  <2>1. \A b \in 1..allocated : tail'[b] # front[b] \/ tail'[b] = tail[b]
    BY <1>6
  <2> QED BY <1>2, <1>3, <1>4, <1>6, <2>1 DEF Consumer, IInv
<1>15. Walk'
  BY <1>3, <1>4 DEF Walk, IInv, SizePc
<1>16. Ring(pos)'
  BY <1>1, <1>3, <1>4 DEF Ring
<1>17. Fill(pos)'
  <2> SUFFICES ASSUME NEW b \in 1..allocated
      PROVE  /\ b # frontBlock /\ pos[b] < pos[c] => Count(b)' = sizeMask[b]
             /\ b # frontBlock /\ pos[b] <= pos[c] => Count(b)' > 0
             /\ pos[b] > pos[c] => Count(b)' = 0
    BY <1>2, <1>3, <1>4 DEF Fill
  <2>1. CASE b = c
    BY <2>1, <1>6, <1>7
  <2>2. CASE b # c
    BY <2>2, <1>1, <1>2, <1>3, <1>4, <1>6 DEF Fill
  <2> QED BY <2>1, <2>2
<1>18. Chain(pos, base)'
  <2>1. base[c] + Count(c)' = sent' + 1
    <3>1. base[c] + Count(c) = sent + 1
      BY <1>1, <1>2 DEF Chain
    <3> QED BY <3>1, <1>3, <1>6, <1>7, <1>8
  <2>2. \A b \in 1..allocated : pos[b] < pos[c] => base[next[b]] = base[b] + Count(b)'
    <3> SUFFICES ASSUME NEW b \in 1..allocated, pos[b] < pos[c]
                 PROVE  base[next[b]] = base[b] + Count(b)'
      OBVIOUS
    <3>1. b # c
      BY <1>7
    <3> QED BY <3>1, <1>1, <1>2, <1>4, <1>6 DEF Chain
  <2>3. \A b, e \in 1..allocated :
       pos[b] < pos[e] /\ pos[e] <= pos[c] => base[b] + Count(b)' <= base[e]
    <3> SUFFICES ASSUME NEW b \in 1..allocated, NEW e \in 1..allocated,
                        pos[b] < pos[e], pos[e] <= pos[c]
                 PROVE  base[b] + Count(b)' <= base[e]
      OBVIOUS
    <3>1. b # c
      BY <1>7
    <3> QED BY <3>1, <1>1, <1>2, <1>4, <1>6 DEF Chain
  <2> QED BY <1>1, <1>2, <1>3, <1>4, <2>1, <2>2, <2>3 DEF Chain
<1>19. Contents(base)'
  <2>1. t \in Slots /\ t \in 0..sizeMask[c] /\ Off(c, t) = Count(c)
    BY <1>5, <1>9, OffEnds DEF BlockFacts
  <2>2. \A b \in 1..allocated, i \in Slots : Off(b, i)' = Off(b, i)
    BY <1>3 DEF Off
  <2>3. \A i \in 0..sizeMask[c] : Off(c, i) \in Nat /\ (i # t => Off(c, i) # Count(c))
    BY <1>5, <1>9, OffFacts
  <2>5. cpc = "publish" => ~ (c = frontBlock /\ t = front[c])
    <3> SUFFICES ASSUME cpc = "publish", c = frontBlock, t = front[c]
                 PROVE FALSE
      OBVIOUS
    <3>1. front[c] # localTail[c]
      BY <1>2 DEF IInv, Consumer
    <3>2. ConsumerCount(c) > 0
      BY <3>1, <1>5, SpanRange DEF BlockFacts, ConsumerCount
    <3>3. Count(c) = 0
      BY <1>5, <1>9 DEF BlockFacts
    <3> QED BY <3>2, <3>3, <1>5 DEF BlockFacts
  <2>7. \A b \in 1..allocated, i \in Slots :
          ~ (b = c /\ i = t) => (Holds(b, i)' <=> Holds(b, i))
    <3> SUFFICES ASSUME NEW b \in 1..allocated, NEW i \in Slots, ~ (b = c /\ i = t),
                        i \in 0..sizeMask[b]
                 PROVE  Off(b, i) < Count(b)' <=> Off(b, i) < Count(b)
      BY <1>3, <2>2 DEF Holds
    <3>1. CASE b = c
      BY <3>1, <2>3, <1>7, <1>6
    <3>2. CASE b # c
      BY <3>2, <1>6
    <3> QED BY <3>1, <3>2
  <2>8. Holds(c, t)' /\ ~ Holds(c, t)
    <3>1. Off(c, t)' < Count(c)' /\ ~ (Off(c, t) < Count(c))
      BY <1>6, <1>7, <2>1, <2>2
    <3> QED BY <1>3, <2>1, <2>5, <3>1 DEF Holds
  <2>9. \A b \in 1..allocated, i \in Slots : ~ Unpublished(b, i)' /\
          (Unpublished(b, i) <=> b = c /\ i = t)
    BY <1>2, <1>3, <1>9 DEF Unpublished
  <2>10. alive => data[c][t] = base[c] + Off(c, t)
    BY <1>1, <1>2, <2>1, <2>8, <2>9 DEF Contents, Chain
  <2>11. alive => \A b \in 1..allocated, i \in Slots :
           /\ Holds(b, i)' => data[b][i] = base[b] + Off(b, i)
           /\ ~ Holds(b, i)' => data[b][i] = Raw
    <3> SUFFICES ASSUME alive, NEW b \in 1..allocated, NEW i \in Slots
                 PROVE /\ Holds(b, i)' => data[b][i] = base[b] + Off(b, i)
                       /\ ~ Holds(b, i)' => data[b][i] = Raw
      OBVIOUS
    <3>1. CASE b = c /\ i = t
      BY <3>1, <2>8, <2>10
    <3>2. CASE ~ (b = c /\ i = t)
      BY <3>2, <2>7, <2>9, <1>1 DEF Contents
    <3> QED BY <3>1, <3>2
  <2> QED BY <1>1, <1>3, <2>2, <2>9, <2>11 DEF Contents
<1> QED
  BY <1>6, <1>10, <1>11, <1>13, <1>14, <1>15, <1>16, <1>17, <1>18, <1>19 DEF IInv, Structure

\* A new block with its element (lines 492-505), not linked yet, keeps the
\* invariant.
LEMMA EnqueueAllocateInv ==
  ASSUME IInv, EnqueueAllocate PROVE IInv'
<1>1. PICK pos, base : Ring(pos) /\ Fill(pos) /\ Chain(pos, base) /\ Contents(base)
  BY DEF IInv, Structure
<1>2. PICK c : c = allocated + 1
  OBVIOUS
<1>3. PICK s : s = IF largestBlockSize >= MAX_BLOCK_SIZE THEN largestBlockSize ELSE 2 * largestBlockSize
  OBVIOUS
<1>4. /\ ppc = "alloc" /\ ppc' = "link" /\ pnb' = c /\ allocated < HeapBlocks
      /\ allocated' = c /\ largestBlockSize' = s
      /\ sizeMask' = [sizeMask EXCEPT ![c] = s - 1]
      /\ data' = [data EXCEPT ![c][0] = sent + 1]
      /\ front' = [front EXCEPT ![c] = 0] /\ localFront' = [localFront EXCEPT ![c] = 0]
      /\ tail' = [tail EXCEPT ![c] = 1] /\ localTail' = [localTail EXCEPT ![c] = 1]
      /\ next' = [next EXCEPT ![c] = next[tailBlock]]
      /\ UNCHANGED <<tailBlock, frontBlock, pmode, pret, heldAtCall, cpc, cop, cb, celem, cret,
                     emptyAtCall, szStart, szBlock, szSum, szHeld, alive, sent, received>>
  BY <1>2, <1>3 DEF EnqueueAllocate, consLocal, sizeVars
<1>5. /\ c \in Blocks /\ c \in Nat /\ 1..c = 1..allocated \cup {c} /\ c \notin 1..allocated
      /\ allocated \in Nat
  BY <1>2, <1>4, InvFacts, SizesPositive DEF Blocks
<1>6. /\ s \in 1..SlotBound /\ s >= 2 /\ s - 1 \in Slots /\ s - 1 \in Nat
      /\ 0..s - 1 \subseteq Slots /\ (\E k \in Nat : s = 2^k) /\ InitialBlockSize <= s
  BY <1>3, Doubling DEF IInv
<1>7. 0 \in Slots /\ 1 \in Slots /\ 0 \in 0..s-1 /\ 1 \in 0..s-1
  BY <1>6
<1>8. /\ {front, localTail, tail, localFront, sizeMask} \subseteq [Blocks -> Slots]
      /\ next \in [Blocks -> Blocks \cup {NoBlock}]
      /\ data \in [Blocks -> [Slots -> Nat]]
  BY DEF IInv, TypeOK
<1>9. /\ {front', localTail', tail', localFront', sizeMask'} \subseteq [Blocks -> Slots]
  BY <1>4, <1>5, <1>6, <1>7, <1>8
<1>10. /\ front'[c] = 0 /\ localFront'[c] = 0 /\ tail'[c] = 1 /\ localTail'[c] = 1
       /\ sizeMask'[c] = s - 1 /\ next'[c] = next[tailBlock]
  BY <1>4, <1>5, <1>8
<1>11. \A b \in 1..allocated :
          /\ b \in Blocks
          /\ front'[b] = front[b] /\ localFront'[b] = localFront[b] /\ tail'[b] = tail[b]
          /\ localTail'[b] = localTail[b] /\ sizeMask'[b] = sizeMask[b] /\ next'[b] = next[b]
  <2>1. \A b \in 1..allocated : b \in Blocks /\ b # c
    BY <1>5, InvFacts DEF BlockFacts
  <2> QED BY <1>4, <1>8, <2>1
<1>12. /\ Linked' = Linked /\ LinkedCount' = LinkedCount /\ Linked = 1..allocated
       /\ LinkedCount = allocated
  BY <1>2, <1>4, <1>5 DEF Linked, LinkedCount
<1>13. /\ frontBlock \in 1..allocated /\ tailBlock \in 1..allocated /\ cb \in 1..allocated
       /\ sent \in Nat /\ received \in Nat /\ next[tailBlock] \in 1..allocated
       /\ \A b \in 1..allocated : BlockFacts(b)
  BY <1>12, InvFacts
<1>14. \A b \in 1..allocated : /\ Count(b)' = Count(b)
                               /\ ProducerCount(b)' = ProducerCount(b)
                               /\ ConsumerCount(b)' = ConsumerCount(b)
                               /\ \A i : Off(b, i)' = Off(b, i)
  BY <1>11 DEF Count, ProducerCount, ConsumerCount, Off
<1>15. Count(c)' = 1 /\ ProducerCount(c)' = 1 /\ ConsumerCount(c)' = 1
  BY <1>10 DEF Count, ProducerCount, ConsumerCount, Span
<1>16. next' \in [Blocks -> Blocks \cup {NoBlock}]
  BY <1>4, <1>5, <1>8, <1>13 DEF BlockFacts
<1>17. /\ data' \in [Blocks -> [Slots -> Nat]]
       /\ data'[c][0] = sent + 1 /\ \A i \in Slots \ {0} : data'[c][i] = data[c][i]
       /\ \A b \in Blocks \ {c} : data'[b] = data[b]
  <2>1. sent + 1 \in Nat
    BY <1>13
  <2>2. data[c] \in [Slots -> Nat]
    BY <1>5, <1>8
  <2>3. [data[c] EXCEPT ![0] = sent + 1] \in [Slots -> Nat]
    BY <2>1, <2>2
  <2>4. data' \in [Blocks -> [Slots -> Nat]]
    BY <1>4, <1>5, <1>8, <2>3
  <2>5. data'[c] = [data[c] EXCEPT ![0] = sent + 1] /\ \A b \in Blocks \ {c} : data'[b] = data[b]
    BY <1>4, <1>5, <1>8
  <2> QED BY <1>7, <2>2, <2>4, <2>5
<1>20. TypeOK'
  <2>1. 1..allocated \subseteq 1..c /\ 0..allocated \subseteq 0..c /\ c \in 0..c
    BY <1>2, <1>5
  <2>2. {szStart, szBlock} \subseteq [Threads -> 0..c]
    BY <2>1 DEF IInv, TypeOK
  <2>3. {frontBlock, tailBlock, cb} \subseteq 1..c
    BY <2>1, <1>13
  <2>4. {szStart', szBlock'} \subseteq [Threads -> 0..allocated'] /\ pnb' \in 0..allocated' /\ {frontBlock', tailBlock', cb'} \subseteq 1..allocated'
    BY <1>4, <2>1, <2>2, <2>3
  <2>5. ppc' \in ProducerPcs /\ allocated' \in Blocks /\ largestBlockSize' \in 1..SlotBound
    BY <1>4, <1>5, <1>6 DEF ProducerPcs
  <2> QED BY <1>4, <1>9, <1>16, <1>17, <2>4, <2>5 DEF IInv, TypeOK
<1>21. Sizes'
  <2>1. \A b \in 1..c : InitialBlockSize - 1 <= sizeMask'[b]
    <3>1. InitialBlockSize - 1 <= s - 1
      BY <1>6, SizesPositive
    <3>2. \A b \in 1..allocated : InitialBlockSize - 1 <= sizeMask[b]
      BY DEF IInv, Sizes
    <3> QED BY <1>5, <1>10, <1>11, <3>1, <3>2
  <2> QED BY <1>4, <1>6, <1>12, <2>1 DEF IInv, Sizes
<1>22. Indices'
  <2> SUFFICES ASSUME NEW b \in 1..c
      PROVE  /\ {front'[b], tail'[b], localFront'[b], localTail'[b]} \subseteq 0..sizeMask'[b]
             /\ ConsumerCount(b)' <= Count(b)'
             /\ Count(b)' <= ProducerCount(b)'
    BY <1>4 DEF Indices
  <2>1. CASE b = c
    BY <2>1, <1>7, <1>10, <1>15
  <2>2. CASE b \in 1..allocated
    BY <2>2, <1>11, <1>13, <1>14 DEF BlockFacts
  <2> QED BY <1>5, <2>1, <2>2
<1>23. Producer'
  BY <1>4, <1>13, <1>14, <1>11 DEF Producer, IInv, EnqueuePcs, NextBlockPcs, Held
<1>24. Consumer'
  BY <1>4, <1>11, <1>13, <1>14 DEF Consumer, IInv
<1>25. Walk'
  BY <1>4, <1>12 DEF Walk, IInv, SizePc
<1>26. PICK newBase : newBase = [base EXCEPT ![c] = sent + 1]
  OBVIOUS
<1>27. newBase \in [Blocks -> Nat] /\ newBase[c] = sent + 1 /\ \A b \in 1..allocated : newBase[b] = base[b]
  BY <1>1, <1>5, <1>11, <1>13, <1>26 DEF Chain
<1>28. Ring(pos)'
  BY <1>1, <1>4, <1>10, <1>11, <1>12, <1>13, SMTT(30) DEF Ring
<1>29. Fill(pos)'
  BY <1>1, <1>4, <1>11, <1>12, <1>14 DEF Fill
<1>30. Chain(pos, newBase)'
  <2>1. newBase[frontBlock] = received + 1 /\ newBase[tailBlock] + Count(tailBlock)' = sent + 1
    BY <1>1, <1>4, <1>13, <1>14, <1>27 DEF Chain
  <2>2. \A b \in 1..allocated : pos[b] < pos[tailBlock] =>
          newBase[next'[b]] = newBase[b] + Count(b)'
    <3>1. \A b \in 1..allocated : next[b] \in 1..allocated
      BY <1>12, InvFacts
    <3> QED BY <1>1, <1>11, <1>12, <1>14, <1>27, <3>1, SMTT(30) DEF Chain
  <2>3. \A b, e \in 1..allocated :
          pos[b] < pos[e] /\ pos[e] <= pos[tailBlock] => newBase[b] + Count(b)' <= newBase[e]
    BY <1>1, <1>12, <1>14, <1>27 DEF Chain
  <2> QED BY <1>4, <1>12, <1>15, <1>27, <2>1, <2>2, <2>3 DEF Chain
<1>31. Contents(newBase)'
  <2>1. alive
    BY <1>4 DEF IInv, Walk
  <2>2. \A b \in 1..allocated, i \in Slots : Holds(b, i)' <=> Holds(b, i)
    BY <1>4, <1>11, <1>14 DEF Holds
  <2>3. \A i \in Slots : Holds(c, i)' <=> i = 0
    <3> SUFFICES ASSUME NEW i \in Slots
                 PROVE  i \in 0..s-1 /\ Off(c, i)' < 1 <=> i = 0
      BY <1>4, <1>5, <1>10, <1>13, <1>15 DEF Holds
    <3>1. Off(c, i)' = Span(0, i, s - 1)
      BY <1>10 DEF Off
    <3>2. i \in Nat
      BY SizesPositive DEF Slots
    <3> QED BY <3>1, <3>2, <1>6, <1>7 DEF Span
  <2>4. Off(c, 0)' = 0
    BY <1>10 DEF Off, Span
  <2>5. \A b \in 1..c, i \in Slots : ~ Unpublished(b, i)'
    BY <1>4 DEF Unpublished
  <2>6. \A b \in 1..allocated, i \in Slots : ~ Unpublished(b, i)
    BY <1>4 DEF Unpublished
  <2>7. \A b \in 1..c, i \in Slots : /\ Holds(b, i)' => data'[b][i] = newBase[b] + Off(b, i)'
                                     /\ ~ Holds(b, i)' => data'[b][i] = Raw
    <3> SUFFICES ASSUME NEW b \in 1..c, NEW i \in Slots
                 PROVE /\ Holds(b, i)' => data'[b][i] = newBase[b] + Off(b, i)'
                       /\ ~ Holds(b, i)' => data'[b][i] = Raw
      OBVIOUS
    <3>1. CASE b \in 1..allocated
      BY <3>1, <2>1, <2>2, <2>6, <1>1, <1>5, <1>11, <1>14, <1>17, <1>27 DEF Contents
    <3>2. CASE b = c /\ i = 0
      BY <3>2, <2>3, <2>4, <1>13, <1>17, <1>27
    <3>3. CASE b = c /\ i # 0
      <4>1. data[c][i] = Raw
        BY <1>1, <1>5 DEF Contents
      <4> QED BY <3>3, <4>1, <2>3, <1>17
    <3> QED BY <1>5, <3>1, <3>2, <3>3
  <2>8. \A b \in Blocks \ 1..c, i \in Slots : data'[b][i] = Raw
    BY <1>1, <1>5, <1>17 DEF Contents
  <2> QED BY <1>4, <2>1, <2>5, <2>7, <2>8 DEF Contents
<1> QED BY <1>20, <1>21, <1>22, <1>23, <1>24, <1>25, <1>28, <1>29, <1>30, <1>31 DEF IInv, Structure

\* Linking the new block behind tailBlock (line 506) keeps the invariant: it gets
\* the last place in the ring.
LEMMA EnqueueLinkInv ==
  ASSUME IInv, EnqueueLink PROVE IInv'
<1>1. PICK pos, base : Ring(pos) /\ Fill(pos) /\ Chain(pos, base) /\ Contents(base)
  BY DEF IInv, Structure
<1>2. PICK c : c = pnb
  OBVIOUS
<1>3. PICK d \in 1..allocated : d = tailBlock
  BY InvFacts
<1>4. /\ ppc = "link" /\ ppc' = "advance" /\ next' = [next EXCEPT ![d] = c]
      /\ UNCHANGED <<tail, localFront, tailBlock, largestBlockSize, sizeMask, allocated, data, sent,
                     front, localTail, frontBlock, cpc, cop, cb, celem, cret, emptyAtCall,
                     szStart, szBlock, szSum, szHeld, alive, received, pmode, pnb, pret, heldAtCall>>
  BY <1>2, <1>3 DEF EnqueueLink, PGoto, PUnchangedElse, consOwned, consLocal, sizeVars
<1>5. /\ c = allocated /\ next[c] = next[d]
  BY <1>1, <1>2, <1>3, <1>4 DEF Ring
<1> DEFINE n == allocated - 1
<1>6. /\ LinkedCount = n /\ Linked = 1..n /\ LinkedCount' = n + 1 /\ Linked' = 1..n+1
      /\ allocated \in Nat /\ n \in Nat /\ c = n + 1 /\ c \notin 1..n /\ 1..n+1 = 1..n \cup {c}
      /\ frontBlock \in 1..n /\ d \in 1..n /\ c \in Blocks /\ allocated \in 1..allocated
  BY <1>3, <1>4, <1>5, InvFacts DEF Linked, LinkedCount
<1>7. /\ \A b \in 1..n : b \in Blocks /\ next'[b] = IF b = d THEN c ELSE next[b]
      /\ next'[c] = next[d]
      /\ next' \in [Blocks -> Blocks \cup {NoBlock}]
  <2>1. next \in [Blocks -> Blocks \cup {NoBlock}]
    BY DEF IInv, TypeOK
  <2>2. \A b \in 1..n : b \in Blocks /\ b \in 1..allocated
    BY <1>6, InvFacts DEF BlockFacts
  <2> QED BY <2>1, <2>2, <1>4, <1>5, <1>6
<1>8. \A b : Count(b)' = Count(b)
  BY <1>4 DEF Count
<1>9. PICK newPos : newPos = [b \in Blocks |-> IF b = c THEN pos[d] + 1
                                   ELSE IF pos[b] <= pos[d] THEN pos[b] ELSE pos[b] + 1]
  OBVIOUS
<1>10. /\ pos \in [Blocks -> Nat] /\ \A b \in 1..n : pos[b] \in 0..n-1
       /\ n >= 1
  BY <1>1, <1>6, <1>7, SMTT(30) DEF Ring
<1>11. newPos \in [Blocks -> Nat]
  BY <1>9, <1>10, <1>6, <1>7, SMTT(30)
<1>12. /\ newPos[c] = pos[d] + 1
       /\ \A b \in 1..n : newPos[b] = IF pos[b] <= pos[d] THEN pos[b] ELSE pos[b] + 1
  BY <1>6, <1>7, <1>9
<1>13. \A b, e \in 1..n : pos[b] = pos[e] => b = e
  BY <1>1, <1>6 DEF Ring
<1>14. \A b \in 1..n : /\ next[b] \in 1..n
                       /\ pos[next[b]] = IF pos[b] = n - 1 THEN 0 ELSE pos[b] + 1
  BY <1>1, <1>6 DEF Ring
<1>15. Ring(newPos)'
  <2>1. \A b \in 1..n+1 :
       /\ newPos[b] < n + 1
       /\ next'[b] \in 1..n+1
       /\ newPos[next'[b]] = IF newPos[b] = n THEN 0 ELSE newPos[b] + 1
    <3> SUFFICES ASSUME NEW b \in 1..n+1
                 PROVE  /\ newPos[b] < n + 1
                        /\ next'[b] \in 1..n+1
                        /\ newPos[next'[b]] = IF newPos[b] = n THEN 0 ELSE newPos[b] + 1
      OBVIOUS
    <3>1. CASE b = c
      <4>1. next'[b] = next[d] /\ next[d] \in 1..n
        BY <3>1, <1>6, <1>7, <1>14
      <4>2. pos[next[d]] = IF pos[d] = n - 1 THEN 0 ELSE pos[d] + 1
        BY <1>6, <1>14
      <4> QED BY <3>1, <4>1, <4>2, <1>6, <1>10, <1>12, SMTT(30)
    <3>2. CASE b = d
      BY <3>2, <1>6, <1>7, <1>10, <1>12
    <3>3. CASE b \in 1..n /\ b # d
      <4>1. next'[b] = next[b] /\ next[b] \in 1..n
        BY <3>3, <1>7, <1>14
      <4>2. pos[next[b]] = IF pos[b] = n - 1 THEN 0 ELSE pos[b] + 1
        BY <3>3, <1>14
      <4>3. pos[b] # pos[d]
        BY <3>3, <1>6, <1>13
      <4>4. pos[b] \in 0..n-1 /\ pos[d] \in 0..n-1
        BY <3>3, <1>6, <1>10
      <4>5. newPos[next[b]] = IF pos[next[b]] <= pos[d] THEN pos[next[b]] ELSE pos[next[b]] + 1
        BY <4>1, <1>12
      <4>6. newPos[b] = IF pos[b] <= pos[d] THEN pos[b] ELSE pos[b] + 1
        BY <3>3, <1>12
      <4>7. newPos[next[b]] = IF newPos[b] = n THEN 0 ELSE newPos[b] + 1
        <5>1. CASE pos[b] < pos[d]
          BY <4>2, <4>4, <4>5, <4>6, <5>1
        <5>2. CASE pos[b] > pos[d]
          BY <4>2, <4>4, <4>5, <4>6, <5>2, <1>6
        <5> QED BY <4>3, <4>4, <5>1, <5>2
      <4>8. newPos[b] < n + 1
        BY <4>4, <4>6, <1>6
      <4> QED BY <4>1, <4>7, <4>8, <1>6
    <3> QED BY <1>6, <3>1, <3>2, <3>3
  <2>2. \A b, e \in 1..n+1 : newPos[b] = newPos[e] => b = e
    <3> SUFFICES ASSUME NEW b \in 1..n+1, NEW e \in 1..n+1, newPos[b] = newPos[e] PROVE b = e
      OBVIOUS
    <3>1. CASE b \in 1..n /\ e \in 1..n
      <4>1. pos[b] \in Nat /\ pos[e] \in Nat /\ pos[d] \in Nat
        BY <3>1, <1>6, <1>10
      <4>2. pos[b] = pos[e]
        BY <3>1, <4>1, <1>12
      <4> QED BY <3>1, <4>2, <1>13
    <3>2. \A x \in 1..n : newPos[x] # newPos[c]
      BY <1>6, <1>10, <1>12, SMTT(30)
    <3> QED BY <1>6, <3>1, <3>2
  <2>3. newPos[frontBlock] = 0 /\ frontBlock \in 1..n+1 /\ d \in 1..n+1
    BY <1>1, <1>6, <1>10, <1>12 DEF Ring
  <2> QED BY <1>3, <1>4, <1>6, <1>11, <2>1, <2>2, <2>3 DEF Ring
<1>16. \A b, e \in 1..n : /\ newPos[b] < newPos[e] <=> pos[b] < pos[e]
                          /\ newPos[b] <= newPos[e] <=> pos[b] <= pos[e]
  <2> SUFFICES ASSUME NEW b \in 1..n, NEW e \in 1..n
               PROVE  /\ newPos[b] < newPos[e] <=> pos[b] < pos[e]
                      /\ newPos[b] <= newPos[e] <=> pos[b] <= pos[e]
    OBVIOUS
  <2>1. pos[b] \in Nat /\ pos[e] \in Nat /\ pos[d] \in Nat
    BY <1>6, <1>10
  <2>2. newPos[b] = IF pos[b] <= pos[d] THEN pos[b] ELSE pos[b] + 1
    BY <1>12
  <2>3. newPos[e] = IF pos[e] <= pos[d] THEN pos[e] ELSE pos[e] + 1
    BY <1>12
  <2>4. newPos[b] < newPos[e] <=> pos[b] < pos[e]
    BY <2>1, <2>2, <2>3
  <2>5. newPos[b] <= newPos[e] <=> pos[b] <= pos[e]
    BY <2>1, <2>2, <2>3
  <2> QED BY <2>4, <2>5
<1>17. newPos[c] > newPos[d] /\ newPos[d] = pos[d]
  BY <1>6, <1>10, <1>12
<1>18. Fill(newPos)'
  <2> SUFFICES ASSUME NEW b \in 1..n+1
      PROVE  /\ b # frontBlock /\ newPos[b] < newPos[d] => Count(b) = sizeMask[b]
             /\ b # frontBlock /\ newPos[b] <= newPos[d] => Count(b) > 0
             /\ newPos[b] > newPos[d] /\ b # c => Count(b) = 0
    BY <1>2, <1>3, <1>4, <1>6, <1>8 DEF Fill
  <2>1. CASE b = c
    BY <2>1, <1>6, <1>10, <1>17, <1>12
  <2>2. CASE b \in 1..n
    <3>1. /\ b # frontBlock /\ pos[b] < pos[d] => Count(b) = sizeMask[b]
          /\ b # frontBlock /\ pos[b] <= pos[d] => Count(b) > 0
          /\ pos[b] > pos[d] => Count(b) = 0
      BY <2>2, <1>1, <1>3, <1>4, <1>6 DEF Fill
    <3> QED BY <2>2, <3>1, <1>6, <1>10, <1>12, SMTT(30)
  <2> QED BY <1>6, <2>1, <2>2
<1>19. Chain(newPos, base)'
  <2>1. \A b \in 1..n+1 : newPos[b] < newPos[d] => base[next'[b]] = base[b] + Count(b)
    <3> SUFFICES ASSUME NEW b \in 1..n+1, newPos[b] < newPos[d]
                 PROVE  base[next'[b]] = base[b] + Count(b)
      OBVIOUS
    <3>1. b # c /\ b # d /\ b \in 1..n
      BY <1>6, <1>10, <1>12, <1>17
    <3>2. pos[b] < pos[d]
      BY <3>1, <1>6, <1>16
    <3> QED BY <3>1, <3>2, <1>1, <1>3, <1>6, <1>7 DEF Chain
  <2>2. \A b, e \in 1..n+1 :
          newPos[b] < newPos[e] /\ newPos[e] <= newPos[d] => base[b] + Count(b) <= base[e]
    <3> SUFFICES ASSUME NEW b \in 1..n+1, NEW e \in 1..n+1,
                        newPos[b] < newPos[e], newPos[e] <= newPos[d]
                 PROVE  base[b] + Count(b) <= base[e]
      OBVIOUS
    <3>1. b # c /\ e # c /\ b \in 1..n /\ e \in 1..n
      BY <1>6, <1>10, <1>12, <1>17, SMTT(30)
    <3>2. pos[b] < pos[e] /\ pos[e] <= pos[d]
      BY <3>1, <1>6, <1>16
    <3> QED BY <3>1, <3>2, <1>1, <1>3, <1>6 DEF Chain
  <2>3. base[pnb] = sent + 1 /\ Count(pnb) = 1
    BY <1>1, <1>4 DEF Chain
  <2> QED BY <1>1, <1>3, <1>4, <1>6, <1>8, <2>1, <2>2, <2>3 DEF Chain
<1>20. Contents(base)'
  <2>1. \A b, i : Off(b, i)' = Off(b, i)
    BY <1>4 DEF Off
  <2>2. \A b, i : Holds(b, i)' <=> Holds(b, i)
    BY <1>4, <1>8, <2>1 DEF Holds
  <2>3. \A b, i : ~ Unpublished(b, i) /\ ~ Unpublished(b, i)'
    BY <1>4 DEF Unpublished
  <2> QED BY <1>1, <1>4, <2>1, <2>2, <2>3 DEF Contents
<1>21. TypeOK'
  BY <1>4, <1>7 DEF IInv, TypeOK, ProducerPcs
<1>22. Sizes'
  <2>1. InitialBlockCount <= n + 1
    BY <1>6, SizesPositive DEF IInv, Sizes
  <2> QED BY <1>4, <1>6, <2>1 DEF IInv, Sizes
<1>23. Indices'
  BY <1>4, IndicesUnchanged DEF IInv
<1>24. Producer'
  BY <1>2, <1>3, <1>4, <1>6, <1>7, <1>8 DEF Producer, IInv, EnqueuePcs, NextBlockPcs, Held
<1>25. Consumer'
  BY <1>3, <1>4, <1>6, <1>7, <1>8 DEF Consumer, IInv
<1>26. Walk'
  BY <1>4, <1>6 DEF Walk, IInv, SizePc
<1> QED BY <1>15, <1>18, <1>19, <1>20, <1>21, <1>22, <1>23, <1>24, <1>25, <1>26 DEF IInv, Structure

-----------------------------------------------------------------------------
(* The steps of the consumer, and size_approx *)

-----------------------------------------------------------------------------
\* try_dequeue, pop and peek look at front and their copy of tail.
LEMMA DequeueCallInv ==
  ASSUME IInv, NEW op \in ConsumerOps, DequeueCall(op) PROVE IInv'
<1> USE DEF DequeueCall, CUnchangedElse, consOwned, prodLocal, sizeVars, prodOwned
<1>1. TypeOK'
  BY OpsAssumption, HeldFacts DEF IInv, TypeOK, ConsumerPcs
<1>2. Sizes' /\ Indices' /\ \A b \in 1..allocated : Count(b)' = Count(b)
  BY IndicesUnchanged DEF IInv, Sizes, LinkedCount
<1>3. Producer'
  BY <1>2, InvFacts DEF Producer, IInv, EnqueuePcs, NextBlockPcs, Held
<1>4. Consumer'
  <2>1. front[frontBlock] # localTail[frontBlock] => front[frontBlock] # tail[frontBlock]
    <3> SUFFICES ASSUME front[frontBlock] # localTail[frontBlock]
                 PROVE  front[frontBlock] # tail[frontBlock]
      OBVIOUS
    <3>1. PICK b \in 1..allocated : b = frontBlock
      BY InvFacts
    <3>2. BlockFacts(b)
      BY InvFacts
    <3>3. ConsumerCount(b) > 0
      BY <3>1, <3>2, SpanRange DEF BlockFacts, ConsumerCount
    <3>4. Count(b) > 0
      BY <3>2, <3>3 DEF BlockFacts
    <3> QED BY <3>1, <3>2, <3>4 DEF BlockFacts
  <2> QED BY <2>1 DEF Consumer
<1>5. Walk'
  BY DEF Walk, IInv, SizePc, Linked, LinkedCount
<1>6. Structure'
  BY StructureKept DEF IInv
<1> QED BY <1>1, <1>2, <1>3, <1>4, <1>5, <1>6 DEF IInv

\* A fresh copy of frontBlock's tail keeps the invariant.
LEMMA DequeueRefreshTailInv ==
  ASSUME IInv, DequeueRefreshTail PROVE IInv'
<1> USE DEF DequeueRefreshTail, CGoto, CUnchangedElse, prodLocal, sizeVars, prodOwned
<1>1. PICK c \in 1..allocated : c = frontBlock
  BY InvFacts
<1>2. localTail' \in [Blocks -> Slots] /\ Indices' /\ localTail'[c] = tail[c]
  BY <1>1, LocalTailRefreshed DEF IInv
<1>3. TypeOK'
  BY <1>2 DEF IInv, TypeOK, ConsumerPcs
<1>4. Sizes'
  BY DEF IInv, Sizes, LinkedCount
<1>5. \A b : Count(b)' = Count(b)
  BY DEF Count
<1>6. Producer'
  BY <1>5 DEF Producer, IInv, Held
<1>7. Consumer'
  BY <1>1, <1>2 DEF Consumer, IInv
<1>8. Walk'
  BY DEF Walk, IInv, SizePc, Linked, LinkedCount
<1>9. Structure'
  BY StructureKept DEF IInv
<1> QED BY <1>2, <1>3, <1>4, <1>6, <1>7, <1>8, <1>9 DEF IInv

\* Comparing frontBlock with tailBlock keeps the invariant.
LEMMA DequeueCheckTailBlockInv ==
  ASSUME IInv, DequeueCheckTailBlock PROVE IInv'
<1> USE DEF DequeueCheckTailBlock, CGoto, CReturn, CUnchangedElse, prodLocal, sizeVars,
            prodOwned, consOwned
<1>1. TypeOK'
  BY DEF IInv, TypeOK, ConsumerPcs, Raw
<1>2. Sizes' /\ Indices' /\ \A b \in 1..allocated : Count(b)' = Count(b)
  BY IndicesUnchanged DEF IInv, Sizes, LinkedCount
<1>3. Producer'
  BY <1>2, InvFacts DEF Producer, IInv, Held
<1>4. Consumer'
  BY DEF Consumer, IInv
<1>5. Walk'
  BY DEF Walk, IInv, SizePc, Linked, LinkedCount
<1>6. Structure'
  BY StructureKept DEF IInv
<1> QED BY <1>1, <1>2, <1>3, <1>4, <1>5, <1>6 DEF IInv

\* Looking at frontBlock's tail again, once the producer is known to have left the
\* block, tells for good whether it is empty.
LEMMA DequeueRecheckInv ==
  ASSUME IInv, DequeueRecheck PROVE IInv'
<1> USE DEF DequeueRecheck, CGoto, CUnchangedElse, prodLocal, sizeVars, prodOwned
<1>1. PICK c \in 1..allocated : c = frontBlock
  BY InvFacts
<1>2. localTail' \in [Blocks -> Slots] /\ Indices' /\ localTail'[c] = tail[c]
  BY <1>1, LocalTailRefreshed DEF IInv
<1>3. TypeOK'
  BY <1>2 DEF IInv, TypeOK, ConsumerPcs
<1>4. Sizes'
  BY DEF IInv, Sizes, LinkedCount
<1>5. \A b : Count(b)' = Count(b)
  BY DEF Count
<1>6. Producer'
  BY <1>5 DEF Producer, IInv, Held
<1>7. Consumer'
  <2>1. front[c] = tail[c] => Count(c) = 0
    BY InvFacts DEF BlockFacts
  <2> QED BY <1>1, <1>2, <1>5, <2>1 DEF Consumer, IInv
<1>8. Walk'
  BY DEF Walk, IInv, SizePc, Linked, LinkedCount
<1>9. Structure'
  BY StructureKept DEF IInv
<1> QED BY <1>2, <1>3, <1>4, <1>6, <1>7, <1>8, <1>9 DEF IInv

\* Reading the next block's address keeps the invariant.
LEMMA DequeueReadNextInv ==
  ASSUME IInv, DequeueReadNext PROVE IInv'
<1> USE DEF DequeueReadNext, CUnchangedElse, prodLocal, sizeVars, prodOwned, consOwned
<1>1. TypeOK'
  BY InvFacts DEF IInv, TypeOK, ConsumerPcs
<1>2. Sizes' /\ Indices' /\ \A b \in 1..allocated : Count(b)' = Count(b)
  BY IndicesUnchanged DEF IInv, Sizes, LinkedCount
<1>3. Producer'
  BY <1>2, InvFacts DEF Producer, IInv, Held
<1>4. Consumer'
  BY <1>2, InvFacts DEF Consumer, IInv
<1>5. Walk'
  BY DEF Walk, IInv, SizePc, Linked, LinkedCount
<1>6. Structure'
  BY StructureKept DEF IInv
<1> QED BY <1>1, <1>2, <1>3, <1>4, <1>5, <1>6 DEF IInv

\* The next block holds an element when the consumer reads its tail.
LEMMA DequeueReadNextTailInv ==
  ASSUME IInv, DequeueReadNextTail PROVE IInv'
<1> USE DEF DequeueReadNextTail, CGoto, CUnchangedElse, prodLocal, sizeVars, prodOwned
<1>1. PICK c \in 1..allocated : c = cb
  BY InvFacts
<1>2. /\ cb = next[frontBlock] /\ frontBlock # tailBlock /\ Count(frontBlock) = 0
      /\ frontBlock \in 1..allocated
  BY InvFacts DEF IInv, Consumer
<1>3. front[c] # tail[c]
  <2>1. Count(c) > 0
    BY <1>1, <1>2, NextBlocks DEF IInv, Structure
  <2> QED BY <2>1, InvFacts DEF BlockFacts
<1>4. Indices' /\ localTail' \in [Blocks -> Slots] /\ (cop # "peek" => localTail'[c] = tail[c])
  <2>1. CASE cop = "peek"
    BY <2>1, IndicesUnchanged DEF IInv, TypeOK
  <2>2. CASE cop # "peek"
    BY <2>2, <1>1, LocalTailRefreshed DEF IInv
  <2> QED BY <2>1, <2>2
<1>5. TypeOK'
  BY <1>4 DEF IInv, TypeOK, ConsumerPcs
<1>6. Sizes'
  BY DEF IInv, Sizes, LinkedCount
<1>7. \A b : Count(b)' = Count(b)
  BY DEF Count
<1>8. Producer'
  BY <1>7 DEF Producer, IInv, Held
<1>9. Consumer'
  BY <1>1, <1>2, <1>3, <1>4, <1>7 DEF Consumer, IInv
<1>10. Walk'
  BY DEF Walk, IInv, SizePc, Linked, LinkedCount
<1>11. Structure'
  BY StructureKept DEF IInv
<1> QED BY <1>4, <1>5, <1>6, <1>8, <1>9, <1>10, <1>11 DEF IInv

-----------------------------------------------------------------------------
\* size_approx (lines 414-427) stays within the ring and changes no block.
LEMMA SizeApproxInv ==
  ASSUME IInv, NEW t \in Threads, SizeApproxCall(t) \/ SizeApprox(t) PROVE IInv'
<1> DEFINE Pcs == {"idle", "size", "sizeNext", "sizeDone"}
<1> USE DEF Threads, prodOwned, consOwned, prodLocal, consLocal, sizeVars
<1>1. /\ UNCHANGED <<prodOwned, consOwned, data, alive, sent, received>>
      /\ UNCHANGED <<pmode, pnb, pret, heldAtCall, cop, cb, celem, cret, emptyAtCall>>
      /\ ppc' = ppc \/ {ppc, ppc'} \subseteq Pcs
      /\ cpc' = cpc \/ {cpc, cpc'} \subseteq Pcs
      /\ SizePc(t)' \in Pcs
      /\ alive
  <2>1. CASE SizeApproxCall(t)
    BY <2>1 DEF SizeApproxCall, SizeGoto, SizePc, PGoto, CGoto
  <2>2. CASE SizeApproxBlock(t)
    BY <2>2 DEF SizeApproxBlock, SizeGoto, SizePc, PGoto, CGoto, IInv, Walk
  <2>3. CASE SizeApproxNext(t)
    BY <2>3 DEF SizeApproxNext, SizeGoto, SizePc, PGoto, CGoto, IInv, Walk
  <2>4. CASE SizeApproxReturn(t)
    BY <2>4 DEF SizeApproxReturn, SizeGoto, SizePc, PGoto, CGoto, IInv, Walk
  <2> QED BY <2>1, <2>2, <2>3, <2>4 DEF SizeApprox
<1>2. \A u \in Threads \ {t} : SizePc(u)' = SizePc(u)
  <2>1. SizeApproxCall(t) \/ SizeApprox(t) => \E pc : SizeGoto(t, pc)
    BY DEF SizeApproxCall, SizeApprox, SizeApproxBlock, SizeApproxNext, SizeApproxReturn
  <2> QED BY <2>1 DEF SizeGoto, SizePc, PGoto, CGoto
<1>3. Linked' = Linked /\ LinkedCount' = LinkedCount
  BY <1>1 DEF Linked, LinkedCount
<1>4. /\ {szStart', szBlock'} \subseteq [Threads -> 0..allocated]
      /\ {szSum', szHeld'} \subseteq [Threads -> Nat]
      /\ \A u \in Threads \ {t} : szBlock'[u] = szBlock[u]
      /\ SizePc(t)' \in {"size", "sizeNext"} => szBlock'[t] \in Linked
  <2>0. /\ {szStart, szBlock} \subseteq [Threads -> 0..allocated]
        /\ {szSum, szHeld} \subseteq [Threads -> Nat]
        /\ Linked \subseteq 1..allocated /\ 1..allocated \subseteq 0..allocated
        /\ frontBlock \in Linked
    BY InvFacts DEF IInv, TypeOK
  <2>1. CASE SizeApproxCall(t)
    BY <2>0, <2>1, HeldFacts DEF SizeApproxCall
  <2>2. CASE SizeApproxBlock(t)
    <3>1. PICK b \in Linked : b = szBlock[t]
      BY <2>2 DEF SizeApproxBlock, IInv, Walk
    <3>2. Count(b) \in Nat
      BY <3>1, <2>0, InvFacts DEF BlockFacts
    <3>3. szSum' = [szSum EXCEPT ![t] = szSum[t] + Count(b)]
      BY <2>2, <3>1 DEF SizeApproxBlock, Count
    <3>4. szSum[t] + Count(b) \in Nat
      BY <2>0, <3>2
    <3>5. szSum' \in [Threads -> Nat]
      BY <2>0, <3>3, <3>4
    <3>6. UNCHANGED <<szStart, szBlock, szHeld>>
      BY <2>2 DEF SizeApproxBlock
    <3>7. szBlock'[t] \in Linked
      BY <3>1, <3>6
    <3> QED BY <2>0, <3>5, <3>6, <3>7
  <2>3. CASE SizeApproxNext(t)
    <3>1. PICK b \in Linked : b = szBlock[t]
      BY <2>3 DEF SizeApproxNext, IInv, Walk
    <3>2. next[b] \in Linked
      BY <3>1, InvFacts
    <3>3. szBlock' = [szBlock EXCEPT ![t] = next[b]] /\ UNCHANGED <<szStart, szSum, szHeld>>
      BY <2>3, <3>1 DEF SizeApproxNext
    <3>4. next[b] \in 0..allocated
      BY <2>0, <3>2
    <3>5. szBlock' \in [Threads -> 0..allocated]
      BY <2>0, <3>3, <3>4
    <3>6. szBlock'[t] \in Linked /\ \A u \in Threads \ {t} : szBlock'[u] = szBlock[u]
      BY <2>0, <3>2, <3>3
    <3> QED BY <2>0, <3>3, <3>5, <3>6
  <2>4. CASE SizeApproxReturn(t)
    <3>1. SizePc(t)' = "idle"
      BY <2>4 DEF SizeApproxReturn, SizeGoto, SizePc, PGoto, CGoto
    <3> QED BY <2>0, <2>4, <3>1 DEF SizeApproxReturn
  <2> QED BY <2>1, <2>2, <2>3, <2>4 DEF SizeApprox
<1>5. TypeOK'
  BY <1>1, <1>4 DEF IInv, TypeOK, ProducerPcs, ConsumerPcs
<1>6. Sizes' /\ Indices' /\ \A b \in 1..allocated : Count(b)' = Count(b)
  BY <1>1, <1>3, IndicesUnchanged DEF IInv, Sizes
<1>7. Producer'
  BY <1>1, <1>6, InvFacts DEF IInv, Producer, Held, EnqueuePcs, NextBlockPcs
<1>8. Consumer'
  BY <1>1, <1>6, InvFacts DEF IInv, Consumer
<1>9. Walk'
  BY <1>1, <1>2, <1>3, <1>4 DEF Walk, IInv
<1>10. Structure'
  BY <1>1, StructureKept DEF IInv
<1> QED BY <1>5, <1>6, <1>7, <1>8, <1>9, <1>10 DEF IInv

\* Moving frontBlock on (line 277) numbers the ring anew from the next block and
\* keeps the invariant.
LEMMA DequeueAdvanceInv ==
  ASSUME IInv, DequeueAdvance PROVE IInv'
<1>1. PICK pos, base : Ring(pos) /\ Fill(pos) /\ Chain(pos, base) /\ Contents(base)
  BY DEF IInv, Structure
<1>2. PICK f \in Linked : f = frontBlock
  BY InvFacts
<1>3. PICK c \in Linked : c = next[f] /\ c = cb
  BY <1>2, InvFacts DEF DequeueAdvance, IInv, Consumer
<1>4. PICK d \in Linked : d = tailBlock
  BY InvFacts
<1>5. PICK n \in Nat : n = LinkedCount
  BY InvFacts
<1>6. /\ cpc = "advance" /\ cpc' = "take" /\ frontBlock' = c
      /\ UNCHANGED <<front, localTail, data, received, cop, cb, celem, cret, emptyAtCall,
                     tail, localFront, next, tailBlock, largestBlockSize, sizeMask, allocated,
                     ppc, pmode, pnb, pret, heldAtCall, szStart, szBlock, szSum, szHeld,
                     alive, sent>>
  BY <1>3 DEF DequeueAdvance, CGoto, CUnchangedElse, prodOwned, prodLocal, sizeVars
<1>7. /\ f # d /\ Count(f) = 0 /\ cop # "peek" /\ front[c] # localTail[c]
  BY <1>2, <1>3, <1>4, <1>6 DEF IInv, Consumer
<1>8. /\ Linked = 1..n /\ Linked' = Linked /\ LinkedCount' = n /\ Linked \subseteq 1..allocated
      /\ allocated \in Nat
      /\ \A b \in Linked : b \in Blocks
  BY <1>5, <1>6, InvFacts DEF Linked, LinkedCount, BlockFacts
<1>9. \A b : Count(b)' = Count(b)
  BY <1>6 DEF Count
<1>10. /\ pos[c] = 1 /\ pos[d] >= 1 /\ c # f /\ Count(c) > 0 /\ pos[f] = 0
       /\ \A b \in Linked : pos[b] \in 0..n-1 /\ base[b] \in Nat /\ Count(b) \in Nat
  <2>1. pos[c] = 1 /\ pos[d] >= 1 /\ c # f /\ Count(c) > 0
    BY <1>1, <1>2, <1>3, <1>4, <1>7, NextBlocks
  <2>2. \A b \in Linked : pos[b] \in Nat /\ base[b] \in Nat /\ Count(b) \in Nat
    BY <1>1, <1>8, ChainFacts
  <2>3. pos[f] = 0 /\ \A b \in Linked : pos[b] < n
    BY <1>1, <1>2, <1>5 DEF Ring
  <2>4. \A b \in Linked : pos[b] \in 0..n-1
    BY ONLY <2>2, <2>3, n \in Nat
  <2> QED BY ONLY <2>1, <2>2, <2>3, <2>4
<1>11. \A b \in Linked : /\ next[b] \in Linked
                         /\ pos[next[b]] = IF pos[b] = n - 1 THEN 0 ELSE pos[b] + 1
  BY <1>1, <1>5 DEF Ring
<1>12. \A b, e \in Linked : pos[b] = pos[e] => b = e
  BY <1>1 DEF Ring
<1>13. PICK newPos : newPos = [b \in Blocks |-> IF pos[b] = 0 THEN n - 1 ELSE pos[b] - 1]
  OBVIOUS
<1>14. newPos \in [Blocks -> Nat]
  <2>1. pos \in [Blocks -> Nat] /\ n - 1 \in Nat
    BY <1>1, <1>10 DEF Ring
  <2> QED BY <1>13, <2>1
<1>15. \A b \in Linked : /\ newPos[b] = IF pos[b] = 0 THEN n - 1 ELSE pos[b] - 1
                         /\ newPos[b] \in 0..n-1
  <2> SUFFICES ASSUME NEW b \in Linked
               PROVE  /\ newPos[b] = IF pos[b] = 0 THEN n - 1 ELSE pos[b] - 1
                      /\ newPos[b] \in 0..n-1
    OBVIOUS
  <2>1. newPos[b] = IF pos[b] = 0 THEN n - 1 ELSE pos[b] - 1
    BY <1>8, <1>13
  <2>2. pos[b] \in 0..n-1
    BY <1>10
  <2> QED BY <2>1, <2>2
<1>16. newPos[c] = 0 /\ newPos[d] = pos[d] - 1 /\ newPos[f] = n - 1
  BY <1>10, <1>15
<1>17. Ring(newPos)'
  <2>1. \A b \in Linked : newPos[next[b]] = IF newPos[b] = n - 1 THEN 0 ELSE newPos[b] + 1
    <3> SUFFICES ASSUME NEW b \in Linked
                 PROVE  newPos[next[b]] = IF newPos[b] = n - 1 THEN 0 ELSE newPos[b] + 1
      OBVIOUS
    <3>1. next[b] \in Linked /\ pos[next[b]] = IF pos[b] = n - 1 THEN 0 ELSE pos[b] + 1
      BY <1>11
    <3>2. newPos[b] = IF pos[b] = 0 THEN n - 1 ELSE pos[b] - 1
      BY <1>15
    <3>3. newPos[next[b]] = IF pos[next[b]] = 0 THEN n - 1 ELSE pos[next[b]] - 1
      BY <3>1, <1>15
    <3>4. pos[b] \in 0..n-1 /\ pos[d] \in 0..n-1 /\ pos[d] >= 1
      BY <1>10
    <3> QED BY <3>1, <3>2, <3>3, <3>4
  <2>2. \A b, e \in Linked : newPos[b] = newPos[e] => b = e
    <3> SUFFICES ASSUME NEW b \in Linked, NEW e \in Linked, newPos[b] = newPos[e] PROVE b = e
      OBVIOUS
    <3>1. pos[b] \in 0..n-1 /\ pos[e] \in 0..n-1
      BY <1>10
    <3>2. pos[b] = pos[e]
      BY <3>1, <1>15
    <3> QED BY <3>2, <1>12
  <2>3. \A b \in Linked : newPos[b] < n
    BY <1>5, <1>15
  <2>4. ppc = "link" => pnb = allocated /\ next[pnb] = next[tailBlock]
    BY <1>1 DEF Ring
  <2> QED BY <1>4, <1>6, <1>8, <1>11, <1>14, <1>16, <2>1, <2>2, <2>3, <2>4, ZenonT(60) DEF Ring
<1>18. \A b \in Linked : b # f =>
         /\ newPos[b] = pos[b] - 1
         /\ newPos[b] < newPos[d] <=> pos[b] < pos[d]
         /\ newPos[b] <= newPos[d] <=> pos[b] <= pos[d]
  <2> SUFFICES ASSUME NEW b \in Linked, b # f
               PROVE  /\ newPos[b] = pos[b] - 1
                      /\ newPos[b] < newPos[d] <=> pos[b] < pos[d]
                      /\ newPos[b] <= newPos[d] <=> pos[b] <= pos[d]
    OBVIOUS
  <2>1. pos[b] # 0
    BY <1>10, <1>12
  <2>2. pos[b] \in Nat /\ pos[d] \in Nat
    BY <1>10
  <2>3. newPos[b] = pos[b] - 1
    BY <2>1, <1>15
  <2> QED BY <2>2, <2>3, <1>16
<1>19. newPos[f] > newPos[d]
  BY <1>10, <1>16
<1>20. Fill(newPos)'
  <2> SUFFICES ASSUME NEW b \in Linked
      PROVE  /\ b # c /\ newPos[b] < newPos[d] => Count(b) = sizeMask[b]
             /\ b # c /\ newPos[b] <= newPos[d] => Count(b) > 0
             /\ newPos[b] > newPos[d] /\ ~(ppc = "advance" /\ b = pnb) => Count(b) = 0
    BY <1>4, <1>6, <1>8, <1>9 DEF Fill
  <2>1. CASE b = f
    BY <2>1, <1>7, <1>15, <1>19
  <2>2. CASE b # f
    <3>1. /\ pos[b] < pos[d] => Count(b) = sizeMask[b]
          /\ pos[b] <= pos[d] => Count(b) > 0
          /\ pos[b] > pos[d] /\ ~(ppc = "advance" /\ b = pnb) => Count(b) = 0
      BY <2>2, <1>1, <1>2, <1>4 DEF Fill
    <3>2. newPos[b] > newPos[d] => pos[b] > pos[d]
      BY <2>2, <1>10, <1>15, <1>18
    <3> QED BY <2>2, <3>1, <3>2, <1>18
  <2> QED BY <2>1, <2>2
<1>21. Chain(newPos, base)'
  <2>1. base[c] = received + 1
    <3>0. pos[f] < pos[d]
      BY <1>10
    <3>1. base[c] = base[f] + Count(f) /\ base[f] = received + 1
      BY <3>0, <1>1, <1>2, <1>3, <1>4 DEF Chain
    <3> QED BY <3>1, <1>7, <1>10
  <2>2. \A b \in Linked : newPos[b] < newPos[d] => base[next[b]] = base[b] + Count(b)
    <3> SUFFICES ASSUME NEW b \in Linked, newPos[b] < newPos[d]
                 PROVE  base[next[b]] = base[b] + Count(b)
      OBVIOUS
    <3>1. b # f
      BY <1>15, <1>19
    <3> QED BY <3>1, <1>1, <1>4, <1>18 DEF Chain
  <2>3. \A b, e \in Linked :
          newPos[b] < newPos[e] /\ newPos[e] <= newPos[d] => base[b] + Count(b) <= base[e]
    <3> SUFFICES ASSUME NEW b \in Linked, NEW e \in Linked,
                        newPos[b] < newPos[e], newPos[e] <= newPos[d]
                 PROVE  base[b] + Count(b) <= base[e]
      OBVIOUS
    <3>1. e # f /\ b # f
      BY <1>15, <1>19
    <3>2. pos[b] < pos[e] /\ pos[e] <= pos[d]
      BY <3>1, <1>10, <1>18
    <3> QED BY <3>2, <1>1, <1>4 DEF Chain
  <2> QED BY <1>1, <1>4, <1>6, <1>8, <1>9, <2>1, <2>2, <2>3 DEF Chain
<1>22. Contents(base)'
  <2>1. \A b, i : Off(b, i)' = Off(b, i)
    BY <1>6 DEF Off
  <2>2. \A b, i : Holds(b, i)' <=> Holds(b, i)
    BY <1>6, <1>9, <2>1 DEF Holds
  <2>3. \A b, i : Unpublished(b, i)' <=> Unpublished(b, i)
    BY <1>6 DEF Unpublished
  <2> QED BY <1>1, <1>6, <2>1, <2>2, <2>3 DEF Contents
<1>23. TypeOK'
  BY <1>3, <1>6, <1>8 DEF IInv, TypeOK, ConsumerPcs
<1>24. Sizes'
  BY <1>5, <1>6, <1>8 DEF IInv, Sizes
<1>25. Indices'
  BY <1>6, IndicesUnchanged DEF IInv
<1>26. Producer'
  <2>1. d # f /\ tailBlock # frontBlock
    BY <1>2, <1>4, <1>7
  <2>2. ppc \in {"nextFront", "nextConstruct", "nextTail", "advance"} => pnb # c
    <3> SUFFICES ASSUME ppc \in {"nextFront", "nextConstruct", "nextTail", "advance"} PROVE pnb # c
      OBVIOUS
    <3>1. pnb = next[tailBlock] /\ pnb # frontBlock
      BY DEF IInv, Producer
    <3>2. pos[pnb] = pos[d] + 1
      BY <1>1, <1>4, <3>1, NextBlocks
    <3> QED BY <3>2, <1>10
  <2> QED BY <1>6, <1>9, <2>1, <2>2 DEF Producer, IInv, Held
<1>27. Consumer'
  <2>1. BlockFacts(c)
    BY <1>8, InvFacts
  <2>2. front[c] # tail[c]
    BY <2>1, <1>10 DEF BlockFacts
  <2> QED BY <1>3, <1>6, <1>7, <2>2 DEF Consumer, IInv
<1>28. Walk'
  BY <1>6, <1>8 DEF Walk, IInv, SizePc
<1> QED BY <1>17, <1>20, <1>21, <1>22, <1>23, <1>24, <1>25, <1>26, <1>27, <1>28 DEF IInv, Structure

-----------------------------------------------------------------------------
\* The slot the consumer reads holds the oldest element.
LEMMA OldestElement ==
  ASSUME IInv, cpc = "take"
  PROVE  /\ data[cb][front[cb]] = received + 1
         /\ received < sent
         /\ front[cb] \in Slots
<1>1. PICK pos, base : Ring(pos) /\ Fill(pos) /\ Chain(pos, base) /\ Contents(base)
  BY DEF IInv, Structure
<1>2. PICK c \in 1..allocated : c = cb
  BY InvFacts
<1>3. /\ front[c] # tail[c]
      /\ \/ c = frontBlock
         \/ c = next[frontBlock] /\ frontBlock # tailBlock /\ Count(frontBlock) = 0
  BY <1>2 DEF IInv, Consumer
<1>4. /\ BlockFacts(c) /\ front[c] \in Slots /\ front[c] \in 0..sizeMask[c] /\ Count(c) > 0
      /\ Count(c) \in Nat /\ Off(c, front[c]) = 0
  <2>1. BlockFacts(c)
    BY InvFacts
  <2>2. front[c] \in Slots /\ front[c] \in 0..sizeMask[c] /\ Count(c) > 0 /\ Count(c) \in Nat
    BY <2>1, <1>3 DEF BlockFacts
  <2>3. Off(c, front[c]) = 0
    BY <2>1, OffEnds
  <2> QED BY <2>1, <2>2, <2>3
<1>5. /\ frontBlock \in Linked /\ tailBlock \in Linked /\ next[frontBlock] \in Linked
      /\ Linked \subseteq 1..allocated
      /\ sent \in Nat /\ received \in Nat
      /\ \A b \in 1..allocated : base[b] \in Nat /\ pos[b] \in Nat
  BY <1>1, InvFacts, ChainFacts
<1>6. base[c] = received + 1
  <2>1. base[frontBlock] = received + 1 /\ pos[frontBlock] = 0
    BY <1>1 DEF Chain, Ring
  <2>2. frontBlock # tailBlock => base[next[frontBlock]] = base[frontBlock] + Count(frontBlock)
    <3>1. frontBlock # tailBlock => pos[tailBlock] > pos[frontBlock]
      BY <1>1, <1>5, <2>1, NextBlocks
    <3> QED BY <3>1, <1>1, <1>5 DEF Chain
  <2> QED BY <1>3, <1>5, <2>1, <2>2
<1>7. Count(c) <= Held
  BY <1>3, HeldFacts
<1>8. received < sent
  BY <1>4, <1>5, <1>7 DEF Held
<1>9. Holds(c, front[c])
  BY <1>4 DEF Holds
<1>10. alive
  BY DEF IInv, Walk
<1>11. data[c][front[c]] = base[c] + Off(c, front[c])
  BY <1>1, <1>4, <1>9, <1>10 DEF Contents
<1> QED BY <1>2, <1>4, <1>5, <1>6, <1>8, <1>11

\* Taking the element out of its slot, or peeking at it, keeps the invariant.
LEMMA DequeueTakeInv ==
  ASSUME IInv, DequeueTake PROVE IInv'
<1>1. CASE cop = "peek"
  <2> USE <1>1 DEF DequeueTake, CReturn, CUnchangedElse, prodOwned, prodLocal, sizeVars, consOwned
  <2>1. TypeOK'
    <3>1. cret' \in Nat
      BY OldestElement, InvFacts
    <3> QED BY <3>1 DEF IInv, TypeOK, ConsumerPcs
  <2>2. Sizes' /\ Indices' /\ \A b \in 1..allocated : Count(b)' = Count(b)
    BY IndicesUnchanged DEF IInv, Sizes, LinkedCount
  <2>3. Producer'
    BY <2>2, InvFacts DEF Producer, IInv, Held
  <2>4. Consumer'
    BY DEF Consumer, IInv
  <2>5. Walk'
    BY DEF Walk, IInv, SizePc, Linked, LinkedCount
  <2>6. Structure'
    BY StructureKept DEF IInv
  <2> QED BY <2>1, <2>2, <2>3, <2>4, <2>5, <2>6 DEF IInv
<1>2. CASE cop # "peek"
  <2>1. PICK pos, base : Ring(pos) /\ Fill(pos) /\ Chain(pos, base) /\ Contents(base)
    BY DEF IInv, Structure
  <2>2. PICK c \in 1..allocated : c = cb
    BY InvFacts
  <2>3. PICK i \in Slots : i = front[c]
    BY <2>2, InvFacts DEF BlockFacts
  <2>4. /\ cpc = "take" /\ cpc' = "publish"
        /\ celem' = data[c][i]
        /\ data' = [data EXCEPT ![c][i] = Raw]
        /\ UNCHANGED <<cop, cb, cret, emptyAtCall, front, localTail, frontBlock, received,
                       tail, localFront, next, tailBlock, largestBlockSize, sizeMask, allocated,
                       ppc, pmode, pnb, pret, heldAtCall, szStart, szBlock, szSum, szHeld,
                       alive, sent>>
    BY <1>2, <2>2, <2>3 DEF DequeueTake, CUnchangedElse, prodOwned, prodLocal, sizeVars, consOwned
  <2>5. /\ c = frontBlock /\ front[c] # localTail[c] /\ front[c] # tail[c]
    BY <1>2, <2>2, <2>4 DEF IInv, Consumer
  <2>6. data[c][i] = received + 1
    BY <2>2, <2>3, <2>4, OldestElement
  <2>7. BlockFacts(c) /\ c \in Blocks /\ i \in 0..sizeMask[c]
    BY <2>3, InvFacts DEF BlockFacts
  <2>8. /\ data' \in [Blocks -> [Slots -> Nat]]
        /\ data'[c][i] = Raw
        /\ \A b \in Blocks, j \in Slots : ~ (b = c /\ j = i) => data'[b][j] = data[b][j]
    <3>1. data \in [Blocks -> [Slots -> Nat]] /\ Raw \in Nat
      BY DEF IInv, TypeOK, Raw
    <3>2. data[c] \in [Slots -> Nat]
      BY <2>7, <3>1
    <3>3. [data[c] EXCEPT ![i] = Raw] \in [Slots -> Nat]
      BY <3>1, <3>2
    <3>4. data' \in [Blocks -> [Slots -> Nat]]
      BY <2>4, <2>7, <3>1, <3>3
    <3>5. data'[c] = [data[c] EXCEPT ![i] = Raw] /\ \A b \in Blocks : b # c => data'[b] = data[b]
      BY <2>4, <2>7, <3>1
    <3> QED BY <3>2, <3>4, <3>5
  <2>9. \A b : Count(b)' = Count(b)
    BY <2>4 DEF Count
  <2>10. Linked' = Linked /\ LinkedCount' = LinkedCount
    BY <2>4 DEF Linked, LinkedCount
  <2>11. TypeOK'
    <3>1. celem' \in Nat
      BY <2>4, <2>6, InvFacts
    <3> QED BY <2>4, <2>8, <3>1 DEF IInv, TypeOK, ConsumerPcs
  <2>12. Sizes' /\ Indices'
    BY <2>4, <2>10, IndicesUnchanged DEF IInv, Sizes
  <2>13. Producer'
    BY <2>4, <2>9 DEF Producer, IInv, Held
  <2>14. Consumer'
    BY <2>2, <2>4, <2>5, <2>6 DEF Consumer
  <2>15. Walk'
    BY <2>4, <2>10 DEF Walk, IInv, SizePc
  <2>16. Ring(pos)'
    BY <2>1, <2>4, <2>10 DEF Ring
  <2>17. Fill(pos)'
    BY <2>1, <2>4, <2>9, <2>10 DEF Fill
  <2>18. Chain(pos, base)'
    BY <2>1, <2>4, <2>9, <2>10 DEF Chain
  <2>19. Contents(base)'
    <3>1. \A b, j : Off(b, j)' = Off(b, j)
      BY <2>4 DEF Off
    <3>2. \A b, j : Holds(b, j)' <=> Holds(b, j) /\ ~ (b = c /\ j = i)
      BY <2>3, <2>4, <2>5, <2>9, <3>1 DEF Holds
    <3>3. \A b, j : Unpublished(b, j)' <=> Unpublished(b, j)
      BY <2>4 DEF Unpublished
    <3>4. ~ Unpublished(c, i)
      BY <2>3, <2>4, <2>5 DEF Unpublished, IInv, Producer
    <3>5. alive
      BY <2>4 DEF IInv, Walk
    <3>6. \A b \in 1..allocated : b \in Blocks
      BY InvFacts DEF BlockFacts
    <3>7. \A b \in 1..allocated, j \in Slots :
            /\ Holds(b, j)' => data'[b][j] = base[b] + Off(b, j)
            /\ ~ Holds(b, j)' /\ Unpublished(b, j) => data'[b][j] = sent + 1
            /\ ~ Holds(b, j)' /\ ~ Unpublished(b, j) => data'[b][j] = Raw
      <4> SUFFICES ASSUME NEW b \in 1..allocated, NEW j \in Slots
          PROVE  /\ Holds(b, j)' => data'[b][j] = base[b] + Off(b, j)
                 /\ ~ Holds(b, j)' /\ Unpublished(b, j) => data'[b][j] = sent + 1
                 /\ ~ Holds(b, j)' /\ ~ Unpublished(b, j) => data'[b][j] = Raw
        OBVIOUS
      <4>1. CASE b = c /\ j = i
        BY <4>1, <3>2, <3>4, <2>8
      <4>2. CASE ~ (b = c /\ j = i)
        BY <4>2, <3>2, <3>5, <3>6, <2>1, <2>8 DEF Contents
      <4> QED BY <4>1, <4>2
    <3>8. \A b \in Blocks \ 1..allocated, j \in Slots : data'[b][j] = Raw
      BY <2>1, <2>8 DEF Contents
    <3> QED BY <2>4, <3>1, <3>3, <3>5, <3>7, <3>8 DEF Contents
  <2> QED BY <2>11, <2>12, <2>13, <2>14, <2>15, <2>16, <2>17, <2>18, <2>19 DEF IInv, Structure
<1> QED BY <1>1, <1>2

\* Advancing front releases the slot and keeps the invariant.
LEMMA DequeuePublishInv ==
  ASSUME IInv, DequeuePublish PROVE IInv'
<1>1. PICK pos, base : Ring(pos) /\ Fill(pos) /\ Chain(pos, base) /\ Contents(base)
  BY DEF IInv, Structure
<1>2. PICK c \in 1..allocated : c = cb
  BY InvFacts
<1>3. PICK i \in Slots : i = front[c]
  BY <1>2, InvFacts DEF BlockFacts
<1>4. /\ cpc = "publish" /\ cpc' = "idle" /\ received' = received + 1 /\ cret' = celem
      /\ front' = [front EXCEPT ![c] = Wrap(front[c], sizeMask[c])]
      /\ UNCHANGED <<localTail, frontBlock, data, cop, cb, celem, emptyAtCall,
                     tail, localFront, next, tailBlock, largestBlockSize, sizeMask, allocated,
                     ppc, pmode, pnb, pret, heldAtCall, szStart, szBlock, szSum, szHeld,
                     alive, sent>>
  BY <1>2 DEF DequeuePublish, CReturn, CUnchangedElse, prodOwned, prodLocal, sizeVars
<1>5. c = frontBlock /\ front[c] # localTail[c]
  BY <1>2, <1>4 DEF IInv, Consumer
<1>6. /\ front' \in [Blocks -> Slots] /\ Indices'
      /\ Count(c)' = Count(c) - 1
      /\ Count(c) > 0
      /\ front'[c] = Wrap(front[c], sizeMask[c])
      /\ \A b \in 1..allocated \ {c} : Count(b)' = Count(b) /\ front'[b] = front[b]
  BY <1>4, <1>5, FrontMoves DEF IInv
<1>7. /\ Linked' = Linked /\ LinkedCount' = LinkedCount /\ Linked \subseteq 1..allocated
      /\ c \in Linked /\ tailBlock \in Linked
  BY <1>4, <1>5, InvFacts DEF Linked, LinkedCount
<1>8. /\ \A b \in 1..allocated : b \in Blocks /\ base[b] \in Nat /\ pos[b] \in Nat /\ Count(b) \in Nat
      /\ sent \in Nat /\ received \in Nat /\ heldAtCall \in Nat
      /\ pos[c] = 0
  <2>1. pos[c] = 0
    BY <1>1, <1>5 DEF Ring
  <2>2. \A b \in 1..allocated : b \in Blocks
    BY InvFacts DEF BlockFacts
  <2> QED BY <1>1, <2>1, <2>2, ChainFacts, InvFacts
<1>9. PICK newBase : newBase = [base EXCEPT ![c] = base[c] + 1]
  OBVIOUS
<1>10. /\ newBase \in [Blocks -> Nat] /\ newBase[c] = base[c] + 1
       /\ \A b \in 1..allocated \ {c} : newBase[b] = base[b]
  BY <1>1, <1>8, <1>9 DEF Chain
<1>11. TypeOK'
  BY <1>4, <1>6, <1>8 DEF IInv, TypeOK, ConsumerPcs
<1>12. Sizes'
  BY <1>4, <1>7 DEF IInv, Sizes
<1>13. Producer'
  <2>1. tailBlock # frontBlock => Count(tailBlock)' = Count(tailBlock)
    BY <1>4, <1>5, <1>6, <1>7
  <2>2. Held' = Held - 1 /\ Held \in Nat
    BY <1>4, <1>8, HeldFacts DEF Held
  <2>3. heldAtCall >= Held => heldAtCall >= Held'
    BY <2>2, <1>8
  <2> QED BY <1>4, <2>1, <2>3 DEF Producer, IInv
<1>14. Consumer'
  BY <1>4 DEF Consumer
<1>15. Walk'
  BY <1>4, <1>7 DEF Walk, IInv, SizePc
<1>16. Ring(pos)'
  BY <1>1, <1>4, <1>7 DEF Ring
<1>17. Fill(pos)'
  <2> SUFFICES ASSUME NEW b \in Linked
      PROVE  /\ b # frontBlock /\ pos[b] < pos[tailBlock] => Count(b)' = sizeMask[b]
             /\ b # frontBlock /\ pos[b] <= pos[tailBlock] => Count(b)' > 0
             /\ pos[b] > pos[tailBlock] /\ ~(ppc = "advance" /\ b = pnb) => Count(b)' = 0
    BY <1>4, <1>7 DEF Fill
  <2>1. CASE b = c
    BY <2>1, <1>5, <1>7, <1>8
  <2>2. CASE b # c
    BY <2>2, <1>1, <1>5, <1>6, <1>7 DEF Fill
  <2> QED BY <2>1, <2>2
<1>18. Chain(pos, newBase)'
  <2>1. \A b \in 1..allocated : newBase[b] + Count(b)' = base[b] + Count(b)
    BY <1>6, <1>8, <1>10
  <2>2. newBase[frontBlock] = received' + 1
    BY <1>1, <1>4, <1>5, <1>8, <1>10 DEF Chain
  <2>3. newBase[tailBlock] + Count(tailBlock)' = sent + 1
    BY <1>1, <1>4, <1>7, <2>1 DEF Chain
  <2>4. \A b \in Linked : pos[b] < pos[tailBlock] => newBase[next[b]] = newBase[b] + Count(b)'
    <3> SUFFICES ASSUME NEW b \in Linked, pos[b] < pos[tailBlock]
                 PROVE  newBase[next[b]] = newBase[b] + Count(b)'
      OBVIOUS
    <3>1. next[b] \in Linked /\ pos[next[b]] = pos[b] + 1
      <4>1. pos[tailBlock] < LinkedCount /\ LinkedCount \in Nat
        BY <1>1, <1>7, InvFacts DEF Ring
      <4>2. pos[b] # LinkedCount - 1
        BY <4>1, <1>7, <1>8
      <4> QED BY <4>2, <1>1 DEF Ring
    <3>2. next[b] # c
      BY <3>1, <1>7, <1>8
    <3>3. base[next[b]] = base[b] + Count(b)
      BY <1>1 DEF Chain
    <3> QED BY <3>1, <3>2, <3>3, <2>1, <1>7, <1>10
  <2>5. \A b, e \in Linked :
          pos[b] < pos[e] /\ pos[e] <= pos[tailBlock] => newBase[b] + Count(b)' <= newBase[e]
    <3> SUFFICES ASSUME NEW b \in Linked, NEW e \in Linked, pos[b] < pos[e], pos[e] <= pos[tailBlock]
                 PROVE  newBase[b] + Count(b)' <= newBase[e]
      OBVIOUS
    <3>1. e # c
      BY <1>7, <1>8
    <3>2. base[b] + Count(b) <= base[e]
      BY <1>1 DEF Chain
    <3> QED BY <3>1, <3>2, <2>1, <1>7, <1>10
  <2>6. ppc \in {"link", "advance"} => newBase[pnb] = sent + 1 /\ Count(pnb)' = 1
    <3> SUFFICES ASSUME ppc \in {"link", "advance"} PROVE newBase[pnb] = sent + 1 /\ Count(pnb)' = 1
      OBVIOUS
    <3>1. base[pnb] = sent + 1 /\ Count(pnb) = 1
      BY <1>1 DEF Chain
    <3>2. pnb # c /\ pnb \in 1..allocated
      <4>1. CASE ppc = "link"
        <5>1. pnb = allocated /\ c \in 1..allocated - 1
          BY <4>1, <1>1, <1>7 DEF Ring, Linked, LinkedCount
        <5> QED BY <5>1, InvFacts
      <4>2. CASE ppc = "advance"
        BY <4>2, <1>5, <1>7, InvFacts DEF IInv, Producer
      <4> QED BY <4>1, <4>2
    <3> QED BY <3>1, <3>2, <1>4, <1>6, <1>10
  <2> QED BY <1>4, <1>7, <1>10, <2>2, <2>3, <2>4, <2>5, <2>6 DEF Chain
<1>19. Contents(newBase)'
  <2>1. BlockFacts(c) /\ i \in 0..sizeMask[c] /\ Off(c, i) = 0
    BY <1>3, InvFacts, OffEnds DEF BlockFacts
  <2>2. \A b \in 1..allocated \ {c}, j \in Slots : Off(b, j)' = Off(b, j)
    BY <1>4, <1>6 DEF Off
  <2>3. \A j \in 0..sizeMask[c] : j # i => Off(c, j)' = Off(c, j) - 1
    <3> SUFFICES ASSUME NEW j \in 0..sizeMask[c], j # i PROVE Off(c, j)' = Off(c, j) - 1
      OBVIOUS
    <3>1. Span(Wrap(front[c], sizeMask[c]), j, sizeMask[c]) = Span(front[c], j, sizeMask[c]) - 1
      BY <1>3, <2>1, SpanWrap DEF BlockFacts
    <3> QED BY <3>1, <1>4, <1>6 DEF Off
  <2>4. Off(c, i)' = sizeMask[c]
    <3>1. Span(Wrap(front[c], sizeMask[c]), front[c], sizeMask[c]) = sizeMask[c]
      BY <2>1, SpanWrap DEF BlockFacts
    <3> QED BY <3>1, <1>3, <1>4, <1>6 DEF Off
  <2>5. \A j \in 0..sizeMask[c] : Off(c, j) \in Nat
    BY <2>1, OffFacts
  <2>6. \A b \in 1..allocated, j \in Slots : Holds(b, j)' <=> Holds(b, j)
    <3> SUFFICES ASSUME NEW b \in 1..allocated, NEW j \in Slots PROVE Holds(b, j)' <=> Holds(b, j)
      OBVIOUS
    <3>1. CASE b # c
      BY <3>1, <2>2, <1>4, <1>5, <1>6 DEF Holds
    <3>2. CASE b = c /\ j = i
      <4>1. ~ Holds(c, i)
        BY <1>3, <1>4, <1>5 DEF Holds
      <4>2. ~ (Off(c, i)' < Count(c)')
        BY <2>1, <2>4, <1>6 DEF BlockFacts
      <4> QED BY <3>2, <4>1, <4>2 DEF Holds
    <3>3. CASE b = c /\ j # i
      <4>1. j \in 0..sizeMask[c] => (Off(c, j)' < Count(c)' <=> Off(c, j) < Count(c))
        BY <3>3, <2>3, <2>5, <1>6, <1>8
      <4> QED BY <3>3, <4>1, <1>3, <1>4 DEF Holds
    <3> QED BY <3>1, <3>2, <3>3
  <2>7. \A b, j : Unpublished(b, j)' <=> Unpublished(b, j)
    BY <1>4 DEF Unpublished
  <2>8. \A b \in 1..allocated, j \in Slots : Holds(b, j) => newBase[b] + Off(b, j)' = base[b] + Off(b, j)
    <3> SUFFICES ASSUME NEW b \in 1..allocated, NEW j \in Slots, Holds(b, j)
                 PROVE  newBase[b] + Off(b, j)' = base[b] + Off(b, j)
      OBVIOUS
    <3>1. CASE b # c
      BY <3>1, <2>2, <1>10
    <3>2. CASE b = c
      <4>1. j \in 0..sizeMask[c] /\ j # i
        BY <3>2, <1>3, <1>4, <1>5 DEF Holds
      <4> QED BY <3>2, <4>1, <2>3, <2>5, <1>8, <1>10
    <3> QED BY <3>1, <3>2
  <2>9. alive
    BY <1>4 DEF IInv, Walk
  <2> QED BY <1>1, <1>4, <2>6, <2>7, <2>8, <2>9 DEF Contents
<1> QED BY <1>6, <1>11, <1>12, <1>13, <1>14, <1>15, <1>16, <1>17, <1>18, <1>19 DEF IInv, Structure

-----------------------------------------------------------------------------
(* The constructor and the destructor *)

\* The constructor's ring (lines 86-133) satisfies the invariant.
LEMMA InitInv == Init => IInv
<1> SUFFICES ASSUME Init PROVE IInv
  OBVIOUS
<1>1. PICK n : n = InitialBlockCount
  OBVIOUS
<1>2. PICK m : m = InitialBlockSize - 1
  OBVIOUS
<1>3. /\ n \in Nat /\ n >= 1 /\ HeapBlocks \in Nat /\ n <= HeapBlocks /\ n \in Blocks
      /\ m \in Slots /\ m \in Nat /\ 0 \in Slots /\ InitialBlockSize \in 1..SlotBound
  BY <1>1, <1>2, SizesPositive DEF Blocks, Slots
<1>4. /\ allocated = n /\ LinkedCount = n /\ Linked = 1..n
      /\ frontBlock = 1 /\ tailBlock = 1 /\ frontBlock \in Linked
      /\ alive = TRUE /\ ppc = "idle" /\ cpc = "idle" /\ sent = 0 /\ received = 0
      /\ \A b \in Blocks : front[b] = 0 /\ tail[b] = 0 /\ localFront[b] = 0 /\ localTail[b] = 0
      /\ \A b \in 1..n : b \in Blocks /\ sizeMask[b] = m /\ next[b] = IF b = n THEN 1 ELSE b + 1
      /\ \A b \in Blocks, i \in Slots : data[b][i] = Raw
  BY <1>1, <1>2, <1>3 DEF Init, LinkedCount, Linked, Blocks
<1>5. TypeOK
  <2>1. {front, localTail, tail, localFront, sizeMask} \subseteq [Blocks -> Slots]
    BY <1>1, <1>2, <1>3 DEF Init
  <2>2. next \in [Blocks -> Blocks \cup {NoBlock}]
    BY <1>1, <1>3 DEF Init, Blocks
  <2>3. data \in [Blocks -> [Slots -> Nat]]
    BY DEF Init, Raw
  <2>4. {szStart, szBlock} \subseteq [Threads -> 0..allocated]
    BY <1>3, <1>4 DEF Init, Threads, NoBlock
  <2>5. {szSum, szHeld} \subseteq [Threads -> Nat]
    BY DEF Init, Threads
  <2> QED BY <1>3, <1>4, <2>1, <2>2, <2>3, <2>4, <2>5
          DEF Init, TypeOK, ProducerPcs, ConsumerPcs, NoBlock, Raw
<1>6. Sizes
  <2>1. \E k \in Nat : InitialBlockSize = 2^k
    BY Sizing, PowerIsCardinality DEF InitialBlockSize
  <2>2. largestBlockSize = InitialBlockSize /\ InitialBlockSize \in Nat
    BY SizesPositive DEF Init
  <2> QED BY <1>1, <1>2, <1>3, <1>4, <2>1, <2>2 DEF Sizes
<1>7. \A b \in 1..n : Count(b) = 0 /\ ConsumerCount(b) = 0 /\ ProducerCount(b) = 0
  BY <1>4, <1>3 DEF Count, ConsumerCount, ProducerCount, Span
<1>8. Indices
  BY <1>3, <1>4, <1>7 DEF Indices
<1>9. Producer /\ Consumer /\ Walk
  BY <1>4 DEF Init, Producer, Consumer, Walk, EnqueuePcs, NextBlockPcs, SizePc
<1>10. PICK pos : pos = [b \in Blocks |-> b - 1]
  OBVIOUS
<1>11. PICK base : base = [b \in Blocks |-> 1]
  OBVIOUS
<1>12. pos \in [Blocks -> Nat] /\ \A b \in 1..n : b \in Blocks /\ pos[b] = b - 1
  BY <1>3, <1>4, <1>10 DEF Blocks
<1>13. base \in [Blocks -> Nat] /\ \A b \in Blocks : base[b] = 1
  BY <1>11
<1>14. Ring(pos)
  <2>1. \A b \in 1..n : /\ pos[b] < n /\ next[b] \in 1..n
                        /\ pos[next[b]] = IF pos[b] = n - 1 THEN 0 ELSE pos[b] + 1
    BY <1>3, <1>4, <1>12, SMTT(30)
  <2> QED BY <1>3, <1>4, <1>12, <2>1 DEF Ring
<1>15. Fill(pos)
  BY <1>3, <1>4, <1>7, <1>12 DEF Fill
<1>16. Chain(pos, base)
  BY <1>3, <1>4, <1>7, <1>12, <1>13 DEF Chain
<1>17. Contents(base)
  <2>1. \A b \in 1..n, i \in Slots : ~ Holds(b, i) /\ ~ Unpublished(b, i)
    <3> SUFFICES ASSUME NEW b \in 1..n, NEW i \in Slots, Holds(b, i) PROVE FALSE
      BY <1>4 DEF Unpublished
    <3>1. i \in 0..m /\ Off(b, i) < 0
      BY <1>4, <1>7 DEF Holds
    <3>2. Off(b, i) >= 0
      BY <1>3, <1>4, <3>1 DEF Off, Span
    <3>3. Off(b, i) \in Int
      BY <1>3, <1>4, <3>1 DEF Off, Span
    <3> QED BY <3>1, <3>2, <3>3
  <2> QED BY <1>3, <1>4, <2>1 DEF Contents
<1>18. Structure
  BY <1>14, <1>15, <1>16, <1>17 DEF Structure
<1> QED BY <1>5, <1>6, <1>8, <1>9, <1>18 DEF IInv

-----------------------------------------------------------------------------
NthStep(f, n) ==
  f = [k \in 0..n |-> IF k = 0 THEN frontBlock
                      ELSE IF f[k - 1] = NoBlock THEN NoBlock ELSE next[f[k - 1]]]

\* The walk from frontBlock along next is defined for any number of steps.
LEMMA NthExists == \A n \in Nat : \E f : NthStep(f, n)
<1> DEFINE P == {n \in Nat : \E f : NthStep(f, n)}
<1>1. 0 \in P
  <2>1. NthStep([k \in 0..0 |-> frontBlock], 0)
    BY DEF NthStep
  <2> QED BY <2>1
<1>2. \A n \in Nat : n \in P => n + 1 \in P
  <2> SUFFICES ASSUME NEW n \in Nat, NEW f, NthStep(f, n)
               PROVE  \E h : NthStep(h, n + 1)
    OBVIOUS
  <2> DEFINE h == [k \in 0..n + 1 |-> IF k <= n THEN f[k]
                                      ELSE IF f[n] = NoBlock THEN NoBlock ELSE next[f[n]]]
  <2>1. \A k \in 0..n : f[k] = IF k = 0 THEN frontBlock
                        ELSE IF f[k - 1] = NoBlock THEN NoBlock ELSE next[f[k - 1]]
    BY DEF NthStep
  <2>2. \A k \in 0..n + 1 : h[k] = IF k = 0 THEN frontBlock
                        ELSE IF h[k - 1] = NoBlock THEN NoBlock ELSE next[h[k - 1]]
    <3> SUFFICES ASSUME NEW k \in 0..n + 1
                 PROVE  h[k] = IF k = 0 THEN frontBlock
                        ELSE IF h[k - 1] = NoBlock THEN NoBlock ELSE next[h[k - 1]]
      OBVIOUS
    <3>1. CASE k = 0
      BY <3>1, <2>1
    <3>2. CASE k # 0 /\ k <= n
      <4>1. h[k] = f[k] /\ h[k - 1] = f[k - 1]
        BY <3>2
      <4> QED BY <3>2, <4>1, <2>1
    <3>3. CASE k = n + 1
      <4>1. h[k - 1] = f[n] /\ h[k] = IF f[n] = NoBlock THEN NoBlock ELSE next[f[n]]
        BY <3>3
      <4> QED BY <3>3, <4>1
    <3> QED BY <3>1, <3>2, <3>3
  <2>3. h = [k \in 0..n + 1 |-> h[k]]
    OBVIOUS
  <2> HIDE DEF h
  <2>4. NthStep(h, n + 1)
    BY <2>2, <2>3 DEF NthStep
  <2> QED BY <2>4
<1> HIDE DEF P
<1>3. \A n \in Nat : n \in P
  BY <1>1, <1>2, NatSets
<1> QED BY <1>3 DEF P

\* Nth walks from frontBlock along next.
LEMMA NthIs == /\ Nth[0] = frontBlock
               /\ \A k \in 1..HeapBlocks :
                    Nth[k] = IF Nth[k - 1] = NoBlock THEN NoBlock ELSE next[Nth[k - 1]]
<1>1. Nth = CHOOSE f : NthStep(f, HeapBlocks)
  BY DEF Nth, NthStep
<1>2. \E f : NthStep(f, HeapBlocks)
  BY NthExists, SizesPositive
<1>3. NthStep(Nth, HeapBlocks)
  BY <1>1, <1>2
<1>4. \A k \in 0..HeapBlocks :
        Nth[k] = IF k = 0 THEN frontBlock
                 ELSE IF Nth[k - 1] = NoBlock THEN NoBlock ELSE next[Nth[k - 1]]
  BY <1>3 DEF NthStep
<1> QED BY <1>4, SizesPositive

\* The walk meets the linked blocks in the order of their numbers and is back at
\* frontBlock after as many steps as there are blocks.
LEMMA RingWalk ==
  ASSUME IInv, NEW pos, Ring(pos)
  PROVE  /\ LinkedCount \in 1..HeapBlocks
         /\ \A k \in 0..LinkedCount - 1 : Nth[k] \in Linked /\ pos[Nth[k]] = k
         /\ Nth[LinkedCount] = frontBlock
         /\ \A b \in Linked : pos[b] \in 0..LinkedCount - 1 /\ Nth[pos[b]] = b
<1>1. /\ LinkedCount \in Nat /\ Linked \subseteq 1..allocated /\ frontBlock \in Linked
      /\ tailBlock \in Linked /\ allocated \in Nat /\ allocated \in Blocks
  BY InvFacts
<1>2. LinkedCount \in 1..HeapBlocks
  BY <1>1, SizesPositive DEF Linked, LinkedCount, Blocks
<1>3. \A b \in Linked : pos[b] \in Nat /\ b # NoBlock
  BY <1>1, InvFacts DEF Ring, BlockFacts, NoBlock
<1> DEFINE P == {k \in Nat : k <= LinkedCount - 1 => Nth[k] \in Linked /\ pos[Nth[k]] = k}
<1>4. 0 \in P
  BY NthIs, <1>1 DEF Ring
<1>5. \A k \in Nat : k \in P => k + 1 \in P
  <2> SUFFICES ASSUME NEW k \in Nat, k \in P, k + 1 <= LinkedCount - 1
               PROVE  Nth[k + 1] \in Linked /\ pos[Nth[k + 1]] = k + 1
    OBVIOUS
  <2>1. Nth[k] \in Linked /\ pos[Nth[k]] = k
    BY <1>2
  <2>2. k + 1 \in 1..HeapBlocks /\ k + 1 - 1 = k
    BY <1>2, SizesPositive
  <2>3. Nth[k + 1] = next[Nth[k]]
    BY <2>1, <2>2, <1>3, NthIs
  <2> QED BY <2>1, <2>3, <1>2 DEF Ring
<1> HIDE DEF P
<1>6. \A k \in Nat : k \in P
  BY <1>4, <1>5, NatSets
<1>7. \A k \in 0..LinkedCount - 1 : Nth[k] \in Linked /\ pos[Nth[k]] = k
  BY <1>6, <1>2 DEF P
<1>8. Nth[LinkedCount] = frontBlock
  <2>1. Nth[LinkedCount - 1] \in Linked /\ pos[Nth[LinkedCount - 1]] = LinkedCount - 1
    BY <1>2, <1>7
  <2>2. Nth[LinkedCount] = next[Nth[LinkedCount - 1]]
    BY <2>1, <1>2, <1>3, NthIs
  <2>3. Nth[LinkedCount] \in Linked /\ pos[Nth[LinkedCount]] = 0 /\ pos[frontBlock] = 0
    BY <2>1, <2>2 DEF Ring
  <2> QED BY <2>3, <1>1 DEF Ring
<1>9. ASSUME NEW b \in Linked PROVE pos[b] \in 0..LinkedCount - 1 /\ Nth[pos[b]] = b
  <2>1. pos[b] \in 0..LinkedCount - 1
    BY <1>2, <1>3 DEF Ring
  <2>2. Nth[pos[b]] \in Linked /\ pos[Nth[pos[b]]] = pos[b]
    BY <2>1, <1>7
  <2> QED BY <2>1, <2>2 DEF Ring
<1> QED BY <1>2, <1>7, <1>8, <1>9

\* The destructor's walk (lines 148-164) meets every linked block.
LEMMA RingBlocksAre ==
  ASSUME IInv
  PROVE  RingBlocks = Linked
<1>1. PICK pos : Ring(pos)
  BY DEF IInv, Structure
<1> DEFINE steps == {k \in 1..HeapBlocks : Nth[k] = frontBlock}
           before == {j \in 0..HeapBlocks - 1 : \A i \in steps : j < i}
<1>2. RingBlocks = {Nth[k] : k \in before}
  BY DEF RingBlocks
<1>3. /\ LinkedCount \in 1..HeapBlocks /\ HeapBlocks \in Nat
      /\ \A k \in 0..LinkedCount - 1 : Nth[k] \in Linked /\ pos[Nth[k]] = k
      /\ Nth[LinkedCount] = frontBlock
      /\ \A b \in Linked : pos[b] \in 0..LinkedCount - 1 /\ Nth[pos[b]] = b
      /\ pos[frontBlock] = 0
  BY <1>1, RingWalk, SizesPositive DEF Ring
<1>4. LinkedCount \in steps
  BY <1>3
<1>5. \A i \in steps : i >= LinkedCount
  <2> SUFFICES ASSUME NEW i \in steps, i < LinkedCount PROVE FALSE
    BY <1>3
  <2>1. i \in 0..LinkedCount - 1 /\ i # 0 /\ Nth[i] = frontBlock
    BY <1>3
  <2> QED BY <2>1, <1>3
<1>6. before = 0..LinkedCount - 1
  <2>1. ASSUME NEW j \in before PROVE j \in 0..LinkedCount - 1
    BY <1>3, <1>4
  <2>2. ASSUME NEW j \in 0..LinkedCount - 1 PROVE j \in before
    <3>1. \A i \in steps : i \in Nat /\ i >= LinkedCount
      BY <1>5
    <3> HIDE DEF steps
    <3>2. \A i \in steps : j < i
      BY <1>3, <3>1
    <3>3. j \in 0..HeapBlocks - 1
      BY <1>3
    <3> QED BY <3>2, <3>3
  <2> QED BY <2>1, <2>2
<1> HIDE DEF before
<1>7. \A b \in Linked : \E k \in before : b = Nth[k]
  BY <1>3, <1>6
<1>8. \A k \in before : Nth[k] \in Linked
  BY <1>3, <1>6
<1> QED BY <1>2, <1>7, <1>8

\* The destructor destroys every element and keeps the invariant.
LEMMA DestroyInv ==
  ASSUME IInv, Destroy PROVE IInv'
<1>1. PICK pos, base : Ring(pos) /\ Fill(pos) /\ Chain(pos, base) /\ Contents(base)
  BY DEF IInv, Structure
<1>2. /\ alive /\ ppc = "idle" /\ cpc = "idle" /\ alive' = FALSE
      /\ UNCHANGED <<front, tail, localFront, localTail, sizeMask, next, allocated,
                     frontBlock, tailBlock, largestBlockSize, sent, received,
                     ppc, pmode, pnb, pret, heldAtCall, cpc, cop, cb, celem, cret, emptyAtCall,
                     szStart, szBlock, szSum, szHeld>>
      /\ data' = [b \in Blocks |-> [i \in Slots |->
                IF b \in RingBlocks /\ i \in Live(b) THEN Raw ELSE data[b][i]]]
  BY DEF Destroy, prodOwned, consOwned, prodLocal, consLocal, sizeVars
<1>3. RingBlocks = 1..allocated /\ allocated \in Blocks
  BY <1>2, RingBlocksAre, InvFacts DEF Linked, LinkedCount
<1>4. \A b \in Blocks, i \in Slots : data'[b][i] = Raw
  <2> SUFFICES ASSUME NEW b \in Blocks, NEW i \in Slots PROVE data'[b][i] = Raw
    OBVIOUS
  <2>1. data'[b][i] = IF b \in RingBlocks /\ i \in Live(b) THEN Raw ELSE data[b][i]
    BY <1>2
  <2>2. CASE b \notin 1..allocated
    BY <2>1, <2>2, <1>1, <1>3 DEF Contents
  <2>3. CASE b \in 1..allocated /\ i \notin Live(b)
    <3>1. ~ Holds(b, i) /\ ~ Unpublished(b, i)
      BY <1>2, <2>3 DEF Holds, Live, Off, Count, Unpublished
    <3> QED BY <2>1, <2>3, <3>1, <1>1, <1>2 DEF Contents
  <2>4. CASE b \in 1..allocated /\ i \in Live(b)
    BY <2>1, <2>4, <1>3
  <2> QED BY <2>2, <2>3, <2>4
<1>5. TypeOK'
  <2>1. data \in [Blocks -> [Slots -> Nat]]
    BY DEF IInv, TypeOK
  <2>2. data' \in [Blocks -> [Slots -> Nat]]
    BY <1>2, <2>1 DEF Raw
  <2> QED BY <1>2, <2>2 DEF IInv, TypeOK
<1>6. Sizes' /\ Indices' /\ (\A b : Count(b)' = Count(b))
  BY <1>2, IndicesUnchanged DEF IInv, Sizes, LinkedCount, Count
<1>7. Producer' /\ Consumer' /\ Walk'
  BY <1>2 DEF IInv, Producer, Consumer, Walk, EnqueuePcs, NextBlockPcs, SizePc, Linked, LinkedCount
<1>8. Linked' = Linked /\ LinkedCount' = LinkedCount
  BY <1>2 DEF Linked, LinkedCount
<1>9. Ring(pos)'
  BY <1>1, <1>2, <1>8 DEF Ring
<1>10. Fill(pos)'
  BY <1>1, <1>2, <1>6, <1>8 DEF Fill
<1>11. Chain(pos, base)'
  BY <1>1, <1>2, <1>6, <1>8 DEF Chain
<1>12. Contents(base)'
  <2>1. \A b \in 1..allocated : b \in Blocks
    BY InvFacts DEF BlockFacts
  <2> QED BY <1>2, <1>4, <2>1 DEF Contents
<1>13. Structure'
  BY <1>9, <1>10, <1>11, <1>12 DEF Structure
<1> QED BY <1>5, <1>6, <1>7, <1>13 DEF IInv

-----------------------------------------------------------------------------
\* After the destructor no slot holds an object.
LEMMA DestroyedRaw == IInv => DestructorLeavesNothing
BY DEF IInv, Structure, Contents, DestructorLeavesNothing

\* The invariant implies FIFO order.
LEMMA TakesOldest == IInv => FifoOrder
BY OldestElement DEF IInv, Consumer, FifoOrder

\* The invariant implies that enqueues fail only on a full queue.
LEMMA RefusesOnlyWhenFull == IInv => HoldsMaxSize
BY DEF IInv, Producer, EnqueuePcs, HoldsMaxSize

\* The invariant implies the assertions of the code.
LEMMA AssertionsHold == IInv => CodeAssertions
BY DEF IInv, Producer, Consumer, CodeAssertions

\* The first place at which the walk meets tailBlock is tailBlock's number.
LEMMA TailFound ==
  ASSUME IInv, NEW pos, Ring(pos)
  PROVE  (CHOOSE k \in 0..HeapBlocks :
            Nth[k] = tailBlock /\ \A j \in 0..k - 1 : Nth[j] # tailBlock) = pos[tailBlock]
<1> DEFINE First(k) == Nth[k] = tailBlock /\ \A j \in 0..k - 1 : Nth[j] # tailBlock
           t == pos[tailBlock]
<1>1. /\ LinkedCount \in 1..HeapBlocks /\ HeapBlocks \in Nat
      /\ \A k \in 0..LinkedCount - 1 : Nth[k] \in Linked /\ pos[Nth[k]] = k
      /\ t \in 0..LinkedCount - 1 /\ Nth[t] = tailBlock
  BY RingWalk, InvFacts, SizesPositive
<1>2. t \in 0..HeapBlocks
  BY <1>1
<1>3. First(t)
  <2> SUFFICES ASSUME NEW j \in 0..t - 1, Nth[j] = tailBlock PROVE FALSE
    BY <1>1
  <2>1. j \in 0..LinkedCount - 1 /\ j # t
    BY <1>1
  <2> QED BY <2>1, <1>1
<1>4. \A k \in 0..HeapBlocks : First(k) => k = t
  <2> SUFFICES ASSUME NEW k \in 0..HeapBlocks, First(k), k # t PROVE FALSE
    OBVIOUS
  <2>1. ~ (t < k)
    BY <1>1, <1>2
  <2>2. k \in 0..LinkedCount - 1
    BY <2>1, <1>1
  <2>3. pos[Nth[k]] = k
    BY <2>2, <1>1
  <2> QED BY <2>3
<1> HIDE DEF First
<1>5. (CHOOSE k \in 0..HeapBlocks : First(k)) = t
  BY <1>2, <1>3, <1>4
<1> QED BY <1>5 DEF First

\* The numbering of the ring implies which blocks are full and which are empty.
LEMMA FullBetween == IInv => BetweenFrontAndTailFull
<1> SUFFICES ASSUME IInv PROVE BetweenFrontAndTailFull
  OBVIOUS
<1>1. PICK pos : Ring(pos) /\ Fill(pos)
  BY DEF IInv, Structure
<1>2. PICK d : d = pos[tailBlock]
  OBVIOUS
<1>3. /\ LinkedCount \in 1..HeapBlocks /\ d \in 0..LinkedCount - 1
      /\ \A k \in 0..LinkedCount - 1 : Nth[k] \in Linked /\ pos[Nth[k]] = k
      /\ pos[frontBlock] = 0
  BY <1>1, <1>2, RingWalk, InvFacts DEF Ring
<1>4. \A b \in Linked : /\ b # frontBlock /\ pos[b] < d => Count(b) = sizeMask[b]
                        /\ pos[b] > d /\ ppc # "advance" => Count(b) = 0
  BY <1>1, <1>2 DEF Fill
<1>5. ASSUME NEW k \in 1..allocated - 1
      PROVE  /\ k < d => Count(Nth[k]) = sizeMask[Nth[k]]
             /\ k > d /\ ppc \notin {"link", "advance"} => Count(Nth[k]) = 0
  <2>1. k \in 0..LinkedCount - 1 => Nth[k] \in Linked /\ pos[Nth[k]] = k /\ Nth[k] # frontBlock
    BY <1>3
  <2>2. k < d => k \in 0..LinkedCount - 1
    BY <1>3
  <2>3. ppc # "link" => k \in 0..LinkedCount - 1
    BY DEF LinkedCount
  <2> QED BY <2>1, <2>2, <2>3, <1>4
<1>6. d = CHOOSE k \in 0..HeapBlocks :
            Nth[k] = tailBlock /\ \A j \in 0..k - 1 : Nth[j] # tailBlock
  BY <1>1, <1>2, TailFound
<1> QED BY <1>5, <1>6 DEF BetweenFrontAndTailFull, Count

\* The producer constructs elements only in slots that are free.
LEMMA FreshSlots == IInv => ConstructsInRawSlots
<1> SUFFICES ASSUME IInv PROVE ConstructsInRawSlots
  OBVIOUS
<1>1. PICK base : Contents(base)
  BY DEF IInv, Structure
<1>2. ASSUME NEW c \in 1..allocated, ppc \in {"construct", "nextConstruct"}
      PROVE  data[c][tail[c]] = Raw
  <2>1. PICK t : t = tail[c]
    OBVIOUS
  <2>2. BlockFacts(c) /\ t \in Slots
    BY <2>1, InvFacts DEF BlockFacts
  <2>3. Off(c, t) = Count(c) /\ Count(c) \in Nat
    BY <2>1, <2>2, OffEnds DEF BlockFacts
  <2>4. ~ Holds(c, t) /\ ~ Unpublished(c, t)
    BY <1>2, <2>3 DEF Holds, Unpublished
  <2>5. alive
    BY <1>2 DEF IInv, Walk
  <2> QED BY <1>1, <2>1, <2>2, <2>4, <2>5 DEF Contents
<1>3. ppc = "construct" => data[tailBlock][tail[tailBlock]] = Raw
  BY <1>2, InvFacts
<1>4. ppc = "nextConstruct" => data[pnb][tail[pnb]] = Raw
  <2>1. ppc = "nextConstruct" => pnb \in 1..allocated
    BY InvFacts DEF IInv, Producer
  <2> QED BY <1>2, <2>1
<1> QED BY <1>3, <1>4 DEF ConstructsInRawSlots

-----------------------------------------------------------------------------
\* Every step of the producer's enqueue keeps the invariant.
LEMMA EnqueueInv == ASSUME IInv, Enqueue PROVE IInv'
BY EnqueueRefreshFrontInv, EnqueueConstructInv, EnqueuePublishInv, EnqueueTailFullInv,
   EnqueueNextFrontInv, EnqueueNextConstructInv, EnqueueNextTailInv, EnqueueAllocateInv,
   EnqueueOutOfMemoryInv, EnqueueLinkInv, EnqueueAdvanceInv
   DEF Enqueue

\* Every step of the consumer's calls keeps the invariant.
LEMMA DequeueInv == ASSUME IInv, Dequeue PROVE IInv'
BY DequeueRefreshTailInv, DequeueCheckTailBlockInv, DequeueRecheckInv, DequeueReadNextInv,
   DequeueReadNextTailInv, DequeueAdvanceInv, DequeueTakeInv, DequeuePublishInv
   DEF Dequeue

\* A stuttering step keeps the invariant.
LEMMA StutterInv == ASSUME IInv, UNCHANGED vars PROVE IInv'
<1> USE DEF vars, prodOwned, consOwned, prodLocal, consLocal, sizeVars
<1>1. TypeOK'
  BY DEF IInv, TypeOK
<1>2. Sizes' /\ Indices' /\ (\A b : Count(b)' = Count(b))
  BY IndicesUnchanged DEF IInv, Sizes, LinkedCount, Count
<1>3. Producer' /\ Consumer' /\ Walk'
  BY <1>2 DEF IInv, Producer, Consumer, Walk, Held, SizePc, Linked, LinkedCount
<1>4. Structure'
  BY StructureKept DEF IInv
<1> QED BY <1>1, <1>2, <1>3, <1>4 DEF IInv

\* The invariant holds in every reachable state, however the steps of the two
\* threads interleave.
THEOREM InvariantHolds == Spec => []IInv
<1>1. IInv /\ [Next]_vars => IInv'
  <2> SUFFICES ASSUME IInv, [Next]_vars PROVE IInv'
    OBVIOUS
  <2>1. ASSUME NEW op \in ProducerOps, EnqueueCall(op) PROVE IInv'
    BY <2>1, EnqueueCallInv
  <2>2. CASE Enqueue
    BY <2>2, EnqueueInv
  <2>3. ASSUME NEW op \in ConsumerOps, DequeueCall(op) PROVE IInv'
    BY <2>3, DequeueCallInv
  <2>4. CASE Dequeue
    BY <2>4, DequeueInv
  <2>5. ASSUME NEW t \in {"producer", "consumer"}, SizeApproxCall(t) \/ SizeApprox(t) PROVE IInv'
    <3>1. t \in Threads
      BY DEF Threads
    <3> QED BY <2>5, <3>1, SizeApproxInv
  <2>6. CASE Destroy
    BY <2>6, DestroyInv
  <2>7. CASE UNCHANGED vars
    BY <2>7, StutterInv
  <2> QED BY <2>1, <2>2, <2>3, <2>4, <2>5, <2>6, <2>7 DEF Next
<1> QED
  BY InitInv, <1>1, PTL DEF Spec

\* Every variable keeps its type: indices stay within their block, addresses
\* within the blocks made, and no block is larger than SlotBound.
THEOREM TypeCorrect == Spec => []TypeOK
<1>1. IInv => TypeOK
  BY DEF IInv
<1> QED
  BY <1>1, InvariantHolds, PTL

\* The element the consumer takes is always the oldest one published and not yet
\* taken, in whatever block and slot it finds it (try_dequeue, lines 219-227).
THEOREM TakesInOrder == Spec => []FifoOrder
<1>1. IInv => FifoOrder
  BY TakesOldest
<1> QED
  BY <1>1, InvariantHolds, PTL

\* The producer never constructs an element over one still to be read or being
\* read (lines 456, 483).
THEOREM ConstructsInFreeSlots == Spec => []ConstructsInRawSlots
<1>1. IInv => ConstructsInRawSlots
  BY FreshSlots
<1> QED
  BY <1>1, InvariantHolds, PTL

\* The assertions of the code (lines 272, 337, 388, 479) never fail.
THEOREM AssertionsNeverFail == Spec => []CodeAssertions
<1>1. IInv => CodeAssertions
  BY AssertionsHold
<1> QED
  BY <1>1, InvariantHolds, PTL

\* An element is refused, or memory asked for, only when the queue held maxSize
\* elements at the call (lines 76-79).
THEOREM RoomForMaxSize == Spec => []HoldsMaxSize
<1>1. IInv => HoldsMaxSize
  BY RefusesOnlyWhenFull
<1> QED
  BY <1>1, InvariantHolds, PTL

\* Blocks between the consumer's and the producer's are full, all others empty.
THEOREM BlocksInOrder == Spec => []BetweenFrontAndTailFull
<1>1. IInv => BetweenFrontAndTailFull
  BY FullBetween
<1> QED
  BY <1>1, InvariantHolds, PTL

\* The destructor (lines 148-164) destroys every element that is left.
THEOREM NothingLeaks == Spec => []DestructorLeavesNothing
<1>1. IInv => DestructorLeavesNothing
  BY DestroyedRaw
<1> QED
  BY <1>1, InvariantHolds, PTL

-----------------------------------------------------------------------------
\* size_approx (lines 414-427) walks the ring, from the block that was frontBlock at the
\* call until it is there again, while the other thread moves its end of the queue.
SizeApproxPcs == {"size", "sizeNext", "sizeDone"}

\* The consumer calls: frontBlock stays.  A is the blocks from frontBlock to tailBlock,
\* whose elements are numbered by base; the others are empty, but for the element that
\* enqueue writes before it moves tailBlock on.
Region(A, base) ==
  /\ A \subseteq Linked /\ frontBlock \in A /\ tailBlock \in A
  /\ base \in [Blocks -> Nat]
  /\ \A b \in A \ {tailBlock} :
       next[b] \in A \ {frontBlock} /\ base[next[b]] = base[b] + Count(b)
  /\ \A b \in Linked \ (A \ {tailBlock}) : next[b] \notin A \ {frontBlock}
  /\ \A b \in Linked \ A : Count(b) = IF ppc = "advance" /\ b = pnb THEN 1 ELSE 0
  /\ base[frontBlock] = received + 1
  /\ base[tailBlock] + Count(tailBlock) = sent + 1

\* The sum is at most what has been seen of the queue, and it falls short of it only
\* if it has reached what was held at the call.
Between(sum, held, seen) == sum <= seen /\ (held <= sum \/ seen <= sum)

\* The sum so far, by how far the walk has come: what was seen are the elements before
\* those of the block the walk is at.
ConsumerSum(A, base) ==
  LET b == szBlock["consumer"]
      sum == szSum["consumer"]
      held == szHeld["consumer"]
  IN  /\ cpc = "size" /\ b \in A => Between(sum, held, base[b] - received - 1)
      /\ cpc = "sizeNext" /\ b \in A \ {tailBlock} =>
           Between(sum, held, base[next[b]] - received - 1)
      /\ cpc = "sizeNext" /\ b = tailBlock => held <= sum /\ sum <= Held
      /\ cpc \in {"size", "sizeNext"} /\ b \notin A =>
           /\ held <= sum
           /\ \/ sum <= Held
              \/ /\ sum <= Held + 1
                 /\ ppc = "advance" /\ ~(cpc = "size" /\ b = pnb)
      /\ cpc = "sizeDone" => held <= sum /\ sum <= Held + 1

ConsumerWalk ==
  cpc \in SizeApproxPcs =>
    /\ szStart["consumer"] = frontBlock /\ szHeld["consumer"] <= Held
    /\ \E A, base : Region(A, base) /\ ConsumerSum(A, base)

\* No two blocks are linked to the same block.
LEMMA NextInjective ==
  ASSUME IInv, NEW b \in Linked, NEW c \in Linked, next[b] = next[c]
  PROVE  b = c
<1>1. PICK pos : Ring(pos)
  BY DEF IInv, Structure
<1>2. pos[b] \in Nat /\ pos[c] \in Nat /\ LinkedCount \in Nat
  BY <1>1, InvFacts DEF Ring, BlockFacts
<1>3. pos[b] = pos[c]
  BY <1>1, <1>2 DEF Ring
<1> QED BY <1>1, <1>3 DEF Ring

\* Region stays as it is while no count, no link and neither end moves.
LEMMA RegionKept ==
  ASSUME NEW A, NEW base, Region(A, base),
         UNCHANGED <<frontBlock, tailBlock, sent, received>>,
         Linked' = Linked,
         \A b \in Linked : next'[b] = next[b] /\ Count(b)' = Count(b),
         \/ ppc' = ppc /\ pnb' = pnb
         \/ "advance" \notin {ppc, ppc'}
  PROVE  Region(A, base)'
BY DEF Region

\* So does all of ConsumerWalk.
LEMMA ConsumerWalkKept ==
  ASSUME ConsumerWalk,
         UNCHANGED <<cpc, frontBlock, tailBlock, sent, received>>,
         szStart'["consumer"] = szStart["consumer"], szBlock'["consumer"] = szBlock["consumer"],
         szSum'["consumer"] = szSum["consumer"], szHeld'["consumer"] = szHeld["consumer"],
         Linked' = Linked,
         \A b \in Linked : next'[b] = next[b] /\ Count(b)' = Count(b),
         \/ ppc' = ppc /\ pnb' = pnb
         \/ "advance" \notin {ppc, ppc'}
  PROVE  ConsumerWalk'
<1> SUFFICES ASSUME cpc \in SizeApproxPcs PROVE ConsumerWalk'
  BY DEF ConsumerWalk
<1>1. PICK A, base : Region(A, base) /\ ConsumerSum(A, base)
  BY DEF ConsumerWalk
<1>2. Region(A, base)'
  BY <1>1, RegionKept
<1>3. Held' = Held /\ A \subseteq Linked
  BY <1>1 DEF Held, Region
<1>4. ConsumerSum(A, base)'
  BY <1>1, <1>3 DEF ConsumerSum
<1> QED BY <1>2, <1>3, <1>4 DEF ConsumerWalk

\* A step of the producer that moves no index the consumer can see
EnqueueLocal ==
  \/ \E op \in ProducerOps : EnqueueCall(op)
  \/ EnqueueRefreshFront \/ EnqueueConstruct \/ EnqueueTailFull \/ EnqueueNextFront
  \/ EnqueueNextConstruct \/ EnqueueAllocate \/ EnqueueOutOfMemory

\* Such a step changes no block that is linked.
LEMMA EnqueueLocalMoves ==
  ASSUME IInv, EnqueueLocal
  PROVE  /\ UNCHANGED <<cpc, sizeVars, frontBlock, tailBlock, sent, received>>
         /\ Linked' = Linked
         /\ \A b \in Linked : next'[b] = next[b] /\ Count(b)' = Count(b)
         /\ "advance" \notin {ppc, ppc'}
<1> USE DEF PUnchangedElse, prodOwned, consOwned, consLocal, sizeVars, PGoto, PReturn
<1>1. ASSUME NEW op \in ProducerOps, EnqueueCall(op)
      PROVE  /\ UNCHANGED <<cpc, sizeVars, frontBlock, tailBlock, sent, received>>
             /\ UNCHANGED <<front, tail, sizeMask, next, allocated>>
             /\ {ppc, ppc'} \cap {"advance", "link"} = {}
  BY <1>1 DEF EnqueueCall
<1>2. CASE EnqueueRefreshFront \/ EnqueueConstruct \/ EnqueueTailFull \/ EnqueueNextFront
           \/ EnqueueNextConstruct \/ EnqueueOutOfMemory
  <2>1. /\ UNCHANGED <<cpc, sizeVars, frontBlock, tailBlock, sent, received>>
        /\ UNCHANGED <<front, tail, sizeMask, next, allocated>>
        /\ {ppc, ppc'} \cap {"advance", "link"} = {}
    BY <1>2 DEF EnqueueRefreshFront, EnqueueConstruct, EnqueueTailFull, EnqueueNextFront,
                EnqueueNextConstruct, EnqueueOutOfMemory
  <2> QED BY <2>1 DEF Count, Linked, LinkedCount
<1>3. CASE EnqueueAllocate
  <2>1. /\ UNCHANGED <<cpc, sizeVars, frontBlock, tailBlock, sent, received>>
        /\ ppc = "alloc" /\ ppc' = "link" /\ allocated' = allocated + 1
    BY <1>3 DEF EnqueueAllocate
  <2>2. \A b \in Blocks \ {allocated + 1} :
          front'[b] = front[b] /\ tail'[b] = tail[b] /\ sizeMask'[b] = sizeMask[b]
          /\ next'[b] = next[b]
    BY <1>3 DEF EnqueueAllocate, IInv, TypeOK
  <2>3. Linked = 1..allocated /\ allocated \in Nat
    BY <2>1, InvFacts DEF Linked, LinkedCount
  <2>4. Linked' = Linked
    BY <2>1, <2>3 DEF Linked, LinkedCount
  <2>5. \A b \in Linked : b \in Blocks \ {allocated + 1}
    BY <2>3, InvFacts DEF BlockFacts
  <2> QED BY <2>1, <2>2, <2>4, <2>5 DEF Count
<1> QED BY <1>1, <1>2, <1>3 DEF EnqueueLocal, Count, Linked, LinkedCount

\* The consumer's size_approx starts at frontBlock (line 417) with nothing added up.
LEMMA ConsumerWalkCall ==
  ASSUME IInv, SizeApproxCall("consumer") PROVE ConsumerWalk'
<1> USE DEF SizeApproxCall, SizeGoto, SizePc, CGoto, prodOwned, prodLocal, consOwned
<1>1. PICK pos, base : Ring(pos) /\ Fill(pos) /\ Chain(pos, base)
  BY DEF IInv, Structure
<1>2. /\ \A b \in Linked : pos[b] \in Nat /\ base[b] \in Nat /\ Count(b) \in Nat
      /\ frontBlock \in Linked /\ tailBlock \in Linked
      /\ sent \in Nat /\ received \in Nat /\ Held \in Nat /\ LinkedCount \in Nat
  BY <1>1, ChainFacts, InvFacts, HeldFacts
<1>3. PICK A : A = {b \in Linked : pos[b] <= pos[tailBlock]}
  OBVIOUS
<1>4. /\ A \subseteq Linked /\ frontBlock \in A /\ tailBlock \in A
      /\ base \in [Blocks -> Nat]
  BY <1>1, <1>2, <1>3 DEF Ring, Chain
<1>5. ASSUME NEW b \in A \ {tailBlock}
      PROVE  next[b] \in A \ {frontBlock} /\ base[next[b]] = base[b] + Count(b)
  <2>1. b \in Linked /\ pos[b] < pos[tailBlock] /\ pos[tailBlock] < LinkedCount
    BY <1>1, <1>2, <1>3 DEF Ring
  <2>2. next[b] \in Linked /\ pos[next[b]] = pos[b] + 1
    BY <1>1, <1>2, <2>1 DEF Ring
  <2> QED BY <1>1, <1>2, <1>3, <2>1, <2>2 DEF Ring, Chain
<1>6. ASSUME NEW b \in Linked \ (A \ {tailBlock})
      PROVE  next[b] \notin A \ {frontBlock}
  <2>1. pos[b] >= pos[tailBlock]
    BY <1>2, <1>3
  <2>2. next[b] \in Linked /\ (pos[next[b]] = 0 \/ pos[next[b]] = pos[b] + 1)
    BY <1>1, <1>2 DEF Ring
  <2> QED BY <1>1, <1>2, <1>3, <2>1, <2>2 DEF Ring
<1>7. \A b \in Linked \ A : Count(b) = IF ppc = "advance" /\ b = pnb THEN 1 ELSE 0
  BY <1>1, <1>2, <1>3 DEF Fill, Chain
<1>8. base[frontBlock] = received + 1 /\ base[tailBlock] + Count(tailBlock) = sent + 1
  BY <1>1 DEF Chain
<1>9. Region(A, base)
  BY <1>4, <1>5, <1>6, <1>7, <1>8 DEF Region
<1>10. Region(A, base)'
  <2>1. \A b : Count(b)' = Count(b)
    BY DEF Count
  <2> QED BY <1>9, <2>1, RegionKept DEF Linked, LinkedCount
<1>11. /\ szStart'["consumer"] = frontBlock /\ szHeld'["consumer"] = Held
       /\ szBlock'["consumer"] = frontBlock /\ szSum'["consumer"] = 0
       /\ cpc' = "size" /\ Held' = Held
  BY DEF IInv, TypeOK, Threads, Held
<1>12. ConsumerSum(A, base)'
  BY <1>2, <1>4, <1>8, <1>11 DEF ConsumerSum, Between
<1> QED BY <1>2, <1>10, <1>11, <1>12 DEF ConsumerWalk

\* Adding a block up and going on to the next one (lines 420-425) keep ConsumerWalk.
LEMMA ConsumerWalkStep ==
  ASSUME IInv, ConsumerWalk, SizeApprox("consumer") PROVE ConsumerWalk'
<1> USE DEF SizeGoto, SizePc, CGoto, prodOwned, prodLocal, consOwned
<1>1. /\ UNCHANGED <<front, tail, sizeMask, next, allocated, frontBlock, tailBlock,
                     sent, received, ppc, pnb, szStart, szHeld>>
      /\ cpc \in SizeApproxPcs /\ (cpc' \in SizeApproxPcs => cpc # "sizeDone")
  BY DEF SizeApprox, SizeApproxBlock, SizeApproxNext, SizeApproxReturn, SizeApproxPcs, sizeVars
<1>2. \A b : Count(b)' = Count(b)
  BY <1>1 DEF Count
<1>3. Linked' = Linked /\ Held' = Held
  BY <1>1 DEF Linked, LinkedCount, Held
<1>4. PICK A, base : Region(A, base) /\ ConsumerSum(A, base)
  BY <1>1 DEF ConsumerWalk
<1>5. szStart["consumer"] = frontBlock /\ szHeld["consumer"] <= Held
  BY <1>1 DEF ConsumerWalk
<1>6. Region(A, base)'
  BY <1>1, <1>2, <1>3, <1>4, RegionKept
<1>7. PICK b, sum \in Nat, held \in Nat :
        b = szBlock["consumer"] /\ sum = szSum["consumer"] /\ held = szHeld["consumer"]
  BY DEF IInv, TypeOK, Threads
<1>8. /\ A \subseteq Linked /\ frontBlock \in A /\ tailBlock \in A
      /\ sent \in Nat /\ received \in Nat /\ Held \in Nat /\ Held = sent - received
      /\ \A c \in Linked : Count(c) \in Nat /\ base[c] \in Nat /\ next[c] \in Linked
  BY <1>4, InvFacts, HeldFacts DEF Region, BlockFacts, Held
<1>9. CASE SizeApproxBlock("consumer")
  <2>1. cpc = "size" /\ cpc' = "sizeNext" /\ b \in Linked
    BY <1>7, <1>9 DEF SizeApproxBlock, IInv, Walk, Threads
  <2>2. szBlock'["consumer"] = b /\ szHeld'["consumer"] = held /\ szSum'["consumer"] = sum + Count(b)
    BY <1>7, <1>9 DEF SizeApproxBlock, IInv, TypeOK, Threads, Count
  <2>3. CASE b \in A
    <3>1. sum <= base[b] - received - 1 /\ (held <= sum \/ base[b] - received - 1 <= sum)
      BY <1>4, <1>7, <2>1, <2>3 DEF ConsumerSum, Between
    <3>2. ASSUME b # tailBlock PROVE ConsumerSum(A, base)'
      <4>1. next[b] \in A \ {frontBlock} /\ base[next[b]] = base[b] + Count(b)
        BY <1>4, <2>3, <3>2 DEF Region
      <4> QED BY <1>1, <1>8, <2>1, <2>2, <2>3, <3>1, <3>2, <4>1 DEF ConsumerSum, Between
    <3>3. ASSUME b = tailBlock PROVE ConsumerSum(A, base)'
      <4>1. base[b] + Count(b) = sent + 1
        BY <1>4, <3>3 DEF Region
      <4>2. held <= sum + Count(b) /\ sum + Count(b) <= Held
        BY <1>5, <1>7, <1>8, <2>1, <3>1, <4>1
      <4> QED BY <1>1, <1>3, <1>8, <2>1, <2>2, <2>3, <3>3, <4>2 DEF ConsumerSum
    <3>4. ConsumerSum(A, base)'
      BY <3>2, <3>3
    <3> QED BY <1>1, <1>3, <1>5, <1>6, <3>4 DEF ConsumerWalk
  <2>4. CASE b \notin A
    <3>1. /\ held <= sum
          /\ \/ sum <= Held
             \/ sum <= Held + 1 /\ ppc = "advance" /\ b # pnb
      BY <1>4, <1>7, <2>1, <2>4 DEF ConsumerSum
    <3>2. Count(b) = IF ppc = "advance" /\ b = pnb THEN 1 ELSE 0
      BY <1>4, <2>1, <2>4 DEF Region
    <3>3. /\ held <= sum + Count(b)
          /\ \/ sum + Count(b) <= Held
             \/ sum + Count(b) <= Held + 1 /\ ppc = "advance"
      BY <1>8, <3>1, <3>2
    <3>4. ConsumerSum(A, base)'
      BY <1>1, <1>3, <1>8, <2>1, <2>2, <2>4, <3>3 DEF ConsumerSum
    <3> QED BY <1>1, <1>3, <1>5, <1>6, <3>4 DEF ConsumerWalk
  <2> QED BY <2>3, <2>4
<1>10. CASE SizeApproxNext("consumer")
  <2>1. cpc = "sizeNext" /\ b \in Linked
    BY <1>7, <1>10 DEF SizeApproxNext, IInv, Walk, Threads
  <2>2. /\ szBlock'["consumer"] = next[b] /\ szHeld'["consumer"] = held
        /\ szSum'["consumer"] = sum
        /\ cpc' = IF next[b] # frontBlock THEN "size" ELSE "sizeDone"
    BY <1>5, <1>7, <1>10 DEF SizeApproxNext, IInv, TypeOK, Threads
  <2>3. CASE b \in A \ {tailBlock}
    <3>1. Between(sum, held, base[next[b]] - received - 1)
      BY <1>4, <1>7, <2>1, <2>3 DEF ConsumerSum
    <3>2. next[b] \in A \ {frontBlock}
      BY <1>4, <2>3 DEF Region
    <3>3. ConsumerSum(A, base)'
      BY <1>1, <2>2, <3>1, <3>2 DEF ConsumerSum
    <3> QED BY <1>1, <1>3, <1>5, <1>6, <3>3 DEF ConsumerWalk
  <2>4. CASE b \notin A \ {tailBlock}
    <3>1. next[b] \notin A \ {frontBlock}
      BY <1>4, <2>1, <2>4 DEF Region
    <3>2. /\ held <= sum
          /\ sum <= Held \/ (sum <= Held + 1 /\ ppc = "advance" /\ b # tailBlock)
      BY <1>4, <1>7, <1>8, <2>1, <2>4 DEF ConsumerSum
    <3>3. ppc = "advance" /\ b # tailBlock => next[b] # pnb
      <4>1. ppc = "advance" => pnb = next[tailBlock]
        BY DEF IInv, Producer
      <4> QED BY <4>1, <1>8, <2>1, NextInjective
    <3>4. ConsumerSum(A, base)'
      BY <1>1, <1>3, <1>8, <2>2, <3>1, <3>2, <3>3 DEF ConsumerSum
    <3> QED BY <1>1, <1>3, <1>5, <1>6, <3>4 DEF ConsumerWalk
  <2> QED BY <2>3, <2>4
<1>11. CASE SizeApproxReturn("consumer")
  BY <1>11 DEF SizeApproxReturn, ConsumerWalk, SizeApproxPcs
<1> QED BY <1>9, <1>10, <1>11 DEF SizeApprox

\* What the steps of the producer can use of the consumer's walk
LEMMA RegionFacts ==
  ASSUME IInv, NEW A, NEW base, Region(A, base)
  PROVE  /\ A \subseteq Linked /\ Linked \subseteq 1..allocated
         /\ frontBlock \in A /\ tailBlock \in A
         /\ sent \in Nat /\ received \in Nat /\ Held \in Nat /\ Held = sent - received
         /\ \A b \in Linked : b \in Blocks /\ next[b] \in Linked
                              /\ Count(b) \in Nat /\ base[b] \in Nat
         /\ szBlock["consumer"] \in Nat
         /\ szSum["consumer"] \in Nat /\ szHeld["consumer"] \in Nat
         /\ cpc \in {"size", "sizeNext"} => szBlock["consumer"] \in Linked
         /\ ppc \in {"nextTail", "advance"} => pnb = next[tailBlock] /\ pnb \in Linked \ A
<1>1. /\ A \subseteq Linked /\ Linked \subseteq 1..allocated
      /\ frontBlock \in A /\ tailBlock \in A
      /\ sent \in Nat /\ received \in Nat /\ Held \in Nat /\ Held = sent - received
      /\ \A b \in Linked : b \in Blocks /\ next[b] \in Linked
                           /\ Count(b) \in Nat /\ base[b] \in Nat
  BY InvFacts, HeldFacts DEF Region, BlockFacts, Held
<1>2. /\ szBlock["consumer"] \in Nat
      /\ szSum["consumer"] \in Nat /\ szHeld["consumer"] \in Nat
      /\ cpc \in {"size", "sizeNext"} => szBlock["consumer"] \in Linked
  BY <1>1 DEF IInv, TypeOK, Walk, Threads, SizePc
<1>3. ppc \in {"nextTail", "advance"} => pnb = next[tailBlock] /\ pnb # frontBlock
  BY DEF IInv, Producer
<1>4. next[tailBlock] \notin A \ {frontBlock}
  BY <1>1 DEF Region
<1> QED BY <1>1, <1>2, <1>3, <1>4

\* An element published in tailBlock (line 459) keeps ConsumerWalk: it may or may not
\* be counted.
LEMMA ConsumerWalkPublish ==
  ASSUME IInv, ConsumerWalk, EnqueuePublish PROVE ConsumerWalk'
<1>1. PICK c \in 1..allocated : c = tailBlock
  BY DEF IInv, TypeOK
<1>2. /\ ppc = "publish" /\ ppc' = "idle" /\ sent' = sent + 1
      /\ tail' = [tail EXCEPT ![c] = Wrap(tail[c], sizeMask[c])]
      /\ UNCHANGED <<localFront, next, tailBlock, sizeMask, allocated, front, localTail,
                     frontBlock, cpc, szStart, szBlock, szSum, szHeld, received>>
  BY <1>1 DEF EnqueuePublish, PReturn, PUnchangedElse, consOwned, consLocal, sizeVars
<1>3. /\ Count(c)' = Count(c) + 1
      /\ \A b \in 1..allocated \ {c} : Count(b)' = Count(b)
  <2>1. Wrap(tail[c], sizeMask[c]) # localFront[c]
    BY <1>1, <1>2 DEF IInv, Producer
  <2> QED BY <1>2, <2>1, TailMoves DEF IInv
<1>4. Linked' = Linked
  BY <1>2 DEF Linked, LinkedCount
<1> SUFFICES ASSUME cpc \in SizeApproxPcs PROVE ConsumerWalk'
  BY <1>2 DEF ConsumerWalk
<1>5. PICK A, base : Region(A, base) /\ ConsumerSum(A, base)
  BY DEF ConsumerWalk
<1>6. szStart["consumer"] = frontBlock /\ szHeld["consumer"] <= Held
  BY DEF ConsumerWalk
<1>7. /\ A \subseteq Linked /\ Linked \subseteq 1..allocated
      /\ frontBlock \in A /\ tailBlock \in A
      /\ sent \in Nat /\ received \in Nat /\ Held \in Nat /\ Held = sent - received
      /\ \A b \in Linked : b \in Blocks /\ next[b] \in Linked
                           /\ Count(b) \in Nat /\ base[b] \in Nat
      /\ szSum["consumer"] \in Nat /\ szHeld["consumer"] \in Nat
  BY <1>5, RegionFacts
<1>8. Held' = Held + 1
  BY <1>2, <1>7 DEF Held
<1>9. Region(A, base)'
  <2>1. base[tailBlock] + Count(tailBlock) = sent + 1
    BY <1>5 DEF Region
  <2>2. base[tailBlock] + Count(tailBlock)' = sent' + 1
    BY <1>1, <1>2, <1>3, <1>7, <2>1
  <2>3. \A b \in A \ {tailBlock} :
          next[b] \in A \ {frontBlock} /\ base[next[b]] = base[b] + Count(b)'
    BY <1>1, <1>3, <1>5, <1>7 DEF Region
  <2>4. \A b \in Linked \ A : Count(b)' = 0
    BY <1>1, <1>2, <1>3, <1>5, <1>7 DEF Region
  <2> QED BY <1>2, <1>4, <1>5, <2>2, <2>3, <2>4 DEF Region
<1>10. ConsumerSum(A, base)'
  BY <1>2, <1>5, <1>7, <1>8 DEF ConsumerSum, Between
<1> QED BY <1>2, <1>6, <1>7, <1>8, <1>9, <1>10 DEF ConsumerWalk

\* An element written to the block after tailBlock (line 485) keeps ConsumerWalk: the
\* walk may count it before tailBlock moves on, one element too many.
LEMMA ConsumerWalkNextTail ==
  ASSUME IInv, ConsumerWalk, EnqueueNextTail PROVE ConsumerWalk'
<1>1. /\ pnb = next[tailBlock] /\ pnb # frontBlock /\ localFront[pnb] = tail[pnb]
      /\ pnb \in 1..allocated
  BY InvFacts DEF IInv, Producer, EnqueueNextTail
<1>2. PICK c \in 1..allocated : c = pnb
  BY <1>1
<1>3. /\ ppc = "nextTail" /\ ppc' = "advance"
      /\ tail' = [tail EXCEPT ![c] = Wrap(tail[c], sizeMask[c])]
      /\ UNCHANGED <<localFront, next, tailBlock, sizeMask, allocated, front, localTail,
                     frontBlock, cpc, szStart, szBlock, szSum, szHeld, received, sent, pnb>>
  BY <1>2 DEF EnqueueNextTail, PGoto, PUnchangedElse, consOwned, consLocal, sizeVars
<1>4. /\ Count(c)' = Count(c) + 1
      /\ \A b \in 1..allocated \ {c} : Count(b)' = Count(b)
  <2>1. Wrap(tail[c], sizeMask[c]) # localFront[c]
    BY <1>1, <1>2, InvFacts, WrapMoves DEF BlockFacts
  <2> QED BY <1>3, <2>1, TailMoves DEF IInv
<1>5. Linked' = Linked /\ Held' = Held
  BY <1>3 DEF Linked, LinkedCount, Held
<1> SUFFICES ASSUME cpc \in SizeApproxPcs PROVE ConsumerWalk'
  BY <1>3 DEF ConsumerWalk
<1>6. PICK A, base : Region(A, base) /\ ConsumerSum(A, base)
  BY DEF ConsumerWalk
<1>7. /\ A \subseteq Linked /\ Linked \subseteq 1..allocated
      /\ frontBlock \in A /\ tailBlock \in A
      /\ \A b \in Linked : Count(b) \in Nat
      /\ pnb \in Linked \ A
  BY <1>3, <1>6, RegionFacts
<1>8. Region(A, base)'
  <2>1. \A b \in A : Count(b)' = Count(b)
    BY <1>2, <1>4, <1>7
  <2>2. Count(c) = 0
    BY <1>2, <1>3, <1>6, <1>7 DEF Region
  <2>3. \A b \in Linked \ A : Count(b)' = IF b = pnb THEN 1 ELSE 0
    BY <1>2, <1>3, <1>4, <1>6, <1>7, <2>2 DEF Region
  <2> QED BY <1>3, <1>5, <1>6, <2>1, <2>3 DEF Region
<1>9. ConsumerSum(A, base)'
  BY <1>3, <1>5, <1>6 DEF ConsumerSum
<1> QED BY <1>3, <1>5, <1>8, <1>9 DEF ConsumerWalk

\* A new block linked behind tailBlock (line 506) keeps ConsumerWalk, the same way.
LEMMA ConsumerWalkLink ==
  ASSUME IInv, ConsumerWalk, EnqueueLink PROVE ConsumerWalk'
<1>1. /\ ppc = "link" /\ ppc' = "advance"
      /\ next' = [next EXCEPT ![tailBlock] = pnb]
      /\ UNCHANGED <<tail, tailBlock, sizeMask, allocated, front, frontBlock, cpc,
                     szStart, szBlock, szSum, szHeld, received, sent, pnb>>
  BY DEF EnqueueLink, PGoto, PUnchangedElse, consOwned, consLocal, sizeVars
<1>2. PICK pos, start : Ring(pos) /\ Chain(pos, start)
  BY DEF IInv, Structure
<1>3. pnb = allocated /\ next[pnb] = next[tailBlock] /\ Count(pnb) = 1
  BY <1>1, <1>2 DEF Ring, Chain
<1>4. Linked' = Linked \cup {pnb} /\ pnb \notin Linked
  BY <1>1, <1>3, InvFacts DEF Linked, LinkedCount
<1>5. (\A b : Count(b)' = Count(b)) /\ Held' = Held
  BY <1>1 DEF Count, Held
<1> SUFFICES ASSUME cpc \in SizeApproxPcs PROVE ConsumerWalk'
  BY <1>1 DEF ConsumerWalk
<1>6. PICK A, base : Region(A, base) /\ ConsumerSum(A, base)
  BY DEF ConsumerWalk
<1>7. /\ A \subseteq Linked /\ frontBlock \in A /\ tailBlock \in A
      /\ \A b \in Linked : b \in Blocks
  BY <1>6, RegionFacts
<1>8. next'[tailBlock] = pnb /\ \A b \in Blocks \ {tailBlock} : next'[b] = next[b]
  BY <1>1, <1>7 DEF IInv, TypeOK
<1>9. pnb # tailBlock /\ pnb \in Blocks
  BY <1>3, <1>4, <1>7, InvFacts
<1>10. Region(A, base)'
  <2>1. \A b \in A \ {tailBlock} : next'[b] = next[b]
    BY <1>7, <1>8
  <2>2. \A b \in Linked' \ (A \ {tailBlock}) : next'[b] \notin A \ {frontBlock}
    BY <1>3, <1>4, <1>6, <1>7, <1>8, <1>9 DEF Region
  <2>3. \A b \in Linked' \ A : Count(b)' = IF b = pnb THEN 1 ELSE 0
    BY <1>1, <1>3, <1>4, <1>5, <1>6 DEF Region
  <2> QED BY <1>1, <1>4, <1>5, <1>6, <2>1, <2>2, <2>3 DEF Region
<1>11. ConsumerSum(A, base)'
  <2>1. szBlock["consumer"] \in A \ {tailBlock} =>
          next'[szBlock["consumer"]] = next[szBlock["consumer"]]
    BY <1>7, <1>8
  <2> QED BY <1>1, <1>5, <1>6, <2>1 DEF ConsumerSum
<1> QED BY <1>1, <1>5, <1>10, <1>11 DEF ConsumerWalk

\* Moving tailBlock on (lines 488, 515) keeps ConsumerWalk: the next block joins those
\* between the ends.
LEMMA ConsumerWalkAdvance ==
  ASSUME IInv, ConsumerWalk, EnqueueAdvance PROVE ConsumerWalk'
<1>1. /\ ppc = "advance" /\ ppc' = "idle" /\ tailBlock' = pnb /\ sent' = sent + 1
      /\ UNCHANGED <<tail, next, sizeMask, allocated, front, frontBlock, cpc,
                     szStart, szBlock, szSum, szHeld, received, pnb>>
  BY DEF EnqueueAdvance, PReturn, PUnchangedElse, consOwned, consLocal, sizeVars
<1>2. (\A b : Count(b)' = Count(b)) /\ Linked' = Linked
  BY <1>1 DEF Count, Linked, LinkedCount
<1> SUFFICES ASSUME cpc \in SizeApproxPcs PROVE ConsumerWalk'
  BY <1>1 DEF ConsumerWalk
<1>3. PICK A, base : Region(A, base) /\ ConsumerSum(A, base)
  BY DEF ConsumerWalk
<1>4. szStart["consumer"] = frontBlock /\ szHeld["consumer"] <= Held
  BY DEF ConsumerWalk
<1>5. /\ A \subseteq Linked /\ frontBlock \in A /\ tailBlock \in A
      /\ sent \in Nat /\ received \in Nat /\ Held \in Nat /\ Held = sent - received
      /\ \A b \in Linked : b \in Blocks /\ next[b] \in Linked
                           /\ Count(b) \in Nat /\ base[b] \in Nat
      /\ szBlock["consumer"] \in Nat /\ szSum["consumer"] \in Nat /\ szHeld["consumer"] \in Nat
      /\ cpc \in {"size", "sizeNext"} => szBlock["consumer"] \in Linked
      /\ pnb = next[tailBlock] /\ pnb \in Linked \ A
  BY <1>1, <1>3, RegionFacts
<1>6. Held' = Held + 1
  BY <1>1, <1>5 DEF Held
<1>7. PICK grown : grown = A \cup {pnb}
  OBVIOUS
<1>8. PICK newBase : newBase = [base EXCEPT ![pnb] = sent + 1]
  OBVIOUS
<1>9. /\ newBase \in [Blocks -> Nat] /\ newBase[pnb] = sent + 1
      /\ \A b \in A : newBase[b] = base[b]
  BY <1>3, <1>5, <1>8 DEF Region
<1>10. Count(pnb) = 1
  BY <1>1, <1>3, <1>5 DEF Region
<1>11. /\ base[tailBlock] + Count(tailBlock) = sent + 1
       /\ base[frontBlock] = received + 1
       /\ \A b \in A \ {tailBlock} :
            next[b] \in A \ {frontBlock} /\ base[next[b]] = base[b] + Count(b)
       /\ \A b \in Linked \ (A \ {tailBlock}) : next[b] \notin A \ {frontBlock}
       /\ \A b \in Linked \ A : Count(b) = IF b = pnb THEN 1 ELSE 0
  BY <1>1, <1>3 DEF Region
<1>12. Region(grown, newBase)'
  <2>1. \A b \in grown \ {pnb} :
          next[b] \in grown \ {frontBlock} /\ newBase[next[b]] = newBase[b] + Count(b)
    BY <1>5, <1>7, <1>9, <1>11
  <2>2. \A b \in Linked \ (grown \ {pnb}) : next[b] \notin grown \ {frontBlock}
    <3> SUFFICES ASSUME NEW b \in Linked \ (grown \ {pnb}) PROVE next[b] \notin grown \ {frontBlock}
      OBVIOUS
    <3>1. b \in Linked /\ b # tailBlock /\ b \notin A
      BY <1>5, <1>7
    <3>2. next[b] # pnb
      BY <1>5, <3>1, NextInjective
    <3> QED BY <1>7, <1>11, <3>1, <3>2
  <2>3. \A b \in Linked \ grown : Count(b) = 0
    BY <1>7, <1>11
  <2>4. newBase[pnb] + Count(pnb) = sent' + 1
    BY <1>1, <1>5, <1>9, <1>10
  <2>5. /\ grown \subseteq Linked /\ frontBlock \in grown /\ pnb \in grown
        /\ newBase[frontBlock] = received + 1
    BY <1>5, <1>7, <1>9, <1>11
  <2> QED BY <1>1, <1>2, <1>9, <2>1, <2>2, <2>3, <2>4, <2>5 DEF Region
<1>13. ConsumerSum(grown, newBase)'
  <2>1. PICK b, sum \in Nat, held \in Nat :
          b = szBlock["consumer"] /\ sum = szSum["consumer"] /\ held = szHeld["consumer"]
    BY <1>5
  <2>2. ASSUME cpc = "size", b \in grown
        PROVE  Between(sum, held, newBase[b] - received - 1)
    BY <1>1, <1>3, <1>5, <1>7, <1>9, <2>1, <2>2 DEF ConsumerSum, Between
  <2>3. ASSUME cpc = "sizeNext", b \in grown \ {pnb}
        PROVE  Between(sum, held, newBase[next[b]] - received - 1)
    <3>1. CASE b = tailBlock
      BY <1>3, <1>5, <1>9, <2>1, <2>3, <3>1 DEF ConsumerSum, Between
    <3>2. CASE b # tailBlock
      <4>1. b \in A \ {tailBlock} /\ newBase[next[b]] = base[next[b]]
        BY <1>7, <1>9, <1>11, <2>3, <3>2
      <4> QED BY <1>3, <2>1, <2>3, <4>1 DEF ConsumerSum
    <3> QED BY <3>1, <3>2
  <2>4. cpc = "sizeNext" /\ b = pnb => held <= sum /\ sum <= Held + 1
    BY <1>3, <1>5, <2>1 DEF ConsumerSum
  <2>5. cpc \in {"size", "sizeNext"} /\ b \notin grown => held <= sum /\ sum <= Held + 1
    BY <1>3, <1>5, <1>7, <2>1 DEF ConsumerSum
  <2>6. cpc = "sizeDone" => held <= sum /\ sum <= Held + 1
    BY <1>3, <2>1 DEF ConsumerSum
  <2> QED BY <1>1, <1>5, <1>6, <2>1, <2>2, <2>3, <2>4, <2>5, <2>6 DEF ConsumerSum
<1> QED BY <1>1, <1>4, <1>5, <1>6, <1>12, <1>13 DEF ConsumerWalk

\* All other steps keep ConsumerWalk.
LEMMA ConsumerWalkOther ==
  ASSUME IInv, ConsumerWalk,
         \/ \E op \in ConsumerOps : DequeueCall(op)
         \/ Dequeue \/ Destroy \/ UNCHANGED vars
         \/ SizeApproxCall("producer") \/ SizeApprox("producer")
  PROVE  ConsumerWalk'
<1> USE DEF prodOwned, consOwned, prodLocal, consLocal, sizeVars
<1>1. ASSUME cpc' \notin SizeApproxPcs PROVE ConsumerWalk'
  BY <1>1 DEF ConsumerWalk
<1>2. ASSUME (\E op \in ConsumerOps : DequeueCall(op)) \/ Dequeue \/ Destroy
      PROVE  cpc' \notin SizeApproxPcs
  BY <1>2 DEF Dequeue, DequeueCall, DequeueRefreshTail, DequeueCheckTailBlock,
     DequeueRecheck, DequeueReadNext, DequeueReadNextTail, DequeueAdvance, DequeueTake,
     DequeuePublish, CGoto, CReturn, SizeApproxPcs, Destroy
<1>3. CASE UNCHANGED vars
  BY <1>3, ConsumerWalkKept DEF vars, Count, Linked, LinkedCount
<1>4. ASSUME SizeApproxCall("producer") \/ SizeApprox("producer") PROVE ConsumerWalk'
  <2>1. /\ UNCHANGED <<front, tail, sizeMask, next, allocated, frontBlock, tailBlock,
                       sent, received, cpc>>
        /\ {ppc, ppc'} \cap {"advance", "link"} = {}
    BY <1>4 DEF SizeApproxCall, SizeApprox, SizeApproxBlock, SizeApproxNext,
                SizeApproxReturn, SizeGoto, SizePc, PGoto
  <2>2. /\ szStart'["consumer"] = szStart["consumer"]
        /\ szBlock'["consumer"] = szBlock["consumer"]
        /\ szSum'["consumer"] = szSum["consumer"]
        /\ szHeld'["consumer"] = szHeld["consumer"]
    BY <1>4 DEF SizeApproxCall, SizeApprox, SizeApproxBlock, SizeApproxNext,
                SizeApproxReturn, IInv, TypeOK, Threads
  <2>3. Linked' = Linked /\ \A b \in Linked : next'[b] = next[b] /\ Count(b)' = Count(b)
    BY <2>1 DEF Linked, LinkedCount, Count
  <2> QED BY <2>1, <2>2, <2>3, ConsumerWalkKept
<1> QED BY <1>1, <1>2, <1>3, <1>4

\* ConsumerWalk holds throughout.
LEMMA ConsumerWalkHolds == Spec => []ConsumerWalk
<1>1. Init => ConsumerWalk
  BY DEF Init, ConsumerWalk, SizeApproxPcs
<1>2. IInv /\ ConsumerWalk /\ [Next]_vars => ConsumerWalk'
  <2> SUFFICES ASSUME IInv, ConsumerWalk, [Next]_vars PROVE ConsumerWalk'
    OBVIOUS
  <2>1. CASE EnqueueLocal
    <3>1. UNCHANGED <<cpc, szStart, szBlock, szSum, szHeld>>
      BY <2>1, EnqueueLocalMoves DEF sizeVars
    <3> QED BY <2>1, <3>1, EnqueueLocalMoves, ConsumerWalkKept
  <2>2. CASE EnqueuePublish
    BY <2>2, ConsumerWalkPublish
  <2>3. CASE EnqueueNextTail
    BY <2>3, ConsumerWalkNextTail
  <2>4. CASE EnqueueLink
    BY <2>4, ConsumerWalkLink
  <2>5. CASE EnqueueAdvance
    BY <2>5, ConsumerWalkAdvance
  <2>6. CASE SizeApproxCall("consumer") \/ SizeApprox("consumer")
    BY <2>6, ConsumerWalkCall, ConsumerWalkStep
  <2> QED BY <2>1, <2>2, <2>3, <2>4, <2>5, <2>6, ConsumerWalkOther DEF Next, Enqueue, EnqueueLocal
<1> QED
  BY <1>1, <1>2, InvariantHolds, PTL DEF Spec

-----------------------------------------------------------------------------
\* The producer calls: tailBlock stays.  A is the blocks from frontBlock to tailBlock,
\* B those that the consumer has left since the call; end[b] is one more than the number
\* of the last element of b, which does not change.
Trail(A, B, end) ==
  /\ A \subseteq Linked /\ B \subseteq Linked /\ A \cap B = {}
  /\ szStart["producer"] \in A \cup B /\ frontBlock \in A /\ tailBlock \in A
  /\ end \in [Blocks -> Nat]
  /\ \A b \in B : next[b] \in B \cup {frontBlock} /\ next[b] # szStart["producer"]
  /\ \A b \in A \ {tailBlock} :
       /\ next[b] \in A \ {frontBlock} /\ next[b] # szStart["producer"]
       /\ end[next[b]] = end[b] + Count(next[b])
  /\ \A b \in Linked \ (B \cup (A \ {tailBlock})) :
       next[b] \notin (A \cup B) \ {szStart["producer"]}
  /\ \A b \in Linked \ A : Count(b) = 0
  /\ end[frontBlock] = received + 1 + Count(frontBlock)
  /\ end[tailBlock] = sent + 1

\* With what the rest of the walk would add if the consumer stood still, the sum is
\* between what is held now and what was held at the call.
Bounds(sum, held, rest) == Held <= sum + rest /\ sum + rest <= held

\* The sum so far, by where the walk is: before frontBlock all of the queue is still to
\* come, behind tailBlock nothing is.
ProducerSum(A, B, end) ==
  LET b == szBlock["producer"]
      sum == szSum["producer"]
      held == szHeld["producer"]
  IN  /\ ppc \in {"size", "sizeNext"} /\ b \in B => sum + Held <= held
      /\ ppc = "size" /\ b \in A => Bounds(sum, held, sent + 1 - end[b] + Count(b))
      /\ ppc = "sizeNext" /\ b \in A => Bounds(sum, held, sent + 1 - end[b])
      /\ ppc \in {"size", "sizeNext"} /\ b \notin A \cup B => Bounds(sum, held, 0)
      /\ ppc = "sizeDone" => Bounds(sum, held, 0)

ProducerWalk ==
  ppc \in SizeApproxPcs =>
    \E A, B, end : Trail(A, B, end) /\ ProducerSum(A, B, end)

\* ProducerWalk stays as it is while no count, no link and neither end moves.
LEMMA ProducerWalkKept ==
  ASSUME ProducerWalk,
         UNCHANGED <<ppc, frontBlock, tailBlock, sent, received>>,
         szStart'["producer"] = szStart["producer"], szBlock'["producer"] = szBlock["producer"],
         szSum'["producer"] = szSum["producer"], szHeld'["producer"] = szHeld["producer"],
         Linked' = Linked,
         \A b \in Linked : next'[b] = next[b] /\ Count(b)' = Count(b)
  PROVE  ProducerWalk'
<1> SUFFICES ASSUME ppc \in SizeApproxPcs PROVE ProducerWalk'
  BY DEF ProducerWalk
<1>1. PICK A, B, end : Trail(A, B, end) /\ ProducerSum(A, B, end)
  BY DEF ProducerWalk
<1>2. A \subseteq Linked /\ frontBlock \in A
  BY <1>1 DEF Trail
<1>3. Trail(A, B, end)'
  BY <1>1, <1>2 DEF Trail
<1>4. ProducerSum(A, B, end)'
  <2>1. szBlock["producer"] \in A => Count(szBlock["producer"])' = Count(szBlock["producer"])
    BY <1>2
  <2> QED BY <1>1, <2>1 DEF ProducerSum, Bounds, Held
<1> QED BY <1>3, <1>4 DEF ProducerWalk

\* What the steps of the consumer can use of the producer's walk
LEMMA TrailFacts ==
  ASSUME IInv, NEW A, NEW B, NEW end, Trail(A, B, end)
  PROVE  /\ A \subseteq Linked /\ B \subseteq Linked /\ A \cap B = {}
         /\ szStart["producer"] \in A \cup B /\ frontBlock \in A /\ tailBlock \in A
         /\ sent \in Nat /\ received \in Nat /\ Held \in Nat /\ Held = sent - received
         /\ \A b \in Linked : next[b] \in Linked /\ Count(b) \in Nat /\ end[b] \in Nat
         /\ szBlock["producer"] \in Nat
         /\ szSum["producer"] \in Nat /\ szHeld["producer"] \in Nat
         /\ ppc \in {"size", "sizeNext"} => szBlock["producer"] \in Linked
<1>1. /\ A \subseteq Linked /\ B \subseteq Linked /\ A \cap B = {}
      /\ szStart["producer"] \in A \cup B /\ frontBlock \in A /\ tailBlock \in A
      /\ sent \in Nat /\ received \in Nat /\ Held \in Nat /\ Held = sent - received
      /\ \A b \in Linked : next[b] \in Linked /\ Count(b) \in Nat /\ end[b] \in Nat
  BY InvFacts, HeldFacts DEF Trail, BlockFacts, Held
<1>2. /\ szBlock["producer"] \in Nat
      /\ szSum["producer"] \in Nat /\ szHeld["producer"] \in Nat
      /\ ppc \in {"size", "sizeNext"} => szBlock["producer"] \in Linked
  BY <1>1 DEF IInv, TypeOK, Walk, Threads, SizePc
<1> QED BY <1>1, <1>2

\* The producer's size_approx starts at frontBlock (line 417) with nothing added up.
LEMMA ProducerWalkCall ==
  ASSUME IInv, SizeApproxCall("producer") PROVE ProducerWalk'
<1>0. /\ UNCHANGED <<front, tail, sizeMask, next, allocated, frontBlock, tailBlock, sent, received>>
      /\ ppc = "idle" /\ ppc' = "size"
      /\ szStart'["producer"] = frontBlock /\ szHeld'["producer"] = Held
      /\ szBlock'["producer"] = frontBlock /\ szSum'["producer"] = 0
  BY DEF SizeApproxCall, SizeGoto, SizePc, PGoto, prodOwned, consOwned, IInv, TypeOK, Threads
<1>1. PICK pos, base : Ring(pos) /\ Fill(pos) /\ Chain(pos, base)
  BY DEF IInv, Structure
<1>2. /\ \A b \in Linked : pos[b] \in Nat /\ base[b] \in Nat /\ Count(b) \in Nat
      /\ frontBlock \in Linked /\ tailBlock \in Linked
      /\ sent \in Nat /\ received \in Nat /\ Held \in Nat /\ Held = sent - received
      /\ LinkedCount \in Nat /\ Linked \subseteq Blocks
  BY <1>1, ChainFacts, InvFacts, HeldFacts DEF Held, BlockFacts
<1>3. PICK A : A = {b \in Linked : pos[b] <= pos[tailBlock]}
  OBVIOUS
<1>4. PICK end : end = [b \in Blocks |-> IF b \in Linked THEN base[b] + Count(b) ELSE 0]
  OBVIOUS
<1>5. /\ end \in [Blocks -> Nat]
      /\ \A b \in Linked : end[b] = base[b] + Count(b)
  BY <1>2, <1>4
<1>6. A \subseteq Linked /\ frontBlock \in A /\ tailBlock \in A
  BY <1>1, <1>2, <1>3 DEF Ring
<1>7. ASSUME NEW b \in A \ {tailBlock}
      PROVE  next[b] \in A \ {frontBlock} /\ end[next[b]] = end[b] + Count(next[b])
  <2>1. b \in Linked /\ pos[b] < pos[tailBlock] /\ pos[tailBlock] < LinkedCount
    BY <1>1, <1>2, <1>3 DEF Ring
  <2>2. next[b] \in Linked /\ pos[next[b]] = pos[b] + 1
    BY <1>1, <1>2, <2>1 DEF Ring
  <2>3. next[b] \in A \ {frontBlock} /\ base[next[b]] = base[b] + Count(b)
    BY <1>1, <1>2, <1>3, <2>1, <2>2 DEF Ring, Chain
  <2> QED BY <1>5, <2>1, <2>2, <2>3
<1>8. ASSUME NEW b \in Linked \ (A \ {tailBlock})
      PROVE  next[b] \notin A \ {frontBlock}
  <2>1. pos[b] >= pos[tailBlock]
    BY <1>2, <1>3
  <2>2. next[b] \in Linked /\ (pos[next[b]] = 0 \/ pos[next[b]] = pos[b] + 1)
    BY <1>1, <1>2 DEF Ring
  <2> QED BY <1>1, <1>2, <1>3, <2>1, <2>2 DEF Ring
<1>9. \A b \in Linked \ A : Count(b) = 0
  BY <1>0, <1>1, <1>2, <1>3 DEF Fill
<1>10. end[frontBlock] = received + 1 + Count(frontBlock) /\ end[tailBlock] = sent + 1
  BY <1>1, <1>2, <1>5 DEF Chain
<1>11. (\A b : Count(b)' = Count(b)) /\ Linked' = Linked /\ Held' = Held
  BY <1>0 DEF Count, Linked, LinkedCount, Held
<1>12. Trail(A, {}, end)'
  BY <1>0, <1>5, <1>6, <1>7, <1>8, <1>9, <1>10, <1>11 DEF Trail
<1>13. ProducerSum(A, {}, end)'
  <2>1. sent + 1 - end[frontBlock] + Count(frontBlock) = Held
    BY <1>2, <1>10
  <2> QED BY <1>0, <1>2, <1>6, <1>11, <2>1 DEF ProducerSum, Bounds
<1> QED BY <1>12, <1>13 DEF ProducerWalk

\* Adding a block up and going on to the next one (lines 420-425) keep ProducerWalk.
LEMMA ProducerWalkStep ==
  ASSUME IInv, ProducerWalk, SizeApprox("producer") PROVE ProducerWalk'
<1>1. /\ UNCHANGED <<front, tail, sizeMask, next, allocated, frontBlock, tailBlock,
                     sent, received, szStart, szHeld>>
      /\ ppc \in SizeApproxPcs /\ {ppc, ppc'} \cap {"link"} = {}
  BY DEF SizeApprox, SizeApproxBlock, SizeApproxNext, SizeApproxReturn, SizeApproxPcs,
         sizeVars, SizeGoto, SizePc, PGoto, prodOwned, consOwned
<1>2. (\A b : Count(b)' = Count(b)) /\ Linked' = Linked /\ Held' = Held
  BY <1>1 DEF Count, Linked, LinkedCount, Held
<1>3. PICK A, B, end : Trail(A, B, end) /\ ProducerSum(A, B, end)
  BY <1>1 DEF ProducerWalk
<1>4. Trail(A, B, end)'
  BY <1>1, <1>2, <1>3 DEF Trail
<1>5. PICK b, sum \in Nat, held \in Nat :
        b = szBlock["producer"] /\ sum = szSum["producer"] /\ held = szHeld["producer"]
  BY <1>3, TrailFacts
<1>6. /\ A \subseteq Linked /\ B \subseteq Linked /\ A \cap B = {}
      /\ frontBlock \in A /\ tailBlock \in A
      /\ sent \in Nat /\ received \in Nat /\ Held \in Nat /\ Held = sent - received
      /\ \A c \in Linked : next[c] \in Linked /\ Count(c) \in Nat /\ end[c] \in Nat
      /\ ppc \in {"size", "sizeNext"} => b \in Linked
  BY <1>3, <1>5, TrailFacts
<1>7. CASE SizeApproxBlock("producer")
  <2>1. ppc = "size" /\ ppc' = "sizeNext" /\ b \in Linked
    BY <1>6, <1>7 DEF SizeApproxBlock, SizeGoto, SizePc, PGoto
  <2>2. szBlock'["producer"] = b /\ szHeld'["producer"] = held /\ szSum'["producer"] = sum + Count(b)
    BY <1>5, <1>7 DEF SizeApproxBlock, IInv, TypeOK, Threads, Count
  <2>3. b \notin A => Count(b) = 0
    BY <1>3, <2>1 DEF Trail
  <2>4. b \in B => sum + Count(b) + Held <= held
    BY <1>3, <1>5, <1>6, <2>1, <2>3 DEF ProducerSum
  <2>5. b \in A => Bounds(sum + Count(b), held, sent + 1 - end[b])
    BY <1>3, <1>5, <1>6, <2>1 DEF ProducerSum, Bounds
  <2>6. b \notin A \cup B => Bounds(sum + Count(b), held, 0)
    BY <1>3, <1>5, <1>6, <2>1, <2>3 DEF ProducerSum, Bounds
  <2>7. ProducerSum(A, B, end)'
    BY <1>1, <1>2, <2>1, <2>2, <2>4, <2>5, <2>6 DEF ProducerSum, Bounds
  <2> QED BY <1>4, <2>7 DEF ProducerWalk
<1>8. CASE SizeApproxNext("producer")
  <2>1. ppc = "sizeNext" /\ b \in Linked
    BY <1>6, <1>8 DEF SizeApproxNext, SizePc
  <2>2. /\ szBlock'["producer"] = next[b] /\ szHeld'["producer"] = held
        /\ szSum'["producer"] = sum
        /\ ppc' = IF next[b] # szStart["producer"] THEN "size" ELSE "sizeDone"
    BY <1>5, <1>8 DEF SizeApproxNext, SizeGoto, PGoto, IInv, TypeOK, Threads
  <2>3. CASE b \in B
    <3>1. sum + Held <= held /\ next[b] \in B \cup {frontBlock} /\ ppc' = "size"
      BY <1>3, <1>5, <2>1, <2>2, <2>3 DEF ProducerSum, Trail
    <3>2. sent + 1 - end[frontBlock] + Count(frontBlock) = Held
      BY <1>3, <1>6 DEF Trail
    <3>3. Bounds(sum, held, sent + 1 - end[frontBlock] + Count(frontBlock))
      BY <1>6, <3>1, <3>2 DEF Bounds
    <3>4. ProducerSum(A, B, end)'
      BY <1>1, <1>2, <1>6, <2>2, <3>1, <3>3 DEF ProducerSum, Bounds
    <3> QED BY <1>4, <3>4 DEF ProducerWalk
  <2>4. CASE b \in A \ {tailBlock}
    <3>1. Bounds(sum, held, sent + 1 - end[b])
      BY <1>3, <1>5, <2>1, <2>4 DEF ProducerSum
    <3>2. next[b] \in A /\ next[b] # szStart["producer"] /\ end[next[b]] = end[b] + Count(next[b])
      BY <1>3, <2>4 DEF Trail
    <3>3. sent + 1 - end[next[b]] + Count(next[b]) = sent + 1 - end[b]
      <4>1. PICK c \in Linked : c = next[b]
        BY <1>6, <2>1
      <4>2. end[c] \in Nat /\ end[b] \in Nat /\ Count(c) \in Nat
        BY <1>6, <2>1
      <4> QED BY <1>6, <3>2, <4>1, <4>2
    <3>4. ProducerSum(A, B, end)'
      BY <1>1, <1>2, <1>6, <2>2, <3>1, <3>2, <3>3 DEF ProducerSum, Bounds
    <3> QED BY <1>4, <3>4 DEF ProducerWalk
  <2>5. CASE b \notin B /\ b \notin A \ {tailBlock}
    <3>1. Bounds(sum, held, 0)
      <4>1. b \in A => sent + 1 - end[b] = 0
        BY <1>3, <1>6, <2>5 DEF Trail
      <4> QED BY <1>3, <1>5, <2>1, <2>5, <4>1 DEF ProducerSum
    <3>2. next[b] = szStart["producer"] \/ next[b] \notin A \cup B
      BY <1>3, <2>1, <2>5 DEF Trail
    <3>3. ProducerSum(A, B, end)'
      BY <1>1, <1>2, <2>2, <3>1, <3>2 DEF ProducerSum, Bounds
    <3> QED BY <1>4, <3>3 DEF ProducerWalk
  <2> QED BY <2>3, <2>4, <2>5
<1>9. CASE SizeApproxReturn("producer")
  BY <1>9 DEF SizeApproxReturn, SizeGoto, PGoto, ProducerWalk, SizeApproxPcs
<1> QED BY <1>7, <1>8, <1>9 DEF SizeApprox

\* An element taken out (lines 245, 289) keeps ProducerWalk: it may or may not have been
\* counted.
LEMMA ProducerWalkPublish ==
  ASSUME IInv, ProducerWalk, DequeuePublish PROVE ProducerWalk'
<1>1. PICK c \in 1..allocated : c = cb
  BY InvFacts
<1>2. /\ cpc = "publish" /\ received' = received + 1
      /\ front' = [front EXCEPT ![c] = Wrap(front[c], sizeMask[c])]
      /\ UNCHANGED <<localTail, frontBlock, tail, localFront, next, tailBlock, sizeMask,
                     allocated, ppc, szStart, szBlock, szSum, szHeld, sent>>
  BY <1>1 DEF DequeuePublish, CReturn, CUnchangedElse, prodOwned, prodLocal, sizeVars
<1>3. c = frontBlock /\ front[c] # localTail[c]
  BY <1>1, <1>2 DEF IInv, Consumer
<1>4. /\ Count(c)' = Count(c) - 1
      /\ \A b \in 1..allocated \ {c} : Count(b)' = Count(b)
  BY <1>2, <1>3, FrontMoves DEF IInv
<1>5. Linked' = Linked /\ Linked \subseteq 1..allocated
  BY <1>2, InvFacts DEF Linked, LinkedCount
<1> SUFFICES ASSUME ppc \in SizeApproxPcs PROVE ProducerWalk'
  BY <1>2 DEF ProducerWalk
<1>6. PICK A, B, end : Trail(A, B, end) /\ ProducerSum(A, B, end)
  BY DEF ProducerWalk
<1>7. /\ A \subseteq Linked /\ B \subseteq Linked /\ A \cap B = {}
      /\ frontBlock \in A /\ tailBlock \in A
      /\ sent \in Nat /\ received \in Nat /\ Held \in Nat /\ Held = sent - received
      /\ \A b \in Linked : next[b] \in Linked /\ Count(b) \in Nat /\ end[b] \in Nat
      /\ szBlock["producer"] \in Nat
      /\ szSum["producer"] \in Nat /\ szHeld["producer"] \in Nat
      /\ ppc \in {"size", "sizeNext"} => szBlock["producer"] \in Linked
  BY <1>6, TrailFacts
<1>8. Held' = Held - 1
  BY <1>2, <1>7 DEF Held
<1>9. Trail(A, B, end)'
  <2>1. \A b \in A \ {tailBlock} :
          /\ next[b] \in A \ {frontBlock} /\ next[b] # szStart["producer"]
          /\ end[next[b]] = end[b] + Count(next[b])'
    <3> SUFFICES ASSUME NEW b \in A \ {tailBlock}
                 PROVE  /\ next[b] \in A \ {frontBlock} /\ next[b] # szStart["producer"]
                        /\ end[next[b]] = end[b] + Count(next[b])'
      OBVIOUS
    <3>1. /\ next[b] \in A \ {frontBlock} /\ next[b] # szStart["producer"]
          /\ end[next[b]] = end[b] + Count(next[b])
      BY <1>6 DEF Trail
    <3>2. PICK d \in 1..allocated \ {c} : d = next[b]
      BY <1>3, <1>5, <1>7, <3>1
    <3>3. Count(d)' = Count(d)
      BY <1>4, <3>2
    <3>4. d' = d /\ next'[b] = d
      BY <1>2, <3>2
    <3> QED BY <1>2, <3>1, <3>2, <3>3, <3>4 DEF Count
  <2>2. \A b \in Linked \ A : Count(b)' = 0
    BY <1>3, <1>4, <1>5, <1>6, <1>7 DEF Trail
  <2>3. end[frontBlock] = received' + 1 + Count(frontBlock)'
    <3>1. end[c] = received + 1 + Count(c)
      BY <1>3, <1>6 DEF Trail
    <3>2. Count(c) \in Nat
      BY <1>3, <1>7
    <3> QED BY <1>2, <1>3, <1>4, <1>7, <3>1, <3>2
  <2> QED BY <1>2, <1>5, <1>6, <2>1, <2>2, <2>3 DEF Trail
<1>10. ProducerSum(A, B, end)'
  <2>1. PICK b, sum \in Nat, held \in Nat :
          b = szBlock["producer"] /\ sum = szSum["producer"] /\ held = szHeld["producer"]
    BY <1>7
  <2>2. ppc \in {"size", "sizeNext"} /\ b \in B => sum + (Held - 1) <= held
    BY <1>6, <1>7, <2>1 DEF ProducerSum
  <2>3. ASSUME ppc = "size", b \in A
        PROVE  /\ Held - 1 <= sum + (sent + 1 - end[b] + Count(b)')
               /\ sum + (sent + 1 - end[b] + Count(b)') <= held
    <3>1. b \in Linked /\ Count(b) \in Nat /\ end[b] \in Nat
      BY <1>7, <2>3
    <3>2. Bounds(sum, held, sent + 1 - end[b] + Count(b))
      BY <1>6, <2>1, <2>3 DEF ProducerSum
    <3>3. PICK k \in Int : k = Count(b)' /\ (k = Count(b) \/ k = Count(b) - 1)
      BY <1>3, <1>4, <1>5, <3>1
    <3> QED BY <1>7, <3>1, <3>2, <3>3 DEF Bounds
  <2>4. ASSUME ppc = "sizeNext", b \in A
        PROVE  /\ Held - 1 <= sum + (sent + 1 - end[b])
               /\ sum + (sent + 1 - end[b]) <= held
    <3>1. end[b] \in Nat
      BY <1>7, <2>4
    <3>2. Bounds(sum, held, sent + 1 - end[b])
      BY <1>6, <2>1, <2>4 DEF ProducerSum
    <3> QED BY <1>7, <3>1, <3>2 DEF Bounds
  <2>5. (ppc \in {"size", "sizeNext"} /\ b \notin A \cup B) \/ ppc = "sizeDone" =>
          Held - 1 <= sum /\ sum <= held
    BY <1>6, <1>7, <2>1 DEF ProducerSum, Bounds
  <2> QED BY <1>2, <1>8, <2>1, <2>2, <2>3, <2>4, <2>5 DEF ProducerSum, Bounds
<1> QED BY <1>9, <1>10 DEF ProducerWalk

\* Moving frontBlock on (line 277) keeps ProducerWalk: the block left behind is empty.
LEMMA ProducerWalkAdvance ==
  ASSUME IInv, ProducerWalk, DequeueAdvance PROVE ProducerWalk'
<1>1. /\ frontBlock' = next[frontBlock] /\ frontBlock # tailBlock /\ Count(frontBlock) = 0
      /\ UNCHANGED <<front, tail, next, tailBlock, sizeMask, allocated, ppc,
                     szStart, szBlock, szSum, szHeld, sent, received>>
  BY DEF DequeueAdvance, CUnchangedElse, prodOwned, prodLocal, sizeVars, IInv, Consumer
<1>2. (\A b : Count(b)' = Count(b)) /\ Linked' = Linked /\ Held' = Held
  BY <1>1 DEF Count, Linked, LinkedCount, Held
<1> SUFFICES ASSUME ppc \in SizeApproxPcs PROVE ProducerWalk'
  BY <1>1 DEF ProducerWalk
<1>3. PICK A, B, end : Trail(A, B, end) /\ ProducerSum(A, B, end)
  BY DEF ProducerWalk
<1>4. /\ A \subseteq Linked /\ B \subseteq Linked /\ A \cap B = {}
      /\ szStart["producer"] \in A \cup B /\ frontBlock \in A /\ tailBlock \in A
      /\ sent \in Nat /\ received \in Nat /\ Held \in Nat /\ Held = sent - received
      /\ \A b \in Linked : next[b] \in Linked /\ Count(b) \in Nat /\ end[b] \in Nat
      /\ szSum["producer"] \in Nat /\ szHeld["producer"] \in Nat
  BY <1>3, TrailFacts
<1>5. PICK ahead, behind : ahead = A \ {frontBlock} /\ behind = B \cup {frontBlock}
  OBVIOUS
<1>6. PICK new : new = next[frontBlock]
  OBVIOUS
<1>7. /\ new \in ahead /\ new # szStart["producer"]
      /\ end[new] = end[frontBlock] + Count(new) /\ end[frontBlock] = received + 1
  <2>1. /\ new \in A \ {frontBlock} /\ new # szStart["producer"]
        /\ end[new] = end[frontBlock] + Count(new)
        /\ end[frontBlock] = received + 1 + Count(frontBlock)
    BY <1>1, <1>3, <1>4, <1>6 DEF Trail
  <2> QED BY <1>1, <1>4, <1>5, <2>1
<1>8. Trail(ahead, behind, end)'
  <2>1. \A b \in behind : next[b] \in behind \cup {new} /\ next[b] # szStart["producer"]
    BY <1>3, <1>5, <1>6, <1>7 DEF Trail
  <2>2. ASSUME NEW b \in ahead \ {tailBlock}
        PROVE  /\ next[b] \in ahead \ {new} /\ next[b] # szStart["producer"]
               /\ end[next[b]] = end[b] + Count(next[b])
    <3>1. b \in A \ {tailBlock} /\ b # frontBlock
      BY <1>5
    <3>2. next[b] # new
      BY <1>4, <1>6, <3>1, NextInjective
    <3> QED BY <1>3, <1>5, <3>1, <3>2 DEF Trail
  <2>3. behind \cup (ahead \ {tailBlock}) = B \cup (A \ {tailBlock}) /\ ahead \cup behind = A \cup B
    BY <1>1, <1>4, <1>5
  <2>4. \A b \in Linked \ ahead : Count(b) = 0
    BY <1>1, <1>3, <1>5 DEF Trail
  <2>5. /\ ahead \subseteq Linked /\ behind \subseteq Linked /\ ahead \cap behind = {}
        /\ new \in ahead /\ tailBlock \in ahead
    BY <1>1, <1>4, <1>5, <1>7
  <2>6. end[new] = received + 1 + Count(new)
    BY <1>7
  <2> QED BY <1>1, <1>2, <1>3, <1>6, <2>1, <2>2, <2>3, <2>4, <2>5, <2>6 DEF Trail
<1>9. ProducerSum(ahead, behind, end)'
  <2>1. PICK b, sum, held :
          b = szBlock["producer"] /\ sum = szSum["producer"] /\ held = szHeld["producer"]
    OBVIOUS
  <2>2. sum \in Nat /\ held \in Nat
    BY <1>4, <2>1
  <2>3. ppc \in {"size", "sizeNext"} /\ b = frontBlock => sum + Held <= held
    BY <1>1, <1>3, <1>4, <1>7, <2>1, <2>2 DEF ProducerSum, Bounds
  <2>4. ppc \in {"size", "sizeNext"} /\ b \in behind => sum + Held <= held
    BY <1>3, <1>5, <2>1, <2>3 DEF ProducerSum
  <2>5. /\ ppc = "size" /\ b \in ahead => Bounds(sum, held, sent + 1 - end[b] + Count(b))
        /\ ppc = "sizeNext" /\ b \in ahead => Bounds(sum, held, sent + 1 - end[b])
        /\ ppc \in {"size", "sizeNext"} /\ b \notin ahead \cup behind => Bounds(sum, held, 0)
        /\ ppc = "sizeDone" => Bounds(sum, held, 0)
    BY <1>3, <1>5, <2>1 DEF ProducerSum
  <2> QED BY <1>1, <1>2, <2>1, <2>4, <2>5 DEF ProducerSum, Bounds
<1> QED BY <1>8, <1>9 DEF ProducerWalk

\* A step of the consumer that moves no index the producer can see
DequeueLocal ==
  \/ \E op \in ConsumerOps : DequeueCall(op)
  \/ DequeueRefreshTail \/ DequeueCheckTailBlock \/ DequeueRecheck \/ DequeueReadNext
  \/ DequeueReadNextTail \/ DequeueTake

\* All other steps keep ProducerWalk.
LEMMA ProducerWalkOther ==
  ASSUME IInv, ProducerWalk,
         \/ DequeueLocal
         \/ SizeApproxCall("consumer") \/ SizeApprox("consumer")
         \/ \E op \in ProducerOps : EnqueueCall(op)
         \/ Enqueue \/ Destroy \/ UNCHANGED vars
  PROVE  ProducerWalk'
<1> USE DEF prodOwned, consOwned, prodLocal, consLocal, sizeVars
<1>1. ASSUME ppc' \notin SizeApproxPcs PROVE ProducerWalk'
  BY <1>1 DEF ProducerWalk
<1>2. ASSUME (\E op \in ProducerOps : EnqueueCall(op)) \/ Enqueue \/ Destroy
      PROVE  ppc' \notin SizeApproxPcs
  BY <1>2 DEF Enqueue, EnqueueCall, EnqueueRefreshFront, EnqueueConstruct, EnqueuePublish,
     EnqueueTailFull, EnqueueNextFront, EnqueueNextConstruct, EnqueueNextTail,
     EnqueueAllocate, EnqueueOutOfMemory, EnqueueLink, EnqueueAdvance, PGoto, PReturn,
     SizeApproxPcs, Destroy
<1>3. ASSUME DequeueLocal \/ UNCHANGED vars PROVE ProducerWalk'
  <2>1. UNCHANGED <<front, tail, sizeMask, next, allocated, frontBlock, tailBlock,
                    sent, received, ppc, szStart, szBlock, szSum, szHeld>>
    BY <1>3 DEF DequeueLocal, DequeueCall, DequeueRefreshTail, DequeueCheckTailBlock,
       DequeueRecheck, DequeueReadNext, DequeueReadNextTail, DequeueTake, CUnchangedElse, vars
  <2> QED BY <2>1, ProducerWalkKept DEF Count, Linked, LinkedCount
<1>4. ASSUME SizeApproxCall("consumer") \/ SizeApprox("consumer") PROVE ProducerWalk'
  <2>1. UNCHANGED <<front, tail, sizeMask, next, allocated, frontBlock, tailBlock,
                    sent, received, ppc>>
    BY <1>4 DEF SizeApproxCall, SizeApprox, SizeApproxBlock, SizeApproxNext,
                SizeApproxReturn, SizeGoto, SizePc, CGoto
  <2>2. /\ szStart'["producer"] = szStart["producer"]
        /\ szBlock'["producer"] = szBlock["producer"]
        /\ szSum'["producer"] = szSum["producer"]
        /\ szHeld'["producer"] = szHeld["producer"]
    BY <1>4 DEF SizeApproxCall, SizeApprox, SizeApproxBlock, SizeApproxNext,
                SizeApproxReturn, IInv, TypeOK, Threads
  <2> QED BY <2>1, <2>2, ProducerWalkKept DEF Count, Linked, LinkedCount
<1> QED BY <1>1, <1>2, <1>3, <1>4

\* ProducerWalk holds throughout.
LEMMA ProducerWalkHolds == Spec => []ProducerWalk
<1>1. Init => ProducerWalk
  BY DEF Init, ProducerWalk, SizeApproxPcs
<1>2. IInv /\ ProducerWalk /\ [Next]_vars => ProducerWalk'
  <2> SUFFICES ASSUME IInv, ProducerWalk, [Next]_vars PROVE ProducerWalk'
    OBVIOUS
  <2>1. CASE DequeuePublish
    BY <2>1, ProducerWalkPublish
  <2>2. CASE DequeueAdvance
    BY <2>2, ProducerWalkAdvance
  <2>3. CASE SizeApproxCall("producer") \/ SizeApprox("producer")
    BY <2>3, ProducerWalkCall, ProducerWalkStep
  <2> QED BY <2>1, <2>2, <2>3, ProducerWalkOther DEF Next, Dequeue, DequeueLocal
<1> QED
  BY <1>1, <1>2, InvariantHolds, PTL DEF Spec

\* size_approx (lines 411-427): the consumer's answer lies between what was held at the
\* call and what is held at the return, plus one element on its way in; the producer's
\* lies between what is held at the return and what was held at the call.
THEOREM SizeApproxWithinBounds == Spec => []SizeApproxBounds
<1>1. IInv /\ ConsumerWalk /\ ProducerWalk => SizeApproxBounds
  <2> SUFFICES ASSUME IInv, ConsumerWalk, ProducerWalk PROVE SizeApproxBounds
    OBVIOUS
  <2>1. ASSUME cpc = "sizeDone"
        PROVE  szHeld["consumer"] <= szSum["consumer"] /\ szSum["consumer"] <= Held + 1
    BY <2>1 DEF ConsumerWalk, ConsumerSum, SizeApproxPcs
  <2>2. ASSUME ppc = "sizeDone"
        PROVE  Held <= szSum["producer"] /\ szSum["producer"] <= szHeld["producer"]
    <3>1. Bounds(szSum["producer"], szHeld["producer"], 0)
      BY <2>2 DEF ProducerWalk, ProducerSum, SizeApproxPcs
    <3>2. szSum["producer"] \in Nat
      BY DEF IInv, TypeOK, Threads
    <3> QED BY <3>1, <3>2 DEF Bounds
  <2> QED BY <2>1, <2>2 DEF SizeApproxBounds
<1> QED
  BY <1>1, ConsumerWalkHolds, ProducerWalkHolds, InvariantHolds, PTL

-----------------------------------------------------------------------------
(* The refinement of SpscFifo.  The invariant says where each element is.   *)
(* From it the content of the abstract queue, which ReaderWriterQueueFifo   *)
(* reads off the blocks, is the run of serial numbers received + 1, ...,    *)
(* sent (ContentIs); each step of the code then maps to a step of the       *)
(* abstract queue or to a stutter.                                          *)

\* The walk of FlattenSeq over the first i sequences
Flattens(seqs, f, n) ==
  f = [i \in 1..n |-> IF i = 1 THEN seqs[i] ELSE f[i - 1] \o seqs[i]]

\* FlattenSeq's walk is defined for any number of sequences.
LEMMA FlattenExists ==
  ASSUME NEW seqs
  PROVE  \A n \in Nat : \E f : Flattens(seqs, f, n)
<1> DEFINE P == {n \in Nat : \E f : Flattens(seqs, f, n)}
<1>1. 0 \in P
  <2>1. Flattens(seqs, [i \in 1..0 |-> 0], 0)
    BY DEF Flattens
  <2> QED BY <2>1
<1>2. \A n \in Nat : n \in P => n + 1 \in P
  <2> SUFFICES ASSUME NEW n \in Nat, NEW f, Flattens(seqs, f, n)
               PROVE  \E h : Flattens(seqs, h, n + 1)
    OBVIOUS
  <2> DEFINE h == [i \in 1..n + 1 |-> IF i <= n THEN f[i]
                                      ELSE IF i = 1 THEN seqs[i] ELSE f[i - 1] \o seqs[i]]
  <2>1. \A i \in 1..n : f[i] = IF i = 1 THEN seqs[i] ELSE f[i - 1] \o seqs[i]
    BY DEF Flattens
  <2>2. \A i \in 1..n + 1 : h[i] = IF i = 1 THEN seqs[i] ELSE h[i - 1] \o seqs[i]
    <3> SUFFICES ASSUME NEW i \in 1..n + 1
                 PROVE  h[i] = IF i = 1 THEN seqs[i] ELSE h[i - 1] \o seqs[i]
      OBVIOUS
    <3>1. CASE i = 1
      BY <3>1, <2>1
    <3>2. CASE i # 1
      <4>1. h[i - 1] = f[i - 1]
        BY <3>2
      <4>2. CASE i <= n
        <5>1. i \in 1..n /\ h[i] = f[i]
          BY <4>2
        <5> QED BY <5>1, <4>1, <3>2, <2>1
      <4>3. CASE ~ (i <= n)
        BY <4>3, <4>1, <3>2
      <4> QED BY <4>2, <4>3
    <3> QED BY <3>1, <3>2
  <2>3. h = [i \in 1..n + 1 |-> h[i]]
    OBVIOUS
  <2> HIDE DEF h
  <2>4. Flattens(seqs, h, n + 1)
    BY <2>2, <2>3 DEF Flattens
  <2> QED BY <2>4
<1> HIDE DEF P
<1>3. \A n \in Nat : n \in P
  BY <1>1, <1>2, NatSets
<1> QED BY <1>3 DEF P

\* f[i] is the first i sequences put together, and FlattenSeq all n of them.
PartialSequences(seqs, f, n) ==
  /\ FlattenSeq(seqs) = f[n]
  /\ f[1] = seqs[1]
  /\ \A i \in 2..n : f[i] = f[i - 1] \o seqs[i]

\* FlattenSeq appends the sequences one by one.
LEMMA FlattenIs ==
  ASSUME NEW n \in Nat, n >= 1, NEW seqs, Len(seqs) = n
  PROVE  \E f : PartialSequences(seqs, f, n)
<1>1. PICK f : f = CHOOSE g : Flattens(seqs, g, n)
  OBVIOUS
<1>2. FlattenSeq(seqs) = f[n]
  BY <1>1 DEF FlattenSeq, Flattens
<1>3. \E g : Flattens(seqs, g, n)
  BY FlattenExists
<1>4. Flattens(seqs, f, n)
  BY <1>1, <1>3
<1>5. \A i \in 1..n : f[i] = IF i = 1 THEN seqs[i] ELSE f[i - 1] \o seqs[i]
  BY <1>4 DEF Flattens
<1>6. f[1] = seqs[1]
  BY <1>5
<1>7. \A i \in 2..n : f[i] = f[i - 1] \o seqs[i]
  <2> SUFFICES ASSUME NEW i \in 2..n PROVE f[i] = f[i - 1] \o seqs[i]
    OBVIOUS
  <2>1. i \in 1..n /\ i # 1
    OBVIOUS
  <2> QED BY <2>1, <1>5
<1> QED BY <1>2, <1>6, <1>7 DEF PartialSequences

-----------------------------------------------------------------------------
\* h elements from the number r + 1 on
Numbers(r, h) == [k \in 1..h |-> r + k]

\* Consecutive runs of numbers put together are a run: what one block holds,
\* followed by what the next one holds.
LEMMA NumbersConcat ==
  ASSUME NEW r \in Nat, NEW h \in Nat, NEW g \in Nat
  PROVE  /\ Numbers(r, h) \in Seq(Nat)
         /\ Len(Numbers(r, h)) = h
         /\ Numbers(r, h) \o Numbers(r + h, g) = Numbers(r, h + g)
<1> DEFINE a == Numbers(r, h)
           b == Numbers(r + h, g)
<1>1. a \in Seq(Nat) /\ Len(a) = h /\ \A k \in 1..h : a[k] = r + k
  BY DEF Numbers
<1>2. b \in Seq(Nat) /\ Len(b) = g /\ \A k \in 1..g : b[k] = r + h + k
  BY DEF Numbers
<1> HIDE DEF a, b
<1>3. /\ a \o b \in Seq(Nat) /\ Len(a \o b) = h + g
      /\ \A k \in 1..h + g : (a \o b)[k] = IF k <= h THEN a[k] ELSE b[k - h]
  BY <1>1, <1>2, ConcatProperties, ZenonT(60)
<1>4. \A k \in 1..h + g : (a \o b)[k] = r + k
  <2> SUFFICES ASSUME NEW k \in 1..h + g PROVE (a \o b)[k] = r + k
    OBVIOUS
  <2>1. CASE k <= h
    BY <2>1, <1>1, <1>3
  <2>2. CASE k > h
    <3>1. k - h \in 1..g
      BY <2>2
    <3>2. (a \o b)[k] = b[k - h]
      BY <2>2, <1>3
    <3>3. b[k - h] = r + h + (k - h)
      BY <3>1, <1>2
    <3>4. r + h + (k - h) = r + k
      OBVIOUS
    <3> QED BY <3>2, <3>3, <3>4
  <2>3. k <= h \/ k > h
    OBVIOUS
  <2> QED BY <2>1, <2>2, <2>3
<1>5. PICK c : c = Numbers(r, h + g)
  OBVIOUS
<1>6. c \in Seq(Nat) /\ Len(c) = h + g /\ \A k \in 1..h + g : c[k] = r + k
  BY <1>5 DEF Numbers
<1>7. a \o b = c
  BY <1>3, <1>4, <1>6, SeqEqual
<1> QED BY <1>1, <1>5, <1>7 DEF a, b

\* A run of numbers grows at its end and shrinks at its head, by one, as the queue
\* does in enqueue and in dequeue.
LEMMA NumbersEnds ==
  ASSUME NEW r \in Nat, NEW h \in Nat
  PROVE  /\ Append(Numbers(r, h), r + h + 1) = Numbers(r, h + 1)
         /\ (Numbers(r, h) = <<>>) = (h = 0)
         /\ h > 0 => /\ Numbers(r, h) # <<>>
                     /\ Head(Numbers(r, h)) = r + 1
                     /\ Tail(Numbers(r, h)) = Numbers(r + 1, h - 1)
<1>1. Append(Numbers(r, h), r + h + 1) = Numbers(r, h + 1)
  BY DEF Numbers
<1>2. (Numbers(r, h) = <<>>) = (h = 0)
  <2>1. Len(Numbers(r, h)) = h
    BY NumbersConcat
  <2>2. h = 0 => Numbers(r, h) = <<>>
    BY DEF Numbers
  <2> QED BY <2>1, <2>2
<1>3. ASSUME h > 0 PROVE Head(Numbers(r, h)) = r + 1 /\ Tail(Numbers(r, h)) = Numbers(r + 1, h - 1)
  <2> DEFINE s == Numbers(r, h)
  <2>1. s \in Seq(Nat) /\ Len(s) = h /\ \A k \in 1..h : s[k] = r + k
    BY DEF Numbers
  <2> HIDE DEF s
  <2>2. Head(s) = r + 1
    BY <1>3, <2>1
  <2>3. /\ Tail(s) \in Seq(Nat) /\ Len(Tail(s)) = h - 1
        /\ \A k \in 1..h - 1 : Tail(s)[k] = s[k + 1]
    <3>1. s # <<>>
      BY <1>3, <2>1
    <3> QED BY <2>1, <3>1, HeadTailProperties
  <2>4. PICK t : t = Numbers(r + 1, h - 1)
    OBVIOUS
  <2>5. t \in Seq(Nat) /\ Len(t) = h - 1 /\ \A k \in 1..h - 1 : t[k] = r + 1 + k
    BY <1>3, <2>4 DEF Numbers
  <2>6. \A k \in 1..h - 1 : s[k + 1] = r + (k + 1)
    <3> SUFFICES ASSUME NEW k \in 1..h - 1 PROVE s[k + 1] = r + (k + 1)
      OBVIOUS
    <3>1. k + 1 \in 1..h
      OBVIOUS
    <3> QED BY <3>1, <2>1
  <2>7. \A k \in 1..h - 1 : Tail(s)[k] = t[k]
    BY <2>3, <2>5, <2>6
  <2>8. Tail(s) = t
    BY <2>3, <2>5, <2>7, SeqEqual
  <2> QED BY <2>2, <2>4, <2>8 DEF s
<1> QED BY <1>1, <1>2, <1>3

-----------------------------------------------------------------------------
\* The k-th slot from front, counted around the block as the code does by masking,
\* is at distance k - 1.
LEMMA SlotOf ==
  ASSUME NEW m \in Nat, NEW f \in 0..m, NEW k \in 1..m,
         NEW i, i = (f + k - 1) % (m + 1)
  PROVE  i \in 0..m /\ Span(f, i, m) = k - 1
<1>1. CASE f + k - 1 <= m
  <2>1. i = f + k - 1
    BY <1>1
  <2> QED BY <1>1, <2>1 DEF Span
<1>2. CASE f + k - 1 > m
  <2>1. i = f + k - 1 - (m + 1)
    BY <1>2
  <2> QED BY <1>2, <2>1 DEF Span
<1> QED BY <1>1, <1>2

\* A block holds consecutive elements, from the serial number of its oldest on:
\* also while the consumer has moved the oldest out and not released its slot yet
\* (lines 238-245).
LEMMA BlockContentIs ==
  ASSUME IInv, alive, NEW base, Contents(base),
         base[frontBlock] = received + 1,
         NEW b \in 1..allocated, base[b] \in Nat, base[b] >= 1
  PROVE  BlockContent(b) = Numbers(base[b] - 1, Count(b))
<1>1. BlockFacts(b) /\ received \in Nat
  BY InvFacts
<1> DEFINE slot(k) == (front[b] + k - 1) % (sizeMask[b] + 1)
           content(k) == IF cpc = "publish" /\ b = cb /\ slot(k) = front[b]
                         THEN celem ELSE data[b][slot(k)]
<1>2. ASSUME NEW k \in 1..Count(b)
      PROVE  content(k) = base[b] - 1 + k
  <2>1. PICK i : i = slot(k)
    OBVIOUS
  <2>2. k \in 1..sizeMask[b] /\ k - 1 < Count(b) /\ k \in Int
    BY <1>1 DEF BlockFacts
  <2>3. i \in 0..sizeMask[b] /\ Off(b, i) = k - 1
    <3>1. PICK f, mask : f = front[b] /\ mask = sizeMask[b]
      OBVIOUS
    <3>2. i = (f + k - 1) % (mask + 1)
      BY <2>1, <3>1
    <3>3. mask \in Nat /\ mask \in Int /\ f \in 0..mask /\ k \in 1..mask
      BY <1>1, <2>2, <3>1 DEF BlockFacts
    <3>4. i \in 0..mask /\ Span(f, i, mask) = k - 1
      BY ONLY <3>2, <3>3, SlotOf
    <3> QED BY <3>1, <3>4 DEF Off
  <2>4. CASE cpc = "publish" /\ b = cb /\ i = front[b]
    <3>1. b = frontBlock /\ celem = received + 1
      BY <2>4 DEF IInv, Consumer
    <3>2. Off(b, i) = 0
      BY <2>4, <1>1, OffEnds
    <3> QED BY <2>1, <2>2, <2>3, <2>4, <3>1, <3>2, <1>1
  <2>5. CASE ~ (cpc = "publish" /\ b = cb /\ i = front[b])
    <3>1. cpc = "publish" => cb = frontBlock
      BY DEF IInv, Consumer
    <3>2. Holds(b, i)
      BY <2>2, <2>3, <2>5, <3>1 DEF Holds
    <3>3. i \in Slots
      BY <1>1, <2>3 DEF BlockFacts
    <3>4. data[b][i] = base[b] + Off(b, i)
      BY <3>2, <3>3 DEF Contents
    <3>5. content(k) = data[b][i]
      BY <2>1, <2>5
    <3> QED BY <3>4, <3>5, <2>2, <2>3
  <2> QED BY <2>4, <2>5
<1>3. BlockContent(b) = [k \in 1..Count(b) |-> content(k)]
  BY DEF BlockContent, Count
<1> HIDE DEF content
<1> QED BY <1>2, <1>3 DEF Numbers

\* The queue's content, read off the blocks from frontBlock to tailBlock, is exactly
\* what was published and not yet taken, in the order of enqueueing.
LEMMA ContentIs ==
  ASSUME IInv, alive
  PROVE  Content = Numbers(received, Held)
<1>1. PICK pos, base : Ring(pos) /\ Fill(pos) /\ Chain(pos, base) /\ Contents(base)
  BY DEF IInv, Structure
<1>2. PICK d : d = pos[tailBlock]
  OBVIOUS
<1>3. TailDistance = d
  BY <1>1, <1>2, TailFound DEF TailDistance
<1>4. /\ LinkedCount \in 1..HeapBlocks /\ d \in 0..LinkedCount - 1 /\ d \in Nat
      /\ \A k \in 0..LinkedCount - 1 : Nth[k] \in Linked /\ pos[Nth[k]] = k
      /\ \A k \in 0..LinkedCount - 2 : Nth[k + 1] = next[Nth[k]]
      /\ Nth[0] = frontBlock /\ Nth[d] = tailBlock
      /\ Linked \subseteq 1..allocated /\ received \in Nat /\ sent \in Nat
      /\ HeapBlocks \in Nat
  <2>1. /\ LinkedCount \in 1..HeapBlocks /\ d \in 0..LinkedCount - 1
        /\ \A k \in 0..LinkedCount - 1 : Nth[k] \in Linked /\ pos[Nth[k]] = k
        /\ Nth[d] = tailBlock /\ HeapBlocks \in Nat
    BY <1>1, <1>2, RingWalk, InvFacts, SizesPositive
  <2>2. ASSUME NEW k \in 0..LinkedCount - 2 PROVE Nth[k + 1] = next[Nth[k]]
    <3>1. k + 1 \in 1..HeapBlocks /\ k + 1 - 1 = k /\ k \in 0..LinkedCount - 1
      BY <2>1
    <3>2. Nth[k] # NoBlock
      BY <2>1, <3>1, InvFacts DEF NoBlock
    <3> QED BY <3>1, <3>2, NthIs
  <2> QED BY <2>1, <2>2, NthIs, InvFacts
<1>5. ASSUME NEW i \in 0..d
      PROVE  /\ Nth[i] \in Linked /\ Count(Nth[i]) \in Nat /\ base[Nth[i]] \in Nat
             /\ base[Nth[i]] >= received + 1
             /\ BlockContent(Nth[i]) = Numbers(base[Nth[i]] - 1, Count(Nth[i]))
  <2>1. PICK b : b = Nth[i]
    OBVIOUS
  <2>2. b \in Linked /\ pos[b] = i /\ b \in 1..allocated
    <3>1. i \in 0..LinkedCount - 1
      BY <1>4
    <3> QED BY <2>1, <3>1, <1>4
  <2>3. base[b] \in Nat /\ Count(b) \in Nat /\ base[b] >= received + 1
    BY <2>2, <1>1, <1>2, <1>4, ChainFacts
  <2>4. BlockContent(b) = Numbers(base[b] - 1, Count(b))
    BY <2>2, <2>3, <1>1, <1>4, BlockContentIs DEF Chain
  <2> QED BY <2>1, <2>2, <2>3, <2>4
<1>6. PICK seqs : seqs = [k \in 1..d + 1 |-> BlockContent(Nth[k - 1])]
  OBVIOUS
<1>7. Len(seqs) = d + 1
  BY <1>4, <1>6
<1>8. PICK f : PartialSequences(seqs, f, d + 1)
  <2>1. d + 1 \in Nat /\ d + 1 >= 1
    BY <1>4
  <2>2. PICK n \in Nat : n = d + 1 /\ n >= 1 /\ Len(seqs) = n
    BY <2>1, <1>7
  <2>3. \E f : PartialSequences(seqs, f, n)
    BY <2>2, FlattenIs
  <2> QED BY <2>2, <2>3
<1> DEFINE upTo(i) == base[Nth[i]] + Count(Nth[i]) - received - 1
           P == {i \in Nat : i <= d => f[i + 1] = Numbers(received, upTo(i))}
<1>9. 0 \in P
  <2>1. seqs[1] = BlockContent(Nth[0])
    BY <1>4, <1>6
  <2>2. BlockContent(Nth[0]) = Numbers(base[Nth[0]] - 1, Count(Nth[0])) /\ Count(Nth[0]) \in Nat
    BY <1>4, <1>5
  <2>3. base[Nth[0]] = received + 1
    BY <1>1, <1>4 DEF Chain
  <2>4. base[Nth[0]] - 1 = received /\ upTo(0) = Count(Nth[0])
    BY <2>2, <2>3, <1>4, SMTT(30)
  <2> QED BY <2>1, <2>2, <2>4, <1>8 DEF PartialSequences
<1>10. \A i \in Nat : i \in P => i + 1 \in P
  <2> SUFFICES ASSUME NEW i \in Nat, i \in P, i + 1 <= d
               PROVE  f[i + 2] = Numbers(received, upTo(i + 1))
    OBVIOUS
  <2>1. f[i + 1] = Numbers(received, upTo(i))
    BY <1>4
  <2>2. i + 2 \in 2..d + 1 /\ i + 2 - 1 = i + 1 /\ i \in 0..d /\ i + 1 \in 0..d
        /\ i \in 0..LinkedCount - 2 /\ i \in 0..LinkedCount - 1
    BY <1>4
  <2>3. f[i + 2] = f[i + 1] \o seqs[i + 2]
    <3>1. PICK j \in 2..d + 1 : j = i + 2
      BY <2>2
    <3>2. f[j] = f[j - 1] \o seqs[j]
      BY <1>8 DEF PartialSequences
    <3>3. j - 1 = i + 1
      BY <3>1, <1>4
    <3> QED BY <3>1, <3>2, <3>3
  <2>4. seqs[i + 2] = BlockContent(Nth[i + 1])
    BY <2>2, <1>4, <1>6
  <2>5. PICK b \in Linked, c \in Linked : b = Nth[i] /\ c = Nth[i + 1]
    BY <2>2, <1>5
  <2>6. c = next[b] /\ pos[b] = i /\ pos[b] < pos[tailBlock]
    BY <2>2, <2>5, <1>2, <1>4
  <2>7. base[c] = base[b] + Count(b)
    BY <2>6, <1>1 DEF Chain
  <2>8. /\ Count(b) \in Nat /\ base[b] \in Nat /\ base[b] >= received + 1
        /\ Count(c) \in Nat /\ base[c] \in Nat
        /\ BlockContent(c) = Numbers(base[c] - 1, Count(c))
    BY <2>2, <2>5, <1>5
  <2>9. PICK h \in Nat : h = upTo(i)
    BY <2>5, <2>8, <1>4
  <2>10. received + h = base[c] - 1 /\ h + Count(c) = upTo(i + 1)
    BY <2>5, <2>7, <2>8, <2>9, <1>4
  <2>11. Numbers(received, h) \o Numbers(received + h, Count(c)) = Numbers(received, h + Count(c))
    <3>1. received \in Nat /\ Count(c) \in Nat
      BY <2>8, <1>4
    <3>2. PICK r \in Nat, g \in Nat : r = received /\ g = Count(c)
      BY <3>1
    <3>3. Numbers(r, h) \o Numbers(r + h, g) = Numbers(r, h + g)
      BY NumbersConcat
    <3> QED BY <3>2, <3>3
  <2> QED BY <2>1, <2>3, <2>4, <2>5, <2>8, <2>9, <2>10, <2>11
<1> HIDE DEF P
<1>11. d \in P
  BY <1>4, <1>9, <1>10, NatSets
<1>12. f[d + 1] = Numbers(received, upTo(d))
  BY <1>4, <1>11 DEF P
<1>13. upTo(d) = Held
  BY <1>1, <1>4, <1>5 DEF Chain, Held
<1>14. Content = FlattenSeq(seqs)
  BY <1>3, <1>6 DEF Content
<1> QED BY <1>8, <1>12, <1>13, <1>14 DEF PartialSequences

-----------------------------------------------------------------------------
\* Where a call of try_dequeue, pop or peek can be
DequeuePcs == {"refresh", "checkTailBlock", "recheck", "readNext", "readNextTail",
               "advance", "take", "publish"}

\* What each thread knows about the call it is in: only enqueue allocates, and a
\* consumer that may still answer that the queue is empty saw it empty since its
\* call began.
Calls ==
  /\ ppc = "alloc" => pmode = "enqueue"
  /\ cpc \in DequeuePcs => cop # "none"
  /\ cpc = "publish" => cop # "peek"
  /\ cpc \in DequeuePcs \ {"publish"} /\ Held = 0 => emptyAtCall
  /\ cpc = "checkTailBlock" /\ frontBlock = tailBlock => emptyAtCall

\* The producer's steps keep Calls.
LEMMA ProducerCalls ==
  ASSUME IInv, Calls, Enqueue \/ \E op \in ProducerOps : EnqueueCall(op) PROVE Calls'
<1> USE DEF PUnchangedElse, prodOwned, consOwned, consLocal, sizeVars, PGoto, PReturn
<1>1. /\ UNCHANGED <<cpc, cop, emptyAtCall, frontBlock, received>>
      /\ sent' = sent \/ sent' = sent + 1
      /\ tailBlock' = tailBlock \/ (ppc = "advance" /\ tailBlock' = pnb)
      /\ ppc' = "alloc" => pmode' = "enqueue"
  <2>1. ASSUME NEW op \in ProducerOps, EnqueueCall(op)
        PROVE  /\ UNCHANGED <<cpc, cop, emptyAtCall, frontBlock, received, tailBlock, sent>>
               /\ ppc' # "alloc"
    BY <2>1 DEF EnqueueCall
  <2>2. CASE EnqueueRefreshFront
    BY <2>2 DEF EnqueueRefreshFront
  <2>3. CASE EnqueueConstruct
    BY <2>3 DEF EnqueueConstruct
  <2>4. CASE EnqueuePublish
    BY <2>4 DEF EnqueuePublish
  <2>5. CASE EnqueueTailFull
    BY <2>5 DEF EnqueueTailFull
  <2>6. CASE EnqueueNextFront
    BY <2>6 DEF EnqueueNextFront
  <2>7. CASE EnqueueNextConstruct
    BY <2>7 DEF EnqueueNextConstruct
  <2>8. CASE EnqueueNextTail
    BY <2>8 DEF EnqueueNextTail
  <2>9. CASE EnqueueAllocate
    BY <2>9 DEF EnqueueAllocate
  <2>10. CASE EnqueueOutOfMemory
    BY <2>10 DEF EnqueueOutOfMemory
  <2>11. CASE EnqueueLink
    BY <2>11 DEF EnqueueLink
  <2>12. CASE EnqueueAdvance
    BY <2>12 DEF EnqueueAdvance
  <2> QED BY <2>1, <2>2, <2>3, <2>4, <2>5, <2>6, <2>7, <2>8, <2>9, <2>10, <2>11, <2>12 DEF Enqueue
<1>2. ppc = "advance" => pnb # frontBlock
  BY DEF IInv, Producer
<1>3. Held' = 0 => Held = 0
  BY <1>1, InvFacts, HeldFacts DEF Held
<1> QED BY <1>1, <1>2, <1>3 DEF Calls

\* The consumer's steps keep Calls: a consumer that sees frontBlock empty and to be
\* tailBlock at the same time has seen an empty queue.
LEMMA ConsumerCalls ==
  ASSUME IInv, Calls, Dequeue \/ \E op \in ConsumerOps : DequeueCall(op) PROVE Calls'
<1> USE DEF CUnchangedElse, prodOwned, prodLocal, consOwned, sizeVars, CGoto, CReturn, DequeuePcs
<1>1. UNCHANGED <<ppc, pmode, tailBlock, sent>>
  BY DEF Dequeue, DequeueCall, DequeueRefreshTail, DequeueCheckTailBlock, DequeueRecheck,
         DequeueReadNext, DequeueReadNextTail, DequeueAdvance, DequeueTake, DequeuePublish
<1>2. ASSUME NEW op \in ConsumerOps, DequeueCall(op) PROVE Calls'
  BY <1>1, <1>2, OpsAssumption DEF DequeueCall, Calls, Held
<1>3. CASE DequeueRefreshTail
  <2>1. ASSUME front[frontBlock] = tail[frontBlock], frontBlock = tailBlock PROVE Held = 0
    <3>1. PICK pos, base : Chain(pos, base)
      BY DEF IInv, Structure
    <3>2. Count(tailBlock) = 0
      BY <2>1, InvFacts DEF BlockFacts
    <3> QED BY <2>1, <3>1, <3>2, InvFacts DEF Chain, Held, BlockFacts
  <2> QED BY <1>1, <1>3, <2>1 DEF DequeueRefreshTail, Calls, Held
<1>4. CASE DequeueCheckTailBlock
  BY <1>1, <1>4 DEF DequeueCheckTailBlock, Calls, Held
<1>5. CASE DequeueRecheck
  BY <1>1, <1>5 DEF DequeueRecheck, Calls, Held
<1>6. CASE DequeueReadNext
  BY <1>1, <1>6 DEF DequeueReadNext, Calls, Held
<1>7. CASE DequeueReadNextTail
  BY <1>1, <1>7 DEF DequeueReadNextTail, Calls, Held
<1>8. CASE DequeueAdvance
  BY <1>1, <1>8 DEF DequeueAdvance, Calls, Held
<1>9. CASE DequeueTake
  BY <1>1, <1>9 DEF DequeueTake, Calls, Held
<1>10. CASE DequeuePublish
  BY <1>1, <1>10 DEF DequeuePublish, Calls, Held
<1> QED BY <1>2, <1>3, <1>4, <1>5, <1>6, <1>7, <1>8, <1>9, <1>10 DEF Dequeue

\* size_approx (lines 414-427) touches nothing but its own progress.
LEMMA SizeApproxMoves ==
  ASSUME IInv, NEW t \in Threads, SizeApproxCall(t) \/ SizeApprox(t)
  PROVE  /\ UNCHANGED <<prodOwned, consOwned, data, alive, sent, received,
                        pmode, pnb, pret, heldAtCall, cop, cb, celem, cret, emptyAtCall>>
         /\ ppc' = ppc \/ {ppc, ppc'} \subseteq SizePcs \cup {"idle"}
         /\ cpc' = cpc \/ {cpc, cpc'} \subseteq SizePcs \cup {"idle"}
<1> USE DEF Threads, SizeGoto, SizePc, PGoto, CGoto, prodLocal, consLocal, sizeVars, SizePcs
<1>1. CASE SizeApproxCall(t)
  BY <1>1 DEF SizeApproxCall
<1>2. CASE SizeApproxBlock(t)
  BY <1>2 DEF SizeApproxBlock
<1>3. CASE SizeApproxNext(t)
  BY <1>3 DEF SizeApproxNext
<1>4. CASE SizeApproxReturn(t)
  BY <1>4 DEF SizeApproxReturn
<1> QED BY <1>1, <1>2, <1>3, <1>4 DEF SizeApprox

\* All other steps keep Calls.
LEMMA OtherCalls ==
  ASSUME IInv, Calls,
         \/ \E t \in {"producer", "consumer"} : SizeApproxCall(t) \/ SizeApprox(t)
         \/ Destroy
         \/ UNCHANGED vars
  PROVE  Calls'
<1>1. ASSUME NEW t \in {"producer", "consumer"}, SizeApproxCall(t) \/ SizeApprox(t) PROVE Calls'
  <2>1. t \in Threads
    BY DEF Threads
  <2> QED BY <1>1, <2>1, SizeApproxMoves
          DEF Calls, DequeuePcs, SizePcs, Held, prodOwned, consOwned
<1>2. CASE Destroy
  BY <1>2 DEF Destroy, Calls, Held, prodOwned, consOwned, prodLocal, consLocal
<1>3. CASE UNCHANGED vars
  BY <1>3 DEF vars, Calls, Held, prodOwned, consOwned, prodLocal, consLocal
<1> QED BY <1>1, <1>2, <1>3

\* Calls holds throughout.
LEMMA CallsHold == Spec => []Calls
<1>1. Init => Calls
  BY DEF Init, Calls, DequeuePcs
<1>2. IInv /\ Calls /\ [Next]_vars => Calls'
  <2> SUFFICES ASSUME IInv, Calls, [Next]_vars PROVE Calls'
    OBVIOUS
  <2> QED BY ProducerCalls, ConsumerCalls, OtherCalls DEF Next
<1> QED
  BY <1>1, <1>2, InvariantHolds, PTL DEF Spec

-----------------------------------------------------------------------------
\* Until the destructor has run, the content is what was published and not yet taken.
Exact == alive => Content = Numbers(received, Held)

\* The content is exact in every reachable state.
LEMMA ContentExact == Spec => []Exact
<1>1. IInv => Exact
  BY ContentIs DEF Exact
<1> QED
  BY <1>1, InvariantHolds, PTL

\* Where a thread is in no call of the abstract queue
Idle == SizePcs \cup {"idle"}

\* A step inside a call that publishes, takes and answers nothing is a stutter of
\* the abstract queue.
LEMMA NothingSeen ==
  ASSUME Exact, Exact', alive, alive',
         UNCHANGED <<sent, received, pret, heldAtCall, cret, emptyAtCall>>,
         \/ UNCHANGED <<ppc, pmode>>
         \/ {ppc, ppc'} \subseteq Idle
         \/ {ppc, ppc'} \cap Idle = {} /\ UNCHANGED pmode,
         \/ UNCHANGED <<cpc, cop>>
         \/ {cpc, cpc'} \subseteq Idle
         \/ {cpc, cpc'} \cap Idle = {} /\ UNCHANGED cop
  PROVE  UNCHANGED Fifo!vars
<1>1. Content' = Content
  BY DEF Exact, Held
<1>2. /\ (IF ppc \in SizePcs \cup {"idle"} THEN "idle" ELSE pmode)'
           = IF ppc \in SizePcs \cup {"idle"} THEN "idle" ELSE pmode
      /\ (IF cpc \in SizePcs \cup {"idle"} THEN "idle" ELSE cop)'
           = IF cpc \in SizePcs \cup {"idle"} THEN "idle" ELSE cop
  BY DEF Idle
<1> QED BY <1>1, <1>2 DEF Fifo!vars, Fifo!prodVars, Fifo!consVars

-----------------------------------------------------------------------------
\* What an element more or less does to the content.
LEMMA ContentMoves ==
  ASSUME IInv, Exact, Exact', alive, alive'
  PROVE  /\ sent' = sent /\ received' = received => Content' = Content
         /\ sent' = sent + 1 /\ received' = received => Content' = Append(Content, sent + 1)
         /\ (Content = <<>>) = (Held = 0)
         /\ received < sent => Content # <<>> /\ Head(Content) = received + 1
         /\ received < sent /\ sent' = sent /\ received' = received + 1 => Content' = Tail(Content)
         /\ Len(Content) = Held
<1>1. PICK r \in Nat, h \in Nat : r = received /\ h = Held /\ r + h = sent
  BY InvFacts, HeldFacts DEF Held
<1>2. Content = Numbers(r, h) /\ Content' = Numbers(received', Held')
  BY <1>1 DEF Exact
<1>3. /\ Append(Numbers(r, h), r + h + 1) = Numbers(r, h + 1)
      /\ (Numbers(r, h) = <<>>) = (h = 0)
      /\ h > 0 => /\ Numbers(r, h) # <<>>
                  /\ Head(Numbers(r, h)) = r + 1
                  /\ Tail(Numbers(r, h)) = Numbers(r + 1, h - 1)
  BY NumbersEnds
<1>4. Len(Numbers(r, h)) = h
  BY NumbersConcat
<1>5. sent' = sent /\ received' = received => Content' = Content
  BY <1>1, <1>2 DEF Held
<1>6. ASSUME sent' = sent + 1, received' = received PROVE Content' = Append(Content, sent + 1)
  <2>1. Held' = h + 1 /\ received' = r /\ sent + 1 = r + h + 1
    BY <1>1, <1>6 DEF Held
  <2> QED BY <2>1, <1>2, <1>3
<1>7. ASSUME received < sent PROVE Content # <<>> /\ Head(Content) = received + 1
  <2>1. h > 0
    BY <1>1, <1>7
  <2> QED BY <2>1, <1>1, <1>2, <1>3
<1>8. ASSUME received < sent, sent' = sent, received' = received + 1 PROVE Content' = Tail(Content)
  <2>1. h > 0 /\ Held' = h - 1 /\ received' = r + 1
    BY <1>1, <1>8 DEF Held
  <2> QED BY <2>1, <1>2, <1>3
<1> QED BY <1>1, <1>2, <1>3, <1>4, <1>5, <1>6, <1>7, <1>8

\* The start of an enqueue is the start of an abstract one.
LEMMA EnqueueCallSimulated ==
  ASSUME IInv, Exact, Exact', alive, NEW op \in ProducerOps, EnqueueCall(op)
  PROVE  Fifo!EnqueueCall(op) /\ op \in Fifo!EnqueueOps
<1> USE DEF EnqueueCall, PUnchangedElse, prodOwned, consOwned, consLocal, sizeVars, SizePcs
<1>1. Content' = Content /\ Len(Content) = Held
  BY ContentMoves
<1> QED BY <1>1, OpsAssumption DEF Fifo!EnqueueCall, Fifo!consVars, Fifo!EnqueueOps

\* A step of inner_enqueue (lines 434-530) is a stutter but for its last: publishing
\* in tailBlock (line 459), publishing by moving tailBlock on (lines 488, 515), a
\* refusal or the lack of memory.
LEMMA EnqueueSimulated ==
  ASSUME IInv, IInv', Calls, Exact, Exact', alive, Enqueue
  PROVE  [Fifo!Next]_(Fifo!vars)
<1> USE DEF PUnchangedElse, prodOwned, consOwned, consLocal, sizeVars, SizePcs,
            PGoto, PReturn, Idle
<1>1. alive'
  BY DEF Enqueue, EnqueueRefreshFront, EnqueueConstruct, EnqueuePublish, EnqueueTailFull,
         EnqueueNextFront, EnqueueNextConstruct, EnqueueNextTail, EnqueueAllocate,
         EnqueueOutOfMemory, EnqueueLink, EnqueueAdvance
<1>2. ppc \in EnqueuePcs => pmode \in {"enqueue", "try_enqueue"}
  BY DEF IInv, TypeOK, Producer
<1>3. CASE EnqueueRefreshFront
  BY <1>1, <1>3, NothingSeen DEF EnqueueRefreshFront
<1>4. CASE EnqueueConstruct
  BY <1>1, <1>4, NothingSeen DEF EnqueueConstruct
<1>5. CASE EnqueueNextFront
  BY <1>1, <1>5, NothingSeen DEF EnqueueNextFront
<1>6. CASE EnqueueNextConstruct
  BY <1>1, <1>6, NothingSeen DEF EnqueueNextConstruct
<1>7. CASE EnqueueNextTail
  BY <1>1, <1>7, NothingSeen DEF EnqueueNextTail
<1>8. CASE EnqueueAllocate
  BY <1>1, <1>8, NothingSeen DEF EnqueueAllocate
<1>9. CASE EnqueueLink
  BY <1>1, <1>9, NothingSeen DEF EnqueueLink
<1>10. CASE EnqueuePublish \/ EnqueueAdvance
  <2>1. /\ ppc \in EnqueuePcs /\ ppc \notin Idle /\ ppc' = "idle" /\ pret' = "ok"
        /\ sent' = sent + 1
        /\ UNCHANGED <<received, heldAtCall, cpc, cop, cret, emptyAtCall>>
    BY <1>10 DEF EnqueuePublish, EnqueueAdvance, EnqueuePcs
  <2>2. Content' = Append(Content, sent + 1)
    BY <1>1, <2>1, ContentMoves
  <2>3. Fifo!EnqueueDone
    BY <1>2, <2>1, <2>2 DEF Fifo!EnqueueDone, Fifo!consVars
  <2> QED BY <2>3 DEF Fifo!Next
<1>11. CASE EnqueueTailFull
  <2>1. CASE ppc' # "idle"
    BY <1>1, <1>11, <2>1, NothingSeen DEF EnqueueTailFull
  <2>2. CASE ppc' = "idle"
    <3>1. /\ ppc = "full" /\ pmode = "try_enqueue" /\ pret' = "refused"
          /\ UNCHANGED <<sent, received, heldAtCall, cpc, cop, cret, emptyAtCall>>
      BY <1>11, <2>2 DEF EnqueueTailFull
    <3>2. heldAtCall >= MaxSize
      BY <2>2, <3>1 DEF IInv, Producer, EnqueuePcs
    <3>3. Content' = Content
      BY <1>1, <3>1, ContentMoves
    <3>4. Fifo!TryEnqueueRefused
      BY <2>2, <3>1, <3>2, <3>3 DEF Fifo!TryEnqueueRefused, Fifo!consVars
    <3> QED BY <3>4 DEF Fifo!Next
  <2> QED BY <2>1, <2>2
<1>12. CASE EnqueueOutOfMemory
  <2>1. /\ ppc = "alloc" /\ ppc' = "idle" /\ pret' = "nomem"
        /\ UNCHANGED <<sent, received, heldAtCall, cpc, cop, cret, emptyAtCall>>
    BY <1>12 DEF EnqueueOutOfMemory
  <2>2. heldAtCall >= MaxSize /\ pmode = "enqueue"
    BY <2>1 DEF IInv, Producer, Calls
  <2>3. Content' = Content
    BY <1>1, <2>1, ContentMoves
  <2>4. Fifo!EnqueueOutOfMemory
    BY <2>1, <2>2, <2>3 DEF Fifo!EnqueueOutOfMemory, Fifo!consVars
  <2> QED BY <2>4 DEF Fifo!Next
<1> QED BY <1>3, <1>4, <1>5, <1>6, <1>7, <1>8, <1>9, <1>10, <1>11, <1>12 DEF Enqueue

\* The start of try_dequeue, pop or peek is the start of an abstract one.
LEMMA DequeueCallSimulated ==
  ASSUME IInv, Exact, Exact', alive, NEW op \in ConsumerOps, DequeueCall(op)
  PROVE  Fifo!DequeueCall(op) /\ op \in Fifo!DequeueOps
<1> USE DEF DequeueCall, CUnchangedElse, prodOwned, consOwned, prodLocal, sizeVars, SizePcs
<1>1. Content' = Content /\ (Content = <<>>) = (Held = 0)
  BY ContentMoves
<1> QED BY <1>1, OpsAssumption DEF Fifo!DequeueCall, Fifo!prodVars, Fifo!DequeueOps

\* A step of try_dequeue, pop or peek is a stutter but for its last: releasing the
\* slot, reading the oldest element (peek), or the answer that the queue is empty.
LEMMA DequeueSimulated ==
  ASSUME IInv, IInv', Calls, Exact, Exact', alive, Dequeue
  PROVE  [Fifo!Next]_(Fifo!vars)
<1> USE DEF CUnchangedElse, prodOwned, consOwned, prodLocal, sizeVars, SizePcs,
            CGoto, CReturn, Idle
<1>1. alive' /\ UNCHANGED <<ppc, pmode, pret, heldAtCall, sent, emptyAtCall>>
  BY DEF Dequeue, DequeueRefreshTail, DequeueCheckTailBlock, DequeueRecheck,
         DequeueReadNext, DequeueReadNextTail, DequeueAdvance, DequeueTake, DequeuePublish
<1>2. cpc \in DequeuePcs => cop \in {"try_dequeue", "pop", "peek"}
  BY DEF IInv, TypeOK, Calls
<1>3. CASE DequeueRefreshTail
  BY <1>1, <1>3, NothingSeen DEF DequeueRefreshTail
<1>4. CASE DequeueRecheck
  BY <1>1, <1>4, NothingSeen DEF DequeueRecheck
<1>5. CASE DequeueReadNext
  BY <1>1, <1>5, NothingSeen DEF DequeueReadNext
<1>6. CASE DequeueReadNextTail
  BY <1>1, <1>6, NothingSeen DEF DequeueReadNextTail
<1>7. CASE DequeueAdvance
  BY <1>1, <1>7, NothingSeen DEF DequeueAdvance
<1>8. CASE DequeueCheckTailBlock
  <2>1. CASE frontBlock # tailBlock
    BY <1>1, <1>8, <2>1, NothingSeen DEF DequeueCheckTailBlock
  <2>2. CASE frontBlock = tailBlock
    <3>1. /\ cpc = "checkTailBlock" /\ cpc' = "idle" /\ cret' = Raw
          /\ UNCHANGED <<cop, received>>
      BY <1>8, <2>2 DEF DequeueCheckTailBlock
    <3>2. emptyAtCall /\ cop \in {"try_dequeue", "pop", "peek"}
      BY <1>2, <2>2, <3>1 DEF Calls, DequeuePcs
    <3>3. Content' = Content
      BY <1>1, <3>1, ContentMoves
    <3>4. Fifo!AnswerEmpty
      BY <1>1, <3>1, <3>2, <3>3 DEF Fifo!AnswerEmpty, Fifo!prodVars, Fifo!NoElement, Raw
    <3> QED BY <3>4 DEF Fifo!Next
  <2> QED BY <2>1, <2>2
<1>9. CASE DequeueTake
  <2>1. CASE cop # "peek"
    BY <1>1, <1>9, <2>1, NothingSeen DEF DequeueTake
  <2>2. CASE cop = "peek"
    <3>1. /\ cpc = "take" /\ cpc' = "idle" /\ cret' = data[cb][front[cb]]
          /\ UNCHANGED <<cop, received>>
      BY <1>9, <2>2 DEF DequeueTake
    <3>2. data[cb][front[cb]] = received + 1 /\ received < sent
      BY <3>1, OldestElement
    <3>3. Content' = Content /\ Content # <<>> /\ Head(Content) = received + 1
      BY <1>1, <3>1, <3>2, ContentMoves
    <3>4. Fifo!PeekDone
      BY <1>1, <2>2, <3>1, <3>2, <3>3 DEF Fifo!PeekDone, Fifo!prodVars
    <3> QED BY <3>4 DEF Fifo!Next
  <2> QED BY <2>1, <2>2
<1>10. CASE DequeuePublish
  <2>1. /\ cpc = "publish" /\ cpc' = "idle" /\ cret' = celem /\ received' = received + 1
        /\ UNCHANGED cop
    BY <1>10 DEF DequeuePublish
  <2>2. cop \in {"try_dequeue", "pop"} /\ celem = received + 1
    BY <1>2, <2>1 DEF Calls, DequeuePcs, IInv, Consumer
  <2>3. received < sent
    <3>1. cb = frontBlock /\ front[frontBlock] # localTail[frontBlock]
      BY <2>1 DEF IInv, Consumer
    <3>2. ConsumerCount(frontBlock) > 0
      BY <3>1, InvFacts, SpanRange DEF BlockFacts, ConsumerCount
    <3>3. Count(frontBlock) > 0
      BY <3>2, InvFacts DEF BlockFacts
    <3> QED BY <3>3, InvFacts, HeldFacts DEF Held, BlockFacts
  <2>4. Content # <<>> /\ Head(Content) = received + 1 /\ Content' = Tail(Content)
    BY <1>1, <2>1, <2>3, ContentMoves
  <2>5. Fifo!DequeueDone
    BY <1>1, <2>1, <2>2, <2>4 DEF Fifo!DequeueDone, Fifo!prodVars
  <2> QED BY <2>5 DEF Fifo!Next
<1> QED BY <1>3, <1>4, <1>5, <1>6, <1>7, <1>8, <1>9, <1>10 DEF Dequeue

\* size_approx is a stutter of the abstract queue.
LEMMA SizeApproxSimulated ==
  ASSUME IInv, Exact, Exact', alive,
         NEW t \in Threads, SizeApproxCall(t) \/ SizeApprox(t)
  PROVE  UNCHANGED Fifo!vars
<1>1. /\ UNCHANGED <<alive, sent, received, pmode, pret, heldAtCall, cop, cret, emptyAtCall>>
      /\ ppc' = ppc \/ {ppc, ppc'} \subseteq Idle
      /\ cpc' = cpc \/ {cpc, cpc'} \subseteq Idle
  BY SizeApproxMoves DEF Idle
<1> QED BY <1>1, NothingSeen

\* Every step of the two threads is a step of the abstract queue or a stutter.
LEMMA StepSimulated ==
  ASSUME IInv, IInv', Calls, Exact, Exact', [Next]_vars
  PROVE  [alive' => Fifo!Next]_(Fifo!vars)
<1> SUFFICES ASSUME alive' PROVE [Fifo!Next]_(Fifo!vars)
  OBVIOUS
<1>1. CASE UNCHANGED vars
  <2>1. alive /\ UNCHANGED <<sent, received, pret, heldAtCall, cret, emptyAtCall, ppc, pmode, cpc, cop>>
    BY <1>1 DEF vars, prodLocal, consLocal
  <2> QED BY <2>1, NothingSeen
<1>2. ASSUME NEW op \in ProducerOps, EnqueueCall(op) PROVE [Fifo!Next]_(Fifo!vars)
  <2>1. alive
    BY <1>2 DEF EnqueueCall
  <2> QED BY <1>2, <2>1, EnqueueCallSimulated DEF Fifo!Next
<1>3. CASE Enqueue
  <2>1. alive
    BY <1>3 DEF Enqueue, EnqueueRefreshFront, EnqueueConstruct, EnqueuePublish,
       EnqueueTailFull, EnqueueNextFront, EnqueueNextConstruct, EnqueueNextTail,
       EnqueueAllocate, EnqueueOutOfMemory, EnqueueLink, EnqueueAdvance, PUnchangedElse
  <2> QED BY <1>3, <2>1, EnqueueSimulated
<1>4. ASSUME NEW op \in ConsumerOps, DequeueCall(op) PROVE [Fifo!Next]_(Fifo!vars)
  <2>1. alive
    BY <1>4 DEF DequeueCall
  <2> QED BY <1>4, <2>1, DequeueCallSimulated DEF Fifo!Next
<1>5. CASE Dequeue
  <2>1. alive
    BY <1>5 DEF Dequeue, DequeueRefreshTail, DequeueCheckTailBlock, DequeueRecheck,
       DequeueReadNext, DequeueReadNextTail, DequeueAdvance, DequeueTake, DequeuePublish,
       CUnchangedElse
  <2> QED BY <1>5, <2>1, DequeueSimulated
<1>6. ASSUME NEW t \in {"producer", "consumer"}, SizeApproxCall(t) \/ SizeApprox(t)
      PROVE  [Fifo!Next]_(Fifo!vars)
  <2>1. t \in Threads
    BY DEF Threads
  <2>2. alive
    BY <1>6, <2>1, SizeApproxMoves
  <2> QED BY <1>6, <2>1, <2>2, SizeApproxSimulated
<1>7. ~ Destroy
  BY DEF Destroy
<1> QED BY <1>1, <1>2, <1>3, <1>4, <1>5, <1>6, <1>7 DEF Next

\* The ring of blocks implements the abstract single-producer, single-consumer FIFO
\* queue: each enqueue, try_dequeue, pop and peek takes effect at one instant within
\* the call, whatever the other thread does meanwhile.
THEOREM ImplementsPromise == Spec => ImplementsFifo
<1>1. Init => Fifo!Init
  <2> SUFFICES ASSUME Init PROVE Fifo!Init
    OBVIOUS
  <2>1. IInv /\ alive /\ received = 0 /\ Held = 0
    BY InitInv DEF Init, Held
  <2>2. Content = Numbers(0, 0)
    BY <2>1, ContentIs
  <2>3. Content = <<>>
    BY <2>2, NumbersEnds
  <2> QED BY <2>3 DEF Init, Fifo!Init, SizePcs, Fifo!NoElement, Raw
<1>2. IInv /\ IInv' /\ Calls /\ Exact /\ Exact' /\ [Next]_vars => [alive' => Fifo!Next]_(Fifo!vars)
  BY StepSimulated
<1> QED
  BY <1>1, <1>2, InvariantHolds, CallsHold, ContentExact, PTL DEF Spec, ImplementsFifo

-----------------------------------------------------------------------------
\* Wait-freedom.  What a walk of size_approx has ahead of it is the least set of
\* blocks that its block is in and that next leads out of only at its end.
LEMMA AheadLeast ==
  ASSUME NEW b, NEW c, NEW S \in SUBSET Blocks, b \in S,
         \A y \in S : next[y] # c => next[y] \in S
  PROVE  Ahead(b, c) \subseteq S
BY DEF Ahead

\* It lies in the ring, and next leads out of it only at the end of the walk.
LEMMA AheadIs ==
  ASSUME IInv, NEW b \in Linked, NEW c
  PROVE  /\ Ahead(b, c) \subseteq Linked /\ Ahead(b, c) \in SUBSET Blocks
         /\ b \in Ahead(b, c)
         /\ \A y \in Ahead(b, c) : next[y] # c => next[y] \in Ahead(b, c)
         /\ IsFiniteSet(Ahead(b, c))
         /\ Cardinality(Ahead(b, c)) \in Nat /\ Cardinality(Ahead(b, c)) >= 1
<1>1. Linked \in SUBSET Blocks /\ LinkedCount \in Nat /\ \A y \in Linked : next[y] \in Linked
  BY InvFacts DEF BlockFacts
<1>2. Ahead(b, c) \subseteq Linked
  BY <1>1, AheadLeast
<1>3. b \in Ahead(b, c)
  BY <1>1 DEF Ahead
<1>4. ASSUME NEW y \in Ahead(b, c), next[y] # c PROVE next[y] \in Ahead(b, c)
  <2>1. next[y] \in Blocks
    BY <1>1, <1>2
  <2>2. ASSUME NEW S \in SUBSET Blocks, b \in S, \A z \in S : next[z] # c => next[z] \in S
        PROVE  next[y] \in S
    <3>1. y \in S
      BY <2>2, AheadLeast
    <3> QED BY <3>1, <2>2, <1>4
  <2> QED BY <2>1, <2>2 DEF Ahead
<1>5. IsFiniteSet(Linked)
  BY <1>1, FS_Interval DEF Linked
<1>6. IsFiniteSet(Ahead(b, c)) /\ Cardinality(Ahead(b, c)) \in Nat
  BY <1>2, <1>5, FS_Subset, FS_CardinalityType
<1>7. Cardinality(Ahead(b, c)) # 0
  BY <1>3, <1>6, FS_EmptySet
<1> QED BY <1>1, <1>2, <1>3, <1>4, <1>6, <1>7

\* The ring leads from the next block to the end of the walk without coming back.
LEMMA AheadShrinks ==
  ASSUME IInv, NEW b \in Linked, NEW c \in Linked, next[b] # c
  PROVE  Cardinality(Ahead(next[b], c)) < Cardinality(Ahead(b, c))
<1>1. PICK pos : Ring(pos)
  BY DEF IInv, Structure
<1>2. /\ LinkedCount \in Nat /\ next[b] \in Linked /\ Linked \in SUBSET Blocks
      /\ \A x \in Linked : pos[x] \in Nat /\ pos[x] < LinkedCount
  BY <1>1, InvFacts DEF Ring, BlockFacts
<1> DEFINE p == pos[b]
           q == pos[c]
           S == {x \in Linked : IF p < q THEN p < pos[x] /\ pos[x] < q
                                ELSE p < pos[x] \/ pos[x] < q}
<1>3. LinkedCount \in Nat /\ p \in Nat /\ q \in Nat /\ p < LinkedCount /\ q < LinkedCount
  BY <1>2
<1>4. ASSUME NEW x \in Linked, x = b \/ x \in S, next[x] # c PROVE next[x] \in S
  <2>1. /\ next[x] \in Linked /\ pos[next[x]] # q
        /\ pos[next[x]] = IF pos[x] = LinkedCount - 1 THEN 0 ELSE pos[x] + 1
    BY <1>1, <1>4 DEF Ring
  <2>2. pos[x] \in Nat /\ pos[x] < LinkedCount
    BY <1>2
  <2>3. IF p < q THEN p < pos[next[x]] /\ pos[next[x]] < q
                 ELSE p < pos[next[x]] \/ pos[next[x]] < q
    <3>1. CASE x = b
      BY <1>3, <2>1, <2>2, <3>1
    <3>2. CASE x \in S /\ p < q
      <4>1. p < pos[x] /\ pos[x] < q
        BY <3>2
      <4> QED BY <1>3, <2>1, <2>2, <3>2, <4>1
    <3>3. CASE x \in S /\ ~(p < q)
      <4>1. p < pos[x] \/ pos[x] < q
        BY <3>3
      <4> QED BY <1>3, <2>1, <2>2, <3>3, <4>1
    <3> QED BY <1>4, <3>1, <3>2, <3>3
  <2> QED BY <2>1, <2>3
<1>5. next[b] \in S /\ b \notin S /\ S \in SUBSET Blocks /\ \A x \in S : next[x] # c => next[x] \in S
  BY <1>2, <1>3, <1>4
<1> HIDE DEF S
<1>6. Ahead(next[b], c) \subseteq S
  BY <1>5, AheadLeast
<1>7. Ahead(next[b], c) \subseteq Ahead(b, c)
  BY AheadIs, AheadLeast
<1>8. Ahead(next[b], c) # Ahead(b, c)
  BY <1>5, <1>6, AheadIs
<1> QED BY <1>7, <1>8, AheadIs, FS_Subset

\* While no block is linked, nothing is added to it,
LEMMA AheadSame ==
  ASSUME IInv, NEW b \in Linked, NEW c, \A x \in Linked : next'[x] = next[x]
  PROVE  Ahead(b, c)' \subseteq Ahead(b, c)
<1>1. /\ Ahead(b, c) \in SUBSET Blocks /\ b \in Ahead(b, c)
      /\ \A y \in Ahead(b, c) : next'[y] # c => next'[y] \in Ahead(b, c)
  BY AheadIs
<1> QED BY <1>1 DEF Ahead

\* and linking a block (line 506) adds this one at most.
LEMMA AheadLinked ==
  ASSUME IInv, EnqueueLink, NEW b \in Linked, NEW c
  PROVE  Ahead(b, c)' \subseteq Ahead(b, c) \cup {allocated}
<1>1. /\ next' = [next EXCEPT ![tailBlock] = allocated] /\ next[allocated] = next[tailBlock]
      /\ allocated \in Blocks /\ allocated \notin Linked /\ tailBlock \in Linked
      /\ tailBlock \in Blocks /\ tailBlock # allocated
      /\ next \in [Blocks -> Blocks \cup {NoBlock}]
  <2>1. ppc = "link" /\ pnb = allocated /\ next[pnb] = next[tailBlock] /\ allocated \in Nat
    BY InvFacts DEF EnqueueLink, IInv, Structure, Ring
  <2>2. allocated \notin Linked
    BY <2>1 DEF Linked, LinkedCount
  <2>3. tailBlock \in Blocks
    BY InvFacts DEF BlockFacts
  <2> QED BY <2>1, <2>2, <2>3, InvFacts DEF EnqueueLink, IInv, TypeOK
<1>2. /\ Ahead(b, c) \in SUBSET Blocks /\ b \in Ahead(b, c) /\ Ahead(b, c) \subseteq Linked
      /\ \A y \in Ahead(b, c) : next[y] # c => next[y] \in Ahead(b, c)
  BY AheadIs
<1>3. PICK A : A = Ahead(b, c)
  OBVIOUS
<1>4. CASE tailBlock \in A
  <2>1. \A y \in A : y = tailBlock \/ next'[y] = next[y]
    BY <1>1, <1>2, <1>3
  <2>2. next'[tailBlock] = allocated /\ next'[allocated] = next[tailBlock]
    BY <1>1
  <2>3. A \cup {allocated} \in SUBSET Blocks /\ b \in A \cup {allocated}
    BY <1>1, <1>2, <1>3
  <2>4. \A y \in A \cup {allocated} : next'[y] # c => next'[y] \in A \cup {allocated}
    BY <1>2, <1>3, <1>4, <2>1, <2>2
  <2> QED BY <1>3, <2>3, <2>4 DEF Ahead
<1>5. CASE tailBlock \notin A
  <2>1. \A y \in A : next'[y] # c => next'[y] \in A
    BY <1>1, <1>2, <1>3, <1>5
  <2> QED BY <1>2, <1>3, <2>1 DEF Ahead
<1> QED BY <1>4, <1>5
\* What the walk of thread t has still to do
Walking(t) == 2 * (Cardinality(Ahead(szBlock[t], szStart[t])) + HeapBlocks - LinkedCount)

LEMMA StepsLeftIs ==
  ASSUME NEW t \in Threads
  PROVE  /\ SizePc(t) = "idle" => StepsLeft(t) = 0
         /\ SizePc(t) = "size" => StepsLeft(t) = Walking(t) + 1
         /\ SizePc(t) = "sizeNext" => StepsLeft(t) = Walking(t)
         /\ SizePc(t) = "sizeDone" => StepsLeft(t) = 1
         /\ SizePc(t)' = "idle" => StepsLeft(t)' = 0
         /\ SizePc(t)' = "size" => StepsLeft(t)' = Walking(t)' + 1
         /\ SizePc(t)' = "sizeNext" => StepsLeft(t)' = Walking(t)'
         /\ SizePc(t)' = "sizeDone" => StepsLeft(t)' = 1
BY DEF StepsLeft, Walking, LinkedCount

\* The steps that are left in an enqueue, before and after a step,
LEMMA EnqueueStepsLeft ==
  /\ ppc = "refresh" => StepsLeft("producer") = 6
  /\ ppc = "full" => StepsLeft("producer") = 5
  /\ ppc = "nextFront" => StepsLeft("producer") = 4
  /\ ppc = "nextConstruct" => StepsLeft("producer") = 3
  /\ ppc = "nextTail" => StepsLeft("producer") = 2
  /\ ppc = "alloc" => StepsLeft("producer") = 3
  /\ ppc = "link" => StepsLeft("producer") = 2
  /\ ppc = "construct" => StepsLeft("producer") = 2
  /\ ppc = "publish" => StepsLeft("producer") = 1
  /\ ppc = "advance" => StepsLeft("producer") = 1
  /\ ppc' = "full" => StepsLeft("producer")' = 5
  /\ ppc' = "nextFront" => StepsLeft("producer")' = 4
  /\ ppc' = "nextConstruct" => StepsLeft("producer")' = 3
  /\ ppc' = "nextTail" => StepsLeft("producer")' = 2
  /\ ppc' = "alloc" => StepsLeft("producer")' = 3
  /\ ppc' = "link" => StepsLeft("producer")' = 2
  /\ ppc' = "construct" => StepsLeft("producer")' = 2
  /\ ppc' = "publish" => StepsLeft("producer")' = 1
  /\ ppc' = "advance" => StepsLeft("producer")' = 1
  /\ ppc' = "idle" => StepsLeft("producer")' = 0
BY DEF StepsLeft, SizePc

\* and in a dequeue, peek or pop.
LEMMA DequeueStepsLeft ==
  /\ cpc = "refresh" => StepsLeft("consumer") = 8
  /\ cpc = "checkTailBlock" => StepsLeft("consumer") = 7
  /\ cpc = "recheck" => StepsLeft("consumer") = 6
  /\ cpc = "readNext" => StepsLeft("consumer") = 5
  /\ cpc = "readNextTail" => StepsLeft("consumer") = 4
  /\ cpc = "advance" => StepsLeft("consumer") = 3
  /\ cpc = "take" => StepsLeft("consumer") = 2
  /\ cpc = "publish" => StepsLeft("consumer") = 1
  /\ cpc' = "checkTailBlock" => StepsLeft("consumer")' = 7
  /\ cpc' = "recheck" => StepsLeft("consumer")' = 6
  /\ cpc' = "readNext" => StepsLeft("consumer")' = 5
  /\ cpc' = "readNextTail" => StepsLeft("consumer")' = 4
  /\ cpc' = "advance" => StepsLeft("consumer")' = 3
  /\ cpc' = "take" => StepsLeft("consumer")' = 2
  /\ cpc' = "publish" => StepsLeft("consumer")' = 1
  /\ cpc' = "idle" => StepsLeft("consumer")' = 0
BY DEF StepsLeft, SizePc

\* Thread t has fewer steps left in its call than before.
Closer(t) == StepsLeft(t)' < StepsLeft(t) /\ StepsLeft(t)' <= StepsLeft(t)

\* Each step of an enqueue brings the call closer to its end,
LEMMA EnqueueProceeds ==
  ASSUME Enqueue
  PROVE  Closer("producer")
<1> USE EnqueueStepsLeft DEF PGoto, PReturn, Closer
<1>1. CASE EnqueueRefreshFront
  BY <1>1 DEF EnqueueRefreshFront
<1>2. CASE EnqueueConstruct
  BY <1>2 DEF EnqueueConstruct
<1>3. CASE EnqueuePublish
  BY <1>3 DEF EnqueuePublish
<1>4. CASE EnqueueTailFull
  BY <1>4 DEF EnqueueTailFull
<1>5. CASE EnqueueNextFront
  BY <1>5 DEF EnqueueNextFront
<1>6. CASE EnqueueNextConstruct
  BY <1>6 DEF EnqueueNextConstruct
<1>7. CASE EnqueueNextTail
  BY <1>7 DEF EnqueueNextTail
<1>8. CASE EnqueueAllocate
  BY <1>8 DEF EnqueueAllocate
<1>9. CASE EnqueueOutOfMemory
  BY <1>9 DEF EnqueueOutOfMemory
<1>10. CASE EnqueueLink
  BY <1>10 DEF EnqueueLink
<1>11. CASE EnqueueAdvance
  BY <1>11 DEF EnqueueAdvance
<1> QED BY <1>1, <1>2, <1>3, <1>4, <1>5, <1>6, <1>7, <1>8, <1>9, <1>10, <1>11 DEF Enqueue

\* and so does each step of a dequeue: the search never starts over (line 233).
LEMMA DequeueProceeds ==
  ASSUME Dequeue
  PROVE  Closer("consumer")
<1> USE DequeueStepsLeft DEF CGoto, CReturn, Closer
<1>1. CASE DequeueRefreshTail
  BY <1>1 DEF DequeueRefreshTail
<1>2. CASE DequeueCheckTailBlock
  BY <1>2 DEF DequeueCheckTailBlock
<1>3. CASE DequeueRecheck
  BY <1>3 DEF DequeueRecheck
<1>4. CASE DequeueReadNext
  BY <1>4 DEF DequeueReadNext
<1>5. CASE DequeueReadNextTail
  BY <1>5 DEF DequeueReadNextTail
<1>6. CASE DequeueAdvance
  BY <1>6 DEF DequeueAdvance
<1>7. CASE DequeueTake
  BY <1>7 DEF DequeueTake
<1>8. CASE DequeuePublish
  BY <1>8 DEF DequeuePublish
<1> QED BY <1>1, <1>2, <1>3, <1>4, <1>5, <1>6, <1>7, <1>8 DEF Dequeue

\* Linking a block is the only step that changes the ring.
RingKept == LinkedCount' = LinkedCount /\ \A b \in Linked : next'[b] = next[b]

\* Every step but EnqueueLink keeps it.
LEMMA RingMoves ==
  ASSUME IInv, [Next]_vars
  PROVE  EnqueueLink \/ RingKept
<1> USE DEF PUnchangedElse, CUnchangedElse, prodOwned, consOwned, prodLocal, PGoto, PReturn
<1>1. ASSUME UNCHANGED <<next, allocated>>, ppc' = ppc \/ "link" \notin {ppc, ppc'}
      PROVE  RingKept
  BY <1>1 DEF RingKept, LinkedCount
<1>2. ASSUME NEW op \in ProducerOps, EnqueueCall(op) PROVE RingKept
  BY <1>1, <1>2 DEF EnqueueCall
<1>3. CASE \/ EnqueueRefreshFront \/ EnqueueConstruct \/ EnqueuePublish \/ EnqueueTailFull
           \/ EnqueueNextFront \/ EnqueueNextConstruct \/ EnqueueNextTail
           \/ EnqueueOutOfMemory \/ EnqueueAdvance
  BY <1>1, <1>3 DEF EnqueueRefreshFront, EnqueueConstruct, EnqueuePublish, EnqueueTailFull,
     EnqueueNextFront, EnqueueNextConstruct, EnqueueNextTail, EnqueueOutOfMemory, EnqueueAdvance
<1>4. CASE EnqueueAllocate
  <2>1. ppc = "alloc" /\ ppc' = "link" /\ allocated' = allocated + 1 /\ allocated \in Nat
    BY <1>4, InvFacts DEF EnqueueAllocate
  <2>2. \A b \in Linked : next'[b] = next[b]
    BY <1>4, EnqueueLocalMoves DEF EnqueueLocal
  <2> QED BY <2>1, <2>2 DEF RingKept, LinkedCount
<1>5. ASSUME NEW op \in ConsumerOps, DequeueCall(op) PROVE RingKept
  BY <1>1, <1>5 DEF DequeueCall
<1>6. CASE Dequeue
  BY <1>1, <1>6 DEF Dequeue, DequeueRefreshTail, DequeueCheckTailBlock, DequeueRecheck,
     DequeueReadNext, DequeueReadNextTail, DequeueAdvance, DequeueTake, DequeuePublish
<1>7. ASSUME NEW t \in {"producer", "consumer"}, SizeApproxCall(t) \/ SizeApprox(t)
      PROVE  RingKept
  BY <1>1, <1>7, SizeApproxMoves DEF Threads, SizePcs
<1>8. CASE Destroy \/ UNCHANGED vars
  BY <1>1, <1>8 DEF Destroy, vars
<1> QED BY <1>2, <1>3, <1>4, <1>5, <1>6, <1>7, <1>8 DEF Next, Enqueue

\* No block leaves the ring.
LEMMA LinkedStays ==
  ASSUME IInv, [Next]_vars
  PROVE  Linked \subseteq Linked'
<1>1. CASE EnqueueLink
  BY <1>1, InvFacts DEF EnqueueLink, PGoto, Linked, LinkedCount
<1>2. CASE RingKept
  BY <1>2 DEF RingKept, Linked
<1> QED BY <1>1, <1>2, RingMoves

\* What thread t itself does outside size_approx, and what leaves its walk alone
Moves(t) == IF t = "producer" THEN Enqueue \/ \E op \in ProducerOps : EnqueueCall(op)
                              ELSE Dequeue \/ \E op \in ConsumerOps : DequeueCall(op)
Aside(t) == SizePc(t)' = SizePc(t) /\ szBlock'[t] = szBlock[t] /\ szStart'[t] = szStart[t]

\* The control and the walk of a thread are its own.
LEMMA StepsOfThread ==
  ASSUME IInv, [Next]_vars, NEW t \in Threads
  PROVE  Aside(t) \/ Moves(t) \/ SizeApproxCall(t) \/ SizeApprox(t)
<1> USE DEF PUnchangedElse, CUnchangedElse, consLocal, prodLocal, sizeVars, Aside, SizePc
<1>1. t = "producer" \/ t = "consumer"
  BY DEF Threads
<1>2. ASSUME t = "producer", Dequeue \/ (\E op \in ConsumerOps : DequeueCall(op))
      PROVE  Aside(t)
  BY <1>2 DEF Dequeue, DequeueCall, DequeueRefreshTail, DequeueCheckTailBlock, DequeueRecheck,
     DequeueReadNext, DequeueReadNextTail, DequeueAdvance, DequeueTake, DequeuePublish
<1>3. ASSUME t = "consumer", Enqueue \/ (\E op \in ProducerOps : EnqueueCall(op))
      PROVE  Aside(t)
  BY <1>3 DEF Enqueue, EnqueueCall, EnqueueRefreshFront, EnqueueConstruct, EnqueuePublish,
     EnqueueTailFull, EnqueueNextFront, EnqueueNextConstruct, EnqueueNextTail,
     EnqueueAllocate, EnqueueOutOfMemory, EnqueueLink, EnqueueAdvance
<1>4. ASSUME NEW u \in Threads, u # t, SizeApproxCall(u) \/ SizeApprox(u) PROVE Aside(t)
  <2>1. SizePc(t)' = SizePc(t)
    BY <1>4, <1>1 DEF Threads, SizeApproxCall, SizeApprox, SizeApproxBlock, SizeApproxNext,
                 SizeApproxReturn, SizeGoto
  <2>2. szBlock'[t] = szBlock[t] /\ szStart'[t] = szStart[t]
    BY <1>4 DEF SizeApproxCall, SizeApprox, SizeApproxBlock, SizeApproxNext,
                SizeApproxReturn, IInv, TypeOK
  <2> QED BY <2>1, <2>2
<1>5. CASE Destroy \/ UNCHANGED vars
  BY <1>5 DEF Destroy, vars
<1>6. ASSUME NEW u \in {"producer", "consumer"}, SizeApproxCall(u) \/ SizeApprox(u)
      PROVE  Aside(t) \/ SizeApproxCall(t) \/ SizeApprox(t)
  <2>1. u \in Threads
    BY DEF Threads
  <2>2. CASE u = t
    BY <1>6, <2>2
  <2> QED BY <1>4, <1>6, <2>1, <2>2
<1> HIDE DEF PUnchangedElse, CUnchangedElse, consLocal, prodLocal, sizeVars, Aside, SizePc
<1> QED BY <1>1, <1>2, <1>3, <1>5, <1>6 DEF Next, Moves

\* Outside size_approx a thread does not come to walk.
LEMMA MovesElsewhere ==
  ASSUME NEW t \in Threads, Moves(t)
  PROVE  SizePc(t)' \notin SizePcs
<1> USE DEF SizePc, SizePcs, Moves, Threads
<1>1. CASE t = "producer"
  BY <1>1 DEF Enqueue, EnqueueCall, EnqueueRefreshFront, EnqueueConstruct, EnqueuePublish,
     EnqueueTailFull, EnqueueNextFront, EnqueueNextConstruct, EnqueueNextTail,
     EnqueueAllocate, EnqueueOutOfMemory, EnqueueLink, EnqueueAdvance, PGoto, PReturn
<1>2. CASE t = "consumer"
  BY <1>2 DEF Dequeue, DequeueCall, DequeueRefreshTail, DequeueCheckTailBlock, DequeueRecheck,
     DequeueReadNext, DequeueReadNextTail, DequeueAdvance, DequeueTake, DequeuePublish,
     CGoto, CReturn
<1> QED BY <1>1, <1>2

\* A walk ends where it started, and that is a block of the ring.
Starts == \A t \in Threads : SizePc(t) \in {"size", "sizeNext"} => szStart[t] \in Linked

\* A call of size_approx starts its walk at frontBlock; no other step moves its end.
LEMMA StartsKept ==
  ASSUME IInv, Starts, [Next]_vars
  PROVE  Starts'
<1> SUFFICES ASSUME NEW t \in Threads, SizePc(t)' \in {"size", "sizeNext"}
             PROVE  szStart'[t] \in Linked'
  BY DEF Starts
<1>1. CASE Aside(t)
  BY <1>1, LinkedStays DEF Aside, Starts
<1>2. CASE Moves(t)
  BY <1>2, MovesElsewhere DEF SizePcs
<1>3. CASE SizeApproxCall(t)
  <2>1. szStart'[t] = frontBlock
    BY <1>3 DEF SizeApproxCall, IInv, TypeOK
  <2> QED BY <2>1, InvFacts, LinkedStays
<1>4. CASE SizeApprox(t)
  <2>1. szStart' = szStart
    BY <1>4 DEF SizeApprox, SizeApproxBlock, SizeApproxNext, SizeApproxReturn, sizeVars
  <2>2. SizePc(t) \in {"size", "sizeNext"}
    BY <1>4 DEF SizeApprox, SizeApproxBlock, SizeApproxNext, SizeApproxReturn,
                SizeGoto, PGoto, CGoto, SizePc
  <2> QED BY <2>1, <2>2, LinkedStays DEF Starts
<1> QED BY <1>1, <1>2, <1>3, <1>4, StepsOfThread

\* A walk has a number of steps left, more than the one that ends it.
LEMMA WalkingIs ==
  ASSUME IInv, NEW t \in Threads, SizePc(t) \in {"size", "sizeNext"}
  PROVE  /\ szBlock[t] \in Linked
         /\ Cardinality(Ahead(szBlock[t], szStart[t])) \in Nat
         /\ HeapBlocks \in Nat /\ LinkedCount \in Nat
         /\ Walking(t) \in Nat /\ Walking(t) >= 2
<1>1. szBlock[t] \in Linked
  BY DEF IInv, Walk
<1>2. HeapBlocks \in Nat /\ LinkedCount \in Nat /\ LinkedCount <= HeapBlocks
  BY InvFacts, SizesPositive DEF Blocks, LinkedCount
<1>3. PICK n : n = Cardinality(Ahead(szBlock[t], szStart[t]))
  OBVIOUS
<1>4. n \in Nat /\ n >= 1
  BY <1>1, <1>3, AheadIs
<1>5. Walking(t) = 2 * (n + HeapBlocks - LinkedCount)
  BY <1>3 DEF Walking
<1> QED BY <1>1, <1>2, <1>3, <1>4, <1>5

\* The other thread does not make a walk longer: a block it links was yet to be made.
LEMMA WalkingKept ==
  ASSUME IInv, [Next]_vars, NEW t \in Threads, SizePc(t) \in {"size", "sizeNext"}, Aside(t)
  PROVE  Walking(t)' \in Int /\ Walking(t)' <= Walking(t)
<1>1. PICK b, c : b = szBlock[t] /\ c = szStart[t]
  OBVIOUS
<1>2. b = szBlock'[t] /\ c = szStart'[t] /\ b \in Linked
  BY <1>1, WalkingIs DEF Aside
<1>3. PICK A, B : A = Ahead(b, c) /\ B = Ahead(b, c)'
  OBVIOUS
<1>4. /\ HeapBlocks \in Nat /\ LinkedCount \in Nat
      /\ Walking(t) = 2 * (Cardinality(A) + HeapBlocks - LinkedCount)
      /\ Walking(t)' = 2 * (Cardinality(B) + HeapBlocks - LinkedCount')
  BY <1>1, <1>2, <1>3, WalkingIs DEF Walking
<1>5. IsFiniteSet(A) /\ Cardinality(A) \in Nat
  BY <1>2, <1>3, AheadIs
<1>6. CASE EnqueueLink
  <2>1. B \subseteq A \cup {allocated}
    BY <1>2, <1>3, <1>6, AheadLinked
  <2>2. IsFiniteSet(A \cup {allocated}) /\ Cardinality(A \cup {allocated}) <= Cardinality(A) + 1
    BY <1>5, FS_AddElement
  <2>3. Cardinality(B) \in Nat /\ Cardinality(B) <= Cardinality(A) + 1
    BY <1>5, <2>1, <2>2, FS_Subset, FS_CardinalityType
  <2>4. LinkedCount' = LinkedCount + 1
    BY <1>6, InvFacts DEF EnqueueLink, PGoto, LinkedCount
  <2> QED BY <1>4, <1>5, <2>3, <2>4
<1>7. CASE RingKept
  <2>1. B \subseteq A
    BY <1>2, <1>3, <1>7, AheadSame DEF RingKept
  <2>2. Cardinality(B) \in Nat /\ Cardinality(B) <= Cardinality(A)
    BY <1>5, <2>1, FS_Subset, FS_CardinalityType
  <2>3. LinkedCount' = LinkedCount
    BY <1>7 DEF RingKept
  <2> QED BY <1>4, <1>5, <2>2, <2>3
<1> QED BY <1>6, <1>7, RingMoves

\* Each step of size_approx brings the walk closer to its end.
LEMMA SizeApproxProceeds ==
  ASSUME IInv, Starts, NEW t \in Threads, SizeApprox(t)
  PROVE  Closer(t)
<1> USE DEF SizeGoto, PGoto, CGoto, prodOwned, Closer
<1>1. CASE SizeApproxBlock(t)
  <2>1. SizePc(t) = "size" /\ SizePc(t)' = "sizeNext"
    BY <1>1 DEF SizeApproxBlock, SizePc
  <2>2. LinkedCount' = LinkedCount
    BY <1>1, <2>1 DEF SizeApproxBlock, SizePc, LinkedCount, prodLocal
  <2>3. Walking(t)' = Walking(t)
    BY <1>1, <2>2 DEF SizeApproxBlock, Walking, Ahead
  <2> QED BY <2>1, <2>3, WalkingIs, StepsLeftIs
<1>2. CASE SizeApproxNext(t)
  <2>1. PICK b, c : b = szBlock[t] /\ c = szStart[t]
    OBVIOUS
  <2>2. /\ SizePc(t) = "sizeNext" /\ b \in Linked /\ c \in Linked
        /\ szBlock'[t] = next[b] /\ szStart'[t] = c /\ next' = next
        /\ SizePc(t)' = IF next[b] # c THEN "size" ELSE "sizeDone"
    <3>1. SizePc(t) = "sizeNext"
      BY <1>2 DEF SizeApproxNext
    <3>2. SizePc(t)' = IF next[b] # c THEN "size" ELSE "sizeDone"
      BY <1>2, <2>1 DEF SizeApproxNext, SizePc
    <3>3. szBlock'[t] = next[b] /\ szStart'[t] = c /\ next' = next
      BY <1>2, <2>1 DEF SizeApproxNext, IInv, TypeOK
    <3> QED BY <2>1, <3>1, <3>2, <3>3, WalkingIs DEF Starts
  <2>3. LinkedCount' = LinkedCount
    BY <1>2, <2>2 DEF SizeApproxNext, SizePc, LinkedCount, prodLocal
  <2>4. CASE next[b] # c
    <3>1. PICK d : d = next[b]
      OBVIOUS
    <3>2. Walking(t) = 2 * (Cardinality(Ahead(b, c)) + HeapBlocks - LinkedCount)
      BY <2>1 DEF Walking
    <3>3. Walking(t)' = 2 * (Cardinality(Ahead(d, c)) + HeapBlocks - LinkedCount)
      BY <2>2, <2>3, <3>1 DEF Walking, Ahead
    <3>4. Cardinality(Ahead(d, c)) < Cardinality(Ahead(b, c))
      BY <2>2, <2>4, <3>1, AheadShrinks
    <3>5. Cardinality(Ahead(d, c)) \in Nat /\ Cardinality(Ahead(b, c)) \in Nat
      BY <2>2, <3>1, AheadIs, InvFacts
    <3>6. HeapBlocks \in Nat /\ LinkedCount \in Nat
      BY <2>2, WalkingIs
    <3>7. Walking(t)' \in Int /\ Walking(t) \in Int /\ Walking(t)' + 1 < Walking(t)
      BY <3>2, <3>3, <3>4, <3>5, <3>6
    <3>8. StepsLeft(t)' = Walking(t)' + 1 /\ StepsLeft(t) = Walking(t)
      BY <2>2, <2>4, StepsLeftIs
    <3> QED BY <3>7, <3>8
  <2>5. CASE next[b] = c
    BY <2>2, <2>5, WalkingIs, StepsLeftIs
  <2> QED BY <2>4, <2>5
<1>3. CASE SizeApproxReturn(t)
  <2>1. SizePc(t) = "sizeDone" /\ SizePc(t)' = "idle"
    BY <1>3 DEF SizeApproxReturn, SizePc
  <2> QED BY <2>1, StepsLeftIs
<1> QED BY <1>1, <1>2, <1>3 DEF SizeApprox

\* What the other thread does takes no call further away from its end.
LEMMA AsideKeeps ==
  ASSUME IInv, [Next]_vars, NEW t \in Threads, Aside(t)
  PROVE  StepsLeft(t)' <= StepsLeft(t)
<1>1. CASE SizePc(t) \in {"size", "sizeNext"}
  BY <1>1, WalkingIs, WalkingKept, StepsLeftIs DEF Aside
<1>2. CASE SizePc(t) \notin {"size", "sizeNext"}
  <2>1. SizePc(t)' = SizePc(t)
    BY DEF Aside
  <2>2. CASE t = "producer"
    <3>1. ppc' = ppc /\ ppc \in ProducerPcs
      BY <2>1, <2>2 DEF SizePc, IInv, TypeOK
    <3>2. StepsLeft(t)' = StepsLeft(t)
      BY <1>2, <2>2, <3>1 DEF StepsLeft, SizePc
    <3>3. StepsLeft(t) \in Int
      BY <1>2, <2>2, <3>1, EnqueueStepsLeft, StepsLeftIs DEF ProducerPcs, SizePc
    <3> QED BY <3>2, <3>3
  <2>3. CASE t = "consumer"
    <3>1. cpc' = cpc /\ cpc \in ConsumerPcs
      BY <2>1, <2>3 DEF SizePc, IInv, TypeOK
    <3>2. StepsLeft(t)' = StepsLeft(t)
      BY <1>2, <2>3, <3>1 DEF StepsLeft, SizePc
    <3>3. StepsLeft(t) \in Int
      BY <1>2, <2>3, <3>1, DequeueStepsLeft, StepsLeftIs DEF ConsumerPcs, SizePc
    <3> QED BY <3>2, <3>3
  <2> QED BY <2>2, <2>3 DEF Threads
<1> QED BY <1>1, <1>2

\* In a call, a step of the thread itself brings it closer to its end.
LEMMA CallProceeds ==
  ASSUME IInv, Starts, [Next]_vars, NEW t \in Threads, SizePc(t) # "idle", ~ Aside(t)
  PROVE  Closer(t)
<1>1. CASE SizeApprox(t)
  BY <1>1, SizeApproxProceeds
<1>2. CASE Moves(t)
  BY <1>2, EnqueueProceeds, DequeueProceeds
  DEF Moves, Threads, SizePc, EnqueueCall, DequeueCall
<1>3. ~ SizeApproxCall(t)
  BY DEF SizeApproxCall
<1> QED BY <1>1, <1>2, <1>3, StepsOfThread

\* A call always has steps left.
LEMMA CallHasSteps ==
  ASSUME IInv, NEW t \in Threads, SizePc(t) # "idle"
  PROVE  StepsLeft(t) \in Nat \ {0}
<1>1. CASE SizePc(t) \in {"size", "sizeNext"}
  BY <1>1, WalkingIs, StepsLeftIs
<1>2. CASE SizePc(t) = "sizeDone"
  BY <1>2, StepsLeftIs
<1>3. CASE SizePc(t) \notin {"size", "sizeNext", "sizeDone"} /\ t = "producer"
  BY <1>3, EnqueueStepsLeft DEF SizePc, IInv, TypeOK, ProducerPcs
<1>4. CASE SizePc(t) \notin {"size", "sizeNext", "sizeDone"} /\ t = "consumer"
  BY <1>4, DequeueStepsLeft DEF SizePc, IInv, TypeOK, ConsumerPcs
<1> QED BY <1>1, <1>2, <1>3, <1>4 DEF Threads

\* Wait-freedom (lines 20-22): no call of either thread ever waits.  The steps that
\* are left of it become fewer with each of its own steps and never become more, so
\* it returns after a number of steps that is known as it starts.
THEOREM CallsAreWaitFree == Spec => WaitFree
<1> DEFINE Proceeds == \A t \in Threads : SizePc(t) # "idle" =>
                       /\ StepsLeft(t) \in Nat \ {0}
                       /\ StepsLeft(t)' <= StepsLeft(t)
                       /\ SizePc(t)' # SizePc(t) => StepsLeft(t)' < StepsLeft(t)
<1>1. Init => Starts
  BY DEF Init, Starts, SizePc, Threads
<1>2. IInv /\ Starts /\ [Next]_vars => Starts'
  BY StartsKept
<1>3. IInv /\ Starts /\ [Next]_vars => [Proceeds]_vars
  <2> SUFFICES ASSUME IInv, Starts, [Next]_vars, NEW t \in Threads, SizePc(t) # "idle"
               PROVE  /\ StepsLeft(t) \in Nat \ {0}
                      /\ StepsLeft(t)' <= StepsLeft(t)
                      /\ SizePc(t)' # SizePc(t) => StepsLeft(t)' < StepsLeft(t)
    OBVIOUS
  <2>1. CASE Aside(t)
    BY <2>1, AsideKeeps, CallHasSteps DEF Aside
  <2>2. CASE ~ Aside(t)
    BY <2>2, CallProceeds, CallHasSteps DEF Closer
  <2> QED BY <2>1, <2>2
<1> QED
  BY <1>1, <1>2, <1>3, InvariantHolds, PTL DEF Spec, WaitFree
=============================================================================
