----------------------- MODULE RelaxedReaderWriterQueue -----------------------
(***************************************************************************)
(* moodycamel::ReaderWriterQueue (include/readerwriterqueue.h) on memory   *)
(* that orders nothing but what the fences order (WeakAtomics): a load of  *)
(* a variable of the other thread may deliver an old value.                *)
(*                                                                         *)
(* A step reaches from one load of the other thread's variables to the     *)
(* next: what lies between touches only the thread's own variables, and    *)
(* whether the other thread sees a store early or late is decided by its   *)
(* loads.  Elements are numbered 1, 2, 3, ... as the producer offers them. *)
(***************************************************************************)
EXTENDS QueueBlocks, Sequences

CONSTANTS
  ProducerOps,   \* "enqueue", "try_enqueue"
  ConsumerOps,   \* "try_dequeue" (pop orders its accesses alike), "peek"
  MaxElements    \* bound: elements the producer offers

ASSUME OpsAssumption ==
  /\ ProducerOps \subseteq {"enqueue", "try_enqueue"}
  /\ ConsumerOps \subseteq {"try_dequeue", "peek"}
  /\ MaxElements \in Nat

Threads == {"producer", "consumer"}

\* The weak_atomic members of the queue and of its blocks
frontBlock == <<"frontBlock", 0>>
tailBlock == <<"tailBlock", 0>>
front(b) == <<"front", b>>
tail(b) == <<"tail", b>>
next(b) == <<"next", b>>

Atomics == {frontBlock, tailBlock} \cup ({"front", "tail", "next"} \X Blocks)
WriterOf(x) == IF x[1] \in {"front", "frontBlock"} THEN "consumer" ELSE "producer"

\* The other shared variables: the slots of a block and, as one, the members
\* that make_block sets (data, sizeMask, localTail, initial indices)
Members == -1
slot(b, i) == <<b, i>>
Plain == Blocks \X ({Members} \cup Slots)

INSTANCE WeakAtomics

VARIABLES
  memory,
  localFront, sizeMask, largestBlockSize, allocated,   \* as in ReaderWriterQueue
  localTail,
  ppc, pmode, sent,                                    \* the producer
  cpc, cop, cb, cret, received,                        \* the consumer
  assertion      \* "ok", or what went wrong

prodVars == <<localFront, sizeMask, largestBlockSize, allocated, ppc, pmode, sent>>
consVars == <<localTail, cpc, cop, cb, cret, received>>
vars == <<memory, prodVars, consVars, assertion>>

Init ==
  /\ memory = Constructed(
       [x \in Atomics |->
          CASE x[1] \in {"front", "tail"} -> 0
            [] x[1] \in {"frontBlock", "tailBlock"} -> 1
            [] x[1] = "next" -> IF x[2] > InitialBlockCount THEN NoBlock
                                ELSE (x[2] % InitialBlockCount) + 1],
       [p \in Plain |-> Raw])
  /\ localFront = [b \in Blocks |-> 0] /\ localTail = [b \in Blocks |-> 0]
  /\ sizeMask = [b \in Blocks |-> IF b > InitialBlockCount THEN 0 ELSE InitialBlockSize - 1]
  /\ largestBlockSize = InitialBlockSize
  /\ allocated = InitialBlockCount
  /\ ppc = "idle" /\ pmode = "none" /\ sent = 0
  /\ cpc = "idle" /\ cop = "none" /\ cb = 1 /\ cret = Raw /\ received = 0
  /\ assertion = "ok"

-----------------------------------------------------------------------------
(* inner_enqueue *)

P == "producer"

\* mutant: no release fence before the store to tail
EnqueueHereUnreleased(m, b) ==
  LET t == Own(m, tail(b))
      built == Written(m, P, slot(b, t), sent + 1)
  IN  Stored(built, P, tail(b), Wrap(t, sizeMask[b]))

\* Construct behind tail, fence, publish
EnqueueHere(m, b) ==
  LET t == Own(m, tail(b))
      built == Written(m, P, slot(b, t), sent + 1)
  IN  Stored(Released(built, P), P, tail(b), Wrap(t, sizeMask[b]))

\* An object may be constructed only where there is none.
Constructs(b, i) ==
  assertion' = IF ValueOf(memory, slot(b, i)) = Raw THEN assertion ELSE "overwritten"

\* The tail block has room, as far as the front f tells.
EnqueueInTailBlock(m, f) ==
  LET b == Own(m, tailBlock)
      t == Own(m, tail(b))
  IN  /\ Wrap(t, sizeMask[b]) # f
      /\ memory' = EnqueueHere(Acquired(m, P), b)
      /\ Constructs(b, t)
      /\ sent' = sent + 1
      /\ ppc' = "idle"

EnqueueCall(op) ==
  LET b == Own(memory, tailBlock)
  IN  /\ ppc = "idle" /\ sent < MaxElements
      /\ \/ EnqueueInTailBlock(memory, localFront[b])
         \/ /\ Wrap(Own(memory, tail(b)), sizeMask[b]) = localFront[b]
            /\ ppc' = "front"
            /\ UNCHANGED <<memory, sent, assertion>>
      /\ pmode' = op
      /\ UNCHANGED <<localFront, sizeMask, largestBlockSize, allocated, consVars>>

EnqueueLoadFront ==
  LET b == Own(memory, tailBlock)
  IN  /\ ppc = "front"
      /\ \E load \in Loads(memory, P, front(b)) :
           /\ localFront' = [localFront EXCEPT ![b] = load.value]
           /\ \/ EnqueueInTailBlock(load.memory, load.value)
              \/ /\ Wrap(Own(memory, tail(b)), sizeMask[b]) = load.value
                 /\ memory' = Acquired(load.memory, P)
                 /\ ppc' = "frontBlock"
                 /\ UNCHANGED <<sent, assertion>>
      /\ UNCHANGED <<sizeMask, largestBlockSize, allocated, pmode, consVars>>

\* make_block, the new block's element and links, fence, publish
WithNewBlock(m, b, new) ==
  LET made == Written(m, P, slot(new, Members), 1)
      built == Written(made, P, slot(new, 0), sent + 1)
      filled == Stored(built, P, tail(new), 1)
      linked == Stored(Stored(filled, P, next(new), Own(m, next(b))), P, next(b), new)
  IN  Stored(Released(linked, P), P, tailBlock, new)

\* Is the block after the full tail block free?  If not: allocate or refuse.
EnqueueLoadFrontBlock ==
  LET b == Own(memory, tailBlock)
  IN  /\ ppc = "frontBlock"
      /\ \E load \in Loads(memory, P, frontBlock) :
           \/ /\ Own(memory, next(b)) # load.value
              /\ memory' = Acquired(load.memory, P)
              /\ ppc' = "nextFront"
              /\ UNCHANGED <<sizeMask, largestBlockSize, allocated, localTail, sent>>
           \/ /\ Own(memory, next(b)) = load.value
              /\ pmode = "enqueue" /\ allocated < HeapBlocks
              /\ LET size == IF largestBlockSize >= MAX_BLOCK_SIZE
                             THEN largestBlockSize ELSE 2 * largestBlockSize
                 IN  /\ largestBlockSize' = size
                     /\ sizeMask' = [sizeMask EXCEPT ![allocated + 1] = size - 1]
              /\ allocated' = allocated + 1
              /\ localTail' = [localTail EXCEPT ![allocated + 1] = 1]
              /\ memory' = WithNewBlock(load.memory, b, allocated + 1)
              /\ sent' = sent + 1
              /\ ppc' = "idle"
           \/ /\ Own(memory, next(b)) = load.value
              /\ memory' = load.memory
              /\ ppc' = "idle"    \* refused, or out of memory
              /\ UNCHANGED <<sizeMask, largestBlockSize, allocated, localTail, sent>>
      /\ UNCHANGED <<localFront, pmode, cpc, cop, cb, cret, received, assertion>>

\* mutant: no release fence before the store to tailBlock
EnqueueInNextBlockUnreleased(m, b) ==
  LET t == Own(m, tail(b))
      built == Written(Acquired(m, P), P, slot(b, t), sent + 1)
      filled == Stored(built, P, tail(b), Wrap(t, sizeMask[b]))
  IN  Stored(filled, P, tailBlock, b)

EnqueueInNextBlock(m, b) ==
  LET t == Own(m, tail(b))
      built == Written(Acquired(m, P), P, slot(b, t), sent + 1)
      filled == Stored(built, P, tail(b), Wrap(t, sizeMask[b]))
  IN  Stored(Released(filled, P), P, tailBlock, b)

EnqueueLoadNextFront ==
  LET b == Own(memory, next(Own(memory, tailBlock)))
      t == Own(memory, tail(b))
  IN  /\ ppc = "nextFront"
      /\ \E load \in Loads(memory, P, front(b)) :
           /\ localFront' = [localFront EXCEPT ![b] = load.value]
           /\ IF load.value # t THEN assertion' = "next block not empty"
                                ELSE Constructs(b, t)
           /\ memory' = EnqueueInNextBlock(load.memory, b)
      /\ sent' = sent + 1
      /\ ppc' = "idle"
      /\ UNCHANGED <<sizeMask, largestBlockSize, allocated, pmode, consVars>>

Enqueue == EnqueueLoadFront \/ EnqueueLoadFrontBlock \/ EnqueueLoadNextFront

-----------------------------------------------------------------------------
(* try_dequeue and peek *)

C == "consumer"

\* mutant: no release fence before the store to front
TakenUnreleased(m, b) ==
  LET f == Own(m, front(b))
      seen == Read(Read(m, C, slot(b, Members)), C, slot(b, f))
  IN  IF cop' = "peek" THEN seen
      ELSE Stored(Written(seen, C, slot(b, f), Raw), C, front(b), Wrap(f, sizeMask[b]))

\* Move the element out and destroy it, fence, give the slot back; peek looks.
Taken(m, b) ==
  LET f == Own(m, front(b))
      seen == Read(Read(m, C, slot(b, Members)), C, slot(b, f))
  IN  IF cop' = "peek" THEN seen
      ELSE Stored(Released(Written(seen, C, slot(b, f), Raw), C),
                  C, front(b), Wrap(f, sizeMask[b]))

Take(m, b) ==
  /\ memory' = Taken(m, b)
  /\ cret' = ValueOf(m, slot(b, Own(m, front(b))))
  /\ received' = IF cop' = "peek" THEN received ELSE received + 1
  /\ cpc' = "idle"

DequeueCall(op) ==
  LET b == Own(memory, frontBlock)
  IN  /\ cpc = "idle"
      /\ cop' = op /\ cb' = b
      /\ IF Own(memory, front(b)) # localTail[b]
         THEN Take(Acquired(memory, C), b)
         ELSE cpc' = "tail" /\ cret' = Raw /\ UNCHANGED <<memory, received>>
      /\ UNCHANGED <<localTail, prodVars, assertion>>

DequeueLoadTail ==
  /\ cpc = "tail"
  /\ UNCHANGED <<cop, cb, prodVars, assertion>>
  /\ \E load \in Loads(memory, C, tail(cb)) :
       /\ localTail' = [localTail EXCEPT ![cb] = load.value]
       /\ IF Own(memory, front(cb)) # load.value
          THEN Take(Acquired(load.memory, C), cb)
          ELSE memory' = load.memory /\ cpc' = "tailBlock" /\ UNCHANGED <<cret, received>>

\* mutant: no acquire fence after the load of tailBlock
DequeueLoadTailBlockUnacquired ==
  /\ cpc = "tailBlock"
  /\ \E load \in Loads(memory, C, tailBlock) :
       /\ memory' = load.memory
       /\ cpc' = IF load.value = cb THEN "idle" ELSE "tailAgain"
  /\ UNCHANGED <<localTail, cop, cb, cret, received, prodVars, assertion>>

\* "Empty" if the producer is still in the front block
DequeueLoadTailBlock ==
  /\ cpc = "tailBlock"
  /\ \E load \in Loads(memory, C, tailBlock) :
       IF load.value = cb
       THEN memory' = load.memory /\ cpc' = "idle"
       ELSE memory' = Acquired(load.memory, C) /\ cpc' = "tailAgain"
  /\ UNCHANGED <<localTail, cop, cb, cret, received, prodVars, assertion>>

DequeueLoadTailAgain ==
  /\ cpc = "tailAgain"
  /\ UNCHANGED <<cop, cb, prodVars, assertion>>
  /\ \E load \in Loads(memory, C, tail(cb)) :
       /\ localTail' = [localTail EXCEPT ![cb] = load.value]
       /\ IF Own(memory, front(cb)) # load.value
          THEN Take(Acquired(load.memory, C), cb)
          ELSE /\ memory' = Acquired(load.memory, C)
               /\ cpc' = "next"
               /\ UNCHANGED <<cret, received>>

\* The front block is used up and there is another one ahead.
DequeueLoadNext ==
  /\ cpc = "next"
  /\ \E load \in Loads(memory, C, next(cb)) :
       memory' = load.memory /\ cb' = load.value
  /\ cpc' = "nextTail"
  /\ UNCHANGED <<localTail, cop, cret, received, prodVars, assertion>>

\* mutant: no release fence before the store to frontBlock
AdvancedUnreleased(m) == Stored(m, C, frontBlock, cb)

\* We're done with this block, let the producer use it if it needs
Advanced(m) == Stored(Released(m, C), C, frontBlock, cb)

\* There must be an element in the next block; peek asserts it and stays.
DequeueLoadNextTail ==
  /\ cpc = "nextTail"
  /\ UNCHANGED <<cop, cb, prodVars>>
  /\ \E load \in Loads(memory, C, tail(cb)) :
       /\ assertion' = IF Own(memory, front(cb)) # load.value THEN assertion
                       ELSE "next block empty"
       /\ IF cop = "peek"
          THEN Take(load.memory, cb) /\ UNCHANGED localTail
          ELSE /\ Take(Advanced(Acquired(Read(load.memory, C, slot(cb, Members)), C)), cb)
               /\ localTail' = [localTail EXCEPT ![cb] = load.value]

Dequeue ==
  \/ DequeueLoadTail \/ DequeueLoadTailBlock \/ DequeueLoadTailAgain
  \/ DequeueLoadNext \/ DequeueLoadNextTail

-----------------------------------------------------------------------------
Next ==
  /\ ~memory.raced /\ assertion = "ok"
  /\ \/ \E op \in ProducerOps : EnqueueCall(op)
     \/ Enqueue
     \/ \E op \in ConsumerOps : DequeueCall(op)
     \/ Dequeue

Spec == Init /\ [][Next]_vars

-----------------------------------------------------------------------------
Messages(x) ==
  [value : IF x[1] \in {"front", "tail"} THEN Slots ELSE {NoBlock} \cup Blocks,
   store : Nat, release : Nat]

TypeOK ==
  /\ \A x \in Atomics : memory.visible[x] \in Seq(Messages(x)) \ {<<>>}
  /\ \A p \in Plain : memory.plain[p] \in [value : 0..MaxElements, by : Threads, write : Nat]
  /\ \A t \in Threads :
       /\ memory.released[t] \in 0..memory.writes[t]
       /\ {memory.acquired[t], memory.promised[t]}
            \subseteq 0..memory.writes[CHOOSE u \in Threads : u # t]
  /\ {localFront, localTail, sizeMask} \subseteq [Blocks -> Slots]
  /\ largestBlockSize \in 1..SlotBound /\ allocated \in Blocks
  /\ ppc \in {"idle", "front", "frontBlock", "nextFront"} /\ pmode \in ProducerOps \cup {"none"}
  /\ cpc \in {"idle", "tail", "tailBlock", "tailAgain", "next", "nextTail"}
  /\ cop \in ConsumerOps \cup {"none"} /\ cb \in 0..allocated
  /\ sent \in 0..MaxElements /\ received \in 0..MaxElements /\ cret \in 0..MaxElements

\* The fences suffice: whichever old values the relaxed loads deliver, no access
\* to a slot or to the members of a new block is a data race with the other
\* thread's accesses.
NoDataRace == ~memory.raced

\* The consumer gets the elements in order, each exactly once, although it may
\* see tailBlock, tail and next late.
InOrderDespiteStaleLoads ==
  cret # Raw => cret = IF cop = "peek" THEN received + 1 ELSE received

\* The assertions of the code hold and no element is overwritten: a block the
\* producer enters is empty (line 479), one the consumer enters is not (lines
\* 272, 337), whatever old values the loads deliver.
AssertionsDespiteStaleLoads == assertion = "ok"
=============================================================================
