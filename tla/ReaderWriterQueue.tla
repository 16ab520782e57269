-------------------------- MODULE ReaderWriterQueue --------------------------
(***************************************************************************)
(* moodycamel::ReaderWriterQueue (include/readerwriterqueue.h): a queue of *)
(* circular buffers ("blocks") linked in a ring, shared without locks by   *)
(* one producer thread and one consumer thread.                            *)
(*                                                                         *)
(* Every access to a variable that the other thread writes is a step of    *)
(* its own, in the order of the code; accesses to a thread's own variables *)
(* are part of the step before them.  Steps of the two threads interleave  *)
(* arbitrarily (sequential consistency: the release/acquire fences of the  *)
(* code are taken to do their work).                                       *)
(*                                                                         *)
(* Elements are numbered 1, 2, 3, ... as the producer offers them.         *)
(***************************************************************************)
EXTENDS QueueBlocks, FiniteSets

CONSTANTS
  ProducerOps,     \* operations the producer thread calls
  ConsumerOps,     \* operations the consumer thread calls
  MaxElements      \* bound: elements the producer offers

ASSUME ElementsAssumption == MaxElements \in Nat

ASSUME OpsAssumption ==
  /\ ProducerOps \subseteq {"enqueue", "try_enqueue", "size_approx"}
  /\ ConsumerOps \subseteq {"try_dequeue", "pop", "peek", "size_approx"}

VARIABLES
  \* fields of the blocks
  front, localTail,            \* owned by the consumer
  tail, localFront, next,      \* owned by the producer
  sizeMask,                    \* constant after make_block
  data,                        \* the slots: an element or Raw
  allocated,                   \* blocks made so far are 1..allocated
  \* members of the queue
  frontBlock,                  \* owned by the consumer
  tailBlock, largestBlockSize, \* owned by the producer
  alive,                       \* FALSE once the destructor has run
  \* the producer thread
  ppc, pmode, pnb,              \* control, operation, local tailBlockNext/newBlock
  pret,                        \* result of its last enqueue
  \* the consumer thread
  cpc, cop, cb,                \* control, operation, the block it reads from
  celem,                       \* the element moved to `result'
  cret,                        \* what its last call delivered, Raw for "empty"
  \* size_approx, one activation per thread
  szStart, szBlock, szSum,
  \* history
  sent, received,              \* elements published by the producer, freed by the consumer
  heldAtCall,                  \* sent - received when the last enqueue was called
  emptyAtCall,                 \* was the queue empty when the last dequeue was called
  szHeld                       \* per thread: sent - received when size_approx was called

prodOwned == <<tail, localFront, next, tailBlock, largestBlockSize, sizeMask, allocated>>
consOwned == <<front, localTail, frontBlock>>
prodLocal == <<ppc, pmode, pnb, pret, heldAtCall>>
consLocal == <<cpc, cop, cb, celem, cret, emptyAtCall>>
sizeVars == <<szStart, szBlock, szSum, szHeld>>
vars == <<prodOwned, consOwned, prodLocal, consLocal, sizeVars,
          data, alive, sent, received>>

Held == sent - received

Init ==
  /\ allocated = InitialBlockCount
  /\ front = [b \in Blocks |-> 0] /\ localTail = [b \in Blocks |-> 0]
  /\ tail = [b \in Blocks |-> 0] /\ localFront = [b \in Blocks |-> 0]
  /\ next = [b \in Blocks |-> IF b > InitialBlockCount THEN NoBlock
                              ELSE IF b = InitialBlockCount THEN 1 ELSE b + 1]
  /\ sizeMask = [b \in Blocks |-> IF b > InitialBlockCount THEN 0
                                  ELSE InitialBlockSize - 1]
  /\ data = [b \in Blocks |-> [i \in Slots |-> Raw]]
  /\ frontBlock = 1 /\ tailBlock = 1
  /\ largestBlockSize = InitialBlockSize
  /\ alive = TRUE
  /\ ppc = "idle" /\ pmode = "none" /\ pnb = NoBlock /\ pret = "none"
  /\ cpc = "idle" /\ cop = "none" /\ cb = 1 /\ celem = Raw /\ cret = Raw
  /\ szStart = [t \in {"producer", "consumer"} |-> NoBlock]
  /\ szBlock = szStart /\ szSum = [t \in {"producer", "consumer"} |-> 0]
  /\ szHeld = szSum
  /\ sent = 0 /\ received = 0 /\ heldAtCall = 0 /\ emptyAtCall = TRUE

-----------------------------------------------------------------------------
(* inner_enqueue *)

PGoto(pc) == ppc' = pc /\ UNCHANGED <<pmode, pnb, pret, heldAtCall>>

PReturn(result) ==
  ppc' = "idle" /\ pret' = result /\ UNCHANGED <<pmode, pnb, heldAtCall>>

PUnchangedElse == UNCHANGED <<consOwned, consLocal, sizeVars, alive, received>>

\* Is there room behind tail, as far as the producer's copy of front tells?
EnqueueCall(op) ==
  /\ alive /\ ppc = "idle" /\ sent < MaxElements
  /\ op \in ProducerOps \ {"size_approx"}
  /\ ppc' = IF Wrap(tail[tailBlock], sizeMask[tailBlock]) # localFront[tailBlock]
            THEN "construct" ELSE "refresh"
  /\ pmode' = op
  /\ heldAtCall' = Held
  /\ UNCHANGED <<pnb, pret, prodOwned, data, sent>> /\ PUnchangedElse

\* mutant: compares tail, not the slot after it, with front
EnqueueRefreshFrontSameSlot ==
  /\ ppc = "refresh"
  /\ localFront' = [localFront EXCEPT ![tailBlock] = front[tailBlock]]
  /\ PGoto(IF tail[tailBlock] # front[tailBlock] THEN "construct" ELSE "full")
  /\ UNCHANGED <<tail, next, tailBlock, largestBlockSize, sizeMask, allocated, data, sent>>
  /\ PUnchangedElse

\* localFront = front.load(), and the same question again
EnqueueRefreshFront ==
  /\ ppc = "refresh"
  /\ localFront' = [localFront EXCEPT ![tailBlock] = front[tailBlock]]
  /\ PGoto(IF Wrap(tail[tailBlock], sizeMask[tailBlock]) # front[tailBlock]
           THEN "construct" ELSE "full")
  /\ UNCHANGED <<tail, next, tailBlock, largestBlockSize, sizeMask, allocated, data, sent>>
  /\ PUnchangedElse

EnqueueConstruct ==
  /\ ppc = "construct"
  /\ data' = [data EXCEPT ![tailBlock][tail[tailBlock]] = sent + 1]
  /\ PGoto("publish")
  /\ UNCHANGED <<prodOwned, sent>> /\ PUnchangedElse

EnqueuePublish ==
  /\ ppc = "publish"
  /\ tail' = [tail EXCEPT ![tailBlock] = Wrap(@, sizeMask[tailBlock])]
  /\ sent' = sent + 1
  /\ PReturn("ok")
  /\ UNCHANGED <<localFront, next, tailBlock, largestBlockSize, sizeMask, allocated, data>>
  /\ PUnchangedElse

\* mutant: moves on to the next block although the consumer is in it
EnqueueTailFullIntoFront ==
  /\ ppc = "full"
  /\ IF next[tailBlock] # tailBlock
     THEN pnb' = next[tailBlock] /\ ppc' = "nextFront" /\ UNCHANGED pret
     ELSE ppc' = "alloc" /\ UNCHANGED <<pnb, pret>>
  /\ UNCHANGED <<pmode, heldAtCall, prodOwned, data, sent>> /\ PUnchangedElse

\* tailBlock is full: is the block after it free to use?
EnqueueTailFull ==
  /\ ppc = "full"
  /\ \/ /\ next[tailBlock] # frontBlock
        /\ pnb' = next[tailBlock]
        /\ ppc' = "nextFront"
        /\ UNCHANGED pret
     \/ /\ next[tailBlock] = frontBlock
        /\ pmode = "enqueue"
        /\ ppc' = "alloc"
        /\ UNCHANGED <<pnb, pret>>
     \/ /\ next[tailBlock] = frontBlock
        /\ pmode = "try_enqueue"
        /\ ppc' = "idle" /\ pret' = "refused"
        /\ UNCHANGED pnb
  /\ UNCHANGED <<pmode, heldAtCall, prodOwned, data, sent>> /\ PUnchangedElse

EnqueueNextFront ==
  /\ ppc = "nextFront"
  /\ localFront' = [localFront EXCEPT ![pnb] = front[pnb]]
  /\ PGoto("nextConstruct")
  /\ UNCHANGED <<tail, next, tailBlock, largestBlockSize, sizeMask, allocated, data, sent>>
  /\ PUnchangedElse

EnqueueNextConstruct ==
  /\ ppc = "nextConstruct"
  /\ data' = [data EXCEPT ![pnb][tail[pnb]] = sent + 1]
  /\ PGoto("nextTail")
  /\ UNCHANGED <<prodOwned, sent>> /\ PUnchangedElse

EnqueueNextTail ==
  /\ ppc = "nextTail"
  /\ tail' = [tail EXCEPT ![pnb] = Wrap(@, sizeMask[pnb])]
  /\ PGoto("advance")
  /\ UNCHANGED <<localFront, next, tailBlock, largestBlockSize, sizeMask, allocated, data, sent>>
  /\ PUnchangedElse

\* make_block delivers a block of newBlockSize, or nullptr.  The new block gets
\* the element and its link before any other thread can reach it.
EnqueueAllocate ==
  /\ ppc = "alloc"
  /\ allocated < HeapBlocks
  /\ LET new == allocated + 1
         newBlockSize == IF largestBlockSize >= MAX_BLOCK_SIZE
                         THEN largestBlockSize ELSE 2 * largestBlockSize
     IN  /\ allocated' = new
         /\ largestBlockSize' = newBlockSize
         /\ sizeMask' = [sizeMask EXCEPT ![new] = newBlockSize - 1]
         /\ data' = [data EXCEPT ![new][0] = sent + 1]
         /\ front' = [front EXCEPT ![new] = 0]
         /\ localFront' = [localFront EXCEPT ![new] = 0]
         /\ tail' = [tail EXCEPT ![new] = 1]
         /\ localTail' = [localTail EXCEPT ![new] = 1]
         /\ next' = [next EXCEPT ![new] = next[tailBlock]]
         /\ pnb' = new
  /\ ppc' = "link"
  /\ UNCHANGED <<tailBlock, frontBlock, pmode, pret, heldAtCall,
                 consLocal, sizeVars, alive, sent, received>>

EnqueueOutOfMemory ==
  /\ ppc = "alloc"
  /\ PReturn("nomem")
  /\ UNCHANGED <<prodOwned, data, sent>> /\ PUnchangedElse

EnqueueLink ==
  /\ ppc = "link"
  /\ next' = [next EXCEPT ![tailBlock] = pnb]
  /\ PGoto("advance")
  /\ UNCHANGED <<tail, localFront, tailBlock, largestBlockSize, sizeMask, allocated, data, sent>>
  /\ PUnchangedElse

\* tailBlock = ...: publishes the element written to the next or new block
EnqueueAdvance ==
  /\ ppc = "advance"
  /\ tailBlock' = pnb
  /\ sent' = sent + 1
  /\ PReturn("ok")
  /\ UNCHANGED <<tail, localFront, next, largestBlockSize, sizeMask, allocated, data>>
  /\ PUnchangedElse

Enqueue ==
  \/ EnqueueRefreshFront \/ EnqueueConstruct \/ EnqueuePublish
  \/ EnqueueTailFull \/ EnqueueNextFront \/ EnqueueNextConstruct \/ EnqueueNextTail
  \/ EnqueueAllocate \/ EnqueueOutOfMemory \/ EnqueueLink \/ EnqueueAdvance

-----------------------------------------------------------------------------
(* try_dequeue, pop and peek: the same search for the oldest element *)

CGoto(pc) == cpc' = pc /\ UNCHANGED <<cop, cb, celem, cret, emptyAtCall>>

CReturn(answer) ==
  cpc' = "idle" /\ cret' = answer /\ UNCHANGED <<cop, cb, celem, emptyAtCall>>

CUnchangedElse == UNCHANGED <<prodOwned, prodLocal, sizeVars, alive, sent>>

\* Is there an element at front, as far as the consumer's copy of tail tells?
DequeueCall(op) ==
  /\ alive /\ cpc = "idle"
  /\ op \in ConsumerOps \ {"size_approx"}
  /\ cpc' = IF front[frontBlock] # localTail[frontBlock] THEN "take" ELSE "refresh"
  /\ cop' = op
  /\ cb' = frontBlock
  /\ emptyAtCall' = (Held = 0)
  /\ UNCHANGED <<celem, cret, consOwned, data, received>> /\ CUnchangedElse

\* mutant: answers "empty" without looking at tailBlock
DequeueRefreshTailOnly ==
  /\ cpc = "refresh"
  /\ localTail' = [localTail EXCEPT ![frontBlock] = tail[frontBlock]]
  /\ IF front[frontBlock] # tail[frontBlock] THEN CGoto("take") ELSE CReturn(Raw)
  /\ UNCHANGED <<front, frontBlock, data, received>> /\ CUnchangedElse

DequeueRefreshTail ==
  /\ cpc = "refresh"
  /\ localTail' = [localTail EXCEPT ![frontBlock] = tail[frontBlock]]
  /\ CGoto(IF front[frontBlock] # tail[frontBlock] THEN "take" ELSE "checkTailBlock")
  /\ UNCHANGED <<front, frontBlock, data, received>> /\ CUnchangedElse

\* mutant: advances without looking at the front block again
DequeueCheckTailBlockOnce ==
  /\ cpc = "checkTailBlock"
  /\ IF frontBlock # tailBlock THEN CGoto("readNext") ELSE CReturn(Raw)
  /\ UNCHANGED <<consOwned, data, received>> /\ CUnchangedElse

\* The front block is empty; has the producer moved on to another one?
DequeueCheckTailBlock ==
  /\ cpc = "checkTailBlock"
  /\ IF frontBlock # tailBlock THEN CGoto("recheck") ELSE CReturn(Raw)
  /\ UNCHANGED <<consOwned, data, received>> /\ CUnchangedElse

\* mutant: starts over instead of advancing
DequeueRecheckRetry ==
  /\ cpc = "recheck"
  /\ localTail' = [localTail EXCEPT ![frontBlock] = tail[frontBlock]]
  /\ CGoto(IF front[frontBlock] # tail[frontBlock] THEN "take" ELSE "refresh")
  /\ UNCHANGED <<front, frontBlock, data, received>> /\ CUnchangedElse

\* It has, but it may have filled the front block first.
DequeueRecheck ==
  /\ cpc = "recheck"
  /\ localTail' = [localTail EXCEPT ![frontBlock] = tail[frontBlock]]
  /\ CGoto(IF front[frontBlock] # tail[frontBlock] THEN "take" ELSE "readNext")
  /\ UNCHANGED <<front, frontBlock, data, received>> /\ CUnchangedElse

DequeueReadNext ==
  /\ cpc = "readNext"
  /\ cb' = next[frontBlock]
  /\ cpc' = "readNextTail"
  /\ UNCHANGED <<cop, celem, cret, emptyAtCall, consOwned, data, received>>
  /\ CUnchangedElse

\* peek only reads the next block's tail (in an assertion); it does not move on.
DequeueReadNextTail ==
  /\ cpc = "readNextTail"
  /\ IF cop = "peek"
     THEN UNCHANGED localTail /\ CGoto("take")
     ELSE /\ localTail' = [localTail EXCEPT ![cb] = tail[cb]]
          /\ CGoto("advance")
  /\ UNCHANGED <<front, frontBlock, data, received>> /\ CUnchangedElse

DequeueAdvance ==
  /\ cpc = "advance"
  /\ frontBlock' = cb
  /\ CGoto("take")
  /\ UNCHANGED <<front, localTail, data, received>> /\ CUnchangedElse

\* peek answers with the element in place; the others take it out and destroy it.
DequeueTake ==
  /\ cpc = "take"
  /\ IF cop = "peek"
     THEN CReturn(data[cb][front[cb]]) /\ UNCHANGED data
     ELSE /\ celem' = data[cb][front[cb]]
          /\ data' = [data EXCEPT ![cb][front[cb]] = Raw]
          /\ cpc' = "publish"
          /\ UNCHANGED <<cop, cb, cret, emptyAtCall>>
  /\ UNCHANGED <<consOwned, received>> /\ CUnchangedElse

DequeuePublish ==
  /\ cpc = "publish"
  /\ front' = [front EXCEPT ![cb] = Wrap(@, sizeMask[cb])]
  /\ received' = received + 1
  /\ CReturn(celem)
  /\ UNCHANGED <<localTail, frontBlock, data>> /\ CUnchangedElse

Dequeue ==
  \/ DequeueRefreshTail \/ DequeueCheckTailBlock \/ DequeueRecheck
  \/ DequeueReadNext \/ DequeueReadNextTail \/ DequeueAdvance
  \/ DequeueTake \/ DequeuePublish

-----------------------------------------------------------------------------
(* size_approx, called by the producer or by the consumer *)

SizePc(t) == IF t = "producer" THEN ppc ELSE cpc

SizeGoto(t, pc) ==
  IF t = "producer"
  THEN PGoto(pc) /\ UNCHANGED consLocal
  ELSE CGoto(pc) /\ UNCHANGED prodLocal

SizeApproxCall(t) ==
  /\ alive /\ SizePc(t) = "idle"
  /\ "size_approx" \in IF t = "producer" THEN ProducerOps ELSE ConsumerOps
  /\ SizeGoto(t, "size")
  /\ szStart' = [szStart EXCEPT ![t] = frontBlock]
  /\ szBlock' = [szBlock EXCEPT ![t] = frontBlock]
  /\ szSum' = [szSum EXCEPT ![t] = 0]
  /\ szHeld' = [szHeld EXCEPT ![t] = Held]
  /\ UNCHANGED <<prodOwned, consOwned, data, alive, sent, received>>

\* The caller owns one of front and tail, so one block is one shared load; the
\* load of block->next by the consumer is a second one.
SizeApproxBlock(t) ==
  /\ SizePc(t) = "size"
  /\ LET b == szBlock[t]
     IN  szSum' = [szSum EXCEPT ![t] = @ + Span(front[b], tail[b], sizeMask[b])]
  /\ SizeGoto(t, "sizeNext")
  /\ UNCHANGED <<szStart, szBlock, szHeld>>
  /\ UNCHANGED <<prodOwned, consOwned, data, alive, sent, received>>

\* mutant: stops at frontBlock, wherever the consumer has moved it meanwhile
SizeApproxNextMovingEnd(t) ==
  /\ SizePc(t) = "sizeNext"
  /\ szBlock' = [szBlock EXCEPT ![t] = next[@]]
  /\ SizeGoto(t, IF next[szBlock[t]] # frontBlock THEN "size" ELSE "sizeDone")
  /\ UNCHANGED <<szStart, szSum, szHeld>>
  /\ UNCHANGED <<prodOwned, consOwned, data, alive, sent, received>>

SizeApproxNext(t) ==
  /\ SizePc(t) = "sizeNext"
  /\ szBlock' = [szBlock EXCEPT ![t] = next[@]]
  /\ SizeGoto(t, IF next[szBlock[t]] # szStart[t] THEN "size" ELSE "sizeDone")
  /\ UNCHANGED <<szStart, szSum, szHeld>>
  /\ UNCHANGED <<prodOwned, consOwned, data, alive, sent, received>>

SizeApproxReturn(t) ==
  /\ SizePc(t) = "sizeDone"
  /\ SizeGoto(t, "idle")
  /\ UNCHANGED sizeVars
  /\ UNCHANGED <<prodOwned, consOwned, data, alive, sent, received>>

SizeApprox(t) ==
  SizeApproxBlock(t) \/ SizeApproxNext(t) \/ SizeApproxReturn(t)

-----------------------------------------------------------------------------
(* The destructor, called when neither thread uses the queue any more: walk *)
(* the ring from frontBlock, destroy what lies between front and tail.      *)

\* The k-th block after frontBlock
Nth ==
  LET nth[k \in 0..HeapBlocks] ==
        IF k = 0 THEN frontBlock
        ELSE IF nth[k - 1] = NoBlock THEN NoBlock ELSE next[nth[k - 1]]
  IN  nth

RingBlocks ==
  LET steps == {k \in 1..HeapBlocks : Nth[k] = frontBlock}
  IN  {Nth[k] : k \in {j \in 0..HeapBlocks - 1 : \A i \in steps : j < i}}

\* mutant: the element before tail is not destroyed
LiveButLast(b) == {i \in 0..sizeMask[b] :
  Span(front[b], i, sizeMask[b]) + 1 < Span(front[b], tail[b], sizeMask[b])}

\* The slots from front up to tail
Live(b) == {i \in 0..sizeMask[b] :
              Span(front[b], i, sizeMask[b]) < Span(front[b], tail[b], sizeMask[b])}

Destroy ==
  /\ alive /\ ppc = "idle" /\ cpc = "idle"
  /\ alive' = FALSE
  /\ data' = [b \in Blocks |-> [i \in Slots |->
                IF b \in RingBlocks /\ i \in Live(b) THEN Raw ELSE data[b][i]]]
  /\ UNCHANGED <<prodOwned, consOwned, prodLocal, consLocal, sizeVars, sent, received>>

-----------------------------------------------------------------------------
Next ==
  \/ \E op \in ProducerOps : EnqueueCall(op)
  \/ Enqueue
  \/ \E op \in ConsumerOps : DequeueCall(op)
  \/ Dequeue
  \/ \E t \in {"producer", "consumer"} : SizeApproxCall(t) \/ SizeApprox(t)
  \/ Destroy

Spec == Init /\ [][Next]_vars

\* Neither thread stops in the middle of a call, and the consumer keeps polling
\* (read_data in buf-moody.cxx); peeks in between do not keep it from dequeuing.
Fairness ==
  /\ WF_vars(Enqueue) /\ WF_vars(Dequeue)
  /\ \A t \in {"producer", "consumer"} : WF_vars(SizeApprox(t))
  /\ SF_vars(DequeueCall("try_dequeue"))

FairSpec == Spec /\ Fairness

-----------------------------------------------------------------------------
ProducerPcs == {"idle", "refresh", "construct", "publish", "full", "nextFront",
                "nextConstruct", "nextTail", "alloc", "link", "advance",
                "size", "sizeNext", "sizeDone"}
ConsumerPcs == {"idle", "refresh", "checkTailBlock", "recheck", "readNext",
                "readNextTail", "advance", "take", "publish",
                "size", "sizeNext", "sizeDone"}
Threads == {"producer", "consumer"}

TypeOK ==
  /\ {front, localTail, tail, localFront, sizeMask} \subseteq [Blocks -> Slots]
  /\ next \in [Blocks -> Blocks \cup {NoBlock}]
  /\ data \in [Blocks -> [Slots -> Nat]]
  /\ allocated \in Blocks
  /\ {frontBlock, tailBlock, cb} \subseteq 1..allocated
  /\ pnb \in 0..allocated
  /\ largestBlockSize \in 1..SlotBound
  /\ alive \in BOOLEAN
  /\ ppc \in ProducerPcs
  /\ pmode \in {"none", "enqueue", "try_enqueue"}
  /\ pret \in {"none", "ok", "refused", "nomem"}
  /\ cpc \in ConsumerPcs
  /\ cop \in {"none", "try_dequeue", "pop", "peek"}
  /\ {celem, cret} \subseteq Nat
  /\ {szStart, szBlock} \subseteq [Threads -> 0..allocated]
  /\ {szSum, szHeld} \subseteq [Threads -> Nat]
  /\ {sent, received, heldAtCall} \subseteq Nat
  /\ emptyAtCall \in BOOLEAN

\* FIFO: whatever block and slot the consumer ends up at, the element it takes
\* is the oldest one that was published and not yet taken -- none is skipped,
\* repeated or read before its publication (try_dequeue, lines 219-227).
FifoOrder ==
  /\ cpc = "take" => received < sent /\ data[cb][front[cb]] = received + 1
  /\ cpc = "publish" => celem = received + 1

\* The producer constructs objects only in slots that hold none: it never
\* overwrites an element still to be read, nor one the consumer is reading.
ConstructsInRawSlots ==
  /\ ppc = "construct" => data[tailBlock][tail[tailBlock]] = Raw
  /\ ppc = "nextConstruct" => data[pnb][tail[pnb]] = Raw

\* The assertions in the code: the block the consumer advances to holds an
\* element (lines 272, 337, 388), the block the producer advances to is empty
\* (line 479) as its copy of front tells.
CodeAssertions ==
  /\ cpc = "advance" => front[cb] # localTail[cb]
  /\ cpc = "take" /\ cop = "peek" => front[cb] # tail[cb]
  /\ ppc = "nextConstruct" => localFront[pnb] = tail[pnb]

\* try_enqueue refuses an element, and enqueue asks for memory, only when the
\* queue already held maxSize elements as the call was made (lines 76-79).
HoldsMaxSize ==
  /\ ppc = "idle" /\ pret = "refused" => heldAtCall >= MaxSize
  /\ ppc = "alloc" => heldAtCall >= MaxSize

\* The consumer never advances past the producer's block: while there are blocks
\* between the two, these are full, and all others are empty.
BetweenFrontAndTailFull ==
  LET d == CHOOSE k \in 0..HeapBlocks :
             Nth[k] = tailBlock /\ \A j \in 0..k - 1 : Nth[j] # tailBlock
  IN  \A k \in 1..allocated - 1 :
        LET span == Span(front[Nth[k]], tail[Nth[k]], sizeMask[Nth[k]])
        IN  /\ k < d => span = sizeMask[Nth[k]]
            /\ k > d /\ ppc \notin {"link", "advance"} => span = 0

\* size_approx: an answer given to the consumer lies between what was held at
\* the call and what is held at the return, plus one element the producer may be
\* about to publish; an answer given to the producer lies between what is held
\* at the return and what was held at the call.
SizeApproxBounds ==
  /\ cpc = "sizeDone" => /\ szHeld["consumer"] <= szSum["consumer"]
                         /\ szSum["consumer"] <= Held + 1
  /\ ppc = "sizeDone" => /\ Held <= szSum["producer"]
                         /\ szSum["producer"] <= szHeld["producer"]

\* The destructor destroys every object that is left: nothing leaks.
DestructorLeavesNothing ==
  ~alive => \A b \in 1..allocated, i \in Slots : data[b][i] = Raw

\* The blocks that a walk along next comes to, from b until it is at c
Ahead(b, c) ==
  {x \in Blocks : \A S \in SUBSET Blocks :
     b \in S /\ (\A y \in S : next[y] # c => next[y] \in S) => x \in S}

\* The steps a call has still to make at most.  A walk of size_approx makes two
\* for each block ahead of it and for each block that may yet be linked.
StepsLeft(t) ==
  LET walk == 2 * (Cardinality(Ahead(szBlock[t], szStart[t])) + HeapBlocks
                   - (IF ppc = "link" THEN allocated - 1 ELSE allocated))
  IN  CASE SizePc(t) = "idle" -> 0
        [] SizePc(t) = "size" -> walk + 1
        [] SizePc(t) = "sizeNext" -> walk
        [] SizePc(t) = "sizeDone" -> 1
        [] OTHER ->
             IF t = "producer"
             THEN [refresh |-> 6, full |-> 5, nextFront |-> 4, nextConstruct |-> 3,
                   nextTail |-> 2, alloc |-> 3, link |-> 2, construct |-> 2,
                   publish |-> 1, advance |-> 1][ppc]
             ELSE [refresh |-> 8, checkTailBlock |-> 7, recheck |-> 6, readNext |-> 5,
                   readNextTail |-> 4, advance |-> 3, take |-> 2, publish |-> 1][cpc]

\* Wait-freedom (lines 20-22): a thread in a call comes closer to its end with each
\* of its steps, and nothing the other thread does takes it further away.  A
\* walk of size_approx (lines 414-427) gets longer by the blocks that the
\* producer links in meanwhile, each of which costs an allocation.
WaitFree ==
  [][\A t \in Threads : SizePc(t) # "idle" =>
       /\ StepsLeft(t) \in Nat \ {0}
       /\ StepsLeft(t)' <= StepsLeft(t)
       /\ SizePc(t)' # SizePc(t) => StepsLeft(t)' < StepsLeft(t)]_vars

\* Liveness: every call returns (no thread ever waits for the other), and every
\* published element is delivered to a consumer that keeps polling.
CallsReturn ==
  /\ (ppc # "idle") ~> (ppc = "idle")
  /\ (cpc # "idle") ~> (cpc = "idle")

EveryElementDelivered ==
  \A n \in 1..MaxElements : (sent >= n) ~> (received >= n \/ ~alive)
=============================================================================
