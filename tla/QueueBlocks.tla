----------------------------- MODULE QueueBlocks -----------------------------
(***************************************************************************)
(* Sizes of the blocks of moodycamel::ReaderWriterQueue                    *)
(* (include/readerwriterqueue.h) and the arithmetic on the indices of a    *)
(* block.                                                                  *)
(***************************************************************************)
EXTENDS Integers

CONSTANTS
  MaxSize,         \* argument of the constructor
  MAX_BLOCK_SIZE,  \* template argument
  HeapBlocks       \* how many blocks malloc can deliver

\* ceilToPow2 (for x >= 1): the least power of two that is at least x.
CeilToPow2(x) ==
  LET Powers == {2^k : k \in 0..x}
  IN  CHOOSE p \in Powers : p >= x /\ \A q \in Powers : q >= x => p <= q

\* The constructor's sizing: one block with a spare slot or, for large maxSize,
\* enough blocks of MAX_BLOCK_SIZE, each with a spare slot, plus a spare block.
OneBlockSize == CeilToPow2(MaxSize + 1)
SeveralBlocks == OneBlockSize > 2 * MAX_BLOCK_SIZE

\* mutant: no spare block in the ring
InitialBlockCountNoSpare ==
  IF SeveralBlocks THEN (MaxSize + MAX_BLOCK_SIZE - 2) \div (MAX_BLOCK_SIZE - 1) ELSE 1

InitialBlockCount ==
  IF SeveralBlocks
  THEN (MaxSize + 2 * MAX_BLOCK_SIZE - 3) \div (MAX_BLOCK_SIZE - 1)
  ELSE 1
InitialBlockSize == IF SeveralBlocks THEN MAX_BLOCK_SIZE ELSE OneBlockSize

Blocks == 1..HeapBlocks
NoBlock == 0

\* No block is ever larger than this: enqueue doubles largestBlockSize only
\* while it is below MAX_BLOCK_SIZE, and both are powers of two.
SlotBound == IF OneBlockSize > MAX_BLOCK_SIZE THEN OneBlockSize ELSE MAX_BLOCK_SIZE
Slots == 0..SlotBound - 1

Raw == 0   \* a slot that holds no object

ASSUME SizeAssumption ==
  /\ MaxSize \in Nat \ {0}
  /\ MAX_BLOCK_SIZE \in Nat /\ MAX_BLOCK_SIZE >= 2
  /\ \E k \in 0..MAX_BLOCK_SIZE : MAX_BLOCK_SIZE = 2^k
  /\ HeapBlocks \in Nat /\ HeapBlocks >= InitialBlockCount

-----------------------------------------------------------------------------
\* mutant: the index is not masked
WrapUnmasked(i, mask) == i + 1

\* (i + 1) & sizeMask, for an index of a block whose size is a power of two
Wrap(i, mask) == IF i = mask THEN 0 ELSE i + 1

\* mutant: the difference is not masked
SpanUnmasked(f, t, mask) == IF f <= t THEN t - f ELSE 0

\* (t - f) & sizeMask in unsigned arithmetic: the elements of a block
Span(f, t, mask) == IF f <= t THEN t - f ELSE t - f + mask + 1
=============================================================================
