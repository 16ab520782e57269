------------------------ MODULE ReaderWriterQueueFifo ------------------------
(***************************************************************************)
(* ReaderWriterQueue implements SpscFifo: the content of the abstract      *)
(* queue is read off the blocks, walking the ring from frontBlock to       *)
(* tailBlock and each block from front to tail.                            *)
(***************************************************************************)
EXTENDS ReaderWriterQueue, Sequences, SequencesExt

BlockContent(b) ==
  [k \in 1..Span(front[b], tail[b], sizeMask[b]) |->
     LET i == (front[b] + k - 1) % (sizeMask[b] + 1)
     IN  IF cpc = "publish" /\ b = cb /\ i = front[b]
         THEN celem         \* moved out, but its slot is not released yet
         ELSE data[b][i]]

\* How many hops it is from frontBlock to tailBlock
TailDistance ==
  CHOOSE k \in 0..HeapBlocks :
    Nth[k] = tailBlock /\ \A j \in 0..k - 1 : Nth[j] # tailBlock

Content ==
  FlattenSeq([k \in 1..TailDistance + 1 |-> BlockContent(Nth[k - 1])])

SizePcs == {"size", "sizeNext", "sizeDone"}

Fifo == INSTANCE SpscFifo WITH
  fifo <- Content,
  penq <- IF ppc \in SizePcs \cup {"idle"} THEN "idle" ELSE pmode,
  cdeq <- IF cpc \in SizePcs \cup {"idle"} THEN "idle" ELSE cop

\* Every behaviour of the two threads, up to the destructor's run, is one of
\* the abstract FIFO: each call takes effect at a single instant within it.
ImplementsFifo == Fifo!Init /\ [][alive' => Fifo!Next]_(Fifo!vars)
=============================================================================
