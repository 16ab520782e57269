------------------------------ MODULE BufMoody ------------------------------
(***************************************************************************)
(* buf-moody (src/buf-moody.cxx): one worker receives datagrams and        *)
(* enqueues them in a BlockingReaderWriterQueue, the other one runs        *)
(* read_data, which polls the queue and counts trailer words; main polls   *)
(* the count and stops the service.  The queue is taken at its abstract    *)
(* specification, SpscBlockingFifo.                                        *)
(***************************************************************************)
EXTENDS IoService

VARIABLES
  fifo, sent, available, offering, pret, cdeq, cret,  \* the queue q
  contents,    \* contents[n] is the n-th element that was enqueued
  n_packet

queueVars == <<fifo, sent, available, offering, pret, cdeq, cret>>
moodyVars == <<queueVars, contents, n_packet>>

\* enqueue allocates, so maxSize does not limit it.
Queue == INSTANCE SpscBlockingFifo WITH MaxSize <- 1023, DequeueOps <- {"try_dequeue"}

MoodyInit == Queue!Init /\ contents = <<>> /\ n_packet = 0

-----------------------------------------------------------------------------
(* main *)

MoodyMain ==
  /\ \/ Post("start", "handle_data", "post")
     \/ Post("post", "read_data", "poll")
     \/ n_packet >= Limit /\ Stop(Main, "poll", "join")
     \/ Join("returned")
  /\ UNCHANGED moodyVars

-----------------------------------------------------------------------------
(* receive_data *)

\* mutant: the next receive is started first, as in the commented line 111
MoodyEnqueueLate(t) ==
  \/ /\ Goto(t, "receive_data", "enqueue")
     /\ AsyncReceive
     /\ UNCHANGED <<program, stopped, open, handed, moodyVars>>
  \/ /\ Goto(t, "enqueue", "signal")
     /\ Queue!Put
     /\ contents' = Append(contents, data_buffer)
     /\ Hand
     /\ UNCHANGED <<program, posted, pending, stopped, open, data_buffer, n_packet>>

\* q->enqueue(data_buffer) copies the buffer; its permit comes a step later.
MoodyEnqueue(t) ==
  /\ Goto(t, "receive_data", "signal")
  /\ Queue!Put
  /\ contents' = Append(contents, data_buffer)
  /\ Hand
  /\ UNCHANGED <<program, posted, pending, stopped, open, data_buffer, n_packet>>

MoodySignal(t) ==
  /\ Proceed(t, "signal", "check")
  /\ Queue!Offer
  /\ UNCHANGED <<contents, n_packet>>

\* Enough: close the socket and start no further receive.
MoodyCheck(t) ==
  /\ \/ n_packet < Limit /\ Proceed(t, "check", "handle_data")
     \/ /\ n_packet >= Limit
        /\ Goto(t, "check", "run")
        /\ Close
        /\ UNCHANGED <<program, stopped, data_buffer, handed>>
  /\ UNCHANGED moodyVars

-----------------------------------------------------------------------------
(* read_data *)

\* mutant: does not look whether the service was stopped
MoodyPeekForever(t) ==
  /\ Proceed(t, "read_data", "peeked")
  /\ Queue!Peek
  /\ UNCHANGED <<contents, n_packet>>

\* while(!service->stopped()) ... q->peek()
MoodyPeek(t) ==
  /\ \/ stopped /\ Proceed(t, "read_data", "run") /\ UNCHANGED queueVars
     \/ ~stopped /\ Proceed(t, "read_data", "peeked") /\ Queue!Peek
  /\ UNCHANGED <<contents, n_packet>>

\* An element that peek has seen may not be available to try_dequeue yet.
MoodyDequeue(t) ==
  /\ \/ /\ Proceed(t, "peeked", "read_data")
        /\ \/ cret = Queue!NoElement /\ UNCHANGED queueVars
           \/ cret # Queue!NoElement /\ Queue!AnswerAtOnce("try_dequeue")
     \/ /\ Proceed(t, "peeked", "dequeue")
        /\ cret # Queue!NoElement
        /\ Queue!DequeueCall("try_dequeue")
     \/ Proceed(t, "dequeue", "count") /\ Queue!DequeueDone
     \/ Proceed(t, "dequeue", "read_data") /\ Queue!AnswerFalse
  /\ UNCHANGED <<contents, n_packet>>

\* mutant: the last word is not looked at
MoodyCountButLast(t) ==
  /\ Proceed(t, "count", "read_data")
  /\ n_packet' = n_packet + Cardinality(contents[cret].trailers \ {UDP_LEN})
  /\ UNCHANGED <<queueVars, contents>>

\* All words of the element are looked at, whatever the datagram's length.  The
\* increments are one step: n_packet only grows, and the other threads only ask
\* whether it has reached the limit.
MoodyCount(t) ==
  /\ Proceed(t, "count", "read_data")
  /\ n_packet' = n_packet + Cardinality(contents[cret].trailers)
  /\ UNCHANGED <<queueVars, contents>>

MoodyStep(t) ==
  \/ HandleData(t) /\ UNCHANGED moodyVars
  \/ MoodyEnqueue(t) \/ MoodySignal(t) \/ MoodyCheck(t)
  \/ MoodyPeek(t) \/ MoodyDequeue(t) \/ MoodyCount(t)

\* Elements whose words have been counted
Counted == sent - Len(fifo) - Cardinality({t \in Threads : at[t] = "count"})

\* Complete datagrams, each at least as long as the one before, are counted once
\* each.
CountsEachDatagram ==
  (\A n \in 1..Len(contents) :
     /\ contents[n].length \in 1..UDP_LEN
     /\ n > 1 => contents[n - 1].length <= contents[n].length)
    => n_packet = Counted
=============================================================================
