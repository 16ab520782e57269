----------------------------- MODULE BufLockfree -----------------------------
(***************************************************************************)
(* buf-lockfree (src/buf-lockfree.cxx): as buf-moody, with a bounded       *)
(* boost::lockfree::spsc_queue (external: each call takes effect at once)  *)
(* and atomic counters.                                                    *)
(***************************************************************************)
EXTENDS IoService

CONSTANT CAPACITY   \* of the spsc_queue

VARIABLES spsc_queue, producer_count, consumer_count, done

lockfreeVars == <<spsc_queue, producer_count, consumer_count, done>>

LockfreeInit ==
  spsc_queue = <<>> /\ producer_count = 0 /\ consumer_count = 0 /\ done = FALSE

\* mutant: done is set before the workers are joined
LockfreeMainDoneFirst ==
  \/ Post("start", "handle_data", "post") /\ UNCHANGED lockfreeVars
  \/ Post("post", "read_data", "poll") /\ UNCHANGED lockfreeVars
  \/ /\ consumer_count >= Limit
     /\ Proceed(Main, "poll", "stop")
     /\ done' = TRUE
     /\ UNCHANGED <<spsc_queue, producer_count, consumer_count>>
  \/ Stop(Main, "stop", "join") /\ UNCHANGED lockfreeVars
  \/ Join("returned") /\ UNCHANGED lockfreeVars

LockfreeMain ==
  \/ Post("start", "handle_data", "post") /\ UNCHANGED lockfreeVars
  \/ Post("post", "read_data", "poll") /\ UNCHANGED lockfreeVars
  \/ consumer_count >= Limit /\ Stop(Main, "poll", "join") /\ UNCHANGED lockfreeVars
  \/ Join("joined") /\ UNCHANGED lockfreeVars
  \/ /\ Proceed(Main, "joined", "returned")
     /\ done' = TRUE
     /\ UNCHANGED <<spsc_queue, producer_count, consumer_count>>

(* receive_data *)

LockfreeProduce(t) ==
  /\ Proceed(t, "receive_data", "push")
  /\ producer_count' = producer_count + 1
  /\ UNCHANGED <<spsc_queue, consumer_count, done>>

\* The datagram is lost if the queue is full.
LockfreePush(t) ==
  /\ Goto(t, "push", "check")
  /\ spsc_queue' = IF Len(spsc_queue) < CAPACITY
                   THEN Append(spsc_queue, data_buffer.packet) ELSE spsc_queue
  /\ Hand
  /\ UNCHANGED <<program, posted, pending, stopped, open, data_buffer,
                 producer_count, consumer_count, done>>

LockfreeCheck(t) ==
  /\ IF done
     THEN /\ Goto(t, "check", "run")
          /\ Close
          /\ UNCHANGED <<program, stopped, data_buffer, handed>>
     ELSE Proceed(t, "check", "handle_data")
  /\ UNCHANGED lockfreeVars

(* read_data *)

LockfreePop(t) ==
  /\ \/ stopped /\ Proceed(t, "read_data", "run") /\ UNCHANGED spsc_queue
     \/ ~stopped /\ Proceed(t, "read_data", "pop") /\ UNCHANGED spsc_queue
     \/ spsc_queue = <<>> /\ Proceed(t, "pop", "read_data") /\ UNCHANGED spsc_queue
     \/ /\ spsc_queue # <<>>
        /\ Proceed(t, "pop", "popped")
        /\ spsc_queue' = Tail(spsc_queue)
  /\ UNCHANGED <<producer_count, consumer_count, done>>

LockfreeConsume(t) ==
  /\ Proceed(t, "popped", "pop")
  /\ consumer_count' = consumer_count + 1
  /\ UNCHANGED <<spsc_queue, producer_count, done>>

LockfreeStep(t) ==
  \/ HandleData(t) /\ UNCHANGED lockfreeVars
  \/ LockfreeProduce(t) \/ LockfreePush(t) \/ LockfreeCheck(t)
  \/ LockfreePop(t) \/ LockfreeConsume(t)

\* When main prints the counts no worker changes them any more.  So done comes
\* too late for receive_data: it never closes the socket (line 67).
DoneAfterTheWorkers ==
  /\ done => \A w \in Workers : at[w] = "left"
  /\ program = "buf-lockfree" => open
=============================================================================
