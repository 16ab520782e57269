------------------------- MODULE UdpPrograms_proofs -------------------------
(***************************************************************************)
(* The UDP programs with any number of workers, datagrams and handlers:    *)
(* there is one receive at a time, whatever thread handles it, so each     *)
(* datagram is handed over once and in order; and how the programs end.    *)
(***************************************************************************)
EXTENDS UdpPrograms, SequenceTheorems, FiniteSetTheorems, TLAPS

-----------------------------------------------------------------------------
(* The invariant *)

Postable == {"handle_data", "receive_data", "decode_data",
             "read_data", "client_writer", "client_reader"}

\* Where a thread can be: in or out of run(), in main or in a handler
Places == Postable \cup {"run", "left", "start", "post", "poll", "loop", "join",
  "joined", "returned", "signal", "push", "check", "decoded", "end", "peeked",
  "dequeue", "count", "pop", "popped"}

IoTypeOK ==
  /\ program \in {"buf-moody", "buf-lockfree", "buf-sync", "buf-server"}
  /\ at \in [Threads -> Places]
  /\ posted \in Seq(Postable)
  /\ pending \in Nat
  /\ stopped \in BOOLEAN /\ open \in BOOLEAN
  /\ data_buffer.packet \in Nat
  /\ handed \in Seq(Nat)

\* Handlers that find a datagram in data_buffer which was not handed over
Due(handler) == IF handler \in {"receive_data", "push", "decode_data"} THEN 1 ELSE 0

NonePosted == \A k \in 1..Len(posted) : posted[k] \notin Receiving
NoneHandled == \A t \in Threads : at[t] \notin Receiving

\* The receive is nowhere, waits for its datagram, is posted, or is handled.
Quiet == NonePosted /\ NoneHandled /\ pending = 0
Waiting == NonePosted /\ NoneHandled /\ pending = 1
Posted ==
  /\ NoneHandled /\ pending = 0
  /\ \E k \in 1..Len(posted) :
       /\ posted[k] \in Receiving
       /\ \A j \in 1..Len(posted) : posted[j] \in Receiving => j = k
       /\ data_buffer.packet = Len(handed) + Due(posted[k])
Handled ==
  /\ NonePosted /\ pending = 0
  /\ \E t \in Threads :
       /\ at[t] \in Receiving
       /\ \A s \in Threads : at[s] \in Receiving => s = t
       /\ data_buffer.packet = Len(handed) + Due(at[t])

\* main has not posted handle_data
Fresh == at[Main] = "start" \/ (program = "buf-sync" /\ at[Main] = "post")

\* A closed socket has no receive: one would complete without a datagram.
OneReceive ==
  /\ \/ Quiet /\ data_buffer.packet = Len(handed)
     \/ open /\ Waiting /\ data_buffer.packet = Len(handed)
     \/ open /\ Posted
     \/ open /\ Handled
  /\ Fresh => open /\ Quiet

InOrder == \A k \in 1..Len(handed) : handed[k] = k

\* The part of the invariant that is about the service
Service == IoTypeOK /\ OneReceive /\ InOrder

WorkersLeft == \A w \in Workers : at[w] = "left"

\* buf-lockfree: done is set when the workers have left, hence never seen.
Lockfree ==
  /\ done => program = "buf-lockfree" /\ at[Main] = "returned"
  /\ program = "buf-lockfree" =>
       /\ open
       /\ at[Main] \in {"start", "post", "poll", "join", "joined", "returned"}
       /\ at[Main] \in {"joined", "returned"} => WorkersLeft

\* buf-sync: client_reader is posted or is run by a worker.
ReaderPosted == \E k \in 1..Len(posted) : posted[k] = "client_reader"
ReaderRuns == \E w \in Workers : at[w] = "client_reader"

Sync ==
  program = "buf-sync" =>
    /\ at[Main] \in {"start", "post", "loop", "join", "returned"}
    /\ at[Main] # "start" => ReaderPosted \/ ReaderRuns
    /\ at[Main] = "returned" => WorkersLeft

\* buf-server: who ends the service has ended the receives, and is alone.
Server ==
  /\ destroyed => program = "buf-server" /\ at[Main] = "returned"
  /\ program = "buf-server" =>
       /\ stopped \/ (\E t \in Threads : at[t] = "end") => Quiet /\ at[Main] # "start"
       /\ \A s, t \in Threads : at[s] = "end" /\ at[t] = "end" => s = t
       /\ stopped => \A t \in Threads : at[t] # "end"
       /\ at[Main] \in {"left", "returned"} => stopped

IInv == Service /\ Lockfree /\ Sync /\ Server

-----------------------------------------------------------------------------
(* The service: what its operations do to the one receive *)

QuietStays == ~Fresh /\ Quiet => Quiet'

LEMMA PostableKnown ==
  ASSUME NEW h \in Postable
  PROVE  h \in Places /\ h \notin {"start", "post"}
BY DEF Postable, Places

\* Once main has posted handle_data it does not do so again.
LEMMA FreshGoes ==
  ASSUME IoTypeOK, NEW t \in Threads, NEW from, NEW to, Goto(t, from, to),
         program' = program,
         to # "start",
         to = "post" => program # "buf-sync" \/ from = "start"
  PROVE  Fresh' => Fresh
BY DEF IoTypeOK, Goto, Fresh, Threads

LEMMA DueValues ==
  ASSUME NEW h
  PROVE  /\ Due(h) \in {0, 1}
         /\ Due(h) = 1 <=> h \in {"receive_data", "push", "decode_data"}
  BY DEF Due

\* A thread goes on: it keeps the receive, ends it after the datagram was handed
\* over, or has none.
LEMMA Moves ==
  ASSUME Service, NEW t \in Threads, NEW from, NEW to \in Places,
         to \notin {"start", "post"},
         Goto(t, from, to), stopped' \in BOOLEAN,
         UNCHANGED <<program, posted, pending, open, data_buffer, handed>>,
         from \in Receiving => Due(from) = (IF to \in Receiving THEN Due(to) ELSE 0),
         from \notin Receiving => to \notin Receiving
  PROVE  Service' /\ QuietStays
<1>1. /\ at[t] = from /\ at' = [at EXCEPT ![t] = to] /\ at'[t] = to
      /\ \A s \in Threads : s # t => at'[s] = at[s]
  BY DEF Goto, Service, IoTypeOK
<1>2. IoTypeOK' /\ InOrder'
  BY <1>1 DEF Service, IoTypeOK, InOrder
<1>3. NonePosted <=> NonePosted'
  BY DEF NonePosted
<1>4. NoneHandled => NoneHandled'
  BY <1>1 DEF NoneHandled
<1>5. Handled => Handled' \/ (Quiet' /\ data_buffer'.packet = Len(handed'))
  <2>1. SUFFICES ASSUME Handled
                 PROVE  Handled' \/ (Quiet' /\ data_buffer'.packet = Len(handed'))
    OBVIOUS
  <2>2. PICK s \in Threads :
          /\ at[s] \in Receiving
          /\ \A u \in Threads : at[u] \in Receiving => u = s
          /\ data_buffer.packet = Len(handed) + Due(at[s])
    BY <2>1 DEF Handled
  <2>3. CASE at'[s] \in Receiving
    <3>1. \A u \in Threads : at'[u] \in Receiving => u = s
      BY <1>1, <2>2, <2>3
    <3>2. data_buffer'.packet = Len(handed') + Due(at'[s])
      BY <1>1, <2>2, <2>3
    <3> QED
      BY <3>1, <3>2, <2>1, <2>3, <1>3 DEF Handled
  <2>4. CASE at'[s] \notin Receiving
    <3>1. s = t /\ NoneHandled'
      BY <1>1, <2>2, <2>4 DEF NoneHandled
    <3>2. data_buffer.packet = Len(handed) + 0 /\ Len(handed) \in Nat
      BY <1>1, <2>2, <2>4, <3>1 DEF Service, IoTypeOK
    <3> QED
      BY <3>1, <3>2, <2>1, <1>3 DEF Handled, Quiet
  <2> QED
    BY <2>3, <2>4
<1>6. (Quiet => Quiet') /\ (Waiting => Waiting') /\ (Posted => Posted')
  BY <1>3, <1>4 DEF Quiet, Waiting, Posted
<1>7. Fresh' => Fresh
  BY FreshGoes DEF Service
<1>8. OneReceive'
  BY <1>5, <1>6, <1>7 DEF Service, OneReceive
<1> QED
  BY <1>2, <1>6, <1>8 DEF Service, QuietStays

\* The datagram in data_buffer is handed over: it is the next one.
LEMMA Hands ==
  ASSUME Service, NEW t \in Threads, NEW from, NEW to \in Places,
         to \notin {"start", "post"},
         Goto(t, from, to), Hand,
         UNCHANGED <<program, posted, pending, stopped, open, data_buffer>>,
         from \in Receiving, to \in Receiving, Due(from) = 1, Due(to) = 0
  PROVE  Service' /\ QuietStays
<1>1. /\ at[t] = from /\ at' = [at EXCEPT ![t] = to] /\ at'[t] = to
      /\ \A s \in Threads : s # t => at'[s] = at[s]
  BY DEF Goto, Service, IoTypeOK
<1>2. NonePosted /\ pending = 0 /\ open /\ data_buffer.packet = Len(handed) + 1
  BY <1>1 DEF Service, OneReceive, Quiet, Waiting, Posted, Handled, NoneHandled
<1>3. \A s \in Threads : at[s] \in Receiving => s = t
  BY <1>1 DEF Service, OneReceive, Quiet, Waiting, Posted, Handled, NoneHandled
<1>4. /\ handed' = Append(handed, data_buffer.packet)
      /\ handed \in Seq(Nat) /\ data_buffer.packet \in Nat
  BY DEF Hand, Service, IoTypeOK
<1>5. /\ handed' \in Seq(Nat) /\ Len(handed') = Len(handed) + 1
      /\ handed'[Len(handed) + 1] = data_buffer.packet
      /\ \A k \in 1..Len(handed) : handed'[k] = handed[k]
  BY <1>4
<1>6. IoTypeOK'
  BY <1>1, <1>5 DEF Service, IoTypeOK
<1>7. InOrder'
  BY <1>2, <1>4, <1>5 DEF Service, InOrder
<1>8. Handled'
  <2>1. /\ at'[t] \in Receiving
        /\ \A s \in Threads : at'[s] \in Receiving => s = t
        /\ data_buffer'.packet = Len(handed') + Due(at'[t])
    BY <1>1, <1>2, <1>3, <1>4, <1>5
  <2> QED
    BY <2>1, <1>2 DEF Handled, NonePosted
<1>9. Fresh' => Fresh
  BY FreshGoes DEF Service
<1>10. ~Quiet
  BY <1>1 DEF Quiet, NoneHandled
<1> QED
  BY <1>2, <1>6, <1>7, <1>8, <1>9, <1>10 DEF Service, OneReceive, QuietStays

\* main posts a handler: the first handle_data, or one that receives nothing.
LEMMA Posts ==
  ASSUME Service, NEW from, NEW handler \in Postable, NEW to \in Places,
         from \notin Receiving, to \notin Receiving, to # "start",
         to = "post" => program # "buf-sync" \/ from = "start",
         handler \in Receiving =>
           /\ Fresh /\ handler = "handle_data"
           /\ to = "post" => program # "buf-sync",
         Post(from, handler, to)
  PROVE  Service' /\ QuietStays
<1>1. /\ Main \in Threads /\ at[Main] = from /\ at' = [at EXCEPT ![Main] = to]
      /\ at'[Main] = to /\ \A s \in Threads : s # Main => at'[s] = at[s]
  BY DEF Post, Goto, Service, IoTypeOK, Threads
<1>2. /\ posted' = Append(posted, handler) /\ posted \in Seq(Postable)
      /\ program' = program /\ pending' = pending /\ stopped' = stopped
      /\ open' = open /\ data_buffer' = data_buffer /\ handed' = handed
  BY DEF Post, Service, IoTypeOK
<1>3. /\ posted' \in Seq(Postable) /\ Len(posted') = Len(posted) + 1
      /\ posted'[Len(posted) + 1] = handler
      /\ \A k \in 1..Len(posted) : posted'[k] = posted[k]
  BY <1>2
<1>4. IoTypeOK' /\ InOrder'
  BY <1>1, <1>2, <1>3 DEF Service, IoTypeOK, InOrder
<1>5. NoneHandled <=> NoneHandled'
  BY <1>1 DEF NoneHandled
<1>6. /\ Len(posted) \in Nat
      /\ \A k \in 1..Len(posted') : k \in 1..Len(posted) \/ k = Len(posted) + 1
  BY <1>2, <1>3
<1>7. /\ Fresh' => Fresh
      /\ handler \in Receiving => ~Fresh'
  <2>1. Goto(Main, from, to)
    BY DEF Post
  <2>2. Fresh' => Fresh
    BY <1>1, <1>2, <2>1, FreshGoes DEF Service
  <2>3. ASSUME handler \in Receiving PROVE ~Fresh'
    BY <1>1, <1>2, <2>3 DEF Fresh
  <2> QED
    BY <2>2, <2>3
<1>8. CASE handler \notin Receiving
  <2>1. NonePosted <=> NonePosted'
    BY <1>3, <1>6, <1>8 DEF NonePosted
  <2>2. Posted => Posted'
    <3>1. SUFFICES ASSUME Posted PROVE Posted'
      OBVIOUS
    <3>2. PICK k \in 1..Len(posted) :
            /\ posted[k] \in Receiving
            /\ \A j \in 1..Len(posted) : posted[j] \in Receiving => j = k
            /\ data_buffer.packet = Len(handed) + Due(posted[k])
      BY <3>1 DEF Posted
    <3>3. /\ k \in 1..Len(posted') /\ posted'[k] = posted[k]
          /\ \A j \in 1..Len(posted') : posted'[j] \in Receiving => j = k
      BY <1>3, <1>6, <1>8, <3>2
    <3> QED
      BY <1>2, <1>5, <3>1, <3>2, <3>3 DEF Posted
  <2>3. Handled => Handled'
    <3>1. \A s \in Threads : at[s] \in Receiving <=> at'[s] \in Receiving
      BY <1>1
    <3>2. \A s \in Threads : at[s] \in Receiving => at'[s] = at[s]
      BY <1>1
    <3> QED
      BY <1>2, <2>1, <3>1, <3>2 DEF Handled
  <2>4. (Quiet => Quiet') /\ (Waiting => Waiting')
    BY <1>2, <1>5, <2>1 DEF Quiet, Waiting
  <2> QED
    BY <1>2, <1>4, <1>7, <2>2, <2>3, <2>4 DEF Service, OneReceive, QuietStays
<1>9. CASE handler \in Receiving
  <2>1. open /\ Quiet /\ data_buffer.packet = Len(handed)
    BY <1>1, <1>9
       DEF Service, OneReceive, Quiet, Waiting, Posted, Handled, NonePosted, NoneHandled
  <2>2. Due(handler) = 0
    BY <1>9, DueValues
  <2>3. \A j \in 1..Len(posted') : posted'[j] \in Receiving => j = Len(posted) + 1
    BY <1>3, <1>6, <2>1 DEF Quiet, NonePosted
  <2>4. Len(posted) + 1 \in 1..Len(posted') /\ Len(handed) \in Nat
    BY <1>2, <1>3, <1>6 DEF Service, IoTypeOK
  <2>5. Posted'
    BY <1>2, <1>3, <1>5, <1>9, <2>1, <2>2, <2>3, <2>4 DEF Posted, Quiet
  <2> QED
    BY <1>2, <1>4, <1>7, <1>9, <2>1, <2>5 DEF Service, OneReceive, QuietStays
<1> QED
  BY <1>8, <1>9

\* What a thread in a handler of the receive knows
LEMMA HandledBy ==
  ASSUME Service, NEW t \in Threads, at[t] \in Receiving
  PROVE  /\ open /\ NonePosted /\ pending = 0 /\ ~Quiet /\ ~Fresh
         /\ \A s \in Threads : at[s] \in Receiving => s = t
         /\ data_buffer.packet = Len(handed) + Due(at[t])
BY DEF Service, OneReceive, Quiet, Waiting, Posted, Handled, NoneHandled

LEMMA CompletionKnown ==
  Completion \in Postable /\ Completion \in Receiving /\ Due(Completion) = 1
BY DueValues DEF Completion, Postable, Receiving

LEMMA ReceiveNumbers ==
  ASSUME Service, Receive
  PROVE  data_buffer'.packet = data_buffer.packet + 1
BY DEF Receive

\* handle_data begins the next receive, on an open socket.
LEMMA HandlesData ==
  ASSUME Service, NEW t \in Threads, HandleData(t)
  PROVE  Service' /\ QuietStays
<1>1. /\ at[t] = "handle_data" /\ at' = [at EXCEPT ![t] = "run"] /\ at'[t] = "run"
      /\ \A s \in Threads : s # t => at'[s] = at[s]
      /\ AsyncReceive /\ program' = program /\ stopped' = stopped
      /\ open' = open /\ handed' = handed
  BY DEF HandleData, Goto, Service, IoTypeOK
<1>2. /\ "handle_data" \in Receiving /\ "run" \notin Receiving
      /\ Due("handle_data") = 0 /\ "run" \in Places
  BY DEF Receiving, Due, Places
<1>3. /\ open /\ NonePosted /\ pending = 0 /\ ~Quiet /\ ~Fresh
      /\ \A s \in Threads : at[s] \in Receiving => s = t
      /\ data_buffer.packet = Len(handed) + 0
  BY <1>1, <1>2, HandledBy
<1>4. NoneHandled'
  BY <1>1, <1>2, <1>3 DEF NoneHandled
<1>5. InOrder' /\ ~Fresh'
  BY <1>1, <1>3, FreshGoes DEF HandleData, Service, InOrder
<1>6. /\ handed \in Seq(Nat) /\ Len(handed) \in Nat /\ posted \in Seq(Postable)
      /\ Len(posted) \in Nat
  BY DEF Service, IoTypeOK
<1>7. CASE pending' = pending + 1 /\ UNCHANGED <<posted, data_buffer>>
  <2>1. IoTypeOK'
    BY <1>1, <1>2, <1>3, <1>7 DEF Service, IoTypeOK
  <2>2. Waiting' /\ data_buffer'.packet = Len(handed')
    BY <1>1, <1>3, <1>4, <1>6, <1>7 DEF Waiting, NonePosted
  <2> QED
    BY <1>1, <1>3, <1>5, <2>1, <2>2 DEF Service, OneReceive, QuietStays
<1>8. CASE Receive /\ posted' = Append(posted, Completion) /\ pending' = pending
  <2>1. data_buffer'.packet = Len(handed') + 1
    BY <1>1, <1>3, <1>6, <1>8, ReceiveNumbers
  <2>2. /\ posted' \in Seq(Postable) /\ Len(posted') = Len(posted) + 1
        /\ posted'[Len(posted) + 1] = Completion
        /\ \A k \in 1..Len(posted) : posted'[k] = posted[k]
    BY <1>6, <1>8, CompletionKnown
  <2>3. IoTypeOK'
    BY <1>1, <1>2, <1>3, <1>6, <1>8, <2>1, <2>2 DEF Service, IoTypeOK
  <2>4. \A j \in 1..Len(posted') : posted'[j] \in Receiving => j = Len(posted) + 1
    <3>1. \A j \in 1..Len(posted') : j \in 1..Len(posted) \/ j = Len(posted) + 1
      BY <1>6, <2>2
    <3>2. \A j \in 1..Len(posted) : posted'[j] \notin Receiving
      BY <1>3, <2>2 DEF NonePosted
    <3> QED
      BY <3>1, <3>2
  <2>5. Posted'
    BY <1>3, <1>4, <1>6, <1>8, <2>1, <2>2, <2>4, CompletionKnown DEF Posted
  <2> QED
    BY <1>1, <1>3, <1>5, <2>3, <2>5 DEF Service, OneReceive, QuietStays
<1> QED
  BY <1>1, <1>3, <1>7, <1>8 DEF AsyncReceive

\* A datagram arrives for a receive that waits.
LEMMA Completes ==
  ASSUME Service, NEW t \in Threads, ReceiveCompletes(t)
  PROVE  Service' /\ QuietStays
<1>1. /\ at[t] = "run" /\ at' = [at EXCEPT ![t] = Completion] /\ at'[t] = Completion
      /\ \A s \in Threads : s # t => at'[s] = at[s]
      /\ pending > 0 /\ pending' = pending - 1 /\ Receive
      /\ program' = program /\ posted' = posted /\ stopped' = stopped
      /\ open' = open /\ handed' = handed
  BY DEF ReceiveCompletes, Goto, Service, IoTypeOK
<1>2. /\ open /\ NonePosted /\ NoneHandled /\ pending = 1 /\ ~Quiet
      /\ ~Fresh /\ data_buffer.packet = Len(handed)
  BY <1>1 DEF Service, OneReceive, Quiet, Waiting, Posted, Handled
<1>3. data_buffer'.packet = Len(handed') + 1
  BY <1>1, <1>2, ReceiveNumbers
<1>4. /\ Completion \in Receiving /\ Completion \in Places /\ Completion \notin {"start", "post"}
      /\ Due(Completion) = 1
  BY CompletionKnown, PostableKnown
<1>5. IoTypeOK' /\ InOrder'
  BY <1>1, <1>2, <1>3, <1>4 DEF Service, IoTypeOK, InOrder
<1>6. \A s \in Threads : at'[s] \in Receiving => s = t
  BY <1>1, <1>2 DEF NoneHandled
<1>7. Handled'
  BY <1>1, <1>2, <1>3, <1>4, <1>6 DEF Handled, NonePosted
<1>8. ~Fresh'
  BY <1>1, <1>2, <1>4, FreshGoes DEF ReceiveCompletes, Service
<1> QED
  BY <1>1, <1>2, <1>5, <1>7, <1>8 DEF Service, OneReceive, QuietStays

\* The first handler posted is begun, by any thread.
LEMMA Dispatches ==
  ASSUME Service, NEW t \in Threads, Dispatch(t)
  PROVE  /\ Service' /\ QuietStays
         /\ Len(posted) > 0 /\ posted[1] \in Postable
         /\ at[t] = "run" /\ at' = [at EXCEPT ![t] = posted[1]] /\ ~stopped
         /\ Len(posted') = Len(posted) - 1
         /\ \A k \in 1..Len(posted') : posted'[k] = posted[k + 1]
<1>1. /\ posted \in Seq(Postable) /\ posted # <<>> /\ posted' = Tail(posted)
      /\ at[t] = "run" /\ at' = [at EXCEPT ![t] = Head(posted)] /\ ~stopped
      /\ program' = program /\ pending' = pending /\ stopped' = stopped
      /\ open' = open /\ data_buffer' = data_buffer /\ handed' = handed
  BY DEF Dispatch, Goto, Service, IoTypeOK
<1>2. /\ Len(posted) \in Nat /\ Len(posted) > 0 /\ Head(posted) = posted[1]
      /\ posted[1] \in Postable
      /\ posted' \in Seq(Postable) /\ Len(posted') = Len(posted) - 1
      /\ \A k \in 1..Len(posted') : posted'[k] = posted[k + 1]
  BY <1>1
<1>3. /\ at'[t] = posted[1] /\ \A s \in Threads : s # t => at'[s] = at[s]
  BY <1>1, <1>2 DEF Service, IoTypeOK
<1>4. posted[1] \in Places /\ posted[1] \notin {"start", "post"} /\ "run" \notin Receiving
  BY <1>2, PostableKnown DEF Receiving
<1>5. IoTypeOK' /\ InOrder'
  BY <1>1, <1>2, <1>4 DEF Service, IoTypeOK, InOrder
<1>6. \A k \in 1..Len(posted') : k + 1 \in 1..Len(posted) /\ k + 1 # 1
  BY <1>2
<1>7. Fresh' => Fresh
  <2>1. Goto(t, "run", posted[1])
    BY <1>2 DEF Dispatch
  <2> QED
    BY <1>1, <1>4, <2>1, FreshGoes DEF Service
<1>8. 1 \in 1..Len(posted)
  BY <1>2
<1>9. CASE NonePosted
  <2>1. NonePosted' /\ posted[1] \notin Receiving
    BY <1>2, <1>6, <1>8, <1>9 DEF NonePosted
  <2>2. NoneHandled => NoneHandled'
    BY <1>3, <2>1 DEF NoneHandled
  <2>3. Handled => Handled'
    <3>1. \A s \in Threads :
            /\ at[s] \in Receiving <=> at'[s] \in Receiving
            /\ at[s] \in Receiving => at'[s] = at[s]
      BY <1>1, <1>3, <1>4, <2>1
    <3> QED
      BY <1>1, <2>1, <3>1 DEF Handled
  <2>4. (Quiet => Quiet') /\ (Waiting => Waiting')
    BY <1>1, <2>1, <2>2 DEF Quiet, Waiting
  <2>5. ~Posted
    BY <1>9 DEF Posted, NonePosted
  <2>6. OneReceive'
    BY <1>1, <1>7, <2>3, <2>4, <2>5 DEF Service, OneReceive
  <2> QED
    BY <1>1, <1>2, <1>5, <2>4, <2>6 DEF Service, QuietStays
<1>10. CASE ~NonePosted
  <2>1. Posted /\ open /\ ~Fresh /\ ~Quiet
    BY <1>10 DEF Service, OneReceive, Quiet, Waiting, Handled
  <2>2. PICK k \in 1..Len(posted) :
          /\ posted[k] \in Receiving
          /\ \A j \in 1..Len(posted) : posted[j] \in Receiving => j = k
          /\ data_buffer.packet = Len(handed) + Due(posted[k])
    BY <2>1 DEF Posted
  <2>3. CASE k = 1
    <3>1. NonePosted'
      BY <1>2, <1>6, <2>2, <2>3 DEF NonePosted
    <3>2. /\ at'[t] \in Receiving
          /\ \A s \in Threads : at'[s] \in Receiving => s = t
      BY <1>3, <2>1, <2>2, <2>3 DEF Posted, NoneHandled
    <3>3. Handled'
      BY <1>1, <1>3, <2>1, <2>2, <2>3, <3>1, <3>2 DEF Handled, Posted
    <3> QED
      BY <1>1, <1>2, <1>5, <1>7, <2>1, <3>3 DEF Service, OneReceive, QuietStays
  <2>4. CASE k # 1
    <3>1. posted[1] \notin Receiving
      BY <1>8, <2>2, <2>4
    <3>2. NoneHandled'
      BY <1>3, <2>1, <3>1 DEF Posted, NoneHandled
    <3>3. k - 1 \in 1..Len(posted') /\ posted'[k - 1] = posted[k]
      BY <1>2, <2>2, <2>4
    <3>4. \A j \in 1..Len(posted') : posted'[j] \in Receiving => j = k - 1
      BY <1>2, <1>6, <2>2, SMTT(30)
    <3>5. Posted'
      BY <1>1, <2>1, <2>2, <3>2, <3>3, <3>4 DEF Posted
    <3> QED
      BY <1>1, <1>2, <1>5, <1>7, <2>1, <3>5 DEF Service, OneReceive, QuietStays
  <2> QED
    BY <2>3, <2>4
<1> QED
  BY <1>9, <1>10

\* The handler that closes the socket starts no receive: none is left.
LEMMA Closes ==
  ASSUME Service, NEW t \in Threads, Goto(t, "check", "run"), Close,
         UNCHANGED <<program, stopped, data_buffer, handed>>
  PROVE  Service' /\ QuietStays
<1>1. /\ at[t] = "check" /\ at' = [at EXCEPT ![t] = "run"] /\ at'[t] = "run"
      /\ \A s \in Threads : s # t => at'[s] = at[s]
  BY DEF Goto, Service, IoTypeOK
<1>2. /\ "check" \in Receiving /\ "run" \notin Receiving /\ Due("check") = 0
      /\ "run" \in Places
  BY DEF Receiving, Due, Places
<1>3. /\ NonePosted /\ pending = 0 /\ ~Fresh
      /\ \A s \in Threads : at[s] \in Receiving => s = t
      /\ data_buffer.packet = Len(handed) + 0
  BY <1>1, <1>2, HandledBy
<1>4. /\ posted' = posted /\ pending' = 0 /\ open' = FALSE
  <2>1. posted' = posted \o [i \in 1..0 |-> Completion]
    BY <1>3 DEF Close
  <2>2. [i \in 1..0 |-> Completion] = <<>>
    OBVIOUS
  <2>3. posted \o <<>> = posted
    BY ConcatEmptySeq DEF Service, IoTypeOK
  <2> QED
    BY <2>1, <2>2, <2>3 DEF Close
<1>5. IoTypeOK' /\ InOrder'
  BY <1>1, <1>2, <1>4 DEF Service, IoTypeOK, InOrder
<1>6. Quiet'
  BY <1>1, <1>2, <1>3, <1>4 DEF Quiet, NonePosted, NoneHandled
<1>7. data_buffer'.packet = Len(handed')
  BY <1>3 DEF Service, IoTypeOK
<1>8. ~Fresh'
  BY <1>3, FreshGoes DEF Service
<1> QED
  BY <1>5, <1>6, <1>7, <1>8 DEF Service, OneReceive, QuietStays

-----------------------------------------------------------------------------
(* The programs *)

\* A step of one program leaves what is said of the others.
LEMMA NotLockfree ==
  ASSUME Lockfree, program # "buf-lockfree", program' = program, done' = done
  PROVE  Lockfree'
BY DEF Lockfree

LEMMA NotSync ==
  ASSUME program # "buf-sync", program' = program
  PROVE  Sync'
BY DEF Sync

LEMMA NotServer ==
  ASSUME Server, program # "buf-server", program' = program, destroyed' = destroyed
  PROVE  Server'
BY DEF Server

\* The steps of each program do to the service what the lemmas above allow.
LEMMA MoodyService ==
  ASSUME Service, program = "buf-moody", NEW t \in Threads,
         MoodyStep(t) \/ MoodyMain
  PROVE  Service' /\ program' = program
<1> DEFINE Good == Service' /\ program' = program
<1>1. stopped \in BOOLEAN /\ Main \in Threads
  BY DEF Service, IoTypeOK, Threads
<1>2. MoodyMain => Good
  <2>1. Post("start", "handle_data", "post") => Good
    BY Posts DEF Postable, Places, Receiving, Post, Goto, Fresh
  <2>2. Post("post", "read_data", "poll") => Good
    BY Posts DEF Postable, Places, Receiving, Post, Goto, Fresh
  <2>3. Stop(Main, "poll", "join") => Good
    BY <1>1, Moves DEF Stop, Places, Receiving
  <2>4. Join("returned") => Good
    BY <1>1, Moves DEF Join, Proceed, Postable, Places, Receiving
  <2> QED
    BY <2>1, <2>2, <2>3, <2>4 DEF MoodyMain
<1>3. HandleData(t) => Good
  BY HandlesData DEF HandleData
<1>4. MoodyEnqueue(t) => Good
  BY Hands DEF MoodyEnqueue, Places, Receiving, Due
<1>5. MoodySignal(t) => Good
  BY <1>1, Moves DEF MoodySignal, Proceed, Postable, Places, Receiving, Due
<1>6. MoodyCheck(t) => Good
  <2>1. Proceed(t, "check", "handle_data") => Good
    BY <1>1, Moves DEF Proceed, Postable, Places, Receiving, Due
  <2>2. /\ Goto(t, "check", "run") /\ Close
        /\ UNCHANGED <<program, stopped, data_buffer, handed>>
        => Good
    BY Closes
  <2> QED
    BY <2>1, <2>2 DEF MoodyCheck
<1>7. MoodyPeek(t) => Good
  BY <1>1, Moves DEF MoodyPeek, Proceed, Postable, Places, Receiving
<1>8. MoodyDequeue(t) => Good
  BY <1>1, Moves DEF MoodyDequeue, Proceed, Postable, Places, Receiving
<1>9. MoodyCount(t) => Good
  BY <1>1, Moves DEF MoodyCount, Proceed, Postable, Places, Receiving
<1> QED
  BY <1>2, <1>3, <1>4, <1>5, <1>6, <1>7, <1>8, <1>9 DEF MoodyStep

LEMMA MoodyKeeps ==
  ASSUME IInv, program = "buf-moody", NEW t \in Threads,
         MoodyStep(t) \/ MoodyMain,
         UNCHANGED <<lockfreeVars, syncVars, serverVars>>
  PROVE  IInv'
<1>1. Service' /\ program' = program /\ done' = done /\ destroyed' = destroyed
  BY MoodyService DEF IInv, lockfreeVars, serverVars
<1> QED
  BY <1>1, NotLockfree, NotSync, NotServer DEF IInv

-----------------------------------------------------------------------------
(* buf-lockfree *)

\* A handler's thread is not main, and goes on alone.
HandlerStep(t) ==
  /\ at[t] \notin {"start", "post", "poll", "loop", "join", "joined", "returned", "left"}
  /\ \A s \in Threads : s # t => at'[s] = at[s]

LEMMA GoesAlone ==
  ASSUME IoTypeOK, NEW t \in Threads, NEW from, NEW to, Goto(t, from, to),
         from \notin {"start", "post", "poll", "loop", "join", "joined", "returned", "left"}
  PROVE  HandlerStep(t)
BY DEF IoTypeOK, Goto, HandlerStep

LEMMA LockfreeService ==
  ASSUME Service, program = "buf-lockfree", NEW t \in Threads,
         LockfreeStep(t) \/ LockfreeMain
  PROVE  Service' /\ program' = program
<1> DEFINE Good == Service' /\ program' = program
<1>1. stopped \in BOOLEAN /\ Main \in Threads
  BY DEF Service, IoTypeOK, Threads
<1>2. LockfreeMain => Good
  <2>1. Post("start", "handle_data", "post") => Good
    BY Posts DEF Postable, Places, Receiving, Post, Goto, Fresh
  <2>2. Post("post", "read_data", "poll") => Good
    BY Posts DEF Postable, Places, Receiving, Post, Goto, Fresh
  <2>3. Stop(Main, "poll", "join") => Good
    BY <1>1, Moves DEF Stop, Places, Receiving
  <2>4. Join("joined") => Good
    BY <1>1, Moves DEF Join, Proceed, Places, Receiving
  <2>5. Proceed(Main, "joined", "returned") => Good
    BY <1>1, Moves DEF Proceed, Places, Receiving
  <2> QED
    BY <2>1, <2>2, <2>3, <2>4, <2>5 DEF LockfreeMain
<1>3. HandleData(t) => Good
  BY HandlesData DEF HandleData
<1>4. LockfreeProduce(t) => Good
  BY <1>1, Moves DEF LockfreeProduce, Proceed, Postable, Places, Receiving, Due
<1>5. LockfreePush(t) => Good
  BY Hands DEF LockfreePush, Places, Receiving, Due
<1>6. LockfreeCheck(t) => Good
  <2>1. Proceed(t, "check", "handle_data") => Good
    BY <1>1, Moves DEF Proceed, Postable, Places, Receiving, Due
  <2>2. /\ Goto(t, "check", "run") /\ Close
        /\ UNCHANGED <<program, stopped, data_buffer, handed>>
        => Good
    BY Closes
  <2> QED
    BY <2>1, <2>2 DEF LockfreeCheck
<1>7. LockfreePop(t) => Good
  BY <1>1, Moves DEF LockfreePop, Proceed, Postable, Places, Receiving
<1>8. LockfreeConsume(t) => Good
  BY <1>1, Moves DEF LockfreeConsume, Proceed, Postable, Places, Receiving
<1> QED
  BY <1>2, <1>3, <1>4, <1>5, <1>6, <1>7, <1>8 DEF LockfreeStep

LEMMA LockfreeHandler ==
  ASSUME IoTypeOK, NEW t \in Threads, LockfreeStep(t)
  PROVE  HandlerStep(t) /\ done' = done /\ (done \/ open' = open)
<1> DEFINE Good == HandlerStep(t) /\ done' = done /\ (done \/ open' = open)
<1>1. HandleData(t) /\ UNCHANGED lockfreeVars => Good
  BY GoesAlone DEF HandleData, lockfreeVars
<1>2. LockfreeProduce(t) => Good
  BY GoesAlone DEF LockfreeProduce, Proceed
<1>3. LockfreePush(t) => Good
  BY GoesAlone DEF LockfreePush
<1>4. LockfreeCheck(t) => Good
  BY GoesAlone DEF LockfreeCheck, Proceed, lockfreeVars
<1>5. LockfreePop(t) => Good
  BY GoesAlone DEF LockfreePop, Proceed
<1>6. LockfreeConsume(t) => Good
  BY GoesAlone DEF LockfreeConsume, Proceed
<1> QED
  BY <1>1, <1>2, <1>3, <1>4, <1>5, <1>6 DEF LockfreeStep

LEMMA LockfreeKeeps ==
  ASSUME IInv, program = "buf-lockfree", NEW t \in Threads,
         LockfreeStep(t) \/ LockfreeMain,
         UNCHANGED <<moodyVars, syncVars, serverVars>>
  PROVE  IInv'
<1>1. Service' /\ program' = program /\ destroyed' = destroyed
  BY LockfreeService DEF IInv, serverVars
<1>2. /\ IoTypeOK /\ Main \in Threads /\ Threads = Workers \cup {Main}
      /\ Main \notin Workers
  BY IoAssumption DEF IoAssumption, IInv, Service, Threads
<1>3. /\ open
      /\ done => at[Main] = "returned"
      /\ at[Main] \in {"start", "post", "poll", "join", "joined", "returned"}
      /\ at[Main] \in {"joined", "returned"} => WorkersLeft
  BY DEF IInv, Lockfree
<1>4. CASE LockfreeStep(t)
  <2>1. HandlerStep(t) /\ done' = done /\ (done \/ open' = open)
    BY <1>2, <1>4, LockfreeHandler
  <2>2. t \in Workers /\ ~WorkersLeft
    BY <1>2, <1>3, <2>1 DEF HandlerStep, WorkersLeft
  <2>3. at'[Main] = at[Main] /\ open' = open
    BY <1>2, <1>3, <2>1, <2>2 DEF HandlerStep
  <2> QED
    BY <1>1, <1>3, <2>1, <2>2, <2>3, NotSync, NotServer DEF IInv, Lockfree
<1>5. CASE LockfreeMain
  <2>1. \A w \in Workers : at'[w] = at[w]
    BY <1>2, <1>5 DEF LockfreeMain, Post, Stop, Join, Proceed, Goto, IoTypeOK
  <2>2. /\ open' = open
        /\ at'[Main] \in {"post", "poll", "join", "joined", "returned"}
        /\ at'[Main] \in {"joined", "returned"} => WorkersLeft
        /\ done' => at'[Main] = "returned"
    <3>1. CASE Proceed(Main, "joined", "returned")
      BY <1>2, <1>3, <3>1 DEF Proceed, Goto, IoTypeOK
    <3>2. CASE Join("joined") /\ UNCHANGED lockfreeVars
      BY <1>2, <1>3, <3>2 DEF Join, Proceed, Goto, IoTypeOK, WorkersLeft, lockfreeVars
    <3>3. CASE /\ \/ Post("start", "handle_data", "post")
                  \/ Post("post", "read_data", "poll")
                  \/ Stop(Main, "poll", "join")
               /\ UNCHANGED lockfreeVars
      BY <1>2, <1>3, <3>3 DEF Post, Stop, Goto, IoTypeOK, lockfreeVars
    <3> QED
      BY <1>5, <3>1, <3>2, <3>3 DEF LockfreeMain
  <2> QED
    BY <1>1, <2>1, <2>2, NotSync, NotServer DEF IInv, Lockfree, WorkersLeft
<1> QED
  BY <1>4, <1>5

-----------------------------------------------------------------------------
(* buf-sync *)

LEMMA SyncService ==
  ASSUME Service, program = "buf-sync", NEW t \in Threads,
         SyncStep(t) \/ SyncMain
  PROVE  Service' /\ program' = program
<1> DEFINE Good == Service' /\ program' = program
<1>1. stopped \in BOOLEAN /\ Main \in Threads
  BY DEF Service, IoTypeOK, Threads
<1>2. SyncMain => Good
  <2>1. Post("start", "client_reader", "post") => Good
    BY Posts DEF Postable, Places, Receiving, Post, Goto, Fresh
  <2>2. Post("post", "handle_data", "loop") => Good
    BY Posts DEF Postable, Places, Receiving, Post, Goto, Fresh
  <2>3. Post("loop", "client_writer", "loop") => Good
    BY Posts DEF Postable, Places, Receiving, Post, Goto, Fresh
  <2>4. Stop(Main, "loop", "join") => Good
    BY <1>1, Moves DEF Stop, Places, Receiving
  <2>5. Join("returned") => Good
    BY <1>1, Moves DEF Join, Proceed, Places, Receiving
  <2> QED
    BY <2>1, <2>2, <2>3, <2>4, <2>5 DEF SyncMain
<1>3. HandleData(t) => Good
  BY HandlesData DEF HandleData
<1>4. SyncReceive(t) => Good
  BY Hands DEF SyncReceive, Postable, Places, Receiving, Due
<1>5. SyncWrite(t) => Good
  BY <1>1, Moves DEF SyncWrite, Proceed, Postable, Places, Receiving
<1>6. SyncRead(t) => Good
  BY <1>1, Moves DEF SyncRead, Proceed, Postable, Places, Receiving
<1> QED
  BY <1>2, <1>3, <1>4, <1>5, <1>6 DEF SyncStep

LEMMA SyncHandler ==
  ASSUME IoTypeOK, NEW t \in Threads, SyncStep(t)
  PROVE  /\ HandlerStep(t)
         /\ posted' = posted \/ posted' = Append(posted, Completion)
         /\ at[t] = "client_reader" => at'[t] = "client_reader"
<1> DEFINE Good == /\ HandlerStep(t)
                   /\ posted' = posted \/ posted' = Append(posted, Completion)
                   /\ at[t] = "client_reader" => at'[t] = "client_reader"
<1>1. HandleData(t) => Good
  BY GoesAlone DEF HandleData, AsyncReceive, Goto
<1>2. SyncReceive(t) => Good
  BY GoesAlone DEF SyncReceive, Goto
<1>3. SyncWrite(t) => Good
  BY GoesAlone DEF SyncWrite, Proceed, Goto
<1>4. SyncRead(t) => Good
  BY GoesAlone DEF SyncRead, Proceed, Goto, IoTypeOK
<1> QED
  BY <1>1, <1>2, <1>3, <1>4 DEF SyncStep

\* Posting another handler does not take client_reader back.
LEMMA ReaderPostedStays ==
  ASSUME IoTypeOK, NEW handler \in Postable,
         posted' = posted \/ posted' = Append(posted, handler)
  PROVE  /\ ReaderPosted => ReaderPosted'
         /\ posted' = Append(posted, "client_reader") => ReaderPosted'
<1>1. posted \in Seq(Postable) /\ Len(posted) \in Nat
  BY DEF IoTypeOK
<1>2. CASE posted' = posted
  <2>1. posted # Append(posted, "client_reader")
    <3>1. Len(Append(posted, "client_reader")) = Len(posted) + 1
      BY <1>1
    <3> QED
      BY <1>1, <3>1
  <2> QED
    BY <1>2, <2>1 DEF ReaderPosted
<1>3. CASE posted' = Append(posted, handler)
  <2>1. /\ Len(posted') = Len(posted) + 1 /\ posted'[Len(posted) + 1] = handler
        /\ \A k \in 1..Len(posted) : posted'[k] = posted[k] /\ k \in 1..Len(posted')
        /\ Len(posted) + 1 \in 1..Len(posted')
    BY <1>1, <1>3
  <2>2. posted' = Append(posted, "client_reader") => handler = "client_reader"
    <3>1. Append(posted, "client_reader")[Len(posted) + 1] = "client_reader"
      BY <1>1
    <3> QED
      BY <2>1, <3>1
  <2> QED
    BY <2>1, <2>2 DEF ReaderPosted
<1> QED
  BY <1>2, <1>3

LEMMA SyncKeeps ==
  ASSUME IInv, program = "buf-sync", NEW t \in Threads,
         SyncStep(t) \/ (t = Main /\ SyncMain),
         UNCHANGED <<moodyVars, lockfreeVars, serverVars>>
  PROVE  IInv'
<1>1. Service' /\ program' = program /\ done' = done /\ destroyed' = destroyed
  BY SyncService DEF IInv, lockfreeVars, serverVars
<1>2. /\ IoTypeOK /\ Main \in Threads /\ Threads = Workers \cup {Main}
      /\ Main \notin Workers
  BY IoAssumption DEF IoAssumption, IInv, Service, Threads
<1>3. /\ at[Main] \in {"start", "post", "loop", "join", "returned"}
      /\ at[Main] # "start" => ReaderPosted \/ ReaderRuns
      /\ at[Main] = "returned" => WorkersLeft
  BY DEF IInv, Sync
<1>4. CASE SyncStep(t)
  <2>1. /\ HandlerStep(t)
        /\ posted' = posted \/ posted' = Append(posted, Completion)
        /\ at[t] = "client_reader" => at'[t] = "client_reader"
    BY <1>2, <1>4, SyncHandler
  <2>2. t \in Workers /\ ~WorkersLeft
    BY <1>2, <1>3, <2>1 DEF HandlerStep, WorkersLeft
  <2>3. at'[Main] = at[Main]
    BY <1>2, <2>1, <2>2 DEF HandlerStep
  <2>4. ReaderPosted => ReaderPosted'
    BY <1>2, <2>1, ReaderPostedStays, CompletionKnown
  <2>5. ReaderRuns => ReaderRuns'
    BY <1>2, <2>1 DEF ReaderRuns, HandlerStep
  <2> QED
    BY <1>1, <1>3, <2>2, <2>3, <2>4, <2>5, NotLockfree, NotServer DEF IInv, Sync
<1>5. CASE SyncMain
  <2>1. \A w \in Workers : at'[w] = at[w]
    BY <1>2, <1>5 DEF SyncMain, Post, Stop, Join, Proceed, Goto, IoTypeOK
  <2>2. ReaderRuns => ReaderRuns'
    BY <2>1 DEF ReaderRuns
  <2>3. CASE Post("start", "client_reader", "post")
    <3>1. ReaderPosted'
      BY <1>2, <2>3, ReaderPostedStays DEF Post, Postable
    <3>2. at'[Main] = "post"
      BY <1>2, <2>3 DEF Post, Goto, IoTypeOK
    <3> QED
      BY <1>1, <3>1, <3>2, NotLockfree, NotServer DEF IInv, Sync
  <2>4. CASE Post("post", "handle_data", "loop") \/ Post("loop", "client_writer", "loop")
    <3>1. ReaderPosted => ReaderPosted'
      BY <1>2, <2>4, ReaderPostedStays DEF Post, Postable
    <3>2. at'[Main] = "loop" /\ at[Main] # "start"
      BY <1>2, <2>4 DEF Post, Goto, IoTypeOK
    <3> QED
      BY <1>1, <1>3, <2>2, <3>1, <3>2, NotLockfree, NotServer DEF IInv, Sync
  <2>5. CASE Stop(Main, "loop", "join")
    <3>1. posted' = posted /\ at'[Main] = "join" /\ at[Main] # "start"
      BY <1>2, <2>5 DEF Stop, Goto, IoTypeOK
    <3> QED
      BY <1>1, <1>3, <2>2, <3>1, NotLockfree, NotServer DEF IInv, Sync, ReaderPosted
  <2>6. CASE Join("returned")
    <3>1. posted' = posted /\ at'[Main] = "returned" /\ at[Main] # "start" /\ WorkersLeft
      BY <1>2, <2>6 DEF Join, Proceed, Goto, IoTypeOK, WorkersLeft
    <3>2. WorkersLeft'
      BY <2>1, <3>1 DEF WorkersLeft
    <3> QED
      BY <1>1, <1>3, <2>2, <3>1, <3>2, NotLockfree, NotServer DEF IInv, Sync, ReaderPosted
  <2> QED
    BY <1>5, <2>3, <2>4, <2>5, <2>6 DEF SyncMain
<1> QED
  BY <1>4, <1>5

-----------------------------------------------------------------------------
(* buf-server *)

LEMMA ServerMoves ==
  ASSUME IoTypeOK, Server, QuietStays, program = "buf-server",
         NEW t \in Threads, NEW from, NEW to, Goto(t, from, to),
         from \notin {"end", "left", "returned"}, to \notin {"start", "end", "returned"},
         to = "left" => stopped,
         program' = program, stopped' = stopped, destroyed' = destroyed
  PROVE  Server'
<1>1. /\ Main \in Threads /\ at[t] = from /\ at'[t] = to
      /\ \A s \in Threads : s # t => at'[s] = at[s]
  BY DEF IoTypeOK, Goto, Threads
<1>2. \A s \in Threads : at'[s] = "end" => at[s] = "end"
  BY <1>1
<1>3. at'[Main] = "start" => at[Main] = "start"
  BY <1>1
<1>4. at[Main] # "start" => ~Fresh
  BY DEF Fresh
<1>5. (stopped \/ \E s \in Threads : at[s] = "end") => Quiet' /\ at'[Main] # "start"
  BY <1>3, <1>4 DEF Server, QuietStays
<1>6. at'[Main] \in {"left", "returned"} => stopped
  BY <1>1 DEF Server
<1>7. destroyed => at'[Main] = "returned"
  BY <1>1 DEF Server
<1>8. /\ \A u, v \in Threads : at[u] = "end" /\ at[v] = "end" => u = v
      /\ stopped => \A u \in Threads : at[u] # "end"
  BY DEF Server
<1>9. /\ \A u, v \in Threads : at'[u] = "end" /\ at'[v] = "end" => u = v
      /\ stopped => \A u \in Threads : at'[u] # "end"
  BY <1>2, <1>8
<1> QED
  BY <1>2, <1>5, <1>6, <1>7, <1>9 DEF Server

LEMMA ServerKeepsServer ==
  ASSUME IInv, program = "buf-server", NEW t \in Threads,
         ServerStep(t) \/ ServerMain
  PROVE  Service' /\ Server' /\ program' = program
<1> DEFINE Good == Service' /\ Server' /\ program' = program
<1>1. Service /\ IoTypeOK /\ Server /\ stopped \in BOOLEAN /\ Main \in Threads
  BY DEF IInv, Service, IoTypeOK, Threads
<1>2. CASE HandleData(t) /\ UNCHANGED serverVars
  <2>1. /\ Goto(t, "handle_data", "run") /\ program' = program
        /\ stopped' = stopped /\ destroyed' = destroyed
    BY <1>2 DEF HandleData, serverVars
  <2>2. Service' /\ QuietStays
    BY <1>1, <1>2, HandlesData
  <2> QED
    BY <1>1, <2>1, <2>2, ServerMoves
<1>3. CASE ServerDecode(t)
  <2>1. /\ Goto(t, "decode_data", "decoded") /\ program' = program
        /\ stopped' = stopped /\ destroyed' = destroyed
    BY <1>3 DEF ServerDecode, serverVars
  <2>2. Service' /\ QuietStays
    BY <1>1, <1>3, Hands DEF ServerDecode, Places, Receiving, Due
  <2> QED
    BY <1>1, <2>1, <2>2, ServerMoves
<1>4. CASE ServerCount(t)
  <2>1. /\ program' = program /\ stopped' = stopped /\ destroyed' = destroyed
        /\ posted' = posted /\ pending' = pending
    BY <1>4 DEF ServerCount, Proceed
  <2>2. CASE Proceed(t, "decoded", "handle_data")
    <3>1. Goto(t, "decoded", "handle_data")
      BY <2>2 DEF Proceed
    <3>2. Service' /\ QuietStays
      BY <1>1, <2>2, Moves DEF Proceed, Postable, Places, Receiving, Due
    <3> QED
      BY <1>1, <2>1, <3>1, <3>2, ServerMoves
  <2>3. CASE Proceed(t, "decoded", "end")
    <3>1. Service'
      BY <1>1, <2>3, Moves DEF Proceed, Places, Receiving, Due
    <3>2. /\ at[t] = "decoded" /\ at'[t] = "end"
          /\ \A s \in Threads : s # t => at'[s] = at[s]
      BY <1>1, <2>3 DEF Proceed, Goto, IoTypeOK
    <3>3. "decoded" \in Receiving /\ "end" \notin Receiving
      BY DEF Receiving
    <3>4. /\ NonePosted /\ pending = 0 /\ ~Quiet /\ ~Fresh
          /\ \A s \in Threads : at[s] \in Receiving => s = t
      BY <1>1, <3>2, <3>3, HandledBy
    <3>5. Quiet'
      BY <2>1, <3>2, <3>3, <3>4 DEF Quiet, NonePosted, NoneHandled
    <3>6. ~stopped /\ \A s \in Threads : at[s] # "end"
      BY <1>1, <3>4 DEF Server
    <3>7. /\ at[Main] \notin {"start", "left", "returned"} /\ ~destroyed
          /\ at'[Main] \notin {"start", "left", "returned"}
      BY <1>1, <3>2, <3>4, <3>6 DEF Server, Fresh
    <3> QED
      BY <2>1, <3>1, <3>2, <3>5, <3>6, <3>7 DEF Server
  <2> QED
    BY <1>4, <2>2, <2>3 DEF ServerCount
<1>5. CASE ServerEnd(t)
  <2>1. /\ program' = program /\ stopped' = TRUE /\ destroyed' = destroyed
    BY <1>5 DEF ServerEnd, Stop, serverVars
  <2>2. Service' /\ QuietStays
    BY <1>1, <1>5, Moves DEF ServerEnd, Stop, Places, Receiving
  <2>3. /\ at[t] = "end" /\ at'[t] = "run"
        /\ \A s \in Threads : s # t => at'[s] = at[s]
    BY <1>1, <1>5 DEF ServerEnd, Stop, Goto, IoTypeOK
  <2>4. at[Main] # "start" /\ at'[Main] # "start" /\ Quiet'
    BY <1>1, <2>2, <2>3 DEF Server, QuietStays, Fresh
  <2>5. \A s \in Threads : at'[s] # "end"
    BY <1>1, <2>3 DEF Server
  <2>6. destroyed => at'[Main] = "returned"
    BY <1>1, <2>3 DEF Server
  <2> QED
    BY <2>1, <2>2, <2>4, <2>5, <2>6 DEF Server
<1>6. CASE Post("start", "handle_data", "run") /\ UNCHANGED serverVars
  <2>1. /\ Goto(Main, "start", "run") /\ program' = program
        /\ stopped' = stopped /\ destroyed' = destroyed
    BY <1>6 DEF Post, serverVars
  <2>2. Service' /\ QuietStays
    BY <1>1, <1>6, Posts DEF Postable, Places, Receiving, Post, Goto, Fresh
  <2> QED
    BY <1>1, <2>1, <2>2, ServerMoves
<1>7. CASE Proceed(Main, "left", "returned")
  <2>1. Service' /\ QuietStays
    BY <1>1, <1>7, Moves DEF Proceed, Places, Receiving
  <2>2. /\ at[Main] = "left" /\ at'[Main] = "returned" /\ stopped
        /\ \A s \in Threads : s # Main => at'[s] = at[s]
        /\ program' = program /\ stopped' = stopped
    BY <1>1, <1>7 DEF Proceed, Goto, IoTypeOK, Server
  <2>3. Quiet' /\ \A s \in Threads : at'[s] # "end"
    BY <1>1, <2>1, <2>2 DEF Server, QuietStays, Fresh
  <2> QED
    BY <2>1, <2>2, <2>3 DEF Server
<1> QED
  BY <1>2, <1>3, <1>4, <1>5, <1>6, <1>7 DEF ServerStep, ServerMain

LEMMA ServerKeeps ==
  ASSUME IInv, program = "buf-server", NEW t \in Threads,
         ServerStep(t) \/ ServerMain,
         UNCHANGED <<moodyVars, lockfreeVars, syncVars>>
  PROVE  IInv'
<1>1. Service' /\ Server' /\ program' = program
  BY ServerKeepsServer
<1>2. done' = done
  BY DEF lockfreeVars
<1> QED
  BY <1>1, <1>2, NotLockfree, NotSync DEF IInv

-----------------------------------------------------------------------------
(* Threads that begin a handler or leave run() *)

LEMMA RunMoves ==
  ASSUME IoTypeOK, NEW t \in Threads, NEW to, Goto(t, "run", to)
  PROVE  /\ HandlerStep(t) /\ at[t] = "run" /\ at'[t] = to
BY GoesAlone DEF Goto, IoTypeOK

LEMMA RunKeepsLockfree ==
  ASSUME Lockfree, IoTypeOK, NEW t \in Threads, HandlerStep(t),
         program' = program, open' = open, done' = done
  PROVE  Lockfree'
<1>1. CASE program # "buf-lockfree"
  BY <1>1, NotLockfree
<1>2. CASE program = "buf-lockfree"
  <2>1. t \in Workers /\ Main \notin Workers /\ ~WorkersLeft
    BY <1>2, IoAssumption DEF IoAssumption, Threads, Lockfree, HandlerStep, WorkersLeft
  <2>2. at'[Main] = at[Main]
    BY <2>1 DEF HandlerStep, Threads
  <2> QED
    BY <1>2, <2>1, <2>2 DEF Lockfree
<1> QED
  BY <1>1, <1>2

\* Whether client_reader is begun or stays posted
LEMMA RunKeepsSync ==
  ASSUME Sync, IoTypeOK, NEW t \in Threads, HandlerStep(t), program' = program,
         at[t] # "client_reader",
         \/ posted' = posted
         \/ \A k \in 1..Len(posted) :
              at'[t] = posted[k] \/ \E j \in 1..Len(posted') : posted'[j] = posted[k]
  PROVE  Sync'
<1>1. CASE program # "buf-sync"
  BY <1>1, NotSync
<1>2. CASE program = "buf-sync"
  <2>1. t \in Workers /\ Main \notin Workers /\ ~WorkersLeft
    BY <1>2, IoAssumption DEF IoAssumption, Threads, Sync, HandlerStep, WorkersLeft
  <2>2. at'[Main] = at[Main]
    BY <2>1 DEF HandlerStep, Threads
  <2>3. ReaderRuns => ReaderRuns'
    BY DEF ReaderRuns, HandlerStep, Threads
  <2>4. ReaderPosted => ReaderPosted' \/ ReaderRuns'
    BY <2>1 DEF ReaderPosted, ReaderRuns
  <2> QED
    BY <1>2, <2>1, <2>2, <2>3, <2>4 DEF Sync
<1> QED
  BY <1>1, <1>2

LEMMA DispatchKeeps ==
  ASSUME IInv, NEW t \in Threads, Dispatch(t), done' = done, destroyed' = destroyed
  PROVE  IInv'
<1>1. Service /\ IoTypeOK /\ Lockfree /\ Sync /\ Server
  BY DEF IInv, Service
<1>2. /\ Service' /\ QuietStays
      /\ Len(posted) > 0 /\ posted[1] \in Postable
      /\ at[t] = "run" /\ ~stopped
      /\ Len(posted') = Len(posted) - 1
      /\ \A k \in 1..Len(posted') : posted'[k] = posted[k + 1]
  BY <1>1, Dispatches
<1>3. /\ Goto(t, "run", posted[1]) /\ program' = program /\ open' = open
      /\ stopped' = stopped
  BY <1>1, <1>2 DEF Dispatch, IoTypeOK
<1>4. HandlerStep(t) /\ at'[t] = posted[1]
  BY <1>1, <1>3, RunMoves
<1>5. \A k \in 1..Len(posted) :
        at'[t] = posted[k] \/ \E j \in 1..Len(posted') : posted'[j] = posted[k]
  <2>1. SUFFICES ASSUME NEW k \in 1..Len(posted), k # 1
                 PROVE  \E j \in 1..Len(posted') : posted'[j] = posted[k]
    BY <1>4
  <2>2. Len(posted) \in Nat
    BY <1>1 DEF IoTypeOK
  <2>3. k - 1 \in 1..Len(posted') /\ posted'[k - 1] = posted[k]
    BY <1>2, <2>1, <2>2
  <2> QED
    BY <2>3
<1>6. Lockfree' /\ Sync'
  BY <1>1, <1>2, <1>3, <1>4, <1>5, RunKeepsLockfree, RunKeepsSync
<1>7. posted[1] \notin {"start", "end", "left", "returned"}
  BY <1>2 DEF Postable
<1>8. Server'
  BY <1>1, <1>2, <1>3, <1>7, ServerMoves, NotServer
<1> QED
  BY <1>2, <1>6, <1>8 DEF IInv

LEMMA ArrivalKeeps ==
  ASSUME IInv, NEW t \in Threads, ReceiveCompletes(t), done' = done, destroyed' = destroyed
  PROVE  IInv'
<1>1. Service /\ IoTypeOK /\ Lockfree /\ Sync /\ Server
  BY DEF IInv, Service
<1>2. Service' /\ QuietStays
  BY <1>1, Completes
<1>3. /\ Goto(t, "run", Completion) /\ program' = program /\ open' = open
      /\ stopped' = stopped /\ posted' = posted
  BY DEF ReceiveCompletes
<1>4. HandlerStep(t) /\ at[t] = "run"
  BY <1>1, <1>3, RunMoves
<1>5. Lockfree' /\ Sync'
  BY <1>1, <1>3, <1>4, RunKeepsLockfree, RunKeepsSync
<1>6. Completion \notin {"start", "end", "left", "returned"}
  BY DEF Completion
<1>7. Server'
  BY <1>1, <1>2, <1>3, <1>6, ServerMoves, NotServer
<1> QED
  BY <1>2, <1>5, <1>7 DEF IInv

LEMMA LeaveKeeps ==
  ASSUME IInv, NEW t \in Threads, Leave(t), done' = done, destroyed' = destroyed
  PROVE  IInv'
<1>1. Service /\ IoTypeOK /\ Lockfree /\ Sync /\ Server /\ stopped \in BOOLEAN
  BY DEF IInv, Service, IoTypeOK
<1>2. /\ Goto(t, "run", "left") /\ program' = program /\ open' = open
      /\ stopped' = stopped /\ posted' = posted /\ stopped
  BY DEF Leave
<1>3. Service' /\ QuietStays
  BY <1>1, <1>2, Moves DEF Leave, Places, Receiving
<1>4. HandlerStep(t) /\ at[t] = "run"
  BY <1>1, <1>2, RunMoves
<1>5. Lockfree' /\ Sync'
  BY <1>1, <1>2, <1>4, RunKeepsLockfree, RunKeepsSync
<1>6. Server'
  BY <1>1, <1>2, <1>3, ServerMoves, NotServer
<1> QED
  BY <1>3, <1>5, <1>6 DEF IInv

-----------------------------------------------------------------------------
(* One producer, one consumer *)

\* A program creates two threads (buf-server one of them and main).
TwoWorkers == \E v, w : Workers = {v, w}

\* main has not posted the consumer; buf-server has none.
ConsumerToCome ==
  \/ program = "buf-server"
  \/ at[Main] = "start"
  \/ program # "buf-sync" /\ at[Main] = "post"

\* The consumer is posted once, and not again while a thread runs it.
OneConsumer ==
  /\ \A s, t \in Threads : at[s] \in Consuming /\ at[t] \in Consuming => s = t
  /\ \A j, k \in 1..Len(posted) : posted[j] \in Consuming /\ posted[k] \in Consuming => j = k
  /\ \A t \in Threads, k \in 1..Len(posted) : ~ (at[t] \in Consuming /\ posted[k] \in Consuming)
  /\ ConsumerToCome =>
       /\ \A t \in Threads : at[t] \notin Consuming
       /\ \A k \in 1..Len(posted) : posted[k] \notin Consuming

\* Only buf-sync has client_writers, which fill the queue between the receives,
\* and only buf-moody counts trailers.
OwnHandlers ==
  /\ program # "buf-sync" =>
       /\ \A t \in Threads : at[t] # "client_writer"
       /\ \A k \in 1..Len(posted) : posted[k] # "client_writer"
  /\ program # "buf-moody" => \A t \in Threads : at[t] # "count"

\* buf-sync posts client_reader first: no other handler runs before a worker is
\* taken by it.
ReaderFirst ==
  program = "buf-sync" =>
    \/ ReaderRuns
    \/ /\ \A w \in Workers : at[w] \in {"run", "left"}
       /\ pending = 0
       /\ IF at[Main] = "start" THEN posted = <<>>
          ELSE Len(posted) > 0 /\ posted[1] = "client_reader"

Roles == OneConsumer /\ OwnHandlers /\ ReaderFirst

\* posted gains handlers at most, none of them a consumer's.
PostsOthers ==
  /\ Len(posted') >= Len(posted)
  /\ \A k \in 1..Len(posted) : posted'[k] = posted[k]
  /\ \A k \in 1..Len(posted') : k > Len(posted) =>
       /\ posted'[k] \notin Consuming
       /\ posted'[k] = "client_writer" => program = "buf-sync"

\* A step after which a thread has the role it had before
KeepsRole(t) ==
  \E from, to \in Places :
    /\ Goto(t, from, to) /\ PostsOthers
    /\ to \in Consuming => from \in Consuming
    /\ to = "client_writer" => from = "client_writer"
    /\ to = "count" => program = "buf-moody"
    /\ to # "start" /\ (to = "post" => from = "start")

LEMMA KeepsOneConsumer ==
  ASSUME IoTypeOK, IoTypeOK', OneConsumer, NEW t \in Threads, KeepsRole(t), program' = program
  PROVE  OneConsumer'
<1>1. PICK from, to \in Places :
        /\ Goto(t, from, to) /\ PostsOthers
        /\ to \in Consuming => from \in Consuming
        /\ to # "start" /\ (to = "post" => from = "start")
  BY DEF KeepsRole
<1>2. /\ at[t] = from /\ at'[t] = to /\ \A s \in Threads : s # t => at'[s] = at[s]
  BY <1>1 DEF Goto, IoTypeOK
<1>3. \A s \in Threads : at'[s] \in Consuming => at[s] \in Consuming
  BY <1>1, <1>2
<1>4. /\ Len(posted) \in Nat /\ Len(posted') \in Nat
      /\ \A k \in 1..Len(posted') :
           posted'[k] \in Consuming => k \in 1..Len(posted) /\ posted[k] \in Consuming
  BY <1>1 DEF IoTypeOK, PostsOthers
<1>5. ConsumerToCome' => ConsumerToCome
  <2>1. Main \in Threads
    BY DEF Threads
  <2>2. at'[Main] = "start" => at[Main] = "start"
    BY <1>1, <1>2, <2>1
  <2>3. at'[Main] = "post" => at[Main] \in {"start", "post"}
    BY <1>1, <1>2, <2>1
  <2> QED BY <2>2, <2>3 DEF ConsumerToCome
<1> QED
  BY <1>3, <1>4, <1>5 DEF OneConsumer

LEMMA KeepsOwnHandlers ==
  ASSUME IoTypeOK, IoTypeOK', OwnHandlers, NEW t \in Threads, KeepsRole(t),
         program' = program
  PROVE  OwnHandlers'
<1>1. PICK from, to \in Places :
        /\ Goto(t, from, to) /\ PostsOthers
        /\ to = "client_writer" => from = "client_writer"
        /\ to = "count" => program = "buf-moody"
  BY DEF KeepsRole
<1>2. /\ at[t] = from /\ at'[t] = to /\ \A s \in Threads : s # t => at'[s] = at[s]
  BY <1>1 DEF Goto, IoTypeOK
<1>3. \A s \in Threads :
        /\ at'[s] = "client_writer" => at[s] = "client_writer"
        /\ at'[s] = "count" => at[s] = "count" \/ program = "buf-moody"
  BY <1>1, <1>2
<1>4. /\ Len(posted) \in Nat /\ Len(posted') \in Nat
      /\ \A k \in 1..Len(posted') :
           posted'[k] = "client_writer" =>
             \/ program = "buf-sync"
             \/ k \in 1..Len(posted) /\ posted[k] = "client_writer"
  BY <1>1 DEF IoTypeOK, PostsOthers
<1> QED
  BY <1>3, <1>4 DEF OwnHandlers

\* The consumer is posted when there is none.
LEMMA PostsConsumer ==
  ASSUME IoTypeOK, OneConsumer, ConsumerToCome, NEW from, NEW handler \in Postable,
         NEW to, to \notin Consuming, Post(from, handler, to), ~ ConsumerToCome'
  PROVE  OneConsumer'
<1>1. /\ Main \in Threads /\ at'[Main] = to /\ \A s \in Threads : s # Main => at'[s] = at[s]
  BY DEF Post, Goto, IoTypeOK, Threads
<1>2. posted \in Seq(Postable) /\ posted' = Append(posted, handler) /\ Len(posted) \in Nat
  BY DEF IoTypeOK, Post
<1>3. /\ \A k \in 1..Len(posted') : k \in 1..Len(posted) \/ k = Len(posted) + 1
      /\ \A k \in 1..Len(posted) : posted'[k] = posted[k]
  BY <1>2
<1>4. /\ \A s \in Threads : at[s] \notin Consuming
      /\ \A k \in 1..Len(posted) : posted[k] \notin Consuming
  BY DEF OneConsumer
<1>5. \A s \in Threads : at'[s] \notin Consuming
  BY <1>1, <1>4
<1>6. \A k \in 1..Len(posted') : posted'[k] \in Consuming => k = Len(posted) + 1
  BY <1>3, <1>4
<1> QED
  BY <1>5, <1>6 DEF OneConsumer

\* A handler is begun: the role goes from its place in posted to the thread.
LEMMA DispatchKeepsConsumer ==
  ASSUME Service, OneConsumer, NEW t \in Threads, Dispatch(t)
  PROVE  OneConsumer'
<1>1. /\ Len(posted) > 0 /\ posted[1] \in Postable
      /\ at[t] = "run" /\ at' = [at EXCEPT ![t] = posted[1]]
      /\ Len(posted') = Len(posted) - 1
      /\ \A k \in 1..Len(posted') : posted'[k] = posted[k + 1]
      /\ program' = program
  BY Dispatches DEF Dispatch
<1>2. /\ at'[t] = posted[1] /\ \A s \in Threads : s # t => at'[s] = at[s]
      /\ Len(posted) \in Nat /\ "run" \notin Consuming
  BY <1>1 DEF Service, IoTypeOK, Consuming
<1>3. /\ 1 \in 1..Len(posted)
      /\ \A k \in 1..Len(posted') : k + 1 \in 1..Len(posted) /\ k + 1 # 1
  BY <1>1, <1>2
<1>4. ConsumerToCome' => ConsumerToCome
  <2>1. Main \in Threads /\ posted[1] \notin {"start", "post"}
    BY <1>1 DEF Threads, Postable
  <2>2. at'[Main] \in {"start", "post"} => at'[Main] = at[Main]
    BY <1>1, <1>2, <2>1
  <2> QED BY <1>1, <2>2 DEF ConsumerToCome
<1>5. \A s, u \in Threads : at'[s] \in Consuming /\ at'[u] \in Consuming => s = u
  <2> SUFFICES ASSUME NEW s \in Threads, NEW u \in Threads,
                      at'[s] \in Consuming, at'[u] \in Consuming, s # u
               PROVE  FALSE
    OBVIOUS
  <2>1. CASE s # t /\ u # t
    BY <1>2, <2>1 DEF OneConsumer
  <2>2. CASE s = t \/ u = t
    BY <1>2, <1>3, <2>2 DEF OneConsumer
  <2> QED BY <2>1, <2>2
<1>6. \A j, k \in 1..Len(posted') :
        posted'[j] \in Consuming /\ posted'[k] \in Consuming => j = k
  <2> SUFFICES ASSUME NEW j \in 1..Len(posted'), NEW k \in 1..Len(posted'),
                      posted'[j] \in Consuming, posted'[k] \in Consuming
               PROVE  j = k
    OBVIOUS
  <2>1. j + 1 = k + 1
    BY <1>1, <1>3 DEF OneConsumer
  <2> QED BY <2>1
<1>7. \A s \in Threads, k \in 1..Len(posted') :
        ~ (at'[s] \in Consuming /\ posted'[k] \in Consuming)
  <2> SUFFICES ASSUME NEW s \in Threads, NEW k \in 1..Len(posted'),
                      at'[s] \in Consuming, posted'[k] \in Consuming
               PROVE  FALSE
    OBVIOUS
  <2>1. k + 1 \in 1..Len(posted) /\ k + 1 # 1 /\ posted[k + 1] \in Consuming
    BY <1>1, <1>3
  <2>2. CASE s = t
    BY <1>2, <1>3, <2>1, <2>2 DEF OneConsumer
  <2>3. CASE s # t
    BY <1>2, <2>1, <2>3 DEF OneConsumer
  <2> QED BY <2>2, <2>3
<1>8. ConsumerToCome =>
        /\ \A s \in Threads : at'[s] \notin Consuming
        /\ \A k \in 1..Len(posted') : posted'[k] \notin Consuming
  BY <1>1, <1>2, <1>3 DEF OneConsumer
<1> QED
  BY <1>4, <1>5, <1>6, <1>7, <1>8 DEF OneConsumer

LEMMA DispatchKeepsOwnHandlers ==
  ASSUME Service, OwnHandlers, NEW t \in Threads, Dispatch(t)
  PROVE  OwnHandlers'
<1>1. /\ Len(posted) > 0 /\ posted[1] \in Postable
      /\ at' = [at EXCEPT ![t] = posted[1]]
      /\ Len(posted') = Len(posted) - 1
      /\ \A k \in 1..Len(posted') : posted'[k] = posted[k + 1]
      /\ program' = program
  BY Dispatches DEF Dispatch
<1>2. /\ at'[t] = posted[1] /\ \A s \in Threads : s # t => at'[s] = at[s]
      /\ Len(posted) \in Nat
      /\ posted[1] # "count"
  BY <1>1 DEF Service, IoTypeOK, Postable
<1>3. /\ 1 \in 1..Len(posted)
      /\ \A k \in 1..Len(posted') : k + 1 \in 1..Len(posted)
  BY <1>1, <1>2
<1> QED
  BY <1>1, <1>2, <1>3 DEF OwnHandlers

-----------------------------------------------------------------------------
(* Steps of the programs and the roles *)

LEMMA SameIsOthers ==
  ASSUME IoTypeOK, posted' = posted
  PROVE  PostsOthers
BY DEF IoTypeOK, PostsOthers

LEMMA OneMore ==
  ASSUME IoTypeOK, NEW handler \in Postable, posted' = Append(posted, handler),
         handler \notin Consuming, handler = "client_writer" => program = "buf-sync"
  PROVE  PostsOthers
<1>1. posted \in Seq(Postable) /\ Len(posted) \in Nat
  BY DEF IoTypeOK
<1>2. /\ Len(posted') = Len(posted) + 1 /\ posted'[Len(posted) + 1] = handler
      /\ \A k \in 1..Len(posted) : posted'[k] = posted[k]
  BY <1>1
<1>3. \A k \in 1..Len(posted') : k > Len(posted) => k = Len(posted) + 1
  BY <1>1, <1>2
<1> QED
  BY <1>1, <1>2, <1>3 DEF PostsOthers

\* The handler of a receive does not consume.
LEMMA ReceivingNotConsuming ==
  ASSUME NEW h \in Receiving
  PROVE  h \notin Consuming /\ h # "client_writer"
BY DEF Receiving, Consuming

LEMMA HandleDataKeepsRole ==
  ASSUME IoTypeOK, NEW t \in Threads, HandleData(t)
  PROVE  KeepsRole(t)
<1>1. Goto(t, "handle_data", "run")
  BY DEF HandleData
<1>2. PostsOthers
  <2>1. posted' = posted \/ posted' = Append(posted, Completion)
    BY DEF HandleData, AsyncReceive
  <2>2. /\ Completion \in Postable /\ Completion \notin Consuming
        /\ Completion # "client_writer"
    BY CompletionKnown, ReceivingNotConsuming
  <2> QED BY <2>1, <2>2, SameIsOthers, OneMore
<1> QED
  BY <1>1, <1>2 DEF KeepsRole, Places, Postable, Consuming

LEMMA ProceedKeepsRole ==
  ASSUME IoTypeOK, NEW t \in Threads, NEW from \in Places, NEW to \in Places,
         Goto(t, from, to), posted' = posted,
         to \in Consuming => from \in Consuming,
         to = "client_writer" => from = "client_writer",
         to = "count" => program = "buf-moody",
         to # "start" /\ to # "post"
  PROVE  KeepsRole(t)
BY SameIsOthers DEF KeepsRole

LEMMA PostKeepsRole ==
  ASSUME IoTypeOK, NEW from \in Places, NEW handler \in Postable, NEW to \in Places,
         Post(from, handler, to), handler \notin Consuming,
         handler = "client_writer" => program = "buf-sync",
         to \notin Consuming, to \notin {"client_writer", "count", "start"},
         to = "post" => from = "start"
  PROVE  KeepsRole(Main)
<1>1. Goto(Main, from, to) /\ posted' = Append(posted, handler)
  BY DEF Post
<1>2. PostsOthers
  BY <1>1, OneMore
<1> QED
  BY <1>1, <1>2 DEF KeepsRole

\* Who closes the socket is the receive, so none is pending.
LEMMA ClosePostsNothing ==
  ASSUME Service, NEW t \in Threads, Goto(t, "check", "run"), Close
  PROVE  posted' = posted
<1>1. at[t] \in Receiving
  BY DEF Goto, Receiving
<1>2. pending = 0
  BY <1>1, HandledBy
<1>3. posted' = posted \o [i \in 1..0 |-> Completion]
  BY <1>2 DEF Close
<1>4. [i \in 1..0 |-> Completion] = <<>>
  OBVIOUS
<1> QED
  BY <1>3, <1>4, ConcatEmptySeq DEF Service, IoTypeOK

LEMMA MoodyKeepsRole ==
  ASSUME Service, program = "buf-moody", NEW t \in Threads, MoodyStep(t)
  PROVE  KeepsRole(t)
<1>1. IoTypeOK
  BY DEF Service
<1>2. HandleData(t) => KeepsRole(t)
  BY <1>1, HandleDataKeepsRole
<1>3. MoodyEnqueue(t) => KeepsRole(t)
  BY <1>1, ProceedKeepsRole DEF MoodyEnqueue, Places, Postable, Consuming
<1>4. MoodySignal(t) => KeepsRole(t)
  BY <1>1, ProceedKeepsRole DEF MoodySignal, Proceed, Places, Postable, Consuming
<1>5. MoodyCheck(t) => KeepsRole(t)
  <2>1. Proceed(t, "check", "handle_data") => KeepsRole(t)
    BY <1>1, ProceedKeepsRole DEF Proceed, Places, Postable, Consuming
  <2>2. Goto(t, "check", "run") /\ Close => KeepsRole(t)
    BY <1>1, ClosePostsNothing, ProceedKeepsRole DEF Places, Postable, Consuming
  <2> QED BY <2>1, <2>2 DEF MoodyCheck
<1>6. MoodyPeek(t) => KeepsRole(t)
  BY <1>1, ProceedKeepsRole DEF MoodyPeek, Proceed, Places, Postable, Consuming
<1>7. MoodyDequeue(t) => KeepsRole(t)
  <2>1. \/ Proceed(t, "peeked", "read_data") \/ Proceed(t, "peeked", "dequeue")
        \/ Proceed(t, "dequeue", "count") \/ Proceed(t, "dequeue", "read_data")
        => KeepsRole(t)
    BY <1>1, ProceedKeepsRole DEF Proceed, Places, Postable, Consuming
  <2> QED BY <2>1 DEF MoodyDequeue
<1>8. MoodyCount(t) => KeepsRole(t)
  BY <1>1, ProceedKeepsRole DEF MoodyCount, Proceed, Places, Postable, Consuming
<1> QED
  BY <1>2, <1>3, <1>4, <1>5, <1>6, <1>7, <1>8 DEF MoodyStep

LEMMA LockfreeKeepsRole ==
  ASSUME Service, NEW t \in Threads, LockfreeStep(t)
  PROVE  KeepsRole(t)
<1>1. IoTypeOK
  BY DEF Service
<1>2. HandleData(t) => KeepsRole(t)
  BY <1>1, HandleDataKeepsRole
<1>3. LockfreeProduce(t) => KeepsRole(t)
  BY <1>1, ProceedKeepsRole DEF LockfreeProduce, Proceed, Places, Postable, Consuming
<1>4. LockfreePush(t) => KeepsRole(t)
  BY <1>1, ProceedKeepsRole DEF LockfreePush, Places, Postable, Consuming
<1>5. LockfreeCheck(t) => KeepsRole(t)
  <2>1. Proceed(t, "check", "handle_data") => KeepsRole(t)
    BY <1>1, ProceedKeepsRole DEF Proceed, Places, Postable, Consuming
  <2>2. Goto(t, "check", "run") /\ Close => KeepsRole(t)
    BY <1>1, ClosePostsNothing, ProceedKeepsRole DEF Places, Postable, Consuming
  <2> QED BY <2>1, <2>2 DEF LockfreeCheck
<1>6. LockfreePop(t) => KeepsRole(t)
  <2>1. \/ Proceed(t, "read_data", "run") \/ Proceed(t, "read_data", "pop")
        \/ Proceed(t, "pop", "read_data") \/ Proceed(t, "pop", "popped")
        => KeepsRole(t)
    BY <1>1, ProceedKeepsRole DEF Proceed, Places, Postable, Consuming
  <2> QED BY <2>1 DEF LockfreePop
<1>7. LockfreeConsume(t) => KeepsRole(t)
  BY <1>1, ProceedKeepsRole DEF LockfreeConsume, Proceed, Places, Postable, Consuming
<1> QED
  BY <1>2, <1>3, <1>4, <1>5, <1>6, <1>7 DEF LockfreeStep

LEMMA SyncKeepsRole ==
  ASSUME Service, NEW t \in Threads, SyncStep(t)
  PROVE  KeepsRole(t) /\ at[t] # "run"
<1>1. IoTypeOK
  BY DEF Service
<1>2. HandleData(t) => KeepsRole(t) /\ at[t] # "run"
  BY <1>1, HandleDataKeepsRole DEF HandleData, Goto
<1>3. SyncReceive(t) => KeepsRole(t) /\ at[t] # "run"
  BY <1>1, ProceedKeepsRole DEF SyncReceive, Places, Postable, Consuming, Goto
<1>4. SyncWrite(t) => KeepsRole(t) /\ at[t] # "run"
  BY <1>1, ProceedKeepsRole DEF SyncWrite, Proceed, Places, Postable, Consuming, Goto
<1>5. SyncRead(t) => KeepsRole(t) /\ at[t] # "run"
  BY <1>1, ProceedKeepsRole DEF SyncRead, Proceed, Places, Postable, Consuming, Goto
<1> QED
  BY <1>2, <1>3, <1>4, <1>5 DEF SyncStep

LEMMA ServerKeepsRole ==
  ASSUME Service, NEW t \in Threads, ServerStep(t) \/ (t = Main /\ ServerMain)
  PROVE  KeepsRole(t)
<1>1. IoTypeOK
  BY DEF Service
<1>2. HandleData(t) => KeepsRole(t)
  BY <1>1, HandleDataKeepsRole
<1>3. ServerDecode(t) => KeepsRole(t)
  BY <1>1, ProceedKeepsRole DEF ServerDecode, Places, Postable, Consuming
<1>4. ServerCount(t) => KeepsRole(t)
  <2>1. Proceed(t, "decoded", "handle_data") \/ Proceed(t, "decoded", "end")
        => KeepsRole(t)
    BY <1>1, ProceedKeepsRole DEF Proceed, Places, Postable, Consuming
  <2> QED BY <2>1 DEF ServerCount
<1>5. ServerEnd(t) => KeepsRole(t)
  BY <1>1, ProceedKeepsRole DEF ServerEnd, Stop, Places, Postable, Consuming
<1>6. t = Main /\ ServerMain => KeepsRole(t)
  <2>1. Post("start", "handle_data", "run") => KeepsRole(Main)
    BY <1>1, PostKeepsRole DEF Places, Postable, Consuming
  <2>2. Proceed(Main, "left", "returned") => KeepsRole(Main)
    BY <1>1, ProceedKeepsRole DEF Proceed, Places, Postable, Consuming, Threads
  <2> QED BY <2>1, <2>2 DEF ServerMain
<1> QED
  BY <1>2, <1>3, <1>4, <1>5, <1>6 DEF ServerStep

\* main posts handlers and stops the service, and takes no role.
LEMMA MainKeepsRole ==
  ASSUME Service,
         \/ (MoodyMain \/ LockfreeMain) /\ ~ Post("post", "read_data", "poll")
         \/ program = "buf-sync" /\ SyncMain /\ ~ Post("start", "client_reader", "post")
  PROVE  KeepsRole(Main)
<1>1. IoTypeOK /\ Main \in Threads
  BY DEF Service, Threads
<1>2. \/ Post("start", "handle_data", "post") \/ Post("post", "handle_data", "loop")
      => KeepsRole(Main)
  BY <1>1, PostKeepsRole DEF Places, Postable, Consuming
<1>3. program = "buf-sync" /\ Post("loop", "client_writer", "loop") => KeepsRole(Main)
  BY <1>1, PostKeepsRole DEF Places, Postable, Consuming
<1>4. Stop(Main, "poll", "join") \/ Stop(Main, "loop", "join") => KeepsRole(Main)
  BY <1>1, ProceedKeepsRole DEF Stop, Places, Postable, Consuming
<1>5. Join("returned") \/ Join("joined") \/ Proceed(Main, "joined", "returned")
      => KeepsRole(Main)
  BY <1>1, ProceedKeepsRole DEF Join, Proceed, Places, Postable, Consuming
<1> QED
  BY <1>2, <1>3, <1>4, <1>5 DEF MoodyMain, LockfreeMain, SyncMain

\* A handler of buf-sync goes on: if client_reader was not begun none would run.
LEMMA HandlerKeepsReader ==
  ASSUME Service, Sync, ReaderFirst, NEW t \in Threads, SyncStep(t), program' = program
  PROVE  ReaderFirst'
<1>1. IoTypeOK /\ Threads = Workers \cup {Main} /\ Main \notin Workers
  BY IoAssumption DEF IoAssumption, Service, Threads
<1>2. /\ HandlerStep(t) /\ at[t] # "run"
      /\ at[t] = "client_reader" => at'[t] = "client_reader"
  BY <1>1, SyncHandler, SyncKeepsRole
<1> SUFFICES ASSUME program = "buf-sync" PROVE ReaderRuns'
  BY DEF ReaderFirst
<1>3. t \in Workers
  BY <1>1, <1>2 DEF Sync, HandlerStep
<1>4. at[t] \notin {"run", "left"}
  BY <1>2 DEF HandlerStep
<1>5. ReaderRuns
  BY <1>3, <1>4 DEF ReaderFirst
<1> QED
  BY <1>2, <1>5 DEF ReaderRuns, HandlerStep, Threads

LEMMA MainKeepsReader ==
  ASSUME Service, ReaderFirst, program = "buf-sync", program' = program, SyncMain
  PROVE  ReaderFirst'
<1>1. IoTypeOK /\ Main \in Threads /\ Main \notin Workers /\ Workers \subseteq Threads
  BY IoAssumption DEF IoAssumption, Service, Threads
<1>2. \A w \in Workers : at'[w] = at[w]
  BY <1>1 DEF SyncMain, Post, Stop, Join, Proceed, Goto, IoTypeOK
<1>3. ReaderRuns => ReaderRuns'
  BY <1>2 DEF ReaderRuns
<1>4. SUFFICES ASSUME ~ ReaderRuns
               PROVE  /\ pending' = 0 /\ at'[Main] # "start"
                      /\ Len(posted') > 0 /\ posted'[1] = "client_reader"
  BY <1>2, <1>3 DEF ReaderFirst
<1>5. /\ pending = 0 /\ posted \in Seq(Postable) /\ Len(posted) \in Nat
      /\ IF at[Main] = "start" THEN posted = <<>>
         ELSE Len(posted) > 0 /\ posted[1] = "client_reader"
  BY <1>1, <1>4 DEF ReaderFirst, IoTypeOK
<1>6. CASE Post("start", "client_reader", "post")
  <2>1. posted' = <<"client_reader">> /\ pending' = 0 /\ at'[Main] = "post"
    BY <1>1, <1>5, <1>6 DEF Post, Goto, IoTypeOK
  <2> QED BY <2>1
<1>7. CASE Post("post", "handle_data", "loop") \/ Post("loop", "client_writer", "loop")
  <2>1. PICK handler \in Postable : posted' = Append(posted, handler)
    BY <1>7 DEF Post, Postable
  <2>2. at[Main] # "start" /\ at'[Main] = "loop" /\ pending' = 0
    BY <1>1, <1>5, <1>7 DEF Post, Goto, IoTypeOK
  <2>3. Len(posted') = Len(posted) + 1 /\ posted'[1] = posted[1]
    BY <1>5, <2>1, <2>2
  <2> QED BY <1>5, <2>2, <2>3
<1>8. CASE Stop(Main, "loop", "join") \/ Join("returned")
  <2>1. posted' = posted /\ pending' = pending /\ at[Main] # "start" /\ at'[Main] # "start"
    BY <1>1, <1>8 DEF Stop, Join, Proceed, Goto, IoTypeOK
  <2> QED BY <1>5, <2>1
<1> QED
  BY <1>6, <1>7, <1>8 DEF SyncMain

\* The first handler that a worker begins is client_reader.
LEMMA DispatchKeepsReader ==
  ASSUME Service, Sync, ReaderFirst, NEW t \in Threads, Dispatch(t)
  PROVE  ReaderFirst'
<1>1. IoTypeOK /\ Threads = Workers \cup {Main} /\ Main \notin Workers
  BY IoAssumption DEF IoAssumption, Service, Threads
<1>2. /\ at[t] = "run" /\ at' = [at EXCEPT ![t] = posted[1]] /\ Len(posted) > 0
      /\ program' = program
  BY Dispatches DEF Dispatch
<1> SUFFICES ASSUME program = "buf-sync" PROVE ReaderRuns'
  BY <1>2 DEF ReaderFirst
<1>3. t \in Workers /\ at'[t] = posted[1] /\ \A s \in Threads : s # t => at'[s] = at[s]
  BY <1>1, <1>2 DEF Sync, IoTypeOK
<1>4. CASE ReaderRuns
  BY <1>1, <1>2, <1>3, <1>4 DEF ReaderRuns
<1>5. CASE ~ ReaderRuns
  <2>1. at[Main] # "start" /\ posted[1] = "client_reader"
    BY <1>2, <1>5 DEF ReaderFirst
  <2> QED BY <1>3, <2>1 DEF ReaderRuns
<1> QED
  BY <1>4, <1>5

LEMMA ArrivalKeepsReader ==
  ASSUME Service, ReaderFirst, NEW t \in Threads, ReceiveCompletes(t)
  PROVE  ReaderFirst'
<1>1. /\ pending > 0 /\ program' = program
      /\ at[t] = "run" /\ \A s \in Threads : s # t => at'[s] = at[s]
  BY DEF ReceiveCompletes, Goto, Service, IoTypeOK
<1> SUFFICES ASSUME program = "buf-sync" PROVE ReaderRuns'
  BY <1>1 DEF ReaderFirst
<1>2. ReaderRuns
  BY <1>1 DEF ReaderFirst
<1> QED
  BY <1>1, <1>2 DEF ReaderRuns, Threads

LEMMA LeaveKeepsReader ==
  ASSUME Service, Sync, ReaderFirst, NEW t \in Threads, Leave(t)
  PROVE  ReaderFirst'
<1>1. /\ at[t] = "run" /\ at'[t] = "left" /\ \A s \in Threads : s # t => at'[s] = at[s]
      /\ program' = program /\ posted' = posted /\ pending' = pending
  BY DEF Leave, Proceed, Goto, Service, IoTypeOK
<1>2. program = "buf-sync" => at'[Main] = at[Main]
  BY <1>1 DEF Sync, Threads
<1>3. ReaderRuns => ReaderRuns'
  BY <1>1 DEF ReaderRuns, Threads
<1>4. ASSUME NEW w \in Workers, at[w] \in {"run", "left"} PROVE at'[w] \in {"run", "left"}
  BY <1>1, <1>4 DEF Threads
<1> QED
  BY <1>1, <1>2, <1>3, <1>4 DEF ReaderFirst

\* Threads that begin a handler of the receive, or leave
LEMMA RunKeepsRole ==
  ASSUME Service, NEW t \in Threads, ReceiveCompletes(t) \/ Leave(t)
  PROVE  KeepsRole(t)
<1>1. IoTypeOK /\ posted' = posted
  BY DEF Service, ReceiveCompletes, Leave, Proceed
<1>2. /\ Completion \in Places /\ Completion \notin Consuming
      /\ Completion \notin {"client_writer", "count", "start", "post"}
  BY CompletionKnown, PostableKnown, ReceivingNotConsuming DEF Completion
<1>3. Goto(t, "run", Completion) => KeepsRole(t)
  BY <1>1, <1>2, ProceedKeepsRole DEF Places
<1>4. Goto(t, "run", "left") => KeepsRole(t)
  BY <1>1, ProceedKeepsRole DEF Places, Consuming
<1> QED
  BY <1>3, <1>4 DEF ReceiveCompletes, Leave, Proceed

\* main of buf-moody and buf-lockfree posts read_data, of buf-sync client_reader.
LEMMA ConsumerPosted ==
  ASSUME Service, Roles, program' = program,
         \/ program # "buf-server" /\ program # "buf-sync" /\ Post("post", "read_data", "poll")
         \/ program = "buf-sync" /\ Post("start", "client_reader", "post")
  PROVE  OneConsumer' /\ OwnHandlers'
<1>1. IoTypeOK /\ Main \in Threads
  BY DEF Service, Threads
<1>2. OneConsumer'
  <2>1. CASE program # "buf-server" /\ program # "buf-sync" /\ Post("post", "read_data", "poll")
    <3>1. at[Main] = "post" /\ at'[Main] = "poll"
      BY <1>1, <2>1 DEF Post, Goto, IoTypeOK
    <3> QED BY <1>1, <2>1, <3>1, PostsConsumer DEF Roles, ConsumerToCome, Postable, Consuming
  <2>2. CASE program = "buf-sync" /\ Post("start", "client_reader", "post")
    <3>1. at[Main] = "start" /\ at'[Main] = "post"
      BY <1>1, <2>2 DEF Post, Goto, IoTypeOK
    <3> QED BY <1>1, <2>2, <3>1, PostsConsumer DEF Roles, ConsumerToCome, Postable, Consuming
  <2> QED BY <2>1, <2>2
<1>3. OwnHandlers'
  <2>1. \A s \in Threads : at'[s] \in {"client_writer", "count"} => at'[s] = at[s]
    BY <1>1 DEF Post, Goto, IoTypeOK
  <2>2. ASSUME program # "buf-sync"
        PROVE  \A k \in 1..Len(posted') : posted'[k] # "client_writer"
    <3>1. posted \in Seq(Postable) /\ posted' = Append(posted, "read_data") /\ Len(posted) \in Nat
      BY <1>1, <2>2 DEF Post, IoTypeOK
    <3>2. \A k \in 1..Len(posted') : posted'[k] = "client_writer" =>
            k \in 1..Len(posted) /\ posted[k] = "client_writer"
      BY <3>1
    <3> QED BY <2>2, <3>2 DEF Roles, OwnHandlers
  <2> QED BY <2>1, <2>2 DEF Roles, OwnHandlers
<1> QED
  BY <1>2, <1>3

\* Roles is inductive, given what IInv says of the service and of buf-sync.
LEMMA RolesKept ==
  ASSUME IInv, IInv', Roles, [Next]_vars
  PROVE  Roles'
<1>1. Service /\ IoTypeOK /\ IoTypeOK' /\ Sync
  BY DEF IInv, Service
<1>2. ASSUME NEW t \in Threads, KeepsRole(t), program' = program
      PROVE  OneConsumer' /\ OwnHandlers'
  BY <1>1, <1>2, KeepsOneConsumer, KeepsOwnHandlers DEF Roles
<1>3. program # "buf-sync" /\ program' = program => ReaderFirst'
  BY DEF ReaderFirst
<1>4. CASE UNCHANGED vars
  BY <1>4 DEF vars, ioVars, Roles, OneConsumer, OwnHandlers, ReaderFirst,
              ConsumerToCome, ReaderRuns
<1>5. ASSUME NEW t \in Threads, ProgramStep(t)
      PROVE  Roles'
  <2>1. CASE program = "buf-moody" /\ (MoodyStep(t) \/ (t = Main /\ MoodyMain))
    <3>1. program' = program
      BY <1>1, <2>1, MoodyService
    <3>2. MoodyStep(t) => Roles'
      BY <1>1, <1>2, <1>3, <2>1, <3>1, MoodyKeepsRole DEF Roles
    <3>3. t = Main /\ MoodyMain /\ Post("post", "read_data", "poll") => Roles'
      BY <1>1, <1>3, <2>1, <3>1, ConsumerPosted DEF Roles
    <3>4. t = Main /\ MoodyMain /\ ~ Post("post", "read_data", "poll") => Roles'
      BY <1>1, <1>2, <1>3, <2>1, <3>1, MainKeepsRole DEF Roles
    <3> QED BY <2>1, <3>2, <3>3, <3>4
  <2>2. CASE program = "buf-lockfree" /\ (LockfreeStep(t) \/ (t = Main /\ LockfreeMain))
    <3>1. program' = program
      BY <1>1, <2>2, LockfreeService
    <3>2. LockfreeStep(t) => Roles'
      BY <1>1, <1>2, <1>3, <2>2, <3>1, LockfreeKeepsRole DEF Roles
    <3>3. t = Main /\ LockfreeMain /\ Post("post", "read_data", "poll") => Roles'
      BY <1>1, <1>3, <2>2, <3>1, ConsumerPosted DEF Roles
    <3>4. t = Main /\ LockfreeMain /\ ~ Post("post", "read_data", "poll") => Roles'
      BY <1>1, <1>2, <1>3, <2>2, <3>1, MainKeepsRole DEF Roles
    <3> QED BY <2>2, <3>2, <3>3, <3>4
  <2>3. CASE program = "buf-sync" /\ (SyncStep(t) \/ (t = Main /\ SyncMain))
    <3>1. program' = program
      BY <1>1, <2>3, SyncService
    <3>2. ReaderFirst'
      BY <1>1, <2>3, <3>1, HandlerKeepsReader, MainKeepsReader DEF Roles
    <3>3. SyncStep(t) => Roles'
      BY <1>1, <1>2, <3>1, <3>2, SyncKeepsRole DEF Roles
    <3>4. t = Main /\ SyncMain /\ Post("start", "client_reader", "post") => Roles'
      BY <1>1, <2>3, <3>1, <3>2, ConsumerPosted DEF Roles
    <3>5. t = Main /\ SyncMain /\ ~ Post("start", "client_reader", "post") => Roles'
      BY <1>1, <1>2, <2>3, <3>1, <3>2, MainKeepsRole DEF Roles
    <3> QED BY <2>3, <3>3, <3>4, <3>5
  <2>4. CASE program = "buf-server" /\ (ServerStep(t) \/ (t = Main /\ ServerMain))
    <3>1. program' = program
      BY <2>4, ServerKeepsServer
    <3> QED BY <1>1, <1>2, <1>3, <2>4, <3>1, ServerKeepsRole DEF Roles
  <2> QED BY <1>5, <2>1, <2>2, <2>3, <2>4 DEF ProgramStep
<1>6. ASSUME NEW t \in Threads, Dispatch(t)
      PROVE  Roles'
  BY <1>1, <1>6, DispatchKeepsConsumer, DispatchKeepsOwnHandlers, DispatchKeepsReader DEF Roles
<1>7. ASSUME NEW t \in Threads, ReceiveCompletes(t)
      PROVE  Roles'
  <2>1. program' = program
    BY <1>7 DEF ReceiveCompletes
  <2> QED BY <1>1, <1>2, <1>7, <2>1, RunKeepsRole, ArrivalKeepsReader DEF Roles
<1>8. ASSUME NEW t \in Threads, Leave(t)
      PROVE  Roles'
  <2>1. program' = program
    BY <1>8 DEF Leave, Proceed
  <2> QED BY <1>1, <1>2, <1>8, <2>1, RunKeepsRole, LeaveKeepsReader DEF Roles
<1> QED
  BY <1>4, <1>5, <1>6, <1>7, <1>8 DEF Next, ServiceStep, DatagramArrives

LEMMA RolesAtFirst == Init => Roles
<1> SUFFICES ASSUME Init PROVE Roles
  OBVIOUS
<1>1. /\ posted = <<>> /\ Len(posted) = 0 /\ pending = 0
      /\ at[Main] = "start" /\ Main \notin Workers
      /\ \A t \in Threads : at[t] \in {"start", "left", "run"}
      /\ \A w \in Workers : at[w] \in {"left", "run"}
  BY IoAssumption DEF Init, IoInit, Threads, IoAssumption
<1> QED
  BY <1>1 DEF Roles, OneConsumer, OwnHandlers, ReaderFirst, ConsumerToCome, Consuming

-----------------------------------------------------------------------------
(* The theorems *)

LEMMA InitHolds == Init => IInv
<1> SUFFICES ASSUME Init PROVE IInv
  OBVIOUS
<1>1. /\ program \in {"buf-moody", "buf-lockfree", "buf-sync", "buf-server"}
      /\ posted = <<>> /\ pending = 0 /\ stopped = FALSE /\ open = TRUE
      /\ data_buffer.packet = 0 /\ handed = <<>>
      /\ done = FALSE /\ destroyed = FALSE
  BY IoAssumption DEF IoAssumption, Init, IoInit, LockfreeInit, ServerInit
<1>2. /\ Main \in Threads /\ at[Main] = "start"
      /\ at \in [Threads -> {"start", "left", "run"}]
  BY DEF Init, IoInit, Threads
<1>3. IoTypeOK
  <2>1. at \in [Threads -> Places]
    BY <1>2 DEF Places
  <2>2. posted \in Seq(Postable) /\ handed \in Seq(Nat)
    BY <1>1
  <2>3. pending \in Nat /\ data_buffer.packet \in Nat
    BY <1>1
  <2>4. stopped \in BOOLEAN /\ open \in BOOLEAN
    BY <1>1
  <2> QED
    BY <1>1, <2>1, <2>2, <2>3, <2>4 DEF IoTypeOK
<1>4. Quiet /\ data_buffer.packet = Len(handed) /\ InOrder
  BY <1>1, <1>2 DEF Quiet, NonePosted, NoneHandled, InOrder, Receiving
<1>5. Service
  BY <1>1, <1>3, <1>4 DEF Service, OneReceive
<1>6. Lockfree /\ Sync
  BY <1>1, <1>2 DEF Lockfree, Sync
<1>7. Server
  <2>1. \A t \in Threads : at[t] # "end"
    BY <1>2
  <2> QED
    BY <1>1, <1>2, <2>1 DEF Server
<1> QED
  BY <1>5, <1>6, <1>7 DEF IInv

\* IInv holds in every reachable state, whatever the number of workers.
THEOREM InvariantHolds == Spec => []IInv
<1>1. IInv /\ [Next]_vars => IInv'
  <2> SUFFICES ASSUME IInv, [Next]_vars PROVE IInv'
    OBVIOUS
  <2>1. CASE UNCHANGED vars
    BY <2>1 DEF vars, ioVars, lockfreeVars, serverVars, IInv, Service, IoTypeOK, OneReceive,
      Quiet, Waiting, Posted, Handled, Fresh, NonePosted, NoneHandled, InOrder, Lockfree,
      Sync, Server, WorkersLeft, ReaderPosted, ReaderRuns, Due
  <2>2. CASE Next
    <3>1. PICK t \in Threads : ProgramStep(t) \/ ServiceStep(t) \/ DatagramArrives(t)
      BY <2>2 DEF Next
    <3>2. CASE ProgramStep(t)
      BY <3>2, MoodyKeeps, LockfreeKeeps, SyncKeeps, ServerKeeps DEF ProgramStep
    <3>3. CASE ServiceStep(t)
      BY <3>3, DispatchKeeps, LeaveKeeps DEF ServiceStep, lockfreeVars, serverVars
    <3>4. CASE DatagramArrives(t)
      BY <3>4, ArrivalKeeps DEF DatagramArrives, lockfreeVars, serverVars
    <3> QED
      BY <3>1, <3>2, <3>3, <3>4
  <2> QED
    BY <2>1, <2>2
<1> QED
  BY <1>1, InitHolds, PTL DEF Spec

\* Every datagram is handed to the program's queue once, in order, and before
\* data_buffer is filled again: receive_data and decode_data of src/*.cxx.
THEOREM DatagramsHandedOver == Spec => []HandsOverEachDatagram
<1>1. IInv => HandsOverEachDatagram
  <2> SUFFICES ASSUME IInv PROVE HandsOverEachDatagram
    OBVIOUS
  <2>1. \A k \in 1..Len(handed) : handed[k] = k
    BY DEF IInv, Service, InOrder
  <2>2. Len(handed) \in Nat
    BY DEF IInv, Service, IoTypeOK
  <2>3. \E d \in {0, 1} : data_buffer.packet = Len(handed) + d
    <3>1. \A h : Due(h) \in {0, 1}
      BY DueValues
    <3>2. CASE data_buffer.packet = Len(handed)
      BY <2>2, <3>2
    <3>3. CASE Posted \/ Handled
      BY <3>1, <3>3 DEF Posted, Handled
    <3> QED
      BY <3>2, <3>3 DEF IInv, Service, OneReceive
  <2> QED
    BY <2>1, <2>2, <2>3 DEF HandsOverEachDatagram
<1> QED
  BY <1>1, InvariantHolds, PTL

\* buf-lockfree: when main sets done no worker is in a handler, and receive_data
\* never closes the socket (src/buf-lockfree.cxx:67).
THEOREM DoneIsLate == Spec => []DoneAfterTheWorkers
<1>1. IInv => DoneAfterTheWorkers
  BY DEF IInv, Lockfree, WorkersLeft, DoneAfterTheWorkers
<1> QED
  BY <1>1, InvariantHolds, PTL

\* buf-sync: main leaves join_all only if no worker ever began client_reader.
THEOREM ReaderHoldsMain == Spec => []ReaderKeepsMainInJoin
<1>1. IInv => ReaderKeepsMainInJoin
  <2> SUFFICES ASSUME IInv, program = "buf-sync", at[Main] = "returned"
               PROVE  \E k \in DOMAIN posted : posted[k] = "client_reader"
    BY DEF ReaderKeepsMainInJoin
  <2>1. ReaderPosted \/ ReaderRuns
    BY DEF IInv, Sync
  <2>2. ~ReaderRuns
    BY DEF IInv, Sync, ReaderRuns, WorkersLeft
  <2>3. DOMAIN posted = 1..Len(posted)
    BY DEF IInv, Service, IoTypeOK
  <2> QED
    BY <2>1, <2>2, <2>3 DEF ReaderPosted
<1> QED
  BY <1>1, InvariantHolds, PTL

\* buf-server: main destroys the Server without a join, yet no handler of the
\* Server runs then, whatever thread ran the last one.
THEOREM ServerOutlives == Spec => []ServerOutlivesHandlers
<1>1. IInv => ServerOutlivesHandlers
  <2> SUFFICES ASSUME IInv, destroyed, NEW t \in Threads
               PROVE  at[t] \notin {"handle_data", "decode_data", "decoded", "end"}
    BY DEF ServerOutlivesHandlers
  <2>1. Quiet /\ at[t] # "end"
    BY DEF IInv, Server
  <2> QED
    BY <2>1 DEF Quiet, NoneHandled, Receiving
<1> QED
  BY <1>1, InvariantHolds, PTL

\* At most one element: at most one thread in a role
LEMMA AtMostOne ==
  ASSUME NEW S, \A x, y \in S : x = y
  PROVE  IsFiniteSet(S) /\ Cardinality(S) \in {0, 1} /\ (S = {} => Cardinality(S) = 0)
<1>1. CASE S = {}
  BY <1>1, FS_EmptySet
<1>2. CASE S # {}
  <2>1. PICK x \in S : TRUE
    BY <1>2
  <2>2. S = {x}
    BY <2>1
  <2> QED BY <1>2, <2>2, FS_Singleton
<1> QED
  BY <1>1, <1>2

\* Roles holds in every reachable state.
LEMMA RolesHold == Spec => []Roles
<1>1. IInv /\ IInv' /\ Roles /\ [Next]_vars => Roles'
  BY RolesKept
<1> QED
  BY <1>1, RolesAtFirst, InvariantHolds, PTL DEF Spec

\* One receive at a time: waiting, posted or handled
LEMMA CountOfReceives ==
  ASSUME Service
  PROVE  pending + Cardinality({t \in Threads : at[t] \in Receiving})
           + Cardinality({k \in DOMAIN posted : posted[k] \in Receiving}) <= 1
<1> DEFINE T == {t \in Threads : at[t] \in Receiving}
           K == {k \in DOMAIN posted : posted[k] \in Receiving}
<1>1. DOMAIN posted = 1..Len(posted)
  BY DEF Service, IoTypeOK
<1>2. /\ NoneHandled <=> T = {}
      /\ NonePosted <=> K = {}
  BY <1>1 DEF NoneHandled, NonePosted
<1>3. /\ \A x, y \in T : x = y
      /\ \A x, y \in K : x = y
      /\ \/ T = {} /\ K = {} /\ pending \in {0, 1}
         \/ T = {} /\ pending = 0
         \/ K = {} /\ pending = 0
  <2>1. CASE Quiet \/ Waiting
    BY <1>2, <2>1 DEF Quiet, Waiting
  <2>2. CASE Posted
    BY <1>1, <1>2, <2>2 DEF Posted
  <2>3. CASE Handled
    BY <1>2, <2>3 DEF Handled
  <2> QED BY <2>1, <2>2, <2>3 DEF Service, OneReceive
<1> HIDE DEF T, K
<1>4. /\ Cardinality(T) \in {0, 1} /\ (T = {} => Cardinality(T) = 0)
      /\ Cardinality(K) \in {0, 1} /\ (K = {} => Cardinality(K) = 0)
  BY <1>3, AtMostOne
<1>5. pending + Cardinality(T) + Cardinality(K) <= 1
  BY <1>3, <1>4
<1> QED
  BY <1>5 DEF T, K

\* In buf-sync one of the two workers is in client_reader when the other fills the queue.
LEMMA OneProduces ==
  ASSUME TwoWorkers, IInv, Roles, NEW s \in Threads, NEW t \in Threads,
         at[s] \in Producing, at[t] \in Producing
  PROVE  s = t
<1>1. Service /\ Sync /\ Threads = Workers \cup {Main}
  BY DEF IInv, Threads
<1>2. CASE program = "buf-sync"
  <2>1. s \in Workers /\ t \in Workers
    BY <1>1, <1>2 DEF Sync, Producing
  <2>2. PICK w \in Workers : at[w] = "client_reader"
    BY <1>2, <2>1 DEF Roles, ReaderFirst, ReaderRuns, Producing
  <2>3. s # w /\ t # w
    BY <2>2 DEF Producing
  <2> QED BY <2>1, <2>2, <2>3 DEF TwoWorkers
<1>3. CASE program # "buf-sync"
  <2>1. at[s] # "client_writer" /\ at[t] # "client_writer"
    BY <1>3 DEF Roles, OwnHandlers
  <2>2. at[s] \in Receiving /\ at[t] \in Receiving
    BY <2>1 DEF Producing, Receiving
  <2> QED BY <1>1, <2>2, HandledBy
<1> QED
  BY <1>2, <1>3

\* With the two workers that main creates, never are two threads in handlers that
\* fill a program's queue or in two that empty it, and there is one receive.
\* A third worker would let two client_writers of buf-sync (src/buf-sync.cxx:83)
\* run at the same time.
THEOREM SingleProducerSingleConsumer ==
  ASSUME TwoWorkers
  PROVE  Spec => []OneProducerOneConsumer
<1>1. IInv /\ Roles => OneProducerOneConsumer
  <2> SUFFICES ASSUME IInv, Roles PROVE OneProducerOneConsumer
    OBVIOUS
  <2>1. Service
    BY DEF IInv
  <2>2. Cardinality({t \in Threads : at[t] \in Producing}) <= 1
    <3> DEFINE S == {t \in Threads : at[t] \in Producing}
    <3>1. \A x, y \in S : x = y
      BY OneProduces
    <3> HIDE DEF S
    <3>2. Cardinality(S) <= 1
      BY <3>1, AtMostOne
    <3> QED BY <3>2 DEF S
  <2>3. Cardinality({t \in Threads : at[t] \in Consuming}) <= 1
    <3> DEFINE S == {t \in Threads : at[t] \in Consuming}
    <3>1. \A x, y \in S : x = y
      BY DEF Roles, OneConsumer
    <3> HIDE DEF S
    <3>2. Cardinality(S) <= 1
      BY <3>1, AtMostOne
    <3> QED BY <3>2 DEF S
  <2> QED BY <2>1, <2>2, <2>3, CountOfReceives DEF OneProducerOneConsumer
<1> QED
  BY <1>1, InvariantHolds, RolesHold, PTL

-----------------------------------------------------------------------------
(* buf-moody counts what it takes *)

Datagram == [packet : Nat, length : Nat, trailers : SUBSET Nat]

\* The queue holds the datagrams enqueued last, and offers all but the newest
\* while the enqueuer is in signal.
QueueOK ==
  /\ sent \in Nat /\ fifo \in Seq(Nat) /\ available \in Nat /\ offering \in BOOLEAN
  /\ Len(fifo) = available + (IF offering THEN 1 ELSE 0) /\ Len(fifo) <= sent
  /\ \A k \in 1..Len(fifo) : fifo[k] = sent - Len(fifo) + k
  /\ contents \in Seq(Datagram) /\ Len(contents) = sent

\* Who counts has the datagram that left the queue last.
Taken ==
  \A t \in Threads : at[t] = "count" => cret = sent - Len(fifo) /\ cret >= 1

\* Each datagram has a trailer, and is no shorter than the one before it.
Growing ==
  \A n \in 1..Len(contents) :
    /\ contents[n].length \in 1..UDP_LEN
    /\ n > 1 => contents[n - 1].length <= contents[n].length

OneTrailer == Growing => \A n \in 1..Len(contents) : contents[n].trailers = {contents[n].length}

LastTrailers == IF contents = <<>> THEN {} ELSE contents[Len(contents)].trailers
Overlaid(trailers, len) == {i \in trailers : i > len} \cup ({len} \cap 1..UDP_LEN)

\* data_buffer keeps the trailers that the datagram in it did not overwrite.
BufferOK ==
  program = "buf-moody" =>
    /\ data_buffer \in Datagram
    /\ Len(handed) = sent
    /\ data_buffer.trailers =
         IF data_buffer.packet = Len(handed) THEN LastTrailers
         ELSE Overlaid(LastTrailers, data_buffer.length)

Counting == {t \in Threads : at[t] = "count"}

CountsInv == QueueOK /\ Taken /\ OneTrailer /\ BufferOK /\ CountsEachDatagram

\* A sequence and one more element
LEMMA AppendFacts ==
  ASSUME NEW S, NEW f \in Seq(S), NEW e \in S
  PROVE  /\ Append(f, e) \in Seq(S) /\ Len(Append(f, e)) = Len(f) + 1
         /\ Append(f, e)[Len(f) + 1] = e
         /\ \A k \in 1..Len(f) : Append(f, e)[k] = f[k]
OBVIOUS

\* A run of serial numbers that ends with n goes on with n + 1,
LEMMA RunGrows ==
  ASSUME NEW n \in Nat, NEW f \in Seq(Nat), Len(f) <= n,
         \A k \in 1..Len(f) : f[k] = n - Len(f) + k
  PROVE  /\ Append(f, n + 1) \in Seq(Nat) /\ Len(Append(f, n + 1)) = Len(f) + 1
         /\ \A k \in 1..Len(f) + 1 : Append(f, n + 1)[k] = n - Len(f) + k
<1>1. Len(f) \in Nat /\ \A k \in 1..Len(f) + 1 : k \in 1..Len(f) \/ k = Len(f) + 1
  OBVIOUS
<1>2. /\ Append(f, n + 1) \in Seq(Nat) /\ Len(Append(f, n + 1)) = Len(f) + 1
      /\ Append(f, n + 1)[Len(f) + 1] = n + 1
      /\ \A k \in 1..Len(f) : Append(f, n + 1)[k] = f[k]
  BY AppendFacts
<1>3. n - Len(f) + (Len(f) + 1) = n + 1
  BY <1>1
<1> QED
  BY <1>1, <1>2, <1>3

\* and its first one is n less the others.
LEMMA RunShrinks ==
  ASSUME NEW n \in Nat, NEW f \in Seq(Nat), f # <<>>, Len(f) <= n,
         \A k \in 1..Len(f) : f[k] = n - Len(f) + k
  PROVE  /\ Tail(f) \in Seq(Nat) /\ Len(Tail(f)) = Len(f) - 1 /\ Len(f) >= 1
         /\ Head(f) = n - Len(f) + 1
         /\ \A k \in 1..Len(f) - 1 : Tail(f)[k] = n - Len(f) + (k + 1)
<1>1. Len(f) \in Nat /\ Len(f) >= 1
  OBVIOUS
<1>2. /\ Tail(f) \in Seq(Nat) /\ Len(Tail(f)) = Len(f) - 1 /\ Head(f) = f[1]
      /\ \A k \in 1..Len(f) - 1 : Tail(f)[k] = f[k + 1]
  BY <1>1
<1>3. 1 \in 1..Len(f) /\ \A k \in 1..Len(f) - 1 : k + 1 \in 1..Len(f)
  BY <1>1
<1> QED
  BY <1>1, <1>2, <1>3

\* Steps that leave the queue alone, outside "count"
LEMMA QueueStays ==
  ASSUME IoTypeOK, OneConsumer, QueueOK, Taken, OneTrailer, CountsEachDatagram,
         NEW t \in Threads, NEW from, NEW to, Goto(t, from, to), from # "count", to # "count",
         UNCHANGED <<fifo, sent, available, offering, contents, n_packet>>,
         cret' = cret \/ from \in Consuming
  PROVE  QueueOK' /\ Taken' /\ OneTrailer' /\ CountsEachDatagram'
<1>1. at[t] = from /\ at'[t] = to /\ \A s \in Threads : s # t => at'[s] = at[s]
  BY DEF Goto, IoTypeOK
<1>2. QueueOK'
  BY DEF QueueOK
<1>3. Growing' => Growing
  BY DEF Growing
<1>4. OneTrailer'
  BY <1>3 DEF OneTrailer
<1>5. \A s \in Threads : at'[s] = "count" <=> at[s] = "count"
  BY <1>1
<1>6. ASSUME NEW s \in Threads, at[s] = "count" PROVE cret' = cret
  <2>1. "count" \in Consuming
    BY DEF Consuming
  <2>2. s # t
    BY <1>1, <1>6
  <2> QED BY <1>1, <1>6, <2>1, <2>2 DEF OneConsumer
<1>7. Taken'
  BY <1>5, <1>6 DEF Taken
<1>8. Counting' = Counting
  BY <1>5 DEF Counting
<1>9. CountsEachDatagram'
  BY <1>3, <1>8 DEF CountsEachDatagram, Counted, Counting, Growing
<1> QED
  BY <1>2, <1>4, <1>7, <1>9

LEMMA BufferStays ==
  ASSUME BufferOK, UNCHANGED <<program, data_buffer, handed, contents, sent>>
  PROVE  BufferOK'
BY DEF BufferOK, LastTrailers

\* A datagram overlays the one before, which was handed over.
LEMMA BufferReceives ==
  ASSUME BufferOK, program = "buf-moody", Receive, data_buffer.packet = Len(handed),
         UNCHANGED <<program, handed, contents, sent>>
  PROVE  BufferOK'
<1>1. data_buffer \in Datagram /\ data_buffer.trailers = LastTrailers
  BY DEF BufferOK
<1>2. PICK len \in Lengths :
        data_buffer' = [packet |-> data_buffer.packet + 1, length |-> len,
                        trailers |-> {i \in data_buffer.trailers : i > len}
                                       \cup ({len} \cap 1..UDP_LEN)]
  BY DEF Receive
<1>3. len \in Nat /\ data_buffer.packet \in Nat /\ data_buffer.trailers \subseteq Nat
  BY <1>1, IoAssumption DEF IoAssumption, Datagram
<1>4. /\ data_buffer'.packet = data_buffer.packet + 1
      /\ data_buffer'.length = len
      /\ data_buffer'.trailers = Overlaid(LastTrailers, len)
  BY <1>1, <1>2 DEF Overlaid
<1>5. data_buffer' \in Datagram
  BY <1>2, <1>3 DEF Datagram
<1>6. LastTrailers' = LastTrailers
  BY DEF LastTrailers
<1>7. data_buffer'.packet # Len(handed')
  BY <1>3, <1>4
<1> QED
  BY <1>4, <1>5, <1>6, <1>7 DEF BufferOK

\* enqueue: the datagram in data_buffer is the newest element.
LEMMA EnqueueCounts ==
  ASSUME Service, OneConsumer, CountsInv, program = "buf-moody", NEW t \in Threads,
         MoodyEnqueue(t)
  PROVE  CountsInv'
<1>1. /\ at[t] = "receive_data" /\ at'[t] = "signal"
      /\ \A s \in Threads : s # t => at'[s] = at[s]
      /\ ~ offering /\ fifo' = Append(fifo, sent + 1) /\ sent' = sent + 1
      /\ offering' = TRUE /\ available' = available /\ cret' = cret
      /\ contents' = Append(contents, data_buffer)
      /\ handed' = Append(handed, data_buffer.packet)
      /\ program' = program /\ data_buffer' = data_buffer /\ n_packet' = n_packet
  BY DEF MoodyEnqueue, Goto, Queue!Put, Queue!consVars, Hand, Service, IoTypeOK
<1>2. /\ sent \in Nat /\ fifo \in Seq(Nat) /\ available \in Nat /\ offering \in BOOLEAN
      /\ Len(fifo) = available + (IF offering THEN 1 ELSE 0) /\ Len(fifo) <= sent
      /\ \A k \in 1..Len(fifo) : fifo[k] = sent - Len(fifo) + k
      /\ contents \in Seq(Datagram) /\ Len(contents) = sent
      /\ data_buffer \in Datagram /\ Len(handed) = sent
      /\ handed \in Seq(Nat) /\ data_buffer.packet \in Nat
      /\ Len(fifo) \in Nat
  BY DEF CountsInv, QueueOK, BufferOK, Service, IoTypeOK
<1>3. /\ fifo' \in Seq(Nat) /\ Len(fifo') = Len(fifo) + 1
      /\ \A k \in 1..Len(fifo) + 1 : fifo'[k] = sent - Len(fifo) + k
  <2>1. Len(fifo) <= sent /\ \A k \in 1..Len(fifo) : fifo[k] = sent - Len(fifo) + k
    BY <1>2
  <2>2. sent \in Nat /\ fifo \in Seq(Nat) /\ fifo' = Append(fifo, sent + 1)
    BY <1>1, <1>2
  <2> QED BY <2>1, <2>2, RunGrows
<1>4. /\ contents' \in Seq(Datagram) /\ Len(contents') = sent + 1
      /\ contents'[sent + 1] = data_buffer
      /\ \A n \in 1..sent : contents'[n] = contents[n]
  <2>1. contents \in Seq(Datagram) /\ data_buffer \in Datagram /\ Len(contents) = sent
        /\ contents' = Append(contents, data_buffer)
    BY <1>1, <1>2
  <2> QED BY <2>1, AppendFacts
<1>5. QueueOK'
  <2>1. \A k \in 1..Len(fifo') : fifo'[k] = sent' - Len(fifo') + k
    <3>1. sent \in Nat /\ Len(fifo) \in Nat /\ sent' = sent + 1 /\ Len(fifo') = Len(fifo) + 1
      BY <1>1, <1>2, <1>3
    <3>2. sent' - Len(fifo') = sent - Len(fifo)
      BY <3>1
    <3> QED BY <1>3, <3>2
  <2>2. offering = FALSE
    BY <1>1, <1>2
  <2>3. Len(fifo') = available' + 1 /\ Len(fifo') <= sent'
    BY <1>1, <1>2, <1>3, <2>2
  <2> QED BY <1>1, <1>2, <1>3, <1>4, <2>1, <2>3, SMTT(30) DEF QueueOK
<1>6. \A s \in Threads : at'[s] = "count" <=> at[s] = "count"
  BY <1>1
<1>7. Taken'
  BY <1>1, <1>2, <1>3, <1>6, SMTT(30) DEF CountsInv, Taken
<1>8. Len(handed') = sent' /\ data_buffer.packet = Len(handed) + 1
  <2>1. Due("receive_data") = 1 /\ "receive_data" \in Receiving
    BY DEF Due, Receiving
  <2>2. data_buffer.packet = Len(handed) + 1
    BY <1>1, <2>1, HandledBy
  <2> QED BY <1>1, <1>2, <2>2
<1>9. BufferOK'
  <2>1. contents' # <<>> /\ LastTrailers' = data_buffer.trailers
    BY <1>2, <1>4 DEF LastTrailers
  <2>2. data_buffer'.packet = Len(handed')
    BY <1>1, <1>2, <1>8
  <2> QED BY <1>1, <1>2, <1>8, <2>1, <2>2 DEF BufferOK
<1>10. Growing' => Growing
  <2> SUFFICES ASSUME Growing', NEW n \in 1..Len(contents)
               PROVE  /\ contents[n].length \in 1..UDP_LEN
                      /\ n > 1 => contents[n - 1].length <= contents[n].length
    BY DEF Growing
  <2>1. n \in 1..Len(contents') /\ contents'[n] = contents[n]
    BY <1>2, <1>4
  <2>2. n > 1 => contents'[n - 1] = contents[n - 1]
    <3>1. n > 1 => n - 1 \in 1..sent
      BY <1>2
    <3> QED BY <1>4, <3>1
  <2> QED BY <2>1, <2>2 DEF Growing
<1>11. OneTrailer'
  <2> SUFFICES ASSUME Growing', NEW n \in 1..Len(contents')
               PROVE  contents'[n].trailers = {contents'[n].length}
    BY DEF OneTrailer
  <2>1. CASE n \in 1..sent
    BY <1>2, <1>4, <1>10, <2>1 DEF CountsInv, OneTrailer
  <2>2. CASE n = sent + 1
    <3>1. data_buffer.trailers = Overlaid(LastTrailers, data_buffer.length)
      BY <1>2, <1>8 DEF CountsInv, BufferOK
    <3>2. data_buffer.length \in 1..UDP_LEN
      BY <1>4, <2>2 DEF Growing
    <3>3. \A i \in LastTrailers : ~ (i > data_buffer.length)
      <4>1. CASE contents = <<>>
        BY <4>1 DEF LastTrailers
      <4>2. CASE contents # <<>>
        <5>1. sent >= 1 /\ sent \in 1..Len(contents) /\ sent + 1 \in 1..Len(contents')
          BY <1>2, <1>4, <4>2
        <5>2. contents'[sent].length <= contents'[sent + 1].length
          <6>1. sent + 1 > 1 /\ (sent + 1) - 1 = sent
            BY <1>2, <5>1
          <6> QED BY <5>1, <6>1 DEF Growing
        <5>3. contents[sent].length <= data_buffer.length
          BY <1>2, <1>4, <5>1, <5>2
        <5>4. contents[sent].trailers = {contents[sent].length}
          BY <1>10, <5>1 DEF CountsInv, OneTrailer
        <5>5. LastTrailers = {contents[sent].length}
          BY <1>2, <4>2, <5>4 DEF LastTrailers
        <5>6. contents[sent].length \in Nat /\ data_buffer.length \in Nat
          <6>1. contents[sent] \in Datagram /\ data_buffer \in Datagram
            BY <1>2, <5>1
          <6> QED BY <6>1 DEF Datagram
        <5> QED BY <5>3, <5>5, <5>6
      <4> QED BY <4>1, <4>2
    <3>4. data_buffer.trailers = {data_buffer.length}
      BY <3>1, <3>2, <3>3 DEF Overlaid
    <3> QED BY <1>4, <2>2, <3>4
  <2> QED BY <1>2, <1>4, <2>1, <2>2, SMTT(30)
<1>12. CountsEachDatagram'
  <2>1. Counting' = Counting
    BY <1>6 DEF Counting
  <2>2. sent' - Len(fifo') = sent - Len(fifo)
    <3>1. sent \in Nat /\ Len(fifo) \in Nat /\ sent' = sent + 1 /\ Len(fifo') = Len(fifo) + 1
      BY <1>1, <1>2, <1>3
    <3> QED BY <3>1
  <2>3. Counted' = Counted
    BY <2>1, <2>2 DEF Counted, Counting
  <2>4. (Growing => n_packet = Counted) => (Growing' => n_packet' = Counted')
    BY <1>1, <1>10, <2>3
  <2> QED BY <2>4 DEF CountsInv, CountsEachDatagram, Growing
<1> QED
  BY <1>5, <1>7, <1>9, <1>11, <1>12 DEF CountsInv

\* signal makes the element available.
LEMMA SignalCounts ==
  ASSUME Service, OneConsumer, CountsInv, NEW t \in Threads, MoodySignal(t)
  PROVE  CountsInv'
<1>1. /\ at[t] = "signal" /\ at'[t] = "check"
      /\ \A s \in Threads : s # t => at'[s] = at[s]
      /\ offering /\ available' = available + 1 /\ offering' = FALSE
      /\ fifo' = fifo /\ sent' = sent /\ cret' = cret
      /\ contents' = contents /\ handed' = handed
      /\ program' = program /\ data_buffer' = data_buffer /\ n_packet' = n_packet
  BY DEF MoodySignal, Proceed, Goto, Queue!Offer, Queue!consVars, Service, IoTypeOK
<1>2. QueueOK'
  <2>1. QueueOK /\ available \in Nat /\ available' \in Nat
    BY <1>1 DEF CountsInv, QueueOK
  <2>2. Len(fifo') = available' + (IF offering' THEN 1 ELSE 0)
    <3>1. Len(fifo) = available + 1
      BY <1>1, <2>1 DEF QueueOK
    <3> QED BY <1>1, <2>1, <3>1
  <2> QED BY <1>1, <2>1, <2>2 DEF QueueOK
<1>3. Growing' => Growing
  BY <1>1 DEF Growing
<1>4. \A s \in Threads : at'[s] = "count" <=> at[s] = "count"
  BY <1>1
<1>5. Taken' /\ OneTrailer'
  BY <1>1, <1>3, <1>4 DEF CountsInv, Taken, OneTrailer
<1>6. Counting' = Counting
  BY <1>4 DEF Counting
<1>7. CountsEachDatagram'
  BY <1>1, <1>3, <1>6 DEF CountsInv, CountsEachDatagram, Counted, Counting, Growing
<1>8. BufferOK'
  BY <1>1, BufferStays DEF CountsInv
<1> QED
  BY <1>2, <1>5, <1>7, <1>8 DEF CountsInv

\* The consumer takes the oldest element.
LEMMA DequeueCounts ==
  ASSUME Service, OneConsumer, CountsInv, NEW t \in Threads,
         Proceed(t, "dequeue", "count"), Queue!DequeueDone,
         UNCHANGED <<contents, n_packet>>
  PROVE  CountsInv'
<1>1. /\ at[t] = "dequeue" /\ at'[t] = "count"
      /\ \A s \in Threads : s # t => at'[s] = at[s]
      /\ available > 0 /\ available' = available - 1 /\ offering' = offering
      /\ cret' = Head(fifo) /\ fifo' = Tail(fifo) /\ sent' = sent
      /\ contents' = contents /\ handed' = handed
      /\ program' = program /\ data_buffer' = data_buffer /\ n_packet' = n_packet
  BY DEF Proceed, Goto, Queue!DequeueDone, Queue!prodVars, Service, IoTypeOK
<1>2. /\ sent \in Nat /\ fifo \in Seq(Nat) /\ available \in Nat /\ offering \in BOOLEAN
      /\ Len(fifo) = available + (IF offering THEN 1 ELSE 0) /\ Len(fifo) <= sent
      /\ \A k \in 1..Len(fifo) : fifo[k] = sent - Len(fifo) + k
      /\ contents \in Seq(Datagram) /\ Len(contents) = sent
  BY DEF CountsInv, QueueOK
<1>3. Len(fifo) \in Nat /\ Len(fifo) >= 1 /\ fifo # <<>>
  BY <1>1, <1>2
<1>4. /\ fifo' \in Seq(Nat) /\ Len(fifo') = Len(fifo) - 1
      /\ Head(fifo) = sent - Len(fifo) + 1
      /\ \A k \in 1..Len(fifo) - 1 : fifo'[k] = sent - Len(fifo) + (k + 1)
  <2>1. /\ Len(fifo) <= sent /\ fifo # <<>>
        /\ \A k \in 1..Len(fifo) : fifo[k] = sent - Len(fifo) + k
    BY <1>2, <1>3
  <2>2. sent \in Nat /\ fifo \in Seq(Nat) /\ fifo' = Tail(fifo)
    BY <1>1, <1>2
  <2> QED BY <2>1, <2>2, RunShrinks
<1>5. QueueOK'
  <2>1. \A k \in 1..Len(fifo') : fifo'[k] = sent' - Len(fifo') + k
    <3>1. sent \in Nat /\ Len(fifo) \in Nat /\ sent' = sent /\ Len(fifo') = Len(fifo) - 1
      BY <1>1, <1>2, <1>3, <1>4
    <3>2. \A k \in 1..Len(fifo) - 1 : sent - Len(fifo) + (k + 1) = sent' - Len(fifo') + k
      BY <3>1
    <3> QED BY <1>4, <3>1, <3>2
  <2>2. Len(fifo') = available' + (IF offering' THEN 1 ELSE 0) /\ Len(fifo') <= sent'
        /\ available' \in Nat
    <3>1. /\ available \in Nat /\ available > 0 /\ Len(fifo) \in Nat /\ sent \in Nat
          /\ Len(fifo) = available + (IF offering THEN 1 ELSE 0) /\ Len(fifo) <= sent
          /\ Len(fifo') = Len(fifo) - 1 /\ available' = available - 1
          /\ offering' = offering /\ sent' = sent
      BY <1>1, <1>2, <1>3, <1>4
    <3> QED BY <3>1
  <2> QED BY <1>1, <1>2, <1>4, <2>1, <2>2 DEF QueueOK
<1>6. "count" \in Consuming /\ "dequeue" \in Consuming
  BY DEF Consuming
<1>7. \A s \in Threads : at[s] # "count"
  <2> SUFFICES ASSUME NEW s \in Threads, at[s] = "count" PROVE FALSE
    OBVIOUS
  <2> QED BY <1>1, <1>6 DEF OneConsumer
<1>8. Counting = {} /\ Counting' = {t}
  BY <1>1, <1>7 DEF Counting
<1>9. Taken'
  <2>1. cret' = sent' - Len(fifo') /\ cret' >= 1
    BY <1>1, <1>2, <1>3, <1>4
  <2> QED BY <2>1 DEF Taken
<1>10. Growing' => Growing
  BY <1>1 DEF Growing
<1>11. OneTrailer'
  BY <1>1, <1>10 DEF CountsInv, OneTrailer
<1>12. Counted' = Counted
  <2>1. Cardinality(Counting) = 0 /\ Cardinality(Counting') = 1
    BY <1>8, FS_EmptySet, FS_Singleton
  <2>2. sent \in Nat /\ Len(fifo) \in Nat /\ sent' = sent /\ Len(fifo') = Len(fifo) - 1
    BY <1>1, <1>2, <1>3, <1>4
  <2>3. sent' - Len(fifo') - Cardinality(Counting') = sent - Len(fifo) - Cardinality(Counting)
    BY <2>1, <2>2
  <2> QED BY <2>3 DEF Counted, Counting
<1>13. CountsEachDatagram'
  <2>1. (Growing => n_packet = Counted) => (Growing' => n_packet' = Counted')
    BY <1>1, <1>10, <1>12
  <2> QED BY <2>1 DEF CountsInv, CountsEachDatagram, Growing
<1>14. BufferOK'
  BY <1>1, BufferStays DEF CountsInv
<1> QED
  BY <1>5, <1>9, <1>11, <1>13, <1>14 DEF CountsInv

\* The consumer counts the one trailer of the datagram it took.
LEMMA TrailerCounted ==
  ASSUME Service, OneConsumer, CountsInv, NEW t \in Threads, MoodyCount(t)
  PROVE  CountsInv'
<1>1. /\ at[t] = "count" /\ at'[t] = "read_data"
      /\ \A s \in Threads : s # t => at'[s] = at[s]
      /\ fifo' = fifo /\ sent' = sent /\ available' = available /\ offering' = offering
      /\ contents' = contents /\ handed' = handed
      /\ program' = program /\ data_buffer' = data_buffer
      /\ n_packet' = n_packet + Cardinality(contents[cret].trailers)
  BY DEF MoodyCount, Proceed, Goto, queueVars, Service, IoTypeOK
<1>2. QueueOK'
  BY <1>1 DEF CountsInv, QueueOK
<1>3. \A s \in Threads : at[s] = "count" => s = t
  <2>1. "count" \in Consuming
    BY DEF Consuming
  <2> QED BY <1>1, <2>1 DEF OneConsumer
<1>4. Counting = {t} /\ Counting' = {}
  BY <1>1, <1>3 DEF Counting
<1>5. Taken'
  BY <1>1, <1>3 DEF Taken
<1>6. Growing' <=> Growing
  BY <1>1 DEF Growing
<1>7. OneTrailer'
  BY <1>1, <1>6 DEF CountsInv, OneTrailer
<1>8. ASSUME Growing PROVE n_packet' = n_packet + 1
  <2>1. /\ sent \in Nat /\ Len(fifo) \in Nat /\ Len(contents) = sent
        /\ cret = sent - Len(fifo) /\ cret >= 1
    BY <1>1 DEF CountsInv, QueueOK, Taken
  <2>2. cret \in 1..Len(contents)
    BY <2>1
  <2>3. contents[cret].trailers = {contents[cret].length}
    BY <1>8, <2>2 DEF CountsInv, OneTrailer
  <2>4. Cardinality(contents[cret].trailers) = 1
    BY <2>3, FS_Singleton
  <2> QED BY <1>1, <2>4
<1>9. Counted' = Counted + 1 /\ Counted \in Int
  <2>1. Cardinality(Counting) = 1 /\ Cardinality(Counting') = 0
    BY <1>4, FS_EmptySet, FS_Singleton
  <2>2. sent \in Nat /\ Len(fifo) \in Nat
    BY DEF CountsInv, QueueOK
  <2> QED BY <1>1, <2>1, <2>2 DEF Counted, Counting
<1>10. CountsEachDatagram'
  <2>1. Growing => n_packet = Counted
    BY DEF CountsInv, CountsEachDatagram, Growing
  <2>2. Growing' => n_packet' = Counted'
    BY <1>6, <1>8, <1>9, <2>1
  <2> QED BY <2>2 DEF CountsEachDatagram, Growing
<1>11. BufferOK'
  BY <1>1, BufferStays DEF CountsInv
<1> QED
  BY <1>2, <1>5, <1>7, <1>10, <1>11 DEF CountsInv

\* The other steps of a thread, of the service or of main
LEMMA OthersCount ==
  ASSUME IoTypeOK, OneConsumer, CountsInv,
         NEW t \in Threads, NEW from, NEW to, Goto(t, from, to), from # "count", to # "count",
         UNCHANGED <<program, fifo, sent, available, offering, contents, n_packet>>,
         UNCHANGED <<data_buffer, handed>> \/ BufferOK',
         cret' = cret \/ from \in Consuming
  PROVE  CountsInv'
BY QueueStays, BufferStays DEF CountsInv

LEMMA MoodyCounts ==
  ASSUME Service, OneConsumer, CountsInv, program = "buf-moody", NEW t \in Threads,
         MoodyStep(t) \/ (t = Main /\ MoodyMain)
  PROVE  CountsInv'
<1>1. IoTypeOK /\ BufferOK
  BY DEF Service, CountsInv
<1>2. CASE t = Main /\ MoodyMain
  <2>1. UNCHANGED <<fifo, sent, available, offering, contents, n_packet, cret>>
    BY <1>2 DEF MoodyMain, moodyVars, queueVars
  <2>2. \/ Post("start", "handle_data", "post") \/ Post("post", "read_data", "poll")
        \/ Stop(Main, "poll", "join") \/ Proceed(Main, "join", "returned")
    BY <1>2 DEF MoodyMain, Join
  <2>3. UNCHANGED <<program, data_buffer, handed>>
    BY <2>2 DEF Post, Stop, Proceed
  <2>4. \/ Goto(Main, "start", "post") \/ Goto(Main, "post", "poll")
        \/ Goto(Main, "poll", "join") \/ Goto(Main, "join", "returned")
    BY <2>2 DEF Post, Stop, Proceed
  <2> QED BY <1>1, <1>2, <2>1, <2>3, <2>4, OthersCount
<1>3. CASE HandleData(t) /\ UNCHANGED moodyVars
  <2>1. UNCHANGED <<program, fifo, sent, available, offering, contents, n_packet, cret, handed>>
    BY <1>3 DEF HandleData, moodyVars, queueVars
  <2>2. Goto(t, "handle_data", "run") /\ AsyncReceive
    BY <1>3 DEF HandleData
  <2>3. open /\ data_buffer.packet = Len(handed)
    <3>1. at[t] = "handle_data" /\ at[t] \in Receiving /\ Due(at[t]) = 0
      BY <2>2 DEF Goto, Receiving, Due
    <3>2. open /\ data_buffer.packet = Len(handed) + 0
      BY <3>1, HandledBy
    <3>3. Len(handed) \in Nat
      BY <1>1 DEF IoTypeOK
    <3> QED BY <3>2, <3>3
  <2>4. data_buffer' = data_buffer \/ Receive
    BY <2>2, <2>3 DEF AsyncReceive
  <2>5. UNCHANGED <<data_buffer, handed>> \/ BufferOK'
    BY <1>1, <2>1, <2>3, <2>4, BufferReceives
  <2> QED BY <1>1, <2>1, <2>2, <2>5, OthersCount
<1>4. CASE MoodyEnqueue(t)
  BY <1>4, EnqueueCounts
<1>5. CASE MoodySignal(t)
  BY <1>5, SignalCounts
<1>6. CASE MoodyCheck(t)
  <2>1. UNCHANGED <<program, fifo, sent, available, offering, contents, n_packet, cret,
                    data_buffer, handed>>
    BY <1>6 DEF MoodyCheck, Proceed, moodyVars, queueVars
  <2>2. Goto(t, "check", "handle_data") \/ Goto(t, "check", "run")
    BY <1>6 DEF MoodyCheck, Proceed
  <2> QED BY <1>1, <2>1, <2>2, OthersCount
<1>7. CASE MoodyPeek(t)
  <2>1. UNCHANGED <<program, fifo, sent, available, offering, contents, n_packet,
                    data_buffer, handed>>
    BY <1>7 DEF MoodyPeek, Proceed, queueVars, Queue!Peek, Queue!prodVars
  <2>2. Goto(t, "read_data", "run") \/ Goto(t, "read_data", "peeked")
    BY <1>7 DEF MoodyPeek, Proceed
  <2>3. "read_data" \in Consuming
    BY DEF Consuming
  <2> QED BY <1>1, <2>1, <2>2, <2>3, OthersCount
<1>8. CASE MoodyDequeue(t)
  <2>1. CASE Proceed(t, "dequeue", "count") /\ Queue!DequeueDone
    BY <1>8, <2>1, DequeueCounts DEF MoodyDequeue
  <2>2. CASE \/ Proceed(t, "peeked", "read_data") /\ UNCHANGED queueVars
             \/ Proceed(t, "peeked", "read_data") /\ Queue!AnswerAtOnce("try_dequeue")
             \/ Proceed(t, "peeked", "dequeue") /\ Queue!DequeueCall("try_dequeue")
             \/ Proceed(t, "dequeue", "read_data") /\ Queue!AnswerFalse
    <3>1. UNCHANGED <<program, fifo, sent, available, offering, contents, n_packet,
                      data_buffer, handed>>
      BY <1>8, <2>2 DEF MoodyDequeue, Proceed, queueVars, Queue!AnswerAtOnce,
                        Queue!DequeueCall, Queue!AnswerFalse, Queue!prodVars
    <3>2. \/ Goto(t, "peeked", "read_data") \/ Goto(t, "peeked", "dequeue")
          \/ Goto(t, "dequeue", "read_data")
      BY <2>2 DEF Proceed
    <3>3. "peeked" \in Consuming /\ "dequeue" \in Consuming
      BY DEF Consuming
    <3> QED BY <1>1, <3>1, <3>2, <3>3, OthersCount
  <2> QED BY <1>8, <2>1, <2>2 DEF MoodyDequeue
<1>9. CASE MoodyCount(t)
  BY <1>9, TrailerCounted
<1> QED
  BY <1>2, <1>3, <1>4, <1>5, <1>6, <1>7, <1>8, <1>9 DEF MoodyStep

\* What the service does while buf-moody runs
LEMMA ServiceCounts ==
  ASSUME Service, OneConsumer, CountsInv, program = "buf-moody", NEW t \in Threads,
         ServiceStep(t) \/ DatagramArrives(t)
  PROVE  CountsInv'
<1>1. IoTypeOK /\ BufferOK
  BY DEF Service, CountsInv
<1>2. UNCHANGED <<fifo, sent, available, offering, contents, n_packet, cret>>
  BY DEF ServiceStep, DatagramArrives, moodyVars, queueVars
<1>3. CASE Dispatch(t)
  <2>1. Len(posted) > 0 /\ posted[1] \in Postable
    BY <1>3, Dispatches
  <2>2. Goto(t, "run", posted[1]) /\ UNCHANGED <<program, data_buffer, handed>>
    BY <1>1, <1>3, <2>1 DEF Dispatch, IoTypeOK
  <2>3. posted[1] # "count"
    BY <2>1 DEF Postable
  <2> QED BY <1>1, <1>2, <2>2, <2>3, OthersCount
<1>4. CASE Leave(t)
  <2>1. Goto(t, "run", "left") /\ UNCHANGED <<program, data_buffer, handed>>
    BY <1>4 DEF Leave, Proceed
  <2> QED BY <1>1, <1>2, <2>1, OthersCount
<1>5. CASE ReceiveCompletes(t)
  <2>1. Goto(t, "run", Completion) /\ Receive /\ UNCHANGED <<program, handed>> /\ pending > 0
    BY <1>5 DEF ReceiveCompletes
  <2>2. data_buffer.packet = Len(handed)
    BY <2>1 DEF Service, OneReceive, Quiet, Waiting, Posted, Handled
  <2>3. BufferOK'
    BY <1>1, <1>2, <2>1, <2>2, BufferReceives
  <2>4. Completion # "count"
    BY DEF Completion
  <2> QED BY <1>1, <1>2, <2>1, <2>3, <2>4, OthersCount
<1> QED
  BY <1>3, <1>4, <1>5 DEF ServiceStep, DatagramArrives

\* The other programs have no such queue.
LEMMA OtherProgramsCount ==
  ASSUME CountsInv, OwnHandlers, OwnHandlers', program # "buf-moody", program' = program,
         UNCHANGED moodyVars
  PROVE  CountsInv'
<1>1. UNCHANGED <<fifo, sent, available, offering, contents, n_packet, cret>>
  BY DEF moodyVars, queueVars
<1>2. /\ \A t \in Threads : at[t] # "count"
      /\ \A t \in Threads : at'[t] # "count"
  BY DEF OwnHandlers
<1>3. Counting = {} /\ Counting' = {}
  BY <1>2 DEF Counting
<1>4. Counted' = Counted
  BY <1>1, <1>3 DEF Counted, Counting
<1>5. Growing' <=> Growing
  BY <1>1 DEF Growing
<1>6. CountsEachDatagram'
  <2>1. (Growing => n_packet = Counted) => (Growing' => n_packet' = Counted')
    BY <1>1, <1>4, <1>5
  <2> QED BY <2>1 DEF CountsInv, CountsEachDatagram, Growing
<1>7. QueueOK'
  BY <1>1 DEF CountsInv, QueueOK
<1>8. OneTrailer' /\ Taken'
  BY <1>1, <1>2, <1>5 DEF CountsInv, OneTrailer, Taken
<1>9. BufferOK'
  BY DEF BufferOK
<1> QED
  BY <1>6, <1>7, <1>8, <1>9 DEF CountsInv

LEMMA CountsKept ==
  ASSUME IInv, Roles, Roles', CountsInv, [Next]_vars
  PROVE  CountsInv'
<1>1. Service /\ OneConsumer /\ OwnHandlers /\ OwnHandlers'
  BY DEF IInv, Roles
<1>2. CASE UNCHANGED vars
  <2>1. UNCHANGED <<program, at, data_buffer, handed, fifo, sent, available, offering,
                    contents, n_packet, cret>>
    BY <1>2 DEF vars, ioVars, moodyVars, queueVars
  <2> QED
    BY <2>1 DEF CountsInv, QueueOK, Taken, OneTrailer, BufferOK, LastTrailers,
                CountsEachDatagram, Counted, Growing
<1>3. ASSUME NEW t \in Threads, ProgramStep(t) \/ ServiceStep(t) \/ DatagramArrives(t),
             program # "buf-moody"
      PROVE  CountsInv'
  <2>1. UNCHANGED moodyVars
    BY <1>3 DEF ProgramStep, ServiceStep, DatagramArrives
  <2>2. program' = program
    <3>1. (LockfreeStep(t) \/ LockfreeMain) /\ program = "buf-lockfree" => program' = program
      BY <1>1, LockfreeService
    <3>2. (SyncStep(t) \/ SyncMain) /\ program = "buf-sync" => program' = program
      BY <1>1, SyncService
    <3>3. (ServerStep(t) \/ ServerMain) /\ program = "buf-server" => program' = program
      BY ServerKeepsServer
    <3>4. Dispatch(t) \/ Leave(t) \/ ReceiveCompletes(t) => program' = program
      BY DEF Dispatch, Leave, Proceed, ReceiveCompletes
    <3> QED BY <1>3, <3>1, <3>2, <3>3, <3>4 DEF ProgramStep, ServiceStep, DatagramArrives
  <2> QED BY <1>1, <1>3, <2>1, <2>2, OtherProgramsCount
<1>4. ASSUME NEW t \in Threads, ProgramStep(t) \/ ServiceStep(t) \/ DatagramArrives(t),
             program = "buf-moody"
      PROVE  CountsInv'
  <2>1. ProgramStep(t) => MoodyStep(t) \/ (t = Main /\ MoodyMain)
    BY <1>4 DEF ProgramStep
  <2> QED BY <1>1, <1>4, <2>1, MoodyCounts, ServiceCounts
<1> QED
  BY <1>2, <1>3, <1>4 DEF Next

LEMMA CountsAtFirst == Init => CountsInv
<1> SUFFICES ASSUME Init PROVE CountsInv
  OBVIOUS
<1>1. /\ fifo = <<>> /\ sent = 0 /\ available = 0 /\ offering = FALSE
      /\ contents = <<>> /\ n_packet = 0 /\ handed = <<>>
      /\ data_buffer = [packet |-> 0, length |-> 0, trailers |-> {}]
      /\ \A t \in Threads : at[t] # "count"
  <2>1. fifo = <<>> /\ sent = 0 /\ available = 0 /\ offering = FALSE
    BY DEF Init, MoodyInit, Queue!Init
  <2>2. contents = <<>> /\ n_packet = 0
    BY DEF Init, MoodyInit
  <2>3. handed = <<>> /\ data_buffer = [packet |-> 0, length |-> 0, trailers |-> {}]
    BY DEF Init, IoInit
  <2>4. \A t \in Threads : at[t] # "count"
    BY DEF Init, IoInit
  <2> QED BY <2>1, <2>2, <2>3, <2>4
<1>2. /\ Len(fifo) = 0 /\ Len(contents) = 0 /\ Len(handed) = 0
      /\ fifo \in Seq(Nat) /\ contents \in Seq(Datagram)
  BY <1>1
<1>3. QueueOK
  <2>1. Len(fifo) = available + (IF offering THEN 1 ELSE 0) /\ Len(fifo) <= sent
    BY <1>1, <1>2
  <2>2. \A k \in 1..Len(fifo) : fifo[k] = sent - Len(fifo) + k
    BY <1>2
  <2>3. sent \in Nat /\ available \in Nat /\ offering \in BOOLEAN
    BY <1>1
  <2> QED BY <1>1, <1>2, <2>1, <2>2, <2>3 DEF QueueOK
<1>4. Taken /\ OneTrailer
  BY <1>1, <1>2 DEF Taken, OneTrailer
<1>5. BufferOK
  BY <1>1, <1>2 DEF BufferOK, LastTrailers, Datagram
<1>6. Counting = {}
  BY <1>1 DEF Counting
<1>7. Counted = 0
  <2>1. Cardinality(Counting) = 0
    BY <1>6, FS_EmptySet
  <2> QED BY <1>1, <1>2, <2>1 DEF Counted, Counting
<1>8. CountsEachDatagram
  BY <1>1, <1>7 DEF CountsEachDatagram
<1> QED
  BY <1>3, <1>4, <1>5, <1>8 DEF CountsInv

\* buf-moody counts one trailer per datagram taken, as long as every datagram has
\* its trailer within the buffer and is no shorter than the one before
\* (src/buf-moody.cxx: the words of a longer datagram stay in data_buffer).
THEOREM TrailersCounted == Spec => []CountsEachDatagram
<1>1. IInv /\ Roles /\ Roles' /\ CountsInv /\ [Next]_vars => CountsInv'
  BY CountsKept
<1>2. CountsInv => CountsEachDatagram
  BY DEF CountsInv
<1> QED
  BY <1>1, <1>2, CountsAtFirst, InvariantHolds, RolesHold, PTL DEF Spec
=============================================================================
