------------------------------ MODULE IoService ------------------------------
(***************************************************************************)
(* What the UDP programs (src/*.cxx) share: an io_service with its threads *)
(* in run(), one socket, and the buffer that every datagram is received    *)
(* into.  boost::asio is external; this is what the programs use of it:    *)
(*   - handlers are run in the order in which they were posted, each by    *)
(*     one of the threads in run();                                        *)
(*   - a receive completes at once if a datagram is waiting (its handler   *)
(*     is posted) or later, by a thread that has nothing else to run;      *)
(*   - after stop() no handler is begun and every thread returns from      *)
(*     run() when its handler ends.  The work object keeps it there until  *)
(*     then.                                                               *)
(*                                                                         *)
(* Datagrams are numbered as they are received.  They end with a trailer   *)
(* word, which buf-moody counts.                                           *)
(***************************************************************************)
EXTENDS Integers, Sequences, FiniteSets

CONSTANTS
  Programs,       \* the programs to run: "buf-moody", "buf-lockfree", ...
  Workers,        \* threads created to call run()
  ServerWorkers,  \* those that buf-server creates
  UDP_LEN,        \* words of the buffer
  Lengths,        \* words of the datagrams that may arrive
  Limit,          \* when main ends: 35000, 15000 or 10000 in the programs
  MaxDatagrams    \* bound: datagrams received in total

Main == "main"
Threads == Workers \cup {Main}

ASSUME IoAssumption ==
  /\ Programs \subseteq {"buf-moody", "buf-lockfree", "buf-sync", "buf-server"}
  /\ Main \notin Workers /\ ServerWorkers \subseteq Workers
  /\ UDP_LEN \in Nat \ {0} /\ Lengths \subseteq Nat
  /\ Limit \in Nat /\ MaxDatagrams \in Nat

VARIABLES
  program,      \* which one is run
  at,           \* control of each thread: "run" is in run() without a handler
  posted,       \* handlers posted and not begun
  pending,      \* receive operations that wait for a datagram
  stopped,      \* service->stopped()
  open,         \* udpsocket->is_open()
  data_buffer,  \* datagram received last, its length, positions of trailer words
  handed        \* history: the datagrams handed to the program's queue

ioVars == <<program, at, posted, pending, stopped, open, data_buffer, handed>>

IoInit ==
  /\ program \in Programs
  /\ at = [t \in Threads |->
       IF t = Main THEN "start"
       ELSE IF program = "buf-server" /\ t \notin ServerWorkers THEN "left" ELSE "run"]
  /\ posted = <<>> /\ pending = 0
  /\ stopped = FALSE /\ open = TRUE
  /\ data_buffer = [packet |-> 0, length |-> 0, trailers |-> {}]
  /\ handed = <<>>

-----------------------------------------------------------------------------
Goto(t, from, to) == at[t] = from /\ at' = [at EXCEPT ![t] = to]

\* The handler that the program binds to its receives
Completion == IF program = "buf-server" THEN "decode_data" ELSE "receive_data"

\* A datagram overwrites as many words as it has and fits.
Receive ==
  /\ data_buffer.packet < MaxDatagrams
  /\ \E len \in Lengths :
       data_buffer' = [packet |-> data_buffer.packet + 1, length |-> len,
                       trailers |-> {i \in data_buffer.trailers : i > len}
                                      \cup ({len} \cap 1..UDP_LEN)]

\* async_receive_from into data_buffer; on a closed socket it fails at once.
AsyncReceive ==
  \/ pending' = pending + 1 /\ UNCHANGED <<posted, data_buffer>>
  \/ /\ IF open THEN Receive ELSE UNCHANGED data_buffer
     /\ posted' = Append(posted, Completion)
     /\ UNCHANGED pending

\* udpsocket->close(): receives that wait end with an error.
Close ==
  /\ open' = FALSE
  /\ posted' = posted \o [i \in 1..pending |-> Completion]
  /\ pending' = 0

\* The program takes what is in data_buffer.
Hand == handed' = Append(handed, data_buffer.packet)

-----------------------------------------------------------------------------
Dispatch(t) ==
  /\ ~stopped /\ posted # <<>>
  /\ Goto(t, "run", Head(posted))
  /\ posted' = Tail(posted)
  /\ UNCHANGED <<program, pending, stopped, open, data_buffer, handed>>

ReceiveCompletes(t) ==
  /\ ~stopped /\ pending > 0
  /\ Goto(t, "run", Completion)
  /\ Receive
  /\ pending' = pending - 1
  /\ UNCHANGED <<program, posted, stopped, open, handed>>

Leave(t) ==
  /\ stopped
  /\ Goto(t, "run", "left")
  /\ UNCHANGED <<program, posted, pending, stopped, open, data_buffer, handed>>

\* service->post by the main thread
Post(from, handler, to) ==
  /\ Goto(Main, from, to)
  /\ posted' = Append(posted, handler)
  /\ UNCHANGED <<program, pending, stopped, open, data_buffer, handed>>

\* service->stop
Stop(t, from, to) ==
  /\ Goto(t, from, to)
  /\ stopped' = TRUE
  /\ UNCHANGED <<program, posted, pending, open, data_buffer, handed>>

\* handle_data: every program's begins the next receive and returns; the return
\* accesses nothing shared, so both are one step.
HandleData(t) ==
  /\ Goto(t, "handle_data", "run")
  /\ AsyncReceive
  /\ UNCHANGED <<program, stopped, open, handed>>

\* A step of a handler that leaves the service alone
Proceed(t, from, to) ==
  /\ Goto(t, from, to)
  /\ UNCHANGED <<program, posted, pending, stopped, open, data_buffer, handed>>

\* group.join_all
Join(to) ==
  /\ \A w \in Workers : at[w] = "left"
  /\ Proceed(Main, "join", to)
=============================================================================
