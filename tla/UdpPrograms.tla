----------------------------- MODULE UdpPrograms -----------------------------
(***************************************************************************)
(* The four UDP programs.  A behaviour is a run of one of them, chosen in  *)
(* the initial state; the variables of the others do not change.           *)
(***************************************************************************)
EXTENDS BufMoody, BufLockfree, BufSync, BufServer

vars == <<ioVars, moodyVars, lockfreeVars, syncVars, serverVars>>

Init == IoInit /\ MoodyInit /\ LockfreeInit /\ SyncInit /\ ServerInit

ProgramStep(t) ==
  \/ /\ program = "buf-moody"
     /\ MoodyStep(t) \/ (t = Main /\ MoodyMain)
     /\ UNCHANGED <<lockfreeVars, syncVars, serverVars>>
  \/ /\ program = "buf-lockfree"
     /\ LockfreeStep(t) \/ (t = Main /\ LockfreeMain)
     /\ UNCHANGED <<moodyVars, syncVars, serverVars>>
  \/ /\ program = "buf-sync"
     /\ SyncStep(t) \/ (t = Main /\ SyncMain)
     /\ UNCHANGED <<moodyVars, lockfreeVars, serverVars>>
  \/ /\ program = "buf-server"
     /\ ServerStep(t) \/ (t = Main /\ ServerMain)
     /\ UNCHANGED <<moodyVars, lockfreeVars, syncVars>>

ServiceStep(t) ==
  (Dispatch(t) \/ Leave(t)) /\ UNCHANGED <<moodyVars, lockfreeVars, syncVars, serverVars>>

DatagramArrives(t) ==
  ReceiveCompletes(t) /\ UNCHANGED <<moodyVars, lockfreeVars, syncVars, serverVars>>

Next == \E t \in Threads : ProgramStep(t) \/ ServiceStep(t) \/ DatagramArrives(t)

Spec == Init /\ [][Next]_vars

\* Every thread is scheduled; datagrams need not arrive.
Fairness == \A t \in Threads : WF_vars(ProgramStep(t) \/ ServiceStep(t))

FairSpec == Spec /\ Fairness

-----------------------------------------------------------------------------
\* Every datagram is handed to the program's queue once, in order, and before
\* data_buffer is filled again; no handler runs without a datagram of its own.
HandsOverEachDatagram ==
  /\ \A k \in 1..Len(handed) : handed[k] = k
  /\ data_buffer.packet \in Len(handed)..Len(handed) + 1

Producing ==
  {"receive_data", "signal", "push", "check", "client_writer", "decode_data", "decoded"}
Consuming == {"read_data", "peeked", "dequeue", "count", "pop", "popped", "client_reader"}

\* The handlers of a receive, from its start to the start of the next one
Receiving == {"handle_data", "receive_data", "signal", "push", "check", "decode_data", "decoded"}

\* The queues of buf-moody and buf-lockfree are for one producer and one
\* consumer, SynchronisedQueue::Enqueue takes no lock and data_buffer has none:
\* never are two threads in handlers that fill the queue, or in two that empty it,
\* and there is one receive at a time, be it posted, under way or handled.
OneProducerOneConsumer ==
  /\ pending + Cardinality({t \in Threads : at[t] \in Receiving})
       + Cardinality({k \in DOMAIN posted : posted[k] \in Receiving}) <= 1
  /\ Cardinality({t \in Threads : at[t] \in Producing}) <= 1
  /\ Cardinality({t \in Threads : at[t] \in Consuming}) <= 1

Enough ==
  CASE program = "buf-moody" -> n_packet >= Limit
    [] program = "buf-lockfree" -> consumer_count >= Limit
    [] program = "buf-sync" -> sends = Writers
    [] program = "buf-server" -> counter > Limit

\* Once it has enough a program ends, unless a worker is in client_reader.
RunEnds ==
  Enough ~> (at[Main] = "returned" \/ \E t \in Threads : at[t] = "client_reader")
=============================================================================
