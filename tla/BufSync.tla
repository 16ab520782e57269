------------------------------- MODULE BufSync -------------------------------
(***************************************************************************)
(* buf-sync (src/buf-sync.cxx): client_reader occupies one worker for      *)
(* good; the other one receives datagrams and runs the client_writers that *)
(* main posts.  SynchronisedQueue is here the number of its items;         *)
(* packet_count, which nothing reads, is left out.                         *)
(***************************************************************************)
EXTENDS IoService

CONSTANTS
  Writers,        \* bound: client_writers that main posts (10)
  WriterItems     \* bound: items that a client_writer enqueues (4)

VARIABLES
  m_queue,        \* items in the queue
  sends,          \* main's loop counter i
  written         \* how many items the client_writer that runs has enqueued

syncVars == <<m_queue, sends, written>>

SyncInit == m_queue = 0 /\ sends = 0 /\ written = 0

\* mutant: client_reader is posted after the rest
SyncMainReaderLast ==
  \/ Post("start", "handle_data", "loop") /\ UNCHANGED syncVars
  \/ sends < Writers /\ Post("loop", "client_writer", "loop") /\ sends' = sends + 1 /\ UNCHANGED <<m_queue, written>>
  \/ sends = Writers /\ Post("loop", "client_reader", "stop") /\ UNCHANGED syncVars
  \/ Stop(Main, "stop", "join") /\ UNCHANGED syncVars
  \/ Join("returned") /\ UNCHANGED syncVars

SyncMain ==
  \/ Post("start", "client_reader", "post") /\ UNCHANGED syncVars
  \/ Post("post", "handle_data", "loop") /\ UNCHANGED syncVars
  \/ sends < Writers /\ Post("loop", "client_writer", "loop") /\ sends' = sends + 1 /\ UNCHANGED <<m_queue, written>>
  \/ sends = Writers /\ Stop(Main, "loop", "join") /\ UNCHANGED syncVars
  \/ Join("returned") /\ UNCHANGED syncVars

SyncReceive(t) ==
  /\ Goto(t, "receive_data", "handle_data")
  /\ m_queue' = m_queue + 1
  /\ Hand
  /\ UNCHANGED <<program, posted, pending, stopped, open, data_buffer, sends, written>>

SyncWrite(t) ==
  /\ \/ /\ written < WriterItems
        /\ Proceed(t, "client_writer", "client_writer")
        /\ m_queue' = m_queue + 1 /\ written' = written + 1
     \/ /\ written = WriterItems
        /\ Proceed(t, "client_writer", "run")
        /\ written' = 0 /\ UNCHANGED m_queue
  /\ UNCHANGED sends

\* mutant: looks whether the service was stopped
SyncReadUntilStopped(t) ==
  /\ \/ m_queue > 0 /\ Proceed(t, "client_reader", "client_reader") /\ m_queue' = m_queue - 1
     \/ stopped /\ Proceed(t, "client_reader", "run") /\ UNCHANGED m_queue
  /\ UNCHANGED <<sends, written>>

\* client_reader dequeues, waiting for an item, and calls itself.
SyncRead(t) ==
  /\ m_queue > 0
  /\ Proceed(t, "client_reader", "client_reader")
  /\ m_queue' = m_queue - 1
  /\ UNCHANGED <<sends, written>>

SyncStep(t) ==
  \/ HandleData(t) /\ UNCHANGED syncVars
  \/ SyncReceive(t) \/ SyncWrite(t) \/ SyncRead(t)

\* main waits for ever in join_all: the worker that began client_reader never
\* comes back (line 92).
ReaderKeepsMainInJoin ==
  program = "buf-sync" /\ at[Main] = "returned" => \E k \in DOMAIN posted : posted[k] = "client_reader"
=============================================================================
