------------------------------ MODULE BufServer ------------------------------
(***************************************************************************)
(* buf-server (src/buf-server.cxx, src/server.cxx): the main thread calls  *)
(* Server::listen, which starts one worker and runs the service itself.    *)
(* Datagrams go to a bounded_buffer nobody reads (push_front never blocks  *)
(* and is left out).  When main returns it destroys the Server without     *)
(* waiting for the worker.                                                 *)
(***************************************************************************)
EXTENDS IoService

VARIABLES
  counter,     \* n_count, incremented through a reference
  destroyed    \* the Server object is gone

serverVars == <<counter, destroyed>>

ServerInit == counter = 0 /\ destroyed = FALSE

ServerMain ==
  \/ Post("start", "handle_data", "run") /\ UNCHANGED serverVars
  \/ /\ Proceed(Main, "left", "returned")
     /\ destroyed' = TRUE
     /\ UNCHANGED counter

\* decode_data up to add_to_buffer
ServerDecode(t) ==
  /\ Goto(t, "decode_data", "decoded")
  /\ Hand
  /\ UNCHANGED <<program, posted, pending, stopped, open, data_buffer, serverVars>>

\* mutant: handle_data is not in an else branch
ServerCountAndGoOn(t) ==
  /\ \/ Proceed(t, "decoded", "handle_data") /\ counter < Limit
     \/ Stop(t, "decoded", "handle_data") /\ counter >= Limit
  /\ counter' = counter + 1
  /\ UNCHANGED destroyed

\* counter++; end() or handle_data
ServerCount(t) ==
  /\ counter' = counter + 1
  /\ Proceed(t, "decoded", IF counter' > Limit THEN "end" ELSE "handle_data")
  /\ UNCHANGED destroyed

ServerEnd(t) == Stop(t, "end", "run") /\ UNCHANGED serverVars

ServerStep(t) ==
  \/ HandleData(t) /\ UNCHANGED serverVars
  \/ ServerDecode(t) \/ ServerCount(t) \/ ServerEnd(t)

\* No handler accesses the Server once it is destroyed: the one that stops the
\* service begins no receive, and after stop() it only returns (server.cxx 207-211),
\* which is part of the step ServerEnd.
ServerOutlivesHandlers ==
  destroyed => \A t \in Threads : at[t] \notin {"handle_data", "decode_data", "decoded", "end"}
=============================================================================
