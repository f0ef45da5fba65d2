--------------------------- MODULE TelnetConnection ---------------------------
(***************************************************************************)
(* What the telnet service may count on for one connection: the promise of *)
(* MudTelnetProtocol.run (telnet/protocol/__init__.py), whoever reads,     *)
(* writes, negotiates or crashes inside of it. TelnetProtocol implements   *)
(* it; TelnetService is built of many.                                     *)
(***************************************************************************)
VARIABLES
  phase,           \* new, running, returned, raised: run() of the protocol
  shutdown_event,
  linked,          \* the game has been given the link
  listed,          \* the protocol is in TelnetService.sessions
  stalled          \* the client has stopped reading for good

vars == <<phase, shutdown_event, linked, listed, stalled>>

\* A connection is looked at from before handle_client makes its protocol or from
\* then on.
Init ==
  /\ phase \in {"new", "running"} /\ listed = (phase = "running")
  /\ shutdown_event = FALSE /\ linked = FALSE /\ stalled = FALSE

Begin ==
  /\ phase = "new"
  /\ phase' = "running" /\ listed' = TRUE
  /\ UNCHANGED <<shutdown_event, linked, stalled>>

\* By the client, the game, the service or a task that has raised.
ShutDown ==
  /\ phase = "running" /\ ~ shutdown_event
  /\ shutdown_event' = TRUE
  /\ UNCHANGED <<phase, linked, listed, stalled>>

Link ==
  /\ phase = "running" /\ ~ shutdown_event /\ ~ linked
  /\ linked' = TRUE
  /\ UNCHANGED <<phase, shutdown_event, listed, stalled>>

Stall ==
  /\ ~ stalled /\ stalled' = TRUE
  /\ UNCHANGED <<phase, shutdown_event, linked, listed>>

\* Only a run() that returns lets handle_client take the protocol out of sessions.
End ==
  /\ phase = "running" /\ shutdown_event
  /\ \/ phase' = "returned" /\ listed' = FALSE
     \/ phase' = "raised" /\ UNCHANGED listed
  /\ UNCHANGED <<shutdown_event, linked, stalled>>

Next == Begin \/ ShutDown \/ Link \/ Stall \/ End

Spec == Init /\ [][Next]_vars

\* A connection that is shut down comes to its end, if the client reads what is
\* still written to it.
Ends == shutdown_event ~> phase \in {"returned", "raised"} \/ stalled

\* A client gets to the game, whatever it answers to the negotiation.
Links == phase = "running" ~> linked \/ shutdown_event

FairSpec == Spec /\ Ends /\ Links
===============================================================================
