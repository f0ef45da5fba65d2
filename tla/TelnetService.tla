----------------------------- MODULE TelnetService -----------------------------
(***************************************************************************)
(* The telnet service of a portal with all of its clients: TelnetService   *)
(* of telnet/portal_services.py, and TLSTelnetService, which differs in a  *)
(* TLS context only. A client's connection, once its protocol runs, does   *)
(* what TelnetConnection says and TelnetProtocol shows.                    *)
(*                                                                         *)
(* handle_client waits twice: for its task to begin and for the look-up of *)
(* the client's host name, and in the protocol's run(). run() of the       *)
(* service waits for its shutdown_event, and then, as Python 3.14 does     *)
(* (pyproject.toml:4), in wait_closed() until no client's socket is open.  *)
(***************************************************************************)
EXTENDS FiniteSets

CONSTANT Clients

VARIABLES
  service,         \* run(): running, closing, stopped
  cancelled,       \* it was cancelled while it waited for its shutdown_event
  phase,           \* of each handle_client: away, accepted, running, returned, raised
  sockets,         \* the clients whose socket is open
  sessions,
  shutdown_event,  \* the clients whose protocol's shutdown_event is set
  linked,          \* those the game has been given
  stalled,         \* those that have stopped reading for good
  late             \* history: accepted, and without a protocol, at the cancellation

connectionVars == <<shutdown_event, linked, stalled>>
serviceVars == <<service, cancelled, late>>
vars == <<serviceVars, phase, sockets, sessions, connectionVars>>

TypeOK ==
  /\ service \in {"running", "closing", "stopped"} /\ cancelled \in BOOLEAN
  /\ phase \in [Clients -> {"away", "accepted", "running", "returned", "raised"}]
  /\ sockets \subseteq Clients /\ sessions \subseteq Clients
  /\ shutdown_event \subseteq Clients /\ linked \subseteq Clients
  /\ stalled \subseteq Clients /\ late \subseteq Clients

Init ==
  /\ service = "running" /\ cancelled = FALSE
  /\ phase = [c \in Clients |-> "away"]
  /\ sockets = {} /\ sessions = {}
  /\ shutdown_event = {} /\ linked = {} /\ stalled = {} /\ late = {}

-------------------------------------------------------------------------------
(* handle_client *)

Moves(c, from, to) == phase[c] = from /\ phase' = [phase EXCEPT ![c] = to]

\* Definitions named <action>_<bug> are mutants of the definition below them: no
\* action uses one, each shows that some property would notice the bug.

\* Mutant: the protocol is made and listed before the look-up.
Accept_ListedEarly(c) ==
  /\ service = "running"
  /\ Moves(c, "away", "accepted")
  /\ sockets' = sockets \cup {c} /\ sessions' = sessions \cup {c}
  /\ UNCHANGED <<serviceVars, connectionVars>>

Accept(c) ==
  /\ service = "running"
  /\ Moves(c, "away", "accepted")
  /\ sockets' = sockets \cup {c}
  /\ UNCHANGED <<serviceVars, sessions, connectionVars>>

\* The host name is known, or never will be: sessions.add and protocol.run().
Begin(c) ==
  /\ Moves(c, "accepted", "running")
  /\ sessions' = sessions \cup {c}
  /\ UNCHANGED <<serviceVars, sockets, connectionVars>>

\* Mutant: the protocol stays in sessions.
Return_StaysListed(c) ==
  /\ c \in shutdown_event /\ c \notin sockets
  /\ Moves(c, "running", "returned")
  /\ UNCHANGED <<serviceVars, sockets, sessions, connectionVars>>

\* The writer of the protocol has closed the socket, or lost it.
Return(c) ==
  /\ c \in shutdown_event /\ c \notin sockets
  /\ Moves(c, "running", "returned")
  /\ sessions' = sessions \ {c}
  /\ UNCHANGED <<serviceVars, sockets, connectionVars>>

\* sessions.remove is not in a finally clause. The stream's callback has failed,
\* so asyncio closes the socket.
Raise(c) ==
  /\ c \in shutdown_event
  /\ Moves(c, "running", "raised")
  /\ sockets' = sockets \ {c}
  /\ UNCHANGED <<serviceVars, sessions, connectionVars>>

-------------------------------------------------------------------------------
(* The connection, of its own accord *)

\* The socket is closed by the writer, or the connection is lost.
Close(c) ==
  /\ c \in sockets
  /\ sockets' = sockets \ {c}
  /\ UNCHANGED <<serviceVars, phase, sessions, connectionVars>>

ShutDown(c) ==
  /\ phase[c] = "running" /\ c \notin shutdown_event
  /\ shutdown_event' = shutdown_event \cup {c}
  /\ UNCHANGED <<serviceVars, phase, sockets, sessions, linked, stalled>>

Link(c) ==
  /\ phase[c] = "running" /\ c \notin shutdown_event \cup linked
  /\ linked' = linked \cup {c}
  /\ UNCHANGED <<serviceVars, phase, sockets, sessions, shutdown_event, stalled>>

Stall(c) ==
  /\ c \in sockets \ stalled
  /\ stalled' = stalled \cup {c}
  /\ UNCHANGED <<serviceVars, phase, sockets, sessions, shutdown_event, linked>>

-------------------------------------------------------------------------------
(* run() of the service *)

\* Mutant: only those in the game are told.
Cancel_OnlyLinked ==
  /\ service = "running"
  /\ service' = "closing" /\ cancelled' = TRUE
  /\ shutdown_event' = shutdown_event \cup (sessions \cap linked)
  /\ late' = {c \in Clients : phase[c] = "accepted"}
  /\ UNCHANGED <<phase, sockets, sessions, linked, stalled>>

\* Cancelled: every protocol in sessions is told, and the server takes no one more.
Cancel ==
  /\ service = "running"
  /\ service' = "closing" /\ cancelled' = TRUE
  /\ shutdown_event' = shutdown_event \cup sessions
  /\ late' = {c \in Clients : phase[c] = "accepted"}
  /\ UNCHANGED <<phase, sockets, sessions, linked, stalled>>

\* shutdown(): nobody is told.
Shutdown ==
  /\ service = "running"
  /\ service' = "closing"
  /\ UNCHANGED <<cancelled, late, phase, sockets, sessions, connectionVars>>

\* Mutant: it waits for its sessions, not for their sockets.
Stop_WaitsForSessions ==
  /\ service = "closing" /\ sessions = {}
  /\ service' = "stopped"
  /\ UNCHANGED <<cancelled, late, phase, sockets, sessions, connectionVars>>

\* wait_closed() returns.
Stop ==
  /\ service = "closing" /\ sockets = {}
  /\ service' = "stopped"
  /\ UNCHANGED <<cancelled, late, phase, sockets, sessions, connectionVars>>

\* Cancelled in wait_closed(), outside of the try: it tells nobody and ends.
CancelClosing ==
  /\ service = "closing"
  /\ service' = "stopped"
  /\ UNCHANGED <<cancelled, late, phase, sockets, sessions, connectionVars>>

-------------------------------------------------------------------------------
HandleClient(c) == Accept(c) \/ Begin(c) \/ Return(c) \/ Raise(c)
Connection(c) == Close(c) \/ ShutDown(c) \/ Link(c) \/ Stall(c)

Next == Cancel \/ Shutdown \/ Stop \/ CancelClosing
          \/ \E c \in Clients : HandleClient(c) \/ Connection(c)

Spec == Init /\ [][Next]_vars

\* The loop runs what is ready, the look-up of a host name has an end, and so has a
\* connection that is shut down whose client still reads (TelnetConnection!Ends).
Fairness ==
  /\ WF_vars(Stop)
  /\ \A c \in Clients :
       /\ WF_vars(Begin(c))
       /\ WF_vars(c \in shutdown_event \ stalled /\ (Close(c) \/ Return(c) \/ Raise(c)))

FairSpec == Spec /\ Fairness

-------------------------------------------------------------------------------
(* Properties *)

\* sessions holds the protocols that run and, since sessions.remove is skipped by a
\* run() that raises (portal_services.py:83), those that have crashed: no others are
\* left behind, and none that runs is missing, so that a cancellation reaches it.
SessionsAccounted == sessions = {c \in Clients : phase[c] \in {"running", "raised"}}

\* A service that was cancelled has told every client it waits for, but for one
\* that was accepted and not in sessions yet (portal_services.py:48 goes over a copy
\* that handle_client adds to later). Of no other is the game given the link after
\* the cancellation.
ToldUnlessLate ==
  cancelled => \A c \in Clients :
    phase[c] = "running" /\ c \notin shutdown_event => c \in late

\* A cancelled service comes to its end, unless it waits for a client that it has
\* not told or that does not read.
ServiceStops ==
  cancelled ~> service = "stopped" \/ \E c \in sockets : c \in late \cup stalled

\* What handle_client makes of each client is a connection as TelnetConnection has
\* it, whatever the service does meanwhile.
View(c) == INSTANCE TelnetConnection WITH
  phase <- IF phase[c] \in {"away", "accepted"} THEN "new" ELSE phase[c],
  shutdown_event <- c \in shutdown_event,
  linked <- c \in linked,
  listed <- c \in sessions,
  stalled <- c \in stalled

Connections == /\ \A c \in Clients : View(c)!Init
               /\ [][\A c \in Clients : [View(c)!Next]_(View(c)!vars)]_vars
===============================================================================
