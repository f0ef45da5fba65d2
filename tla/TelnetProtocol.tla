---------------------------- MODULE TelnetProtocol ----------------------------
(***************************************************************************)
(* One telnet connection: MudTelnetProtocol of telnet/protocol/__init__.py *)
(* from TelnetService.handle_client to its end.                            *)
(*                                                                         *)
(* run() is a task group of a socket reader, a socket writer and start(),  *)
(* which negotiates and then forwards what the game sends; run() itself    *)
(* waits for shutdown_event. The tasks are interleaved at their awaits.    *)
(* Cancelling a task takes effect before it does anything else, so it is   *)
(* part of the step that cancels. shutdown() never waits: its lock is held *)
(* over no real wait.                                                      *)
(*                                                                         *)
(* What a telnet option does with a message is in the options' own         *)
(* classes; here a message is one of a few kinds, by its effect on the     *)
(* connection.                                                             *)
(***************************************************************************)
EXTENDS Naturals, Sequences

CONSTANTS Messages,   \* the kinds of message this client sends
          GameItems,  \* the kinds of item the game sends
          MaxIn,      \* bound on what the link has been given by the client
          MaxOut,     \* bound on what has been queued for the client
          MaxGame     \* bound on the items of the game waiting on the link

(***************************************************************************)
(* line        text with a line end: LinkData for the game                 *)
(* negotiate   an option negotiation, answered                             *)
(* capability  an option tells what the client can do: LinkUpdate          *)
(* gmcp        a GMCP subnegotiation, which GMCPOption cannot take         *)
(* oversize    more than the buffers allow: ProtocolError                  *)
(***************************************************************************)
ASSUME MessagesAssumption ==
  Messages \subseteq {"line", "negotiate", "capability", "gmcp", "oversize"}
ASSUME GameItemsAssumption == GameItems \subseteq {"text", "gmcp", "disconnect"}
ASSUME BoundsAssumption == MaxIn \in Nat /\ MaxOut \in Nat /\ MaxGame \in Nat

None == "None"
NoReason == "no reason"
Reasons == {"client_disconnect", "connection_lost", "protocol_error", "link"}

VARIABLES
  sock,       \* the socket: open, eof (the client has closed), or reset
  stalled,    \* the client has stopped reading for good
  reader,     \* _run_socket_reader: reading, stuck, done, crashed
  writer,     \* _run_socket_writer: waiting, draining, closing, done, crashed
  start,      \* start(): new, negotiating, linked, done, crashed
  main,       \* run(): waiting, joining, returned, raised
  aborted,    \* the task group has cancelled its tasks after one raised
  shutdown_event,
  shutdown_reason,
  linked,
  link_disconnect_sent,
  uses_telnet,
  out_queue,  \* _tn_out_queue
  incoming,   \* all that was put on link.incoming_queue
  outgoing,   \* link.outgoing_queue
  sessions,   \* whether the protocol is in TelnetService.sessions
  cancelled,  \* TelnetService.run has been cancelled
  \* History, never read by an action:
  enqueued,   \* all that was put on _tn_out_queue
  written,    \* all that the writer took from it
  owed        \* how much of enqueued was there when shutdown_event was set

peerVars == <<sock, stalled>>
taskVars == <<reader, writer, start, main, aborted>>
flagVars == <<shutdown_event, shutdown_reason, linked, link_disconnect_sent,
              uses_telnet>>
queueVars == <<out_queue, incoming, outgoing>>
serviceVars == <<sessions, cancelled>>
historyVars == <<enqueued, written, owed>>
vars == <<peerVars, taskVars, flagVars, queueVars, serviceVars, historyVars>>

OutItems == {"neg", "text", None}
InItems == {"line", "update", "disconnect"}

TypeOK ==
  /\ sock \in {"open", "eof", "reset"} /\ stalled \in BOOLEAN
  /\ reader \in {"reading", "stuck", "done", "crashed"}
  /\ writer \in {"waiting", "draining", "closing", "done", "crashed"}
  /\ start \in {"new", "negotiating", "linked", "done", "crashed"}
  /\ main \in {"waiting", "joining", "returned", "raised"}
  /\ aborted \in BOOLEAN
  /\ shutdown_event \in BOOLEAN
  /\ shutdown_reason \in Reasons \cup {NoReason}
  /\ linked \in BOOLEAN /\ link_disconnect_sent \in BOOLEAN
  /\ uses_telnet \in BOOLEAN
  /\ out_queue \in Seq(OutItems) /\ incoming \in Seq(InItems)
  /\ outgoing \in Seq(GameItems)
  /\ sessions \in BOOLEAN /\ cancelled \in BOOLEAN
  /\ enqueued \in Seq(OutItems) /\ written \in Seq(OutItems) /\ owed \in Nat

\* handle_client has put the protocol in sessions and run() has made its tasks.
Init ==
  /\ sock = "open" /\ stalled = FALSE
  /\ reader = "reading" /\ writer = "waiting" /\ start = "new"
  /\ main = "waiting" /\ aborted = FALSE
  /\ shutdown_event = FALSE /\ shutdown_reason = NoReason
  /\ linked = FALSE /\ link_disconnect_sent = FALSE /\ uses_telnet = FALSE
  /\ out_queue = << >> /\ incoming = << >> /\ outgoing = << >>
  /\ sessions = TRUE /\ cancelled = FALSE
  /\ enqueued = << >> /\ written = << >> /\ owed = 0

-------------------------------------------------------------------------------
(* The client, the game and the service *)

PeerCloses ==
  /\ sock = "open" /\ sock' = "eof"
  /\ UNCHANGED <<stalled, taskVars, flagVars, queueVars, serviceVars, historyVars>>

PeerResets ==
  /\ sock # "reset" /\ sock' = "reset"
  /\ UNCHANGED <<stalled, taskVars, flagVars, queueVars, serviceVars, historyVars>>

PeerStalls ==
  /\ ~ stalled /\ stalled' = TRUE
  /\ UNCHANGED <<sock, taskVars, flagVars, queueVars, serviceVars, historyVars>>

GameSends(item) ==
  /\ linked /\ Len(outgoing) < MaxGame
  /\ outgoing' = Append(outgoing, item)
  /\ UNCHANGED <<peerVars, taskVars, flagVars, out_queue, incoming, serviceVars,
                 historyVars>>

Ended == main \in {"returned", "raised"}

\* TelnetService.run is cancelled: every protocol in sessions has its
\* shutdown_event set, past shutdown().
ServiceCancelled ==
  /\ ~ cancelled /\ ~ Ended
  /\ cancelled' = TRUE
  /\ shutdown_event' = TRUE
  /\ owed' = IF shutdown_event THEN owed ELSE Len(enqueued)
  /\ UNCHANGED <<peerVars, taskVars, shutdown_reason, linked, link_disconnect_sent,
                 uses_telnet, queueVars, sessions, enqueued, written>>

-------------------------------------------------------------------------------
(* shutdown() and the queue to the client *)

\* _tn_enqueue_outgoing_data.
Enqueue(item) ==
  /\ out_queue' = Append(out_queue, item)
  /\ enqueued' = Append(enqueued, item)

RoomToWrite == Len(enqueued) < MaxOut

\* Definitions named <action>_<bug> are mutants of the definition below them: no
\* action uses one, each shows that some property would notice the bug.

\* Mutant: the link is told of every shutdown, first or not.
Shutdown_Retold(reason, notify_link) ==
  /\ IF notify_link /\ linked
       THEN incoming' = Append(incoming, "disconnect") /\ link_disconnect_sent' = TRUE
       ELSE UNCHANGED <<incoming, link_disconnect_sent>>
  /\ IF shutdown_event
       THEN UNCHANGED <<shutdown_event, shutdown_reason, out_queue, enqueued, owed>>
       ELSE /\ shutdown_event' = TRUE /\ shutdown_reason' = reason
            /\ owed' = Len(enqueued)
            /\ Enqueue(None)

\* Mutant: the link is not told.
Shutdown_Untold(reason, notify_link) ==
  IF shutdown_event
    THEN UNCHANGED <<shutdown_event, shutdown_reason, link_disconnect_sent, incoming,
                     out_queue, enqueued, owed>>
    ELSE /\ shutdown_event' = TRUE /\ shutdown_reason' = reason
         /\ UNCHANGED <<link_disconnect_sent, incoming>>
         /\ owed' = Len(enqueued)
         /\ Enqueue(None)

Shutdown(reason, notify_link) ==
  IF shutdown_event
    THEN UNCHANGED <<shutdown_event, shutdown_reason, link_disconnect_sent, incoming,
                     out_queue, enqueued, owed>>
    ELSE /\ shutdown_event' = TRUE
         /\ shutdown_reason' = reason
         /\ IF notify_link /\ linked /\ ~ link_disconnect_sent
              THEN /\ incoming' = Append(incoming, "disconnect")
                   /\ link_disconnect_sent' = TRUE
              ELSE UNCHANGED <<incoming, link_disconnect_sent>>
         /\ owed' = Len(enqueued)
         /\ Enqueue(None)

-------------------------------------------------------------------------------
(* _run_socket_reader *)

CanReceive(m) ==
  /\ m \in Messages /\ reader = "reading" /\ sock # "reset"
  /\ Len(incoming) < MaxIn

ReceiveLine ==
  /\ CanReceive("line")
  /\ incoming' = Append(incoming, "line")
  /\ UNCHANGED <<peerVars, taskVars, flagVars, out_queue, outgoing, serviceVars,
                 historyVars>>

ReceiveNegotiate ==
  /\ CanReceive("negotiate") /\ RoomToWrite
  /\ uses_telnet' = TRUE
  /\ Enqueue("neg")
  /\ UNCHANGED <<peerVars, taskVars, shutdown_event, shutdown_reason, linked,
                 link_disconnect_sent, incoming, outgoing, serviceVars, written, owed>>

\* change_capabilities: the game is told only once there is a link.
ReceiveCapability ==
  /\ CanReceive("capability")
  /\ uses_telnet' = TRUE
  /\ incoming' = IF linked THEN Append(incoming, "update") ELSE incoming
  /\ UNCHANGED <<peerVars, taskVars, shutdown_event, shutdown_reason, linked,
                 link_disconnect_sent, out_queue, outgoing, serviceVars, historyVars>>

\* The reader crashes; its finally clause sets shutdown_event and nothing else.
ReceiveGmcp ==
  /\ CanReceive("gmcp")
  /\ uses_telnet' = TRUE
  /\ reader' = "crashed"
  /\ shutdown_event' = TRUE
  /\ owed' = IF shutdown_event THEN owed ELSE Len(enqueued)
  /\ UNCHANGED <<peerVars, writer, start, main, aborted, shutdown_reason, linked,
                 link_disconnect_sent, queueVars, serviceVars, enqueued, written>>

\* The bytes that cannot be parsed stay in the buffer, so the reader gets no
\* further, whatever else it reads.
ReceiveOversize ==
  /\ CanReceive("oversize")
  /\ reader' = "stuck"
  /\ Shutdown("protocol_error", TRUE)
  /\ UNCHANGED <<peerVars, writer, start, main, aborted, linked, uses_telnet,
                 outgoing, serviceVars, written>>

ReaderEnds ==
  /\ reader \in {"reading", "stuck"} /\ sock # "open"
  /\ reader' = "done"
  /\ Shutdown(IF sock = "eof" THEN "client_disconnect" ELSE "connection_lost", TRUE)
  /\ UNCHANGED <<peerVars, writer, start, main, aborted, linked, uses_telnet,
                 outgoing, serviceVars, written>>

-------------------------------------------------------------------------------
(* _run_socket_writer *)

\* write() and the wait in drain().
WriterWrites ==
  /\ writer = "waiting" /\ out_queue # << >> /\ Head(out_queue) # None
  /\ writer' = "draining"
  /\ written' = Append(written, Head(out_queue))
  /\ out_queue' = Tail(out_queue)
  /\ UNCHANGED <<peerVars, reader, start, main, aborted, flagVars, incoming, outgoing,
                 serviceVars, enqueued, owed>>

WriterDrained ==
  /\ writer = "draining" /\ ~ stalled /\ sock # "reset"
  /\ writer' = "waiting"
  /\ UNCHANGED <<peerVars, reader, start, main, aborted, flagVars, queueVars,
                 serviceVars, historyVars>>

\* drain() raises ConnectionResetError or BrokenPipeError.
WriterLost ==
  /\ writer = "draining" /\ sock = "reset"
  /\ writer' = "closing"
  /\ Shutdown("connection_lost", TRUE)
  /\ UNCHANGED <<peerVars, reader, start, main, aborted, linked, uses_telnet,
                 outgoing, serviceVars, written>>

WriterSentinel ==
  /\ writer = "waiting" /\ out_queue # << >> /\ Head(out_queue) = None
  /\ writer' = "closing"
  /\ written' = Append(written, None)
  /\ out_queue' = Tail(out_queue)
  /\ UNCHANGED <<peerVars, reader, start, main, aborted, flagVars, incoming, outgoing,
                 serviceVars, enqueued, owed>>

\* wait_closed() waits for the client to read the rest, and raises if the
\* connection was lost instead of closed.
WriterCloses ==
  /\ writer = "closing"
  /\ \/ ~ stalled /\ writer' = "done"
     \/ sock = "reset" /\ writer' \in {"done", "crashed"}
  /\ UNCHANGED <<peerVars, reader, start, main, aborted, flagVars, queueVars,
                 serviceVars, historyVars>>

-------------------------------------------------------------------------------
(* start() and _run_connection *)

\* The barrage of negotiations, as one item.
StartNegotiates ==
  /\ start = "new"
  /\ start' = "negotiating"
  /\ Enqueue("neg")
  /\ UNCHANGED <<peerVars, reader, writer, main, aborted, flagVars, incoming, outgoing,
                 serviceVars, written, owed>>

\* Mutant: shutdown_event is not looked at after the wait.
StartLinks_Unchecked ==
  /\ start = "negotiating"
  /\ start' = "linked" /\ linked' = TRUE
  /\ IF uses_telnet THEN UNCHANGED <<out_queue, enqueued>> ELSE Enqueue("text")
  /\ UNCHANGED <<peerVars, reader, writer, main, aborted, shutdown_event,
                 shutdown_reason, link_disconnect_sent, uses_telnet, incoming,
                 outgoing, serviceVars, written, owed>>

\* The options have all answered or the timeout has passed. A client that has
\* said nothing in telnet is warned; then the link goes to the game.
StartLinks ==
  /\ start = "negotiating"
  /\ IF shutdown_event
       THEN start' = "done" /\ UNCHANGED <<linked, out_queue, enqueued>>
       ELSE /\ start' = "linked" /\ linked' = TRUE
            /\ IF uses_telnet THEN UNCHANGED <<out_queue, enqueued>>
                              ELSE Enqueue("text")
  /\ UNCHANGED <<peerVars, reader, writer, main, aborted, shutdown_event,
                 shutdown_reason, link_disconnect_sent, uses_telnet, incoming,
                 outgoing, serviceVars, written, owed>>

Forward(item) ==
  /\ start = "linked" /\ outgoing # << >> /\ Head(outgoing) = item
  /\ outgoing' = Tail(outgoing)

ForwardText ==
  /\ Forward("text") /\ RoomToWrite
  /\ Enqueue("text")
  /\ UNCHANGED <<peerVars, taskVars, flagVars, incoming, serviceVars, written, owed>>

\* send_gmcp does nothing unless the client took the option, and then raises.
ForwardGmcp ==
  /\ Forward("gmcp")
  /\ start' \in {"linked", "crashed"}
  /\ UNCHANGED <<peerVars, reader, writer, main, aborted, flagVars, out_queue,
                 incoming, serviceVars, historyVars>>

ForwardDisconnect ==
  /\ Forward("disconnect")
  /\ start' = "done"
  /\ Shutdown("link", FALSE)
  /\ UNCHANGED <<peerVars, reader, writer, main, aborted, linked, uses_telnet,
                 serviceVars, written>>

-------------------------------------------------------------------------------
(* run() and handle_client *)

Cancelled(task) == IF task = "crashed" THEN "crashed" ELSE "done"

\* Mutant: run() cancels the writer like the other tasks.
MainWakes_CancelsWriter ==
  /\ main = "waiting" /\ shutdown_event
  /\ main' = "joining"
  /\ reader' = Cancelled(reader) /\ start' = Cancelled(start)
  /\ writer' = IF writer \in {"done", "crashed"} THEN writer ELSE "closing"
  /\ UNCHANGED <<peerVars, aborted, flagVars, queueVars, serviceVars, historyVars>>

\* Mutant: run() leaves the writer waiting for its None.
MainWakes_NoSentinel ==
  /\ main = "waiting" /\ shutdown_event
  /\ main' = "joining"
  /\ reader' = Cancelled(reader) /\ start' = Cancelled(start)
  /\ UNCHANGED <<writer, peerVars, aborted, flagVars, queueVars, serviceVars, historyVars>>

\* run() sees shutdown_event, cancels the reader and start(), and gives the
\* writer a None if it still runs.
MainWakes ==
  /\ main = "waiting" /\ shutdown_event
  /\ main' = "joining"
  /\ reader' = Cancelled(reader) /\ start' = Cancelled(start)
  /\ IF writer \in {"done", "crashed"}
       THEN UNCHANGED <<out_queue, enqueued>> ELSE Enqueue(None)
  /\ UNCHANGED <<peerVars, writer, aborted, flagVars, incoming, outgoing, serviceVars,
                 written, owed>>

Crashed == "crashed" \in {reader, writer, start}

\* A task has raised: the group cancels the others and run()'s own wait. A
\* cancelled writer still closes the socket and waits for that, unless that is
\* the wait that is cancelled.
GroupAborts ==
  /\ Crashed /\ ~ aborted /\ ~ Ended
  /\ aborted' = TRUE /\ main' = "joining"
  /\ reader' = Cancelled(reader) /\ start' = Cancelled(start)
  /\ writer' = IF writer \in {"waiting", "draining"} THEN "closing" ELSE Cancelled(writer)
  /\ shutdown_event' = TRUE
  /\ owed' = IF shutdown_event THEN owed ELSE Len(enqueued)
  /\ UNCHANGED <<peerVars, shutdown_reason, linked, link_disconnect_sent, uses_telnet,
                 queueVars, serviceVars, enqueued, written>>

\* The group is left when all its tasks have ended. Only a run() that returns
\* lets handle_client take the protocol out of sessions.
MainEnds ==
  /\ main = "joining"
  /\ {reader, writer, start} \subseteq {"done", "crashed"}
  /\ main' = IF Crashed THEN "raised" ELSE "returned"
  /\ sessions' = Crashed
  /\ UNCHANGED <<peerVars, reader, writer, start, aborted, flagVars, queueVars,
                 cancelled, historyVars>>

-------------------------------------------------------------------------------
Reader == \/ ReceiveLine \/ ReceiveNegotiate \/ ReceiveCapability
          \/ ReceiveGmcp \/ ReceiveOversize \/ ReaderEnds
Writer == WriterWrites \/ WriterDrained \/ WriterLost \/ WriterSentinel \/ WriterCloses
Starter == StartNegotiates \/ StartLinks \/ ForwardText \/ ForwardGmcp
             \/ ForwardDisconnect
Runner == MainWakes \/ GroupAborts \/ MainEnds
Environment == \/ PeerCloses \/ PeerResets \/ PeerStalls \/ ServiceCancelled
               \/ \E item \in GameItems : GameSends(item)

Next == Reader \/ Writer \/ Starter \/ Runner \/ Environment

Spec == Init /\ [][Next]_vars

\* The loop runs every task that is ready, and the timeout of start() passes.
\* The client owes nothing: it may never send, close or read.
Fairness ==
  /\ WF_vars(ReaderEnds)
  /\ WF_vars(Writer)
  /\ WF_vars(StartNegotiates \/ StartLinks)
  /\ WF_vars(MainWakes) /\ WF_vars(GroupAborts) /\ WF_vars(MainEnds)

FairSpec == Spec /\ Fairness

-------------------------------------------------------------------------------
(* Properties *)

\* The game is told of the end of a link at most once, though the reader, the
\* writer and the game may all shut it down, and never without having had it.
DisconnectOnce ==
  \A i, j \in DOMAIN incoming :
    incoming[i] = "disconnect" /\ incoming[j] = "disconnect" => i = j /\ linked

\* When run() returns, a game that was given the link knows of its end: it was
\* told, it asked for it, or the whole service was cancelled, which tells no one
\* (portal_services.py:46-50 sets the event past shutdown()).
GameKnows ==
  main = "returned" /\ linked =>
    \/ \E i \in DOMAIN incoming : incoming[i] = "disconnect"
    \/ shutdown_reason = "link"
    \/ cancelled

\* A connection that is being shut down is not handed to the game any more.
NoLinkAfterShutdown == [][linked' # linked => ~ shutdown_event]_vars

\* What was queued for the client before the shutdown is written before the
\* socket is closed, unless the connection was lost or a task raised.
LastWordsWritten ==
  main = "returned" /\ sock # "reset" =>
    owed <= Len(written) /\ SubSeq(written, 1, owed) = SubSeq(enqueued, 1, owed)

\* However its tasks end it, a connection does what the service counts on: it is
\* given to the game only before it is shut down, ends only once it is, is taken out
\* of sessions unless a task raised, and does end if the client reads. A client that
\* negotiates nothing is given to the game all the same.
View == INSTANCE TelnetConnection WITH
  phase <- IF main \in {"waiting", "joining"} THEN "running" ELSE main,
  listed <- sessions

ConnectionRefinement == View!FairSpec

\* README.md:13 lists GMCP among the features clients have: a GMCP message does
\* not take the connection down.
GmcpSurvived == reader # "crashed"
===============================================================================
