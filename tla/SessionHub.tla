------------------------------ MODULE SessionHub ------------------------------
(***************************************************************************)
(* The event streaming of one server process: the sessions of              *)
(* core/sessions.py, held in Core.active_sessions, the request handlers    *)
(* of core/routers/pcs.py that create them and subscribe to them, and the  *)
(* pinger of core/game_services/pinger.py.                                 *)
(*                                                                         *)
(* The process is one asyncio loop. A coroutine gives up control only at   *)
(* an await that really waits: put() on an unbounded queue and the session *)
(* methods do not, so what lies between two real waits is one action here. *)
(* The waits are: the token and character checks against the database      *)
(* before a handler touches active_sessions, the start of the body of an   *)
(* SSE response, queue.get(), receive_bytes(), and the end of a send: of   *)
(* send_bytes() or of the chunk that an SSE generator yields. Nothing      *)
(* limits how long a send takes: it waits for as long as the client does   *)
(* not read and stays connected.                                           *)
(*                                                                         *)
(* A handler is one HTTP or websocket request; its subscription id is the  *)
(* handler itself, since each subscribes at most once.                     *)
(***************************************************************************)
EXTENDS Naturals, Sequences

CONSTANTS Chars,        \* character ids
          WsHandlers,   \* calls of websocket_session
          SseHandlers,  \* calls of stream_character_events
          NoChar,       \* the character of a handler that has opened none
          LateSend,     \* what send_bytes may do once the client is gone
          MaxEvents     \* bound: no log grows beyond MaxEvents + 1

ASSUME HandlersAssumption == WsHandlers \cap SseHandlers = {}
ASSUME NoCharAssumption == NoChar \notin Chars
ASSUME LateSendAssumption == LateSend \subseteq {"raises", "drops"}
ASSUME MaxEventsAssumption == MaxEvents \in Nat

Handlers == WsHandlers \cup SseHandlers

\* A session event, as far as its readers can tell, or the None of stop_local.
Events == {"ping", "text"}
None == "None"
Items == Events \cup {None}

(***************************************************************************)
(* idle      the request is being authenticated                            *)
(* refused   it was turned away before it touched any session              *)
(* opened    SSE: the response is returned, event_generator has not begun  *)
(* dropped   SSE: the client left first, event_generator never begins      *)
(* running   subscribed; both directions work                              *)
(* draining  ws: run_receive has returned, the task group waits for        *)
(*           run_send                                                      *)
(* silent    ws: run_send took the None and returned, run_receive goes on  *)
(* finished  the handler reached unsubscribe and returned                  *)
(* failed    ws: the task group raised, unsubscribe was skipped            *)
(***************************************************************************)
Phases == {"idle", "refused", "opened", "dropped", "running", "draining",
           "silent", "finished", "failed"}

VARIABLES
  active_sessions,  \* Core.active_sessions: the characters that have a session
  active,           \* active[c]: Session.active of c's session
  subscriptions,    \* subscriptions[c]: the handlers subscribed to it
  queue,            \* queue[h]: the asyncio.Queue of h's subscription
  character,        \* character[h]: whose session h opened
  should_start,     \* should_start[h]: h created the session
  phase,            \* phase[h]: how far h is
  link,             \* the handlers whose client is still connected
  sending,          \* the handlers whose send of an event has not come to its end
  \* History, never read by an action:
  log,              \* log[c]: everything put to the subscribers of c
  joined,           \* joined[h]: how long that log was when h subscribed
  taken             \* taken[h]: what h took out of its queue

sessionVars == <<active_sessions, active, subscriptions>>
handlerVars == <<character, should_start, phase, link, sending>>
feedVars == <<queue, log, joined, taken>>
vars == <<sessionVars, handlerVars, feedVars>>

TypeOK ==
  /\ active_sessions \subseteq Chars
  /\ active \in [Chars -> BOOLEAN]
  /\ subscriptions \in [Chars -> SUBSET Handlers]
  /\ queue \in [Handlers -> Seq(Items)]
  /\ character \in [Handlers -> Chars \cup {NoChar}]
  /\ should_start \in [Handlers -> BOOLEAN]
  /\ phase \in [Handlers -> Phases]
  /\ link \subseteq Handlers /\ sending \subseteq Handlers
  /\ log \in [Chars -> Seq(Items)]
  /\ joined \in [Handlers -> Nat]
  /\ taken \in [Handlers -> Seq(Items)]

Init ==
  /\ active_sessions = {}
  /\ active = [c \in Chars |-> FALSE]
  /\ subscriptions = [c \in Chars |-> {}]
  /\ queue = [h \in Handlers |-> << >>]
  /\ character = [h \in Handlers |-> NoChar]
  /\ should_start = [h \in Handlers |-> FALSE]
  /\ phase = [h \in Handlers |-> "idle"]
  /\ link = Handlers /\ sending = {}
  /\ log = [c \in Chars |-> << >>]
  /\ joined = [h \in Handlers |-> 0]
  /\ taken = [h \in Handlers |-> << >>]

-------------------------------------------------------------------------------
(* Session *)

(* The definitions whose name has a "_" after its first word are mutants: the
   definition below it with a bug the code could plausibly have. No action uses
   one; each shows that some property would notice the bug. *)

\* Mutant: the subscribers of every character get the event.
SendEvent_ToAll(C, subs, item) ==
  /\ log' = [c \in Chars |-> IF c \in C THEN Append(log[c], item) ELSE log[c]]
  /\ queue' = [h \in Handlers |-> IF \E c \in Chars : h \in subs[c]
                                    THEN Append(queue[h], item) ELSE queue[h]]

\* send_event of every session of C: each put goes to the subscribers subs[c].
SendEvent(C, subs, item) ==
  /\ log' = [c \in Chars |-> IF c \in C THEN Append(log[c], item) ELSE log[c]]
  /\ queue' = [h \in Handlers |-> IF \E c \in C : h \in subs[c]
                                    THEN Append(queue[h], item) ELSE queue[h]]

RoomToSend(C) == \A c \in C : Len(log[c]) < MaxEvents

\* Mutant: the session is started before its creator has subscribed.
SubscribeAndStart_StartFirst(h, c, start) ==
  /\ subscriptions' = [subscriptions EXCEPT ![c] = @ \cup {h}]
  /\ joined' = [joined EXCEPT ![h] = Len(log[c]) + IF start THEN 1 ELSE 0]
  /\ IF start
       THEN /\ active' = [active EXCEPT ![c] = TRUE]
            /\ SendEvent({c}, subscriptions, "ping")
       ELSE UNCHANGED <<active, log, queue>>
  /\ UNCHANGED taken

\* Session.subscribe by h, then Session.start when h created the session:
\* the creator is subscribed by then, and hears the first ping.
SubscribeAndStart(h, c, start) ==
  LET subs == [subscriptions EXCEPT ![c] = @ \cup {h}] IN
  /\ subscriptions' = subs
  /\ joined' = [joined EXCEPT ![h] = Len(log[c])]
  /\ IF start
       THEN /\ active' = [active EXCEPT ![c] = TRUE]
            /\ SendEvent({c}, subs, "ping")
       ELSE UNCHANGED <<active, log, queue>>
  /\ UNCHANGED taken

\* Session.unsubscribe by h. The Session.stop that follows when h was the last
\* returns whatever it is told, so nothing else changes.
Unsubscribe(h) ==
  subscriptions' = [subscriptions EXCEPT ![character[h]] = @ \ {h}]

\* Mutant: the new session is not stored.
GetSession_NotStored(h, c) ==
  /\ should_start' = [should_start EXCEPT ![h] = c \notin active_sessions]
  /\ character' = [character EXCEPT ![h] = c]
  /\ UNCHANGED active_sessions

\* core.active_sessions.get(...) or a new Session stored under c, by h.
GetSession(h, c) ==
  /\ active_sessions' = active_sessions \cup {c}
  /\ should_start' = [should_start EXCEPT ![h] = c \notin active_sessions]
  /\ character' = [character EXCEPT ![h] = c]

-------------------------------------------------------------------------------
(* Handlers *)

Becomes(h, p) == phase' = [phase EXCEPT ![h] = p]

\* Mutant: the newest event first.
Take_Newest(h) ==
  /\ queue[h] # << >>
  /\ queue' = [queue EXCEPT ![h] = SubSeq(@, 1, Len(@) - 1)]
  /\ taken' = [taken EXCEPT ![h] = Append(@, queue[h][Len(queue[h])])]
  /\ UNCHANGED <<log, joined>>

Take(h) ==
  /\ queue[h] # << >>
  /\ queue' = [queue EXCEPT ![h] = Tail(@)]
  /\ taken' = [taken EXCEPT ![h] = Append(@, Head(queue[h]))]
  /\ UNCHANGED <<log, joined>>

\* The client closes its connection, or the network does.
ClientLeaves(h) ==
  /\ h \in link
  /\ link' = link \ {h}
  /\ UNCHANGED <<sessionVars, character, should_start, phase, sending, feedVars>>

\* No token, a bad one, an unknown user or a character that is not the user's.
Refuse(h) ==
  /\ phase[h] = "idle"
  /\ Becomes(h, "refused")
  /\ UNCHANGED <<sessionVars, character, should_start, link, sending, feedVars>>

(* websocket_session *)

\* From websocket.accept() to the wait for shutdown_event: no await in between
\* waits, and accept() itself fails once the client is gone.
WsOpen(h, c) ==
  /\ phase[h] = "idle" /\ h \in link
  /\ GetSession(h, c)
  /\ SubscribeAndStart(h, c, c \notin active_sessions)
  /\ Becomes(h, "running")
  /\ UNCHANGED <<link, sending>>

\* run_receive runs a command that answers with an event on the session.
WsCommand(h) ==
  /\ phase[h] \in {"running", "silent"} /\ h \in WsHandlers
  /\ RoomToSend({character[h]})
  /\ SendEvent({character[h]}, subscriptions, "text")
  /\ UNCHANGED <<sessionVars, handlerVars, joined, taken>>

\* run_receive is given something that is not a command in JSON, or the command
\* raises: the task group cancels run_send and raises, past unsubscribe.
WsCommandFails(h) ==
  /\ phase[h] \in {"running", "silent"} /\ h \in WsHandlers
  /\ Becomes(h, "failed") /\ sending' = sending \ {h}
  /\ UNCHANGED <<sessionVars, character, should_start, link, feedVars>>

\* run_receive sees WebSocketDisconnect and sets shutdown_event. The handler
\* ends only if run_send has ended too.
WsDisconnect(h) ==
  /\ phase[h] \in {"running", "silent"} /\ h \in WsHandlers /\ h \notin link
  /\ IF phase[h] = "silent"
       THEN Becomes(h, "finished") /\ Unsubscribe(h)
       ELSE Becomes(h, "draining") /\ UNCHANGED subscriptions
  /\ UNCHANGED <<active_sessions, active, character, should_start, link, sending, feedVars>>

Sending(h) == phase[h] \in {"running", "draining"} /\ h \in WsHandlers

\* Mutant: only a started session is served.
WsTake_IfActive(h) ==
  /\ Sending(h) /\ h \notin sending /\ active[character[h]]
  /\ Take(h) /\ Head(queue[h]) # None
  /\ sending' = sending \cup {h}
  /\ UNCHANGED <<sessionVars, character, should_start, phase, link>>

\* run_send takes an event and calls send_bytes.
WsTake(h) ==
  /\ Sending(h) /\ h \notin sending
  /\ Take(h) /\ Head(queue[h]) # None
  /\ sending' = sending \cup {h}
  /\ UNCHANGED <<sessionVars, character, should_start, phase, link>>

\* send_bytes returns: the client, or the buffer before it, has room, or the
\* client is gone and the server drops what is sent to it.
WsSent(h) ==
  /\ Sending(h) /\ h \in sending
  /\ h \in link \/ "drops" \in LateSend
  /\ sending' = sending \ {h}
  /\ UNCHANGED <<sessionVars, character, should_start, phase, link, feedVars>>

\* Mutant: the error of send_bytes is swallowed.
WsSendFails_Swallowed(h) ==
  /\ Sending(h) /\ h \in sending
  /\ h \notin link /\ "raises" \in LateSend
  /\ sending' = sending \ {h}
  /\ UNCHANGED <<sessionVars, character, should_start, phase, link, feedVars>>

\* send_bytes raises: the task group raises, past unsubscribe.
WsSendFails(h) ==
  /\ Sending(h) /\ h \in sending
  /\ h \notin link /\ "raises" \in LateSend
  /\ Becomes(h, "failed") /\ sending' = sending \ {h}
  /\ UNCHANGED <<sessionVars, character, should_start, link, feedVars>>

\* run_send takes the None of stop_local and returns. The handler ends only if
\* run_receive has ended too.
WsSentinel(h) ==
  /\ Sending(h) /\ h \notin sending
  /\ Take(h) /\ Head(queue[h]) = None
  /\ IF phase[h] = "draining"
       THEN Becomes(h, "finished") /\ Unsubscribe(h)
       ELSE Becomes(h, "silent") /\ UNCHANGED subscriptions
  /\ UNCHANGED <<active_sessions, active, character, should_start, link, sending>>

(* stream_character_events *)

\* The handler returns its StreamingResponse; the session exists from here on.
SseOpen(h, c) ==
  /\ phase[h] = "idle"
  /\ GetSession(h, c)
  /\ Becomes(h, "opened")
  /\ UNCHANGED <<active, subscriptions, link, sending, feedVars>>

\* Mutant: the stream forgets that it created the session.
SseBegin_NeverStarts(h) ==
  /\ phase[h] = "opened"
  /\ SubscribeAndStart(h, character[h], FALSE)
  /\ Becomes(h, "running")
  /\ UNCHANGED <<active_sessions, character, should_start, link, sending>>

\* event_generator runs up to its first queue.get().
SseBegin(h) ==
  /\ phase[h] = "opened"
  /\ SubscribeAndStart(h, character[h], should_start[h])
  /\ Becomes(h, "running")
  /\ UNCHANGED <<active_sessions, character, should_start, link, sending>>

\* The response is cancelled before its body is asked for anything.
SseNeverBegins(h) ==
  /\ phase[h] = "opened" /\ h \notin link
  /\ Becomes(h, "dropped")
  /\ UNCHANGED <<sessionVars, character, should_start, link, sending, feedVars>>

Streaming(h) == phase[h] = "running" /\ h \in SseHandlers

\* The generator takes an event and yields it to the response, which sends it.
SseTake(h) ==
  /\ Streaming(h) /\ h \notin sending
  /\ Take(h) /\ Head(queue[h]) # None
  /\ sending' = sending \cup {h}
  /\ UNCHANGED <<sessionVars, character, should_start, phase, link>>

\* The chunk is sent, and the generator goes on.
SseSent(h) ==
  /\ Streaming(h) /\ h \in sending
  /\ sending' = sending \ {h}
  /\ UNCHANGED <<sessionVars, character, should_start, phase, link, feedVars>>

\* The generator takes the None of stop_local and ends.
SseSentinel(h) ==
  /\ Streaming(h) /\ h \notin sending
  /\ Take(h) /\ Head(queue[h]) = None
  /\ Becomes(h, "finished") /\ Unsubscribe(h)
  /\ UNCHANGED <<active_sessions, active, character, should_start, link, sending>>

\* Mutant: there is no finally clause.
SseCancel_NoFinally(h) ==
  /\ Streaming(h) /\ h \notin link
  /\ Becomes(h, "finished") /\ sending' = sending \ {h}
  /\ UNCHANGED <<sessionVars, character, should_start, link, feedVars>>

\* The response is cancelled, or a send to the client fails, and the generator
\* is closed: its finally clause runs.
SseCancel(h) ==
  /\ Streaming(h) /\ h \notin link
  /\ Becomes(h, "finished") /\ Unsubscribe(h) /\ sending' = sending \ {h}
  /\ UNCHANGED <<active_sessions, active, character, should_start, link, feedVars>>

-------------------------------------------------------------------------------
(* Callers that hold no subscription *)

\* submit_command finds the session and the command answers with an event. With
\* no session it is a 404 and changes nothing.
SubmitCommand(c) ==
  /\ c \in active_sessions /\ RoomToSend({c})
  /\ SendEvent({c}, subscriptions, "text")
  /\ UNCHANGED <<sessionVars, handlerVars, joined, taken>>

\* One round of SystemPinger.run, over every session there is.
Ping ==
  /\ active_sessions # {} /\ RoomToSend(active_sessions)
  /\ SendEvent(active_sessions, subscriptions, "ping")
  /\ UNCHANGED <<sessionVars, handlerVars, joined, taken>>

\* Session.stop_local.
StopLocal(c) ==
  /\ c \in active_sessions /\ RoomToSend({c})
  /\ SendEvent({c}, subscriptions, None)
  /\ UNCHANGED <<sessionVars, handlerVars, joined, taken>>

-------------------------------------------------------------------------------
WsStep(h) ==
  \/ \E c \in Chars : WsOpen(h, c)
  \/ WsCommand(h) \/ WsCommandFails(h) \/ WsDisconnect(h)
  \/ WsTake(h) \/ WsSent(h) \/ WsSendFails(h) \/ WsSentinel(h)

SseStep(h) ==
  \/ \E c \in Chars : SseOpen(h, c)
  \/ SseBegin(h) \/ SseNeverBegins(h)
  \/ SseTake(h) \/ SseSent(h) \/ SseSentinel(h) \/ SseCancel(h)

Next ==
  \/ \E h \in Handlers : ClientLeaves(h) \/ Refuse(h)
  \/ \E h \in WsHandlers : WsStep(h)
  \/ \E h \in SseHandlers : SseStep(h)
  \/ \E c \in Chars : SubmitCommand(c) \/ StopLocal(c)
  \/ Ping

Spec == Init /\ [][Next]_vars

\* The loop runs every task that is ready in turn: a handler that waits at its
\* queue with something in it is not passed over for ever, nor is a websocket
\* handler whose client has gone, whether it waits for the client or sends to it.
\* Nobody is bound to send a command, to leave or to stop a session, and no client
\* is bound to read: a send to one that is connected may never end.
Fairness ==
  /\ \A h \in WsHandlers :
       /\ WF_vars(WsTake(h) \/ WsSentinel(h))
       /\ WF_vars(WsSendFails(h) \/ (h \notin link /\ WsSent(h)))
       /\ WF_vars(WsDisconnect(h))
  /\ \A h \in SseHandlers : WF_vars(SseTake(h) \/ SseSentinel(h))

FairSpec == Spec /\ Fairness
-------------------------------------------------------------------------------
(* Properties *)

\* A subscription is held by exactly those handlers of its character that have
\* subscribed and not returned; one that has ended and still holds its
\* subscription is a websocket handler whose task group raised (pcs.py:185-191).
\* No SSE handler, however it ends, leaves its queue behind to fill up.
SubscriptionsAccounted ==
  /\ \A h \in Handlers, c \in Chars :
       h \in subscriptions[c] <=>
         /\ character[h] = c
         /\ phase[h] \in {"running", "draining", "silent", "failed"}
  /\ \A h \in SseHandlers :
       phase[h] \in {"idle", "refused", "opened", "dropped", "running", "finished"}

\* t and then q are what s holds from position j on.
Window(j, t, q, s) ==
  /\ j + Len(t) + Len(q) <= Len(s)
  /\ \A i \in 1 .. Len(t) : t[i] = s[j + i]
  /\ \A i \in 1 .. Len(q) : q[i] = s[j + Len(t) + i]

\* What a handler took out of its queue, followed by what the queue still holds,
\* is what was sent on its session since it subscribed: nothing lost, repeated,
\* out of order or from another character's session.
QueueIsRest ==
  \A h \in Handlers : character[h] # NoChar =>
    /\ Window(joined[h], taken[h], queue[h], log[character[h]])
    /\ h \in subscriptions[character[h]] =>
         joined[h] + Len(taken[h]) + Len(queue[h]) = Len(log[character[h]])

\* Every session has exactly one handler that is to start it, however many
\* handlers ask for the same character at once.
OneCreator ==
  \A c \in Chars :
    /\ c \in active_sessions <=> \E h \in Handlers : character[h] = c
    /\ c \in active_sessions =>
         \E h \in Handlers : \A k \in Handlers :
           (character[k] = c /\ should_start[k]) <=> k = h

\* A session in active_sessions is not active only while, or because, the SSE
\* request that created it has not begun its stream: every other handler may be
\* subscribed to, and take commands for, a session that was never started.
InactiveExplained ==
  \A c \in active_sessions :
    ~ active[c] <=>
      \E h \in SseHandlers :
        /\ character[h] = c /\ should_start[h]
        /\ phase[h] \in {"opened", "dropped"}

\* The handler that starts a session hears the start's ping before anything
\* else: it is subscribed when Session.start sends it.
CreatorHearsStart ==
  \A h \in Handlers :
    should_start[h] /\ phase[h] \notin {"opened", "dropped"} =>
      /\ taken[h] \o queue[h] # << >>
      /\ Head(taken[h] \o queue[h]) = "ping"

\* How the state of EventFeed is read off this one's.
Following == [h \in Handlers |-> IF phase[h] \in {"opened", "dropped"}
                                   THEN NoChar ELSE character[h]]
Reading == {h \in Handlers : phase[h] \in {"running", "draining"}}

Feed == INSTANCE EventFeed WITH
          Readers <- Handlers, feed <- Following, from <- joined,
          seen <- taken, reading <- Reading

\* The handlers and their queues keep the promise of EventFeed: every reader
\* sees the entries of one log, each once and in order, from where it joined.
FeedRefinement == Feed!Spec

\* The client of h takes each event sooner or later.
ClientReads(h) == WF_vars(WsSent(h) \/ SseSent(h))

\* Whatever is put on the queue of a working handler whose client reads is taken,
\* each event of it, unless the handler ends first: neither the other readers of
\* the session nor their clients that do not read can keep it waiting.
EventsReachReaders ==
  \A h \in Handlers : ClientReads(h) =>
    \A n \in 1 .. MaxEvents + 1 :
      phase[h] = "running" /\ n <= Len(taken[h]) + Len(queue[h]) ~>
        n <= Len(taken[h]) \/ phase[h] \notin {"running", "draining"}

\* A websocket handler that waits for its run_send after the client left gets
\* out of the wait as soon as there is an event to send, be it one that the client
\* had stopped to read, on a server that raises for a client that is gone. The
\* pinger provides that event.
GoneClientNoticed ==
  \A h \in WsHandlers :
    phase[h] = "draining" /\ (queue[h] # << >> \/ h \in sending) ~>
      phase[h] \in {"finished", "failed"}

===============================================================================
