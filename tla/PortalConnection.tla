--------------------------- MODULE PortalConnection ---------------------------
(***************************************************************************)
(* One player on the portal: CoreConnection (core/connection.py) with its  *)
(* stack of parsers (core/portal_parsers.py), the commands that Core       *)
(* registers for them (core/portal_commands), and the session of the game  *)
(* server that a played character's lines go to (core/sessions.py,         *)
(* core/session_parsers/repl.py).                                          *)
(*                                                                         *)
(* Three kinds of task share the connection: the loop that handles one     *)
(* line after the other, the refresher of the tokens, and the stream of a  *)
(* played character, which holds its websocket. They are interleaved at    *)
(* their awaits: an API call, a sleep, a websocket that connects.          *)
(*                                                                         *)
(* The clock counts minutes. A timer that is due runs, and a call is       *)
(* answered or fails, before the next minute: the loop of the portal is    *)
(* never busy for long, and its HTTP client times out within seconds.      *)
(*                                                                         *)
(* BaseConnection is not part of the repository. It runs the tasks in a    *)
(* group, handles lines in order, pushes a parser before its on_start, and *)
(* closes when shutdown_event is set or the group has been aborted.        *)
(***************************************************************************)
EXTENDS Commands

CONSTANTS
  LoadOrders,      \* the orders in which the portal's plugins may be loaded
  Lines,           \* what the player may type
  Level,           \* the admin_level of the player
  Life,            \* token_expire_minutes
  RefreshAnswers,  \* what /v1/auth/refresh may answer
  MayRefuse,       \* whether the server may refuse a token that has not expired
  MayMisread,      \* whether decode_token may reject a token that the server has made
  MaxClock,        \* bound on the clock
  MaxWire          \* bound on the lines under way to the session

Poll == 1     \* asyncio.sleep(60)
Window == 5   \* 300 seconds

(***************************************************************************)
(* token  new tokens                                                       *)
(* error  HTTPStatusError: all that routers/auth.py:52-83 answers, whose   *)
(*        second line reads an attribute that JWTManager does not have     *)
(* fails  any other exception: no answer at all                            *)
(***************************************************************************)
ASSUME RefreshAssumption == RefreshAnswers \subseteq {"token", "error", "fails"}
ASSUME LifeAssumption == Life \in Nat /\ Life > Poll
ASSUME FlagsAssumption == MayRefuse \in BOOLEAN /\ MayMisread \in BOOLEAN /\ Level \in Nat
ASSUME BoundsAssumption == MaxClock \in Nat /\ MaxWire \in Nat

\* The commands that plugins register.
Registrations(plugins) == UNION {Range(plugins[i]) : i \in DOMAIN plugins}

ASSUME PluginsAssumption ==
  \A plugins \in LoadOrders :
    /\ plugins \in Seq(Seq(Registrations(plugins)))
    /\ \A c \in Registrations(plugins) : c.key \in Nat /\ c.priority \in Int

\* Only commands of the login menu begin its calls, and only commands of the
\* character menu that menu's, for whatever other plugins register.
ASSUME CallersAssumption ==
  \A plugins \in LoadOrders : \A c \in Registrations(plugins) :
    /\ c.runs \in {"login", "register"} => c.parsers = {"auth"}
    /\ c.runs \in {"create", "play"} => c.parsers = {"user"}

NoToken == [exp |-> -1]
NoCause == "no cause"

VARIABLES
  loaded,          \* the plugins of the portal, in the order they were loaded
  commands,        \* portal_commands_priority, from the least priority
  clock,
  stack,           \* the parser_types of the connection's parsers
  token,           \* jwt: when it expires
  payload,         \* what of the jwt was decoded last
  loop,            \* idle, raised, or the call that handle_command waits for
  refresher,       \* polling, waiting, asking, done, raised
  wake,            \* when its sleep ends
  streams,         \* the stream_task and ws of each PCParser: connecting, open, raised
  shutdown_event,
  shutdown_cause,
  ended,           \* the connection: running, closed, crashed
  wire,            \* lines on the websocket to the session
  parser_stack,    \* of the session
  unprintable,     \* an event is under way that the portal cannot print
  \* History, never read by an action:
  refused,         \* the server has answered 401 to the login that is remembered
  excuses          \* what can make a task raise, of what has happened

registry == <<loaded, commands>>
commandVars == <<stack, loop>>
tokenVars == <<token, payload, refused>>
refresherVars == <<refresher, wake>>
endVars == <<shutdown_event, shutdown_cause, ended>>
sessionVars == <<wire, parser_stack, unprintable>>
vars == <<registry, clock, commandVars, tokenVars, refresherVars, streams, endVars,
          sessionVars, excuses>>

Excuses == {"typed early", "websocket lost", "code as markup", "refresh failed",
            "token misread"}

TypeOK ==
  /\ loaded \in LoadOrders
  /\ clock \in 0 .. MaxClock
  /\ stack \in Seq({"auth", "user", "pc"})
  /\ \A t \in {token, payload} : t = NoToken \/ t \in [exp : Nat]
  /\ loop \in {"idle", "raised", "auth", "look", "create", "user", "characters"}
  /\ refresher \in {"polling", "waiting", "asking", "done", "raised"} /\ wake \in Int
  /\ streams \in Seq({"connecting", "open", "raised"})
  /\ shutdown_event \in BOOLEAN
  /\ shutdown_cause \in {NoCause, "quit", "session_expired"}
  /\ ended \in {"running", "closed", "crashed"}
  /\ wire \in Seq(Lines) /\ parser_stack \in Seq({"repl"})
  /\ unprintable \in BOOLEAN /\ refused \in BOOLEAN /\ excuses \subseteq Excuses

Init ==
  /\ loaded \in LoadOrders /\ commands = InOrder(loaded)
  /\ clock = 0 /\ stack = <<"auth">> /\ token = NoToken /\ payload = NoToken
  /\ loop = "idle"
  /\ refresher = "polling" /\ wake = Poll
  /\ streams = << >>
  /\ shutdown_event = FALSE /\ shutdown_cause = NoCause /\ ended = "running"
  /\ wire = << >> /\ parser_stack = << >> /\ unprintable = FALSE
  /\ refused = FALSE /\ excuses = {}

Running == ended = "running"
Parser == stack[Len(stack)]
admin_level == IF payload = NoToken THEN 0 ELSE Level

-------------------------------------------------------------------------------
(* Tokens and the end *)

\* handle_token sets jwt before decode_token may raise: then payload and refresh_token
\* are still those of an earlier login, or none.
NewToken == [exp |-> clock + Life]
handle_token == token' = NewToken /\ payload' = NewToken
MisreadToken == MayMisread /\ token' = NewToken /\ UNCHANGED <<payload, refused>>

Shutdown(cause) == shutdown_event' = TRUE /\ shutdown_cause' = cause

\* The portal ends the connection of its own accord, or a task has raised.
Close ==
  /\ Running /\ shutdown_event
  /\ ended' = "closed"
  /\ UNCHANGED <<registry, clock, commandVars, tokenVars, refresherVars, streams,
                 shutdown_event, shutdown_cause, sessionVars, excuses>>

Raised == \/ "raised" \in {loop, refresher}
          \/ \E i \in DOMAIN streams : streams[i] = "raised"

GroupAborts ==
  /\ Running /\ Raised
  /\ ended' = "crashed"
  /\ UNCHANGED <<registry, clock, commandVars, tokenVars, refresherVars, streams,
                 shutdown_event, shutdown_cause, sessionVars, excuses>>

-------------------------------------------------------------------------------
(* handle_command: what a line does at once *)

Typed(line) == Running /\ loop = "idle" /\ line \in Lines

Found(line) == Reached(commands, Parser, admin_level, line)

\* The commands that begin with an API call, and the call: their lines need an
\* argument, or else they are told so.
FirstCall == [login |-> "auth", register |-> "auth", create |-> "create", play |-> "user"]

Begin(line) ==
  /\ Typed(line) /\ Found(line).runs \in DOMAIN FirstCall /\ line.args
  /\ loop' = FirstCall[Found(line).runs]
  /\ UNCHANGED <<registry, clock, stack, tokenVars, refresherVars, streams, endVars,
                 sessionVars, excuses>>

\* Only QUIT in capitals quits.
Quit(line) ==
  /\ Typed(line) /\ Found(line).runs = "quit" /\ line.upper
  /\ Shutdown("quit")
  /\ UNCHANGED <<registry, clock, commandVars, tokenVars, refresherVars, streams, ended,
                 sessionVars, excuses>>

\* PCParser.handle_no_match, outside of handle_command's try: without a websocket
\* that is open it raises.
Relay(line) ==
  /\ Typed(line) /\ Found(line) = NoCommand /\ Parser = "pc"
  /\ LET ws == streams[Len(streams)] IN
       IF ws = "open"
         THEN /\ Len(wire) < MaxWire /\ wire' = Append(wire, line)
              /\ UNCHANGED <<loop, excuses>>
         ELSE /\ loop' = "raised"
              /\ excuses' = IF ws = "connecting" THEN excuses \cup {"typed early"} ELSE excuses
              /\ UNCHANGED wire
  /\ UNCHANGED <<registry, clock, stack, tokenVars, refresherVars, streams, endVars,
                 parser_stack, unprintable>>

-------------------------------------------------------------------------------
(* handle_command: when a call is answered *)

Expired == clock >= token.exp

\* What a call with the token may come to: a result, 401, another failure.
Results == {"failed"} \cup (IF Expired THEN {} ELSE {"ok"})
             \cup (IF Expired \/ MayRefuse THEN {"refused"} ELSE {})

push_parser(parser) == stack' = Append(stack, parser)
pop_parser == stack' = SubSeq(stack, 1, Len(stack) - 1)

\* Mutant: a login that is refused is left to handle_command.
AuthAnswered_NotCaught(result) ==
  /\ Running /\ loop = "auth"
  /\ \/ /\ result = "ok" /\ handle_token /\ refused' = FALSE
        /\ push_parser("user") /\ loop' = "look"
     \/ /\ result \in {"failed", "refused"} /\ loop' = "idle"
        /\ IF result = "refused" THEN pop_parser ELSE UNCHANGED stack
        /\ UNCHANGED tokenVars
  /\ UNCHANGED <<registry, clock, refresherVars, streams, endVars, sessionVars, excuses>>

\* login and register: with the tokens comes the menu, which asks for the
\* characters in its on_start. Any failure is told to the player.
AuthAnswered(result) ==
  /\ Running /\ loop = "auth"
  /\ \/ /\ result = "ok" /\ handle_token /\ refused' = FALSE
        /\ push_parser("user") /\ loop' = "look"
     \/ /\ result = "misread" /\ MisreadToken
        /\ loop' = "idle" /\ UNCHANGED stack
     \/ /\ result \in {"failed", "refused"}
        /\ loop' = "idle" /\ UNCHANGED <<stack, tokenVars>>
  /\ UNCHANGED <<registry, clock, refresherVars, streams, endVars, sessionVars, excuses>>

\* Mutant: every error of the server takes the player out of the menu.
Fails_PopsAlways(result) ==
  /\ loop' = "idle"
  /\ pop_parser
  /\ refused' = (result = "refused" \/ refused)

\* Mutant: what is not an answer of the server goes through handle_command.
Fails_Escapes(result) ==
  /\ loop' = IF result = "failed" THEN "raised" ELSE "idle"
  /\ IF result = "refused" THEN pop_parser /\ refused' = TRUE
                           ELSE UNCHANGED <<stack, refused>>

\* The call under way fails: handle_command pops the parser if the answer is 401,
\* and reports anything else.
Fails(result) ==
  /\ loop' = "idle"
  /\ IF result = "refused" THEN pop_parser /\ refused' = TRUE
                           ELSE UNCHANGED <<stack, refused>>

\* handle_look: in on_start, and after a character was created.
LookAnswered(result) ==
  /\ Running /\ loop = "look" /\ result \in Results
  /\ IF result = "ok" THEN loop' = "idle" /\ UNCHANGED <<stack, refused>> ELSE Fails(result)
  /\ UNCHANGED <<registry, clock, token, payload, refresherVars, streams, endVars, sessionVars,
                 excuses>>

\* create catches every failure.
CreateAnswered(result) ==
  /\ Running /\ loop = "create" /\ result \in Results
  /\ loop' = IF result = "ok" THEN "look" ELSE "idle"
  /\ UNCHANGED <<registry, clock, stack, tokenVars, refresherVars, streams, endVars,
                 sessionVars, excuses>>

UserAnswered(result) ==
  /\ Running /\ loop = "user" /\ result \in Results
  /\ IF result = "ok" THEN loop' = "characters" /\ UNCHANGED <<stack, refused>>
                      ELSE Fails(result)
  /\ UNCHANGED <<registry, clock, token, payload, refresherVars, streams, endVars, sessionVars,
                 excuses>>

\* play: the character is found or not; PCParser.on_start makes the stream's task.
CharactersAnswered(result) ==
  /\ Running /\ loop = "characters" /\ result \in Results
  /\ IF result # "ok" THEN Fails(result) /\ UNCHANGED streams
     ELSE /\ loop' = "idle"
          /\ \/ UNCHANGED <<stack, streams>>
             \/ push_parser("pc") /\ streams' = Append(streams, "connecting")
          /\ UNCHANGED refused
  /\ UNCHANGED <<registry, clock, token, payload, refresherVars, endVars, sessionVars, excuses>>

-------------------------------------------------------------------------------
(* run_refresher *)

Due == refresher \in {"polling", "waiting"} /\ wake <= clock

SessionExpired == Shutdown("session_expired") /\ refresher' = "done"

remaining == payload.exp - clock

\* Mutant: it sleeps until the token has expired.
RefresherWakes_SleepsTooLong ==
  /\ Running /\ refresher = "polling" /\ Due
  /\ \/ /\ token = NoToken
        /\ wake' = clock + Poll
        /\ UNCHANGED <<refresher, shutdown_event, shutdown_cause, excuses>>
     \/ /\ token # NoToken /\ payload = NoToken
        /\ refresher' = "raised" /\ excuses' = excuses \cup {"token misread"}
        /\ UNCHANGED <<wake, shutdown_event, shutdown_cause>>
     \/ /\ payload # NoToken /\ remaining <= 0
        /\ SessionExpired /\ UNCHANGED <<wake, excuses>>
     \/ /\ payload # NoToken /\ remaining > Window
        /\ refresher' = "waiting" /\ wake' = payload.exp
        /\ UNCHANGED <<shutdown_event, shutdown_cause, excuses>>
     \/ /\ payload # NoToken /\ remaining \in 1 .. Window
        /\ refresher' = "asking"
        /\ UNCHANGED <<wake, shutdown_event, shutdown_cause, excuses>>
  /\ UNCHANGED <<registry, clock, commandVars, tokenVars, streams, ended, sessionVars>>

\* After a minute: nothing to refresh; a jwt without its payload, on which it raises;
\* too late; early, so that it sleeps on; or time to ask.
RefresherWakes ==
  /\ Running /\ refresher = "polling" /\ Due
  /\ \/ /\ token = NoToken
        /\ wake' = clock + Poll
        /\ UNCHANGED <<refresher, shutdown_event, shutdown_cause, excuses>>
     \/ /\ token # NoToken /\ payload = NoToken
        /\ refresher' = "raised" /\ excuses' = excuses \cup {"token misread"}
        /\ UNCHANGED <<wake, shutdown_event, shutdown_cause>>
     \/ /\ payload # NoToken /\ remaining <= 0
        /\ SessionExpired /\ UNCHANGED <<wake, excuses>>
     \/ /\ payload # NoToken /\ remaining > Window
        /\ refresher' = "waiting" /\ wake' = payload.exp - Window
        /\ UNCHANGED <<shutdown_event, shutdown_cause, excuses>>
     \/ /\ payload # NoToken /\ remaining \in 1 .. Window
        /\ refresher' = "asking"
        /\ UNCHANGED <<wake, shutdown_event, shutdown_cause, excuses>>
  /\ UNCHANGED <<registry, clock, commandVars, tokenVars, streams, ended, sessionVars>>

\* The longer sleep is over. It asks with the refresh_token of this moment, which
\* may be that of a later login.
RefresherAsks ==
  /\ Running /\ refresher = "waiting" /\ Due
  /\ refresher' = "asking"
  /\ UNCHANGED <<registry, clock, commandVars, tokenVars, wake, streams, endVars,
                 sessionVars, excuses>>

RefreshSucceeds ==
  /\ Running /\ refresher = "asking" /\ "token" \in RefreshAnswers
  /\ handle_token
  /\ refresher' = "polling" /\ wake' = clock + Poll
  /\ UNCHANGED <<registry, clock, commandVars, refused, streams, endVars, sessionVars,
                 excuses>>

RefreshRefused ==
  /\ Running /\ refresher = "asking" /\ "error" \in RefreshAnswers
  /\ SessionExpired
  /\ UNCHANGED <<registry, clock, commandVars, tokenVars, wake, streams, ended,
                 sessionVars, excuses>>

\* handle_token raises, and with it the task.
RefreshMisread ==
  /\ Running /\ refresher = "asking" /\ "token" \in RefreshAnswers
  /\ MisreadToken
  /\ refresher' = "raised" /\ excuses' = excuses \cup {"token misread"}
  /\ UNCHANGED <<registry, clock, commandVars, wake, streams, endVars, sessionVars>>

\* No HTTPStatusError: the task raises.
RefreshFails ==
  /\ Running /\ refresher = "asking" /\ "fails" \in RefreshAnswers
  /\ refresher' = "raised"
  /\ excuses' = excuses \cup {"refresh failed"}
  /\ UNCHANGED <<registry, clock, commandVars, tokenVars, wake, streams, endVars,
                 sessionVars>>

-------------------------------------------------------------------------------
(* stream_updates, and the session at the other end *)

StreamConnects ==
  /\ Running
  /\ \E i \in DOMAIN streams :
       streams[i] = "connecting" /\ streams' = [streams EXCEPT ![i] = "open"]
  /\ UNCHANGED <<registry, clock, commandVars, tokenVars, refresherVars, endVars,
                 sessionVars, excuses>>

\* handle_event raises on an event that it cannot print; nothing catches that either.
EventFails ==
  /\ Running /\ unprintable
  /\ \E i \in DOMAIN streams :
       streams[i] = "open" /\ streams' = [streams EXCEPT ![i] = "raised"]
  /\ wire' = << >> /\ unprintable' = FALSE
  /\ excuses' = excuses \cup {"code as markup"}
  /\ UNCHANGED <<registry, clock, commandVars, tokenVars, refresherVars, endVars,
                 parser_stack>>

\* connect() or recv() raises; nothing here catches it. What was under way is lost.
StreamLost ==
  /\ Running
  /\ \E i \in DOMAIN streams :
       streams[i] # "raised" /\ streams' = [streams EXCEPT ![i] = "raised"]
  /\ wire' = << >> /\ unprintable' = FALSE
  /\ excuses' = excuses \cup {"websocket lost"}
  /\ UNCHANGED <<registry, clock, commandVars, tokenVars, refresherVars, endVars,
                 parser_stack>>

\* session_commands_priority: no plugin here adds to what core registers.
SessionCommands == InOrder(<<CoreSessionCommands>>)

\* The words that leave the REPL, as they were typed.
Leaves(line) ==
  /\ ~ line.upper /\ ~ line.args
  /\ \E word \in {"exit", "quit", "q"} : Is(line, word)

\* A character's commands do not answer all of those words: core's answer only quit.
ASSUME LeavingAssumption ==
  \A plugins \in LoadOrders : \E line \in Lines :
    /\ Leaves(line)
    /\ \A c \in Registrations(plugins) : "pc" \in c.parsers => ~ check_match(c, line)

\* Mutant: commands go before the parser that is open.
SessionDoes_CommandsFirst(line) ==
  IF Reached(SessionCommands, "session", Level, line).runs = "python"
    THEN parser_stack' = Append(parser_stack, "repl")
    ELSE parser_stack' = IF parser_stack # << >> /\ Leaves(line)
                           THEN SubSeq(parser_stack, 1, Len(parser_stack) - 1)
                           ELSE parser_stack

\* Session.execute_command: the REPL, if one is open, takes every line, as code or
\* to leave; else it is a session command or unknown.
SessionDoes(line) ==
  parser_stack' =
    IF parser_stack # << >>
      THEN IF Leaves(line) THEN SubSeq(parser_stack, 1, Len(parser_stack) - 1)
                           ELSE parser_stack
      ELSE IF Reached(SessionCommands, "session", Level, line).runs = "python"
             THEN Append(parser_stack, "repl") ELSE parser_stack

\* The REPL sends what was typed back as a RichReplEvent. The portal prints that text as
\* markup (conn.print, which is not part of the repository).
Echoes(line) == parser_stack # << >> /\ ~ line.markup

SessionReceives ==
  /\ wire # << >>
  /\ SessionDoes(Head(wire))
  /\ unprintable' = (unprintable \/ Echoes(Head(wire)))
  /\ wire' = Tail(wire)
  /\ UNCHANGED <<registry, clock, commandVars, tokenVars, refresherVars, streams, endVars,
                 excuses>>

-------------------------------------------------------------------------------
\* A minute passes: no timer is due, no call is under way and nothing is ending.
Tick ==
  /\ Running /\ clock < MaxClock
  /\ ~ Due /\ refresher # "asking" /\ loop = "idle"
  /\ ~ shutdown_event /\ ~ Raised
  /\ clock' = clock + 1
  /\ UNCHANGED <<registry, commandVars, tokenVars, refresherVars, streams, endVars,
                 sessionVars, excuses>>

Handle == \E line \in Lines : Begin(line) \/ Quit(line) \/ Relay(line)
Answered == \E result \in {"ok", "failed", "refused", "misread"} :
              \/ AuthAnswered(result) \/ LookAnswered(result) \/ CreateAnswered(result)
              \/ UserAnswered(result) \/ CharactersAnswered(result)
Refresher == \/ RefresherWakes \/ RefresherAsks
             \/ RefreshSucceeds \/ RefreshMisread \/ RefreshRefused \/ RefreshFails
Stream == StreamConnects \/ StreamLost \/ EventFails \/ SessionReceives

Next == Handle \/ Answered \/ Refresher \/ Stream \/ Tick \/ Close \/ GroupAborts

Spec == Init /\ [][Next]_vars

-------------------------------------------------------------------------------
(* Properties *)

\* As long as the connection runs and the player is logged in, its token has not
\* expired: whenever the login fell between two polls of the refresher, the token
\* is renewed or the connection is being ended in time (connection.py:76 "somehow
\* missed the expiry time" does not happen).
TokenLive == Running /\ ~ shutdown_event /\ ~ Raised /\ token # NoToken => ~ Expired

\* The parsers are the login menu, the character menu and a character, in this
\* order: no 401, however deep in a command it is raised, takes away the login menu,
\* and no command pushes a parser twice. A stream belongs to the character that is
\* played: PCParser.on_end stops none, so no way may lead out of a character.
ParsersInOrder ==
  /\ stack \in {<<"auth">>, <<"auth", "user">>, <<"auth", "user", "pc">>}
  /\ Len(streams) = IF stack = <<"auth", "user", "pc">> THEN 1 ELSE 0

\* A connection crashes only if a line came before the websocket or after it was lost,
\* the websocket was lost, an event could not be printed, the refresh had no answer,
\* or a token could not be read; and only the task that this concerns raises. No
\* failure of a command's call gets that far.
CrashExplained ==
  ended = "crashed" =>
    \/ /\ loop = "raised"
       /\ excuses \cap {"typed early", "websocket lost", "code as markup"} # {}
    \/ /\ refresher = "raised"
       /\ excuses \cap {"refresh failed", "token misread"} # {}
    \/ /\ \E i \in DOMAIN streams : streams[i] = "raised"
       /\ excuses \cap {"websocket lost", "code as markup"} # {}

\* Who is in the login menu and has a login that could be read, whose token the
\* refresher goes on renewing, was sent there by a 401: nothing else leaves one behind.
MenuTokenRefused == stack = <<"auth">> /\ payload # NoToken => refused

\* The commands that count: of those with one key the one that is loaded last.
Effective(plugins) ==
  LET all == FlattenSeq(plugins)
  IN {all[i] : i \in {i \in DOMAIN all : \A j \in DOMAIN all : all[j].key = all[i].key => j <= i}}

MayReach(line) ==
  {c \in Effective(loaded) : Answers(c, Parser, admin_level, line)}

\* A line reaches one of the commands it may reach, the first of its priority by key.
\* The order in which the plugins were loaded decides only which of the commands with
\* one key counts.
ReachesSame ==
  /\ \A line \in Lines :
       IF MayReach(line) = {} THEN Found(line) = NoCommand
       ELSE /\ Found(line) \in MayReach(line)
            /\ \A c \in MayReach(line) :
                 c.priority = Found(line).priority => Found(line).key <= c.key
  /\ \A plugins \in LoadOrders :
       Effective(plugins) = Effective(loaded) => commands = InOrder(plugins)

\* portal_commands/base.py:33 "Normal priority for command matching. Higher goes first."
\* Of the commands that a line may reach it reaches one of the highest priority.
HigherGoesFirst ==
  \A line \in Lines : \A c \in MayReach(line) : Found(line).priority >= c.priority

\* A session has one REPL at most, and through the portal, which keeps quit to
\* itself, there is a line that leaves it.
ReplCanBeLeft ==
  /\ Len(parser_stack) <= 1
  /\ Running /\ parser_stack # << >> =>
       \E line \in Lines : Leaves(line) /\ Found(line) = NoCommand

\* connection.py:89 "now we have 5 minutes or less left. let's refresh the token."
\* A player who does nothing wrong is not thrown out by the refresher.
SessionOutlivesToken == shutdown_cause # "session_expired"
===============================================================================
