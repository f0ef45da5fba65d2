# TLA+ models of MuPlugins

Specifications of the concurrent core of MuPlugins (`src/muplugins`), the TLC runs that
check them and the TLAPS proofs about them. Line numbers refer to `src/muplugins/` unless a
path says otherwise; `PROJECT.json` maps every definition to the lines it models.

## The system

MuPlugins runs in two processes on the MuForge framework. The **game server** serves HTTP,
server-sent events and websockets over a PostgreSQL database. The **portal** accepts telnet
clients and acts for each of them as an HTTP and websocket client of the game server. Both
are asyncio programs: one loop each, and a coroutine gives up control only at an `await` that
really waits.

| Part | State | Operations | Hard about it |
|---|---|---|---|
| Sessions and event streaming: `core/sessions.py`, `core/routers/pcs.py`, `core/game_services/pinger.py` | `Core.active_sessions`; per session `active` and `subscriptions`; a queue per subscription | open by websocket or SSE, command, event, ping, the `None` of `stop_local`, a client that leaves | look-up and creation by several requests; clients that are gone, or do not read, while a task waits; sends that raise past `unsubscribe`; a session that is used before it is started |
| Telnet connection: `telnet/protocol/__init__.py` | reader, writer, start and run tasks; `shutdown_event`; `_tn_out_queue`; the link's two queues | read, parse, answer, write, link to the game, shut down | five ways to end that overlap; a timeout racing a shutdown; no timeout on `drain` |
| Telnet service: `telnet/portal_services.py` | `TelnetService.sessions`, its server and the clients' sockets | accept, look up a host name, run a protocol, be cancelled, shut down | a client that is accepted and not in `sessions` yet; a `run()` that raises past `sessions.remove` |
| Telnet options: `telnet/protocol/options.py` | per option and side `enabled`, `negotiating`; compressors; rounds of MTTS | WILL, WONT, DO, DONT, subnegotiations, two compressed streams | requests that cross; the exact byte at which compression begins |
| Telnet parser: `telnet/protocol/parser.py`, `receive_data`, `_tn_handle_data` | `_tn_in_buffer`, `_tn_app_data` | read a chunk, parse messages off it, cut lines | messages split over reads; escaped IACs; two size limits |
| Accounts: `core/routers/auth.py`, `core/db/auth.py`, `core/db/pcs.py`, `core/database.py` | tables `users`, `pcs`, `loginrecords` | register, login, create a character, each one transaction | overlapping transactions; failures after an insert |
| Migrations: `core/__init__.py` `perform_migrations` | the schema, `plugin_migrations` | order by dependencies, perform, record, restart | dependencies across plugins; a crash between two statements |
| Portal connection: `core/connection.py`, `core/portal_parsers.py`, `core/portal_commands/` | a stack of parsers, tokens, a stream task | log in, play, relay, refresh tokens, quit | the refresher's timing; lines before the websocket is up; events that cannot be printed; tokens that cannot be read; a 401 in the middle of a command |
| Session REPL: `core/session_parsers/repl.py`, `core/session_commands/` | the parser stack of a session | enter, run code, leave | lines that the portal keeps for itself |
| Command registries: `core/__init__.py`, `core/*_commands/base.py` | commands by priority | register, match, check access | the order of priorities, whatever the order of loading |
| Locks: `core/locks.py`, `core/lockfuncs.py` | lock functions, a cache | evaluate a lock | nothing: see "Not modelled" |
| Web client: `core/static/*.js` | tokens, an event stream with reconnection | log in, refresh, follow events | a logout during a refresh |
| Schemas of `bbs`, `channels`, `factions`, `org`, `scenes`, `textfiles`, `themes`; validators; read-only endpoints | tables only, or none | none that change shared state | nothing concurrent |

How they meet: a websocket handler of the game server is subscribed to a `Session` and puts
its events on the wire; the portal's `PCParser` reads them and writes them to the link of a
`MudTelnetProtocol`, which encodes them for the client; what a client types takes the way back.
`TelnetProtocol`'s tasks call `TelnetParser` and `TelnetOptions` for what they read and write;
`TelnetService` runs one protocol for each client. At the other end of the link `PortalConnection` handles
the player's lines with the commands of `Commands`, and relays the rest over a websocket to a session.
Before anything is served, `Core.setup_database` brings the schema up.

What makes each correct is what its properties below say. `PROJECT.json` lists the hazards at
the lines where they bite and the properties that would notice.

## Modules

```
EventFeed  <== implemented by ==  SessionHub
TelnetConnection  <== implemented by ==  TelnetProtocol
TelnetConnection  <== each client of ==  TelnetService
Commands  <-- EXTENDS --  PortalConnection
TelnetOptions   TelnetParser   Accounts   Migrations
```

An action is everything a coroutine does between two waits. Putting on an unbounded
`asyncio.Queue`, taking an uncontended lock and calling an async function that does neither
do not wait. Definitions named `<Definition>_<Bug>` are mutants: a definition with a bug the code
could plausibly have, used by no action; for each property there is one that violates it.

**SessionHub** models sessions and streaming; a handler is one request. Websocket handlers go
`idle -> running -> draining -> finished`, or `silent` after a `None` and `failed` when the task
group raised; SSE handlers go through `opened` between the response and the first step of its
body. `SubscribeAndStart` is one action because `subscribe` and `start` do not wait. A send is two:
`WsTake` (`SseTake`) takes the event and calls `send_bytes` (yields the chunk), `WsSent` (`SseSent`) is its return, which nothing bounds:
a handler is in `sending` for as long as a connected client does not read. `StopLocal` is a method of `Session` that nothing in the repository calls.
`LateSend` says what `send_bytes` may do for a client that is gone: the ASGI server raises or drops
it. `log`, `joined` and `taken` are history: no action reads them, except for the bound.

**EventFeed** is what the hub promises, without sessions, queues or tasks: a log per character, and
readers that join at its end and read on, each entry once and in order. `SessionHub` implements
it under the mapping at `Feed`: a handler's queue is what it has not yet read of the log.

**TelnetProtocol** models one connection: its three tasks, `run()` and `handle_client`. The client
may close, reset or stop reading at any time; the game may send text, GMCP or a disconnect; the
service may be cancelled. An exception of a task aborts the group. What is parsed is left to the
constant `Messages`. `owed` is history: how much was queued for the client when the connection began to end.

**TelnetConnection** is what the service may count on for one connection: it begins, may be shut down, may be
handed to the game before that, and ends only after it; with fairness, it does end if its client reads (`Ends`), and
is handed over or shut down (`Links`). `TelnetProtocol` implements it under the mapping at `View`.

**TelnetService** models `run()`, `shutdown()` and `handle_client` of the service over any set of clients. Between
`Begin` and `Return` or `Raise` a client's connection does what `TelnetConnection` allows: `Close`, `ShutDown`, `Link`, `Stall`
at any time. `run()` ends as Python 3.14 ends it (`pyproject.toml` requires 3.14): `wait_closed()` waits for every socket.
`Connections` says that each client's part is a `TelnetConnection` again, so the two halves fit.

**TelnetOptions** models the negotiation of all ten options and both compressed streams, with a client
that follows RFC 854 and whose user turns options on and off. `z` on a message says it went through a
compressor. A terminal type equal to `last_received`, which is always empty, ends the round of MTTS. `charset_rejected` is history. What one read brings is any number of the messages under way. A scenario is which options are installed
and what the client and the game may do; it is chosen at the start and never changes. The client is not part of the
repository: its definitions are marked external.

**TelnetParser** models `parse_telnet`, the loop of `receive_data` and `_tn_handle_data` on bytes, with
the eight bytes their branches tell apart. The reference is an automaton that takes one byte at a time and
knows nothing of buffers.

**Accounts** models the requests that write accounts and characters, one action per statement. A
statement sees what is committed; an INSERT waits for an open transaction with the same unique key
(PostgreSQL's READ COMMITTED, the default that `Database.transaction` uses).

**Migrations** models the start of the server: the list of what remains, the resolution loop, one iteration of its inner loop
per action and one removal by index per action behind it, then the statements of one transaction, over stops and restarts, with migrations that are
installed between starts.

**Commands** are the registries as operators: what plugins register, in the order they are loaded; the order
by priority and key in which commands are tried; and which of them a line reaches. The dictionary is a function from keys to commands: the order of
its entries does not matter, because every list made of it is sorted by keys that differ. A command is a record of its key, priority,
names, parsers and level; a line is its first word, known by the names it is the beginning of, whether more follows, and whether it would print as markup.

**PortalConnection** models one player at the portal: the loop that handles one line after the other (an action for the line,
one for the answer to each API call it makes), the token refresher, the stream of a played character with its websocket, and
the session's parser stack at the other end. The clock counts minutes and moves only when no timer is due and
no call is under way: the portal's loop is never busy for a minute and its HTTP client gives up within seconds. `token` and `payload` are two variables because
`handle_token` sets `jwt` before `decode_token` may raise (`MisreadToken`: another secret, or a clock that is not right). An event that cannot be printed raises in `stream_updates`; the
event here is the REPL's echo of what was typed, which `RichReplEvent` prints as markup. `excuses` is history: what has happened that may make a task raise. `BaseConnection`
is MuForge's: what the module takes from it stands in its header.

## Runs

| Run | Bounds | Shows |
|---|---|---|
| `hub` | 2 characters, 1 websocket and 1 SSE request, no symmetry, logs of up to 3 entries, late sends raise | `SubscriptionsAccounted`, `QueueIsRest`, `OneCreator`, `InactiveExplained`, `CreatorHearsStart`; implements `EventFeed`; `EventsReachReaders`, `GoneClientNoticed` |
| `protocol` | every kind of message and item; 2 inputs, 2 outputs, 1 item of the game waiting | `DisconnectOnce`, `GameKnows`, `LastWordsWritten`, `NoLinkAfterShutdown`; implements `TelnetConnection`, liveness included |
| `protocol_gmcp` | the same without oversized input | violated: `GmcpSurvived` |
| `telnet_service` | 2 clients, no symmetry | `SessionsAccounted`, `ToldUnlessLate`, `ServiceStops`; every client's part is a `TelnetConnection` (`Connections`) |
| `options` | two scenarios: MCCP2, MCCP3, MTTS with 2 texts and a stream that may end; CHARSET (both sides), EOR (neither), MTTS (rounds) with 2 changes of mind | `OutputReadable`, `InputReadable`, `EndsAgree`, `OffersSettle`, `TerminalUnderstood` |
| `parser` | every concatenation of up to 4 of the pieces in `MCTelnetParser`, every split into reads; limits 3 and 8 | `EventsAsSent`, `OverflowIsOneRead` |
| `accounts_safety` | 3 registrations, 1 login, 2 creations, 2 addresses, 2 names | `KeysAreUnique`, `SomeAdmin`, `AnswersAreCommitted`, `LoginsAreRecorded` |
| `accounts_first_admin` | 2 registrations | violated: `OneFirstAdmin` |
| `migrations` | every dependency graph on 3 migrations, the second of the list without an upgrade; 2 failures | `InDependencyOrder`, `RecordsMatchSchema`, `UpIsComplete`, `NothingIfUnresolvable`, `ResolutionEnds` |
| `portal` | 12 minutes, tokens that live for 7, every answer to every call, tokens that may be misread, two other plugins in three orders with core's, an admin's eleven lines, 1 line on the wire | `TokenLive`, `ParsersInOrder`, `CrashExplained`, `MenuTokenRefused`, `ReachesSame`, `ReplCanBeLeft` |
| `portal_priority` | the same | violated: `HigherGoesFirst` |
| `portal_refresh` | 16 minutes, tokens that live for 15, refreshes answered as the endpoint answers them | violated: `SessionOutlivesToken` |

Why these bounds are enough to be interesting. Two requests for one character race for its creation,
of the kinds that differ in when they subscribe and start; a second character shows that events do not cross. What the invariants say of more requests, and of a server
that drops late sends, is proved. The tasks of one
connection do not touch another's, so one connection is all there is to `TelnetProtocol`; of two clients of a service one may be late, stalled or
crashed while the other is not. Options share no
state but the streams, so the options of a scenario are those that can disturb each other or that differ in
which sides they support. Four pieces hold a message, its split and its neighbours; the limits are
smaller than the inputs so that both overflows occur. Two registrations race, and a third comes after one
was rolled back. Three migrations allow chains, forks and cycles of every length that the resolution loop tells apart, and passes that remove one, two or three entries, whichever they are.
A token of 7 minutes is both longer and shorter than the refresher's window of 5 while it lasts, and 12 minutes are enough for a login between two polls, a refresh, a second login
and the refresh after it; of the other plugins of `portal` one replaces a command and the other adds three that the same word reaches, one of them above the player's level.

The models end, so deadlock is not checked where the system may come to rest: when the requests of a run
are used up, when a connection is closed, or when the bound of a log is reached. What must not come to
rest is stated as liveness instead. `TypeOK` of every module that has one is a theorem, so the runs leave it out and check deeper things.

### Fairness

Weak fairness on the steps of tasks, and nothing of clients: they may never send, read or leave. asyncio runs every ready
task and its timers; that justifies `WF` on the reader's end, the writer, `start` and `run` of `TelnetProtocol`. In `SessionHub` it is on taking what is on a handler's queue, and on the end of a
websocket handler's wait or send once its client is gone; the return of a send to a client that is connected is not fair, since a client that does not read holds it up without limit. `EventsReachReaders` has
`ClientReads(h)`, the fairness of that one client, as its premise, so that it says of a handler whose client reads that no other handler or client keeps its events from it; it speaks of each event, by its number, and not of an empty queue.
That Starlette's `StreamingResponse` notices a client that is gone and cancels the generator is not assumed, and nothing needs it. `Migrations` assumes that a started process keeps running until it is stopped.
`TelnetService` takes from asyncio that a look-up of a host name ends, and from `TelnetConnection!Ends`, which the run `protocol` checks of `TelnetProtocol`, that a
connection that was shut down ends if its client reads. No strong fairness is used, and none at all in `PortalConnection`, `TelnetOptions`, `TelnetParser` and `Accounts`, whose properties are safety properties.
The liveness of the hub assumes a server whose `send_bytes` raises for a client that is gone; on one that drops the bytes
the handler stays in `draining` for good, which is why `LateSend` is a constant. The proofs of the hub's invariants and of `FeedRefinement` are for both.

### What the runs show to be wrong

- `GmcpSurvived`: `json_library` is never set on the protocol, so the first GMCP message of a client ends its connection.
- `OneFirstAdmin`: two registrations that overlap on an empty database both become admins.
- `SessionOutlivesToken`: `/v1/auth/refresh` reads `jwt_manager.settings`, which `JWTManager` does not have (`core/routers/auth.py:56`); every refresh is answered with an error, and the refresher takes that for
  the end of the session: a player is disconnected five minutes before the token expires.
- `HigherGoesFirst`: `core/portal_commands/base.py:33` says of a command's priority "Higher goes first"; `core/portal_parsers.py:25` sorts the priorities in ascending order, and the first command that matches
  is run: of two that a line may reach, the lower one goes first.

Properties that hold in a weaker form than one would wish state what the code does guarantee: a failed websocket handler
keeps its subscription (`SubscriptionsAccounted`), a session whose SSE creator left early is never started (`InactiveExplained`), a
cancelled service or a crash tells the game nothing (`GameKnows`), a stalled client keeps its tasks (`ConnectionRefinement`), a client whose host name is being looked up is not told of the cancellation and may
keep the service from ending (`ToldUnlessLate`, `ServiceStops`), a client is heard no more after it has ended its MCCP3 stream, which `telnet/protocol/options.py:474` says must disable the option (`EndsAgree`), start() waits in vain for a client that rejects the
charsets, and for EOR, which nothing settles (`OffersSettle`), a 401 in the character menu leaves a player in the login menu with the old token (`MenuTokenRefused`), a line typed before the websocket is connected ends the
connection, and so does code typed into the REPL that looks like markup, or a token that the portal cannot decode (`CrashExplained`). Some are left out of a property and checked by none: what comes behind an empty subnegotiation
is held up (`EventsAsSent` stops there), a round of MTTS that is enabled over again or answered twice is taken for another (`TerminalUnderstood`), and a failed login leaves no record, its row being rolled back by the exception
behind it (`LoginsAreRecorded` is about the successful ones).

Noticed on the way, with no run of their own: the `unusable` flag (`core/portal_commands/base.py:41-43`) is looked at nowhere, and no command sets it; of the words `core/session_parsers/repl.py:19` offers for leaving the REPL, the portal keeps `quit` for
itself (`ReplCanBeLeft` says that `exit` gets through); `Logout` is not registered, so nothing pops a `PCParser`; `TelnetService.shutdown()` tells no client.

## Proofs

Each module of proofs has one inductive invariant, a step for every action that preserves it, and theorems that are its consequences, for all values of the
constants that the named assumptions allow. Every type invariant is among them.

| Module | Properties proved | What the invariant adds to them |
|---|---|---|
| `SessionHubProofs` | `SubscriptionsAccounted`, `QueueIsRest`, `FeedRefinement`; `OneCreator`, `InactiveExplained`, `CreatorHearsStart` | `HandlerState`: who has a character, and that who has not subscribed has an empty queue and history; for the last three: a request that did not open has nothing to start; no session is active before it is listed; the creator's window of the log begins with the ping |
| `TelnetProtocolProofs` | `DisconnectOnce`, `GameKnows`, `LastWordsWritten`, `NoLinkAfterShutdown`, `View!Spec` | what is written and what is queued make up what was enqueued; the writer is told to end only behind what is owed, and ends only because it was told to, lost the connection or was aborted; how a link that ended without a word came to end |
| `TelnetServiceProofs` | `SessionsAccounted`, `ToldUnlessLate`, `Connections` | whoever has ended was shut down; whoever is still accepted after a cancellation was so at it |
| `TelnetOptionsProofs` | `OutputReadable`; `InputReadable`; `EndsAgree`, `OffersSettle`; `TerminalUnderstood` | the server compresses exactly if the client decompresses or will, once it has read what is under way; what is compressed on the way to the server and how many lines are under way; what the messages on both streams will make of the state at both ends, for every option and side, and which negotiations are still open; that a request for a charset or its answer is under way until it is settled (`Charsets`); at most one request or answer about the terminal under way |
| `TelnetParserProofs` | `EventsAsSent`, `OverflowIsOneRead` | the reference, having read the bytes taken off the buffer, is between two messages and in the line that has begun (`Faithful`); text in the buffer is of the last read, and so is what is behind a message that is complete (`Recent`) |
| `AccountsProofs` | `KeysAreUnique`, `SomeAdmin`, `AnswersAreCommitted`, `LoginsAreRecorded` | an open transaction's key differs from the committed ones and from every other open one's; as long as no account is committed, all that are under way are to be admins |
| `MigrationsProofs` | `InDependencyOrder`, `RecordsMatchSchema`, `UpIsComplete`, `NothingIfUnresolvable` | the list holds each once, and what of it is resolved is what stands at the indices that are to be removed, which ascend (`Listed`); the order found so far respects the dependencies, and no part of what is resolved waits for itself; the transaction's rows are the upgrades it sees, but for the one being recorded |
| `PortalConnectionProofs` | `TokenLive`, `ParsersInOrder`, `CrashExplained`, `MenuTokenRefused`, `ReachesSame`, `ReplCanBeLeft` | which calls belong to which parser; which of the causes have happened when a task has raised; the refresher's next look is never further away than its poll, and always before the end of the token; the registry does not change, and holds the last command of each key, by priority and key; lines get to the session from a character only, and nothing leads out of it |

Some of the arguments. `QueueIsRest` is not inductive by itself: an event is put on the queues of those in `subscriptions`, so one has to know that a subscriber's
own `character` is that session, and that subscribing starts an empty window at the end of the log; `WindowStart`, `WindowPut`, `WindowLogGrows` and `WindowTake` are
the facts about sequences. `LastWordsWritten` needs the position of every `None` among what was enqueued, not only on the queue. `NothingIfUnresolvable`
speaks of sets that wait for one another; it follows from an invariant of the same form over what is resolved, without a numbering of the migrations. `TokenLive`
rests on `Life > Poll` alone: a token that lives longer than the refresher's poll is seen before it expires, and what lies further away than the window is slept up to its beginning.
`EndsAgree` says something of a moment at which nothing is under way, so its invariant has to follow every message (`Agreement`). For one option on one side, `Will` computes what the
server's flag becomes once it has handled the last request or answer on its way, and `Agrees` ties it to the client's flag: they are equal, unless the server's offer is on its way, or a request of the client's
and its answer cross. A message is put behind the others on one stream and taken off the front of the other, and both leave `Agrees` as it was for every other option;
`Has`, `First`, `Last`, `Before` and `Once` are the words for this, with lemmas on what appending to a queue and taking off its front does to each. `OffersSettle` needs in addition which of the negotiations are open (`Settling`) and where the one about charsets is (`Charsets`),
and `TerminalUnderstood` that a round of MTTS has one message under way at most, request or answer, unless the client enables it over again (`Terminals`, `Asking`). `InputReadable` counts the lines that are on the stream and in the buffer (`Counted`).
`EventsAsSent` compares a loop over a buffer with an automaton over bytes, so its proof goes message by message: what `Parse` takes off, put behind what was taken before, leads the automaton from between
two messages to between two messages, with the same event (`MessageRead`); what `Parse` waits for leads it to no event (`WaitingRead`). The long cases are a subnegotiation, where the automaton's mode behind each byte
is what the backward scan of `_scan_until_iac_se` has found from there on (`SubnegotiationRead`), and text, where cutting lines off all that has come gives the lines that cutting after each byte gives (`CutOne`, `TextRead`).
`ReachesSame` is about values alone, the registry being computed once: that every number of a finite set has a rank of its own, and every rank up to its size a number (`RankOnto`, by the injection
of a set into an interval of its size), is what makes `Ascending` a sort; a sequence put together from parts that are in order and before one another is in order (`FlattenOrder`); and
registering one more command keeps the last of each key (`RegisterNewest`). That the order of loading decides nothing else follows: the dictionary they make is the same one (`SameRegistry`).
`ScanUntilIacSe`, `Where`, `Reading`, `Registered` and `FlattenSeq` are recursive functions, of which the prover knows only that `CHOOSE` picks one that satisfies the equation, if there is one: that there is one is proved for each, and what holds
of all numbers or sequences is proved of the set of those it holds of (`Least` and `MinIn`, from the well-foundedness of strict subsets of a finite set, then `Induction`, `Downward`, `BuildUp` and `Recursion`).
A refinement is shown step by step: each action is a step of the abstract specification or a stutter (`FeedStep`, `ViewNext`).

Assumed, next to the modules' own constants being what they are: that the login and character menus' calls are begun only by commands for their own parsers, whatever else plugins register
(`CallersAssumption`), that plugins are sequences of commands whose keys and priorities are numbers (`PluginsAssumption`), and that the player may type a word that leaves the REPL and that no plugin's
command for a character answers (`LeavingAssumption`: core's commands answer `quit` and leave `exit` and `q`; a plugin that registered both would lock its staff in, so this one is a demand on plugins). TLC evaluates all three for the plugins of the portal's three runs.

Only model-checked: liveness (the prover has no rule for fairness and `ENABLED`), which is `EventsReachReaders`, `GoneClientNoticed`, `ServiceStops`, `ResolutionEnds` and the fairness of `TelnetConnection`. Every invariant of a passing run is a theorem's. No module declares a `RECURSIVE` operator.

## Not modelled, and why

- Locks (`core/locks.py`, `core/lockfuncs.py`): nothing evaluates one. `setup_lark` is never called, the grammar it would read is not in the repository, and the subject of `LockArguments` names a type that does not exist.
- The web client (`core/static/*.js`): it asks for `/auth/login`, `/characters` and their like, which the server does not mount; against this server every request fails.
- `/auth/refresh` as an endpoint: it fails on its second line. What the portal makes of that is in `PortalConnection`.
- Schemas of the other plugins, validators, text conversion, read-only endpoints: no behaviour over time. (`telnet/router.py:37` and `:44` bind `is not None` before `:=`, so an override of PLAYERS would read `True`.)
- Within the modelled parts: TLS (a context object), what an admin's Python does in a session, the MSSP option that puts itself on the outgoing queue
  (`_run_connection` ignores what it does not know), the data of NAWS, MSSP and MTTS, help texts, passwords and signatures (libraries), a second character played
  after the first (no command leads out of a character), `old_stream_updates`, `old_handle_no_match` and `Logout`, which nothing calls or registers.

## Possible extensions

1. The composition of `PortalConnection` with the link of `TelnetProtocol` and with `SessionHub`: each is checked against what it sees of the others.
