---------------------------- MODULE TelnetOptions ----------------------------
(***************************************************************************)
(* The negotiation of telnet options on one connection: the options of     *)
(* telnet/protocol/options.py, as MudTelnetProtocol starts them, feeds     *)
(* them and sends what they say (telnet/protocol/__init__.py), against a   *)
(* client that answers, asks and changes its mind.                         *)
(*                                                                         *)
(* The two directions of the connection are queues of messages. "z" marks  *)
(* a message sent in a compressed stream. The reader handles all the       *)
(* messages of a chunk without a real wait, so nothing else happens on the *)
(* server while in_buffer is not empty.                                    *)
(***************************************************************************)
EXTENDS Naturals, Sequences, FiniteSets

CONSTANTS Scenarios,   \* the connections to look at, see ScenariosAssumption
          Other        \* an option code the server has no handler for

\* The classes of options.py by their four flags. Each option that is supported
\* on a side is also started on it.
SupportLocal == {"SGA", "CHARSET", "MSSP", "MCCP2", "MCCP3", "GMCP", "LINEMODE"}
SupportRemote == {"NAWS", "CHARSET", "MTTS"}
AllOptions == SupportLocal \cup SupportRemote \cup {"EOR"}

ASSUME OtherAssumption == Other \notin AllOptions

(***************************************************************************)
(* options  those that are installed                                       *)
(* changes  bound on what the client does of its own accord                *)
(* texts    bound on what the game sends                                   *)
(* may_end  whether the client ends a compression it has begun             *)
(***************************************************************************)
ASSUME ScenariosAssumption ==
  Scenarios \subseteq [options : SUBSET AllOptions, changes : Nat, texts : Nat,
                       may_end : BOOLEAN]

\* "local" is what the server does, "remote" what the client does.
Sides == {"local", "remote"}
Support == [local |-> SupportLocal, remote |-> SupportRemote]
Offer == [local |-> "WILL", remote |-> "DO"]       \* how the server says yes
Accept == [local |-> "DO", remote |-> "WILL"]      \* how the client says yes
Reject == [local |-> "DONT", remote |-> "WONT"]    \* how the client says no
Cancel == [local |-> "WONT", remote |-> "DONT"]    \* how the server says no

\* A message: a negotiation, a subnegotiation with what it says, a text or line,
\* or the end of a compressed stream.
Negotiate(kind, o) == [kind |-> kind, option |-> o, data |-> ""]
Subnegotiate(o, data) == [kind |-> "SB", option |-> o, data |-> data]
Text == [kind |-> "TEXT", option |-> Other, data |-> ""]
End == [kind |-> "END", option |-> Other, data |-> ""]

Kinds == {"WILL", "WONT", "DO", "DONT", "SB", "TEXT", "END"}
Terminal == <<"name", "ttype", "standard">>   \* what a client says of itself
last_received == ""    \* of MTTSOption: nothing ever assigns it, so an empty terminal type
Data == {"", "accepted", "rejected"} \cup {Terminal[i] : i \in 1 .. 3}

VARIABLES
  scenario,         \* never changes
  \* The server:
  enabled,          \* enabled[s]: status.s.enabled of each option
  negotiating,      \* negotiating[s]: status.s.negotiating
  negotiation,      \* the options whose negotiation event is set
  phase,            \* start(): new, waiting, settled
  charset_enabled,  \* CHARSETOption.enabled is set
  number_requests,  \* of MTTSOption
  compressor,       \* MCCP2Option compresses what is sent
  decompressor,     \* MCCP3Option on what is received: off, on, ended
  in_buffer,        \* _tn_in_buffer
  \* The connection:
  to_client, to_server,
  \* The client:
  on,               \* on[s]: what it believes to be enabled
  asked,            \* asked[s]: what it has asked for and not been answered
  inflating,        \* it decompresses what it receives
  deflating,        \* on what it sends: before, on, ended
  terminal,         \* how often it has told its terminal
  changes, texts,   \* what the bounds count
  \* History, never read by an action:
  handled,          \* the terminal types: what each was and was taken for
  mtts_enables,     \* how often MTTS was enabled
  charset_rejected, \* the client has rejected the charsets it was asked about
  sent, got         \* lines the client has sent and the server has received

statusVars == <<enabled, negotiating, negotiation>>
optionVars == <<charset_enabled, number_requests, handled, mtts_enables, charset_rejected>>
inVars == <<decompressor, in_buffer, to_server, got>>
outVars == <<compressor, to_client>>
clientVars == <<on, asked, inflating, deflating, terminal, changes, sent>>
vars == <<scenario, statusVars, optionVars, inVars, outVars, clientVars, phase, texts>>

Options == scenario.options
Codes == Options \cup {Other}
Messages == [kind : Kinds, option : Codes, data : Data, z : BOOLEAN]

TypeOK ==
  /\ scenario \in Scenarios
  /\ enabled \in [Sides -> SUBSET Options] /\ negotiating \in [Sides -> SUBSET Options]
  /\ negotiation \subseteq Options
  /\ phase \in {"new", "waiting", "settled"}
  /\ charset_enabled \in BOOLEAN /\ number_requests \in Nat
  /\ compressor \in BOOLEAN /\ decompressor \in {"off", "on", "ended"}
  /\ in_buffer \in Seq(Messages) /\ to_client \in Seq(Messages)
  /\ to_server \in Seq(Messages)
  /\ on \in [Sides -> SUBSET Codes] /\ asked \in [Sides -> SUBSET Codes]
  /\ inflating \in BOOLEAN /\ deflating \in {"before", "on", "ended"}
  /\ terminal \in Nat /\ changes \in Nat /\ texts \in Nat
  /\ handled \in Seq([was : Data, taken_for : Data]) /\ mtts_enables \in Nat
  /\ charset_rejected \in BOOLEAN
  /\ sent \in Nat /\ got \in Nat

Nobody == [s \in Sides |-> {}]

Init ==
  /\ scenario \in Scenarios
  /\ enabled = Nobody /\ negotiating = Nobody /\ negotiation = {}
  /\ phase = "new" /\ charset_enabled = FALSE /\ number_requests = 0
  /\ compressor = FALSE /\ decompressor = "off" /\ in_buffer = << >>
  /\ to_client = << >> /\ to_server = << >>
  /\ on = Nobody /\ asked = Nobody /\ inflating = FALSE /\ deflating = "before"
  /\ terminal = 0 /\ changes = 0 /\ texts = 0
  /\ handled = << >> /\ mtts_enables = 0 /\ charset_rejected = FALSE
  /\ sent = 0 /\ got = 0

Stamp(messages, z) ==
  [i \in DOMAIN messages |-> [kind |-> messages[i].kind, option |-> messages[i].option,
                              data |-> messages[i].data, z |-> z]]

-------------------------------------------------------------------------------
(* What the server sends *)

\* Definitions named <action>_<bug> are mutants of the definition below them: no
\* action uses one, each shows that some property would notice the bug.

IsMarker(m) == m.kind = "SB" /\ m.option = "MCCP2"

\* Mutant: compression begins before the message that announces it.
Put_MarkerCompressed(messages) ==
  /\ compressor' = (compressor \/ \E i \in DOMAIN messages : IsMarker(messages[i]))
  /\ to_client' = to_client \o Stamp(messages, compressor')

\* _tn_enqueue_outgoing_data of some messages, of which only the last may be the
\* subnegotiation of MCCP2: that one is encoded before at_send_subnegotiate adds
\* the compressor.
Put(messages) ==
  /\ to_client' = to_client \o Stamp(messages, compressor)
  /\ compressor' = (compressor \/ \E i \in DOMAIN messages : IsMarker(messages[i]))

Offers(o) ==
  (IF o \in SupportLocal THEN <<Negotiate("WILL", o)>> ELSE << >>) \o
  (IF o \in SupportRemote THEN <<Negotiate("DO", o)>> ELSE << >>)

InstalledOffers(o) == IF o \in Options THEN Offers(o) ELSE << >>

\* start(): every option's offers, in the order the options are installed in.
Start ==
  /\ phase = "new" /\ in_buffer = << >>
  /\ phase' = "waiting"
  /\ negotiating' = [s \in Sides |-> Options \cap Support[s]]
  /\ Put(InstalledOffers("SGA") \o InstalledOffers("NAWS") \o InstalledOffers("CHARSET")
           \o InstalledOffers("GMCP") \o InstalledOffers("LINEMODE")
           \o InstalledOffers("MCCP2") \o InstalledOffers("MCCP3")
           \o InstalledOffers("MSSP") \o InstalledOffers("MTTS"))
  /\ UNCHANGED <<enabled, negotiation, optionVars, inVars, clientVars, texts>>

\* start() goes on: all the events are set, or the timeout has passed. The
\* latter always, with EOR installed: nothing ever sets its event.
Settle ==
  /\ phase = "waiting" /\ in_buffer = << >>
  /\ phase' = "settled"
  /\ UNCHANGED <<statusVars, optionVars, inVars, outVars, clientVars, texts>>

\* send_text of something from the game.
SendText ==
  /\ phase = "settled" /\ in_buffer = << >> /\ texts < scenario.texts
  /\ texts' = texts + 1
  /\ Put(<<Text>>)
  /\ UNCHANGED <<statusVars, optionVars, inVars, clientVars, phase>>

-------------------------------------------------------------------------------
(* What the server receives *)

\* The bytes of messages, as the decompressor leaves them: what comes after the
\* end of a compressed stream is lost.
Inflate(messages) ==
  LET n == Cardinality({i \in DOMAIN messages : messages[i].z /\ messages[i].kind # "END"})
  IN  Stamp(SubSeq(messages, 1, n), FALSE)

AtEnd(messages) == \E i \in DOMAIN messages : messages[i].kind = "END"

Decode(messages) ==
  CASE decompressor = "off"   -> messages
    [] decompressor = "on"    -> Inflate(messages)
    [] decompressor = "ended" -> << >>

\* receive_data with a chunk of n messages.
Receive(n) ==
  /\ in_buffer = << >> /\ n \in 1 .. Len(to_server)
  /\ in_buffer' = Decode(SubSeq(to_server, 1, n))
  /\ decompressor' = IF decompressor = "on" /\ AtEnd(SubSeq(to_server, 1, n))
                       THEN "ended" ELSE decompressor
  /\ to_server' = SubSeq(to_server, n + 1, Len(to_server))
  /\ UNCHANGED <<statusVars, optionVars, outVars, clientVars, phase, texts, got>>

\* m is the next message that parse_telnet finds in the buffer.
Handle(m) == in_buffer # << >> /\ m = Head(in_buffer) /\ ~ m.z

\* The rest of the buffer stays as it is.
Consume == in_buffer' = Tail(in_buffer) /\ UNCHANGED <<decompressor, to_server, got>>

\* What at_local_enable or at_remote_enable of o sends, and what it sets.
EnableMessages(o) ==
  IF o \in {"MCCP2", "MTTS"} \/ (o = "CHARSET" /\ ~ charset_enabled)
    THEN <<Subnegotiate(o, "")>> ELSE << >>

AtEnable(o) ==
  /\ negotiation' = IF o \in {"CHARSET", "MTTS"} THEN negotiation ELSE negotiation \cup {o}
  /\ charset_enabled' = (charset_enabled \/ o = "CHARSET")
  /\ number_requests' = number_requests + (IF o = "MTTS" THEN 1 ELSE 0)
  /\ mtts_enables' = mtts_enables + (IF o = "MTTS" THEN 1 ELSE 0)
  /\ UNCHANGED <<handled, charset_rejected>>

\* The client says yes to what the server has offered, or asks for it.
ReceiveYes(m, s) ==
  /\ Handle(m) /\ m.kind = Accept[s]
  /\ m.option \in Options \cap Support[s] /\ m.option \notin enabled[s]
  /\ enabled' = [enabled EXCEPT ![s] = @ \cup {m.option}]
  /\ AtEnable(m.option)
  /\ Put((IF m.option \in negotiating[s] THEN << >> ELSE <<Negotiate(Offer[s], m.option)>>)
           \o EnableMessages(m.option))
  /\ Consume
  /\ UNCHANGED <<negotiating, clientVars, phase, texts>>

ReceiveYesAgain(m, s) ==
  /\ Handle(m) /\ m.kind = Accept[s] /\ m.option \in enabled[s]
  /\ Consume
  /\ UNCHANGED <<statusVars, optionVars, outVars, clientVars, phase, texts>>

\* The option is not supported on that side. An option with a handler says DONT
\* to a DO as well as to a WILL.
ReceiveUnsupported(m, s) ==
  /\ Handle(m) /\ m.kind = Accept[s]
  /\ m.option \notin Options \cap Support[s]
  /\ Put(<<Negotiate(IF m.option \in Options THEN "DONT" ELSE Cancel[s], m.option)>>)
  /\ Consume
  /\ UNCHANGED <<statusVars, optionVars, clientVars, phase, texts>>

\* Mutant: only a refusal of what is being negotiated is a refusal.
ReceiveNo_IfNegotiating(m, s) ==
  /\ Handle(m) /\ m.kind = Reject[s]
  /\ IF m.option \in negotiating[s]
       THEN /\ enabled' = [enabled EXCEPT ![s] = @ \ {m.option}]
            /\ negotiation' = negotiation \cup {m.option}
            /\ negotiating' = [negotiating EXCEPT ![s] = @ \ {m.option}]
       ELSE UNCHANGED statusVars
  /\ Consume
  /\ UNCHANGED <<optionVars, outVars, clientVars, phase, texts>>

\* Mutant: a refusal does not set the event.
ReceiveNo_StillWaiting(m, s) ==
  /\ Handle(m) /\ m.kind = Reject[s]
  /\ enabled' = [enabled EXCEPT ![s] = @ \ {m.option}]
  /\ negotiating' = [negotiating EXCEPT ![s] = @ \ {m.option}]
  /\ Consume
  /\ UNCHANGED <<negotiation, optionVars, outVars, clientVars, phase, texts>>

\* The client says no to the offer, or stops what was enabled.
ReceiveNo(m, s) ==
  /\ Handle(m) /\ m.kind = Reject[s]
  /\ enabled' = [enabled EXCEPT ![s] = @ \ {m.option}]
  /\ negotiation' = IF m.option \in negotiating[s]
                      THEN negotiation \cup {m.option} ELSE negotiation
  /\ negotiating' = [negotiating EXCEPT ![s] = @ \ {m.option}]
  /\ Consume
  /\ UNCHANGED <<optionVars, outVars, clientVars, phase, texts>>

\* CHARSETOption: a charset that is rejected sets nothing.
ReceiveCharset(m) ==
  /\ Handle(m) /\ m.kind = "SB" /\ m.option = "CHARSET"
  /\ negotiation' = IF m.data = "accepted" THEN negotiation \cup {"CHARSET"} ELSE negotiation
  /\ charset_rejected' = (charset_rejected \/ m.data = "rejected")
  /\ Consume
  /\ UNCHANGED <<enabled, negotiating, charset_enabled, number_requests, handled,
                 mtts_enables, outVars, clientVars, phase, texts>>

\* Mutant: the requests are not counted.
ReceiveTerminal_Uncounted(m) ==
  /\ Handle(m) /\ m.kind = "SB" /\ m.option = "MTTS"
  /\ handled' = Append(handled, [was |-> m.data, taken_for |-> Terminal[number_requests]])
  /\ Put(<<Subnegotiate("MTTS", "")>>)
  /\ Consume
  /\ UNCHANGED <<statusVars, charset_enabled, number_requests, mtts_enables,
                 charset_rejected, clientVars, phase, texts>>

\* MTTSOption takes a terminal type for the one it has asked for last. After the
\* third there is nothing more to ask; after more it takes none. One that is equal to
\* last_received, so an empty one, ends the round, whichever it answers.
ReceiveTerminal(m) ==
  /\ Handle(m) /\ m.kind = "SB" /\ m.option = "MTTS"
  /\ \/ /\ m.data = last_received
        /\ negotiation' = negotiation \cup {"MTTS"}
        /\ UNCHANGED <<handled, number_requests, outVars>>
     \/ /\ m.data # last_received
        /\ handled' = IF number_requests \in 1 .. 3
                        THEN Append(handled, [was |-> m.data,
                                              taken_for |-> Terminal[number_requests]])
                        ELSE handled
        /\ IF number_requests \in 1 .. 2
             THEN number_requests' = number_requests + 1 /\ Put(<<Subnegotiate("MTTS", "")>>)
             ELSE UNCHANGED <<number_requests, outVars>>
        /\ negotiation' = IF number_requests = 3
                            THEN negotiation \cup {"MTTS"} ELSE negotiation
  /\ Consume
  /\ UNCHANGED <<enabled, negotiating, charset_enabled, mtts_enables, charset_rejected,
                 clientVars, phase, texts>>

\* Mutant: only the chunks that are still to come are decompressed.
ReceiveCompression_NextChunk(m) ==
  /\ Handle(m) /\ m.kind = "SB" /\ m.option = "MCCP3"
  /\ decompressor' = "on"
  /\ in_buffer' = Tail(in_buffer)
  /\ UNCHANGED <<statusVars, optionVars, to_server, got, outVars, clientVars, phase, texts>>

\* MCCP3Option: what is in the buffer behind the message is decompressed in place.
ReceiveCompression(m) ==
  /\ Handle(m) /\ m.kind = "SB" /\ m.option = "MCCP3"
  /\ decompressor' = IF AtEnd(in_buffer) THEN "ended" ELSE "on"
  /\ in_buffer' = Inflate(Tail(in_buffer))
  /\ UNCHANGED <<statusVars, optionVars, to_server, got, outVars, clientVars, phase, texts>>

ReceiveText(m) ==
  /\ Handle(m) /\ m.kind = "TEXT"
  /\ got' = got + 1
  /\ in_buffer' = Tail(in_buffer)
  /\ UNCHANGED <<statusVars, optionVars, decompressor, to_server, outVars, clientVars,
                 phase, texts>>

-------------------------------------------------------------------------------
(* The client *)

Say(messages) ==
  /\ to_server' = to_server \o Stamp(messages, deflating = "on")
  /\ UNCHANGED <<decompressor, in_buffer, got>>

\* m is the next message that the client can make out.
Read(m) ==
  /\ to_client # << >> /\ m = Head(to_client) /\ m.z = inflating
  /\ to_client' = Tail(to_client) /\ UNCHANGED compressor

\* It answers an offer, as it likes, or finds its own request granted.
ClientOffered(m, s) ==
  /\ Read(m) /\ m.kind = Offer[s] /\ m.option \notin on[s]
  /\ \/ /\ on' = [on EXCEPT ![s] = @ \cup {m.option}]
        /\ Say(IF m.option \in asked[s] THEN << >> ELSE <<Negotiate(Accept[s], m.option)>>)
     \/ /\ m.option \notin asked[s]
        /\ Say(<<Negotiate(Reject[s], m.option)>>)
        /\ UNCHANGED on
  /\ asked' = [asked EXCEPT ![s] = @ \ {m.option}]
  /\ UNCHANGED <<statusVars, optionVars, inflating, deflating, terminal, changes, sent,
                 phase, texts>>

ClientOfferedAgain(m, s) ==
  /\ Read(m) /\ m.kind = Offer[s] /\ m.option \in on[s]
  /\ UNCHANGED <<statusVars, optionVars, inVars, clientVars, phase, texts>>

\* The server never stops what it does, so this only answers a request.
ClientRefused(m, s) ==
  /\ Read(m) /\ m.kind = Cancel[s]
  /\ asked' = [asked EXCEPT ![s] = @ \ {m.option}]
  /\ UNCHANGED <<statusVars, optionVars, inVars, on, inflating, deflating, terminal,
                 changes, sent, phase, texts>>

ClientAsked(m) ==
  /\ Read(m) /\ m.kind = "SB"
  /\ \/ /\ m.option = "MTTS" /\ "MTTS" \in on["remote"]
        /\ \E answer \in {Terminal[IF terminal < 3 THEN terminal + 1 ELSE 3], last_received} :
             Say(<<Subnegotiate("MTTS", answer)>>)
        /\ terminal' = terminal + 1
        /\ UNCHANGED inflating
     \/ /\ m.option = "MTTS" /\ "MTTS" \notin on["remote"]
        /\ UNCHANGED <<inVars, terminal, inflating>>
     \/ /\ m.option = "CHARSET"
        /\ \E answer \in {"accepted", "rejected"} : Say(<<Subnegotiate("CHARSET", answer)>>)
        /\ UNCHANGED <<terminal, inflating>>
     \/ /\ m.option = "MCCP2"
        /\ inflating' = TRUE
        /\ UNCHANGED <<inVars, terminal>>
  /\ UNCHANGED <<statusVars, optionVars, on, asked, deflating, changes, sent, phase, texts>>

ClientSeesText(m) ==
  /\ Read(m) /\ m.kind = "TEXT"
  /\ UNCHANGED <<statusVars, optionVars, inVars, clientVars, phase, texts>>

\* What the client does of its own accord. A compression it can begin and end only
\* once, so these need no bound.
Changes == changes < scenario.changes /\ changes' = changes + 1

ClientAsks(s, o) ==
  /\ Changes /\ o \notin on[s] \cup asked[s]
  /\ asked' = [asked EXCEPT ![s] = @ \cup {o}]
  /\ Say(<<Negotiate(Accept[s], o)>>)
  /\ UNCHANGED <<statusVars, optionVars, outVars, on, inflating, deflating, terminal, sent,
                 phase, texts>>

ClientStops(s, o) ==
  /\ Changes /\ o \in on[s] \cup asked[s]
  /\ on' = [on EXCEPT ![s] = @ \ {o}] /\ asked' = [asked EXCEPT ![s] = @ \ {o}]
  /\ Say(<<Negotiate(Reject[s], o)>>)
  /\ UNCHANGED <<statusVars, optionVars, outVars, inflating, deflating, terminal, sent,
                 phase, texts>>

ClientCompresses ==
  /\ "MCCP3" \in on["local"] /\ deflating = "before"
  /\ Say(<<Subnegotiate("MCCP3", "")>>)
  /\ deflating' = "on"
  /\ UNCHANGED <<statusVars, optionVars, outVars, on, asked, inflating, terminal, changes,
                 sent, phase, texts>>

ClientStopsCompressing ==
  /\ scenario.may_end /\ deflating = "on"
  /\ Say(<<End>>)
  /\ deflating' = "ended"
  /\ UNCHANGED <<statusVars, optionVars, outVars, on, asked, inflating, terminal, changes,
                 sent, phase, texts>>

ClientSendsLine ==
  /\ Changes
  /\ sent' = sent + 1
  /\ Say(<<Text>>)
  /\ UNCHANGED <<statusVars, optionVars, outVars, on, asked, inflating, deflating, terminal,
                 phase, texts>>

-------------------------------------------------------------------------------
Server ==
  \/ Start \/ Settle \/ SendText \/ \E n \in 1 .. Len(to_server) : Receive(n)
  \/ \E i \in DOMAIN in_buffer :
       LET m == in_buffer[i] IN
         \/ \E s \in Sides : ReceiveYes(m, s) \/ ReceiveYesAgain(m, s)
                               \/ ReceiveUnsupported(m, s) \/ ReceiveNo(m, s)
         \/ ReceiveCharset(m) \/ ReceiveTerminal(m) \/ ReceiveCompression(m)
         \/ ReceiveText(m)

Client ==
  \/ \E i \in DOMAIN to_client :
       LET m == to_client[i] IN
         \/ \E s \in Sides : ClientOffered(m, s) \/ ClientOfferedAgain(m, s)
                               \/ ClientRefused(m, s)
         \/ ClientAsked(m) \/ ClientSeesText(m)
  \/ \E s \in Sides, o \in Codes : ClientAsks(s, o) \/ ClientStops(s, o)
  \/ ClientCompresses \/ ClientStopsCompressing \/ ClientSendsLine

Next == (Server \/ Client) /\ UNCHANGED scenario

Spec == Init /\ [][Next]_vars

-------------------------------------------------------------------------------
(* Properties *)

\* Nothing is under way, and the server has not gone deaf: after the end of a
\* compression that the client began it hears nothing more, since what
\* options.py:474 asks for, to disable MCCP3 there, is never done.
Quiet ==
  /\ phase # "new" /\ decompressor # "ended"
  /\ to_client = << >> /\ to_server = << >> /\ in_buffer = << >>

\* However offers and requests cross, once nothing is under way the two ends agree
\* on what is enabled.
EndsAgree == Quiet => \A s \in Sides : on[s] = enabled[s]

\* When the client has answered everything, start() has nothing left to wait for
\* but EOR, which nothing settles, CHARSET if the client has rejected the charsets it
\* was asked about, and an MTTS that was enabled over again: the requests that makes
\* are one too many.
OffersSettle ==
  Quiet => \A o \in Options \ {"EOR"} :
             \/ o \in negotiation
             \/ o = "CHARSET" /\ charset_rejected
             \/ o = "MTTS" /\ mtts_enables > 1

\* The client always knows whether what comes next is compressed.
OutputReadable ==
  \A i \in DOMAIN to_client :
    to_client[i].z <=> inflating \/ \E j \in 1 .. i - 1 : IsMarker(to_client[j])

\* The server always knows too, however the messages fall into chunks, and gets
\* every line.
InputReadable ==
  /\ in_buffer # << >> => ~ Head(in_buffer).z
  /\ Quiet => got = sent

\* An answer to a request for the terminal type is taken for what it is, if the
\* client does not enable MTTS over again.
TerminalUnderstood ==
  mtts_enables <= 1 => \A i \in DOMAIN handled : handled[i].was = handled[i].taken_for
===============================================================================
