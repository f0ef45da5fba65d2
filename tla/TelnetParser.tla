---------------------------- MODULE TelnetParser ----------------------------
(***************************************************************************)
(* How the bytes of a client become messages and lines: receive_data and   *)
(* _tn_handle_data of telnet/protocol/__init__.py over parse_telnet of     *)
(* telnet/protocol/parser.py, for every way the bytes can fall into reads. *)
(*                                                                         *)
(* The definition they are compared with is an automaton that takes the    *)
(* bytes one by one and knows nothing of buffers. What the options do with *)
(* a message is in TelnetOptions, what becomes of the connection is in     *)
(* TelnetProtocol.                                                         *)
(***************************************************************************)
EXTENDS Naturals, Sequences

CONSTANTS Wires,    \* what clients send, each a sequence of bytes
          AppSize,  \* application_buffer_size
          SubSize   \* subnegotiate_buffer_size

\* The bytes that are told apart; the code of an option is any byte but IAC.
Bytes == {"IAC", "SB", "SE", "WILL", "NOP", "CR", "LF", "x"}

ASSUME WiresAssumption == Wires \subseteq Seq(Bytes)
ASSUME SizesAssumption == AppSize \in Nat /\ SubSize \in Nat

VARIABLES
  wire,       \* what the client has sent and the reader not read
  in_buffer,  \* _tn_in_buffer
  app_data,   \* _tn_app_data
  events,     \* the messages and lines handled so far
  failed,     \* a ProtocolError was raised
  \* History, never read by an action:
  received,   \* all that was read
  largest     \* the size of the largest read

vars == <<wire, in_buffer, app_data, events, failed, received, largest>>

\* The code of what has none.
NoCode == "none"

\* A message of the parser. "data" is no event of its own, a line is.
Message(kind, code, data) == [kind |-> kind, code |-> code, data |-> data]
Events == [kind : {"command", "negotiate", "subnegotiate", "line"},
           code : Bytes \cup {NoCode}, data : Seq(Bytes)]

Init ==
  /\ wire \in Wires
  /\ in_buffer = << >> /\ app_data = << >> /\ events = << >> /\ failed = FALSE
  /\ received = << >> /\ largest = 0

-------------------------------------------------------------------------------
(* parse_telnet *)

\* Definitions named <operator>_<bug> are mutants of the definition below them:
\* nothing uses one, each shows that some property would notice the bug.

\* The bytes before the first IAC, all if there is none.
ScanUntilIac(data) ==
  CHOOSE n \in 0 .. Len(data) :
    /\ \A i \in 1 .. n : data[i] # "IAC"
    /\ n < Len(data) => data[n + 1] = "IAC"

\* Mutant: an IAC that escapes another is taken for a command.
ScanUntilIacSe_NoEscape(data) ==
  LET scan[i \in 1 .. Len(data) + 1] ==
        IF i >= Len(data) THEN 0
        ELSE IF data[i] = "IAC" /\ data[i + 1] = "SE" THEN i + 1
        ELSE scan[i + 1]
  IN  scan[1]

\* The length up to the first IAC SE that is not escaped, 0 for the -1 of the code.
ScanUntilIacSe(data) ==
  LET scan[i \in 1 .. Len(data) + 1] ==
        IF i >= Len(data) THEN 0
        ELSE IF data[i] = "IAC" /\ data[i + 1] = "SE" THEN i + 1
        ELSE IF data[i] = "IAC" /\ data[i + 1] = "IAC" THEN scan[i + 2]
        ELSE scan[i + 1]
  IN  scan[1]

\* What parse_telnet returns: a message and how much of the data it is, Nothing
\* while it is not complete, or Overflow for a ProtocolError.
Found(n, kind, code, data) == [consumed |-> n, message |-> Message(kind, code, data)]
Nothing == Found(0, "nothing", NoCode, << >>)
Overflow == Found(0, "overflow", NoCode, << >>)

ParseSubnegotiation(data) ==
  LET n == ScanUntilIacSe(data) IN
  CASE Len(data) > SubSize -> Overflow
    [] Len(data) <= SubSize /\ n < 5 -> Nothing
    [] Len(data) <= SubSize /\ n >= 5 ->
         Found(n, "subnegotiate", data[3], SubSeq(data, 4, n - 2))

ParseCode(data) ==
  IF Len(data) < 2 THEN Nothing
  ELSE CASE data[2] = "IAC"  -> Found(2, "data", NoCode, <<"IAC">>)
         [] data[2] = "WILL" -> IF Len(data) < 3 THEN Nothing
                                ELSE Found(3, "negotiate", "WILL", <<data[3]>>)
         [] data[2] = "SB"   -> ParseSubnegotiation(data)
         [] data[2] \notin {"IAC", "WILL", "SB"} -> Found(2, "command", data[2], << >>)

\* Mutant: text waits in the buffer until its line is complete.
ParseText_WholeLines(data) ==
  IF Len(data) > AppSize THEN Overflow
  ELSE IF \A i \in 1 .. ScanUntilIac(data) : data[i] # "LF" THEN Nothing
  ELSE Found(ScanUntilIac(data), "data", NoCode, SubSeq(data, 1, ScanUntilIac(data)))

\* The size that counts is that of all the data, whatever follows the text.
ParseText(data) ==
  IF Len(data) > AppSize THEN Overflow
  ELSE Found(ScanUntilIac(data), "data", NoCode, SubSeq(data, 1, ScanUntilIac(data)))

Parse(data) ==
  IF data = << >> THEN Nothing
  ELSE IF Head(data) = "IAC" THEN ParseCode(data) ELSE ParseText(data)

-------------------------------------------------------------------------------
(* _tn_handle_data *)

\* The positions of the bytes that are in S.
Where(bytes, S) ==
  LET found[n \in 0 .. Len(bytes)] ==
        IF n = 0 THEN << >>
        ELSE IF bytes[n] \in S THEN Append(found[n - 1], n)
        ELSE found[n - 1]
  IN  found[Len(bytes)]

LineEnds(app) == Where(app, {"LF"})

\* rstrip(b"\r\n"), then decode: an IAC is no UTF-8 and is ignored.
TextLine(bytes) ==
  LET n == CHOOSE n \in 0 .. Len(bytes) :
             /\ \A i \in n + 1 .. Len(bytes) : bytes[i] \in {"CR", "LF"}
             /\ n > 0 => bytes[n] \notin {"CR", "LF"}
      kept == Where(SubSeq(bytes, 1, n), Bytes \ {"IAC"})
  IN  Message("line", NoCode, [k \in DOMAIN kept |-> bytes[kept[k]]])

HandleData(data) ==
  LET app   == app_data \o data
      ends  == <<0>> \o LineEnds(app)
      n     == Len(ends)
  IN  /\ events' = events \o
           [k \in 1 .. n - 1 |-> TextLine(SubSeq(app, ends[k] + 1, ends[k + 1] - 1))]
      /\ app_data' = SubSeq(app, ends[n] + 1, Len(app))

-------------------------------------------------------------------------------
(* receive_data *)

\* The loop has left the buffer at a message that is not complete, or failed.
Waiting == Parse(in_buffer).consumed = 0

\* The reader reads n bytes. It may do so after a ProtocolError, too, until run()
\* cancels it.
Receive(n) ==
  /\ Waiting
  /\ Parse(in_buffer) = Overflow => failed
  /\ wire' = SubSeq(wire, n + 1, Len(wire))
  /\ in_buffer' = in_buffer \o SubSeq(wire, 1, n)
  /\ received' = received \o SubSeq(wire, 1, n)
  /\ largest' = IF n > largest THEN n ELSE largest
  /\ UNCHANGED <<app_data, events, failed>>

\* One turn of the loop: the message is taken off the buffer and handled.
HandleMessage ==
  LET found == Parse(in_buffer) IN
  /\ found.consumed > 0
  /\ in_buffer' = SubSeq(in_buffer, found.consumed + 1, Len(in_buffer))
  /\ IF found.message.kind = "data"
       THEN HandleData(found.message.data)
       ELSE events' = Append(events, found.message) /\ UNCHANGED app_data
  /\ UNCHANGED <<wire, failed, received, largest>>

\* A ProtocolError ends the loop and leaves the buffer as it is.
Fail ==
  /\ Parse(in_buffer) = Overflow /\ ~ failed
  /\ failed' = TRUE
  /\ UNCHANGED <<wire, in_buffer, app_data, events, received, largest>>

Next == HandleMessage \/ Fail \/ \E n \in 1 .. Len(wire) : Receive(n)

Spec == Init /\ [][Next]_vars

-------------------------------------------------------------------------------
(* The reference: one byte at a time *)

\* mode is text, code (behind an IAC), negotiate, option (behind IAC SB), body,
\* body_code (behind an IAC in it), or lost: behind an IAC where the code of an
\* option belongs, bytes have no meaning the two must share.
Blank == [mode |-> "text", code |-> NoCode, body |-> << >>, line |-> << >>, events |-> << >>]

InMode(s, mode) == [s EXCEPT !.mode = mode]
Says(s, event) == [s EXCEPT !.mode = "text", !.events = Append(@, event)]

Byte(s, b) ==
  CASE s.mode = "text" /\ b = "IAC" -> InMode(s, "code")
    [] s.mode = "text" /\ b = "LF" ->
         [Says(s, TextLine(s.line)) EXCEPT !.line = << >>]
    [] s.mode = "text" /\ b \notin {"IAC", "LF"} -> [s EXCEPT !.line = Append(@, b)]
    [] s.mode = "code" /\ b = "IAC" -> [InMode(s, "text") EXCEPT !.line = Append(@, b)]
    [] s.mode = "code" /\ b = "SB" -> InMode(s, "option")
    [] s.mode = "code" /\ b = "WILL" -> InMode(s, "negotiate")
    [] s.mode = "code" /\ b \notin {"IAC", "SB", "WILL"} ->
         Says(s, Message("command", b, << >>))
    [] s.mode = "negotiate" -> Says(s, Message("negotiate", "WILL", <<b>>))
    [] s.mode = "option" ->
         IF b = "IAC" THEN InMode(s, "lost")
                      ELSE [s EXCEPT !.mode = "body", !.code = b, !.body = << >>]
    [] s.mode = "body" ->
         [s EXCEPT !.mode = IF b = "IAC" THEN "body_code" ELSE "body", !.body = Append(@, b)]
    [] s.mode = "body_code" /\ b = "SE" ->
         Says(s, Message("subnegotiate", s.code, SubSeq(s.body, 1, Len(s.body) - 1)))
    [] s.mode = "body_code" /\ b # "SE" ->
         [s EXCEPT !.mode = "body", !.body = Append(@, b)]
    [] s.mode = "lost" -> s

Reading(bytes) ==
  LET after[n \in 0 .. Len(bytes)] ==
        IF n = 0 THEN Blank ELSE Byte(after[n - 1], bytes[n])
  IN  after[Len(bytes)]

-------------------------------------------------------------------------------
(* Properties *)

TypeOK ==
  /\ {wire, in_buffer, app_data, received} \subseteq Seq(Bytes)
  /\ events \in Seq(Events) /\ failed \in BOOLEAN /\ largest \in Nat

\* However the bytes fall into reads, what has been handled is what the bytes
\* taken off the buffer say, each message and each line once and in order, with
\* the beginning of a line kept; and when the loop waits it has handled all that
\* is complete. (Not behind a subnegotiation whose option is an IAC: an empty
\* one, IAC SB IAC SE, is never complete for parse_telnet, parser.py:224.)
EventsAsSent ==
  LET taken == Reading(SubSeq(received, 1, Len(received) - Len(in_buffer)))
      all   == Reading(received)
  IN  /\ taken.mode # "lost" =>
           taken.mode = "text" /\ taken.events = events /\ taken.line = app_data
      /\ Waiting /\ ~ failed /\ Parse(in_buffer) # Overflow /\ all.mode # "lost" =>
           all.events = events

\* Text never waits in the buffer, so a ProtocolError over text is a matter of a
\* single read beyond application_buffer_size, never of what was read before or
\* of how long a line is.
OverflowIsOneRead == failed /\ Head(in_buffer) # "IAC" => largest > AppSize
===============================================================================
