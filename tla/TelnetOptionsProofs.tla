-------------------------- MODULE TelnetOptionsProofs --------------------------
(***************************************************************************)
(* Proofs about TelnetOptions, for any options that are installed and any  *)
(* bounds: its type invariant; that the client always knows whether what   *)
(* it reads next is compressed; that the server always makes out what the  *)
(* client sends, compressed or not; that once nothing is under way the two *)
(* ends agree on what is enabled and start() need not wait; and that the   *)
(* terminal types are told apart.                                          *)
(***************************************************************************)
EXTENDS TelnetOptions, FiniteSetTheorems, SequenceTheorems, TLAPS

-------------------------------------------------------------------------------
(* Messages *)

\* A message before it is put on a connection.
Raw == [kind : Kinds, option : Codes, data : Data]

LEMMA Scenario ==
  ASSUME TypeOK
  PROVE  /\ Options \subseteq AllOptions /\ Options \subseteq Codes /\ Other \in Codes
         /\ \A o \in AllOptions : o \in Codes => o \in Options
BY ScenariosAssumption, OtherAssumption DEF TypeOK, Options, Codes

LEMMA NegotiateRaw ==
  ASSUME NEW kind \in {"WILL", "WONT", "DO", "DONT"}, NEW o \in Codes
  PROVE  Negotiate(kind, o) \in Raw /\ ~ IsMarker(Negotiate(kind, o))
BY DEF Negotiate, Raw, Kinds, Data, IsMarker

LEMMA SubnegotiateRaw ==
  ASSUME NEW o \in Codes, NEW data \in Data
  PROVE  Subnegotiate(o, data) \in Raw
BY DEF Subnegotiate, Raw, Kinds

LEMMA TextRaw ==
  ASSUME Other \in Codes
  PROVE  Text \in Raw /\ End \in Raw /\ ~ IsMarker(Text)
BY DEF Text, End, Raw, Kinds, Data, IsMarker

LEMMA TerminalData == \A i \in 1 .. 3 : Terminal[i] \in Data
BY DEF Data

LEMMA NothingData == last_received \in Data
BY DEF last_received, Data

LEMMA StampFacts ==
  ASSUME NEW S, NEW ms \in Seq(S), \A x \in S : x.kind \in Kinds /\ x.option \in Codes /\ x.data \in Data,
         NEW z \in BOOLEAN
  PROVE  /\ Stamp(ms, z) \in Seq(Messages) /\ Len(Stamp(ms, z)) = Len(ms)
         /\ \A i \in 1 .. Len(ms) : /\ Stamp(ms, z)[i].z = z
                                    /\ IsMarker(Stamp(ms, z)[i]) <=> IsMarker(ms[i])
<1> DEFINE m(i) == [kind |-> ms[i].kind, option |-> ms[i].option, data |-> ms[i].data, z |-> z]
<1>1. \A i \in 1 .. Len(ms) : ms[i] \in S /\ m(i) \in Messages
  <2> SUFFICES ASSUME NEW i \in 1 .. Len(ms) PROVE ms[i] \in S /\ m(i) \in Messages
    OBVIOUS
  <2>1. ms[i] \in S
    OBVIOUS
  <2> QED BY <2>1 DEF Messages
<1>2. \A i \in 1 .. Len(ms) : m(i).z = z /\ (IsMarker(m(i)) <=> IsMarker(ms[i]))
  BY DEF IsMarker
<1>3. Stamp(ms, z) = [i \in 1 .. Len(ms) |-> m(i)]
  BY DEF Stamp
<1> HIDE DEF m
<1>4. Stamp(ms, z) \in Seq(Messages) /\ Len(Stamp(ms, z)) = Len(ms)
  BY <1>1, <1>3
<1>5. \A i \in 1 .. Len(ms) : Stamp(ms, z)[i] = m(i)
  BY <1>3
<1> QED BY <1>2, <1>4, <1>5

LEMMA StampRaw ==
  ASSUME NEW ms \in Seq(Raw), NEW z \in BOOLEAN
  PROVE  /\ Stamp(ms, z) \in Seq(Messages) /\ Len(Stamp(ms, z)) = Len(ms)
         /\ \A i \in 1 .. Len(ms) : /\ Stamp(ms, z)[i].z = z
                                    /\ IsMarker(Stamp(ms, z)[i]) <=> IsMarker(ms[i])
<1>1. \A x \in Raw : x.kind \in Kinds /\ x.option \in Codes /\ x.data \in Data
  BY DEF Raw
<1> QED BY <1>1, StampFacts, Zenon

LEMMA PutTyped ==
  ASSUME TypeOK, NEW ms \in Seq(Raw), Put(ms)
  PROVE  to_client' \in Seq(Messages) /\ compressor' \in BOOLEAN
<1>1. Stamp(ms, compressor) \in Seq(Messages) /\ to_client \in Seq(Messages)
  BY StampRaw DEF TypeOK
<1> QED BY <1>1 DEF Put, TypeOK

LEMMA SayTyped ==
  ASSUME TypeOK, NEW ms \in Seq(Raw), Say(ms)
  PROVE  /\ to_server' \in Seq(Messages)
         /\ UNCHANGED <<decompressor, in_buffer, got>>
<1>1. Stamp(ms, deflating = "on") \in Seq(Messages) /\ to_server \in Seq(Messages)
  BY StampRaw DEF TypeOK
<1> QED BY <1>1 DEF Say

LEMMA InflateTyped ==
  ASSUME NEW ms \in Seq(Messages)
  PROVE  Inflate(ms) \in Seq(Messages)
<1> DEFINE T == {i \in DOMAIN ms : ms[i].z /\ ms[i].kind # "END"}
           n == Cardinality(T)
<1>1. n \in Nat /\ n <= Len(ms)
  <2>1. IsFiniteSet(1 .. Len(ms)) /\ Cardinality(1 .. Len(ms)) = Len(ms)
    <3>1. Len(ms) \in Nat /\ 1 \in Int /\ Len(ms) \in Int
      OBVIOUS
    <3> QED BY <3>1, FS_Interval
  <2>2. T \in SUBSET (1 .. Len(ms))
    OBVIOUS
  <2> HIDE DEF T
  <2> QED BY <2>1, <2>2, FS_Subset, FS_CardinalityType
<1> HIDE DEF n
<1>2. SubSeq(ms, 1, n) \in Seq(Messages)
  BY <1>1
<1>3. \A x \in Messages : x.kind \in Kinds /\ x.option \in Codes /\ x.data \in Data
  BY DEF Messages
<1>4. Stamp(SubSeq(ms, 1, n), FALSE) \in Seq(Messages)
  BY <1>2, <1>3, StampFacts, Zenon
<1> QED BY <1>4 DEF Inflate, n

LEMMA DecodeTyped ==
  ASSUME TypeOK, NEW ms \in Seq(Messages)
  PROVE  Decode(ms) \in Seq(Messages)
<1>1. << >> \in Seq(Messages) /\ Inflate(ms) \in Seq(Messages)
  BY InflateTyped
<1> QED BY <1>1 DEF Decode, TypeOK

\* A message that is handled or read is one of those on its way.
LEMMA HandledTyped ==
  ASSUME TypeOK, NEW m, Handle(m)
  PROVE  m \in Messages /\ Tail(in_buffer) \in Seq(Messages)
BY DEF TypeOK, Handle

LEMMA ReadTyped ==
  ASSUME TypeOK, NEW m, Read(m)
  PROVE  m \in Messages /\ to_client' \in Seq(Messages) /\ compressor' = compressor
BY DEF TypeOK, Read

LEMMA MessageFields ==
  ASSUME NEW m \in Messages
  PROVE  m.kind \in Kinds /\ m.option \in Codes /\ m.data \in Data
BY DEF Messages

-------------------------------------------------------------------------------
(* What the server puts on the connection *)

\* Messages that may be put: the marker of compression comes last, if at all.
Plain(ms) == ms \in Seq(Raw) /\ \A i \in 1 .. Len(ms) : ~ IsMarker(ms[i])
MarkedLast(ms) == ms \in Seq(Raw) /\ \A i \in 1 .. Len(ms) - 1 : ~ IsMarker(ms[i])

LEMMA PlainConcat ==
  ASSUME NEW ms, NEW ns, Plain(ms), Plain(ns)
  PROVE  Plain(ms \o ns)
<1>1. /\ ms \o ns \in Seq(Raw) /\ Len(ms \o ns) = Len(ms) + Len(ns)
      /\ \A i \in 1 .. Len(ms) + Len(ns) :
           (ms \o ns)[i] = IF i <= Len(ms) THEN ms[i] ELSE ns[i - Len(ms)]
      /\ Len(ms) \in Nat /\ Len(ns) \in Nat
  BY DEF Plain
<1>2. ASSUME NEW i \in 1 .. Len(ms) + Len(ns) PROVE ~ IsMarker((ms \o ns)[i])
  <2>1. CASE i <= Len(ms)
    BY <1>1, <2>1 DEF Plain
  <2>2. CASE ~ (i <= Len(ms))
    <3>1. i - Len(ms) \in 1 .. Len(ns) /\ (ms \o ns)[i] = ns[i - Len(ms)]
      BY <1>1, <2>2
    <3> QED BY <3>1 DEF Plain
  <2> QED BY <2>1, <2>2
<1> QED BY <1>1, <1>2 DEF Plain

LEMMA PlainMarked ==
  ASSUME NEW ms, NEW ns, Plain(ms), MarkedLast(ns), Len(ns) <= 1
  PROVE  MarkedLast(ms \o ns)
<1>1. /\ ms \o ns \in Seq(Raw) /\ Len(ms \o ns) = Len(ms) + Len(ns)
      /\ \A i \in 1 .. Len(ms) : (ms \o ns)[i] = ms[i]
      /\ Len(ms) \in Nat /\ Len(ns) \in Nat
  BY DEF Plain, MarkedLast
<1>2. \A i \in 1 .. Len(ms \o ns) - 1 : i \in 1 .. Len(ms)
  BY <1>1
<1> QED BY <1>1, <1>2 DEF Plain, MarkedLast

LEMMA PlainIsMarkedLast ==
  ASSUME NEW ms, Plain(ms)
  PROVE  MarkedLast(ms)
BY DEF Plain, MarkedLast

LEMMA PlainNone == Plain(<< >>)
BY DEF Plain

LEMMA PlainOne ==
  ASSUME NEW m \in Raw, ~ IsMarker(m)
  PROVE  Plain(<<m>>)
BY DEF Plain

LEMMA MarkedOne ==
  ASSUME NEW m \in Raw
  PROVE  MarkedLast(<<m>>) /\ Len(<<m>>) = 1
BY DEF MarkedLast

LEMMA OffersPlain ==
  ASSUME TypeOK, NEW o
  PROVE  Plain(InstalledOffers(o))
<1>1. CASE o \notin Options
  BY <1>1, PlainNone DEF InstalledOffers
<1>2. CASE o \in Options
  <2>1. o \in Codes
    BY <1>2, Scenario
  <2>2. Plain(<<Negotiate("WILL", o)>>) /\ Plain(<<Negotiate("DO", o)>>)
    BY <2>1, NegotiateRaw, PlainOne
  <2>3. Plain(IF o \in SupportLocal THEN <<Negotiate("WILL", o)>> ELSE << >>)
    BY <2>2, PlainNone
  <2>4. Plain(IF o \in SupportRemote THEN <<Negotiate("DO", o)>> ELSE << >>)
    BY <2>2, PlainNone
  <2>5. Plain(Offers(o))
    BY <2>3, <2>4, PlainConcat DEF Offers
  <2> QED BY <1>2, <2>5 DEF InstalledOffers
<1> QED BY <1>1, <1>2

LEMMA StartPuts ==
  ASSUME TypeOK, Start
  PROVE  \E ms : MarkedLast(ms) /\ Put(ms)
<1> DEFINE a == InstalledOffers("SGA")
           b == InstalledOffers("NAWS")
           c == InstalledOffers("CHARSET")
           d == InstalledOffers("GMCP")
           e == InstalledOffers("LINEMODE")
           f == InstalledOffers("MCCP2")
           g == InstalledOffers("MCCP3")
           h == InstalledOffers("MSSP")
           i == InstalledOffers("MTTS")
           ms == a \o b \o c \o d \o e \o f \o g \o h \o i
<1>1. /\ Plain(a) /\ Plain(b) /\ Plain(c) /\ Plain(d) /\ Plain(e) /\ Plain(f)
      /\ Plain(g) /\ Plain(h) /\ Plain(i)
  BY OffersPlain
<1>2. Put(ms)
  BY DEF Start
<1> HIDE DEF a, b, c, d, e, f, g, h, i
<1>3. Plain(a \o b \o c)
  BY <1>1, PlainConcat
<1>4. Plain(a \o b \o c \o d \o e)
  BY <1>1, <1>3, PlainConcat
<1>5. Plain(a \o b \o c \o d \o e \o f \o g)
  BY <1>1, <1>4, PlainConcat
<1>6. Plain(ms)
  BY <1>1, <1>5, PlainConcat
<1>7. MarkedLast(ms)
  BY <1>6, PlainIsMarkedLast
<1> QED BY <1>2, <1>7

LEMMA EnablePuts ==
  ASSUME TypeOK, NEW o \in Options
  PROVE  MarkedLast(EnableMessages(o)) /\ Len(EnableMessages(o)) <= 1
<1>1. Subnegotiate(o, "") \in Raw
  BY Scenario, SubnegotiateRaw DEF Data
<1>2. MarkedLast(<<Subnegotiate(o, "")>>) /\ Len(<<Subnegotiate(o, "")>>) <= 1
  <2> DEFINE m == Subnegotiate(o, "")
  <2>1. m \in Raw
    BY <1>1
  <2> HIDE DEF m
  <2>2. MarkedLast(<<m>>) /\ Len(<<m>>) <= 1
    BY <2>1, MarkedOne
  <2> QED BY <2>2 DEF m
<1>3. MarkedLast(<< >>) /\ Len(<< >>) <= 1
  BY PlainNone, PlainIsMarkedLast
<1> QED BY <1>2, <1>3 DEF EnableMessages

LEMMA YesPuts ==
  ASSUME TypeOK, NEW m, NEW s \in Sides, ReceiveYes(m, s)
  PROVE  \E ms : MarkedLast(ms) /\ Put(ms)
<1> DEFINE offer == IF m.option \in negotiating[s] THEN << >> ELSE <<Negotiate(Offer[s], m.option)>>
<1>1. m.option \in Options
  BY DEF ReceiveYes
<1>2. Offer[s] \in {"WILL", "DO"} /\ m.option \in Codes
  BY <1>1, Scenario DEF Offer, Sides
<1>3. Plain(<<Negotiate(Offer[s], m.option)>>)
  BY <1>2, NegotiateRaw, PlainOne
<1>4. Plain(offer)
  BY <1>3, PlainNone
<1>5. MarkedLast(offer \o EnableMessages(m.option))
  BY <1>1, <1>4, EnablePuts, PlainMarked
<1>6. Put(offer \o EnableMessages(m.option))
  BY DEF ReceiveYes
<1> QED BY <1>5, <1>6

LEMMA UnsupportedPuts ==
  ASSUME TypeOK, NEW m, NEW s \in Sides, ReceiveUnsupported(m, s)
  PROVE  \E ms : MarkedLast(ms) /\ Put(ms)
<1> DEFINE kind == IF m.option \in Options THEN "DONT" ELSE Cancel[s]
<1>1. Handle(m)
  BY DEF ReceiveUnsupported
<1>2. m.option \in Codes
  BY <1>1, HandledTyped, MessageFields
<1>3. kind \in {"WONT", "DONT"}
  BY DEF Cancel, Sides
<1>4. Plain(<<Negotiate(kind, m.option)>>)
  <2> HIDE DEF kind
  <2> QED BY <1>2, <1>3, NegotiateRaw, PlainOne
<1>5. Put(<<Negotiate(kind, m.option)>>)
  BY DEF ReceiveUnsupported
<1> QED BY <1>4, <1>5, PlainIsMarkedLast

LEMMA TerminalPuts ==
  ASSUME TypeOK, NEW m, ReceiveTerminal(m)
  PROVE  UNCHANGED outVars \/ \E ms : MarkedLast(ms) /\ Put(ms)
<1>1. Handle(m) /\ m.option = "MTTS"
  BY DEF ReceiveTerminal
<1>2. "MTTS" \in Codes
  BY <1>1, HandledTyped, MessageFields
<1>3. MarkedLast(<<Subnegotiate("MTTS", "")>>)
  BY <1>2, SubnegotiateRaw, MarkedOne DEF Data
<1>4. UNCHANGED outVars \/ Put(<<Subnegotiate("MTTS", "")>>)
  BY DEF ReceiveTerminal
<1> QED BY <1>3, <1>4

LEMMA TextPuts ==
  ASSUME TypeOK, SendText
  PROVE  \E ms : MarkedLast(ms) /\ Put(ms)
<1>1. Plain(<<Text>>)
  BY Scenario, TextRaw, PlainOne
<1>2. Put(<<Text>>)
  BY DEF SendText
<1> QED BY <1>1, <1>2, PlainIsMarkedLast

-------------------------------------------------------------------------------
(* Types *)

LEMMA InitType == Init => TypeOK
<1> SUFFICES ASSUME Init PROVE TypeOK
  OBVIOUS
<1>1. /\ << >> \in Seq(Messages) /\ << >> \in Seq([was : Data, taken_for : Data])
      /\ Nobody \in [Sides -> SUBSET Options] /\ Nobody \in [Sides -> SUBSET Codes]
  BY DEF Nobody
<1> QED BY <1>1 DEF Init, TypeOK

\* Types.
LEMMA TypeNext ==
  ASSUME TypeOK, [Next]_vars
  PROVE  TypeOK'
<1>a. ASSUME UNCHANGED scenario PROVE Options' = Options /\ Codes' = Codes /\ Messages' = Messages
  BY <1>a DEF Options, Codes, Messages
<1>b. scenario \in Scenarios
  BY DEF TypeOK
<1>1. ASSUME Start, UNCHANGED scenario PROVE TypeOK'
  <2>1. to_client' \in Seq(Messages) /\ compressor' \in BOOLEAN
    BY <1>1, StartPuts, PutTyped DEF MarkedLast
  <2>2. negotiating' \in [Sides -> SUBSET Options]
    BY <1>1 DEF Start
  <2> QED BY <1>a, <1>b, <1>1, <2>1, <2>2 DEF Start, TypeOK, statusVars, optionVars, inVars, outVars, clientVars
<1>2. ASSUME Settle, UNCHANGED scenario PROVE TypeOK'
  BY <1>a, <1>b, <1>2 DEF Settle, TypeOK, statusVars, optionVars, inVars, outVars, clientVars
<1>3. ASSUME SendText, UNCHANGED scenario PROVE TypeOK'
  <2>1. to_client' \in Seq(Messages) /\ compressor' \in BOOLEAN
    BY <1>3, TextPuts, PutTyped DEF MarkedLast
  <2> QED BY <1>a, <1>b, <1>3, <2>1 DEF SendText, TypeOK, statusVars, optionVars, inVars, outVars, clientVars
<1>4. ASSUME NEW n \in 1 .. Len(to_server), Receive(n), UNCHANGED scenario
      PROVE  TypeOK'
  <2>1. to_server \in Seq(Messages)
    BY DEF TypeOK
  <2>2. /\ SubSeq(to_server, 1, n) \in Seq(Messages)
        /\ SubSeq(to_server, n + 1, Len(to_server)) \in Seq(Messages)
    BY <2>1
  <2>3. in_buffer' \in Seq(Messages) /\ to_server' \in Seq(Messages)
    BY <1>4, <2>2, DecodeTyped DEF Receive
  <2>4. decompressor' \in {"off", "on", "ended"}
    BY <1>4 DEF Receive, TypeOK
  <2> QED BY <1>a, <1>b, <1>4, <2>3, <2>4 DEF Receive, TypeOK, statusVars, optionVars, inVars, outVars, clientVars
<1>5. ASSUME NEW m, NEW s \in Sides, ReceiveYes(m, s), UNCHANGED scenario
      PROVE  TypeOK'
  <2>1. m \in Messages /\ Tail(in_buffer) \in Seq(Messages)
    BY <1>5, HandledTyped DEF ReceiveYes
  <2>2. m.kind \in Kinds /\ m.option \in Codes /\ m.data \in Data
    BY <2>1, MessageFields
  <2>3. to_client' \in Seq(Messages) /\ compressor' \in BOOLEAN
    BY <1>5, YesPuts, PutTyped DEF MarkedLast
  <2>4. /\ enabled' \in [Sides -> SUBSET Options] /\ negotiation' \subseteq Options
        /\ charset_enabled' \in BOOLEAN /\ number_requests' \in Nat /\ mtts_enables' \in Nat
        /\ handled' = handled /\ charset_rejected' = charset_rejected
    BY <1>5 DEF ReceiveYes, AtEnable, TypeOK
  <2> QED BY <1>a, <1>b, <1>5, <2>1, <2>3, <2>4 DEF ReceiveYes, Consume, TypeOK, statusVars, optionVars, inVars, outVars, clientVars
<1>6. ASSUME NEW m, NEW s \in Sides, ReceiveYesAgain(m, s), UNCHANGED scenario
      PROVE  TypeOK'
  <2>1. m \in Messages /\ Tail(in_buffer) \in Seq(Messages)
    BY <1>6, HandledTyped DEF ReceiveYesAgain
  <2>2. m.kind \in Kinds /\ m.option \in Codes /\ m.data \in Data
    BY <2>1, MessageFields
  <2> QED BY <1>a, <1>b, <1>6, <2>1 DEF ReceiveYesAgain, Consume, TypeOK, statusVars, optionVars, inVars, outVars, clientVars
<1>7. ASSUME NEW m, NEW s \in Sides, ReceiveUnsupported(m, s), UNCHANGED scenario
      PROVE  TypeOK'
  <2>1. m \in Messages /\ Tail(in_buffer) \in Seq(Messages)
    BY <1>7, HandledTyped DEF ReceiveUnsupported
  <2>2. m.kind \in Kinds /\ m.option \in Codes /\ m.data \in Data
    BY <2>1, MessageFields
  <2>3. to_client' \in Seq(Messages) /\ compressor' \in BOOLEAN
    BY <1>7, UnsupportedPuts, PutTyped DEF MarkedLast
  <2> QED BY <1>a, <1>b, <1>7, <2>1, <2>3
          DEF ReceiveUnsupported, Consume, TypeOK, statusVars, optionVars, inVars, outVars, clientVars
<1>8. ASSUME NEW m, NEW s \in Sides, ReceiveNo(m, s), UNCHANGED scenario
      PROVE  TypeOK'
  <2>1. m \in Messages /\ Tail(in_buffer) \in Seq(Messages)
    BY <1>8, HandledTyped DEF ReceiveNo
  <2>2. m.kind \in Kinds /\ m.option \in Codes /\ m.data \in Data
    BY <2>1, MessageFields
  <2>3. /\ enabled' \in [Sides -> SUBSET Options] /\ negotiation' \subseteq Options
        /\ negotiating' \in [Sides -> SUBSET Options]
    BY <1>8 DEF ReceiveNo, TypeOK
  <2> QED BY <1>a, <1>b, <1>8, <2>1, <2>3 DEF ReceiveNo, Consume, TypeOK, statusVars, optionVars, inVars, outVars, clientVars
<1>9. ASSUME NEW m, ReceiveCharset(m), UNCHANGED scenario
      PROVE  TypeOK'
  <2>1. m \in Messages /\ Tail(in_buffer) \in Seq(Messages)
    BY <1>9, HandledTyped DEF ReceiveCharset
  <2>2. m.kind \in Kinds /\ m.option \in Codes /\ m.data \in Data
    BY <2>1, MessageFields
  <2>3. "CHARSET" \in Options
    BY <1>9, <2>2, Scenario DEF ReceiveCharset, AllOptions, SupportLocal
  <2>4. negotiation' \subseteq Options
    BY <1>9, <2>3 DEF ReceiveCharset, TypeOK
  <2> QED BY <1>a, <1>b, <1>9, <2>1, <2>4 DEF ReceiveCharset, Consume, TypeOK, statusVars, optionVars, inVars, outVars, clientVars
<1>10. ASSUME NEW m, ReceiveTerminal(m), UNCHANGED scenario
      PROVE  TypeOK'
  <2>1. m \in Messages /\ Tail(in_buffer) \in Seq(Messages)
    BY <1>10, HandledTyped DEF ReceiveTerminal
  <2>2. m.kind \in Kinds /\ m.option \in Codes /\ m.data \in Data
    BY <2>1, MessageFields
  <2>3. "MTTS" \in Options
    BY <1>10, <2>2, Scenario DEF ReceiveTerminal, AllOptions, SupportRemote
  <2>4. negotiation' \subseteq Options /\ number_requests' \in Nat
    <3>1. negotiation' \subseteq Options
      BY <1>10, <2>3 DEF ReceiveTerminal, TypeOK
    <3>2. number_requests' = number_requests \/ number_requests' = number_requests + 1
      BY <1>10 DEF ReceiveTerminal
    <3>3. number_requests \in Nat
      BY DEF TypeOK
    <3> QED BY <3>1, <3>2, <3>3
  <2>5. to_client' \in Seq(Messages) /\ compressor' \in BOOLEAN
    BY <1>10, TerminalPuts, PutTyped DEF MarkedLast, outVars, TypeOK
  <2>6. handled' \in Seq([was : Data, taken_for : Data])
    <3>1. CASE number_requests \in 1 .. 3 /\ m.data # last_received
      <4> DEFINE x == [was |-> m.data, taken_for |-> Terminal[number_requests]]
      <4>1. x \in [was : Data, taken_for : Data]
        BY <2>2, <3>1, TerminalData
      <4>2. handled' = Append(handled, x)
        BY <1>10, <3>1 DEF ReceiveTerminal
      <4> HIDE DEF x
      <4> QED BY <4>1, <4>2 DEF TypeOK
    <3>2. CASE ~ (number_requests \in 1 .. 3 /\ m.data # last_received)
      BY <1>10, <3>2 DEF ReceiveTerminal, TypeOK
    <3> QED BY <3>1, <3>2
  <2> QED BY <1>a, <1>b, <1>10, <2>1, <2>4, <2>5, <2>6
          DEF ReceiveTerminal, Consume, TypeOK, statusVars, optionVars, inVars, outVars, clientVars
<1>11. ASSUME NEW m, ReceiveCompression(m), UNCHANGED scenario
      PROVE  TypeOK'
  <2>1. m \in Messages /\ Tail(in_buffer) \in Seq(Messages)
    BY <1>11, HandledTyped DEF ReceiveCompression
  <2>2. m.kind \in Kinds /\ m.option \in Codes /\ m.data \in Data
    BY <2>1, MessageFields
  <2>3. in_buffer' \in Seq(Messages) /\ decompressor' \in {"off", "on", "ended"}
    BY <1>11, <2>1, InflateTyped DEF ReceiveCompression
  <2> QED BY <1>a, <1>b, <1>11, <2>3 DEF ReceiveCompression, TypeOK, statusVars, optionVars, inVars, outVars, clientVars
<1>12. ASSUME NEW m, ReceiveText(m), UNCHANGED scenario
      PROVE  TypeOK'
  <2>1. m \in Messages /\ Tail(in_buffer) \in Seq(Messages)
    BY <1>12, HandledTyped DEF ReceiveText
  <2>2. m.kind \in Kinds /\ m.option \in Codes /\ m.data \in Data
    BY <2>1, MessageFields
  <2> QED BY <1>a, <1>b, <1>12, <2>1 DEF ReceiveText, TypeOK, statusVars, optionVars, inVars, outVars, clientVars
<1>13. ASSUME NEW m, NEW s \in Sides, ClientOffered(m, s), UNCHANGED scenario
      PROVE  TypeOK'
  <2>1. m \in Messages /\ to_client' \in Seq(Messages) /\ compressor' = compressor
    BY <1>13, ReadTyped DEF ClientOffered
  <2>2. m.option \in Codes
    BY <2>1, MessageFields
  <2>3. /\ << >> \in Seq(Raw) /\ <<Negotiate(Accept[s], m.option)>> \in Seq(Raw)
        /\ <<Negotiate(Reject[s], m.option)>> \in Seq(Raw)
    <3>1. Accept[s] \in {"DO", "WILL"} /\ Reject[s] \in {"DONT", "WONT"}
      BY DEF Accept, Reject, Sides
    <3> QED BY <2>2, <3>1, NegotiateRaw
  <2>4. \E ms \in Seq(Raw) : Say(ms)
    BY <1>13, <2>3 DEF ClientOffered
  <2>5. on' \in [Sides -> SUBSET Codes] /\ asked' \in [Sides -> SUBSET Codes]
    BY <1>13, <2>2 DEF ClientOffered, TypeOK
  <2>6. to_server' \in Seq(Messages) /\ UNCHANGED <<decompressor, in_buffer, got>>
    BY <2>4, SayTyped
  <2> QED BY <1>a, <1>b, <1>13, <2>1, <2>5, <2>6 DEF ClientOffered, TypeOK, statusVars, optionVars, inVars, outVars, clientVars
<1>14. ASSUME NEW m, NEW s \in Sides, ClientOfferedAgain(m, s), UNCHANGED scenario
      PROVE  TypeOK'
  <2>1. m \in Messages /\ to_client' \in Seq(Messages) /\ compressor' = compressor
    BY <1>14, ReadTyped DEF ClientOfferedAgain
  <2>2. m.option \in Codes
    BY <2>1, MessageFields
  <2> QED BY <1>a, <1>b, <1>14, <2>1 DEF ClientOfferedAgain, TypeOK, statusVars, optionVars, inVars, outVars, clientVars
<1>15. ASSUME NEW m, NEW s \in Sides, ClientRefused(m, s), UNCHANGED scenario
      PROVE  TypeOK'
  <2>1. m \in Messages /\ to_client' \in Seq(Messages) /\ compressor' = compressor
    BY <1>15, ReadTyped DEF ClientRefused
  <2>2. m.option \in Codes
    BY <2>1, MessageFields
  <2>3. asked' \in [Sides -> SUBSET Codes]
    BY <1>15 DEF ClientRefused, TypeOK
  <2> QED BY <1>a, <1>b, <1>15, <2>1, <2>3 DEF ClientRefused, TypeOK, statusVars, optionVars, inVars, outVars, clientVars
<1>16. ASSUME NEW m, ClientAsked(m), UNCHANGED scenario
      PROVE  TypeOK'
  <2>1. m \in Messages /\ to_client' \in Seq(Messages) /\ compressor' = compressor
    BY <1>16, ReadTyped DEF ClientAsked
  <2>2. m.option \in Codes
    BY <2>1, MessageFields
  <2>3. terminal' \in Nat /\ inflating' \in BOOLEAN
    <3>1. terminal' = terminal \/ terminal' = terminal + 1
      BY <1>16 DEF ClientAsked
    <3>2. inflating' = inflating \/ inflating' = TRUE
      BY <1>16 DEF ClientAsked
    <3>3. terminal \in Nat /\ inflating \in BOOLEAN
      BY DEF TypeOK
    <3>4. terminal' \in Nat
      BY <3>1, <3>3
    <3> QED BY <3>2, <3>3, <3>4
  <2>4. UNCHANGED inVars \/ \E ms \in Seq(Raw) : Say(ms)
    <3> DEFINE said == Terminal[IF terminal < 3 THEN terminal + 1 ELSE 3]
    <3>1. said \in Data
      <4>1. (IF terminal < 3 THEN terminal + 1 ELSE 3) \in 1 .. 3
        BY DEF TypeOK
      <4> QED BY <4>1, TerminalData
    <3> HIDE DEF said
    <3>2. m.option = "MTTS" =>
            \A answer \in {said, last_received} : <<Subnegotiate("MTTS", answer)>> \in Seq(Raw)
      <4> SUFFICES ASSUME m.option = "MTTS", NEW answer \in {said, last_received}
                   PROVE  <<Subnegotiate("MTTS", answer)>> \in Seq(Raw)
        OBVIOUS
      <4>1. "MTTS" \in Codes /\ answer \in Data
        BY <2>2, <3>1, NothingData
      <4>2. Subnegotiate("MTTS", answer) \in Raw
        BY <4>1, SubnegotiateRaw
      <4> QED BY <4>2
    <3>3. m.option = "CHARSET" =>
            \A answer \in {"accepted", "rejected"} : <<Subnegotiate("CHARSET", answer)>> \in Seq(Raw)
      <4> SUFFICES ASSUME m.option = "CHARSET", NEW answer \in {"accepted", "rejected"}
                   PROVE  <<Subnegotiate("CHARSET", answer)>> \in Seq(Raw)
        OBVIOUS
      <4>1. "CHARSET" \in Codes /\ answer \in Data
        BY <2>2 DEF Data
      <4>2. Subnegotiate("CHARSET", answer) \in Raw
        BY <4>1, SubnegotiateRaw
      <4> QED BY <4>2
    <3> QED BY <1>16, <3>2, <3>3 DEF ClientAsked, said
  <2>5. /\ to_server' \in Seq(Messages) /\ in_buffer' \in Seq(Messages)
        /\ decompressor' = decompressor /\ got' = got
    <3>1. CASE UNCHANGED inVars
      BY <3>1 DEF inVars, TypeOK
    <3>2. CASE \E ms \in Seq(Raw) : Say(ms)
      BY <3>2, SayTyped DEF TypeOK
    <3> QED BY <2>4, <3>1, <3>2
  <2> QED BY <1>a, <1>b, <1>16, <2>1, <2>3, <2>5 DEF ClientAsked, TypeOK, statusVars, optionVars, inVars, outVars, clientVars
<1>17. ASSUME NEW m, ClientSeesText(m), UNCHANGED scenario
      PROVE  TypeOK'
  <2>1. m \in Messages /\ to_client' \in Seq(Messages) /\ compressor' = compressor
    BY <1>17, ReadTyped DEF ClientSeesText
  <2>2. m.option \in Codes
    BY <2>1, MessageFields
  <2> QED BY <1>a, <1>b, <1>17, <2>1 DEF ClientSeesText, TypeOK, statusVars, optionVars, inVars, outVars, clientVars
<1>18. ASSUME NEW s \in Sides, NEW o \in Codes, ClientAsks(s, o), UNCHANGED scenario
      PROVE  TypeOK'
  <2>1. \E ms \in Seq(Raw) : Say(ms)
    <3>1. Accept[s] \in {"DO", "WILL"}
      BY DEF Accept, Sides
    <3>2. <<Negotiate(Accept[s], o)>> \in Seq(Raw)
      BY <3>1, NegotiateRaw
    <3> QED BY <1>18, <3>2 DEF ClientAsks
  <2>2. to_server' \in Seq(Messages) /\ UNCHANGED <<decompressor, in_buffer, got>>
    BY <2>1, SayTyped
  <2>3. asked' \in [Sides -> SUBSET Codes] /\ changes' \in Nat
    BY <1>18 DEF ClientAsks, Changes, TypeOK
  <2> QED BY <1>a, <1>b, <1>18, <2>2, <2>3 DEF ClientAsks, TypeOK, statusVars, optionVars, inVars, outVars, clientVars
<1>19. ASSUME NEW s \in Sides, NEW o \in Codes, ClientStops(s, o), UNCHANGED scenario
      PROVE  TypeOK'
  <2>1. \E ms \in Seq(Raw) : Say(ms)
    <3>1. Reject[s] \in {"DONT", "WONT"}
      BY DEF Reject, Sides
    <3>2. <<Negotiate(Reject[s], o)>> \in Seq(Raw)
      BY <3>1, NegotiateRaw
    <3> QED BY <1>19, <3>2 DEF ClientStops
  <2>2. to_server' \in Seq(Messages) /\ UNCHANGED <<decompressor, in_buffer, got>>
    BY <2>1, SayTyped
  <2>3. /\ on' \in [Sides -> SUBSET Codes] /\ asked' \in [Sides -> SUBSET Codes]
        /\ changes' \in Nat
    BY <1>19 DEF ClientStops, Changes, TypeOK
  <2> QED BY <1>a, <1>b, <1>19, <2>2, <2>3 DEF ClientStops, TypeOK, statusVars, optionVars, inVars, outVars, clientVars
<1>20. ASSUME ClientCompresses, UNCHANGED scenario PROVE TypeOK'
  <2>1. \E ms \in Seq(Raw) : Say(ms)
    <3>1. "MCCP3" \in Codes
      BY <1>20 DEF ClientCompresses, TypeOK, Sides
    <3>2. Subnegotiate("MCCP3", "") \in Raw
      <4>1. "" \in Data
        BY DEF Data
      <4> QED BY <3>1, <4>1, SubnegotiateRaw
    <3>3. <<Subnegotiate("MCCP3", "")>> \in Seq(Raw)
      <4> DEFINE x == Subnegotiate("MCCP3", "")
      <4>1. x \in Raw
        BY <3>2
      <4> HIDE DEF x
      <4>2. <<x>> \in Seq(Raw)
        BY <4>1
      <4> QED BY <4>2 DEF x
    <3>4. Say(<<Subnegotiate("MCCP3", "")>>)
      BY <1>20 DEF ClientCompresses
    <3> QED BY <3>3, <3>4
  <2>2. to_server' \in Seq(Messages) /\ UNCHANGED <<decompressor, in_buffer, got>>
    BY <2>1, SayTyped
  <2> QED BY <1>a, <1>b, <1>20, <2>2 DEF ClientCompresses, TypeOK, statusVars, optionVars, inVars, outVars, clientVars
<1>21. ASSUME ClientStopsCompressing, UNCHANGED scenario PROVE TypeOK'
  <2>1. \E ms \in Seq(Raw) : Say(ms)
    <3>1. <<End>> \in Seq(Raw)
      BY Scenario, TextRaw
    <3> QED BY <1>21, <3>1 DEF ClientStopsCompressing
  <2>2. to_server' \in Seq(Messages) /\ UNCHANGED <<decompressor, in_buffer, got>>
    BY <2>1, SayTyped
  <2> QED BY <1>a, <1>b, <1>21, <2>2 DEF ClientStopsCompressing, Changes, TypeOK, statusVars, optionVars, inVars, outVars, clientVars
<1>22. ASSUME ClientSendsLine, UNCHANGED scenario PROVE TypeOK'
  <2>1. \E ms \in Seq(Raw) : Say(ms)
    <3>1. <<Text>> \in Seq(Raw)
      BY Scenario, TextRaw
    <3> QED BY <1>22, <3>1 DEF ClientSendsLine
  <2>2. to_server' \in Seq(Messages) /\ UNCHANGED <<decompressor, in_buffer, got>>
    BY <2>1, SayTyped
  <2> QED BY <1>a, <1>b, <1>22, <2>2 DEF ClientSendsLine, Changes, TypeOK, statusVars, optionVars, inVars, outVars, clientVars
<1>23. ASSUME UNCHANGED vars PROVE TypeOK'
  <2>1. UNCHANGED scenario
    BY <1>23 DEF vars
  <2>2. Options' = Options /\ Codes' = Codes /\ Messages' = Messages
    BY <1>a, <2>1
  <2> QED BY <1>b, <2>2, <1>23 DEF TypeOK, vars, statusVars, optionVars, inVars, outVars, clientVars
<1> QED
  BY <1>1, <1>2, <1>3, <1>4, <1>5, <1>6, <1>7, <1>8, <1>9, <1>10, <1>11, <1>12, <1>13,
     <1>14, <1>15, <1>16, <1>17, <1>18, <1>19, <1>20, <1>21, <1>22, <1>23 DEF Next,
     Server, Client

-------------------------------------------------------------------------------
(* The stream to the client *)

\* The server compresses exactly if the client decompresses, or will when it has
\* read what is under way; and so for each message under way.
Output ==
  /\ OutputReadable
  /\ compressor <=> inflating \/ \E j \in DOMAIN to_client : IsMarker(to_client[j])

LEMMA PutKeeps ==
  ASSUME TypeOK, Output, NEW ms, MarkedLast(ms), Put(ms), inflating' = inflating
  PROVE  Output'
<1> DEFINE c == to_client
           st == Stamp(ms, compressor)
           d == to_client'
<1>1. compressor \in BOOLEAN /\ ms \in Seq(Raw) /\ c \in Seq(Messages)
  BY DEF TypeOK, MarkedLast
<1>2. /\ st \in Seq(Messages) /\ Len(st) = Len(ms)
      /\ \A i \in 1 .. Len(ms) : st[i].z = compressor /\ (IsMarker(st[i]) <=> IsMarker(ms[i]))
  BY <1>1, StampRaw
<1>3. d = c \o st
  BY DEF Put
<1>4. compressor' <=> compressor \/ \E i \in 1 .. Len(ms) : IsMarker(ms[i])
  <2>1. DOMAIN ms = 1 .. Len(ms)
    BY <1>1
  <2>2. compressor' = (compressor \/ \E i \in DOMAIN ms : IsMarker(ms[i]))
    BY DEF Put
  <2> HIDE DEF IsMarker
  <2> QED BY <2>1, <2>2, Zenon
<1>5. /\ \A i \in 1 .. Len(c) : c[i].z <=> inflating \/ \E j \in 1 .. i - 1 : IsMarker(c[j])
      /\ compressor <=> inflating \/ \E j \in 1 .. Len(c) : IsMarker(c[j])
  BY <1>1 DEF Output, OutputReadable
<1> HIDE DEF c, st, d
<1>6. /\ Len(c) \in Nat /\ Len(ms) \in Nat /\ Len(d) = Len(c) + Len(ms)
      /\ \A i \in 1 .. Len(c) : d[i] = c[i]
      /\ \A i \in 1 .. Len(ms) : d[Len(c) + i] = st[i]
      /\ DOMAIN d = 1 .. Len(d)
  <2>1. Len(c) \in Nat /\ Len(ms) \in Nat
    BY <1>1
  <2>2. c \in Seq(Messages) /\ st \in Seq(Messages) /\ Len(st) = Len(ms)
    BY <1>1, <1>2
  <2>3. c \o st \in Seq(Messages) /\ Len(c \o st) = Len(c) + Len(st)
    BY <2>2
  <2>4. \A i \in 1 .. Len(c) : (c \o st)[i] = c[i]
    BY <2>2
  <2>5. \A i \in 1 .. Len(st) : (c \o st)[Len(c) + i] = st[i]
    BY <2>1, <2>2
  <2> QED BY <1>3, <2>1, <2>2, <2>3, <2>4, <2>5
<1>7. ASSUME NEW i \in 1 .. Len(d)
      PROVE  d[i].z <=> inflating \/ \E j \in 1 .. i - 1 : IsMarker(d[j])
  <2>1. CASE i <= Len(c)
    <3>1. i \in 1 .. Len(c) /\ \A j \in 1 .. i - 1 : j \in 1 .. Len(c)
      BY <1>6, <2>1
    <3> QED BY <1>5, <1>6, <3>1
  <2>2. CASE ~ (i <= Len(c))
    <3>1. PICK k \in 1 .. Len(ms) : i = Len(c) + k
      <4>1. i - Len(c) \in 1 .. Len(ms) /\ i = Len(c) + (i - Len(c))
        BY <1>6, <2>2
      <4> QED BY <4>1
    <3>2. d[i].z = compressor
      BY <1>2, <1>6, <3>1
    <3>3. \A j \in 1 .. Len(c) : j \in 1 .. i - 1
      BY <1>6, <2>2
    <3>4. ASSUME NEW j \in 1 .. i - 1, IsMarker(d[j]) PROVE j \in 1 .. Len(c)
      <4>1. ASSUME ~ (j <= Len(c)) PROVE FALSE
        <5>1. PICK l \in 1 .. Len(ms) - 1 : j = Len(c) + l
          <6>1. j - Len(c) \in 1 .. Len(ms) - 1 /\ j = Len(c) + (j - Len(c))
            BY <1>6, <3>1, <4>1
          <6> QED BY <6>1
        <5>2. l \in 1 .. Len(ms) /\ d[j] = st[l]
          BY <1>6, <5>1
        <5>3. ~ IsMarker(ms[l])
          BY <5>1 DEF MarkedLast
        <5> QED BY <1>2, <3>4, <5>2, <5>3
      <4> QED BY <1>6, <4>1
    <3>5. (\E j \in 1 .. i - 1 : IsMarker(d[j])) <=> \E j \in 1 .. Len(c) : IsMarker(c[j])
      BY <1>6, <3>3, <3>4
    <3>6. compressor <=> inflating \/ \E j \in 1 .. i - 1 : IsMarker(d[j])
      BY <1>5, <3>5
    <3> QED BY <3>2, <3>6
  <2> QED BY <2>1, <2>2
<1>8. (\E j \in 1 .. Len(d) : IsMarker(d[j])) <=>
        (\E j \in 1 .. Len(c) : IsMarker(c[j])) \/ \E i \in 1 .. Len(ms) : IsMarker(ms[i])
  <2>1. ASSUME NEW j \in 1 .. Len(c), IsMarker(c[j]) PROVE \E k \in 1 .. Len(d) : IsMarker(d[k])
    <3>1. j \in 1 .. Len(d)
      BY <1>6
    <3> QED BY <1>6, <2>1, <3>1
  <2>2. ASSUME NEW i \in 1 .. Len(ms), IsMarker(ms[i])
        PROVE  \E k \in 1 .. Len(d) : IsMarker(d[k])
    <3>1. Len(c) + i \in 1 .. Len(d)
      BY <1>6
    <3> QED BY <1>2, <1>6, <2>2, <3>1
  <2>3. ASSUME NEW j \in 1 .. Len(d), IsMarker(d[j]), ~ (j <= Len(c))
        PROVE  \E i \in 1 .. Len(ms) : IsMarker(ms[i])
    <3>1. PICK k \in 1 .. Len(ms) : j = Len(c) + k
      <4>1. j - Len(c) \in 1 .. Len(ms) /\ j = Len(c) + (j - Len(c))
        BY <1>6, <2>3
      <4> QED BY <4>1
    <3> QED BY <1>2, <1>6, <2>3, <3>1
  <2>4. ASSUME NEW j \in 1 .. Len(d), IsMarker(d[j]), j <= Len(c)
        PROVE  \E i \in 1 .. Len(c) : IsMarker(c[i])
    <3>1. j \in 1 .. Len(c)
      BY <1>6, <2>4
    <3> QED BY <1>6, <2>4, <3>1
  <2> QED BY <2>1, <2>2, <2>3, <2>4
<1>9. compressor' <=> inflating \/ \E j \in 1 .. Len(d) : IsMarker(d[j])
  BY <1>4, <1>5, <1>8
<1>10. /\ \A i \in DOMAIN to_client' :
            to_client'[i].z <=> inflating' \/ \E j \in 1 .. i - 1 : IsMarker(to_client'[j])
       /\ compressor' <=> inflating' \/ \E j \in DOMAIN to_client' : IsMarker(to_client'[j])
  BY <1>6, <1>7, <1>9 DEF d
<1> QED BY <1>10 DEF Output, OutputReadable, IsMarker

LEMMA ReadKeeps ==
  ASSUME TypeOK, Output, NEW m, Read(m), inflating' <=> inflating \/ IsMarker(m)
  PROVE  Output'
<1> DEFINE c == to_client
           d == to_client'
<1>1. c \in Seq(Messages) /\ c # << >> /\ d = Tail(c) /\ compressor' = compressor /\ m = c[1]
  BY DEF Read, TypeOK
<1>2. /\ Len(c) \in Nat /\ Len(c) >= 1 /\ Len(d) = Len(c) - 1 /\ DOMAIN d = 1 .. Len(d)
      /\ \A i \in 1 .. Len(d) : d[i] = c[i + 1]
  BY <1>1
<1>3. /\ \A i \in 1 .. Len(c) : c[i].z <=> inflating \/ \E j \in 1 .. i - 1 : IsMarker(c[j])
      /\ compressor <=> inflating \/ \E j \in 1 .. Len(c) : IsMarker(c[j])
  BY <1>1 DEF Output, OutputReadable
<1> HIDE DEF c, d
<1>4. ASSUME NEW n \in 1 .. Len(c)
      PROVE  (\E j \in 1 .. n : IsMarker(c[j])) <=>
               IsMarker(m) \/ \E j \in 1 .. n - 1 : IsMarker(d[j])
  <2>1. ASSUME NEW j \in 1 .. n, IsMarker(c[j]), ~ IsMarker(m)
        PROVE  \E i \in 1 .. n - 1 : IsMarker(d[i])
    <3>1. j # 1
      BY <1>1, <2>1
    <3>2. j - 1 \in 1 .. n - 1 /\ j - 1 \in 1 .. Len(d) /\ (j - 1) + 1 = j
      BY <1>2, <3>1
    <3>3. d[j - 1] = c[j]
      BY <1>2, <3>2
    <3> QED BY <2>1, <3>2, <3>3
  <2>2. ASSUME NEW j \in 1 .. n - 1, IsMarker(d[j]) PROVE \E i \in 1 .. n : IsMarker(c[i])
    <3>1. j + 1 \in 1 .. n /\ j \in 1 .. Len(d)
      BY <1>2
    <3> QED BY <1>2, <2>2, <3>1
  <2>3. 1 \in 1 .. n
    OBVIOUS
  <2> QED BY <1>1, <2>1, <2>2, <2>3
<1>5. ASSUME NEW i \in 1 .. Len(d)
      PROVE  d[i].z <=> inflating' \/ \E j \in 1 .. i - 1 : IsMarker(d[j])
  <2>1. i + 1 \in 1 .. Len(c) /\ i \in 1 .. Len(c) /\ (i + 1) - 1 = i
    BY <1>2
  <2>2. d[i].z <=> inflating \/ \E j \in 1 .. i : IsMarker(c[j])
    BY <1>2, <1>3, <2>1
  <2> QED BY <1>4, <2>1, <2>2
<1>6. compressor' <=> inflating' \/ \E j \in 1 .. Len(d) : IsMarker(d[j])
  <2>1. Len(c) \in 1 .. Len(c) /\ Len(c) - 1 = Len(d)
    BY <1>2
  <2> QED BY <1>1, <1>3, <1>4, <2>1
<1>7. /\ \A i \in DOMAIN to_client' :
           to_client'[i].z <=> inflating' \/ \E j \in 1 .. i - 1 : IsMarker(to_client'[j])
      /\ compressor' <=> inflating' \/ \E j \in DOMAIN to_client' : IsMarker(to_client'[j])
  BY <1>2, <1>5, <1>6 DEF d
<1> QED BY <1>7 DEF Output, OutputReadable, IsMarker

\* Only what the server puts and what the client reads matters.
LEMMA OutputNext ==
  ASSUME TypeOK, Output, [Next]_vars
  PROVE  Output'
<1>1. ASSUME Start, UNCHANGED scenario PROVE Output'
  <2>1. inflating' = inflating
    BY <1>1 DEF Start, clientVars
  <2> QED BY <1>1, <2>1, StartPuts, PutKeeps
<1>2. ASSUME Settle, UNCHANGED scenario PROVE Output'
  <2>1. UNCHANGED <<compressor, to_client, inflating>>
    BY <1>2 DEF Settle, outVars, clientVars
  <2> QED BY <2>1 DEF Output, OutputReadable
<1>3. ASSUME SendText, UNCHANGED scenario PROVE Output'
  <2>1. inflating' = inflating
    BY <1>3 DEF SendText, clientVars
  <2> QED BY <1>3, <2>1, TextPuts, PutKeeps
<1>4. ASSUME NEW n \in 1 .. Len(to_server), Receive(n), UNCHANGED scenario
      PROVE  Output'
  <2>1. UNCHANGED <<compressor, to_client, inflating>>
    BY <1>4 DEF Receive, outVars, clientVars
  <2> QED BY <2>1 DEF Output, OutputReadable
<1>5. ASSUME NEW m, NEW s \in Sides, ReceiveYes(m, s), UNCHANGED scenario
      PROVE  Output'
  <2>1. inflating' = inflating
    BY <1>5 DEF ReceiveYes, clientVars
  <2> QED BY <1>5, <2>1, YesPuts, PutKeeps
<1>6. ASSUME NEW m, NEW s \in Sides, ReceiveYesAgain(m, s), UNCHANGED scenario
      PROVE  Output'
  <2>1. UNCHANGED <<compressor, to_client, inflating>>
    BY <1>6 DEF ReceiveYesAgain, outVars, clientVars
  <2> QED BY <2>1 DEF Output, OutputReadable
<1>7. ASSUME NEW m, NEW s \in Sides, ReceiveUnsupported(m, s), UNCHANGED scenario
      PROVE  Output'
  <2>1. inflating' = inflating
    BY <1>7 DEF ReceiveUnsupported, clientVars
  <2> QED BY <1>7, <2>1, UnsupportedPuts, PutKeeps
<1>8. ASSUME NEW m, NEW s \in Sides, ReceiveNo(m, s), UNCHANGED scenario
      PROVE  Output'
  <2>1. UNCHANGED <<compressor, to_client, inflating>>
    BY <1>8 DEF ReceiveNo, outVars, clientVars
  <2> QED BY <2>1 DEF Output, OutputReadable
<1>9. ASSUME NEW m, ReceiveCharset(m), UNCHANGED scenario
      PROVE  Output'
  <2>1. UNCHANGED <<compressor, to_client, inflating>>
    BY <1>9 DEF ReceiveCharset, outVars, clientVars
  <2> QED BY <2>1 DEF Output, OutputReadable
<1>10. ASSUME NEW m, ReceiveTerminal(m), UNCHANGED scenario
      PROVE  Output'
  <2>1. inflating' = inflating
    BY <1>10 DEF ReceiveTerminal, clientVars
  <2>2. CASE UNCHANGED outVars
    BY <2>1, <2>2 DEF outVars, Output, OutputReadable
  <2> QED BY <1>10, <2>1, <2>2, TerminalPuts, PutKeeps
<1>11. ASSUME NEW m, ReceiveCompression(m), UNCHANGED scenario
      PROVE  Output'
  <2>1. UNCHANGED <<compressor, to_client, inflating>>
    BY <1>11 DEF ReceiveCompression, outVars, clientVars
  <2> QED BY <2>1 DEF Output, OutputReadable
<1>12. ASSUME NEW m, ReceiveText(m), UNCHANGED scenario
      PROVE  Output'
  <2>1. UNCHANGED <<compressor, to_client, inflating>>
    BY <1>12 DEF ReceiveText, outVars, clientVars
  <2> QED BY <2>1 DEF Output, OutputReadable
<1>13. ASSUME NEW m, NEW s \in Sides, ClientOffered(m, s), UNCHANGED scenario
      PROVE  Output'
  <2>1. Read(m) /\ inflating' = inflating /\ m.kind # "SB"
    BY <1>13 DEF ClientOffered, clientVars, Offer, Cancel, Sides
  <2> QED BY <2>1, ReadKeeps DEF IsMarker
<1>14. ASSUME NEW m, NEW s \in Sides, ClientOfferedAgain(m, s), UNCHANGED scenario
      PROVE  Output'
  <2>1. Read(m) /\ inflating' = inflating /\ m.kind # "SB"
    BY <1>14 DEF ClientOfferedAgain, clientVars, Offer, Cancel, Sides
  <2> QED BY <2>1, ReadKeeps DEF IsMarker
<1>15. ASSUME NEW m, NEW s \in Sides, ClientRefused(m, s), UNCHANGED scenario
      PROVE  Output'
  <2>1. Read(m) /\ inflating' = inflating /\ m.kind # "SB"
    BY <1>15 DEF ClientRefused, clientVars, Offer, Cancel, Sides
  <2> QED BY <2>1, ReadKeeps DEF IsMarker
<1>16. ASSUME NEW m, ClientAsked(m), UNCHANGED scenario
      PROVE  Output'
  <2>1. Read(m) /\ m.kind = "SB"
    BY <1>16 DEF ClientAsked
  <2>2. CASE m.option = "MCCP2"
    <3>1. inflating'
      BY <1>16, <2>2 DEF ClientAsked
    <3> QED BY <2>1, <2>2, <3>1, ReadKeeps DEF IsMarker
  <2>3. CASE m.option # "MCCP2"
    <3>1. inflating' = inflating
      BY <1>16, <2>3 DEF ClientAsked
    <3> QED BY <2>1, <2>3, <3>1, ReadKeeps DEF IsMarker
  <2> QED BY <2>2, <2>3
<1>17. ASSUME NEW m, ClientSeesText(m), UNCHANGED scenario
      PROVE  Output'
  <2>1. Read(m) /\ inflating' = inflating /\ m.kind # "SB"
    BY <1>17 DEF ClientSeesText, clientVars, Offer, Cancel, Sides
  <2> QED BY <2>1, ReadKeeps DEF IsMarker
<1>18. ASSUME NEW s \in Sides, NEW o \in Codes, ClientAsks(s, o), UNCHANGED scenario
      PROVE  Output'
  <2>1. UNCHANGED <<compressor, to_client, inflating>>
    BY <1>18 DEF ClientAsks, outVars, clientVars
  <2> QED BY <2>1 DEF Output, OutputReadable
<1>19. ASSUME NEW s \in Sides, NEW o \in Codes, ClientStops(s, o), UNCHANGED scenario
      PROVE  Output'
  <2>1. UNCHANGED <<compressor, to_client, inflating>>
    BY <1>19 DEF ClientStops, outVars, clientVars
  <2> QED BY <2>1 DEF Output, OutputReadable
<1>20. ASSUME ClientCompresses, UNCHANGED scenario PROVE Output'
  <2>1. UNCHANGED <<compressor, to_client, inflating>>
    BY <1>20 DEF ClientCompresses, outVars, clientVars
  <2> QED BY <2>1 DEF Output, OutputReadable
<1>21. ASSUME ClientStopsCompressing, UNCHANGED scenario PROVE Output'
  <2>1. UNCHANGED <<compressor, to_client, inflating>>
    BY <1>21 DEF ClientStopsCompressing, outVars, clientVars
  <2> QED BY <2>1 DEF Output, OutputReadable
<1>22. ASSUME ClientSendsLine, UNCHANGED scenario PROVE Output'
  <2>1. UNCHANGED <<compressor, to_client, inflating>>
    BY <1>22 DEF ClientSendsLine, outVars, clientVars
  <2> QED BY <2>1 DEF Output, OutputReadable
<1>23. ASSUME UNCHANGED vars PROVE Output'
  BY <1>23 DEF vars, outVars, clientVars, Output, OutputReadable
<1> QED
  BY <1>1, <1>2, <1>3, <1>4, <1>5, <1>6, <1>7, <1>8, <1>9, <1>10, <1>11, <1>12, <1>13,
     <1>14, <1>15, <1>16, <1>17, <1>18, <1>19, <1>20, <1>21, <1>22, <1>23 DEF Next,
     Server, Client

-------------------------------------------------------------------------------
(* Theorems *)

\* Every variable keeps its type.
THEOREM TypeCorrect == Spec => []TypeOK
BY InitType, TypeNext, PTL DEF Spec

\* The client always knows whether what comes next is compressed, with any options
\* and whatever it asks for, takes back and asks for again.
THEOREM OutputCorrect == Spec => []OutputReadable
<1>1. Init => Output
  BY DEF Init, Output, OutputReadable
<1>2. TypeOK /\ Output /\ [Next]_vars => Output'
  BY OutputNext
<1>3. Output => OutputReadable
  BY DEF Output
<1> QED BY <1>1, <1>2, <1>3, TypeCorrect, PTL DEF Spec

-------------------------------------------------------------------------------
(* Queues of messages, and the kinds of messages in them *)

\* A message of P is in the queue; one of P before one of R; one of P after which
\* there is none of R; one of P before which there is none of R; at most one of P.
Has(q, P) == \E i \in 1 .. Len(q) : q[i] \in P
Before(q, P, R) == \E i, j \in 1 .. Len(q) : i < j /\ q[i] \in P /\ q[j] \in R
Last(q, P, R) ==
  \E i \in 1 .. Len(q) : q[i] \in P /\ \A j \in 1 .. Len(q) : i < j => q[j] \notin R
First(q, P, R) ==
  \E i \in 1 .. Len(q) : q[i] \in P /\ \A j \in 1 .. Len(q) : j < i => q[j] \notin R
Once(q, P) == \A i, j \in 1 .. Len(q) : q[i] \in P /\ q[j] \in P => i = j

LEMMA Join ==
  ASSUME NEW S, NEW q \in Seq(S), NEW r \in Seq(S)
  PROVE  /\ q \o r \in Seq(S) /\ Len(q \o r) = Len(q) + Len(r)
         /\ Len(q) \in Nat /\ Len(r) \in Nat
         /\ \A i \in 1 .. Len(q) : i \in 1 .. Len(q \o r) /\ (q \o r)[i] = q[i]
         /\ \A i \in 1 .. Len(r) : /\ Len(q) + i \in 1 .. Len(q \o r)
                                   /\ (q \o r)[Len(q) + i] = r[i]
         /\ \A i \in 1 .. Len(q \o r) :
              i \in 1 .. Len(q) \/ (\E k \in 1 .. Len(r) : i = Len(q) + k)
<1>1. /\ q \o r \in Seq(S) /\ Len(q \o r) = Len(q) + Len(r)
      /\ Len(q) \in Nat /\ Len(r) \in Nat
  OBVIOUS
<1>2. ASSUME NEW i \in 1 .. Len(q) PROVE i \in 1 .. Len(q \o r) /\ (q \o r)[i] = q[i]
  BY <1>1
<1>3. ASSUME NEW i \in 1 .. Len(r)
      PROVE  Len(q) + i \in 1 .. Len(q \o r) /\ (q \o r)[Len(q) + i] = r[i]
  BY <1>1
<1>4. ASSUME NEW i \in 1 .. Len(q \o r), i \notin 1 .. Len(q)
      PROVE  \E k \in 1 .. Len(r) : i = Len(q) + k
  <2>1. i - Len(q) \in 1 .. Len(r) /\ i = Len(q) + (i - Len(q))
    BY <1>1, <1>4
  <2> QED BY <2>1
<1> QED BY <1>1, <1>2, <1>3, <1>4

LEMMA JoinHas ==
  ASSUME NEW S, NEW q \in Seq(S), NEW r \in Seq(S), NEW P
  PROVE  Has(q \o r, P) <=> Has(q, P) \/ Has(r, P)
<1> DEFINE t == q \o r
<1>1. /\ Len(q) \in Nat /\ Len(r) \in Nat
      /\ \A i \in 1 .. Len(q) : i \in 1 .. Len(t) /\ t[i] = q[i]
      /\ \A i \in 1 .. Len(r) : Len(q) + i \in 1 .. Len(t) /\ t[Len(q) + i] = r[i]
      /\ \A i \in 1 .. Len(t) : i \in 1 .. Len(q) \/ (\E k \in 1 .. Len(r) : i = Len(q) + k)
  BY Join
<1> HIDE DEF t
<1>2. Has(t, P) => Has(q, P) \/ Has(r, P)
  BY <1>1 DEF Has
<1>3. Has(q, P) => Has(t, P)
  BY <1>1 DEF Has
<1>4. Has(r, P) => Has(t, P)
  BY <1>1 DEF Has
<1> QED BY <1>2, <1>3, <1>4 DEF t

LEMMA JoinBefore ==
  ASSUME NEW S, NEW q \in Seq(S), NEW r \in Seq(S), NEW P, NEW R
  PROVE  Before(q \o r, P, R) <=>
           Before(q, P, R) \/ Before(r, P, R) \/ (Has(q, P) /\ Has(r, R))
<1> DEFINE t == q \o r
<1>1. /\ Len(q) \in Nat /\ Len(r) \in Nat
      /\ \A i \in 1 .. Len(q) : i \in 1 .. Len(t) /\ t[i] = q[i]
      /\ \A i \in 1 .. Len(r) : Len(q) + i \in 1 .. Len(t) /\ t[Len(q) + i] = r[i]
      /\ \A i \in 1 .. Len(t) : i \in 1 .. Len(q) \/ (\E k \in 1 .. Len(r) : i = Len(q) + k)
  BY Join
<1> HIDE DEF t
<1>2. ASSUME Before(t, P, R)
      PROVE  Before(q, P, R) \/ Before(r, P, R) \/ (Has(q, P) /\ Has(r, R))
  <2>1. PICK i \in 1 .. Len(t), j \in 1 .. Len(t) : i < j /\ t[i] \in P /\ t[j] \in R
    BY <1>2 DEF Before
  <2>2. CASE j \in 1 .. Len(q)
    <3>1. i \in 1 .. Len(q)
      BY <2>1, <2>2
    <3> QED BY <1>1, <2>1, <2>2, <3>1 DEF Before
  <2>3. CASE i \in 1 .. Len(q) /\ j \notin 1 .. Len(q)
    BY <1>1, <2>1, <2>3 DEF Has
  <2>4. CASE i \notin 1 .. Len(q) /\ j \notin 1 .. Len(q)
    <3>1. PICK k \in 1 .. Len(r), l \in 1 .. Len(r) : i = Len(q) + k /\ j = Len(q) + l
      BY <1>1, <2>4
    <3>2. k < l /\ r[k] \in P /\ r[l] \in R
      BY <1>1, <2>1, <3>1
    <3> QED BY <3>2 DEF Before
  <2> QED BY <2>2, <2>3, <2>4
<1>3. Before(q, P, R) => Before(t, P, R)
  BY <1>1 DEF Before
<1>4. ASSUME Before(r, P, R) PROVE Before(t, P, R)
  <2>1. PICK i \in 1 .. Len(r), j \in 1 .. Len(r) : i < j /\ r[i] \in P /\ r[j] \in R
    BY <1>4 DEF Before
  <2>2. Len(q) + i < Len(q) + j
    BY <1>1, <2>1
  <2> QED BY <1>1, <2>1, <2>2 DEF Before
<1>5. ASSUME Has(q, P), Has(r, R) PROVE Before(t, P, R)
  <2>1. PICK i \in 1 .. Len(q), j \in 1 .. Len(r) : q[i] \in P /\ r[j] \in R
    BY <1>5 DEF Has
  <2>2. i < Len(q) + j
    BY <1>1
  <2> QED BY <1>1, <2>1, <2>2 DEF Before
<1> QED BY <1>2, <1>3, <1>4, <1>5 DEF t

LEMMA JoinLast ==
  ASSUME NEW S, NEW q \in Seq(S), NEW r \in Seq(S), NEW P, NEW R
  PROVE  Last(q \o r, P, R) <=> Last(r, P, R) \/ (Last(q, P, R) /\ ~ Has(r, R))
<1> DEFINE t == q \o r
<1>1. /\ Len(q) \in Nat /\ Len(r) \in Nat
      /\ \A i \in 1 .. Len(q) : i \in 1 .. Len(t) /\ t[i] = q[i]
      /\ \A i \in 1 .. Len(r) : Len(q) + i \in 1 .. Len(t) /\ t[Len(q) + i] = r[i]
      /\ \A i \in 1 .. Len(t) : i \in 1 .. Len(q) \/ (\E k \in 1 .. Len(r) : i = Len(q) + k)
  BY Join
<1> HIDE DEF t
<1>2. ASSUME Last(t, P, R) PROVE Last(r, P, R) \/ (Last(q, P, R) /\ ~ Has(r, R))
  <2>1. PICK i \in 1 .. Len(t) : t[i] \in P /\ \A j \in 1 .. Len(t) : i < j => t[j] \notin R
    BY <1>2 DEF Last
  <2>2. CASE i \in 1 .. Len(q)
    <3>1. \A j \in 1 .. Len(r) : i < Len(q) + j
      BY <1>1, <2>2
    <3>2. ~ Has(r, R)
      BY <1>1, <2>1, <3>1 DEF Has
    <3>3. Last(q, P, R)
      BY <1>1, <2>1, <2>2 DEF Last
    <3> QED BY <3>2, <3>3
  <2>3. CASE i \notin 1 .. Len(q)
    <3>1. PICK k \in 1 .. Len(r) : i = Len(q) + k
      BY <1>1, <2>3
    <3>2. \A j \in 1 .. Len(r) : k < j => i < Len(q) + j
      BY <1>1, <3>1
    <3> QED BY <1>1, <2>1, <3>1, <3>2 DEF Last
  <2> QED BY <2>2, <2>3
<1>3. ASSUME Last(r, P, R) PROVE Last(t, P, R)
  <2>1. PICK k \in 1 .. Len(r) : r[k] \in P /\ \A j \in 1 .. Len(r) : k < j => r[j] \notin R
    BY <1>3 DEF Last
  <2>2. ASSUME NEW j \in 1 .. Len(t), Len(q) + k < j PROVE t[j] \notin R
    <3>1. j \notin 1 .. Len(q)
      BY <1>1, <2>2
    <3>2. PICK l \in 1 .. Len(r) : j = Len(q) + l
      BY <1>1, <3>1
    <3>3. k < l
      BY <1>1, <2>2, <3>2
    <3> QED BY <1>1, <2>1, <3>2, <3>3
  <2> QED BY <1>1, <2>1, <2>2 DEF Last
<1>4. ASSUME Last(q, P, R), ~ Has(r, R) PROVE Last(t, P, R)
  <2>1. PICK i \in 1 .. Len(q) : q[i] \in P /\ \A j \in 1 .. Len(q) : i < j => q[j] \notin R
    BY <1>4 DEF Last
  <2>2. \A j \in 1 .. Len(t) : i < j => t[j] \notin R
    BY <1>1, <1>4, <2>1 DEF Has
  <2> QED BY <1>1, <2>1, <2>2 DEF Last
<1> QED BY <1>2, <1>3, <1>4 DEF t

LEMMA JoinFirst ==
  ASSUME NEW S, NEW q \in Seq(S), NEW r \in Seq(S), NEW P, NEW R
  PROVE  First(q \o r, P, R) <=> First(q, P, R) \/ (~ Has(q, R) /\ First(r, P, R))
<1> DEFINE t == q \o r
<1>1. /\ Len(q) \in Nat /\ Len(r) \in Nat
      /\ \A i \in 1 .. Len(q) : i \in 1 .. Len(t) /\ t[i] = q[i]
      /\ \A i \in 1 .. Len(r) : Len(q) + i \in 1 .. Len(t) /\ t[Len(q) + i] = r[i]
      /\ \A i \in 1 .. Len(t) : i \in 1 .. Len(q) \/ (\E k \in 1 .. Len(r) : i = Len(q) + k)
  BY Join
<1> HIDE DEF t
<1>2. ASSUME First(t, P, R) PROVE First(q, P, R) \/ (~ Has(q, R) /\ First(r, P, R))
  <2>1. PICK i \in 1 .. Len(t) : t[i] \in P /\ \A j \in 1 .. Len(t) : j < i => t[j] \notin R
    BY <1>2 DEF First
  <2>2. CASE i \in 1 .. Len(q)
    BY <1>1, <2>1, <2>2 DEF First
  <2>3. CASE i \notin 1 .. Len(q)
    <3>1. PICK k \in 1 .. Len(r) : i = Len(q) + k
      BY <1>1, <2>3
    <3>2. \A j \in 1 .. Len(r) : j < k => Len(q) + j < i
      BY <1>1, <3>1
    <3>3. \A j \in 1 .. Len(q) : j < i
      BY <1>1, <3>1
    <3>4. ~ Has(q, R)
      BY <1>1, <2>1, <3>3 DEF Has
    <3>5. First(r, P, R)
      BY <1>1, <2>1, <3>1, <3>2 DEF First
    <3> QED BY <3>4, <3>5
  <2> QED BY <2>2, <2>3
<1>3. ASSUME First(q, P, R) PROVE First(t, P, R)
  <2>1. PICK i \in 1 .. Len(q) : q[i] \in P /\ \A j \in 1 .. Len(q) : j < i => q[j] \notin R
    BY <1>3 DEF First
  <2>2. ASSUME NEW j \in 1 .. Len(t), j < i PROVE t[j] \notin R
    <3>1. j \in 1 .. Len(q)
      BY <1>1, <2>2
    <3> QED BY <1>1, <2>1, <2>2, <3>1
  <2> QED BY <1>1, <2>1, <2>2 DEF First
<1>4. ASSUME ~ Has(q, R), First(r, P, R) PROVE First(t, P, R)
  <2>1. PICK k \in 1 .. Len(r) : r[k] \in P /\ \A j \in 1 .. Len(r) : j < k => r[j] \notin R
    BY <1>4 DEF First
  <2>2. ASSUME NEW j \in 1 .. Len(t), j < Len(q) + k PROVE t[j] \notin R
    <3>1. CASE j \in 1 .. Len(q)
      BY <1>1, <1>4, <3>1 DEF Has
    <3>2. CASE j \notin 1 .. Len(q)
      <4>1. PICK l \in 1 .. Len(r) : j = Len(q) + l
        BY <1>1, <3>2
      <4>2. l < k
        BY <1>1, <2>2, <4>1
      <4> QED BY <1>1, <2>1, <4>1, <4>2
    <3> QED BY <3>1, <3>2
  <2> QED BY <1>1, <2>1, <2>2 DEF First
<1> QED BY <1>2, <1>3, <1>4 DEF t

LEMMA JoinOnce ==
  ASSUME NEW S, NEW q \in Seq(S), NEW r \in Seq(S), NEW P
  PROVE  Once(q \o r, P) <=> Once(q, P) /\ Once(r, P) /\ ~ (Has(q, P) /\ Has(r, P))
<1> DEFINE t == q \o r
<1>1. /\ Len(q) \in Nat /\ Len(r) \in Nat
      /\ \A i \in 1 .. Len(q) : i \in 1 .. Len(t) /\ t[i] = q[i]
      /\ \A i \in 1 .. Len(r) : Len(q) + i \in 1 .. Len(t) /\ t[Len(q) + i] = r[i]
      /\ \A i \in 1 .. Len(t) : i \in 1 .. Len(q) \/ (\E k \in 1 .. Len(r) : i = Len(q) + k)
  BY Join
<1> HIDE DEF t
<1>2. ASSUME Once(t, P) PROVE Once(q, P) /\ Once(r, P)
  <2>1. Once(q, P)
    BY <1>1, <1>2 DEF Once
  <2>2. ASSUME NEW i \in 1 .. Len(r), NEW j \in 1 .. Len(r), r[i] \in P, r[j] \in P
        PROVE  i = j
    <3>1. Len(q) + i = Len(q) + j
      BY <1>1, <1>2, <2>2 DEF Once
    <3> QED BY <1>1, <3>1
  <2> QED BY <2>1, <2>2 DEF Once
<1>3. ASSUME Once(t, P), Has(q, P), Has(r, P) PROVE FALSE
  <2>1. PICK i \in 1 .. Len(q), j \in 1 .. Len(r) : q[i] \in P /\ r[j] \in P
    BY <1>3 DEF Has
  <2>2. i # Len(q) + j
    BY <1>1
  <2> QED BY <1>1, <1>3, <2>1, <2>2 DEF Once
<1>4. ASSUME Once(q, P), Once(r, P), ~ (Has(q, P) /\ Has(r, P)) PROVE Once(t, P)
  <2>1. ASSUME NEW i \in 1 .. Len(t), NEW j \in 1 .. Len(t), t[i] \in P, t[j] \in P
        PROVE  i = j
    <3>1. CASE i \in 1 .. Len(q) /\ j \in 1 .. Len(q)
      BY <1>1, <1>4, <2>1, <3>1 DEF Once
    <3>2. CASE i \notin 1 .. Len(q) /\ j \notin 1 .. Len(q)
      <4>1. PICK k \in 1 .. Len(r), l \in 1 .. Len(r) : i = Len(q) + k /\ j = Len(q) + l
        BY <1>1, <3>2
      <4>2. r[k] \in P /\ r[l] \in P
        BY <1>1, <2>1, <4>1
      <4> QED BY <1>4, <4>1, <4>2 DEF Once
    <3>3. CASE i \in 1 .. Len(q) /\ j \notin 1 .. Len(q)
      BY <1>1, <1>4, <2>1, <3>3 DEF Has
    <3>4. CASE i \notin 1 .. Len(q) /\ j \in 1 .. Len(q)
      BY <1>1, <1>4, <2>1, <3>4 DEF Has
    <3> QED BY <3>1, <3>2, <3>3, <3>4
  <2> QED BY <2>1 DEF Once
<1> QED BY <1>2, <1>3, <1>4 DEF t

LEMMA Empty ==
  ASSUME NEW P, NEW R
  PROVE  /\ ~ Has(<< >>, P) /\ ~ Before(<< >>, P, R) /\ ~ Last(<< >>, P, R)
         /\ ~ First(<< >>, P, R) /\ Once(<< >>, P)
BY DEF Has, Before, Last, First, Once

LEMMA Single ==
  ASSUME NEW x, NEW P, NEW R
  PROVE  /\ Has(<<x>>, P) <=> x \in P
         /\ ~ Before(<<x>>, P, R)
         /\ Last(<<x>>, P, R) <=> x \in P
         /\ First(<<x>>, P, R) <=> x \in P
         /\ Once(<<x>>, P)
<1>1. Len(<<x>>) = 1 /\ <<x>>[1] = x /\ \A i \in 1 .. 1 : i = 1
  OBVIOUS
<1> DEFINE q == <<x>>
<1>2. Len(q) = 1 /\ q[1] = x
  BY <1>1
<1> HIDE DEF q
<1>3. /\ Has(q, P) <=> x \in P
      /\ ~ Before(q, P, R) /\ Once(q, P)
  BY <1>1, <1>2 DEF Has, Before, Once
<1>4. /\ Last(q, P, R) <=> x \in P
      /\ First(q, P, R) <=> x \in P
  BY <1>1, <1>2 DEF Last, First
<1> QED BY <1>3, <1>4 DEF q

LEMMA HeadTail ==
  ASSUME NEW S, NEW q \in Seq(S), q # << >>
  PROVE  /\ Head(q) \in S /\ <<Head(q)>> \in Seq(S) /\ Tail(q) \in Seq(S)
         /\ q = <<Head(q)>> \o Tail(q)
<1>1. Head(q) \in S /\ Tail(q) \in Seq(S)
  OBVIOUS
<1> DEFINE h == Head(q)
           t == Tail(q)
<1>2. h \in S /\ t \in Seq(S) /\ Len(q) \in Nat /\ Len(q) = Len(t) + 1 /\ q[1] = h
      /\ \A i \in 1 .. Len(t) : t[i] = q[i + 1]
  OBVIOUS
<1> HIDE DEF h, t
<1>3. <<h>> \in Seq(S) /\ Len(<<h>>) = 1 /\ <<h>>[1] = h
  BY <1>2
<1>4. <<h>> \o t \in Seq(S) /\ Len(<<h>> \o t) = Len(q)
  BY <1>2, <1>3
<1>5. ASSUME NEW i \in 1 .. Len(q) PROVE (<<h>> \o t)[i] = q[i]
  <2>1. CASE i = 1
    BY <1>2, <1>3, <2>1
  <2>2. CASE i # 1
    <3>1. i - 1 \in 1 .. Len(t) /\ (i - 1) + 1 = i
      BY <1>2, <2>2
    <3>2. (<<h>> \o t)[i] = t[i - 1]
      BY <1>2, <1>3, <2>2
    <3> QED BY <1>2, <3>1, <3>2
  <2> QED BY <2>1, <2>2
<1>6. q = <<h>> \o t
  BY <1>2, <1>4, <1>5
<1> QED BY <1>2, <1>3, <1>6 DEF h, t

LEMMA TailFacts ==
  ASSUME NEW S, NEW q \in Seq(S), q # << >>, NEW P, NEW R
  PROVE  /\ Has(q, P) <=> Head(q) \in P \/ Has(Tail(q), P)
         /\ Before(q, P, R) <=> Before(Tail(q), P, R) \/ (Head(q) \in P /\ Has(Tail(q), R))
         /\ Last(q, P, R) <=> Last(Tail(q), P, R) \/ (Head(q) \in P /\ ~ Has(Tail(q), R))
         /\ First(q, P, R) <=> Head(q) \in P \/ (Head(q) \notin R /\ First(Tail(q), P, R))
         /\ Once(q, P) <=> Once(Tail(q), P) /\ ~ (Head(q) \in P /\ Has(Tail(q), P))
<1> DEFINE h == Head(q)
           t == Tail(q)
<1>1. h \in S /\ <<h>> \in Seq(S) /\ t \in Seq(S) /\ q = <<h>> \o t
  BY HeadTail
<1> HIDE DEF h, t
<1>2. /\ \A X : Has(<<h>>, X) <=> h \in X
      /\ ~ Before(<<h>>, P, R)
      /\ Last(<<h>>, P, R) <=> h \in P
      /\ First(<<h>>, P, R) <=> h \in P
      /\ Once(<<h>>, P)
  BY Single
<1> DEFINE s == <<h>>
<1> HIDE DEF s
<1>3. s \in Seq(S) /\ t \in Seq(S) /\ q = s \o t
  BY <1>1 DEF s
<1>4. Has(q, P) <=> Has(s, P) \/ Has(t, P)
  BY <1>3, JoinHas
<1>5. Before(q, P, R) <=> Before(s, P, R) \/ Before(t, P, R) \/ (Has(s, P) /\ Has(t, R))
  BY <1>3, JoinBefore
<1>6. Last(q, P, R) <=> Last(t, P, R) \/ (Last(s, P, R) /\ ~ Has(t, R))
  BY <1>3, JoinLast
<1>7. First(q, P, R) <=> First(s, P, R) \/ (~ Has(s, R) /\ First(t, P, R))
  BY <1>3, JoinFirst
<1>8. Once(q, P) <=> Once(s, P) /\ Once(t, P) /\ ~ (Has(s, P) /\ Has(t, P))
  BY <1>3, JoinOnce
<1>9. /\ \A X : Has(s, X) <=> h \in X
      /\ ~ Before(s, P, R)
      /\ Last(s, P, R) <=> h \in P
      /\ First(s, P, R) <=> h \in P
      /\ Once(s, P)
  BY <1>2 DEF s
<1> QED BY <1>4, <1>5, <1>6, <1>7, <1>8, <1>9 DEF h, t

LEMMA PrefixFacts ==
  ASSUME NEW S, NEW q \in Seq(S), NEW n \in 0 .. Len(q), NEW P
  PROVE  /\ SubSeq(q, 1, n) \in Seq(S) /\ Len(SubSeq(q, 1, n)) = n
         /\ \A i \in 1 .. n : i \in 1 .. Len(q) /\ SubSeq(q, 1, n)[i] = q[i]
         /\ Has(SubSeq(q, 1, n), P) => Has(q, P)
         /\ Once(q, P) => Once(SubSeq(q, 1, n), P)
<1>1. /\ SubSeq(q, 1, n) \in Seq(S) /\ Len(SubSeq(q, 1, n)) = n
      /\ \A i \in 1 .. n : i \in 1 .. Len(q) /\ SubSeq(q, 1, n)[i] = q[i]
  OBVIOUS
<1> QED BY <1>1 DEF Has, Once

-------------------------------------------------------------------------------
(* What is under way *)

\* A message apart from whether it is sent compressed.
Bare(m) == [kind |-> m.kind, option |-> m.option, data |-> m.data]
BareOf(ms) == [i \in 1 .. Len(ms) |-> Bare(ms[i])]

\* What the server has still to handle, and the client to read. After the end of a
\* compressed stream the server hears nothing more.
Heard == IF decompressor = "ended" THEN in_buffer ELSE in_buffer \o to_server
Incoming == BareOf(Heard)
Outgoing == BareOf(to_client)

LEMMA BareTyped ==
  ASSUME NEW ms \in Seq(Messages)
  PROVE  /\ BareOf(ms) \in Seq(Raw) /\ Len(BareOf(ms)) = Len(ms)
         /\ \A i \in 1 .. Len(ms) : BareOf(ms)[i] = Bare(ms[i]) /\ Bare(ms[i]) \in Raw
<1>1. ASSUME NEW i \in 1 .. Len(ms) PROVE Bare(ms[i]) \in Raw
  BY MessageFields DEF Bare, Raw
<1> QED BY <1>1 DEF BareOf

LEMMA BareJoin ==
  ASSUME NEW a \in Seq(Messages), NEW b \in Seq(Messages)
  PROVE  BareOf(a \o b) = BareOf(a) \o BareOf(b)
<1> DEFINE t == a \o b
           c == BareOf(a)
           d == BareOf(b)
<1>1. /\ t \in Seq(Messages) /\ Len(t) = Len(a) + Len(b) /\ Len(a) \in Nat /\ Len(b) \in Nat
      /\ \A i \in 1 .. Len(a) : i \in 1 .. Len(t) /\ t[i] = a[i]
      /\ \A i \in 1 .. Len(b) : Len(a) + i \in 1 .. Len(t) /\ t[Len(a) + i] = b[i]
      /\ \A i \in 1 .. Len(t) : i \in 1 .. Len(a) \/ (\E k \in 1 .. Len(b) : i = Len(a) + k)
  BY Join
<1>2. /\ c \in Seq(Raw) /\ Len(c) = Len(a) /\ \A i \in 1 .. Len(a) : c[i] = Bare(a[i])
      /\ d \in Seq(Raw) /\ Len(d) = Len(b) /\ \A i \in 1 .. Len(b) : d[i] = Bare(b[i])
  BY BareTyped
<1>3. /\ BareOf(t) \in Seq(Raw) /\ Len(BareOf(t)) = Len(t)
      /\ \A i \in 1 .. Len(t) : BareOf(t)[i] = Bare(t[i])
  BY <1>1, BareTyped
<1> HIDE DEF t, c, d
<1>4. /\ c \o d \in Seq(Raw) /\ Len(c \o d) = Len(a) + Len(b)
      /\ \A i \in 1 .. Len(a) : (c \o d)[i] = c[i]
      /\ \A i \in 1 .. Len(b) : (c \o d)[Len(a) + i] = d[i]
  <2>1. c \in Seq(Raw) /\ d \in Seq(Raw)
    BY <1>2
  <2>2. c \o d \in Seq(Raw) /\ Len(c \o d) = Len(c) + Len(d)
    BY <2>1
  <2>3. Len(c \o d) = Len(a) + Len(b)
    BY <1>2, <2>2
  <2>4. \A i \in 1 .. Len(a) : (c \o d)[i] = c[i]
    BY <1>2
  <2>5. \A i \in 1 .. Len(b) : (c \o d)[Len(a) + i] = d[i]
    BY <1>1, <1>2
  <2> QED BY <2>2, <2>3, <2>4, <2>5
<1>5. ASSUME NEW i \in 1 .. Len(t) PROVE BareOf(t)[i] = (c \o d)[i]
  <2>1. CASE i \in 1 .. Len(a)
    BY <1>1, <1>2, <1>3, <1>4, <2>1
  <2>2. CASE i \notin 1 .. Len(a)
    <3>1. PICK k \in 1 .. Len(b) : i = Len(a) + k
      BY <1>1, <2>2
    <3>2. BareOf(t)[i] = Bare(b[k])
      BY <1>1, <1>3, <3>1
    <3>3. (c \o d)[i] = Bare(b[k])
      BY <1>2, <1>4, <3>1
    <3> QED BY <3>2, <3>3
  <2> QED BY <2>1, <2>2
<1>6. BareOf(t) = c \o d
  BY <1>1, <1>3, <1>4, <1>5
<1> QED BY <1>6 DEF t, c, d

LEMMA BareTail ==
  ASSUME NEW a \in Seq(Messages), a # << >>
  PROVE  /\ BareOf(a) # << >> /\ Head(BareOf(a)) = Bare(Head(a))
         /\ BareOf(Tail(a)) = Tail(BareOf(a))
<1> DEFINE t == Tail(a)
           b == BareOf(a)
<1>1. /\ t \in Seq(Messages) /\ Len(a) \in Nat /\ Len(t) = Len(a) - 1
      /\ \A i \in 1 .. Len(t) : t[i] = a[i + 1]
      /\ Head(a) = a[1] /\ Len(a) >= 1
  OBVIOUS
<1>2. b \in Seq(Raw) /\ Len(b) = Len(a) /\ \A i \in 1 .. Len(a) : b[i] = Bare(a[i])
  BY BareTyped
<1>3. BareOf(t) \in Seq(Raw) /\ Len(BareOf(t)) = Len(t)
      /\ \A i \in 1 .. Len(t) : BareOf(t)[i] = Bare(t[i])
  BY <1>1, BareTyped
<1> HIDE DEF t, b
<1>4. b # << >> /\ Head(b) = b[1] /\ Tail(b) \in Seq(Raw) /\ Len(Tail(b)) = Len(a) - 1
      /\ \A i \in 1 .. Len(a) - 1 : Tail(b)[i] = b[i + 1]
  BY <1>1, <1>2
<1>5. ASSUME NEW i \in 1 .. Len(t) PROVE BareOf(t)[i] = Tail(b)[i]
  <2>1. i + 1 \in 1 .. Len(a)
    BY <1>1
  <2> QED BY <1>1, <1>2, <1>3, <1>4, <2>1
<1>6. BareOf(t) = Tail(b)
  <2>1. Len(BareOf(t)) = Len(Tail(b))
    BY <1>1, <1>3, <1>4
  <2> QED BY <1>3, <1>4, <1>5, <2>1, SeqEqual, Zenon
<1>7. Head(b) = Bare(Head(a))
  BY <1>1, <1>2, <1>4
<1> QED BY <1>4, <1>6, <1>7 DEF t, b

LEMMA BarePrefix ==
  ASSUME NEW a \in Seq(Messages), NEW n \in 0 .. Len(a)
  PROVE  BareOf(SubSeq(a, 1, n)) = SubSeq(BareOf(a), 1, n)
<1> DEFINE t == SubSeq(a, 1, n)
           b == BareOf(a)
           u == SubSeq(b, 1, n)
<1>1. /\ t \in Seq(Messages) /\ Len(t) = n /\ n \in Nat
      /\ \A i \in 1 .. n : i \in 1 .. Len(a) /\ t[i] = a[i]
  BY PrefixFacts
<1>2. b \in Seq(Raw) /\ Len(b) = Len(a) /\ \A i \in 1 .. Len(a) : b[i] = Bare(a[i])
  BY BareTyped
<1>3. BareOf(t) \in Seq(Raw) /\ Len(BareOf(t)) = Len(t)
      /\ \A i \in 1 .. Len(t) : BareOf(t)[i] = Bare(t[i])
  BY <1>1, BareTyped
<1> HIDE DEF t, b
<1>4. n \in 0 .. Len(b)
  BY <1>2
<1>5. u \in Seq(Raw) /\ Len(u) = n /\ \A i \in 1 .. n : u[i] = b[i]
  BY <1>2, <1>4, PrefixFacts
<1> HIDE DEF u
<1>6. BareOf(t) = u
  BY <1>1, <1>2, <1>3, <1>5
<1> QED BY <1>6 DEF t, b, u

\* Putting messages on a connection changes nothing but that mark.
LEMMA BareStamp ==
  ASSUME NEW z \in BOOLEAN
  PROVE  /\ \A ms \in Seq(Raw) : BareOf(Stamp(ms, z)) = ms
         /\ \A ms \in Seq(Messages) : BareOf(Stamp(ms, z)) = BareOf(ms)
<1>1. ASSUME NEW ms \in Seq(Raw) PROVE BareOf(Stamp(ms, z)) = ms
  <2> DEFINE s == Stamp(ms, z)
  <2>1. s \in Seq(Messages) /\ Len(s) = Len(ms) /\ Len(ms) \in Nat
    BY StampRaw
  <2>2. ASSUME NEW i \in 1 .. Len(ms) PROVE Bare(s[i]) = ms[i]
    <3>1. ms[i] \in Raw
      OBVIOUS
    <3>2. /\ s[i].kind = ms[i].kind /\ s[i].option = ms[i].option
          /\ s[i].data = ms[i].data
      BY DEF Stamp
    <3> HIDE DEF s
    <3> QED BY <3>1, <3>2 DEF Bare, Raw
  <2> HIDE DEF s
  <2>3. /\ BareOf(s) \in Seq(Raw) /\ Len(BareOf(s)) = Len(s)
        /\ \A i \in 1 .. Len(s) : BareOf(s)[i] = Bare(s[i])
    BY <2>1, BareTyped
  <2>4. BareOf(s) = ms
    BY <2>1, <2>2, <2>3
  <2> QED BY <2>4 DEF s
<1>2. ASSUME NEW ms \in Seq(Messages) PROVE BareOf(Stamp(ms, z)) = BareOf(ms)
  <2> DEFINE s == Stamp(ms, z)
  <2>1. s \in Seq(Messages) /\ Len(s) = Len(ms) /\ Len(ms) \in Nat
    BY StampFacts, MessageFields
  <2>2. ASSUME NEW i \in 1 .. Len(ms) PROVE Bare(s[i]) = Bare(ms[i])
    <3>1. /\ s[i].kind = ms[i].kind /\ s[i].option = ms[i].option
          /\ s[i].data = ms[i].data
      BY DEF Stamp
    <3> QED BY <3>1 DEF Bare
  <2> HIDE DEF s
  <2>3. BareOf(s) = BareOf(ms)
    BY <2>1, <2>2 DEF BareOf
  <2> QED BY <2>3 DEF s
<1> QED BY <1>1, <1>2

-------------------------------------------------------------------------------
(* Compressed or not *)

IsBegin(m) == m.kind = "SB" /\ m.option = "MCCP3"
IsEnd(m) == m.kind = "END"
Begun(q) == \E i \in 1 .. Len(q) : IsBegin(q[i])
Over(q) == \E i \in 1 .. Len(q) : IsEnd(q[i])

\* What the client sends before it compresses, while it does, and after: exactly
\* the messages from its announcement to the end of the stream are compressed.
Marked(q) ==
  /\ \A i \in 1 .. Len(q) :
       q[i].z <=> /\ \E j \in 1 .. Len(q) : j < i /\ IsBegin(q[j])
                  /\ ~ \E j \in 1 .. Len(q) : j < i /\ IsEnd(q[j])
  /\ \A i \in 1 .. Len(q) : IsEnd(q[i]) => q[i].z
  /\ \A i, j \in 1 .. Len(q) : IsBegin(q[i]) /\ IsBegin(q[j]) => i = j

\* The same from behind the announcement.
Zipped(q) ==
  /\ ~ Begun(q)
  /\ \A i \in 1 .. Len(q) : q[i].z <=> ~ \E j \in 1 .. Len(q) : j < i /\ IsEnd(q[j])

Input ==
  /\ decompressor = "off" =>
       /\ Marked(in_buffer \o to_server)
       /\ deflating = "before" <=> ~ Begun(in_buffer \o to_server)
       /\ deflating = "ended" <=> Over(in_buffer \o to_server)
  /\ decompressor = "on" =>
       /\ Zipped(to_server)
       /\ deflating = "ended" <=> Over(to_server)
  /\ decompressor # "off" =>
       /\ deflating # "before" /\ ~ Begun(to_server) /\ ~ Begun(in_buffer)
       /\ \A i \in 1 .. Len(in_buffer) : ~ in_buffer[i].z

LEMMA BegunJoin ==
  ASSUME NEW S, NEW q \in Seq(S), NEW r \in Seq(S)
  PROVE  /\ Begun(q \o r) <=> Begun(q) \/ Begun(r)
         /\ Over(q \o r) <=> Over(q) \/ Over(r)
<1> DEFINE t == q \o r
<1>1. /\ Len(q) \in Nat /\ Len(r) \in Nat
      /\ \A i \in 1 .. Len(q) : i \in 1 .. Len(t) /\ t[i] = q[i]
      /\ \A i \in 1 .. Len(r) : Len(q) + i \in 1 .. Len(t) /\ t[Len(q) + i] = r[i]
      /\ \A i \in 1 .. Len(t) : i \in 1 .. Len(q) \/ (\E k \in 1 .. Len(r) : i = Len(q) + k)
  BY Join
<1> HIDE DEF t
<1>2. Begun(t) <=> Begun(q) \/ Begun(r)
  <2> HIDE DEF IsBegin
  <2>1. Begun(t) => Begun(q) \/ Begun(r)
    BY <1>1 DEF Begun
  <2>2. Begun(q) => Begun(t)
    BY <1>1 DEF Begun
  <2>3. Begun(r) => Begun(t)
    BY <1>1 DEF Begun
  <2> QED BY <2>1, <2>2, <2>3
<1>3. Over(t) <=> Over(q) \/ Over(r)
  <2>1. Over(t) => Over(q) \/ Over(r)
    BY <1>1 DEF Over
  <2>2. Over(q) => Over(t)
    BY <1>1 DEF Over
  <2>3. Over(r) => Over(t)
    BY <1>1 DEF Over
  <2> QED BY <2>1, <2>2, <2>3
<1> QED BY <1>2, <1>3 DEF t

LEMMA BegunSingle ==
  ASSUME NEW x
  PROVE  (Begun(<<x>>) <=> IsBegin(x)) /\ (Over(<<x>>) <=> IsEnd(x))
<1> DEFINE q == <<x>>
<1>1. Len(q) = 1 /\ q[1] = x /\ \A i \in 1 .. 1 : i = 1
  OBVIOUS
<1> HIDE DEF q
<1>2. (Begun(q) <=> IsBegin(x)) /\ (Over(q) <=> IsEnd(x))
  BY <1>1 DEF Begun, Over
<1> QED BY <1>2 DEF q

LEMMA BegunTail ==
  ASSUME NEW S, NEW q \in Seq(S), q # << >>
  PROVE  /\ Begun(q) <=> IsBegin(Head(q)) \/ Begun(Tail(q))
         /\ Over(q) <=> IsEnd(Head(q)) \/ Over(Tail(q))
<1> DEFINE h == <<Head(q)>>
           t == Tail(q)
<1>1. h \in Seq(S) /\ t \in Seq(S) /\ q = h \o t
  BY HeadTail
<1>2. (Begun(h) <=> IsBegin(Head(q))) /\ (Over(h) <=> IsEnd(Head(q)))
  BY BegunSingle
<1> HIDE DEF h, t
<1>3. (Begun(q) <=> Begun(h) \/ Begun(t)) /\ (Over(q) <=> Over(h) \/ Over(t))
  BY <1>1, BegunJoin
<1> QED BY <1>2, <1>3 DEF h, t

\* What is said next is compressed exactly if the client has begun to compress and
\* has not ended it.
LEMMA MarkedSay ==
  ASSUME NEW S, NEW q \in Seq(S), NEW x \in S, Marked(q),
         x.z <=> Begun(q) /\ ~ Over(q), IsEnd(x) => x.z, IsBegin(x) => ~ Begun(q)
  PROVE  Marked(q \o <<x>>)
<1> DEFINE t == q \o <<x>>
           n == Len(q)
<1>1. /\ n \in Nat /\ Len(t) = n + 1 /\ t[n + 1] = x
      /\ \A i \in 1 .. n : t[i] = q[i]
      /\ \A i \in 1 .. n + 1 : i \in 1 .. n \/ i = n + 1
  OBVIOUS
<1> HIDE DEF t, n
<1>2. ASSUME NEW i \in 1 .. n
      PROVE  t[i].z <=> /\ \E j \in 1 .. n + 1 : j < i /\ IsBegin(t[j])
                        /\ ~ \E j \in 1 .. n + 1 : j < i /\ IsEnd(t[j])
  <2>1. \A j \in 1 .. n + 1 : j < i => j \in 1 .. n /\ t[j] = q[j]
    BY <1>1
  <2>2. \A j \in 1 .. n : j \in 1 .. n + 1
    BY <1>1
  <2>3. q[i].z <=> /\ \E j \in 1 .. n : j < i /\ IsBegin(q[j])
                   /\ ~ \E j \in 1 .. n : j < i /\ IsEnd(q[j])
    BY DEF Marked, n
  <2>4. (\E j \in 1 .. n + 1 : j < i /\ IsBegin(t[j])) <=> \E j \in 1 .. n : j < i /\ IsBegin(q[j])
    <3> HIDE DEF IsBegin
    <3> QED BY <1>1, <2>1, <2>2
  <2>5. (\E j \in 1 .. n + 1 : j < i /\ IsEnd(t[j])) <=> \E j \in 1 .. n : j < i /\ IsEnd(q[j])
    <3> HIDE DEF IsEnd
    <3> QED BY <1>1, <2>1, <2>2
  <2> QED BY <1>1, <2>3, <2>4, <2>5
<1>3. t[n + 1].z <=> /\ \E j \in 1 .. n + 1 : j < n + 1 /\ IsBegin(t[j])
                     /\ ~ \E j \in 1 .. n + 1 : j < n + 1 /\ IsEnd(t[j])
  <2>1. \A j \in 1 .. n + 1 : j < n + 1 => j \in 1 .. n /\ t[j] = q[j]
    BY <1>1
  <2>2. \A j \in 1 .. n : j \in 1 .. n + 1 /\ j < n + 1
    BY <1>1
  <2>3. (\E j \in 1 .. n + 1 : j < n + 1 /\ IsBegin(t[j])) <=> Begun(q)
    <3> HIDE DEF IsBegin
    <3> QED BY <1>1, <2>1, <2>2 DEF Begun, n
  <2>4. (\E j \in 1 .. n + 1 : j < n + 1 /\ IsEnd(t[j])) <=> Over(q)
    <3> HIDE DEF IsEnd
    <3> QED BY <1>1, <2>1, <2>2 DEF Over, n
  <2> QED BY <1>1, <2>3, <2>4
<1>4. \A i \in 1 .. n + 1 : IsEnd(t[i]) => t[i].z
  BY <1>1 DEF Marked, n
<1>5. ASSUME NEW i \in 1 .. n + 1, NEW j \in 1 .. n + 1, IsBegin(t[i]), IsBegin(t[j])
      PROVE  i = j
  <2>1. CASE i \in 1 .. n /\ j \in 1 .. n
    BY <1>1, <1>5, <2>1 DEF Marked, n
  <2>2. CASE i = n + 1 \/ j = n + 1
    BY <1>1, <1>5, <2>2 DEF Begun, n
  <2> QED BY <1>1, <2>1, <2>2
<1>6. Marked(t)
  BY <1>1, <1>2, <1>3, <1>4, <1>5 DEF Marked
<1> QED BY <1>6 DEF t

LEMMA ZippedSay ==
  ASSUME NEW S, NEW q \in Seq(S), NEW x \in S, Zipped(q), x.z <=> ~ Over(q), ~ IsBegin(x)
  PROVE  Zipped(q \o <<x>>)
<1> DEFINE t == q \o <<x>>
           n == Len(q)
<1>1. /\ n \in Nat /\ Len(t) = n + 1 /\ t[n + 1] = x
      /\ \A i \in 1 .. n : t[i] = q[i]
      /\ \A i \in 1 .. n + 1 : i \in 1 .. n \/ i = n + 1
  OBVIOUS
<1> HIDE DEF t, n
<1>2. ASSUME NEW i \in 1 .. n
      PROVE  t[i].z <=> ~ \E j \in 1 .. n + 1 : j < i /\ IsEnd(t[j])
  <2>1. \A j \in 1 .. n + 1 : j < i => j \in 1 .. n /\ t[j] = q[j]
    BY <1>1
  <2>2. \A j \in 1 .. n : j \in 1 .. n + 1
    BY <1>1
  <2>3. q[i].z <=> ~ \E j \in 1 .. n : j < i /\ IsEnd(q[j])
    BY DEF Zipped, n
  <2>4. (\E j \in 1 .. n + 1 : j < i /\ IsEnd(t[j])) <=> \E j \in 1 .. n : j < i /\ IsEnd(q[j])
    <3> HIDE DEF IsEnd
    <3> QED BY <1>1, <2>1, <2>2
  <2> QED BY <1>1, <2>3, <2>4
<1>3. t[n + 1].z <=> ~ \E j \in 1 .. n + 1 : j < n + 1 /\ IsEnd(t[j])
  <2>1. \A j \in 1 .. n + 1 : j < n + 1 => j \in 1 .. n /\ t[j] = q[j]
    BY <1>1
  <2>2. \A j \in 1 .. n : j \in 1 .. n + 1 /\ j < n + 1
    BY <1>1
  <2>3. (\E j \in 1 .. n + 1 : j < n + 1 /\ IsEnd(t[j])) <=> Over(q)
    <3> HIDE DEF IsEnd
    <3> QED BY <1>1, <2>1, <2>2 DEF Over, n
  <2> QED BY <1>1, <2>3
<1>4. ~ Begun(t)
  <2>1. ~ Begun(q)
    BY DEF Zipped
  <2> QED BY <1>1, <2>1 DEF Begun, n
<1>5. Zipped(t)
  BY <1>1, <1>2, <1>3, <1>4 DEF Zipped
<1> QED BY <1>5 DEF t

\* What is left when the first message has been handled.
LEMMA MarkedHead ==
  ASSUME NEW S, NEW q \in Seq(S), q # << >>, Marked(q)
  PROVE  /\ ~ Head(q).z /\ ~ IsEnd(Head(q))
         /\ ~ IsBegin(Head(q)) => Marked(Tail(q))
         /\ IsBegin(Head(q)) => Zipped(Tail(q))
<1> DEFINE h == Head(q)
           t == Tail(q)
           n == Len(t)
<1>1. /\ n \in Nat /\ Len(q) = n + 1 /\ q[1] = h
      /\ \A i \in 1 .. n : i + 1 \in 1 .. n + 1 /\ t[i] = q[i + 1]
      /\ \A i \in 1 .. n + 1 : i = 1 \/ \E k \in 1 .. n : i = k + 1
  <2>1. n \in Nat /\ Len(q) = n + 1 /\ q[1] = h
    OBVIOUS
  <2>2. \A i \in 1 .. n : i + 1 \in 1 .. n + 1 /\ t[i] = q[i + 1]
    OBVIOUS
  <2>3. ASSUME NEW i \in 1 .. n + 1, i # 1 PROVE \E k \in 1 .. n : i = k + 1
    <3>1. i - 1 \in 1 .. n /\ i = (i - 1) + 1
      BY <2>1, <2>3
    <3> QED BY <3>1
  <2> QED BY <2>1, <2>2, <2>3
<1> HIDE DEF h, t, n
<1>2. ~ h.z /\ ~ IsEnd(h)
  <2>1. 1 \in 1 .. Len(q) /\ \A j \in 1 .. Len(q) : ~ (j < 1)
    BY <1>1
  <2>2. ~ q[1].z
    BY <2>1 DEF Marked
  <2>3. ~ IsEnd(q[1])
    BY <2>1, <2>2 DEF Marked
  <2> QED BY <1>1, <2>2, <2>3
<1>3. ASSUME NEW i \in 1 .. n
      PROVE  /\ t[i].z <=> /\ IsBegin(h) \/ \E j \in 1 .. n : j < i /\ IsBegin(t[j])
                           /\ ~ \E j \in 1 .. n : j < i /\ IsEnd(t[j])
             /\ IsEnd(t[i]) => t[i].z
  <2>1. i + 1 \in 1 .. Len(q) /\ t[i] = q[i + 1] /\ 1 \in 1 .. Len(q) /\ 1 < i + 1
    BY <1>1
  <2>2. q[i + 1].z <=> /\ \E j \in 1 .. Len(q) : j < i + 1 /\ IsBegin(q[j])
                       /\ ~ \E j \in 1 .. Len(q) : j < i + 1 /\ IsEnd(q[j])
    BY <2>1 DEF Marked
  <2>3. (\E j \in 1 .. Len(q) : j < i + 1 /\ IsBegin(q[j])) <=>
          IsBegin(h) \/ \E j \in 1 .. n : j < i /\ IsBegin(t[j])
    <3> HIDE DEF IsBegin
    <3>1. ASSUME NEW j \in 1 .. Len(q), j < i + 1, IsBegin(q[j]), ~ IsBegin(h)
          PROVE  \E k \in 1 .. n : k < i /\ IsBegin(t[k])
      <4>1. PICK k \in 1 .. n : j = k + 1
        BY <1>1, <3>1
      <4>2. k < i /\ IsBegin(t[k])
        BY <1>1, <3>1, <4>1
      <4> QED BY <4>2
    <3>2. ASSUME NEW j \in 1 .. n, j < i, IsBegin(t[j])
          PROVE  \E k \in 1 .. Len(q) : k < i + 1 /\ IsBegin(q[k])
      <4>1. j + 1 \in 1 .. Len(q) /\ j + 1 < i + 1 /\ IsBegin(q[j + 1])
        BY <1>1, <3>2
      <4> QED BY <4>1
    <3>3. IsBegin(h) => \E k \in 1 .. Len(q) : k < i + 1 /\ IsBegin(q[k])
      BY <1>1, <2>1
    <3> QED BY <3>1, <3>2, <3>3
  <2>4. (\E j \in 1 .. Len(q) : j < i + 1 /\ IsEnd(q[j])) <=>
          \E j \in 1 .. n : j < i /\ IsEnd(t[j])
    <3> HIDE DEF IsEnd
    <3>1. ASSUME NEW j \in 1 .. Len(q), j < i + 1, IsEnd(q[j])
          PROVE  \E k \in 1 .. n : k < i /\ IsEnd(t[k])
      <4>1. j # 1
        BY <1>1, <1>2, <3>1
      <4>2. PICK k \in 1 .. n : j = k + 1
        BY <1>1, <4>1
      <4>3. k < i /\ IsEnd(t[k])
        BY <1>1, <3>1, <4>2
      <4> QED BY <4>3
    <3>2. ASSUME NEW j \in 1 .. n, j < i, IsEnd(t[j])
          PROVE  \E k \in 1 .. Len(q) : k < i + 1 /\ IsEnd(q[k])
      <4>1. j + 1 \in 1 .. Len(q) /\ j + 1 < i + 1 /\ IsEnd(q[j + 1])
        BY <1>1, <3>2
      <4> QED BY <4>1
    <3> QED BY <3>1, <3>2
  <2>5. IsEnd(q[i + 1]) => q[i + 1].z
    BY <2>1 DEF Marked
  <2> QED BY <2>1, <2>2, <2>3, <2>4, <2>5
<1>4. ASSUME NEW i \in 1 .. n, NEW j \in 1 .. n, IsBegin(t[i]), IsBegin(t[j])
      PROVE  i = j
  <2>1. i + 1 \in 1 .. Len(q) /\ j + 1 \in 1 .. Len(q)
    BY <1>1
  <2>2. IsBegin(q[i + 1]) /\ IsBegin(q[j + 1])
    BY <1>1, <1>4
  <2>3. i + 1 = j + 1
    BY <2>1, <2>2 DEF Marked
  <2> QED BY <2>3
<1>5. ASSUME NEW i \in 1 .. n, IsBegin(t[i]), IsBegin(h)
      PROVE  FALSE
  <2>1. i + 1 \in 1 .. Len(q) /\ 1 \in 1 .. Len(q) /\ i + 1 # 1
    BY <1>1
  <2>2. IsBegin(q[i + 1]) /\ IsBegin(q[1])
    BY <1>1, <1>5
  <2> QED BY <2>1, <2>2 DEF Marked
<1>6. ~ IsBegin(h) => Marked(t)
  BY <1>3, <1>4 DEF Marked, n
<1>7. IsBegin(h) => Zipped(t)
  BY <1>3, <1>5 DEF Zipped, Begun, n
<1> QED BY <1>2, <1>6, <1>7 DEF h, t

\* If the end of the stream is not among the first messages, these are all
\* compressed, and what follows them is as it was.
LEMMA ZippedSplit ==
  ASSUME NEW S, NEW q \in Seq(S), NEW r \in Seq(S), Zipped(q \o r), ~ Over(q)
  PROVE  /\ \A i \in 1 .. Len(q) : q[i].z
         /\ Zipped(r)
<1> DEFINE t == q \o r
<1>1. /\ Len(q) \in Nat /\ Len(r) \in Nat
      /\ \A i \in 1 .. Len(q) : i \in 1 .. Len(t) /\ t[i] = q[i]
      /\ \A i \in 1 .. Len(r) : Len(q) + i \in 1 .. Len(t) /\ t[Len(q) + i] = r[i]
      /\ \A i \in 1 .. Len(t) : i \in 1 .. Len(q) \/ (\E k \in 1 .. Len(r) : i = Len(q) + k)
  BY Join
<1>2. ~ Begun(r)
  BY BegunJoin DEF Zipped
<1> HIDE DEF t
<1>3. \A i \in 1 .. Len(t) : t[i].z <=> ~ \E j \in 1 .. Len(t) : j < i /\ IsEnd(t[j])
  BY DEF t, Zipped
<1>4. ASSUME NEW i \in 1 .. Len(q) PROVE q[i].z
  <2>1. \A j \in 1 .. Len(t) : j < i => j \in 1 .. Len(q)
    BY <1>1
  <2>2. ~ \E j \in 1 .. Len(t) : j < i /\ IsEnd(t[j])
    BY <1>1, <2>1 DEF Over
  <2> QED BY <1>1, <1>3, <2>2
<1>5. ASSUME NEW i \in 1 .. Len(r)
      PROVE  r[i].z <=> ~ \E j \in 1 .. Len(r) : j < i /\ IsEnd(r[j])
  <2>1. ASSUME NEW j \in 1 .. Len(r), j < i, IsEnd(r[j])
        PROVE  \E k \in 1 .. Len(t) : k < Len(q) + i /\ IsEnd(t[k])
    <3>1. Len(q) + j \in 1 .. Len(t) /\ Len(q) + j < Len(q) + i /\ IsEnd(t[Len(q) + j])
      BY <1>1, <2>1
    <3> QED BY <3>1
  <2>2. ASSUME NEW k \in 1 .. Len(t), k < Len(q) + i, IsEnd(t[k])
        PROVE  \E j \in 1 .. Len(r) : j < i /\ IsEnd(r[j])
    <3>1. k \notin 1 .. Len(q)
      BY <1>1, <2>2 DEF Over
    <3>2. PICK j \in 1 .. Len(r) : k = Len(q) + j
      BY <1>1, <3>1
    <3>3. j < i /\ IsEnd(r[j])
      BY <1>1, <2>2, <3>2
    <3> QED BY <3>3
  <2>3. Len(q) + i \in 1 .. Len(t) /\ t[Len(q) + i] = r[i]
    BY <1>1
  <2> QED BY <1>3, <2>1, <2>2, <2>3
<1>6. Zipped(r)
  BY <1>2, <1>5 DEF Zipped
<1> QED BY <1>4, <1>6

-------------------------------------------------------------------------------
(* What the steps do to what is under way *)

LEMMA JoinTail ==
  ASSUME NEW S, NEW q \in Seq(S), NEW r \in Seq(S), q # << >>
  PROVE  q \o r # << >> /\ Head(q \o r) = Head(q) /\ Tail(q \o r) = Tail(q) \o r
<1> DEFINE h == <<Head(q)>>
           t == Tail(q)
<1>1. h \in Seq(S) /\ t \in Seq(S) /\ q = h \o t
  BY HeadTail
<1> HIDE DEF h, t
<1>2. q \o r = h \o (t \o r)
  BY <1>1, ConcatAssociative
<1>3. t \o r \in Seq(S)
  BY <1>1
<1> DEFINE u == t \o r
<1> HIDE DEF u
<1>4. h \o u # << >> /\ Head(h \o u) = Head(q) /\ Tail(h \o u) = u
  <2>1. Head(q) \in S /\ u \in Seq(S)
    BY <1>3, HeadTail DEF u
  <2> DEFINE x == Head(q)
  <2> HIDE DEF x
  <2>2. x \in S /\ u \in Seq(S)
    BY <2>1 DEF x
  <2>3. <<x>> \o u # << >> /\ Head(<<x>> \o u) = x /\ Tail(<<x>> \o u) = u
    BY <2>2
  <2> QED BY <2>3 DEF x, h
<1> QED BY <1>2, <1>4 DEF u, t

LEMMA Split ==
  ASSUME NEW S, NEW q \in Seq(S), NEW n \in 0 .. Len(q)
  PROVE  /\ SubSeq(q, 1, n) \in Seq(S) /\ SubSeq(q, n + 1, Len(q)) \in Seq(S)
         /\ q = SubSeq(q, 1, n) \o SubSeq(q, n + 1, Len(q))
<1> DEFINE a == SubSeq(q, 1, n)
           b == SubSeq(q, n + 1, Len(q))
<1>1. /\ Len(a) = n /\ n \in Nat /\ Len(q) \in Nat /\ n <= Len(q)
      /\ \A i \in 1 .. n : a[i] = q[i]
  OBVIOUS
<1>2. /\ Len(b) = Len(q) - n
      /\ \A i \in 1 .. Len(q) - n : b[i] = q[n + i]
  OBVIOUS
<1>3. a \in Seq(S) /\ b \in Seq(S)
  OBVIOUS
<1> HIDE DEF a, b
<1>4. a \o b \in Seq(S) /\ Len(a \o b) = Len(a) + Len(b)
  BY <1>3
<1>5. /\ \A i \in 1 .. Len(a) : (a \o b)[i] = a[i]
      /\ \A i \in 1 .. Len(b) : (a \o b)[Len(a) + i] = b[i]
      /\ \A i \in 1 .. Len(a \o b) : i \in 1 .. Len(a) \/ (\E k \in 1 .. Len(b) : i = Len(a) + k)
  BY <1>3, Join
<1> DEFINE t == a \o b
<1> HIDE DEF t
<1>6. t \in Seq(S) /\ Len(t) = Len(q)
  BY <1>1, <1>2, <1>4 DEF t
<1>7. ASSUME NEW i \in 1 .. Len(q) PROVE t[i] = q[i]
  <2>1. CASE i \in 1 .. n
    BY <1>1, <1>5, <2>1 DEF t
  <2>2. CASE i \notin 1 .. n
    <3>1. PICK k \in 1 .. Len(b) : i = Len(a) + k
      BY <1>1, <1>2, <1>5, <1>6, <2>2 DEF t
    <3>2. t[i] = b[k]
      BY <1>5, <3>1 DEF t
    <3>3. b[k] = q[n + k] /\ i = n + k
      BY <1>1, <1>2, <3>1
    <3> QED BY <3>2, <3>3
  <2> QED BY <2>1, <2>2
<1>8. t = q
  BY <1>6, <1>7
<1> QED BY <1>3, <1>8 DEF a, b, t

LEMMA PrefixOfJoin ==
  ASSUME NEW S, NEW q \in Seq(S), NEW r \in Seq(S), NEW n \in 0 .. Len(q)
  PROVE  SubSeq(q \o r, 1, n) = SubSeq(q, 1, n) /\ n \in 0 .. Len(q \o r)
<1>1. q \o r \in Seq(S) /\ Len(q \o r) = Len(q) + Len(r) /\ Len(q) \in Nat /\ Len(r) \in Nat
  OBVIOUS
<1>2. \A i \in 1 .. Len(q) : (q \o r)[i] = q[i]
  OBVIOUS
<1> DEFINE t == q \o r
<1> HIDE DEF t
<1>3. t \in Seq(S) /\ n \in 0 .. Len(t)
  BY <1>1 DEF t
<1> DEFINE a == SubSeq(q, 1, n)
           b == SubSeq(t, 1, n)
<1>4. a \in Seq(S) /\ Len(a) = n /\ \A i \in 1 .. n : i \in 1 .. Len(q) /\ a[i] = q[i]
  BY PrefixFacts
<1>5. b \in Seq(S) /\ Len(b) = n /\ \A i \in 1 .. n : b[i] = t[i]
  BY <1>3, PrefixFacts
<1> HIDE DEF a, b
<1>6. \A i \in 1 .. n : a[i] = b[i]
  BY <1>2, <1>4, <1>5 DEF t
<1>7. a = b
  BY <1>4, <1>5, <1>6
<1> QED BY <1>3, <1>7 DEF a, b, t

\* Decompressing yields the messages, or the first ones of them.
LEMMA InflateFacts ==
  ASSUME NEW ms \in Seq(Messages)
  PROVE  /\ \E n \in 0 .. Len(ms) : Inflate(ms) = Stamp(SubSeq(ms, 1, n), FALSE)
         /\ (\A i \in 1 .. Len(ms) : ms[i].z) /\ ~ Over(ms) => Inflate(ms) = Stamp(ms, FALSE)
<1> DEFINE T == {i \in DOMAIN ms : ms[i].z /\ ms[i].kind # "END"}
           n == Cardinality(T)
<1>1. Len(ms) \in Nat /\ DOMAIN ms = 1 .. Len(ms) /\ SubSeq(ms, 1, Len(ms)) = ms
  <2>1. Len(ms) \in Nat /\ DOMAIN ms = 1 .. Len(ms)
    OBVIOUS
  <2> QED BY <2>1, SubSeqFull
<1>2. IsFiniteSet(1 .. Len(ms)) /\ Cardinality(1 .. Len(ms)) = Len(ms)
  <2>1. Len(ms) \in Nat /\ 1 \in Int /\ Len(ms) \in Int
    BY <1>1
  <2> QED BY <2>1, FS_Interval
<1>3. T \in SUBSET (1 .. Len(ms))
  OBVIOUS
<1>4. n \in 0 .. Len(ms)
  <2> HIDE DEF T
  <2>1. n \in Nat /\ n <= Len(ms)
    BY <1>2, <1>3, FS_Subset, FS_CardinalityType
  <2> QED BY <1>1, <2>1
<1>5. Inflate(ms) = Stamp(SubSeq(ms, 1, n), FALSE)
  BY DEF Inflate
<1>6. (\A i \in 1 .. Len(ms) : ms[i].z) /\ ~ Over(ms) => T = 1 .. Len(ms)
  BY <1>1 DEF Over, IsEnd
<1> HIDE DEF T
<1>7. (\A i \in 1 .. Len(ms) : ms[i].z) /\ ~ Over(ms) => n = Len(ms)
  BY <1>2, <1>6
<1> HIDE DEF n
<1> QED BY <1>1, <1>4, <1>5, <1>7

LEMMA Typed ==
  ASSUME TypeOK
  PROVE  /\ in_buffer \in Seq(Messages) /\ to_server \in Seq(Messages)
         /\ to_client \in Seq(Messages) /\ Incoming \in Seq(Raw) /\ Outgoing \in Seq(Raw)
         /\ compressor \in BOOLEAN /\ decompressor \in {"off", "on", "ended"}
         /\ deflating \in {"before", "on", "ended"}
         /\ decompressor # "ended" => Incoming = BareOf(in_buffer) \o BareOf(to_server)
<1>1. /\ in_buffer \in Seq(Messages) /\ to_server \in Seq(Messages)
      /\ to_client \in Seq(Messages)
      /\ compressor \in BOOLEAN /\ decompressor \in {"off", "on", "ended"}
      /\ deflating \in {"before", "on", "ended"}
  BY DEF TypeOK
<1>2. in_buffer \o to_server \in Seq(Messages)
  BY <1>1
<1>3. Heard \in Seq(Messages)
  BY <1>1, <1>2 DEF Heard
<1>4. Incoming \in Seq(Raw) /\ Outgoing \in Seq(Raw)
  BY <1>1, <1>3, BareTyped DEF Incoming, Outgoing
<1>5. decompressor # "ended" => Incoming = BareOf(in_buffer) \o BareOf(to_server)
  BY <1>1, BareJoin DEF Incoming, Heard
<1> QED BY <1>1, <1>4, <1>5

LEMMA PutEffect ==
  ASSUME TypeOK, NEW ms \in Seq(Raw), Put(ms)
  PROVE  Outgoing' = Outgoing \o ms
<1>1. to_client \in Seq(Messages) /\ compressor \in BOOLEAN
  BY Typed
<1>2. Stamp(ms, compressor) \in Seq(Messages)
  BY <1>1, StampRaw
<1>3. BareOf(to_client \o Stamp(ms, compressor)) =
        BareOf(to_client) \o BareOf(Stamp(ms, compressor))
  BY <1>1, <1>2, BareJoin
<1>4. BareOf(Stamp(ms, compressor)) = ms
  BY <1>1, BareStamp
<1> QED BY <1>3, <1>4 DEF Put, Outgoing

LEMMA ReadEffect ==
  ASSUME TypeOK, NEW m, Read(m)
  PROVE  /\ Outgoing # << >> /\ Head(Outgoing) = Bare(m) /\ Outgoing' = Tail(Outgoing)
         /\ Bare(m) \in Raw
<1>1. to_client \in Seq(Messages) /\ to_client # << >> /\ m = Head(to_client)
      /\ to_client' = Tail(to_client)
  BY Typed DEF Read
<1>2. m \in Messages
  BY <1>1
<1>3. Bare(m) \in Raw
  BY <1>2, MessageFields DEF Bare, Raw
<1> QED BY <1>1, <1>3, BareTail DEF Outgoing

LEMMA SayEffect ==
  ASSUME TypeOK, NEW ms \in Seq(Raw), Say(ms)
  PROVE  /\ Incoming' = IF decompressor = "ended" THEN Incoming ELSE Incoming \o ms
         /\ decompressor' = decompressor
<1> DEFINE st == Stamp(ms, deflating = "on")
           b == BareOf(in_buffer)
           c == BareOf(to_server)
<1>1. /\ in_buffer \in Seq(Messages) /\ to_server \in Seq(Messages)
      /\ st \in Seq(Messages) /\ BareOf(st) = ms
  BY Typed, StampRaw, BareStamp
<1>2. decompressor' = decompressor /\ in_buffer' = in_buffer /\ to_server' = to_server \o st
  BY DEF Say
<1>3. CASE decompressor = "ended"
  BY <1>2, <1>3 DEF Incoming, Heard
<1>4. CASE decompressor # "ended"
  <2>1. to_server' \in Seq(Messages) /\ BareOf(to_server') = c \o ms
    <3> HIDE DEF st
    <3>1. to_server \o st \in Seq(Messages)
      BY <1>1
    <3>2. BareOf(to_server \o st) = c \o BareOf(st)
      BY <1>1, BareJoin
    <3> QED BY <1>1, <1>2, <3>1, <3>2
  <2>2. Incoming' = BareOf(in_buffer \o to_server')
    BY <1>2, <1>4 DEF Incoming, Heard
  <2>3. Incoming' = b \o (c \o ms)
    BY <1>1, <2>1, <2>2, BareJoin
  <2>4. b \in Seq(Raw) /\ c \in Seq(Raw)
    BY <1>1, BareTyped
  <2>5. (b \o c) \o ms = b \o (c \o ms)
    <3> HIDE DEF b, c
    <3>1. ms \in Seq(Raw)
      OBVIOUS
    <3> QED BY ONLY <2>4, <3>1, ConcatAssociative
  <2>6. Incoming = b \o c
    BY <1>4, Typed
  <2> HIDE DEF b, c
  <2> QED BY <1>2, <1>4, <2>3, <2>5, <2>6
<1> QED BY <1>3, <1>4

\* The next message is handled, and what is behind it is left as it is.
LEMMA TailEffect ==
  ASSUME TypeOK, NEW m, Handle(m),
         in_buffer' = Tail(in_buffer), UNCHANGED <<decompressor, to_server>>
  PROVE  /\ Incoming # << >> /\ Head(Incoming) = Bare(m) /\ Incoming' = Tail(Incoming)
         /\ Bare(m) \in Raw
<1>1. /\ in_buffer \in Seq(Messages) /\ to_server \in Seq(Messages) /\ in_buffer # << >>
      /\ m = Head(in_buffer)
  BY Typed DEF Handle
<1>2. m \in Messages
  BY <1>1
<1>3. Bare(m) \in Raw
  BY <1>2, MessageFields DEF Bare, Raw
<1>4. CASE decompressor = "ended"
  BY <1>1, <1>3, <1>4, BareTail DEF Incoming, Heard
<1>5. CASE decompressor # "ended"
  <2> DEFINE q == in_buffer \o to_server
  <2>1. q # << >> /\ Head(q) = Head(in_buffer) /\ Tail(q) = Tail(in_buffer) \o to_server
    BY <1>1, JoinTail
  <2>2. q \in Seq(Messages) /\ Incoming = BareOf(q)
    BY <1>1, <1>5 DEF Incoming, Heard
  <2>3. Incoming' = BareOf(Tail(q))
    BY <1>5, <2>1 DEF Incoming, Heard
  <2> HIDE DEF q
  <2>4. BareOf(q) # << >> /\ Head(BareOf(q)) = Bare(Head(q)) /\ BareOf(Tail(q)) = Tail(BareOf(q))
    BY <2>1, <2>2, BareTail
  <2> QED BY <1>1, <1>3, <2>1, <2>2, <2>3, <2>4
<1> QED BY <1>4, <1>5

-------------------------------------------------------------------------------
(* The stream to the server *)

LEMMA SameInput ==
  ASSUME Input, UNCHANGED <<in_buffer, to_server, decompressor, deflating>>
  PROVE  Input' /\ Incoming' = Incoming
BY DEF Input, Incoming, Heard

LEMMA SayNothing ==
  ASSUME TypeOK, Say(<< >>)
  PROVE  UNCHANGED <<in_buffer, to_server, decompressor>>
<1>1. Stamp(<< >>, deflating = "on") = << >>
  BY DEF Stamp
<1>2. to_server \o << >> = to_server
  BY Typed, ConcatEmptySeq
<1> QED BY <1>1, <1>2 DEF Say

LEMMA SayInput ==
  ASSUME TypeOK, Input, NEW x \in Raw, Say(<<x>>),
         deflating' = IF IsBegin(x) THEN "on" ELSE IF IsEnd(x) THEN "ended" ELSE deflating,
         IsBegin(x) => deflating = "before", IsEnd(x) => deflating = "on"
  PROVE  Input'
<1> DEFINE y == [kind |-> x.kind, option |-> x.option, data |-> x.data,
                 z |-> (deflating = "on")]
           q == in_buffer \o to_server
<1>1. /\ y \in Messages /\ (y.z <=> deflating = "on")
      /\ (IsBegin(y) <=> IsBegin(x)) /\ (IsEnd(y) <=> IsEnd(x)) /\ ~ (IsBegin(x) /\ IsEnd(x))
  BY DEF Messages, Raw, IsBegin, IsEnd
<1>2. Stamp(<<x>>, deflating = "on") = <<y>>
  BY DEF Stamp
<1>3. to_server' = to_server \o <<y>> /\ UNCHANGED <<decompressor, in_buffer>>
  BY <1>2 DEF Say
<1>4. /\ in_buffer \in Seq(Messages) /\ to_server \in Seq(Messages)
      /\ deflating \in {"before", "on", "ended"} /\ decompressor \in {"off", "on", "ended"}
  BY Typed
<1> HIDE DEF y
<1>5. <<y>> \in Seq(Messages)
  BY <1>1
<1>6. in_buffer \o to_server' = q \o <<y>> /\ q \in Seq(Messages)
  BY <1>3, <1>4, <1>5, ConcatAssociative
<1>7. /\ (Begun(<<y>>) <=> IsBegin(x)) /\ (Over(<<y>>) <=> IsEnd(x))
  BY <1>1, BegunSingle
<1>8. CASE decompressor = "off"
  <2>1. /\ Marked(q) /\ (deflating = "before" <=> ~ Begun(q))
        /\ (deflating = "ended" <=> Over(q))
    BY <1>8 DEF Input
  <2> HIDE DEF q
  <2>2. Marked(q \o <<y>>)
    <3>1. y.z <=> Begun(q) /\ ~ Over(q)
      BY <1>1, <1>4, <2>1
    <3>2. (IsEnd(y) => y.z) /\ (IsBegin(y) => ~ Begun(q))
      BY <1>1, <2>1
    <3> QED BY <1>1, <1>6, <2>1, <3>1, <3>2, MarkedSay
  <2>3. /\ Begun(q \o <<y>>) <=> Begun(q) \/ IsBegin(x)
        /\ Over(q \o <<y>>) <=> Over(q) \/ IsEnd(x)
    BY <1>5, <1>6, <1>7, BegunJoin
  <2>4. /\ deflating' = "before" <=> ~ Begun(q \o <<y>>)
        /\ deflating' = "ended" <=> Over(q \o <<y>>)
    BY <1>1, <1>4, <2>1, <2>3
  <2> QED BY <1>3, <1>6, <1>8, <2>2, <2>4 DEF Input
<1>9. CASE decompressor # "off"
  <2>1. deflating # "before" /\ ~ IsBegin(x) /\ deflating' # "before"
    BY <1>9 DEF Input
  <2>2. /\ Begun(to_server \o <<y>>) <=> Begun(to_server)
        /\ Over(to_server \o <<y>>) <=> Over(to_server) \/ IsEnd(x)
    BY <1>4, <1>5, <1>7, <2>1, BegunJoin
  <2>3. CASE decompressor = "on"
    <3>1. Zipped(to_server) /\ (deflating = "ended" <=> Over(to_server))
      BY <2>3 DEF Input
    <3>2. y.z <=> ~ Over(to_server)
      BY <1>1, <1>4, <2>1, <3>1
    <3>3. Zipped(to_server \o <<y>>)
      BY <1>1, <1>4, <2>1, <3>1, <3>2, ZippedSay
    <3>4. deflating' = "ended" <=> Over(to_server \o <<y>>)
      BY <1>1, <1>4, <2>1, <2>2, <3>1
    <3> QED BY <1>3, <2>1, <2>2, <2>3, <3>3, <3>4 DEF Input
  <2>4. CASE decompressor = "ended"
    BY <1>3, <2>1, <2>2, <2>4 DEF Input
  <2> QED BY <1>4, <1>9, <2>3, <2>4
<1> QED BY <1>8, <1>9

LEMMA TailInput ==
  ASSUME TypeOK, Input, NEW m, Handle(m), ~ IsBegin(m),
         in_buffer' = Tail(in_buffer), UNCHANGED <<decompressor, to_server, deflating>>
  PROVE  Input'
<1>1. /\ in_buffer \in Seq(Messages) /\ to_server \in Seq(Messages) /\ in_buffer # << >>
      /\ m = Head(in_buffer)
  BY Typed DEF Handle
<1>2. CASE decompressor = "off"
  <2> DEFINE q == in_buffer \o to_server
  <2>1. q # << >> /\ Head(q) = m /\ Tail(q) = in_buffer' \o to_server'
    BY <1>1, JoinTail
  <2>2. /\ Marked(q) /\ (deflating = "before" <=> ~ Begun(q))
        /\ (deflating = "ended" <=> Over(q))
    BY <1>2 DEF Input
  <2>3. q \in Seq(Messages)
    BY <1>1
  <2> HIDE DEF q
  <2>4. Marked(Tail(q)) /\ ~ IsEnd(Head(q))
    BY <2>1, <2>2, <2>3, MarkedHead
  <2>5. (Begun(q) <=> Begun(Tail(q))) /\ (Over(q) <=> Over(Tail(q)))
    BY <2>1, <2>3, <2>4, BegunTail
  <2>6. /\ Marked(in_buffer' \o to_server')
        /\ deflating' = "before" <=> ~ Begun(in_buffer' \o to_server')
        /\ deflating' = "ended" <=> Over(in_buffer' \o to_server')
    BY <2>1, <2>2, <2>4, <2>5
  <2> QED BY <1>2, <2>6 DEF Input
<1>3. CASE decompressor # "off"
  <2>1. Begun(in_buffer) <=> IsBegin(m) \/ Begun(Tail(in_buffer))
    BY <1>1, BegunTail
  <2>2. \A i \in 1 .. Len(Tail(in_buffer)) : ~ Tail(in_buffer)[i].z
    <3>1. \A i \in 1 .. Len(in_buffer) : ~ in_buffer[i].z
      BY <1>3 DEF Input
    <3>2. \A i \in 1 .. Len(Tail(in_buffer)) :
            i + 1 \in 1 .. Len(in_buffer) /\ Tail(in_buffer)[i] = in_buffer[i + 1]
      BY <1>1
    <3> QED BY <3>1, <3>2
  <2> QED BY <1>3, <2>1, <2>2 DEF Input
<1> QED BY <1>2, <1>3

\* What is decompressed is not compressed any more, and nothing in it begins a
\* compression.
LEMMA InflatedInput ==
  ASSUME NEW ms \in Seq(Messages), ~ Begun(ms)
  PROVE  /\ ~ Begun(Inflate(ms)) /\ \A i \in 1 .. Len(Inflate(ms)) : ~ Inflate(ms)[i].z
<1>1. PICK n \in 0 .. Len(ms) : Inflate(ms) = Stamp(SubSeq(ms, 1, n), FALSE)
  BY InflateFacts
<1> DEFINE p == SubSeq(ms, 1, n)
<1>2. p \in Seq(Messages) /\ Len(p) = n /\ \A i \in 1 .. n : i \in 1 .. Len(ms) /\ p[i] = ms[i]
  BY PrefixFacts
<1> HIDE DEF p
<1>3. /\ Stamp(p, FALSE) \in Seq(Messages) /\ Len(Stamp(p, FALSE)) = n
      /\ \A i \in 1 .. n : Stamp(p, FALSE)[i].z = FALSE
  BY <1>2, StampFacts, MessageFields
<1>4. \A i \in 1 .. n : IsBegin(Stamp(p, FALSE)[i]) <=> IsBegin(ms[i])
  BY <1>2 DEF Stamp, IsBegin
<1>5. ~ Begun(Stamp(p, FALSE))
  BY <1>2, <1>3, <1>4 DEF Begun
<1> QED BY <1>1, <1>3, <1>5 DEF p

LEMMA InflatedBare ==
  ASSUME NEW ms \in Seq(Messages)
  PROVE  /\ \E n \in 0 .. Len(ms) : BareOf(Inflate(ms)) = SubSeq(BareOf(ms), 1, n)
         /\ (\A i \in 1 .. Len(ms) : ms[i].z) /\ ~ Over(ms) => BareOf(Inflate(ms)) = BareOf(ms)
<1>1. PICK n \in 0 .. Len(ms) : Inflate(ms) = Stamp(SubSeq(ms, 1, n), FALSE)
  BY InflateFacts
<1> DEFINE p == SubSeq(ms, 1, n)
<1>2. p \in Seq(Messages) /\ BareOf(p) = SubSeq(BareOf(ms), 1, n)
  BY PrefixFacts, BarePrefix
<1> HIDE DEF p
<1>3. BareOf(Stamp(p, FALSE)) = BareOf(p)
  BY <1>2, BareStamp
<1>4. BareOf(Stamp(ms, FALSE)) = BareOf(ms)
  BY BareStamp
<1>5. BareOf(Inflate(ms)) = SubSeq(BareOf(ms), 1, n)
  BY <1>1, <1>2, <1>3 DEF p
<1>6. (\A i \in 1 .. Len(ms) : ms[i].z) /\ ~ Over(ms) => Inflate(ms) = Stamp(ms, FALSE)
  BY InflateFacts
<1> QED BY <1>4, <1>5, <1>6

LEMMA AtEndOver ==
  ASSUME NEW ms \in Seq(Messages)
  PROVE  AtEnd(ms) <=> Over(ms)
BY DEF AtEnd, Over, IsEnd

\* What the server is to handle next can be lost only at the end of a compression.
Shortened == \E n \in 0 .. Len(Incoming) : Incoming' = SubSeq(Incoming, 1, n)

LEMMA ReceiveInput ==
  ASSUME TypeOK, Input, NEW n \in 1 .. Len(to_server), Receive(n)
  PROVE  /\ Input'
         /\ decompressor' # "ended" => decompressor # "ended" /\ Incoming' = Incoming
         /\ Incoming' = Incoming \/ Shortened
<1> DEFINE c == SubSeq(to_server, 1, n)
           r == SubSeq(to_server, n + 1, Len(to_server))
<1>1. /\ in_buffer = << >> /\ in_buffer' = Decode(c) /\ to_server' = r
      /\ decompressor' = IF decompressor = "on" /\ AtEnd(c) THEN "ended" ELSE decompressor
      /\ deflating' = deflating
  BY DEF Receive, clientVars
<1>2. to_server \in Seq(Messages) /\ decompressor \in {"off", "on", "ended"}
  BY Typed
<1>3. n \in 0 .. Len(to_server)
  BY <1>2
<1>4. c \in Seq(Messages) /\ r \in Seq(Messages) /\ to_server = c \o r
  BY <1>2, <1>3, Split
<1>5. in_buffer \o to_server = to_server
  BY <1>1, <1>2, ConcatEmptySeq
<1>6. AtEnd(c) <=> Over(c)
  BY <1>4, AtEndOver
<1> HIDE DEF c, r
<1>7. CASE decompressor = "off"
  <2>1. in_buffer' = c /\ decompressor' = "off" /\ in_buffer' \o to_server' = to_server
    BY <1>1, <1>4, <1>7, Zenon DEF Decode
  <2> QED BY <1>1, <1>5, <1>7, <2>1 DEF Input, Incoming, Heard
<1>8. CASE decompressor = "on"
  <2>1. in_buffer' = Inflate(c)
    BY <1>1, <1>8, Zenon DEF Decode
  <2>2. /\ Zipped(c \o r) /\ (deflating = "ended" <=> Over(to_server))
        /\ deflating # "before" /\ ~ Begun(to_server)
    BY <1>4, <1>8 DEF Input
  <2>3. /\ ~ Begun(c) /\ ~ Begun(r) /\ (Over(to_server) <=> Over(c) \/ Over(r))
    BY <1>4, <2>2, BegunJoin
  <2>4. ~ Begun(in_buffer') /\ \A i \in 1 .. Len(in_buffer') : ~ in_buffer'[i].z
    BY <1>4, <2>1, <2>3, InflatedInput
  <2>5. Incoming = BareOf(c) \o BareOf(r)
    BY <1>4, <1>5, <1>8, BareJoin DEF Incoming, Heard
  <2>6. CASE Over(c)
    <3>1. decompressor' = "ended"
      BY <1>1, <1>6, <1>8, <2>6
    <3>2. Input'
      BY <1>1, <2>2, <2>3, <2>4, <3>1 DEF Input
    <3>3. Incoming' = BareOf(Inflate(c))
      BY <2>1, <3>1 DEF Incoming, Heard
    <3>4. PICK k \in 0 .. Len(c) : BareOf(Inflate(c)) = SubSeq(BareOf(c), 1, k)
      BY <1>4, InflatedBare
    <3>5. /\ BareOf(c) \in Seq(Raw) /\ BareOf(r) \in Seq(Raw) /\ Len(BareOf(c)) = Len(c)
      BY <1>4, BareTyped
    <3>6. SubSeq(BareOf(c) \o BareOf(r), 1, k) = SubSeq(BareOf(c), 1, k)
          /\ k \in 0 .. Len(BareOf(c) \o BareOf(r))
      <4> DEFINE d == BareOf(c)
                 e == BareOf(r)
      <4>1. d \in Seq(Raw) /\ e \in Seq(Raw) /\ k \in 0 .. Len(d)
        BY <3>5
      <4> HIDE DEF d, e
      <4>2. SubSeq(d \o e, 1, k) = SubSeq(d, 1, k) /\ k \in 0 .. Len(d \o e)
        BY <4>1, PrefixOfJoin
      <4> QED BY <4>2 DEF d, e
    <3>7. Shortened
      BY <2>5, <3>3, <3>4, <3>6 DEF Shortened
    <3> QED BY <3>1, <3>2, <3>7
  <2>7. CASE ~ Over(c)
    <3>1. decompressor' = "on"
      BY <1>1, <1>6, <1>8, <2>7
    <3>2. (\A i \in 1 .. Len(c) : c[i].z) /\ Zipped(r)
      BY <1>4, <2>2, <2>7, ZippedSplit
    <3>3. Input'
      BY <1>1, <2>2, <2>3, <2>4, <2>7, <3>1, <3>2 DEF Input
    <3>4. BareOf(in_buffer') = BareOf(c) /\ in_buffer' \in Seq(Messages)
      BY <1>4, <2>1, <2>7, <3>2, InflatedBare, InflateTyped
    <3>5. Incoming' = BareOf(in_buffer') \o BareOf(r)
      <4>1. Incoming' = BareOf(in_buffer' \o r)
        BY <1>1, <3>1 DEF Incoming, Heard
      <4> QED BY <1>4, <3>4, <4>1, BareJoin
    <3> QED BY <1>8, <2>5, <3>1, <3>3, <3>4, <3>5
  <2> QED BY <2>6, <2>7
<1>9. CASE decompressor = "ended"
  <2>1. in_buffer' = << >> /\ decompressor' = "ended"
    BY <1>1, <1>9, Zenon DEF Decode
  <2>2. ~ Begun(r)
    <3>1. ~ Begun(to_server)
      BY <1>9 DEF Input
    <3> QED BY <1>4, <3>1, BegunJoin
  <2>3. ~ Begun(<< >>)
    BY DEF Begun
  <2>4. Incoming' = Incoming
    BY <1>1, <1>9, <2>1 DEF Incoming, Heard
  <2>5. Input'
    BY <1>1, <1>9, <2>1, <2>2, <2>3 DEF Input
  <2> QED BY <1>9, <2>1, <2>4, <2>5
<1> QED BY <1>2, <1>7, <1>8, <1>9

LEMMA CompressionInput ==
  ASSUME TypeOK, Input, NEW m, ReceiveCompression(m)
  PROVE  /\ Input'
         /\ Incoming # << >> /\ Head(Incoming) = Bare(m) /\ Bare(m) \in Raw
         /\ decompressor' # "ended" => decompressor # "ended" /\ Incoming' = Tail(Incoming)
         /\ \/ Incoming' = Tail(Incoming)
            \/ \E n \in 0 .. Len(Tail(Incoming)) : Incoming' = SubSeq(Tail(Incoming), 1, n)
<1> DEFINE t == Tail(in_buffer)
           q == in_buffer \o to_server
<1>1. /\ in_buffer # << >> /\ m = Head(in_buffer) /\ IsBegin(m)
      /\ in_buffer' = Inflate(t) /\ to_server' = to_server /\ deflating' = deflating
      /\ decompressor' = IF AtEnd(in_buffer) THEN "ended" ELSE "on"
  BY DEF ReceiveCompression, Handle, IsBegin, clientVars
<1>2. in_buffer \in Seq(Messages) /\ to_server \in Seq(Messages) /\ t \in Seq(Messages)
  BY <1>1, Typed
<1>3. Begun(in_buffer) /\ m \in Messages
  BY <1>1, <1>2, BegunTail
<1>4. decompressor = "off"
  BY <1>3 DEF Input
<1>5. q # << >> /\ Head(q) = m /\ Tail(q) = t \o to_server /\ q \in Seq(Messages)
  BY <1>1, <1>2, JoinTail
<1>6. /\ Marked(q) /\ (deflating = "before" <=> ~ Begun(q))
      /\ (deflating = "ended" <=> Over(q))
  BY <1>4 DEF Input
<1>7. AtEnd(in_buffer) <=> Over(in_buffer)
  BY <1>2, AtEndOver
<1>8. Incoming = BareOf(q)
  BY <1>4 DEF Incoming, Heard
<1> HIDE DEF q, t
<1>9. Zipped(Tail(q)) /\ ~ IsEnd(m)
  BY <1>1, <1>5, <1>6, MarkedHead
<1>10. Incoming # << >> /\ Head(Incoming) = Bare(m) /\ Tail(Incoming) = BareOf(t \o to_server)
  BY <1>5, <1>8, BareTail
<1>11. Bare(m) \in Raw
  BY <1>3, MessageFields DEF Bare, Raw
<1>12. Over(in_buffer) <=> Over(t)
  BY <1>1, <1>2, <1>9, BegunTail DEF t
<1>13. /\ deflating # "before" /\ ~ Begun(t) /\ ~ Begun(to_server)
       /\ Over(q) <=> Over(t) \/ Over(to_server)
  <2>1. Begun(q)
    BY <1>1, <1>5, BegunTail
  <2>2. ~ Begun(t) /\ ~ Begun(to_server)
    <3>1. ~ Begun(t \o to_server)
      BY <1>5, <1>9 DEF Zipped
    <3> QED BY <1>2, <3>1, BegunJoin
  <2>3. Over(q) <=> Over(t \o to_server)
    BY <1>5, <1>9, BegunTail
  <2>4. Over(t \o to_server) <=> Over(t) \/ Over(to_server)
    BY <1>2, BegunJoin
  <2> QED BY <1>6, <2>1, <2>2, <2>3, <2>4
<1>14. ~ Begun(in_buffer') /\ \A i \in 1 .. Len(in_buffer') : ~ in_buffer'[i].z
  BY <1>1, <1>2, <1>13, InflatedInput
<1>15. /\ BareOf(t) \in Seq(Raw) /\ BareOf(to_server) \in Seq(Raw)
       /\ Len(BareOf(t)) = Len(t)
       /\ Tail(Incoming) = BareOf(t) \o BareOf(to_server)
  BY <1>2, <1>10, BareTyped, BareJoin
<1>16. CASE Over(t)
  <2>1. decompressor' = "ended"
    BY <1>1, <1>7, <1>12, <1>16
  <2>2. Input'
    BY <1>1, <1>13, <1>14, <2>1 DEF Input
  <2>3. Incoming' = BareOf(Inflate(t))
    BY <1>1, <2>1 DEF Incoming, Heard
  <2>4. PICK k \in 0 .. Len(t) : BareOf(Inflate(t)) = SubSeq(BareOf(t), 1, k)
    BY <1>2, InflatedBare
  <2>5. SubSeq(Tail(Incoming), 1, k) = SubSeq(BareOf(t), 1, k) /\ k \in 0 .. Len(Tail(Incoming))
    <3> DEFINE d == BareOf(t)
               e == BareOf(to_server)
    <3>1. d \in Seq(Raw) /\ e \in Seq(Raw) /\ k \in 0 .. Len(d)
      BY <1>15
    <3> HIDE DEF d, e
    <3>2. SubSeq(d \o e, 1, k) = SubSeq(d, 1, k) /\ k \in 0 .. Len(d \o e)
      BY <3>1, PrefixOfJoin
    <3> QED BY <1>15, <3>2 DEF d, e
  <2> QED BY <1>10, <1>11, <2>1, <2>2, <2>3, <2>4, <2>5
<1>17. CASE ~ Over(t)
  <2>1. decompressor' = "on"
    BY <1>1, <1>7, <1>12, <1>17
  <2>2. (\A i \in 1 .. Len(t) : t[i].z) /\ Zipped(to_server)
    BY <1>2, <1>5, <1>9, <1>17, ZippedSplit
  <2>3. Input'
    BY <1>1, <1>6, <1>13, <1>14, <1>17, <2>1, <2>2 DEF Input
  <2>4. BareOf(in_buffer') = BareOf(t) /\ in_buffer' \in Seq(Messages)
    BY <1>1, <1>2, <1>17, <2>2, InflatedBare, InflateTyped
  <2>5. Incoming' = BareOf(in_buffer' \o to_server)
    BY <1>1, <2>1 DEF Incoming, Heard
  <2>6. Incoming' = Tail(Incoming)
    BY <1>2, <1>15, <2>4, <2>5, BareJoin
  <2> QED BY <1>4, <1>10, <1>11, <2>3, <2>6
<1> QED BY <1>16, <1>17

\* The messages of a kind about an option of a side; and those about the terminal.
Yes(s, o) == [kind : {Accept[s]}, option : {o}, data : Data]
No(s, o) == [kind : {Reject[s]}, option : {o}, data : Data]
OfferOf(s, o) == [kind : {Offer[s]}, option : {o}, data : Data]
Types == [kind : {"SB"}, option : {"MTTS"}, data : Data]
Lines == [kind : {"TEXT"}, option : AllOptions \cup {Other}, data : Data]

LEMMA KindOf ==
  ASSUME NEW x \in Raw
  PROVE  /\ \A s \in Sides : \A o :
              /\ x \in Yes(s, o) <=> x.kind = Accept[s] /\ x.option = o
              /\ x \in No(s, o) <=> x.kind = Reject[s] /\ x.option = o
              /\ x \in OfferOf(s, o) <=> x.kind = Offer[s] /\ x.option = o
         /\ x \in Types <=> x.kind = "SB" /\ x.option = "MTTS"
<1>1. x = [kind |-> x.kind, option |-> x.option, data |-> x.data] /\ x.data \in Data
  BY DEF Raw
<1> QED BY <1>1 DEF Yes, No, OfferOf, Types

LEMMA Words ==
  /\ Accept["local"] = "DO" /\ Accept["remote"] = "WILL"
  /\ Reject["local"] = "DONT" /\ Reject["remote"] = "WONT"
  /\ Offer["local"] = "WILL" /\ Offer["remote"] = "DO"
  /\ Cancel["local"] = "WONT" /\ Cancel["remote"] = "DONT"
BY DEF Accept, Reject, Offer, Cancel, Sides

\* A message says one thing of one option of one side.
LEMMA Distinct ==
  ASSUME NEW s \in Sides, NEW t \in Sides
  PROVE  /\ Accept[s] # Reject[t] /\ Accept[s] \notin {"SB", "TEXT", "END"}
         /\ Reject[s] \notin {"SB", "TEXT", "END"}
         /\ Offer[s] \notin {"SB", "TEXT", "END"} /\ Offer[s] # Cancel[t]
         /\ Accept[s] = Accept[t] => s = t
         /\ Reject[s] = Reject[t] => s = t
         /\ Offer[s] = Offer[t] => s = t
BY DEF Accept, Reject, Offer, Cancel, Sides

-------------------------------------------------------------------------------
(* Agreement about one option of one side: what is enabled at the server (en),  *)
(* negotiated (ne), believed by the client (cn), asked by it (ca), on its way   *)
(* to the client (d) and to the server (q)                                      *)

\* When the server has handled all that is under way, the option is enabled.
Will(en, q, s, o) ==
  Last(q, Yes(s, o), No(s, o)) \/ (o \in en /\ ~ Has(q, No(s, o)))

\* On the way there it will make an offer; it will enable the option over again.
WillOffer(en, ne, q, s, o) ==
  (o \notin en /\ o \notin ne /\ Has(q, Yes(s, o))) \/ Before(q, No(s, o), Yes(s, o))
WillEnable(en, q, s, o) ==
  (o \notin en /\ Has(q, Yes(s, o))) \/ Before(q, No(s, o), Yes(s, o))

\* What the client believes or has asked for will be; what will be and the client
\* does not know it will learn from an offer; and an offer that is not answered
\* yet is still on its way.
Agrees(en, ne, cn, ca, d, q, s, o) ==
  /\ o \in cn \/ o \in ca => Will(en, q, s, o)
  /\ Will(en, q, s, o) /\ o \notin cn =>
       Has(d, OfferOf(s, o)) \/ WillOffer(en, ne, q, s, o)
  /\ o \in ne /\ ~ Has(q, No(s, o)) /\ ~ Will(en, q, s, o) => Has(d, OfferOf(s, o))

LEMMA YesNo ==
  ASSUME NEW s \in Sides, NEW o, NEW x
  PROVE  ~ (x \in Yes(s, o) /\ x \in No(s, o))
<1>1. Accept[s] # Reject[s]
  BY Distinct
<1> QED BY <1>1 DEF Yes, No

LEMMA Sure ==
  ASSUME NEW q, NEW s \in Sides, NEW o, NEW en, NEW ne
  PROVE  /\ Last(q, Yes(s, o), No(s, o)) => Has(q, Yes(s, o))
         /\ Before(q, No(s, o), Yes(s, o)) => Has(q, Yes(s, o)) /\ Has(q, No(s, o))
         /\ WillOffer(en, ne, q, s, o) => WillEnable(en, q, s, o)
BY DEF Last, Before, Has, WillOffer, WillEnable

\* The server handles a message.
LEMMA AgreesHandled ==
  ASSUME NEW S, NEW q \in Seq(S), q # << >>, NEW s \in Sides, NEW o,
         NEW en, NEW ne, NEW cn, NEW ca, NEW d, NEW en2, NEW ne2, NEW ca2, NEW d2,
         Agrees(en, ne, cn, ca, d, q, s, o),
         Has(d, OfferOf(s, o)) => Has(d2, OfferOf(s, o)),
         o \in ca2 => o \in ca,
         Head(q) \in Yes(s, o) =>
           /\ o \in en2 /\ (o \in ne2 <=> o \in ne)
           /\ o \in en \/ o \in ne \/ Has(d2, OfferOf(s, o)),
         Head(q) \in No(s, o) => o \notin en2 /\ o \notin ne2,
         Head(q) \notin Yes(s, o) /\ Head(q) \notin No(s, o) =>
           (o \in en2 <=> o \in en) /\ (o \in ne2 <=> o \in ne)
  PROVE  Agrees(en2, ne2, cn, ca2, d2, Tail(q), s, o)
<1> DEFINE Y == Yes(s, o)
           N == No(s, o)
           h == Head(q)
           t == Tail(q)
           f == Has(d, OfferOf(s, o))
           f2 == Has(d2, OfferOf(s, o))
<1>1. /\ Has(q, Y) <=> h \in Y \/ Has(t, Y)
      /\ Has(q, N) <=> h \in N \/ Has(t, N)
      /\ Before(q, N, Y) <=> Before(t, N, Y) \/ (h \in N /\ Has(t, Y))
      /\ Last(q, Y, N) <=> Last(t, Y, N) \/ (h \in Y /\ ~ Has(t, N))
  BY TailFacts
<1>2. ~ (h \in Y /\ h \in N)
  BY YesNo
<1>3. Last(t, Y, N) => Has(t, Y)
  BY Sure
<1> HIDE DEF Y, N, h, t, f, f2
<1>4. /\ o \in cn \/ o \in ca => Last(q, Y, N) \/ (o \in en /\ ~ Has(q, N))
      /\ (Last(q, Y, N) \/ (o \in en /\ ~ Has(q, N))) /\ o \notin cn =>
           f \/ (o \notin en /\ o \notin ne /\ Has(q, Y)) \/ Before(q, N, Y)
      /\ o \in ne /\ ~ Has(q, N) /\ ~ (Last(q, Y, N) \/ (o \in en /\ ~ Has(q, N))) => f
  BY DEF Agrees, Will, WillOffer, Y, N, f
<1>5. /\ f => f2
      /\ o \in ca2 => o \in ca
      /\ h \in Y => o \in en2 /\ (o \in ne2 <=> o \in ne) /\ (o \in en \/ o \in ne \/ f2)
      /\ h \in N => o \notin en2 /\ o \notin ne2
      /\ h \notin Y /\ h \notin N => (o \in en2 <=> o \in en) /\ (o \in ne2 <=> o \in ne)
  BY DEF f, f2, h, Y, N
<1>6. /\ o \in cn \/ o \in ca2 => Last(t, Y, N) \/ (o \in en2 /\ ~ Has(t, N))
      /\ (Last(t, Y, N) \/ (o \in en2 /\ ~ Has(t, N))) /\ o \notin cn =>
           f2 \/ (o \notin en2 /\ o \notin ne2 /\ Has(t, Y)) \/ Before(t, N, Y)
      /\ o \in ne2 /\ ~ Has(t, N) /\ ~ (Last(t, Y, N) \/ (o \in en2 /\ ~ Has(t, N))) => f2
  <2>1. CASE h \in Y
    BY <1>1, <1>2, <1>3, <1>4, <1>5, <2>1
  <2>2. CASE h \in N
    BY <1>1, <1>2, <1>3, <1>4, <1>5, <2>2
  <2>3. CASE h \notin Y /\ h \notin N
    BY <1>1, <1>2, <1>3, <1>4, <1>5, <2>3
  <2> QED BY <2>1, <2>2, <2>3
<1> QED BY <1>6 DEF Agrees, Will, WillOffer, Y, N, f2, t

\* Nothing that concerns the option is said, and none of its offers is lost.
LEMMA AgreesSame ==
  ASSUME NEW s \in Sides, NEW o, NEW q,
         NEW en, NEW ne, NEW cn, NEW ca, NEW d, NEW ca2, NEW d2, NEW q2,
         Agrees(en, ne, cn, ca, d, q, s, o),
         Has(d, OfferOf(s, o)) => Has(d2, OfferOf(s, o)),
         o \in ca2 => o \in ca,
         \/ q2 = q
         \/ \E S, x : q \in Seq(S) /\ x \in S /\ q2 = q \o <<x>>
                      /\ x \notin Yes(s, o) /\ x \notin No(s, o)
  PROVE  Agrees(en, ne, cn, ca2, d2, q2, s, o)
<1> DEFINE Y == Yes(s, o)
           N == No(s, o)
<1>1. /\ Has(q2, Y) <=> Has(q, Y)
      /\ Has(q2, N) <=> Has(q, N)
      /\ Before(q2, N, Y) <=> Before(q, N, Y)
      /\ Last(q2, Y, N) <=> Last(q, Y, N)
  <2>1. CASE q2 = q
    BY <2>1
  <2>2. ASSUME NEW S, NEW x, q \in Seq(S), x \in S, q2 = q \o <<x>>, x \notin Y, x \notin N
        PROVE  /\ Has(q2, Y) <=> Has(q, Y)
               /\ Has(q2, N) <=> Has(q, N)
               /\ Before(q2, N, Y) <=> Before(q, N, Y)
               /\ Last(q2, Y, N) <=> Last(q, Y, N)
    <3> HIDE DEF Y, N
    <3> DEFINE r == <<x>>
    <3>1. r \in Seq(S)
      BY <2>2
    <3>2. ~ Has(r, Y) /\ ~ Has(r, N) /\ ~ Before(r, N, Y) /\ ~ Last(r, Y, N)
      BY <2>2, Single
    <3> HIDE DEF r
    <3>3. q2 = q \o r
      BY <2>2 DEF r
    <3> QED BY <2>2, <3>1, <3>2, <3>3, JoinHas, JoinBefore, JoinLast
  <2> QED BY <2>1, <2>2
<1> QED BY <1>1 DEF Agrees, Will, WillOffer

\* start() offers it.
LEMMA AgreesStart ==
  ASSUME NEW s \in Sides, NEW o, NEW q,
         NEW en, NEW ne, NEW cn, NEW ca, NEW d, NEW ne2, NEW d2,
         Agrees(en, ne, cn, ca, d, q, s, o), Has(d2, OfferOf(s, o))
  PROVE  Agrees(en, ne2, cn, ca, d2, q, s, o)
BY DEF Agrees

\* The client says yes, to an offer or of its own accord.
LEMMA AgreesSaidYes ==
  ASSUME NEW S, NEW q \in Seq(S), NEW x \in S, NEW s \in Sides, NEW o, x \in Yes(s, o),
         NEW en, NEW ne, NEW cn, NEW ca, NEW d, NEW cn2, NEW ca2, NEW d2,
         Agrees(en, ne, cn, ca, d, q, s, o),
         o \in cn2 \/ (Has(d, OfferOf(s, o)) => Has(d2, OfferOf(s, o))),
         o \notin cn
  PROVE  Agrees(en, ne, cn2, ca2, d2, q \o <<x>>, s, o)
<1> DEFINE Y == Yes(s, o)
           N == No(s, o)
           r == <<x>>
           t == q \o r
           f == Has(d, OfferOf(s, o))
           f2 == Has(d2, OfferOf(s, o))
<1>1. r \in Seq(S)
  OBVIOUS
<1>2. /\ Has(r, Y) /\ ~ Has(r, N) /\ ~ Before(r, N, Y) /\ Last(r, Y, N)
  BY YesNo, Single
<1> HIDE DEF Y, N, r, f, f2
<1>3. /\ Has(t, Y)
      /\ Has(t, N) <=> Has(q, N)
      /\ Before(t, N, Y) <=> Before(q, N, Y) \/ Has(q, N)
      /\ Last(t, Y, N)
  BY <1>1, <1>2, JoinHas, JoinBefore, JoinLast
<1> HIDE DEF t
<1>4. /\ (Last(q, Y, N) \/ (o \in en /\ ~ Has(q, N))) /\ o \notin cn =>
           f \/ (o \notin en /\ o \notin ne /\ Has(q, Y)) \/ Before(q, N, Y)
      /\ o \in ne /\ ~ Has(q, N) /\ ~ (Last(q, Y, N) \/ (o \in en /\ ~ Has(q, N))) => f
  BY DEF Agrees, Will, WillOffer, Y, N, f
<1>5. o \in cn2 \/ (f => f2)
  BY DEF f, f2
<1>6. Before(q, N, Y) => Has(q, N)
  BY Sure DEF Y, N
<1>7. o \notin cn2 => f2 \/ (o \notin en /\ o \notin ne /\ Has(t, Y)) \/ Before(t, N, Y)
  BY <1>3, <1>4, <1>5, <1>6
<1> QED BY <1>3, <1>7 DEF Agrees, Will, WillOffer, Y, N, f2, t, r

\* It finds its own request granted.
LEMMA AgreesGranted ==
  ASSUME NEW s \in Sides, NEW o, NEW q,
         NEW en, NEW ne, NEW cn, NEW ca, NEW d, NEW cn2, NEW ca2, NEW d2,
         Agrees(en, ne, cn, ca, d, q, s, o), o \in ca \/ o \in cn, o \in cn2
  PROVE  Agrees(en, ne, cn2, ca2, d2, q, s, o)
BY DEF Agrees

\* It says no.
LEMMA AgreesSaidNo ==
  ASSUME NEW S, NEW q \in Seq(S), NEW x \in S, NEW s \in Sides, NEW o, x \in No(s, o),
         NEW en, NEW ne, NEW cn2, NEW ca2, NEW d2, o \notin cn2, o \notin ca2
  PROVE  Agrees(en, ne, cn2, ca2, d2, q \o <<x>>, s, o)
<1> DEFINE Y == Yes(s, o)
           N == No(s, o)
           r == <<x>>
           t == q \o r
<1>1. r \in Seq(S)
  OBVIOUS
<1>2. Has(r, N) /\ ~ Last(r, Y, N)
  BY YesNo, Single
<1> HIDE DEF Y, N, r
<1>3. Has(t, N) /\ ~ Last(t, Y, N)
  BY <1>1, <1>2, JoinHas, JoinLast
<1> QED BY <1>3 DEF Agrees, Will, Y, N, t, r

-------------------------------------------------------------------------------
(* What the server says of the options, and asks of the terminal *)

\* It makes no offers.
NoOffers(ms) == \A s \in Sides : \A o : ~ Has(ms, OfferOf(s, o))

LEMMA SingleOffer ==
  ASSUME TypeOK, NEW t \in Sides, NEW p \in Codes
  PROVE  /\ <<Negotiate(Offer[t], p)>> \in Seq(Raw)
         /\ \A s \in Sides : \A o :
              Has(<<Negotiate(Offer[t], p)>>, OfferOf(s, o)) <=> s = t /\ o = p
         /\ ~ Has(<<Negotiate(Offer[t], p)>>, Types)
<1> DEFINE x == Negotiate(Offer[t], p)
<1>1. Offer[t] \in {"WILL", "DO"}
  BY DEF Offer, Sides
<1>2. x \in Raw /\ x.kind = Offer[t] /\ x.option = p
  BY <1>1, NegotiateRaw DEF Negotiate
<1> HIDE DEF x
<1>3. <<x>> \in Seq(Raw)
  BY <1>2
<1>4. x \notin Types
  BY <1>1, <1>2, KindOf
<1>5. ASSUME NEW s \in Sides, NEW o PROVE x \in OfferOf(s, o) <=> s = t /\ o = p
  <2>1. x \in OfferOf(s, o) <=> Offer[t] = Offer[s] /\ p = o
    BY <1>2, KindOf
  <2>2. Offer[t] = Offer[s] => s = t
    BY Distinct
  <2> QED BY <2>1, <2>2
<1>6. \A P : Has(<<x>>, P) <=> x \in P
  BY Single
<1> QED BY <1>3, <1>4, <1>5, <1>6 DEF x

LEMMA OffersSaid ==
  ASSUME TypeOK, NEW p
  PROVE  /\ InstalledOffers(p) \in Seq(Raw)
         /\ \A s \in Sides : \A o :
              Has(InstalledOffers(p), OfferOf(s, o)) <=> o = p /\ p \in Options \cap Support[s]
         /\ ~ Has(InstalledOffers(p), Types)
<1>1. CASE p \notin Options
  BY <1>1, Empty DEF InstalledOffers
<1>2. CASE p \in Options
  <2> DEFINE a == IF p \in SupportLocal THEN <<Negotiate("WILL", p)>> ELSE << >>
             b == IF p \in SupportRemote THEN <<Negotiate("DO", p)>> ELSE << >>
  <2>1. p \in Codes
    BY <1>2, Scenario
  <2>2. "local" \in Sides /\ "remote" \in Sides
    BY DEF Sides
  <2>3. /\ a \in Seq(Raw) /\ ~ Has(a, Types)
        /\ \A s \in Sides : \A o :
             Has(a, OfferOf(s, o)) <=> p \in SupportLocal /\ s = "local" /\ o = p
    <3>1. CASE p \in SupportLocal
      <4> DEFINE x == Negotiate(Offer["local"], p)
      <4>1. /\ <<x>> \in Seq(Raw) /\ ~ Has(<<x>>, Types)
            /\ \A s \in Sides : \A o : Has(<<x>>, OfferOf(s, o)) <=> s = "local" /\ o = p
        BY <2>1, <2>2, SingleOffer
      <4>2. a = <<x>>
        BY <3>1, Words
      <4> QED BY <3>1, <4>1, <4>2
    <3>2. CASE p \notin SupportLocal
      <4>1. a = << >>
        BY <3>2
      <4> QED BY <3>2, <4>1, Empty
    <3> QED BY <3>1, <3>2
  <2>4. /\ b \in Seq(Raw) /\ ~ Has(b, Types)
        /\ \A s \in Sides : \A o :
             Has(b, OfferOf(s, o)) <=> p \in SupportRemote /\ s = "remote" /\ o = p
    <3>1. CASE p \in SupportRemote
      <4> DEFINE x == Negotiate(Offer["remote"], p)
      <4>1. /\ <<x>> \in Seq(Raw) /\ ~ Has(<<x>>, Types)
            /\ \A s \in Sides : \A o : Has(<<x>>, OfferOf(s, o)) <=> s = "remote" /\ o = p
        BY <2>1, <2>2, SingleOffer
      <4>2. b = <<x>>
        BY <3>1, Words
      <4> QED BY <3>1, <4>1, <4>2
    <3>2. CASE p \notin SupportRemote
      <4>1. b = << >>
        BY <3>2
      <4> QED BY <3>2, <4>1, Empty
    <3> QED BY <3>1, <3>2
  <2>5. InstalledOffers(p) = a \o b
    BY <1>2 DEF InstalledOffers, Offers
  <2> HIDE DEF a, b
  <2>6. a \o b \in Seq(Raw)
    BY <2>3, <2>4
  <2>7. \A P : Has(a \o b, P) <=> Has(a, P) \/ Has(b, P)
    BY <2>3, <2>4, JoinHas
  <2>8. \A s \in Sides : p \in Support[s] <=>
           (p \in SupportLocal /\ s = "local") \/ (p \in SupportRemote /\ s = "remote")
    BY DEF Sides, Support
  <2> QED BY <1>2, <2>3, <2>4, <2>5, <2>6, <2>7, <2>8
<1> QED BY <1>1, <1>2

LEMMA StartSays ==
  ASSUME TypeOK, Start
  PROVE  \E ms \in Seq(Raw) :
           /\ Put(ms) /\ ~ Has(ms, Types)
           /\ \A s \in Sides : \A o : Has(ms, OfferOf(s, o)) <=> o \in Options \cap Support[s]
<1> DEFINE a == InstalledOffers("SGA")
           b == InstalledOffers("NAWS")
           c == InstalledOffers("CHARSET")
           d == InstalledOffers("GMCP")
           e == InstalledOffers("LINEMODE")
           f == InstalledOffers("MCCP2")
           g == InstalledOffers("MCCP3")
           h == InstalledOffers("MSSP")
           i == InstalledOffers("MTTS")
           ms == a \o b \o c \o d \o e \o f \o g \o h \o i
           All == {"SGA", "NAWS", "CHARSET", "GMCP", "LINEMODE", "MCCP2", "MCCP3", "MSSP", "MTTS"}
<1>1. Put(ms)
  BY DEF Start
<1>2. /\ a \in Seq(Raw) /\ b \in Seq(Raw) /\ c \in Seq(Raw) /\ d \in Seq(Raw) /\ e \in Seq(Raw)
      /\ f \in Seq(Raw) /\ g \in Seq(Raw) /\ h \in Seq(Raw) /\ i \in Seq(Raw)
  BY OffersSaid
<1>3. ASSUME NEW s \in Sides, NEW o
      PROVE  (\/ Has(a, OfferOf(s, o)) \/ Has(b, OfferOf(s, o)) \/ Has(c, OfferOf(s, o))
              \/ Has(d, OfferOf(s, o)) \/ Has(e, OfferOf(s, o)) \/ Has(f, OfferOf(s, o))
              \/ Has(g, OfferOf(s, o)) \/ Has(h, OfferOf(s, o)) \/ Has(i, OfferOf(s, o)))
             <=> o \in All /\ o \in Options \cap Support[s]
  <2>1. \A p : Has(InstalledOffers(p), OfferOf(s, o)) <=> o = p /\ p \in Options \cap Support[s]
    BY OffersSaid
  <2> QED BY <2>1
<1>4. /\ ~ Has(a, Types) /\ ~ Has(b, Types) /\ ~ Has(c, Types) /\ ~ Has(d, Types)
      /\ ~ Has(e, Types) /\ ~ Has(f, Types) /\ ~ Has(g, Types) /\ ~ Has(h, Types)
      /\ ~ Has(i, Types)
  BY OffersSaid
<1> HIDE DEF a, b, c, d, e, f, g, h, i
<1>5. ms \in Seq(Raw)
  BY <1>2
<1>6. ASSUME NEW P
      PROVE  Has(ms, P) <=> \/ Has(a, P) \/ Has(b, P) \/ Has(c, P) \/ Has(d, P) \/ Has(e, P)
                            \/ Has(f, P) \/ Has(g, P) \/ Has(h, P) \/ Has(i, P)
  <2> DEFINE ab == a \o b
             ac == ab \o c
             ad == ac \o d
             ae == ad \o e
             af == ae \o f
             ag == af \o g
             ah == ag \o h
             ai == ah \o i
  <2> HIDE DEF ab, ac, ad, ae, af, ag, ah, ai
  <2>1. ab \in Seq(Raw) /\ (Has(ab, P) <=> Has(a, P) \/ Has(b, P))
    BY <1>2, JoinHas DEF ab
  <2>2. ac \in Seq(Raw) /\ (Has(ac, P) <=> Has(ab, P) \/ Has(c, P))
    BY <1>2, <2>1, JoinHas DEF ac
  <2>3. ad \in Seq(Raw) /\ (Has(ad, P) <=> Has(ac, P) \/ Has(d, P))
    BY <1>2, <2>2, JoinHas DEF ad
  <2>4. ae \in Seq(Raw) /\ (Has(ae, P) <=> Has(ad, P) \/ Has(e, P))
    BY <1>2, <2>3, JoinHas DEF ae
  <2>5. af \in Seq(Raw) /\ (Has(af, P) <=> Has(ae, P) \/ Has(f, P))
    BY <1>2, <2>4, JoinHas DEF af
  <2>6. ag \in Seq(Raw) /\ (Has(ag, P) <=> Has(af, P) \/ Has(g, P))
    BY <1>2, <2>5, JoinHas DEF ag
  <2>7. ah \in Seq(Raw) /\ (Has(ah, P) <=> Has(ag, P) \/ Has(h, P))
    BY <1>2, <2>6, JoinHas DEF ah
  <2>8. ai \in Seq(Raw) /\ (Has(ai, P) <=> Has(ah, P) \/ Has(i, P))
    BY <1>2, <2>7, JoinHas DEF ai
  <2>9. ms = ai
    BY DEF ab, ac, ad, ae, af, ag, ah, ai
  <2> HIDE DEF ms
  <2> QED BY <2>1, <2>2, <2>3, <2>4, <2>5, <2>6, <2>7, <2>8, <2>9
<1> HIDE DEF ms
<1>7. ASSUME NEW s \in Sides, NEW o \in Options \cap Support[s] PROVE o \in All
  BY DEF Sides, Support, SupportLocal, SupportRemote
<1>8. /\ Put(ms) /\ ~ Has(ms, Types)
      /\ \A s \in Sides : \A o : Has(ms, OfferOf(s, o)) <=> o \in Options \cap Support[s]
  BY <1>1, <1>3, <1>4, <1>6, <1>7
<1> QED BY <1>5, <1>8

LEMMA SingleType ==
  ASSUME NEW x \in Raw, x.kind = "SB"
  PROVE  /\ <<x>> \in Seq(Raw) /\ NoOffers(<<x>>)
         /\ Has(<<x>>, Types) <=> x.option = "MTTS"
<1>1. \A P : Has(<<x>>, P) <=> x \in P
  BY Single
<1>2. ASSUME NEW s \in Sides, NEW o PROVE x \notin OfferOf(s, o)
  BY KindOf, Distinct
<1>3. x \in Types <=> x.option = "MTTS"
  BY KindOf
<1> QED BY <1>1, <1>2, <1>3 DEF NoOffers

LEMMA EnableSays ==
  ASSUME TypeOK, NEW p \in Options
  PROVE  /\ EnableMessages(p) \in Seq(Raw) /\ NoOffers(EnableMessages(p))
         /\ Has(EnableMessages(p), Types) <=> p = "MTTS"
         /\ Once(EnableMessages(p), Types)
<1> DEFINE x == Subnegotiate(p, "")
<1>1. x \in Raw /\ x.kind = "SB" /\ x.option = p
  BY Scenario, SubnegotiateRaw DEF Data, Subnegotiate
<1>2. EnableMessages(p) = <<x>> \/ (EnableMessages(p) = << >> /\ p # "MTTS")
  BY DEF EnableMessages
<1> HIDE DEF x
<1>3. /\ <<x>> \in Seq(Raw) /\ NoOffers(<<x>>)
      /\ Has(<<x>>, Types) <=> p = "MTTS"
  BY <1>1, SingleType
<1>4. Once(<<x>>, Types)
  BY Single
<1>5. << >> \in Seq(Raw) /\ NoOffers(<< >>) /\ ~ Has(<< >>, Types) /\ Once(<< >>, Types)
  BY Empty DEF NoOffers
<1> QED BY <1>2, <1>3, <1>4, <1>5

LEMMA YesSays ==
  ASSUME TypeOK, NEW m, NEW t \in Sides, ReceiveYes(m, t)
  PROVE  \E ms \in Seq(Raw) :
           /\ Put(ms)
           /\ \A s \in Sides : \A o : Has(ms, OfferOf(s, o)) <=>
                s = t /\ o = m.option /\ m.option \notin negotiating[t]
           /\ Has(ms, Types) <=> m.option = "MTTS"
           /\ Once(ms, Types)
           /\ First(ms, Types, OfferOf("remote", "MTTS")) => m.option \in negotiating[t]
<1> DEFINE p == m.option
           a == IF p \in negotiating[t] THEN << >> ELSE <<Negotiate(Offer[t], p)>>
           b == EnableMessages(p)
           F == OfferOf("remote", "MTTS")
<1>1. p \in Options \cap Support[t] /\ p \in Codes
  BY Scenario DEF ReceiveYes
<1>2. Put(a \o b)
  BY DEF ReceiveYes
<1>3. /\ b \in Seq(Raw) /\ NoOffers(b) /\ (Has(b, Types) <=> p = "MTTS") /\ Once(b, Types)
  BY <1>1, EnableSays
<1>4. /\ a \in Seq(Raw) /\ ~ Has(a, Types)
      /\ \A s \in Sides : \A o :
           Has(a, OfferOf(s, o)) <=> s = t /\ o = p /\ p \notin negotiating[t]
  <2>1. CASE p \in negotiating[t]
    <3>1. a = << >>
      BY <2>1
    <3> QED BY <2>1, <3>1, Empty
  <2>2. CASE p \notin negotiating[t]
    <3> DEFINE x == <<Negotiate(Offer[t], p)>>
    <3>1. /\ x \in Seq(Raw) /\ ~ Has(x, Types)
          /\ \A s \in Sides : \A o : Has(x, OfferOf(s, o)) <=> s = t /\ o = p
      BY <1>1, SingleOffer
    <3>2. a = x
      BY <2>2
    <3> HIDE DEF x, a
    <3> QED BY <2>2, <3>1, <3>2
  <2> QED BY <2>1, <2>2
<1>5. p = "MTTS" => t = "remote"
  BY <1>1 DEF Sides, Support, SupportLocal
<1>6. Once(a, Types)
  BY <1>4 DEF Has, Once
<1>7. First(b, Types, F) => Has(b, Types)
  BY DEF First, Has
<1>8. First(a, Types, F) => Has(a, Types)
  BY DEF First, Has
<1> HIDE DEF a, b, F, p
<1>9. /\ a \o b \in Seq(Raw)
      /\ \A P : Has(a \o b, P) <=> Has(a, P) \/ Has(b, P)
      /\ Once(a \o b, Types)
      /\ First(a \o b, Types, F) => First(a, Types, F) \/ (~ Has(a, F) /\ First(b, Types, F))
  <2>1. a \o b \in Seq(Raw)
    BY <1>3, <1>4
  <2>2. \A P : Has(a \o b, P) <=> Has(a, P) \/ Has(b, P)
    BY <1>3, <1>4, JoinHas
  <2>3. Once(a \o b, Types)
    BY <1>3, <1>4, <1>6, JoinOnce
  <2>4. First(a \o b, Types, F) <=> First(a, Types, F) \/ (~ Has(a, F) /\ First(b, Types, F))
    BY <1>3, <1>4, JoinFirst
  <2> QED BY <2>1, <2>2, <2>3, <2>4
<1>10. ASSUME First(a \o b, Types, F) PROVE p \in negotiating[t]
  <2>1. ~ Has(a, F) /\ p = "MTTS" /\ t = "remote"
    BY <1>3, <1>4, <1>5, <1>7, <1>8, <1>9, <1>10
  <2> QED BY <1>4, <2>1 DEF F
<1>11. \A s \in Sides : \A o : Has(a \o b, OfferOf(s, o)) <=>
          s = t /\ o = p /\ p \notin negotiating[t]
  BY <1>3, <1>4, <1>9 DEF NoOffers
<1>12. Has(a \o b, Types) <=> p = "MTTS"
  BY <1>3, <1>4, <1>9
<1> QED BY <1>2, <1>9, <1>10, <1>11, <1>12 DEF p, F

LEMMA UnsupportedSays ==
  ASSUME TypeOK, NEW m, NEW t \in Sides, ReceiveUnsupported(m, t)
  PROVE  \E ms \in Seq(Raw) : Put(ms) /\ NoOffers(ms) /\ ~ Has(ms, Types)
<1> DEFINE kind == IF m.option \in Options THEN "DONT" ELSE Cancel[t]
           x == Negotiate(kind, m.option)
<1>1. m.option \in Codes
  BY HandledTyped, MessageFields DEF ReceiveUnsupported
<1>2. kind \in {"WONT", "DONT"}
  BY DEF Cancel, Sides
<1>3. x \in Raw /\ x.kind = kind
  <2> HIDE DEF kind
  <2> QED BY <1>1, <1>2, NegotiateRaw DEF Negotiate
<1>4. Put(<<x>>)
  BY DEF ReceiveUnsupported
<1> HIDE DEF x, kind
<1>5. <<x>> \in Seq(Raw)
  BY <1>3
<1>6. \A P : Has(<<x>>, P) <=> x \in P
  BY Single
<1>7. ASSUME NEW s \in Sides, NEW o PROVE x \notin OfferOf(s, o)
  <2>1. Offer[s] \in {"WILL", "DO"}
    BY DEF Sides, Offer
  <2> QED BY <1>2, <1>3, <2>1, KindOf
<1>8. x \notin Types
  BY <1>2, <1>3, KindOf
<1> QED BY <1>4, <1>5, <1>6, <1>7, <1>8 DEF NoOffers

LEMMA TextSays ==
  ASSUME TypeOK, SendText
  PROVE  \E ms \in Seq(Raw) : Put(ms) /\ NoOffers(ms) /\ ~ Has(ms, Types)
<1>1. Text \in Raw /\ Text.kind = "TEXT" /\ Put(<<Text>>)
  BY Scenario, TextRaw DEF SendText, Text
<1>2. <<Text>> \in Seq(Raw)
  BY <1>1
<1>3. \A P : Has(<<Text>>, P) <=> Text \in P
  BY Single
<1>4. ASSUME NEW s \in Sides, NEW o PROVE Text \notin OfferOf(s, o)
  BY <1>1, KindOf, Distinct
<1>5. Text \notin Types
  BY <1>1, KindOf
<1> QED BY <1>1, <1>2, <1>3, <1>4, <1>5 DEF NoOffers

\* The terminal type in m is followed by another request.
AsksMore(m) == m.data # last_received /\ number_requests \in 1 .. 2

LEMMA TerminalSays ==
  ASSUME TypeOK, NEW m, ReceiveTerminal(m)
  PROVE  IF AsksMore(m)
           THEN \E ms \in Seq(Raw) : /\ Put(ms) /\ NoOffers(ms) /\ Has(ms, Types)
                                     /\ Once(ms, Types)
           ELSE UNCHANGED outVars
<1> DEFINE x == Subnegotiate("MTTS", "")
<1>1. "MTTS" \in Codes
  <2>1. Handle(m) /\ m.option = "MTTS"
    BY DEF ReceiveTerminal
  <2> QED BY <2>1, HandledTyped, MessageFields
<1>2. x \in Raw /\ x.kind = "SB" /\ x.option = "MTTS"
  BY <1>1, SubnegotiateRaw DEF Data, Subnegotiate
<1>3. IF AsksMore(m) THEN Put(<<x>>) ELSE UNCHANGED outVars
  BY DEF ReceiveTerminal, AsksMore
<1> HIDE DEF x
<1>4. <<x>> \in Seq(Raw) /\ NoOffers(<<x>>) /\ Has(<<x>>, Types)
  BY <1>2, SingleType
<1>5. Once(<<x>>, Types)
  BY Single
<1> QED BY <1>3, <1>4, <1>5

-------------------------------------------------------------------------------
(* How many there are *)

Places(q, P) == {i \in 1 .. Len(q) : q[i] \in P}
Count(q, P) == Cardinality(Places(q, P))

LEMMA CountType ==
  ASSUME NEW S, NEW q \in Seq(S), NEW P
  PROVE  IsFiniteSet(Places(q, P)) /\ Count(q, P) \in Nat
<1>1. Places(q, P) \in SUBSET (1 .. Len(q)) /\ 1 \in Int /\ Len(q) \in Int
  BY DEF Places
<1>2. IsFiniteSet(1 .. Len(q))
  BY <1>1, FS_Interval
<1> QED BY <1>1, <1>2, FS_Subset, FS_CardinalityType DEF Count

LEMMA CountShifted ==
  ASSUME NEW n \in Nat, NEW A \in SUBSET Nat, IsFiniteSet(A)
  PROVE  /\ IsFiniteSet({n + i : i \in A})
         /\ Cardinality({n + i : i \in A}) = Cardinality(A)
<1> DEFINE B == {n + i : i \in A}
           f == [i \in A |-> n + i]
<1>1. f \in [A -> B] /\ \A t \in B : \E i \in A : f[i] = t
  OBVIOUS
<1>2. \A i \in A : \A j \in A : f[i] = f[j] => i = j
  OBVIOUS
<1>3. DOMAIN f = A
  OBVIOUS
<1> HIDE DEF f, B
<1>4. f \in Bijection(A, B)
  BY <1>1, <1>2, <1>3 DEF Bijection, Injection, Surjection, IsInjective
<1>5. ExistsBijection(A, B)
  BY <1>4 DEF ExistsBijection
<1> QED BY <1>5, FS_Bijection DEF B

LEMMA JoinCount ==
  ASSUME NEW S, NEW q \in Seq(S), NEW r \in Seq(S), NEW P
  PROVE  Count(q \o r, P) = Count(q, P) + Count(r, P)
<1> DEFINE t == q \o r
           A == Places(q, P)
           B == Places(r, P)
           C == {Len(q) + i : i \in B}
<1>1. /\ Len(q) \in Nat /\ Len(r) \in Nat
      /\ \A i \in 1 .. Len(q) : i \in 1 .. Len(t) /\ t[i] = q[i]
      /\ \A i \in 1 .. Len(r) : Len(q) + i \in 1 .. Len(t) /\ t[Len(q) + i] = r[i]
      /\ \A i \in 1 .. Len(t) : i \in 1 .. Len(q) \/ (\E k \in 1 .. Len(r) : i = Len(q) + k)
  BY Join
<1> HIDE DEF t
<1>2. Places(t, P) = A \cup C
  <2>1. ASSUME NEW i \in Places(t, P) PROVE i \in A \cup C
    <3>1. i \in 1 .. Len(t) /\ t[i] \in P
      BY DEF Places
    <3>2. CASE i \in 1 .. Len(q)
      BY <1>1, <3>1, <3>2 DEF Places
    <3>3. CASE i \notin 1 .. Len(q)
      <4>1. PICK k \in 1 .. Len(r) : i = Len(q) + k
        BY <1>1, <3>1, <3>3
      <4>2. k \in B
        BY <1>1, <3>1, <4>1 DEF Places
      <4> QED BY <4>1, <4>2
    <3> QED BY <3>2, <3>3
  <2>2. ASSUME NEW i \in A PROVE i \in Places(t, P)
    BY <1>1 DEF Places
  <2>3. ASSUME NEW i \in C PROVE i \in Places(t, P)
    <3>1. PICK k \in B : i = Len(q) + k
      OBVIOUS
    <3> QED BY <1>1, <3>1 DEF Places
  <2> QED BY <2>1, <2>2, <2>3
<1>3. A \cap C = {}
  BY <1>1 DEF Places
<1>4. IsFiniteSet(A) /\ IsFiniteSet(B) /\ B \in SUBSET Nat
  <2>1. B \in SUBSET Nat
    BY DEF Places
  <2> HIDE DEF A, B
  <2>2. IsFiniteSet(Places(q, P)) /\ IsFiniteSet(Places(r, P))
    BY CountType
  <2> QED BY <2>1, <2>2 DEF A, B
<1>5. IsFiniteSet(C) /\ Cardinality(C) = Cardinality(B)
  BY <1>1, <1>4, CountShifted
<1> HIDE DEF A, B, C
<1>6. Cardinality(A \cup C) = Cardinality(A) + Cardinality(C)
  <2>1. Cardinality(A \cap C) = 0
    BY <1>3, FS_EmptySet
  <2>2. Cardinality(A) \in Nat /\ Cardinality(C) \in Nat
    BY <1>4, <1>5, FS_CardinalityType
  <2>3. Cardinality(A \cup C) = Cardinality(A) + Cardinality(C) - Cardinality(A \cap C)
    BY <1>4, <1>5, FS_Union
  <2> QED BY <2>1, <2>2, <2>3
<1> QED BY <1>2, <1>5, <1>6 DEF t, A, B, Count

LEMMA CountFew ==
  ASSUME NEW x, NEW P
  PROVE  Count(<< >>, P) = 0 /\ Count(<<x>>, P) = IF x \in P THEN 1 ELSE 0
<1>1. Places(<< >>, P) = {}
  BY DEF Places
<1> DEFINE q == <<x>>
<1>2. Len(q) = 1 /\ q[1] = x
  OBVIOUS
<1> HIDE DEF q
<1>3. Places(q, P) = IF x \in P THEN {1} ELSE {}
  BY <1>2 DEF Places
<1>4. Cardinality({}) = 0 /\ Cardinality({1}) = 1
  BY FS_EmptySet, FS_Singleton
<1> QED BY <1>1, <1>3, <1>4 DEF Count, q

LEMMA TailCount ==
  ASSUME NEW S, NEW q \in Seq(S), q # << >>, NEW P
  PROVE  Count(q, P) = Count(Tail(q), P) + IF Head(q) \in P THEN 1 ELSE 0
<1> DEFINE h == Head(q)
           s == <<h>>
           t == Tail(q)
<1>1. s \in Seq(S) /\ t \in Seq(S) /\ q = s \o t
  BY HeadTail
<1>2. Count(s, P) = IF h \in P THEN 1 ELSE 0
  BY CountFew
<1> HIDE DEF h, s, t
<1>3. Count(q, P) = Count(s, P) + Count(t, P)
  BY <1>1, JoinCount
<1>4. Count(t, P) \in Nat
  BY <1>1, CountType
<1> QED BY <1>2, <1>3, <1>4 DEF h, t

\* How many lines there are on the way: those that are sent and not received.
Counted == decompressor # "ended" => got + Count(Incoming, Lines) = sent

LEMMA LineOf ==
  ASSUME TypeOK, NEW x \in Raw
  PROVE  x \in Lines <=> x.kind = "TEXT"
<1>1. x = [kind |-> x.kind, option |-> x.option, data |-> x.data]
      /\ x.option \in Codes /\ x.data \in Data
  BY DEF Raw
<1>2. Codes \subseteq AllOptions \cup {Other}
  BY Scenario DEF Codes
<1> QED BY <1>1, <1>2 DEF Lines

-------------------------------------------------------------------------------
(* What a step does to the stream to the server *)

\* The server handles the next message.
Heeds(m) ==
  /\ Incoming # << >> /\ Head(Incoming) = Bare(m) /\ Incoming' = Tail(Incoming)
  /\ Bare(m) \in Raw /\ decompressor' = decompressor

\* The client says x, or nothing.
Tells(x) ==
  /\ x \in Raw /\ decompressor' = decompressor
  /\ Incoming' = IF decompressor = "ended" THEN Incoming ELSE Incoming \o <<x>>
Silent == Incoming' = Incoming /\ decompressor' = decompressor

LEMMA Heeded ==
  ASSUME TypeOK, Input, NEW m, Handle(m), ~ IsBegin(m),
         in_buffer' = Tail(in_buffer), UNCHANGED <<decompressor, to_server, deflating>>
  PROVE  Input' /\ Heeds(m)
BY TailInput, TailEffect DEF Heeds

LEMMA Told ==
  ASSUME TypeOK, Input, NEW x \in Raw, Say(<<x>>),
         deflating' = IF IsBegin(x) THEN "on" ELSE IF IsEnd(x) THEN "ended" ELSE deflating,
         IsBegin(x) => deflating = "before", IsEnd(x) => deflating = "on"
  PROVE  Input' /\ Tells(x)
<1> DEFINE r == <<x>>
<1>1. r \in Seq(Raw) /\ Say(r)
  OBVIOUS
<1>2. Input'
  BY SayInput
<1> HIDE DEF r
<1>3. Incoming' = (IF decompressor = "ended" THEN Incoming ELSE Incoming \o r)
      /\ decompressor' = decompressor
  BY <1>1, SayEffect
<1> QED BY <1>2, <1>3 DEF Tells, r

LEMMA ToldNothing ==
  ASSUME TypeOK, Input, deflating' = deflating,
         Say(<< >>) \/ UNCHANGED <<in_buffer, to_server, decompressor>>
  PROVE  Input' /\ Silent
BY SayNothing, SameInput DEF Silent

LEMMA CountedHeeds ==
  ASSUME TypeOK, Counted, NEW m, Heeds(m), sent' = sent,
         got' = got + IF m.kind = "TEXT" THEN 1 ELSE 0
  PROVE  Counted'
<1> DEFINE c == Count(Incoming, Lines)
           t == Count(Tail(Incoming), Lines)
           k == IF m.kind = "TEXT" THEN 1 ELSE 0
<1>1. Incoming \in Seq(Raw) /\ Incoming # << >> /\ got \in Nat
  BY Typed DEF Heeds, TypeOK
<1>2. Bare(m) \in Raw /\ Bare(m).kind = m.kind
  BY DEF Heeds, Bare
<1>3. c = t + IF Head(Incoming) \in Lines THEN 1 ELSE 0
  BY <1>1, TailCount
<1>4. Head(Incoming) \in Lines <=> m.kind = "TEXT"
  BY <1>2, LineOf DEF Heeds
<1>5. t \in Nat
  <2>1. Tail(Incoming) \in Seq(Raw)
    BY <1>1
  <2> QED BY <2>1, CountType
<1>6. Count(Incoming', Lines) = t
  BY DEF Heeds
<1>7. decompressor # "ended" => got + c = sent
  BY DEF Counted
<1> HIDE DEF c, t
<1>8. decompressor # "ended" => got' + t = sent'
  BY <1>1, <1>3, <1>4, <1>5, <1>7
<1>9. decompressor' = decompressor
  BY DEF Heeds
<1> QED BY <1>6, <1>8, <1>9 DEF Counted, Lines

LEMMA CountedTells ==
  ASSUME TypeOK, Counted, NEW x, Tells(x), got' = got,
         sent' = sent + IF x.kind = "TEXT" THEN 1 ELSE 0
  PROVE  Counted'
<1> DEFINE c == Count(Incoming, Lines)
           r == <<x>>
           k == Count(r, Lines)
<1>1. Incoming \in Seq(Raw) /\ got \in Nat /\ x \in Raw /\ r \in Seq(Raw)
  BY Typed DEF Tells, TypeOK
<1>2. k = IF x.kind = "TEXT" THEN 1 ELSE 0
  BY <1>1, CountFew, LineOf
<1>3. c \in Nat
  BY <1>1, CountType
<1>4. decompressor # "ended" => Incoming' = Incoming \o r
  BY DEF Tells
<1> HIDE DEF r
<1>5. Count(Incoming \o r, Lines) = c + k
  BY <1>1, JoinCount
<1>6. decompressor # "ended" => got + c = sent
  BY DEF Counted
<1>7. decompressor' = decompressor
  BY DEF Tells
<1> HIDE DEF c, k
<1>8. decompressor # "ended" => got' + (c + k) = sent'
  BY <1>1, <1>2, <1>3, <1>6
<1> QED BY <1>4, <1>5, <1>7, <1>8 DEF Counted, Lines

LEMMA CountedSilent ==
  ASSUME Counted, Silent, UNCHANGED <<sent, got>>
  PROVE  Counted'
BY DEF Counted, Silent, Lines

-------------------------------------------------------------------------------
(* What the client does *)

\* It answers an offer, or finds its own request granted.
LEMMA OfferedTells ==
  ASSUME TypeOK, Input, NEW m, NEW t \in Sides, ClientOffered(m, t)
  PROVE  /\ Input' /\ Read(m) /\ m.kind = Offer[t] /\ m.option \notin on[t]
         /\ m.option \in Codes
         /\ \/ /\ m.option \in asked[t] /\ on' = [on EXCEPT ![t] = @ \cup {m.option}]
               /\ Silent
            \/ /\ on' = [on EXCEPT ![t] = @ \cup {m.option}]
               /\ \E x \in Yes(t, m.option) : Tells(x)
            \/ on' = on /\ \E x \in No(t, m.option) : Tells(x)
<1> DEFINE y == Negotiate(Accept[t], m.option)
           n == Negotiate(Reject[t], m.option)
           granted == on' = [on EXCEPT ![t] = @ \cup {m.option}]
<1>1. /\ Read(m) /\ m.kind = Offer[t] /\ m.option \notin on[t] /\ deflating' = deflating
      /\ \/ granted /\ Say(IF m.option \in asked[t] THEN << >> ELSE <<y>>)
         \/ on' = on /\ Say(<<n>>)
  BY DEF ClientOffered
<1>2. m.option \in Codes
  BY <1>1, ReadTyped, MessageFields
<1>3. /\ y \in Raw /\ ~ IsBegin(y) /\ ~ IsEnd(y) /\ y \in Yes(t, m.option)
      /\ n \in Raw /\ ~ IsBegin(n) /\ ~ IsEnd(n) /\ n \in No(t, m.option)
  <2>1. Accept[t] \in {"WILL", "WONT", "DO", "DONT"} /\ Reject[t] \in {"WILL", "WONT", "DO", "DONT"}
    BY DEF Accept, Reject, Sides
  <2>2. y \in Raw /\ y.kind = Accept[t] /\ y.option = m.option
    BY <1>2, <2>1, NegotiateRaw DEF Negotiate
  <2>3. n \in Raw /\ n.kind = Reject[t] /\ n.option = m.option
    BY <1>2, <2>1, NegotiateRaw DEF Negotiate
  <2> HIDE DEF y, n
  <2> QED BY <2>1, <2>2, <2>3, KindOf DEF IsBegin, IsEnd
<1> HIDE DEF y, n, granted
<1>4. CASE granted /\ m.option \in asked[t] /\ Say(<< >>)
  <2>1. Input' /\ Silent
    BY <1>1, <1>4, ToldNothing
  <2> QED BY <1>1, <1>2, <1>4, <2>1 DEF granted
<1>5. CASE granted /\ Say(<<y>>)
  <2>1. Input' /\ Tells(y)
    BY <1>1, <1>3, <1>5, Told
  <2> QED BY <1>1, <1>2, <1>3, <1>5, <2>1 DEF granted
<1>6. CASE on' = on /\ Say(<<n>>)
  <2>1. Input' /\ Tells(n)
    BY <1>1, <1>3, <1>6, Told
  <2> QED BY <1>1, <1>2, <1>3, <1>6, <2>1
<1> QED BY <1>1, <1>4, <1>5, <1>6

\* It asks for an option, or takes one back.
LEMMA AsksTells ==
  ASSUME TypeOK, Input, NEW t \in Sides, NEW p \in Codes, ClientAsks(t, p)
  PROVE  Input' /\ \E x \in Yes(t, p) : Tells(x)
<1> DEFINE y == Negotiate(Accept[t], p)
<1>1. Say(<<y>>) /\ deflating' = deflating
  BY DEF ClientAsks
<1>2. y \in Raw /\ ~ IsBegin(y) /\ ~ IsEnd(y) /\ y \in Yes(t, p)
  <2>1. Accept[t] \in {"WILL", "WONT", "DO", "DONT"}
    BY DEF Accept, Sides
  <2>2. y \in Raw /\ y.kind = Accept[t] /\ y.option = p
    BY <2>1, NegotiateRaw DEF Negotiate
  <2> HIDE DEF y
  <2> QED BY <2>1, <2>2, KindOf DEF IsBegin, IsEnd
<1> HIDE DEF y
<1>3. Input' /\ Tells(y)
  BY <1>1, <1>2, Told
<1> QED BY <1>2, <1>3

LEMMA StopsTells ==
  ASSUME TypeOK, Input, NEW t \in Sides, NEW p \in Codes, ClientStops(t, p)
  PROVE  Input' /\ \E x \in No(t, p) : Tells(x)
<1> DEFINE n == Negotiate(Reject[t], p)
<1>1. Say(<<n>>) /\ deflating' = deflating
  BY DEF ClientStops
<1>2. n \in Raw /\ ~ IsBegin(n) /\ ~ IsEnd(n) /\ n \in No(t, p)
  <2>1. Reject[t] \in {"WILL", "WONT", "DO", "DONT"}
    BY DEF Reject, Sides
  <2>2. n \in Raw /\ n.kind = Reject[t] /\ n.option = p
    BY <2>1, NegotiateRaw DEF Negotiate
  <2> HIDE DEF n
  <2> QED BY <2>1, <2>2, KindOf DEF IsBegin, IsEnd
<1> HIDE DEF n
<1>3. Input' /\ Tells(n)
  BY <1>1, <1>2, Told
<1> QED BY <1>2, <1>3

\* It tells its terminal when it is asked and does that option; asked for anything
\* else it says nothing of the terminal.
LEMMA AskedTells ==
  ASSUME TypeOK, Input, NEW m, ClientAsked(m)
  PROVE  /\ Input' /\ Read(m) /\ m.kind = "SB"
         /\ \/ /\ m.option = "MTTS" /\ "MTTS" \in on["remote"] /\ terminal' = terminal + 1
               /\ \E x \in Types : /\ Tells(x)
                                   /\ x.data \in {Terminal[IF terminal < 3 THEN terminal + 1
                                                             ELSE 3], last_received}
            \/ /\ m.option = "MTTS" /\ "MTTS" \notin on["remote"] /\ terminal' = terminal
               /\ Silent
            \/ /\ m.option # "MTTS" /\ terminal' = terminal
               /\ Silent \/ \E x \in Raw : x.kind = "SB" /\ x \notin Types /\ Tells(x)
<1>1. Read(m) /\ m.kind = "SB" /\ deflating' = deflating
  BY DEF ClientAsked
<1>2. m.option \in Codes
  BY <1>1, ReadTyped, MessageFields
<1> DEFINE d == Terminal[IF terminal < 3 THEN terminal + 1 ELSE 3]
<1>3. ASSUME m.option = "MTTS", "MTTS" \in on["remote"], terminal' = terminal + 1,
             NEW answer \in {d, last_received}, Say(<<Subnegotiate("MTTS", answer)>>)
      PROVE  Input' /\ \E x \in Types : Tells(x) /\ x.data \in {d, last_received}
  <2> DEFINE y == Subnegotiate("MTTS", answer)
  <2>1. answer \in Data
    <3>1. (IF terminal < 3 THEN terminal + 1 ELSE 3) \in 1 .. 3
      BY DEF TypeOK
    <3> QED BY <3>1, TerminalData, NothingData
  <2> HIDE DEF d
  <2>2. y \in Raw /\ y.kind = "SB" /\ y.option = "MTTS" /\ y.data = answer
    BY <1>2, <1>3, <2>1, SubnegotiateRaw DEF Subnegotiate
  <2>6. Say(<<y>>)
    BY <1>3
  <2> HIDE DEF y
  <2>3. y \in Types /\ ~ IsBegin(y) /\ ~ IsEnd(y)
    BY <2>2, KindOf DEF IsBegin, IsEnd
  <2>4. Input' /\ Tells(y)
    BY <1>1, <2>2, <2>3, <2>6, Told
  <2> QED BY <2>2, <2>3, <2>4
<1>4. CASE /\ m.option = "MTTS" /\ "MTTS" \notin on["remote"]
           /\ UNCHANGED <<inVars, terminal, inflating>>
  <2>1. Input' /\ Silent
    BY <1>1, <1>4, ToldNothing DEF inVars
  <2> QED BY <1>1, <1>4, <2>1
<1>5. ASSUME NEW answer \in {"accepted", "rejected"}, m.option = "CHARSET",
             Say(<<Subnegotiate("CHARSET", answer)>>), terminal' = terminal
      PROVE  /\ Input' /\ m.option # "MTTS"
             /\ \E x \in Raw : x.kind = "SB" /\ x \notin Types /\ Tells(x)
  <2> DEFINE x == Subnegotiate("CHARSET", answer)
  <2>1. x \in Raw /\ x.kind = "SB" /\ x.option = "CHARSET"
    BY <1>2, <1>5, SubnegotiateRaw DEF Subnegotiate, Data
  <2>2. Say(<<x>>)
    BY <1>5
  <2> HIDE DEF x
  <2>3. x \notin Types /\ ~ IsBegin(x) /\ ~ IsEnd(x)
    BY <2>1, KindOf DEF IsBegin, IsEnd
  <2>4. Input' /\ Tells(x)
    BY <1>1, <2>1, <2>2, <2>3, Told
  <2> QED BY <1>5, <2>1, <2>3, <2>4
<1>6. CASE m.option = "MCCP2" /\ UNCHANGED <<inVars, terminal>>
  <2>1. Input' /\ Silent
    BY <1>1, <1>6, ToldNothing DEF inVars
  <2> QED BY <1>1, <1>6, <2>1
<1>7. \/ /\ m.option = "MTTS" /\ "MTTS" \in on["remote"] /\ terminal' = terminal + 1
         /\ \E answer \in {d, last_received} : Say(<<Subnegotiate("MTTS", answer)>>)
      \/ /\ m.option = "MTTS" /\ "MTTS" \notin on["remote"]
         /\ UNCHANGED <<inVars, terminal, inflating>>
      \/ /\ m.option = "CHARSET" /\ terminal' = terminal
         /\ \E answer \in {"accepted", "rejected"} : Say(<<Subnegotiate("CHARSET", answer)>>)
      \/ m.option = "MCCP2" /\ UNCHANGED <<inVars, terminal>>
  BY DEF ClientAsked
<1>9. CASE /\ m.option = "MTTS" /\ "MTTS" \in on["remote"] /\ terminal' = terminal + 1
           /\ \E answer \in {d, last_received} : Say(<<Subnegotiate("MTTS", answer)>>)
  <2>1. PICK answer \in {d, last_received} : Say(<<Subnegotiate("MTTS", answer)>>)
    BY <1>9
  <2>2. Input' /\ \E x \in Types : Tells(x) /\ x.data \in {d, last_received}
    <3> HIDE DEF d
    <3> QED BY <1>3, <1>9, <2>1
  <2> QED BY <1>1, <1>9, <2>2
<1> HIDE DEF d
<1>8. CASE /\ m.option = "CHARSET" /\ terminal' = terminal
           /\ \E answer \in {"accepted", "rejected"} : Say(<<Subnegotiate("CHARSET", answer)>>)
  BY <1>1, <1>5, <1>8
<1> QED BY <1>4, <1>6, <1>7, <1>8, <1>9

\* It begins to compress, ends it, sends a line.
LEMMA FreeTells ==
  ASSUME TypeOK, Input, ClientCompresses \/ ClientStopsCompressing \/ ClientSendsLine
  PROVE  /\ Input'
         /\ \E x : /\ Tells(x) /\ x.kind \in {"SB", "TEXT", "END"} /\ x \notin Types
                   /\ sent' = sent + IF x.kind = "TEXT" THEN 1 ELSE 0
<1>1. CASE ClientCompresses
  <2> DEFINE x == Subnegotiate("MCCP3", "")
  <2>1. Say(<<x>>) /\ deflating = "before" /\ deflating' = "on" /\ sent' = sent
    BY <1>1 DEF ClientCompresses
  <2>2. "MCCP3" \in Codes
    BY <1>1 DEF ClientCompresses, TypeOK, Sides
  <2>3. x \in Raw /\ x.kind = "SB" /\ x.option = "MCCP3"
    BY <2>2, SubnegotiateRaw DEF Subnegotiate, Data
  <2> HIDE DEF x
  <2>4. IsBegin(x) /\ ~ IsEnd(x) /\ x \notin Types
    BY <2>3, KindOf DEF IsBegin, IsEnd
  <2>5. Input' /\ Tells(x)
    BY <2>1, <2>3, <2>4, Told
  <2>6. sent' = sent + 0
    BY <2>1 DEF TypeOK
  <2> QED BY <2>3, <2>4, <2>5, <2>6
<1>2. CASE ClientStopsCompressing
  <2>1. Say(<<End>>) /\ deflating = "on" /\ deflating' = "ended" /\ sent' = sent
    BY <1>2 DEF ClientStopsCompressing
  <2>2. End \in Raw /\ End.kind = "END"
    BY Scenario, TextRaw DEF End
  <2>3. ~ IsBegin(End) /\ IsEnd(End) /\ End \notin Types
    BY <2>2, KindOf DEF IsBegin, IsEnd
  <2>4. Input' /\ Tells(End)
    BY <2>1, <2>2, <2>3, Told
  <2>5. sent' = sent + 0
    BY <2>1 DEF TypeOK
  <2> QED BY <2>2, <2>3, <2>4, <2>5
<1>3. CASE ClientSendsLine
  <2>1. Say(<<Text>>) /\ deflating' = deflating /\ sent' = sent + 1
    BY <1>3 DEF ClientSendsLine
  <2>2. Text \in Raw /\ Text.kind = "TEXT"
    BY Scenario, TextRaw DEF Text
  <2>3. ~ IsBegin(Text) /\ ~ IsEnd(Text) /\ Text \notin Types
    BY <2>2, KindOf DEF IsBegin, IsEnd
  <2>4. Input' /\ Tells(Text)
    BY <2>1, <2>2, <2>3, Told
  <2> QED BY <2>1, <2>2, <2>3, <2>4
<1> QED BY <1>1, <1>2, <1>3

\* What the server does with the next message, but for the one that begins a
\* compression.
Handling(m) ==
  \/ \E s \in Sides : ReceiveYes(m, s) \/ ReceiveYesAgain(m, s)
                        \/ ReceiveUnsupported(m, s) \/ ReceiveNo(m, s)
  \/ ReceiveCharset(m) \/ ReceiveTerminal(m) \/ ReceiveText(m)

LEMMA HandlingHeeds ==
  ASSUME TypeOK, Input, NEW m, Handling(m)
  PROVE  /\ Input' /\ Heeds(m) /\ sent' = sent
         /\ got' = got + IF m.kind = "TEXT" THEN 1 ELSE 0
<1>1. /\ Handle(m) /\ ~ IsBegin(m) /\ sent' = sent
      /\ in_buffer' = Tail(in_buffer) /\ UNCHANGED <<decompressor, to_server, deflating>>
      /\ got' = got + IF m.kind = "TEXT" THEN 1 ELSE 0
  <2>1. CASE ReceiveText(m)
    BY <2>1 DEF ReceiveText, clientVars, IsBegin
  <2>2. CASE \/ \E s \in Sides : ReceiveYes(m, s) \/ ReceiveYesAgain(m, s)
                                   \/ ReceiveUnsupported(m, s) \/ ReceiveNo(m, s)
             \/ ReceiveCharset(m) \/ ReceiveTerminal(m)
    <3>1. /\ Handle(m) /\ Consume /\ UNCHANGED clientVars
          /\ m.kind # "TEXT" /\ ~ IsBegin(m)
      <4>1. CASE \E s \in Sides : ReceiveYes(m, s) \/ ReceiveYesAgain(m, s)
                                   \/ ReceiveUnsupported(m, s) \/ ReceiveNo(m, s)
        BY <4>1, Distinct DEF ReceiveYes, ReceiveYesAgain, ReceiveUnsupported, ReceiveNo,
           IsBegin
      <4>2. CASE ReceiveCharset(m) \/ ReceiveTerminal(m)
        BY <4>2 DEF ReceiveCharset, ReceiveTerminal, IsBegin
      <4> QED BY <2>2, <4>1, <4>2
    <3>2. got \in Nat
      BY DEF TypeOK
    <3> QED BY <3>1, <3>2 DEF Consume, clientVars
  <2> QED BY <2>1, <2>2 DEF Handling
<1> QED BY <1>1, Heeded

\* What touches neither the stream to the server nor the lines.
Apart ==
  \/ Start \/ Settle \/ SendText
  \/ \E m : \/ \E s \in Sides : ClientOfferedAgain(m, s) \/ ClientRefused(m, s)
            \/ ClientSeesText(m)
  \/ UNCHANGED vars

LEMMA ApartSilent ==
  ASSUME TypeOK, Input, Apart
  PROVE  Input' /\ Silent /\ UNCHANGED <<sent, got>>
<1>1. UNCHANGED <<in_buffer, to_server, decompressor, deflating, sent, got>>
  <2>1. CASE Start \/ Settle \/ SendText
    BY <2>1 DEF Start, Settle, SendText, inVars, clientVars
  <2>2. CASE \E m : \/ \E s \in Sides : ClientOfferedAgain(m, s) \/ ClientRefused(m, s)
                    \/ ClientSeesText(m)
    BY <2>2 DEF ClientOfferedAgain, ClientRefused, ClientSeesText, inVars, clientVars
  <2>3. CASE UNCHANGED vars
    BY <2>3 DEF vars, inVars, clientVars
  <2> QED BY <2>1, <2>2, <2>3 DEF Apart
<1> QED BY <1>1, ToldNothing

\* Every step is one of these.
LEMMA Steps ==
  ASSUME [Next]_vars
  PROVE  \/ \E m : Handling(m) \/ ReceiveCompression(m) \/ ClientAsked(m)
                    \/ \E s \in Sides : ClientOffered(m, s)
         \/ \E n \in 1 .. Len(to_server) : Receive(n)
         \/ \E s \in Sides, o \in Codes : ClientAsks(s, o) \/ ClientStops(s, o)
         \/ ClientCompresses \/ ClientStopsCompressing \/ ClientSendsLine
         \/ Apart
<1>1. CASE Server
  BY <1>1, Zenon DEF Server, Handling, Apart
<1>2. CASE Client
  BY <1>2, Zenon DEF Client, Apart
<1> QED BY <1>1, <1>2 DEF Next, Apart

LEMMA InputNext ==
  ASSUME TypeOK, Input, Counted, [Next]_vars
  PROVE  Input' /\ Counted'
<1>1. ASSUME NEW m, Handling(m) PROVE Input' /\ Counted'
  BY <1>1, HandlingHeeds, CountedHeeds
<1>2. ASSUME NEW m, ReceiveCompression(m) PROVE Input' /\ Counted'
  <2>1. /\ Input' /\ Bare(m) \in Raw /\ Incoming # << >> /\ Head(Incoming) = Bare(m)
        /\ decompressor' # "ended" => decompressor # "ended" /\ Incoming' = Tail(Incoming)
    BY <1>2, CompressionInput
  <2>2. m.kind # "TEXT" /\ sent' = sent /\ got' = got
    BY <1>2 DEF ReceiveCompression, clientVars
  <2>3. Incoming \in Seq(Raw) /\ got \in Nat
    BY Typed DEF TypeOK
  <2>4. Count(Incoming, Lines) = Count(Tail(Incoming), Lines)
    <3>1. Head(Incoming) \notin Lines
      BY <2>1, <2>2, LineOf DEF Bare
    <3>2. Count(Incoming, Lines) = Count(Tail(Incoming), Lines) + 0
      BY <2>1, <2>3, <3>1, TailCount
    <3>3. Count(Tail(Incoming), Lines) \in Nat
      <4>1. Tail(Incoming) \in Seq(Raw)
        BY <2>1, <2>3
      <4> QED BY <4>1, CountType
    <3> QED BY <3>2, <3>3
  <2> QED BY <2>1, <2>2, <2>4 DEF Counted, Lines
<1>3. ASSUME NEW n \in 1 .. Len(to_server), Receive(n) PROVE Input' /\ Counted'
  <2>1. /\ Input'
        /\ decompressor' # "ended" => decompressor # "ended" /\ Incoming' = Incoming
    BY <1>3, ReceiveInput
  <2>2. sent' = sent /\ got' = got
    BY <1>3 DEF Receive, clientVars
  <2> QED BY <2>1, <2>2 DEF Counted, Lines
<1>4. ASSUME NEW m, NEW s \in Sides, ClientOffered(m, s) PROVE Input' /\ Counted'
  <2>1. UNCHANGED <<sent, got>>
    BY <1>4 DEF ClientOffered, Say
  <2>2. /\ Input'
        /\ \/ Silent
           \/ \E x : Tells(x) /\ x.kind \in {Accept[s], Reject[s]}
    BY <1>4, OfferedTells DEF Yes, No
  <2>3. CASE Silent
    BY <2>1, <2>2, <2>3, CountedSilent
  <2>4. ASSUME NEW x, Tells(x), x.kind \in {Accept[s], Reject[s]} PROVE Counted'
    <3>1. x.kind # "TEXT" /\ sent' = sent + 0
      BY <2>1, <2>4, Distinct DEF TypeOK
    <3> QED BY <2>1, <2>4, <3>1, CountedTells
  <2> QED BY <2>2, <2>3, <2>4
<1>5. ASSUME NEW s \in Sides, NEW o \in Codes, ClientAsks(s, o) \/ ClientStops(s, o)
      PROVE  Input' /\ Counted'
  <2>1. UNCHANGED <<sent, got>>
    BY <1>5 DEF ClientAsks, ClientStops, Say
  <2>2. Input' /\ \E x : Tells(x) /\ x.kind \in {Accept[s], Reject[s]}
    BY <1>5, AsksTells, StopsTells DEF Yes, No
  <2>3. PICK x : Tells(x) /\ x.kind \in {Accept[s], Reject[s]}
    BY <2>2
  <2>4. x.kind # "TEXT" /\ sent' = sent + 0
    BY <2>1, <2>3, Distinct DEF TypeOK
  <2> QED BY <2>1, <2>2, <2>3, <2>4, CountedTells
<1>6. ASSUME NEW m, ClientAsked(m) PROVE Input' /\ Counted'
  <2>1. UNCHANGED <<sent, got>>
    BY <1>6 DEF ClientAsked, Say, inVars
  <2>2. Input' /\ (Silent \/ \E x : Tells(x) /\ x.kind = "SB")
    BY <1>6, AskedTells DEF Types
  <2>3. CASE Silent
    BY <2>1, <2>2, <2>3, CountedSilent
  <2>4. ASSUME NEW x, Tells(x), x.kind = "SB" PROVE Counted'
    <3>1. x.kind # "TEXT" /\ sent' = sent + 0
      BY <2>1, <2>4 DEF TypeOK
    <3> QED BY <2>1, <2>4, <3>1, CountedTells
  <2> QED BY <2>2, <2>3, <2>4
<1>7. ASSUME ClientCompresses \/ ClientStopsCompressing \/ ClientSendsLine
      PROVE  Input' /\ Counted'
  <2>1. got' = got
    BY <1>7 DEF ClientCompresses, ClientStopsCompressing, ClientSendsLine, Say
  <2>2. Input'
    BY <1>7, FreeTells
  <2>3. PICK x : Tells(x) /\ sent' = sent + IF x.kind = "TEXT" THEN 1 ELSE 0
    BY <1>7, FreeTells
  <2> QED BY <2>1, <2>2, <2>3, CountedTells
<1>8. CASE Apart
  BY <1>8, ApartSilent, CountedSilent
<1> QED BY <1>1, <1>2, <1>3, <1>4, <1>5, <1>6, <1>7, <1>8, Steps

LEMMA InputInit == Init => Input /\ Counted
<1> SUFFICES ASSUME Init PROVE Input /\ Counted
  OBVIOUS
<1>1. /\ in_buffer = << >> /\ to_server = << >> /\ decompressor = "off"
      /\ deflating = "before" /\ sent = 0 /\ got = 0
  BY DEF Init
<1>2. in_buffer \o to_server = << >>
  BY <1>1
<1>3. Input
  BY <1>1, <1>2 DEF Input, Marked, Begun, Over
<1>4. Incoming = << >>
  BY <1>1, <1>2 DEF Incoming, Heard, BareOf
<1>5. Count(Incoming, Lines) = 0
  BY <1>4, CountFew
<1> QED BY <1>1, <1>3, <1>5 DEF Counted

LEMMA Readable ==
  ASSUME TypeOK, Input, Counted
  PROVE  InputReadable
<1>1. in_buffer \in Seq(Messages) /\ to_server \in Seq(Messages)
      /\ decompressor \in {"off", "on", "ended"}
  BY Typed
<1>2. ASSUME in_buffer # << >> PROVE ~ Head(in_buffer).z
  <2>1. CASE decompressor = "off"
    <3> DEFINE q == in_buffer \o to_server
    <3>1. q # << >> /\ Head(q) = Head(in_buffer) /\ q \in Seq(Messages)
      BY <1>1, <1>2, JoinTail
    <3>2. Marked(q)
      BY <2>1 DEF Input
    <3> HIDE DEF q
    <3>3. 1 \in 1 .. Len(q) /\ Head(q) = q[1] /\ \A j \in 1 .. Len(q) : ~ j < 1
      BY <3>1
    <3> QED BY <3>1, <3>2, <3>3 DEF Marked
  <2>2. CASE decompressor # "off"
    <3>1. 1 \in 1 .. Len(in_buffer) /\ Head(in_buffer) = in_buffer[1]
      BY <1>1, <1>2
    <3> QED BY <2>2, <3>1 DEF Input
  <2> QED BY <2>1, <2>2
<1>3. ASSUME Quiet PROVE got = sent
  <2>1. in_buffer = << >> /\ to_server = << >> /\ decompressor # "ended"
    BY <1>3 DEF Quiet
  <2>2. Incoming = << >>
    BY <2>1 DEF Incoming, Heard, BareOf
  <2>3. Count(Incoming, Lines) = 0
    BY <2>2, CountFew
  <2> QED BY <2>1, <2>3 DEF Counted, TypeOK
<1> QED BY <1>2, <1>3 DEF InputReadable

-------------------------------------------------------------------------------
(* Steps that say nothing of an option *)

\* For what is agreed, the queues q and r are the same.
Alike(q, r, Y, N) ==
  /\ Has(r, Y) <=> Has(q, Y)
  /\ Has(r, N) <=> Has(q, N)
  /\ Before(r, N, Y) <=> Before(q, N, Y)
  /\ Last(r, Y, N) <=> Last(q, Y, N)

\* What r says of the terminal, q says.
Fewer(q, r) ==
  /\ \A P \in SUBSET Types : Has(r, P) => Has(q, P)
  /\ Once(q, Types) => Once(r, Types)

\* The offers in d and e are the same, and what is asked of the terminal.
AskAlike(d, e) ==
  /\ Has(e, Types) <=> Has(d, Types)
  /\ Once(d, Types) => Once(e, Types)
  /\ First(e, Types, OfferOf("remote", "MTTS")) => First(d, Types, OfferOf("remote", "MTTS"))
OutAlike(d, e) ==
  /\ \A s \in Sides : \A o : Has(e, OfferOf(s, o)) <=> Has(d, OfferOf(s, o))
  /\ AskAlike(d, e)

LEMMA AlikeSaid ==
  ASSUME NEW S, NEW q \in Seq(S), NEW x \in S, NEW Y, NEW N, x \notin Y, x \notin N
  PROVE  Alike(q, q \o <<x>>, Y, N)
<1> DEFINE r == <<x>>
<1>1. r \in Seq(S)
  OBVIOUS
<1>2. ~ Has(r, Y) /\ ~ Has(r, N) /\ ~ Before(r, N, Y) /\ ~ Last(r, Y, N)
  BY Single
<1> HIDE DEF r
<1>3. Alike(q, q \o r, Y, N)
  BY <1>1, <1>2, JoinHas, JoinBefore, JoinLast DEF Alike
<1> QED BY <1>3 DEF r

LEMMA AlikeTail ==
  ASSUME NEW S, NEW q \in Seq(S), q # << >>, NEW Y, NEW N, Head(q) \notin Y, Head(q) \notin N
  PROVE  Alike(q, Tail(q), Y, N)
BY TailFacts DEF Alike

LEMMA AgreesAlike ==
  ASSUME NEW s \in Sides, NEW o, NEW q, NEW r,
         NEW en, NEW ne, NEW cn, NEW ca, NEW d, NEW ca2, NEW d2,
         Agrees(en, ne, cn, ca, d, q, s, o),
         Has(d, OfferOf(s, o)) => Has(d2, OfferOf(s, o)), o \in ca2 => o \in ca,
         Alike(q, r, Yes(s, o), No(s, o))
  PROVE  Agrees(en, ne, cn, ca2, d2, r, s, o)
BY DEF Agrees, Will, WillOffer, Alike

LEMMA FewerSaid ==
  ASSUME NEW S, NEW q \in Seq(S), NEW x \in S, x \notin Types
  PROVE  Fewer(q, q \o <<x>>) /\ (Has(q \o <<x>>, Types) <=> Has(q, Types))
<1> DEFINE r == <<x>>
<1>1. r \in Seq(S)
  OBVIOUS
<1>2. ~ Has(r, Types) /\ Once(r, Types) /\ \A P \in SUBSET Types : ~ Has(r, P)
  BY Single
<1> HIDE DEF r
<1>3. Fewer(q, q \o r) /\ (Has(q \o r, Types) <=> Has(q, Types))
  BY <1>1, <1>2, JoinHas, JoinOnce DEF Fewer
<1> QED BY <1>3 DEF r

LEMMA FewerTail ==
  ASSUME NEW S, NEW q \in Seq(S), q # << >>
  PROVE  Fewer(q, Tail(q)) /\ (Head(q) \notin Types => (Has(Tail(q), Types) <=> Has(q, Types)))
BY TailFacts DEF Fewer

LEMMA FewerPrefix ==
  ASSUME NEW S, NEW q \in Seq(S), NEW n \in 0 .. Len(q)
  PROVE  Fewer(q, SubSeq(q, 1, n))
BY PrefixFacts DEF Fewer

LEMMA FewerTailPrefix ==
  ASSUME NEW S, NEW q \in Seq(S), q # << >>, NEW n \in 0 .. Len(Tail(q))
  PROVE  Fewer(q, SubSeq(Tail(q), 1, n))
<1>1. Tail(q) \in Seq(S)
  OBVIOUS
<1>2. Fewer(q, Tail(q)) /\ Fewer(Tail(q), SubSeq(Tail(q), 1, n))
  BY <1>1, FewerTail, FewerPrefix
<1> QED BY <1>2 DEF Fewer

LEMMA OutSaid ==
  ASSUME NEW S, NEW d \in Seq(S), NEW ms \in Seq(S), ~ Has(ms, Types)
  PROVE  /\ AskAlike(d, d \o ms)
         /\ NoOffers(ms) => OutAlike(d, d \o ms)
         /\ \A P : Has(d \o ms, P) <=> Has(d, P) \/ Has(ms, P)
<1> DEFINE F == OfferOf("remote", "MTTS")
<1>1. \A P : Has(d \o ms, P) <=> Has(d, P) \/ Has(ms, P)
  BY JoinHas
<1>2. Once(ms, Types) /\ ~ First(ms, Types, F)
  BY DEF Has, Once, First
<1>3. Once(d \o ms, Types) <=> Once(d, Types)
  BY <1>2, JoinOnce
<1> HIDE DEF F
<1>4. First(d \o ms, Types, F) => First(d, Types, F)
  BY <1>2, JoinFirst
<1>5. AskAlike(d, d \o ms)
  BY <1>1, <1>3, <1>4 DEF AskAlike, F
<1> QED BY <1>1, <1>5 DEF NoOffers, OutAlike

LEMMA OutRead ==
  ASSUME NEW S, NEW d \in Seq(S), d # << >>, Head(d) \notin Types,
         \A s \in Sides : \A o : Head(d) \notin OfferOf(s, o)
  PROVE  OutAlike(d, Tail(d))
<1> DEFINE F == OfferOf("remote", "MTTS")
<1>1. \A P : Has(d, P) <=> Head(d) \in P \/ Has(Tail(d), P)
  BY TailFacts
<1>2. Once(d, Types) => Once(Tail(d), Types)
  BY TailFacts
<1>3. Head(d) \notin F
  BY DEF Sides
<1> HIDE DEF F
<1>4. First(Tail(d), Types, F) => First(d, Types, F)
  BY <1>3, TailFacts
<1> QED BY <1>1, <1>2, <1>4 DEF OutAlike, AskAlike, F

-------------------------------------------------------------------------------
(* The invariant *)

Agreement ==
  decompressor # "ended" =>
    \A s \in Sides : \A o \in Options \cap Support[s] :
      Agrees(enabled[s], negotiating[s], on[s], asked[s], Outgoing, Incoming, s, o)

\* What is not supported is never offered and never enabled.
Unsupported ==
  \A s \in Sides : \A o :
    o \notin Options \cap Support[s] =>
      ~ Has(Outgoing, OfferOf(s, o)) /\ o \notin on[s] /\ o \notin enabled[s]

\* An option that start() waits for is being negotiated; one that is enabled is
\* waited for only if it has yet to be talked about.
Settling ==
  \A s \in Sides : \A o \in Options \cap Support[s] :
    /\ o \in enabled[s] /\ o \notin {"CHARSET", "MTTS"} => o \in negotiation
    /\ phase # "new" /\ o \notin negotiation => o \in negotiating[s]

\* As long as MTTS is enabled only once, there is one request for the terminal or
\* one answer on its way, and the two sides count alike.
Otherwise(n) == {x \in Types : x.data \notin {Terminal[n], last_received}}
Terminals ==
  /\ TerminalUnderstood
  /\ mtts_enables = 0 =>
       /\ number_requests = 0 /\ terminal = 0 /\ "MTTS" \notin enabled["remote"]
       /\ ~ Has(Incoming, Types) /\ ~ Has(Outgoing, Types)
  /\ mtts_enables <= 1 =>
       /\ Once(Incoming, Types) /\ Once(Outgoing, Types)
       /\ ~ (Has(Incoming, Types) /\ Has(Outgoing, Types))
       /\ Has(Outgoing, Types) => number_requests \in 1 .. 3 /\ terminal = number_requests - 1
       /\ Has(Incoming, Types) =>
            /\ number_requests \in 1 .. 3 /\ terminal = number_requests
            /\ ~ Has(Incoming, Otherwise(number_requests))

\* MTTS will not stay enabled as it is now: it will be disabled, or enabled again.
Unsure(en, q) == ~ Will(en, q, "remote", "MTTS") \/ WillEnable(en, q, "remote", "MTTS")

\* A client that is to be asked for its terminal does MTTS, or has an offer of it
\* to read first; and once MTTS is enabled the talk about the terminal goes on
\* until it is over.
Asking ==
  decompressor # "ended" /\ mtts_enables <= 1 =>
    /\ First(Outgoing, Types, OfferOf("remote", "MTTS")) =>
         "MTTS" \in on["remote"] \/ Unsure(enabled["remote"], Incoming)
    /\ mtts_enables = 1 /\ "MTTS" \notin negotiation =>
         \/ Has(Outgoing, Types) \/ Has(Incoming, Types)
         \/ Unsure(enabled["remote"], Incoming)

Negotiated == Agreement /\ Unsupported /\ Settling /\ Terminals /\ Asking

-------------------------------------------------------------------------------
(* Steps beside the negotiation *)

InAlike ==
  \A s \in Sides : \A o \in Options \cap Support[s] :
    Alike(Incoming, Incoming', Yes(s, o), No(s, o))
InAside ==
  /\ Fewer(Incoming, Incoming')
  /\ decompressor' # "ended" => /\ decompressor # "ended" /\ InAlike
                                /\ Has(Incoming', Types) <=> Has(Incoming, Types)

Aside ==
  /\ UNCHANGED <<scenario, enabled, negotiating, number_requests, handled, mtts_enables, on,
                 terminal>>
  /\ negotiation \subseteq negotiation' /\ \A s \in Sides : asked'[s] \subseteq asked[s]
  /\ phase' # "new" => phase # "new"
  /\ OutAlike(Outgoing, Outgoing') /\ InAside

\* Neither a yes nor a no to an option that is supported, nor about the terminal.
Beside(x) ==
  /\ x \notin Types
  /\ \A s \in Sides : \A o \in Options \cap Support[s] : x \notin Yes(s, o) /\ x \notin No(s, o)

LEMMA SilentAside ==
  ASSUME Silent
  PROVE  InAside
BY DEF Silent, InAside, InAlike, Alike, Fewer

LEMMA TellsAside ==
  ASSUME TypeOK, NEW x, Tells(x), Beside(x)
  PROVE  InAside
<1>1. CASE decompressor = "ended"
  BY <1>1 DEF Tells, InAside, Fewer
<1>2. CASE decompressor # "ended"
  <2>1. Incoming \in Seq(Raw) /\ x \in Raw /\ Incoming' = Incoming \o <<x>>
    BY <1>2, Typed DEF Tells
  <2>2. Fewer(Incoming, Incoming') /\ (Has(Incoming', Types) <=> Has(Incoming, Types))
    BY <2>1, FewerSaid DEF Beside
  <2>3. ASSUME NEW s \in Sides, NEW o \in Options \cap Support[s]
        PROVE  Alike(Incoming, Incoming', Yes(s, o), No(s, o))
    BY <2>1, AlikeSaid DEF Beside
  <2> QED BY <1>2, <2>2, <2>3 DEF InAside, InAlike
<1> QED BY <1>1, <1>2

\* The same of a message that the server has handled.
LEMMA DroppedAlike ==
  ASSUME TypeOK, NEW x, Beside(x), Incoming # << >>, Head(Incoming) = x,
         Incoming' = Tail(Incoming)
  PROVE  /\ InAlike /\ Fewer(Incoming, Incoming')
         /\ Has(Incoming', Types) <=> Has(Incoming, Types)
<1>1. Incoming \in Seq(Raw)
  BY Typed
<1>2. Fewer(Incoming, Incoming') /\ (Has(Incoming', Types) <=> Has(Incoming, Types))
  BY <1>1, FewerTail DEF Beside
<1>3. ASSUME NEW s \in Sides, NEW o \in Options \cap Support[s]
      PROVE  Alike(Incoming, Incoming', Yes(s, o), No(s, o))
  BY <1>1, AlikeTail DEF Beside
<1> QED BY <1>2, <1>3 DEF InAlike

LEMMA HeedsAside ==
  ASSUME TypeOK, NEW m, Heeds(m), Beside(Bare(m))
  PROVE  InAside
<1>1. /\ InAlike /\ Fewer(Incoming, Incoming')
      /\ Has(Incoming', Types) <=> Has(Incoming, Types)
  BY DroppedAlike DEF Heeds
<1> QED BY <1>1 DEF InAside, Heeds

LEMMA BesideKind ==
  ASSUME NEW x \in Raw
  PROVE  /\ x.kind \in {"TEXT", "END"} => Beside(x)
         /\ x.kind = "SB" /\ x.option # "MTTS" => Beside(x)
         /\ \A t \in Sides : x.kind = Accept[t] /\ x.option \notin Options \cap Support[t] =>
              Beside(x)
<1>1. ASSUME x.kind \in {"SB", "TEXT", "END"}, NEW s \in Sides, NEW o
      PROVE  x \notin Yes(s, o) /\ x \notin No(s, o)
  BY <1>1, KindOf, Distinct
<1>2. x \in Types <=> x.kind = "SB" /\ x.option = "MTTS"
  BY KindOf
<1>3. ASSUME NEW t \in Sides, x.kind = Accept[t], x.option \notin Options \cap Support[t]
      PROVE  Beside(x)
  <2>1. x \notin Types
    BY <1>2, <1>3, Distinct
  <2>2. ASSUME NEW s \in Sides, NEW o \in Options \cap Support[s]
        PROVE  x \notin Yes(s, o) /\ x \notin No(s, o)
    <3>1. x \in Yes(s, o) => Accept[t] = Accept[s] /\ x.option = o
      BY <1>3, KindOf
    <3>2. x \notin No(s, o)
      BY <1>3, KindOf, Distinct
    <3>3. Accept[t] = Accept[s] => s = t
      BY Distinct
    <3> QED BY <1>3, <3>1, <3>2, <3>3
  <2> QED BY <2>1, <2>2 DEF Beside
<1> QED BY <1>1, <1>2, <1>3 DEF Beside

AsideStep ==
  \/ Settle \/ SendText
  \/ \E n \in 1 .. Len(to_server) : Receive(n)
  \/ \E m : \/ \E s \in Sides : ReceiveUnsupported(m, s) \/ ClientRefused(m, s)
            \/ ReceiveCharset(m) \/ ReceiveText(m) \/ ReceiveCompression(m)
            \/ ClientSeesText(m)
            \/ ClientAsked(m) /\ m.option # "MTTS"
  \/ ClientCompresses \/ ClientStopsCompressing \/ ClientSendsLine
  \/ UNCHANGED vars

\* What such a step does to the server and the client.
LEMMA AsideState ==
  ASSUME TypeOK, AsideStep, UNCHANGED scenario
  PROVE  /\ UNCHANGED <<scenario, enabled, negotiating, number_requests, handled,
                        mtts_enables, on, terminal>>
         /\ negotiation \subseteq negotiation' /\ \A s \in Sides : asked'[s] \subseteq asked[s]
         /\ phase' # "new" => phase # "new"
<1>1. CASE Settle \/ SendText \/ \E n \in 1 .. Len(to_server) : Receive(n)
  BY <1>1 DEF Settle, SendText, Receive, statusVars, optionVars, clientVars
<1>2. CASE \E m : \/ \E s \in Sides : ReceiveUnsupported(m, s)
                  \/ ReceiveCharset(m) \/ ReceiveText(m) \/ ReceiveCompression(m)
                  \/ ClientSeesText(m)
  BY <1>2 DEF ReceiveUnsupported, ReceiveCharset, ReceiveText, ReceiveCompression,
     ClientSeesText, statusVars, optionVars, clientVars
<1>3. ASSUME NEW m, NEW t \in Sides, ClientRefused(m, t)
      PROVE  /\ UNCHANGED <<enabled, negotiating, number_requests, handled,
                            mtts_enables, on, terminal, negotiation, phase>>
             /\ \A s \in Sides : asked'[s] \subseteq asked[s]
  BY <1>3 DEF ClientRefused, statusVars, optionVars, TypeOK
<1>4. ASSUME NEW m, ClientAsked(m), m.option # "MTTS"
      PROVE  UNCHANGED <<enabled, negotiating, number_requests, handled,
                         mtts_enables, on, terminal, negotiation, phase, asked>>
  BY <1>4 DEF ClientAsked, statusVars, optionVars
<1>5. CASE ClientCompresses \/ ClientStopsCompressing \/ ClientSendsLine
  BY <1>5 DEF ClientCompresses, ClientStopsCompressing, ClientSendsLine, statusVars,
     optionVars
<1>6. CASE UNCHANGED vars
  BY <1>6 DEF vars, statusVars, optionVars, clientVars
<1> QED BY <1>1, <1>2, <1>3, <1>4, <1>5, <1>6 DEF AsideStep

\* What it does to the messages to the client.
LEMMA AsideOut ==
  ASSUME TypeOK, AsideStep
  PROVE  OutAlike(Outgoing, Outgoing')
<1>1. CASE UNCHANGED to_client
  <2>1. Outgoing' = Outgoing
    BY <1>1 DEF Outgoing
  <2> QED BY <2>1 DEF OutAlike, AskAlike
<1>2. ASSUME NEW ms \in Seq(Raw), Put(ms), NoOffers(ms), ~ Has(ms, Types)
      PROVE  OutAlike(Outgoing, Outgoing')
  BY <1>2, Typed, PutEffect, OutSaid
<1>3. ASSUME NEW m, Read(m), m.kind \notin {Offer[s] : s \in Sides},
             ~ (m.kind = "SB" /\ m.option = "MTTS")
      PROVE  OutAlike(Outgoing, Outgoing')
  <2>1. /\ Outgoing \in Seq(Raw) /\ Outgoing # << >> /\ Head(Outgoing) = Bare(m)
        /\ Outgoing' = Tail(Outgoing) /\ Bare(m) \in Raw
    BY <1>3, Typed, ReadEffect
  <2>2. Bare(m) \notin Types /\ \A s \in Sides : \A o : Bare(m) \notin OfferOf(s, o)
    BY <1>3, <2>1, KindOf DEF Bare
  <2> QED BY <2>1, <2>2, OutRead
<1>4. CASE Settle \/ (\E n \in 1 .. Len(to_server) : Receive(n)) \/ UNCHANGED vars
           \/ ClientCompresses \/ ClientStopsCompressing \/ ClientSendsLine
  BY <1>1, <1>4 DEF Settle, Receive, vars, ClientCompresses, ClientStopsCompressing,
     ClientSendsLine, outVars
<1>5. CASE SendText \/ \E m : \E s \in Sides : ReceiveUnsupported(m, s)
  BY <1>2, <1>5, TextSays, UnsupportedSays
<1>6. CASE \E m : ReceiveCharset(m) \/ ReceiveText(m) \/ ReceiveCompression(m)
  BY <1>1, <1>6 DEF ReceiveCharset, ReceiveText, ReceiveCompression, outVars
<1>7. CASE \E m : \/ \E s \in Sides : ClientRefused(m, s)
                  \/ ClientSeesText(m) \/ (ClientAsked(m) /\ m.option # "MTTS")
  <2>1. ASSUME NEW m, \/ \E s \in Sides : ClientRefused(m, s)
                      \/ ClientSeesText(m) \/ (ClientAsked(m) /\ m.option # "MTTS")
        PROVE  /\ Read(m) /\ m.kind \notin {Offer[s] : s \in Sides}
               /\ ~ (m.kind = "SB" /\ m.option = "MTTS")
    <3>1. CASE \E s \in Sides : ClientRefused(m, s)
      BY <3>1 DEF ClientRefused, Offer, Cancel, Sides
    <3>2. CASE ClientSeesText(m) \/ (ClientAsked(m) /\ m.option # "MTTS")
      BY <3>2 DEF ClientSeesText, ClientAsked, Offer, Sides
    <3> QED BY <2>1, <3>1, <3>2
  <2> QED BY <1>3, <1>7, <2>1
<1> QED BY <1>4, <1>5, <1>6, <1>7 DEF AsideStep

\* What it does to the messages to the server.
LEMMA AsideIn ==
  ASSUME TypeOK, Input, AsideStep
  PROVE  InAside
<1>1. CASE Settle \/ SendText \/ UNCHANGED vars
           \/ \E m : (\E s \in Sides : ClientRefused(m, s)) \/ ClientSeesText(m)
  <2>1. Apart
    BY <1>1 DEF Apart
  <2> QED BY <2>1, ApartSilent, SilentAside
<1>2. ASSUME NEW n \in 1 .. Len(to_server), Receive(n) PROVE InAside
  <2>1. /\ decompressor' # "ended" => decompressor # "ended" /\ Incoming' = Incoming
        /\ Incoming' = Incoming \/ Shortened
    BY <1>2, ReceiveInput
  <2>2. Fewer(Incoming, Incoming')
    BY <2>1, Typed, FewerPrefix DEF Shortened, Fewer
  <2> QED BY <2>1, <2>2 DEF InAside, InAlike, Alike
<1>3. ASSUME NEW m, \/ \E s \in Sides : ReceiveUnsupported(m, s)
                    \/ ReceiveCharset(m) \/ ReceiveText(m)
      PROVE  InAside
  <2>1. Handling(m)
    BY <1>3 DEF Handling
  <2>2. Heeds(m) /\ Bare(m) \in Raw /\ Bare(m).kind = m.kind /\ Bare(m).option = m.option
    BY <2>1, HandlingHeeds DEF Heeds, Bare
  <2>3. CASE \E s \in Sides : ReceiveUnsupported(m, s)
    <3>1. PICK s \in Sides : ReceiveUnsupported(m, s)
      BY <2>3
    <3>2. m.kind = Accept[s] /\ m.option \notin Options \cap Support[s]
      BY <3>1 DEF ReceiveUnsupported
    <3> QED BY <2>2, <3>2, BesideKind, HeedsAside
  <2>4. CASE ReceiveCharset(m) \/ ReceiveText(m)
    <3>1. m.kind = "TEXT" \/ (m.kind = "SB" /\ m.option # "MTTS")
      BY <2>4 DEF ReceiveCharset, ReceiveText
    <3> QED BY <2>2, <3>1, BesideKind, HeedsAside
  <2> QED BY <1>3, <2>3, <2>4
<1>4. ASSUME NEW m, ReceiveCompression(m) PROVE InAside
  <2>1. /\ Incoming # << >> /\ Head(Incoming) = Bare(m) /\ Bare(m) \in Raw
        /\ decompressor' # "ended" => decompressor # "ended" /\ Incoming' = Tail(Incoming)
        /\ \/ Incoming' = Tail(Incoming)
           \/ \E n \in 0 .. Len(Tail(Incoming)) : Incoming' = SubSeq(Tail(Incoming), 1, n)
    BY <1>4, CompressionInput
  <2>2. Bare(m).kind = "SB" /\ Bare(m).option # "MTTS"
    BY <1>4 DEF ReceiveCompression, Bare
  <2>3. Beside(Bare(m))
    BY <2>1, <2>2, BesideKind
  <2>4. Fewer(Incoming, Incoming')
    BY <2>1, Typed, FewerTail, FewerTailPrefix
  <2>5. decompressor' # "ended" => InAlike /\ (Has(Incoming', Types) <=> Has(Incoming, Types))
    BY <2>1, <2>3, DroppedAlike
  <2> QED BY <2>1, <2>4, <2>5 DEF InAside
<1>5. ASSUME NEW m, ClientAsked(m), m.option # "MTTS" PROVE InAside
  <2>1. Silent \/ \E x \in Raw : x.kind = "SB" /\ x \notin Types /\ Tells(x)
    BY <1>5, AskedTells
  <2>2. ASSUME NEW x \in Raw, x.kind = "SB", x \notin Types, Tells(x) PROVE InAside
    <3>1. x.option # "MTTS"
      BY <2>2, KindOf
    <3> QED BY <2>2, <3>1, BesideKind, TellsAside
  <2> QED BY <2>1, <2>2, SilentAside
<1>6. CASE ClientCompresses \/ ClientStopsCompressing \/ ClientSendsLine
  <2>1. PICK x : Tells(x) /\ x.kind \in {"SB", "TEXT", "END"} /\ x \notin Types
    BY <1>6, FreeTells
  <2>2. x \in Raw
    BY <2>1 DEF Tells
  <2>3. Beside(x)
    BY <2>1, <2>2, BesideKind, KindOf
  <2> QED BY <2>1, <2>3, TellsAside
<1> QED BY <1>1, <1>2, <1>3, <1>4, <1>5, <1>6 DEF AsideStep

LEMMA AsideSteps ==
  ASSUME TypeOK, Input, AsideStep, UNCHANGED scenario
  PROVE  Aside
BY AsideState, AsideOut, AsideIn DEF Aside

-------------------------------------------------------------------------------
(* What keeps the parts of the invariant *)

LEMMA AgreementHeeds ==
  ASSUME TypeOK, Agreement, UNCHANGED <<scenario, on, asked>>, NEW m, Heeds(m),
         \A s \in Sides : \A o \in Options \cap Support[s] :
           /\ Has(Outgoing, OfferOf(s, o)) => Has(Outgoing', OfferOf(s, o))
           /\ Bare(m) \in Yes(s, o) =>
                /\ o \in enabled'[s] /\ (o \in negotiating'[s] <=> o \in negotiating[s])
                /\ \/ o \in enabled[s] \/ o \in negotiating[s]
                   \/ Has(Outgoing', OfferOf(s, o))
           /\ Bare(m) \in No(s, o) => o \notin enabled'[s] /\ o \notin negotiating'[s]
           /\ Bare(m) \notin Yes(s, o) /\ Bare(m) \notin No(s, o) =>
                /\ o \in enabled'[s] <=> o \in enabled[s]
                /\ o \in negotiating'[s] <=> o \in negotiating[s]
  PROVE  Agreement'
<1> SUFFICES ASSUME decompressor' # "ended", NEW s \in Sides, NEW o \in Options \cap Support[s]
             PROVE  Agrees(enabled'[s], negotiating'[s], on[s], asked[s], Outgoing', Incoming',
                           s, o)
  BY DEF Agreement, Options
<1>1. Agrees(enabled[s], negotiating[s], on[s], asked[s], Outgoing, Incoming, s, o)
  BY DEF Agreement, Heeds
<1>2. /\ Incoming \in Seq(Raw) /\ Incoming # << >> /\ Head(Incoming) = Bare(m)
      /\ Incoming' = Tail(Incoming)
  BY Typed DEF Heeds
<1>3. Agrees(enabled'[s], negotiating'[s], on[s], asked[s], Outgoing', Tail(Incoming), s, o)
  BY <1>1, <1>2, AgreesHandled
<1> QED BY <1>2, <1>3

LEMMA TerminalsKept ==
  ASSUME Terminals, UNCHANGED <<number_requests, handled, mtts_enables, terminal>>,
         mtts_enables = 0 => "MTTS" \notin enabled'["remote"],
         Fewer(Incoming, Incoming'), Has(Outgoing', Types) => Has(Outgoing, Types),
         Once(Outgoing, Types) => Once(Outgoing', Types)
  PROVE  Terminals'
<1>1. \A n : Otherwise(n) \in SUBSET Types
  BY DEF Otherwise
<1>2. /\ Has(Incoming', Types) => Has(Incoming, Types)
      /\ \A n : Has(Incoming', Otherwise(n)) => Has(Incoming, Otherwise(n))
      /\ Once(Incoming, Types) => Once(Incoming', Types)
  BY <1>1 DEF Fewer
<1>3. TerminalUnderstood'
  BY DEF Terminals, TerminalUnderstood
<1>4. mtts_enables = 0 =>
        /\ number_requests = 0 /\ terminal = 0
        /\ ~ Has(Incoming, Types) /\ ~ Has(Outgoing, Types)
  BY DEF Terminals
<1>5. mtts_enables <= 1 =>
        /\ Once(Incoming, Types) /\ Once(Outgoing, Types)
        /\ ~ (Has(Incoming, Types) /\ Has(Outgoing, Types))
        /\ Has(Outgoing, Types) => number_requests \in 1 .. 3 /\ terminal = number_requests - 1
        /\ Has(Incoming, Types) =>
             /\ number_requests \in 1 .. 3 /\ terminal = number_requests
             /\ ~ Has(Incoming, Otherwise(number_requests))
  BY DEF Terminals
<1> QED BY <1>2, <1>3, <1>4, <1>5 DEF Terminals, Types, Otherwise

LEMMA AskingKept ==
  ASSUME Asking, mtts_enables' = mtts_enables, negotiation \subseteq negotiation',
         decompressor' # "ended" /\ mtts_enables <= 1 =>
           /\ decompressor # "ended"
           /\ First(Outgoing', Types, OfferOf("remote", "MTTS")) =>
                \/ First(Outgoing, Types, OfferOf("remote", "MTTS"))
                \/ "MTTS" \in on'["remote"] \/ Unsure(enabled'["remote"], Incoming')
           /\ "MTTS" \in on["remote"] =>
                "MTTS" \in on'["remote"] \/ Unsure(enabled'["remote"], Incoming')
           /\ Unsure(enabled["remote"], Incoming) => Unsure(enabled'["remote"], Incoming')
           /\ Has(Outgoing, Types) \/ Has(Incoming, Types) =>
                \/ Has(Outgoing', Types) \/ Has(Incoming', Types)
                \/ Unsure(enabled'["remote"], Incoming')
  PROVE  Asking'
<1> DEFINE F == First(Outgoing, Types, OfferOf("remote", "MTTS"))
           F2 == First(Outgoing', Types, OfferOf("remote", "MTTS"))
           U == Unsure(enabled["remote"], Incoming)
           U2 == Unsure(enabled'["remote"], Incoming')
           T == Has(Outgoing, Types) \/ Has(Incoming, Types)
           T2 == Has(Outgoing', Types) \/ Has(Incoming', Types)
<1>1. Asking <=> (decompressor # "ended" /\ mtts_enables <= 1 =>
                    /\ F => "MTTS" \in on["remote"] \/ U
                    /\ mtts_enables = 1 /\ "MTTS" \notin negotiation => T \/ U)
  BY DEF Asking
<1>2. Asking' <=> (decompressor' # "ended" /\ mtts_enables' <= 1 =>
                    /\ F2 => "MTTS" \in on'["remote"] \/ U2
                    /\ mtts_enables' = 1 /\ "MTTS" \notin negotiation' => T2 \/ U2)
  BY DEF Asking, Types, OfferOf, Data, Offer, Unsure, Will, WillEnable, Yes, No
<1>3. decompressor' # "ended" /\ mtts_enables <= 1 =>
        /\ decompressor # "ended"
        /\ F2 => F \/ "MTTS" \in on'["remote"] \/ U2
        /\ "MTTS" \in on["remote"] => "MTTS" \in on'["remote"] \/ U2
        /\ U => U2
        /\ T => T2 \/ U2
  OBVIOUS
<1> HIDE DEF F, F2, U, U2, T, T2
<1> QED BY <1>1, <1>2, <1>3

LEMMA UnsureAlike ==
  ASSUME NEW q, NEW r, NEW en, NEW en2, "MTTS" \in en2 <=> "MTTS" \in en,
         Alike(q, r, Yes("remote", "MTTS"), No("remote", "MTTS")), Unsure(en, q)
  PROVE  Unsure(en2, r)
BY DEF Unsure, Will, WillEnable, Alike

\* Whatever the client says after.
LEMMA UnsureSaid ==
  ASSUME NEW S, NEW q \in Seq(S), NEW x \in S, NEW en, Unsure(en, q)
  PROVE  Unsure(en, q \o <<x>>)
<1> DEFINE Y == Yes("remote", "MTTS")
           N == No("remote", "MTTS")
           r == <<x>>
           t == q \o r
<1>1. r \in Seq(S)
  OBVIOUS
<1>2. /\ Has(r, Y) <=> x \in Y
      /\ Has(r, N) <=> x \in N
      /\ ~ Before(r, N, Y) /\ (Last(r, Y, N) <=> x \in Y)
  BY Single
<1>3. ~ (x \in Y /\ x \in N)
  BY YesNo DEF Sides
<1> HIDE DEF Y, N, r
<1>4. /\ Has(t, Y) <=> Has(q, Y) \/ x \in Y
      /\ Has(t, N) <=> Has(q, N) \/ x \in N
      /\ Before(t, N, Y) <=> Before(q, N, Y) \/ (Has(q, N) /\ x \in Y)
      /\ Last(t, Y, N) <=> x \in Y \/ (Last(q, Y, N) /\ x \notin N)
  BY <1>1, <1>2, JoinHas, JoinBefore, JoinLast
<1> HIDE DEF t
<1>5. \/ ~ (Last(q, Y, N) \/ ("MTTS" \in en /\ ~ Has(q, N)))
      \/ ("MTTS" \notin en /\ Has(q, Y)) \/ Before(q, N, Y)
  BY DEF Unsure, Will, WillEnable, Y, N
<1>6. Last(q, Y, N) => Has(q, Y)
  BY DEF Last, Has
<1>7. \/ ~ (Last(t, Y, N) \/ ("MTTS" \in en /\ ~ Has(t, N)))
      \/ ("MTTS" \notin en /\ Has(t, Y)) \/ Before(t, N, Y)
  BY <1>3, <1>4, <1>5, <1>6
<1> QED BY <1>7 DEF Unsure, Will, WillEnable, Y, N, t, r

LEMMA UnsureSaidNo ==
  ASSUME NEW S, NEW q \in Seq(S), NEW x \in S, NEW en, x \in No("remote", "MTTS")
  PROVE  Unsure(en, q \o <<x>>)
<1> DEFINE Y == Yes("remote", "MTTS")
           N == No("remote", "MTTS")
           r == <<x>>
           t == q \o r
<1>1. r \in Seq(S) /\ x \notin Y
  BY YesNo DEF Sides
<1>2. Has(r, N) /\ ~ Last(r, Y, N)
  BY <1>1, Single
<1> HIDE DEF Y, N, r
<1>3. Has(t, N) /\ ~ Last(t, Y, N)
  BY <1>1, <1>2, JoinHas, JoinLast
<1> QED BY <1>3 DEF Unsure, Will, WillEnable, Y, N, t, r

LEMMA UnsureDisabled ==
  ASSUME NEW q, NEW en, "MTTS" \notin en
  PROVE  Unsure(en, q)
BY DEF Unsure, Will, WillEnable, Last, Has

LEMMA UnsureYesAgain ==
  ASSUME NEW S, NEW q \in Seq(S), q # << >>, Head(q) \in Yes("remote", "MTTS"),
         NEW en, "MTTS" \in en, Unsure(en, q)
  PROVE  Unsure(en, Tail(q))
<1> DEFINE Y == Yes("remote", "MTTS")
           N == No("remote", "MTTS")
           t == Tail(q)
<1>1. Head(q) \in Y /\ Head(q) \notin N
  BY YesNo DEF Sides
<1> HIDE DEF Y, N
<1>2. /\ Has(q, N) <=> Has(t, N)
      /\ Before(q, N, Y) <=> Before(t, N, Y)
      /\ Last(q, Y, N) <=> Last(t, Y, N) \/ ~ Has(t, N)
  BY <1>1, TailFacts
<1> HIDE DEF t
<1>3. ~ (Last(q, Y, N) \/ ~ Has(q, N)) \/ Before(q, N, Y)
  BY DEF Unsure, Will, WillEnable, Y, N
<1>4. ~ (Last(t, Y, N) \/ ~ Has(t, N)) \/ Before(t, N, Y)
  BY <1>2, <1>3
<1> QED BY <1>4 DEF Unsure, Will, WillEnable, Y, N, t

\* Without an offer to read, the client knows or the server is to change its mind.
LEMMA UnsureOrOn ==
  ASSUME NEW en, NEW ne, NEW cn, NEW ca, NEW d, NEW q,
         Agrees(en, ne, cn, ca, d, q, "remote", "MTTS"), ~ Has(d, OfferOf("remote", "MTTS"))
  PROVE  "MTTS" \in cn \/ Unsure(en, q)
BY DEF Agrees, Unsure, WillOffer, WillEnable

LEMMA AsideKeeps ==
  ASSUME TypeOK, Negotiated, Aside
  PROVE  Negotiated'
<1>1. /\ UNCHANGED <<scenario, enabled, negotiating, number_requests, handled, mtts_enables,
                     on, terminal>>
      /\ negotiation \subseteq negotiation' /\ \A s \in Sides : asked'[s] \subseteq asked[s]
      /\ phase' # "new" => phase # "new"
      /\ \A s \in Sides : \A o : Has(Outgoing', OfferOf(s, o)) <=> Has(Outgoing, OfferOf(s, o))
      /\ AskAlike(Outgoing, Outgoing') /\ Fewer(Incoming, Incoming')
      /\ decompressor' # "ended" => /\ decompressor # "ended" /\ InAlike
                                    /\ Has(Incoming', Types) <=> Has(Incoming, Types)
  BY DEF Aside, OutAlike, InAside
<1>2. Options' = Options
  BY <1>1 DEF Options
<1>3. Agreement'
  <2> SUFFICES ASSUME decompressor' # "ended", NEW s \in Sides,
                      NEW o \in Options \cap Support[s]
               PROVE  Agrees(enabled[s], negotiating[s], on[s], asked'[s], Outgoing', Incoming',
                             s, o)
    BY <1>1, <1>2 DEF Agreement
  <2>1. Agrees(enabled[s], negotiating[s], on[s], asked[s], Outgoing, Incoming, s, o)
    BY <1>1 DEF Negotiated, Agreement
  <2>2. Alike(Incoming, Incoming', Yes(s, o), No(s, o))
    BY <1>1 DEF InAlike
  <2> QED BY <1>1, <2>1, <2>2, AgreesAlike
<1>4. Unsupported'
  <2> SUFFICES ASSUME NEW s \in Sides, NEW o, o \notin Options \cap Support[s]
               PROVE  ~ Has(Outgoing', OfferOf(s, o)) /\ o \notin on[s] /\ o \notin enabled[s]
    BY <1>1, <1>2 DEF Unsupported, OfferOf, Data
  <2> QED BY <1>1 DEF Negotiated, Unsupported
<1>5. Settling'
  BY <1>1, <1>2 DEF Negotiated, Settling
<1>6. Terminals'
  BY <1>1, TerminalsKept DEF Negotiated, Terminals, AskAlike
<1>7. Asking'
  <2>1. ASSUME decompressor' # "ended", "MTTS" \in Options \cap Support["remote"],
               Unsure(enabled["remote"], Incoming)
        PROVE  Unsure(enabled["remote"], Incoming')
    <3>1. Alike(Incoming, Incoming', Yes("remote", "MTTS"), No("remote", "MTTS"))
      BY <1>1, <2>1 DEF InAlike, Sides
    <3> QED BY <2>1, <3>1, UnsureAlike
  <2>2. ASSUME "MTTS" \notin Options \cap Support["remote"]
        PROVE  Unsure(enabled["remote"], Incoming')
    <3>1. "MTTS" \notin enabled["remote"]
      BY <2>2 DEF Negotiated, Unsupported, Sides
    <3> QED BY <3>1, UnsureDisabled
  <2> QED BY <1>1, <2>1, <2>2, AskingKept DEF Negotiated, AskAlike
<1> QED BY <1>3, <1>4, <1>5, <1>6, <1>7 DEF Negotiated

-------------------------------------------------------------------------------
(* The steps of the negotiation *)

LEMMA StartKeeps ==
  ASSUME TypeOK, Input, Negotiated, Start, UNCHANGED scenario
  PROVE  Negotiated'
<1>1. /\ UNCHANGED <<enabled, negotiation, number_requests, handled, mtts_enables, on, asked,
                     terminal>>
      /\ negotiating' = [s \in Sides |-> Options \cap Support[s]]
  BY DEF Start, optionVars, clientVars
<1>2. Silent
  BY ApartSilent DEF Apart
<1>3. PICK ms \in Seq(Raw) :
        /\ Put(ms) /\ ~ Has(ms, Types)
        /\ \A s \in Sides : \A o : Has(ms, OfferOf(s, o)) <=> o \in Options \cap Support[s]
  BY StartSays
<1>4. Outgoing \in Seq(Raw) /\ Outgoing' = Outgoing \o ms
  BY <1>3, Typed, PutEffect
<1>5. /\ AskAlike(Outgoing, Outgoing')
      /\ \A P : Has(Outgoing', P) <=> Has(Outgoing, P) \/ Has(ms, P)
  BY <1>3, <1>4, OutSaid
<1>6. Options' = Options /\ Incoming' = Incoming /\ decompressor' = decompressor
  BY <1>2 DEF Silent, Options
<1>7. Agreement'
  <2> SUFFICES ASSUME decompressor # "ended", NEW s \in Sides, NEW o \in Options \cap Support[s]
               PROVE  Agrees(enabled[s], negotiating'[s], on[s], asked[s], Outgoing', Incoming,
                             s, o)
    BY <1>1, <1>6 DEF Agreement
  <2>1. Agrees(enabled[s], negotiating[s], on[s], asked[s], Outgoing, Incoming, s, o)
    BY DEF Negotiated, Agreement
  <2> QED BY <1>3, <1>5, <2>1, AgreesStart
<1>8. Unsupported'
  <2> SUFFICES ASSUME NEW s \in Sides, NEW o, o \notin Options \cap Support[s]
               PROVE  ~ Has(Outgoing', OfferOf(s, o)) /\ o \notin on[s] /\ o \notin enabled[s]
    BY <1>1, <1>6 DEF Unsupported, OfferOf, Data
  <2> QED BY <1>3, <1>5 DEF Negotiated, Unsupported
<1>9. Settling'
  BY <1>1, <1>6 DEF Negotiated, Settling
<1>10. Fewer(Incoming, Incoming')
  BY <1>6 DEF Fewer
<1>11. Terminals'
  BY <1>1, <1>5, <1>10, TerminalsKept DEF Negotiated, Terminals, AskAlike
<1>12. Asking'
  BY <1>1, <1>5, <1>6, AskingKept DEF Negotiated, AskAlike
<1> QED BY <1>7, <1>8, <1>9, <1>11, <1>12 DEF Negotiated

\* The message that is handled is a yes to one option, and nothing else.
LEMMA YesBare ==
  ASSUME TypeOK, Input, NEW m, NEW t \in Sides, Handling(m), m.kind = Accept[t]
  PROVE  /\ Heeds(m) /\ Bare(m) \in Raw /\ Bare(m) \notin Types
         /\ \A s \in Sides : \A o : /\ Bare(m) \in Yes(s, o) <=> s = t /\ o = m.option
                                    /\ Bare(m) \notin No(s, o)
<1>1. Heeds(m) /\ Bare(m) \in Raw /\ Bare(m).kind = m.kind /\ Bare(m).option = m.option
  BY HandlingHeeds DEF Heeds, Bare
<1>2. Bare(m) \notin Types
  BY <1>1, KindOf, Distinct
<1>3. ASSUME NEW s \in Sides, NEW o
      PROVE  /\ Bare(m) \in Yes(s, o) <=> s = t /\ o = m.option
             /\ Bare(m) \notin No(s, o)
  <2>1. /\ Bare(m) \in Yes(s, o) <=> Accept[t] = Accept[s] /\ m.option = o
        /\ Bare(m) \in No(s, o) => Accept[t] = Reject[s]
    BY <1>1, KindOf
  <2>2. Accept[t] # Reject[s] /\ (Accept[t] = Accept[s] <=> s = t)
    BY Distinct
  <2> QED BY <2>1, <2>2
<1> QED BY <1>1, <1>2, <1>3

LEMMA YesState ==
  ASSUME TypeOK, NEW m, NEW t \in Sides, ReceiveYes(m, t)
  PROVE  /\ m.option \in Options \cap Support[t] /\ m.option \notin enabled[t]
         /\ \A s \in Sides :
              enabled'[s] = IF s = t THEN enabled[s] \cup {m.option} ELSE enabled[s]
         /\ UNCHANGED <<negotiating, on, asked, terminal, phase, handled>>
         /\ negotiation \subseteq negotiation'
         /\ m.option \notin {"CHARSET", "MTTS"} => m.option \in negotiation'
         /\ m.option = "MTTS" => /\ t = "remote" /\ number_requests' = number_requests + 1
                                 /\ mtts_enables' = mtts_enables + 1
         /\ m.option # "MTTS" => UNCHANGED <<number_requests, mtts_enables>>
<1>1. m.option \in Options \cap Support[t] /\ m.option \notin enabled[t]
  BY DEF ReceiveYes
<1>2. \A s \in Sides : enabled'[s] = IF s = t THEN enabled[s] \cup {m.option} ELSE enabled[s]
  BY DEF ReceiveYes, TypeOK
<1>3. UNCHANGED <<negotiating, on, asked, terminal, phase, handled>>
  BY DEF ReceiveYes, AtEnable, clientVars
<1>4. /\ negotiation \subseteq negotiation'
      /\ m.option \notin {"CHARSET", "MTTS"} => m.option \in negotiation'
  BY DEF ReceiveYes, AtEnable
<1>5. m.option = "MTTS" => t = "remote"
  BY <1>1 DEF Sides, Support, SupportLocal
<1>6. number_requests \in Nat /\ mtts_enables \in Nat
  BY DEF TypeOK
<1>7. /\ number_requests' = number_requests + (IF m.option = "MTTS" THEN 1 ELSE 0)
      /\ mtts_enables' = mtts_enables + (IF m.option = "MTTS" THEN 1 ELSE 0)
  BY DEF ReceiveYes, AtEnable
<1> QED BY <1>1, <1>2, <1>3, <1>4, <1>5, <1>6, <1>7

LEMMA YesKeeps ==
  ASSUME TypeOK, Input, Negotiated, NEW m, NEW t \in Sides, ReceiveYes(m, t),
         UNCHANGED scenario
  PROVE  Negotiated'
<1> DEFINE p == m.option
<1>1. /\ p \in Options \cap Support[t] /\ p \notin enabled[t]
      /\ \A s \in Sides : enabled'[s] = IF s = t THEN enabled[s] \cup {p} ELSE enabled[s]
      /\ UNCHANGED <<negotiating, on, asked, terminal, phase, handled>>
      /\ negotiation \subseteq negotiation'
      /\ p \notin {"CHARSET", "MTTS"} => p \in negotiation'
      /\ p = "MTTS" => /\ t = "remote" /\ number_requests' = number_requests + 1
                       /\ mtts_enables' = mtts_enables + 1
      /\ p # "MTTS" => UNCHANGED <<number_requests, mtts_enables>>
  BY YesState
<1>2. Handling(m) /\ m.kind = Accept[t]
  BY DEF Handling, ReceiveYes
<1>3. /\ Heeds(m) /\ Bare(m) \in Raw /\ Bare(m) \notin Types
      /\ \A s \in Sides : \A o : /\ Bare(m) \in Yes(s, o) <=> s = t /\ o = p
                                 /\ Bare(m) \notin No(s, o)
  BY <1>2, YesBare
<1>4. PICK ms \in Seq(Raw) :
        /\ Put(ms)
        /\ \A s \in Sides : \A o : Has(ms, OfferOf(s, o)) <=>
             s = t /\ o = p /\ p \notin negotiating[t]
        /\ Has(ms, Types) <=> p = "MTTS"
        /\ Once(ms, Types)
        /\ First(ms, Types, OfferOf("remote", "MTTS")) => p \in negotiating[t]
  BY YesSays
<1> HIDE DEF p
<1>5. Outgoing \in Seq(Raw) /\ Outgoing' = Outgoing \o ms /\ Incoming \in Seq(Raw)
  BY <1>4, Typed, PutEffect
<1>6. \A P : Has(Outgoing', P) <=> Has(Outgoing, P) \/ Has(ms, P)
  BY <1>5, JoinHas
<1>7. /\ Incoming # << >> /\ Head(Incoming) = Bare(m) /\ Incoming' = Tail(Incoming)
      /\ decompressor' = decompressor /\ Options' = Options
  BY <1>3 DEF Heeds, Options
<1>8. Agreement'
  <2>1. ASSUME NEW s \in Sides, NEW o \in Options \cap Support[s]
        PROVE  /\ Has(Outgoing, OfferOf(s, o)) => Has(Outgoing', OfferOf(s, o))
               /\ Bare(m) \in Yes(s, o) =>
                    /\ o \in enabled'[s] /\ (o \in negotiating'[s] <=> o \in negotiating[s])
                    /\ \/ o \in enabled[s] \/ o \in negotiating[s]
                       \/ Has(Outgoing', OfferOf(s, o))
               /\ Bare(m) \in No(s, o) => o \notin enabled'[s] /\ o \notin negotiating'[s]
               /\ Bare(m) \notin Yes(s, o) /\ Bare(m) \notin No(s, o) =>
                    /\ o \in enabled'[s] <=> o \in enabled[s]
                    /\ o \in negotiating'[s] <=> o \in negotiating[s]
    BY <1>1, <1>3, <1>4, <1>6
  <2> QED BY <1>1, <1>3, <2>1, AgreementHeeds DEF Negotiated
<1>9. Unsupported'
  <2> SUFFICES ASSUME NEW s \in Sides, NEW o, o \notin Options \cap Support[s]
               PROVE  ~ Has(Outgoing', OfferOf(s, o)) /\ o \notin on[s] /\ o \notin enabled'[s]
    BY <1>1, <1>7 DEF Unsupported, OfferOf, Data
  <2> QED BY <1>1, <1>4, <1>6 DEF Negotiated, Unsupported
<1>10. Settling'
  <2> SUFFICES ASSUME NEW s \in Sides, NEW o \in Options \cap Support[s]
               PROVE  /\ o \in enabled'[s] /\ o \notin {"CHARSET", "MTTS"} => o \in negotiation'
                      /\ phase # "new" /\ o \notin negotiation' => o \in negotiating[s]
    BY <1>1, <1>7 DEF Settling
  <2> QED BY <1>1 DEF Negotiated, Settling
<1>11. /\ Fewer(Incoming, Incoming')
       /\ Has(Incoming', Types) <=> Has(Incoming, Types)
  BY <1>3, <1>5, <1>7, FewerTail
<1>12. CASE p # "MTTS"
  <2>1. /\ AskAlike(Outgoing, Outgoing')
        /\ "MTTS" \in enabled'["remote"] <=> "MTTS" \in enabled["remote"]
    BY <1>1, <1>4, <1>5, <1>12, OutSaid DEF Sides
  <2>2. Terminals'
    BY <1>1, <1>11, <1>12, <2>1, TerminalsKept DEF Negotiated, Terminals, AskAlike
  <2>3. Alike(Incoming, Incoming', Yes("remote", "MTTS"), No("remote", "MTTS"))
    BY <1>3, <1>5, <1>7, <1>12, AlikeTail DEF Sides
  <2>4. Unsure(enabled["remote"], Incoming) => Unsure(enabled'["remote"], Incoming')
    BY <2>1, <2>3, UnsureAlike
  <2>5. Asking'
    BY <1>1, <1>7, <1>11, <1>12, <2>1, <2>4, AskingKept DEF Negotiated, AskAlike
  <2> QED BY <1>8, <1>9, <1>10, <2>2, <2>5 DEF Negotiated
<1>13. CASE p = "MTTS"
  <2>1. /\ t = "remote" /\ number_requests' = number_requests + 1
        /\ mtts_enables' = mtts_enables + 1 /\ mtts_enables \in Nat
        /\ mtts_enables' # 0 /\ (mtts_enables' <= 1 => mtts_enables = 0)
    BY <1>1, <1>13 DEF TypeOK
  <2>2. mtts_enables = 0 =>
          /\ number_requests = 0 /\ terminal = 0
          /\ ~ Has(Incoming, Types) /\ ~ Has(Outgoing, Types)
    BY DEF Negotiated, Terminals
  <2>3. TerminalUnderstood'
    BY <1>1, <2>1 DEF Negotiated, Terminals, TerminalUnderstood
  <2>4. Once(Outgoing, Types) /\ ~ Has(Outgoing, Types) => Once(Outgoing', Types)
    BY <1>4, <1>5, JoinOnce
  <2>5. ~ Has(Incoming, Types) => Once(Incoming', Types) /\ ~ Has(Incoming', Types)
    BY <1>11 DEF Has, Once
  <2>6. ~ Has(Outgoing, Types) => Once(Outgoing, Types)
    BY DEF Has, Once
  <2>7. Terminals'
    BY <1>1, <2>1, <2>2, <2>3, <2>4, <2>5, <2>6 DEF Terminals, Types, Otherwise
  <2>8. ASSUME decompressor' # "ended", mtts_enables' <= 1,
               First(Outgoing', Types, OfferOf("remote", "MTTS"))
        PROVE  "MTTS" \in on'["remote"] \/ Unsure(enabled'["remote"], Incoming')
    <3> DEFINE F == OfferOf("remote", "MTTS")
    <3>1. First(Outgoing, Types, F) => Has(Outgoing, Types)
      BY DEF First, Has
    <3>2. ~ Has(Outgoing, Types)
      BY <2>1, <2>2, <2>8
    <3> HIDE DEF F
    <3>3. First(Outgoing \o ms, Types, F) <=>
            First(Outgoing, Types, F) \/ (~ Has(Outgoing, F) /\ First(ms, Types, F))
      BY <1>5, JoinFirst
    <3>4. ~ Has(Outgoing, F) /\ p \in negotiating[t]
      BY <1>4, <1>5, <2>8, <3>1, <3>2, <3>3 DEF F
    <3>5. ~ Has(Outgoing', F)
      BY <1>4, <1>6, <3>4 DEF F, Sides
    <3>6. Agrees(enabled'["remote"], negotiating'["remote"], on'["remote"], asked'["remote"],
                 Outgoing', Incoming', "remote", "MTTS")
      BY <1>1, <1>7, <1>8, <1>13, <2>8 DEF Agreement, Sides
    <3> QED BY <3>5, <3>6, UnsureOrOn DEF F
  <2>9. Has(Outgoing', Types)
    BY <1>4, <1>6, <1>13
  <2>10. Asking'
    BY <2>8, <2>9 DEF Asking, Types, OfferOf, Data, Offer, Unsure, Will, WillEnable, Yes, No
  <2> QED BY <1>8, <1>9, <1>10, <2>7, <2>10 DEF Negotiated
<1> QED BY <1>12, <1>13

LEMMA YesAgainKeeps ==
  ASSUME TypeOK, Input, Negotiated, NEW m, NEW t \in Sides, ReceiveYesAgain(m, t),
         UNCHANGED scenario
  PROVE  Negotiated'
<1>1. /\ m.option \in enabled[t]
      /\ UNCHANGED <<enabled, negotiating, negotiation, number_requests, handled,
                     mtts_enables, on, asked, terminal, phase, to_client>>
  BY DEF ReceiveYesAgain, statusVars, optionVars, outVars, clientVars
<1>2. Handling(m) /\ m.kind = Accept[t]
  BY DEF Handling, ReceiveYesAgain
<1>3. /\ Heeds(m) /\ Bare(m) \in Raw /\ Bare(m) \notin Types
      /\ \A s \in Sides : \A o : /\ Bare(m) \in Yes(s, o) <=> s = t /\ o = m.option
                                 /\ Bare(m) \notin No(s, o)
  BY <1>2, YesBare
<1>4. /\ Incoming # << >> /\ Head(Incoming) = Bare(m) /\ Incoming' = Tail(Incoming)
      /\ decompressor' = decompressor /\ Options' = Options /\ Incoming \in Seq(Raw)
      /\ Outgoing' = Outgoing
  BY <1>1, <1>3, Typed DEF Heeds, Options, Outgoing
<1>5. Agreement'
  BY <1>1, <1>3, <1>4, AgreementHeeds DEF Negotiated
<1>6. Unsupported' /\ Settling'
  BY <1>1, <1>4 DEF Negotiated, Unsupported, Settling, OfferOf, Data
<1>7. /\ Fewer(Incoming, Incoming')
      /\ Has(Incoming', Types) <=> Has(Incoming, Types)
  BY <1>3, <1>4, FewerTail
<1>8. Terminals'
  BY <1>1, <1>4, <1>7, TerminalsKept DEF Negotiated, Terminals
<1>9. Unsure(enabled["remote"], Incoming) => Unsure(enabled["remote"], Incoming')
  <2>1. CASE t = "remote" /\ m.option = "MTTS"
    BY <1>1, <1>3, <1>4, <2>1, UnsureYesAgain
  <2>2. CASE ~ (t = "remote" /\ m.option = "MTTS")
    <3>1. Alike(Incoming, Incoming', Yes("remote", "MTTS"), No("remote", "MTTS"))
      BY <1>3, <1>4, <2>2, AlikeTail DEF Sides
    <3> QED BY <3>1, UnsureAlike
  <2> QED BY <2>1, <2>2
<1>10. Asking'
  BY <1>1, <1>4, <1>7, <1>9, AskingKept DEF Negotiated
<1> QED BY <1>5, <1>6, <1>8, <1>10 DEF Negotiated

LEMMA NoKeeps ==
  ASSUME TypeOK, Input, Negotiated, NEW m, NEW t \in Sides, ReceiveNo(m, t),
         UNCHANGED scenario
  PROVE  Negotiated'
<1> DEFINE p == m.option
<1>1. /\ \A s \in Sides :
           /\ enabled'[s] = IF s = t THEN enabled[s] \ {p} ELSE enabled[s]
           /\ negotiating'[s] = IF s = t THEN negotiating[s] \ {p} ELSE negotiating[s]
      /\ negotiation \subseteq negotiation'
      /\ p \in negotiating[t] => p \in negotiation'
      /\ UNCHANGED <<number_requests, handled, mtts_enables, on, asked, terminal, phase,
                     to_client>>
  BY DEF ReceiveNo, TypeOK, optionVars, outVars, clientVars
<1>2. Handling(m) /\ m.kind = Reject[t]
  BY DEF Handling, ReceiveNo
<1>3. Heeds(m) /\ Bare(m) \in Raw /\ Bare(m).kind = Reject[t] /\ Bare(m).option = p
  BY <1>2, HandlingHeeds DEF Heeds, Bare
<1>4. Bare(m) \notin Types
  BY <1>3, KindOf, Distinct
<1>5. ASSUME NEW s \in Sides, NEW o
      PROVE  /\ Bare(m) \in No(s, o) <=> s = t /\ o = p
             /\ Bare(m) \notin Yes(s, o)
  <2>1. /\ Bare(m) \in No(s, o) <=> Reject[t] = Reject[s] /\ p = o
        /\ Bare(m) \in Yes(s, o) => Reject[t] = Accept[s]
    BY <1>3, KindOf
  <2>2. Accept[s] # Reject[t] /\ (Reject[t] = Reject[s] <=> s = t)
    BY Distinct
  <2> QED BY <2>1, <2>2
<1> HIDE DEF p
<1>6. /\ Incoming # << >> /\ Head(Incoming) = Bare(m) /\ Incoming' = Tail(Incoming)
      /\ decompressor' = decompressor /\ Options' = Options /\ Incoming \in Seq(Raw)
      /\ Outgoing' = Outgoing
  BY <1>1, <1>3, Typed DEF Heeds, Options, Outgoing
<1>7. Agreement'
  BY <1>1, <1>3, <1>5, <1>6, AgreementHeeds DEF Negotiated
<1>8. Unsupported'
  <2> SUFFICES ASSUME NEW s \in Sides, NEW o, o \notin Options \cap Support[s]
               PROVE  ~ Has(Outgoing, OfferOf(s, o)) /\ o \notin on[s] /\ o \notin enabled'[s]
    BY <1>1, <1>6 DEF Unsupported, OfferOf, Data
  <2> QED BY <1>1 DEF Negotiated, Unsupported
<1>9. Settling'
  <2> SUFFICES ASSUME NEW s \in Sides, NEW o \in Options \cap Support[s]
               PROVE  /\ o \in enabled'[s] /\ o \notin {"CHARSET", "MTTS"} => o \in negotiation'
                      /\ phase # "new" /\ o \notin negotiation' => o \in negotiating'[s]
    BY <1>1, <1>6 DEF Settling
  <2> QED BY <1>1 DEF Negotiated, Settling
<1>10. /\ Fewer(Incoming, Incoming')
       /\ Has(Incoming', Types) <=> Has(Incoming, Types)
  BY <1>4, <1>6, FewerTail
<1>11. enabled'["remote"] \subseteq enabled["remote"]
  BY <1>1 DEF Sides
<1>12. Terminals'
  BY <1>1, <1>6, <1>10, <1>11, TerminalsKept DEF Negotiated, Terminals
<1>13. Unsure(enabled["remote"], Incoming) => Unsure(enabled'["remote"], Incoming')
  <2>1. CASE t = "remote" /\ p = "MTTS"
    <3>1. "MTTS" \notin enabled'["remote"]
      BY <1>1, <2>1
    <3> QED BY <3>1, UnsureDisabled
  <2>2. CASE ~ (t = "remote" /\ p = "MTTS")
    <3>1. Alike(Incoming, Incoming', Yes("remote", "MTTS"), No("remote", "MTTS"))
      BY <1>5, <1>6, <2>2, AlikeTail DEF Sides
    <3>2. "MTTS" \in enabled'["remote"] <=> "MTTS" \in enabled["remote"]
      BY <1>1, <2>2 DEF Sides
    <3> QED BY <3>1, <3>2, UnsureAlike
  <2> QED BY <2>1, <2>2
<1>14. Asking'
  BY <1>1, <1>6, <1>10, <1>13, AskingKept DEF Negotiated
<1> QED BY <1>7, <1>8, <1>9, <1>12, <1>14 DEF Negotiated

\* A terminal type: it is taken for what it is, and the next one is asked for.
LEMMA TerminalKeeps ==
  ASSUME TypeOK, Input, Negotiated, NEW m, ReceiveTerminal(m), UNCHANGED scenario
  PROVE  Negotiated'
<1>1. /\ UNCHANGED <<enabled, negotiating, mtts_enables, on, asked, terminal, phase>>
      /\ negotiation \subseteq negotiation'
      /\ number_requests \in 1 .. 3 /\ ~ AsksMore(m) => "MTTS" \in negotiation'
      /\ handled' = IF number_requests \in 1 .. 3 /\ m.data # last_received
                      THEN Append(handled, [was |-> m.data,
                                            taken_for |-> Terminal[number_requests]])
                      ELSE handled
      /\ AsksMore(m) => number_requests \in 1 .. 2 /\ number_requests' = number_requests + 1
      /\ ~ AsksMore(m) => UNCHANGED <<number_requests, to_client>>
  <2>1. CASE m.data = last_received
    BY <2>1 DEF ReceiveTerminal, clientVars, outVars, AsksMore
  <2>2. CASE m.data # last_received
    <3>1. number_requests \in 1 .. 3 /\ number_requests \notin 1 .. 2 => number_requests = 3
      BY DEF TypeOK
    <3>2. UNCHANGED <<enabled, negotiating, mtts_enables, on, asked, terminal, phase>>
      BY DEF ReceiveTerminal, clientVars
    <3>3. /\ negotiation \subseteq negotiation'
          /\ number_requests = 3 => "MTTS" \in negotiation'
      BY <2>2 DEF ReceiveTerminal
    <3>4. handled' = IF number_requests \in 1 .. 3
                      THEN Append(handled, [was |-> m.data,
                                            taken_for |-> Terminal[number_requests]])
                      ELSE handled
      BY <2>2 DEF ReceiveTerminal
    <3>5. /\ number_requests \in 1 .. 2 => number_requests' = number_requests + 1
          /\ number_requests \notin 1 .. 2 => UNCHANGED <<number_requests, to_client>>
      BY <2>2 DEF ReceiveTerminal, outVars
    <3> QED BY <2>2, <3>1, <3>2, <3>3, <3>4, <3>5 DEF AsksMore
  <2> QED BY <2>1, <2>2
<1>2. Handling(m) /\ Handle(m) /\ m.kind = "SB" /\ m.option = "MTTS"
  BY DEF Handling, ReceiveTerminal
<1>3. /\ Heeds(m) /\ Bare(m) \in Raw /\ Bare(m).kind = "SB" /\ Bare(m).option = "MTTS"
      /\ Bare(m).data = m.data
  BY <1>2, HandlingHeeds DEF Heeds, Bare
<1>4. /\ Bare(m) \in Types
      /\ \A s \in Sides : \A o : Bare(m) \notin Yes(s, o) /\ Bare(m) \notin No(s, o)
  BY <1>3, KindOf, Distinct
<1>5. /\ Incoming # << >> /\ Head(Incoming) = Bare(m) /\ Incoming' = Tail(Incoming)
      /\ decompressor' = decompressor /\ Options' = Options /\ Incoming \in Seq(Raw)
      /\ Outgoing \in Seq(Raw)
  BY <1>1, <1>3, Typed DEF Heeds, Options
<1>6. AsksMore(m) =>
        \E ms \in Seq(Raw) : /\ Put(ms) /\ NoOffers(ms) /\ Has(ms, Types) /\ Once(ms, Types)
  BY TerminalSays
<1>7. /\ \A s \in Sides : \A o : Has(Outgoing', OfferOf(s, o)) <=> Has(Outgoing, OfferOf(s, o))
      /\ AsksMore(m) =>
           /\ Has(Outgoing', Types) /\ (~ Has(Outgoing, Types) => Once(Outgoing', Types))
      /\ ~ AsksMore(m) => Outgoing' = Outgoing
  <2>1. CASE AsksMore(m)
    <3>1. PICK ms \in Seq(Raw) : Put(ms) /\ NoOffers(ms) /\ Has(ms, Types) /\ Once(ms, Types)
      BY <1>6, <2>1
    <3>2. Outgoing' = Outgoing \o ms
      BY <3>1, PutEffect
    <3>3. \A P : Has(Outgoing', P) <=> Has(Outgoing, P) \/ Has(ms, P)
      BY <1>5, <3>2, JoinHas
    <3>4. ~ Has(Outgoing, Types) => Once(Outgoing, Types)
      BY DEF Has, Once
    <3>5. ~ Has(Outgoing, Types) => Once(Outgoing', Types)
      BY <1>5, <3>1, <3>2, <3>4, JoinOnce
    <3> QED BY <2>1, <3>1, <3>3, <3>5 DEF NoOffers
  <2>2. CASE ~ AsksMore(m)
    <3>1. Outgoing' = Outgoing
      BY <1>1, <2>2 DEF Outgoing
    <3> QED BY <2>2, <3>1
  <2> QED BY <2>1, <2>2
<1>8. Agreement'
  BY <1>1, <1>3, <1>4, <1>7, AgreementHeeds DEF Negotiated
<1>9. Unsupported'
  <2> SUFFICES ASSUME NEW s \in Sides, NEW o, o \notin Options \cap Support[s]
               PROVE  ~ Has(Outgoing', OfferOf(s, o)) /\ o \notin on[s] /\ o \notin enabled[s]
    BY <1>1, <1>5 DEF Unsupported, OfferOf, Data
  <2> QED BY <1>7 DEF Negotiated, Unsupported
<1>10. Settling'
  BY <1>1, <1>5 DEF Negotiated, Settling
<1>11. Has(Incoming, Types) /\ (Once(Incoming, Types) => ~ Has(Incoming', Types))
  BY <1>4, <1>5, TailFacts
<1>12. mtts_enables # 0 /\ mtts_enables \in Nat
  BY <1>11 DEF Negotiated, Terminals, TypeOK
<1>13. ASSUME mtts_enables <= 1
       PROVE  /\ ~ Has(Incoming', Types) /\ ~ Has(Outgoing, Types)
              /\ number_requests \in 1 .. 3 /\ terminal = number_requests
              /\ m.data \in {Terminal[number_requests], last_received}
  <2>1. /\ ~ Has(Incoming', Types) /\ ~ Has(Outgoing, Types)
        /\ number_requests \in 1 .. 3 /\ terminal = number_requests
        /\ ~ Has(Incoming, Otherwise(number_requests))
    BY <1>11, <1>13 DEF Negotiated, Terminals
  <2>2. Head(Incoming) \notin Otherwise(number_requests)
    BY <1>5, <2>1, TailFacts
  <2> QED BY <1>3, <1>4, <1>5, <2>1, <2>2 DEF Otherwise
<1>14. TerminalUnderstood'
  <2> SUFFICES ASSUME mtts_enables <= 1, NEW i \in DOMAIN handled'
               PROVE  handled'[i].was = handled'[i].taken_for
    BY <1>1 DEF TerminalUnderstood
  <2>1. /\ handled \in Seq([was : Data, taken_for : Data])
        /\ \A j \in DOMAIN handled : handled[j].was = handled[j].taken_for
    BY DEF TypeOK, Negotiated, Terminals, TerminalUnderstood
  <2>a. CASE m.data = last_received
    BY <1>1, <2>1, <2>a
  <2>b. ASSUME m.data # last_received PROVE handled'[i].was = handled'[i].taken_for
    <3> DEFINE r == [was |-> m.data, taken_for |-> Terminal[number_requests]]
    <3>2. handled' = Append(handled, r) /\ r.was = r.taken_for
      BY <1>1, <1>13, <2>b
    <3> HIDE DEF r
    <3>3. Len(handled) \in Nat /\ Len(handled') = Len(handled) + 1
      BY <2>1, <3>2
    <3>4. CASE i = Len(handled) + 1
      BY <2>1, <3>2, <3>3, <3>4
    <3>5. CASE i # Len(handled) + 1
      BY <2>1, <3>2, <3>3, <3>5
    <3> QED BY <3>4, <3>5
  <2> QED BY <2>a, <2>b
<1>15. /\ ~ Has(Incoming', Types) => Once(Incoming', Types)
       /\ ~ Has(Outgoing, Types) => Once(Outgoing, Types)
  BY DEF Has, Once
<1>16. mtts_enables <= 1 /\ Has(Outgoing', Types) =>
         number_requests' \in 1 .. 3 /\ terminal' = number_requests' - 1
  BY <1>1, <1>7, <1>13
<1>17. mtts_enables <= 1 => Once(Outgoing', Types)
  BY <1>7, <1>13, <1>15
<1>18. Terminals'
  BY <1>1, <1>12, <1>13, <1>14, <1>15, <1>16, <1>17 DEF Terminals, Types, Otherwise
<1>19. Asking'
  <2> DEFINE F == OfferOf("remote", "MTTS")
  <2>1. Alike(Incoming, Incoming', Yes("remote", "MTTS"), No("remote", "MTTS"))
    BY <1>4, <1>5, AlikeTail DEF Sides
  <2>2. Unsure(enabled["remote"], Incoming) => Unsure(enabled["remote"], Incoming')
    BY <2>1, UnsureAlike
  <2>3. ASSUME decompressor' # "ended", mtts_enables <= 1, First(Outgoing', Types, F)
        PROVE  "MTTS" \in on["remote"] \/ Unsure(enabled["remote"], Incoming')
    <3>1. ~ Has(Outgoing, Types) /\ (First(Outgoing, Types, F) => Has(Outgoing, Types))
      BY <1>13, <2>3 DEF First, Has
    <3> HIDE DEF F
    <3>2. AsksMore(m)
      BY <1>7, <2>3, <3>1
    <3>3. PICK ms \in Seq(Raw) : Put(ms) /\ NoOffers(ms)
      BY <1>6, <3>2
    <3>4. Outgoing' = Outgoing \o ms
      BY <3>3, PutEffect
    <3>5. ~ Has(Outgoing, F)
      BY <1>5, <2>3, <3>1, <3>4, JoinFirst
    <3>6. ~ Has(Outgoing', F)
      BY <1>7, <3>5 DEF F, Sides
    <3>7. "MTTS" \in Options \cap Support["remote"]
      <4>1. "MTTS" \in Codes
        BY <1>3 DEF Raw
      <4>2. "MTTS" \in Options
        BY <4>1, Scenario DEF AllOptions, SupportRemote
      <4> QED BY <4>2 DEF Support, SupportRemote, Sides
    <3>8. Agrees(enabled'["remote"], negotiating'["remote"], on'["remote"], asked'["remote"],
                 Outgoing', Incoming', "remote", "MTTS")
      BY <1>5, <1>8, <2>3, <3>7 DEF Agreement, Sides
    <3>9. "MTTS" \in on'["remote"] \/ Unsure(enabled'["remote"], Incoming')
      BY <3>6, <3>8, UnsureOrOn DEF F
    <3> QED BY <1>1, <3>9
  <2>4. mtts_enables <= 1 /\ "MTTS" \notin negotiation' => Has(Outgoing', Types)
    BY <1>1, <1>7, <1>13
  <2> HIDE DEF F
  <2>5. decompressor' # "ended" /\ mtts_enables <= 1 =>
          /\ First(Outgoing', Types, F) =>
               "MTTS" \in on["remote"] \/ Unsure(enabled["remote"], Incoming')
          /\ mtts_enables = 1 /\ "MTTS" \notin negotiation' =>
               \/ Has(Outgoing', Types) \/ Has(Incoming', Types)
               \/ Unsure(enabled["remote"], Incoming')
    BY <2>3, <2>4
  <2> QED BY <1>1, <2>5 DEF Asking, F, Types, OfferOf, Data, Offer, Unsure, Will, WillEnable,
            Yes, No
<1> QED BY <1>8, <1>9, <1>10, <1>18, <1>19 DEF Negotiated

-------------------------------------------------------------------------------
(* The steps of the client in it *)

LEMMA AgreesMembers ==
  ASSUME NEW s \in Sides, NEW o, NEW q,
         NEW en, NEW ne, NEW cn, NEW ca, NEW d, NEW cn2, NEW ca2, NEW d2, NEW r,
         Agrees(en, ne, cn, ca, d, q, s, o),
         o \in cn2 <=> o \in cn, o \in ca2 => o \in ca,
         Has(d, OfferOf(s, o)) => Has(d2, OfferOf(s, o)),
         Alike(q, r, Yes(s, o), No(s, o))
  PROVE  Agrees(en, ne, cn2, ca2, d2, r, s, o)
BY DEF Agrees, Will, WillOffer, Alike

LEMMA AlikeItself == \A q, Y, N : Alike(q, q, Y, N)
BY DEF Alike

\* What the client says of one option says nothing of the others, nor of the terminal.
LEMMA TellsOfOne ==
  ASSUME TypeOK, NEW t \in Sides, NEW p, NEW x, Tells(x), x \in Yes(t, p) \/ x \in No(t, p)
  PROVE  /\ Fewer(Incoming, Incoming') /\ decompressor' = decompressor
         /\ Incoming \in Seq(Raw) /\ x \in Raw
         /\ decompressor # "ended" =>
              /\ Incoming' = Incoming \o <<x>>
              /\ Has(Incoming', Types) <=> Has(Incoming, Types)
              /\ \A s \in Sides : \A o : ~ (s = t /\ o = p) =>
                   Alike(Incoming, Incoming', Yes(s, o), No(s, o))
              /\ Unsure(enabled["remote"], Incoming) => Unsure(enabled["remote"], Incoming')
<1>1. /\ Incoming \in Seq(Raw) /\ x \in Raw /\ decompressor' = decompressor
      /\ Incoming' = IF decompressor = "ended" THEN Incoming ELSE Incoming \o <<x>>
  BY Typed DEF Tells
<1>2. x \notin Types
  BY <1>1, KindOf, Distinct
<1>3. ASSUME NEW s \in Sides, NEW o, ~ (s = t /\ o = p)
      PROVE  x \notin Yes(s, o) /\ x \notin No(s, o)
  <2>1. /\ Accept[t] # Reject[s] /\ Reject[t] # Accept[s]
        /\ Accept[t] = Accept[s] => s = t
        /\ Reject[t] = Reject[s] => s = t
    BY Distinct
  <2> QED BY <1>1, <1>3, <2>1, KindOf
<1>4. CASE decompressor = "ended"
  BY <1>1, <1>4 DEF Fewer
<1>5. CASE decompressor # "ended"
  <2>1. Fewer(Incoming, Incoming') /\ (Has(Incoming', Types) <=> Has(Incoming, Types))
    BY <1>1, <1>2, <1>5, FewerSaid
  <2>2. ASSUME NEW s \in Sides, NEW o, ~ (s = t /\ o = p)
        PROVE  Alike(Incoming, Incoming', Yes(s, o), No(s, o))
    BY <1>1, <1>3, <1>5, <2>2, AlikeSaid
  <2>3. Unsure(enabled["remote"], Incoming) => Unsure(enabled["remote"], Incoming')
    BY <1>1, <1>5, UnsureSaid
  <2> QED BY <1>1, <1>5, <2>1, <2>2, <2>3
<1> QED BY <1>4, <1>5

\* The client reads an offer.
LEMMA ReadOffer ==
  ASSUME TypeOK, Unsupported, NEW m, NEW t \in Sides, Read(m), m.kind = Offer[t]
  PROVE  /\ m.option \in Options \cap Support[t]
         /\ Outgoing \in Seq(Raw) /\ Outgoing # << >> /\ Outgoing' = Tail(Outgoing)
         /\ Has(Outgoing', Types) <=> Has(Outgoing, Types)
         /\ Once(Outgoing, Types) => Once(Outgoing', Types)
         /\ \A s \in Sides : \A o :
              /\ Has(Outgoing', OfferOf(s, o)) => Has(Outgoing, OfferOf(s, o))
              /\ ~ (s = t /\ o = m.option) /\ Has(Outgoing, OfferOf(s, o)) =>
                   Has(Outgoing', OfferOf(s, o))
         /\ ~ (t = "remote" /\ m.option = "MTTS") /\
              First(Outgoing', Types, OfferOf("remote", "MTTS")) =>
                First(Outgoing, Types, OfferOf("remote", "MTTS"))
<1>1. /\ Outgoing \in Seq(Raw) /\ Outgoing # << >> /\ Outgoing' = Tail(Outgoing)
      /\ Head(Outgoing) = Bare(m) /\ Bare(m) \in Raw
      /\ Bare(m).kind = Offer[t] /\ Bare(m).option = m.option
  BY Typed, ReadEffect DEF Bare
<1>2. Bare(m) \notin Types
  BY <1>1, KindOf, Distinct
<1>3. ASSUME NEW s \in Sides, NEW o
      PROVE  Bare(m) \in OfferOf(s, o) <=> s = t /\ o = m.option
  <2>1. Offer[t] = Offer[s] <=> s = t
    BY Distinct
  <2> QED BY <1>1, <2>1, KindOf
<1>4. \A P : Has(Outgoing, P) <=> Bare(m) \in P \/ Has(Outgoing', P)
  BY <1>1, TailFacts
<1>5. Once(Outgoing, Types) => Once(Outgoing', Types)
  BY <1>1, TailFacts
<1>6. m.option \in Options \cap Support[t]
  <2>1. Has(Outgoing, OfferOf(t, m.option))
    BY <1>3, <1>4
  <2> QED BY <2>1 DEF Unsupported
<1>7. ASSUME ~ (t = "remote" /\ m.option = "MTTS"),
             First(Outgoing', Types, OfferOf("remote", "MTTS"))
      PROVE  First(Outgoing, Types, OfferOf("remote", "MTTS"))
  <2> DEFINE F == OfferOf("remote", "MTTS")
  <2>1. Bare(m) \notin F
    BY <1>3, <1>7 DEF Sides
  <2>2. First(Tail(Outgoing), Types, F)
    BY <1>1, <1>7
  <2> HIDE DEF F
  <2>3. First(Outgoing, Types, F)
    BY <1>1, <2>1, <2>2, TailFacts
  <2> QED BY <2>3 DEF F
<1> QED BY <1>1, <1>2, <1>3, <1>4, <1>5, <1>6, <1>7

LEMMA OfferedKeeps ==
  ASSUME TypeOK, Input, Negotiated, NEW m, NEW t \in Sides, ClientOffered(m, t),
         UNCHANGED scenario
  PROVE  Negotiated'
<1> DEFINE p == m.option
           granted == on' = [on EXCEPT ![t] = @ \cup {p}]
<1>1. /\ UNCHANGED <<enabled, negotiating, negotiation, number_requests, handled,
                     mtts_enables, terminal, phase>>
      /\ \A s \in Sides : asked'[s] = IF s = t THEN asked[s] \ {p} ELSE asked[s]
      /\ granted => \A s \in Sides : on'[s] = IF s = t THEN on[s] \cup {p} ELSE on[s]
  BY DEF ClientOffered, statusVars, optionVars, TypeOK
<1>2. /\ Read(m) /\ m.kind = Offer[t] /\ p \notin on[t]
      /\ \/ p \in asked[t] /\ granted /\ Silent
         \/ granted /\ \E x \in Yes(t, p) : Tells(x)
         \/ on' = on /\ \E x \in No(t, p) : Tells(x)
  BY OfferedTells
<1>3. Unsupported
  BY DEF Negotiated
<1>4. /\ p \in Options \cap Support[t]
      /\ Outgoing \in Seq(Raw) /\ Outgoing # << >> /\ Outgoing' = Tail(Outgoing)
      /\ Has(Outgoing', Types) <=> Has(Outgoing, Types)
      /\ Once(Outgoing, Types) => Once(Outgoing', Types)
      /\ \A s \in Sides : \A o :
           /\ Has(Outgoing', OfferOf(s, o)) => Has(Outgoing, OfferOf(s, o))
           /\ ~ (s = t /\ o = p) /\ Has(Outgoing, OfferOf(s, o)) =>
                Has(Outgoing', OfferOf(s, o))
      /\ ~ (t = "remote" /\ p = "MTTS") /\
           First(Outgoing', Types, OfferOf("remote", "MTTS")) =>
             First(Outgoing, Types, OfferOf("remote", "MTTS"))
  BY <1>2, <1>3, ReadOffer
<1>5. Options' = Options
  BY DEF Options
<1> HIDE DEF p, granted
<1>6. /\ decompressor' = decompressor /\ Fewer(Incoming, Incoming')
      /\ \A s \in Sides : \A o : o \in on[s] => o \in on'[s]
      /\ \A s \in Sides : \A o : o \in on'[s] => o \in on[s] \/ (s = t /\ o = p)
      /\ decompressor # "ended" =>
           /\ Has(Incoming', Types) <=> Has(Incoming, Types)
           /\ \A s \in Sides : \A o : ~ (s = t /\ o = p) =>
                Alike(Incoming, Incoming', Yes(s, o), No(s, o))
           /\ Unsure(enabled["remote"], Incoming) => Unsure(enabled["remote"], Incoming')
           /\ Agrees(enabled[t], negotiating[t], on'[t], asked'[t], Outgoing', Incoming', t, p)
           /\ t = "remote" /\ p = "MTTS" =>
                "MTTS" \in on'["remote"] \/ Unsure(enabled["remote"], Incoming')
  <2>1. decompressor # "ended" =>
          Agrees(enabled[t], negotiating[t], on[t], asked[t], Outgoing, Incoming, t, p)
    BY <1>4 DEF Negotiated, Agreement
  <2>2. CASE p \in asked[t] /\ granted /\ Silent
    <3>1. Incoming' = Incoming /\ decompressor' = decompressor /\ p \in on'[t]
      BY <1>1, <2>2 DEF Silent
    <3>2. Fewer(Incoming, Incoming')
      BY <3>1 DEF Fewer
    <3>3. decompressor # "ended" =>
            Agrees(enabled[t], negotiating[t], on'[t], asked'[t], Outgoing', Incoming, t, p)
      BY <2>1, <2>2, <3>1, AgreesGranted
    <3> QED BY <1>1, <2>2, <3>1, <3>2, <3>3, AlikeItself
  <2>3. CASE granted /\ \E x \in Yes(t, p) : Tells(x)
    <3>1. PICK x \in Yes(t, p) : Tells(x)
      BY <2>3
    <3>2. /\ Fewer(Incoming, Incoming') /\ decompressor' = decompressor
          /\ Incoming \in Seq(Raw) /\ x \in Raw
          /\ decompressor # "ended" =>
              /\ Incoming' = Incoming \o <<x>>
              /\ Has(Incoming', Types) <=> Has(Incoming, Types)
              /\ \A s \in Sides : \A o : ~ (s = t /\ o = p) =>
                   Alike(Incoming, Incoming', Yes(s, o), No(s, o))
              /\ Unsure(enabled["remote"], Incoming) => Unsure(enabled["remote"], Incoming')
      BY <3>1, TellsOfOne
    <3>3. p \in on'[t]
      BY <1>1, <2>3
    <3>4. decompressor # "ended" =>
            Agrees(enabled[t], negotiating[t], on'[t], asked'[t], Outgoing',
                   Incoming \o <<x>>, t, p)
      BY <1>2, <2>1, <3>1, <3>2, <3>3, AgreesSaidYes
    <3> QED BY <1>1, <2>3, <3>2, <3>3, <3>4
  <2>4. CASE on' = on /\ \E x \in No(t, p) : Tells(x)
    <3>1. PICK x \in No(t, p) : Tells(x)
      BY <2>4
    <3>2. /\ Fewer(Incoming, Incoming') /\ decompressor' = decompressor
          /\ Incoming \in Seq(Raw) /\ x \in Raw
          /\ decompressor # "ended" =>
              /\ Incoming' = Incoming \o <<x>>
              /\ Has(Incoming', Types) <=> Has(Incoming, Types)
              /\ \A s \in Sides : \A o : ~ (s = t /\ o = p) =>
                   Alike(Incoming, Incoming', Yes(s, o), No(s, o))
              /\ Unsure(enabled["remote"], Incoming) => Unsure(enabled["remote"], Incoming')
      BY <3>1, TellsOfOne
    <3>3. p \notin on'[t] /\ p \notin asked'[t]
      BY <1>1, <1>2, <2>4
    <3>4. Agrees(enabled[t], negotiating[t], on'[t], asked'[t], Outgoing',
                   Incoming \o <<x>>, t, p)
      BY <3>1, <3>2, <3>3, AgreesSaidNo
    <3>5. t = "remote" /\ p = "MTTS" => Unsure(enabled["remote"], Incoming \o <<x>>)
      BY <3>1, <3>2, UnsureSaidNo
    <3> QED BY <2>4, <3>2, <3>4, <3>5
  <2> QED BY <1>2, <2>2, <2>3, <2>4
<1>7. Agreement'
  <2> SUFFICES ASSUME decompressor # "ended", NEW s \in Sides, NEW o \in Options \cap Support[s]
               PROVE  Agrees(enabled[s], negotiating[s], on'[s], asked'[s], Outgoing',
                             Incoming', s, o)
    BY <1>1, <1>5, <1>6 DEF Agreement
  <2>1. CASE s = t /\ o = p
    BY <1>6, <2>1
  <2>2. CASE ~ (s = t /\ o = p)
    <3>1. Agrees(enabled[s], negotiating[s], on[s], asked[s], Outgoing, Incoming, s, o)
      BY DEF Negotiated, Agreement
    <3>2. (o \in on'[s] <=> o \in on[s]) /\ (o \in asked'[s] => o \in asked[s])
      BY <1>1, <1>6, <2>2
    <3>3. /\ Has(Outgoing, OfferOf(s, o)) => Has(Outgoing', OfferOf(s, o))
          /\ Alike(Incoming, Incoming', Yes(s, o), No(s, o))
      BY <1>4, <1>6, <2>2
    <3> QED BY <3>1, <3>2, <3>3, AgreesMembers
  <2> QED BY <2>1, <2>2
<1>8. Unsupported'
  <2> SUFFICES ASSUME NEW s \in Sides, NEW o, o \notin Options \cap Support[s]
               PROVE  ~ Has(Outgoing', OfferOf(s, o)) /\ o \notin on'[s] /\ o \notin enabled[s]
    BY <1>1, <1>5 DEF Unsupported, OfferOf, Data
  <2> QED BY <1>4, <1>6 DEF Negotiated, Unsupported
<1>9. Settling'
  BY <1>1, <1>5 DEF Negotiated, Settling
<1>10. Terminals'
  BY <1>1, <1>4, <1>6, TerminalsKept DEF Negotiated, Terminals
<1>11. Asking'
  BY <1>1, <1>4, <1>6, AskingKept DEF Negotiated, Sides
<1> QED BY <1>7, <1>8, <1>9, <1>10, <1>11 DEF Negotiated

LEMMA OfferedAgainKeeps ==
  ASSUME TypeOK, Input, Negotiated, NEW m, NEW t \in Sides, ClientOfferedAgain(m, t),
         UNCHANGED scenario
  PROVE  Negotiated'
<1> DEFINE p == m.option
<1>1. /\ UNCHANGED <<enabled, negotiating, negotiation, number_requests, handled,
                     mtts_enables, on, asked, terminal, phase>>
      /\ Read(m) /\ m.kind = Offer[t] /\ p \in on[t]
  BY DEF ClientOfferedAgain, statusVars, optionVars, clientVars
<1>2. Incoming' = Incoming /\ decompressor' = decompressor /\ Options' = Options
  <2>1. Apart
    BY DEF Apart
  <2> QED BY <2>1, ApartSilent DEF Silent, Options
<1>3. Unsupported
  BY DEF Negotiated
<1>4. /\ p \in Options \cap Support[t]
      /\ Has(Outgoing', Types) <=> Has(Outgoing, Types)
      /\ Once(Outgoing, Types) => Once(Outgoing', Types)
      /\ \A s \in Sides : \A o :
           /\ Has(Outgoing', OfferOf(s, o)) => Has(Outgoing, OfferOf(s, o))
           /\ ~ (s = t /\ o = p) /\ Has(Outgoing, OfferOf(s, o)) =>
                Has(Outgoing', OfferOf(s, o))
      /\ ~ (t = "remote" /\ p = "MTTS") /\
           First(Outgoing', Types, OfferOf("remote", "MTTS")) =>
             First(Outgoing, Types, OfferOf("remote", "MTTS"))
  BY <1>1, <1>3, ReadOffer
<1> HIDE DEF p
<1>5. Agreement'
  <2> SUFFICES ASSUME decompressor # "ended", NEW s \in Sides, NEW o \in Options \cap Support[s]
               PROVE  Agrees(enabled[s], negotiating[s], on[s], asked[s], Outgoing', Incoming,
                             s, o)
    BY <1>1, <1>2 DEF Agreement
  <2>1. Agrees(enabled[s], negotiating[s], on[s], asked[s], Outgoing, Incoming, s, o)
    BY DEF Negotiated, Agreement
  <2>2. CASE s = t /\ o = p
    BY <1>1, <2>1, <2>2, AgreesGranted
  <2>3. CASE ~ (s = t /\ o = p)
    BY <1>4, <2>1, <2>3, AgreesMembers, AlikeItself
  <2> QED BY <2>2, <2>3
<1>6. Unsupported'
  <2> SUFFICES ASSUME NEW s \in Sides, NEW o, o \notin Options \cap Support[s]
               PROVE  ~ Has(Outgoing', OfferOf(s, o)) /\ o \notin on[s] /\ o \notin enabled[s]
    BY <1>1, <1>2 DEF Unsupported, OfferOf, Data
  <2> QED BY <1>4 DEF Negotiated, Unsupported
<1>7. Settling'
  BY <1>1, <1>2 DEF Negotiated, Settling
<1>8. Fewer(Incoming, Incoming')
  BY <1>2 DEF Fewer
<1>9. Terminals'
  BY <1>1, <1>4, <1>8, TerminalsKept DEF Negotiated, Terminals
<1>10. Asking'
  BY <1>1, <1>2, <1>4, AskingKept DEF Negotiated
<1> QED BY <1>5, <1>6, <1>7, <1>9, <1>10 DEF Negotiated

\* The client asks for an option, or gives one up.
LEMMA ChangesKeep ==
  ASSUME TypeOK, Input, Negotiated, NEW t \in Sides, NEW p \in Codes,
         ClientAsks(t, p) \/ ClientStops(t, p), UNCHANGED scenario
  PROVE  Negotiated'
<1>1. UNCHANGED <<enabled, negotiating, negotiation, number_requests, handled, mtts_enables,
                  terminal, phase, to_client>>
  BY DEF ClientAsks, ClientStops, statusVars, optionVars, outVars
<1>2. Options' = Options /\ Outgoing' = Outgoing
  BY <1>1 DEF Options, Outgoing
<1>3. /\ decompressor' = decompressor /\ Fewer(Incoming, Incoming')
      /\ \A s \in Sides : \A o : o \in on'[s] => o \in on[s]
      /\ \A s \in Sides : \A o : ~ (s = t /\ o = p) =>
           (o \in on[s] <=> o \in on'[s]) /\ (o \in asked'[s] => o \in asked[s])
      /\ decompressor # "ended" =>
           /\ Has(Incoming', Types) <=> Has(Incoming, Types)
           /\ \A s \in Sides : \A o : ~ (s = t /\ o = p) =>
                Alike(Incoming, Incoming', Yes(s, o), No(s, o))
           /\ Unsure(enabled["remote"], Incoming) => Unsure(enabled["remote"], Incoming')
           /\ p \in Support[t] /\ p \in Options =>
                Agrees(enabled[t], negotiating[t], on'[t], asked'[t], Outgoing, Incoming', t, p)
           /\ t = "remote" /\ p = "MTTS" /\ "MTTS" \in on["remote"] =>
                "MTTS" \in on'["remote"] \/ Unsure(enabled["remote"], Incoming')
  <2>1. CASE ClientAsks(t, p)
    <3>1. /\ \A s \in Sides : asked'[s] = IF s = t THEN asked[s] \cup {p} ELSE asked[s]
          /\ on' = on /\ p \notin on[t]
      BY <2>1 DEF ClientAsks, TypeOK
    <3>2. PICK x \in Yes(t, p) : Tells(x)
      BY <2>1, AsksTells
    <3>3. /\ Fewer(Incoming, Incoming') /\ decompressor' = decompressor
          /\ Incoming \in Seq(Raw) /\ x \in Raw
          /\ decompressor # "ended" =>
              /\ Incoming' = Incoming \o <<x>>
              /\ Has(Incoming', Types) <=> Has(Incoming, Types)
              /\ \A s \in Sides : \A o : ~ (s = t /\ o = p) =>
                   Alike(Incoming, Incoming', Yes(s, o), No(s, o))
              /\ Unsure(enabled["remote"], Incoming) => Unsure(enabled["remote"], Incoming')
      BY <3>2, TellsOfOne
    <3>4. ASSUME decompressor # "ended", p \in Support[t], p \in Options
          PROVE  Agrees(enabled[t], negotiating[t], on'[t], asked'[t], Outgoing,
                        Incoming \o <<x>>, t, p)
      <4>1. Agrees(enabled[t], negotiating[t], on[t], asked[t], Outgoing, Incoming, t, p)
        BY <3>4 DEF Negotiated, Agreement
      <4> QED BY <3>1, <3>2, <3>3, <4>1, AgreesSaidYes
    <3> QED BY <3>1, <3>3, <3>4
  <2>2. CASE ClientStops(t, p)
    <3>1. \A s \in Sides : /\ asked'[s] = IF s = t THEN asked[s] \ {p} ELSE asked[s]
                           /\ on'[s] = IF s = t THEN on[s] \ {p} ELSE on[s]
      BY <2>2 DEF ClientStops, TypeOK
    <3>2. PICK x \in No(t, p) : Tells(x)
      BY <2>2, StopsTells
    <3>3. /\ Fewer(Incoming, Incoming') /\ decompressor' = decompressor
          /\ Incoming \in Seq(Raw) /\ x \in Raw
          /\ decompressor # "ended" =>
              /\ Incoming' = Incoming \o <<x>>
              /\ Has(Incoming', Types) <=> Has(Incoming, Types)
              /\ \A s \in Sides : \A o : ~ (s = t /\ o = p) =>
                   Alike(Incoming, Incoming', Yes(s, o), No(s, o))
              /\ Unsure(enabled["remote"], Incoming) => Unsure(enabled["remote"], Incoming')
      BY <3>2, TellsOfOne
    <3>4. p \notin on'[t] /\ p \notin asked'[t]
      BY <3>1
    <3>5. Agrees(enabled[t], negotiating[t], on'[t], asked'[t], Outgoing,
                 Incoming \o <<x>>, t, p)
      BY <3>2, <3>3, <3>4, AgreesSaidNo
    <3>6. t = "remote" /\ p = "MTTS" => Unsure(enabled["remote"], Incoming \o <<x>>)
      BY <3>2, <3>3, UnsureSaidNo
    <3> QED BY <3>1, <3>3, <3>5, <3>6
  <2> QED BY <2>1, <2>2
<1>4. Agreement'
  <2> SUFFICES ASSUME decompressor # "ended", NEW s \in Sides, NEW o \in Options \cap Support[s]
               PROVE  Agrees(enabled[s], negotiating[s], on'[s], asked'[s], Outgoing,
                             Incoming', s, o)
    BY <1>1, <1>2, <1>3 DEF Agreement
  <2>1. CASE s = t /\ o = p
    BY <1>3, <2>1
  <2>2. CASE ~ (s = t /\ o = p)
    <3>1. Agrees(enabled[s], negotiating[s], on[s], asked[s], Outgoing, Incoming, s, o)
      BY DEF Negotiated, Agreement
    <3>2. /\ (o \in on'[s] <=> o \in on[s]) /\ (o \in asked'[s] => o \in asked[s])
          /\ Alike(Incoming, Incoming', Yes(s, o), No(s, o))
      BY <1>3, <2>2
    <3> QED BY <3>1, <3>2, AgreesMembers
  <2> QED BY <2>1, <2>2
<1>5. Unsupported'
  BY <1>1, <1>2, <1>3 DEF Negotiated, Unsupported, OfferOf, Data
<1>6. Settling'
  BY <1>1, <1>2 DEF Negotiated, Settling
<1>7. Terminals'
  BY <1>1, <1>2, <1>3, TerminalsKept DEF Negotiated, Terminals
<1>8. Asking'
  <2>1. decompressor # "ended" /\ "MTTS" \in on["remote"] =>
          "MTTS" \in on'["remote"] \/ Unsure(enabled["remote"], Incoming')
    BY <1>3 DEF Sides
  <2> QED BY <1>1, <1>2, <1>3, <2>1, AskingKept DEF Negotiated
<1> QED BY <1>4, <1>5, <1>6, <1>7, <1>8 DEF Negotiated

\* The client is asked for its terminal.
LEMMA AskedKeeps ==
  ASSUME TypeOK, Input, Negotiated, NEW m, ClientAsked(m), m.option = "MTTS",
         UNCHANGED scenario
  PROVE  Negotiated'
<1> DEFINE F == OfferOf("remote", "MTTS")
<1>1. UNCHANGED <<enabled, negotiating, negotiation, number_requests, handled, mtts_enables,
                  on, asked, phase>>
  BY DEF ClientAsked, statusVars, optionVars
<1>2. /\ Read(m) /\ m.kind = "SB"
      /\ \/ /\ "MTTS" \in on["remote"] /\ terminal' = terminal + 1
            /\ \E x \in Types : /\ Tells(x)
                                /\ x.data \in {Terminal[IF terminal < 3 THEN terminal + 1
                                                          ELSE 3], last_received}
         \/ "MTTS" \notin on["remote"] /\ terminal' = terminal /\ Silent
  BY AskedTells
<1>3. /\ Outgoing \in Seq(Raw) /\ Outgoing # << >> /\ Head(Outgoing) = Bare(m)
      /\ Outgoing' = Tail(Outgoing) /\ Bare(m) \in Raw /\ Incoming \in Seq(Raw)
      /\ Bare(m).kind = "SB" /\ Bare(m).option = "MTTS"
  BY <1>2, Typed, ReadEffect DEF Bare
<1>4. Bare(m) \in Types /\ \A s \in Sides : \A o : Bare(m) \notin OfferOf(s, o)
  BY <1>3, KindOf, Distinct
<1>5. /\ \A P : Has(Outgoing, P) <=> Bare(m) \in P \/ Has(Outgoing', P)
      /\ First(Outgoing, Types, F)
      /\ Once(Outgoing, Types) => Once(Outgoing', Types) /\ ~ Has(Outgoing', Types)
      /\ First(Outgoing', Types, F) => Has(Outgoing', Types)
  <2> HIDE DEF F
  <2>1. /\ \A P : Has(Outgoing, P) <=> Bare(m) \in P \/ Has(Outgoing', P)
        /\ First(Outgoing, Types, F)
        /\ Once(Outgoing, Types) => Once(Outgoing', Types) /\ ~ Has(Outgoing', Types)
    BY <1>3, <1>4, TailFacts
  <2>2. First(Outgoing', Types, F) => Has(Outgoing', Types)
    BY DEF First, Has
  <2> QED BY <2>1, <2>2
<1>6. Options' = Options /\ decompressor' = decompressor
  BY <1>2 DEF Options, Tells, Silent
<1>7. \A s \in Sides : \A o : Has(Outgoing', OfferOf(s, o)) <=> Has(Outgoing, OfferOf(s, o))
  BY <1>4, <1>5
<1> HIDE DEF F
<1>8. decompressor # "ended" => InAlike
  <2>1. ASSUME NEW x \in Types, Tells(x), decompressor # "ended",
               NEW s \in Sides, NEW o \in Options \cap Support[s]
        PROVE  Alike(Incoming, Incoming', Yes(s, o), No(s, o))
    <3>1. x \in Raw /\ Incoming' = Incoming \o <<x>>
      BY <2>1 DEF Tells
    <3>2. x \notin Yes(s, o) /\ x \notin No(s, o)
      BY <2>1, <3>1, KindOf, Distinct
    <3> QED BY <1>3, <3>1, <3>2, AlikeSaid
  <2> QED BY <1>2, <2>1, AlikeItself DEF InAlike, Silent
<1>9. Agreement'
  <2> SUFFICES ASSUME decompressor # "ended", NEW s \in Sides, NEW o \in Options \cap Support[s]
               PROVE  Agrees(enabled[s], negotiating[s], on[s], asked[s], Outgoing', Incoming',
                             s, o)
    BY <1>1, <1>6 DEF Agreement
  <2>1. Agrees(enabled[s], negotiating[s], on[s], asked[s], Outgoing, Incoming, s, o)
    BY DEF Negotiated, Agreement
  <2>2. Alike(Incoming, Incoming', Yes(s, o), No(s, o))
    BY <1>8 DEF InAlike
  <2> QED BY <1>7, <2>1, <2>2, AgreesAlike
<1>10. Unsupported'
  <2> SUFFICES ASSUME NEW s \in Sides, NEW o, o \notin Options \cap Support[s]
               PROVE  ~ Has(Outgoing', OfferOf(s, o)) /\ o \notin on[s] /\ o \notin enabled[s]
    BY <1>1, <1>6 DEF Unsupported, OfferOf, Data
  <2> QED BY <1>7 DEF Negotiated, Unsupported
<1>11. Settling'
  BY <1>1, <1>6 DEF Negotiated, Settling
<1>12. Has(Outgoing, Types)
  BY <1>4, <1>5
<1>13. mtts_enables # 0 /\ mtts_enables \in Nat
  BY <1>12 DEF Negotiated, Terminals, TypeOK
<1>14. mtts_enables <= 1 =>
         /\ number_requests \in 1 .. 3 /\ terminal = number_requests - 1
         /\ ~ Has(Incoming, Types) /\ Once(Outgoing', Types) /\ ~ Has(Outgoing', Types)
  BY <1>5, <1>12 DEF Negotiated, Terminals
<1>15. TerminalUnderstood'
  BY <1>1 DEF Negotiated, Terminals, TerminalUnderstood
<1>16. ~ Has(Incoming, Types) => Once(Incoming, Types)
  BY DEF Has, Once
<1>17. CASE "MTTS" \notin on["remote"] /\ terminal' = terminal /\ Silent
  <2>1. Incoming' = Incoming
    BY <1>17 DEF Silent
  <2>2. Terminals'
    BY <1>1, <1>13, <1>14, <1>15, <1>16, <2>1 DEF Terminals, Types, Otherwise
  <2>3. decompressor # "ended" /\ mtts_enables <= 1 => Unsure(enabled["remote"], Incoming)
    BY <1>5, <1>17 DEF Negotiated, Asking, F
  <2>4. Asking'
    <3>1. mtts_enables <= 1 => ~ First(Outgoing', Types, F)
      BY <1>5, <1>14
    <3> QED BY <1>1, <1>6, <2>1, <2>3, <3>1, AskingKept DEF Negotiated, F
  <2> QED BY <1>9, <1>10, <1>11, <2>2, <2>4 DEF Negotiated
<1>18. ASSUME "MTTS" \in on["remote"], terminal' = terminal + 1,
              NEW x \in Types, Tells(x),
              x.data \in {Terminal[IF terminal < 3 THEN terminal + 1 ELSE 3], last_received}
       PROVE  Negotiated'
  <2> DEFINE r == <<x>>
  <2>1. x \in Raw /\ r \in Seq(Raw)
    BY <1>18 DEF Tells
  <2>2. \A P : (Has(r, P) <=> x \in P) /\ Once(r, P)
    BY Single
  <2>3. Incoming' = IF decompressor = "ended" THEN Incoming ELSE Incoming \o r
    BY <1>18 DEF Tells
  <2> HIDE DEF r
  <2>4. decompressor # "ended" =>
          /\ \A P : Has(Incoming', P) <=> Has(Incoming, P) \/ x \in P
          /\ ~ Has(Incoming, Types) => Once(Incoming', Types)
    <3>1. \A P : Has(Incoming \o r, P) <=> Has(Incoming, P) \/ x \in P
      BY <1>3, <2>1, <2>2, JoinHas
    <3>2. ~ Has(Incoming, Types) => Once(Incoming \o r, Types)
      BY <1>3, <1>16, <2>1, <2>2, JoinOnce
    <3> QED BY <2>3, <3>1, <3>2
  <2>5. mtts_enables <= 1 =>
          /\ terminal' = number_requests /\ x \notin Otherwise(number_requests)
          /\ ~ Has(Incoming, Otherwise(number_requests))
    <3>1. mtts_enables <= 1 => /\ terminal' = number_requests
                               /\ x.data \in {Terminal[number_requests], last_received}
      BY <1>14, <1>18
    <3>2. ~ Has(Incoming, Types) => ~ Has(Incoming, Otherwise(number_requests))
      BY DEF Has, Otherwise
    <3> QED BY <1>14, <3>1, <3>2 DEF Otherwise
  <2>6. mtts_enables <= 1 =>
          /\ Once(Incoming', Types) /\ terminal' = number_requests
          /\ ~ Has(Incoming', Otherwise(number_requests))
    <3>1. CASE decompressor = "ended"
      BY <1>14, <1>16, <2>3, <2>5, <3>1
    <3>2. CASE decompressor # "ended"
      BY <1>14, <2>4, <2>5, <3>2
    <3> QED BY <3>1, <3>2
  <2>7. Terminals'
    BY <1>1, <1>13, <1>14, <1>15, <2>6 DEF Terminals, Types, Otherwise
  <2>8. Asking'
    <3>1. mtts_enables <= 1 => ~ First(Outgoing', Types, F)
      BY <1>5, <1>14
    <3>2. decompressor # "ended" => Has(Incoming', Types)
      BY <1>18, <2>4
    <3>3. decompressor # "ended" =>
            (Unsure(enabled["remote"], Incoming) => Unsure(enabled["remote"], Incoming'))
      <4>1. ASSUME decompressor # "ended", Unsure(enabled["remote"], Incoming)
            PROVE  Unsure(enabled["remote"], Incoming \o <<x>>)
        BY <1>3, <2>1, <4>1, UnsureSaid
      <4> QED BY <2>3, <4>1 DEF r
    <3> QED BY <1>1, <1>6, <3>1, <3>2, <3>3, AskingKept DEF Negotiated, F
  <2> QED BY <1>9, <1>10, <1>11, <2>7, <2>8 DEF Negotiated
<1> QED BY <1>2, <1>17, <1>18

-------------------------------------------------------------------------------
(* The invariant is inductive *)

LEMMA NegotiatedInit == Init => Negotiated
<1> SUFFICES ASSUME Init PROVE Negotiated
  OBVIOUS
<1>1. /\ enabled = Nobody /\ negotiating = Nobody /\ on = Nobody /\ asked = Nobody
      /\ phase = "new" /\ decompressor = "off" /\ in_buffer = << >> /\ to_server = << >>
      /\ to_client = << >> /\ number_requests = 0 /\ terminal = 0 /\ handled = << >>
      /\ mtts_enables = 0
  BY DEF Init
<1>2. \A s \in Sides : enabled[s] = {} /\ negotiating[s] = {} /\ on[s] = {} /\ asked[s] = {}
  BY <1>1 DEF Nobody
<1>3. Incoming = << >> /\ Outgoing = << >>
  BY <1>1 DEF Incoming, Outgoing, Heard, BareOf
<1>4. \A P, R : ~ Has(<< >>, P) /\ ~ Last(<< >>, P, R) /\ ~ First(<< >>, P, R) /\ Once(<< >>, P)
  BY Empty
<1>5. Agreement
  BY <1>2, <1>3, <1>4 DEF Agreement, Agrees, Will
<1>6. Unsupported /\ Settling
  BY <1>1, <1>2, <1>3, <1>4 DEF Unsupported, Settling
<1>7. Terminals
  BY <1>1, <1>2, <1>3, <1>4 DEF Terminals, TerminalUnderstood, Sides
<1>8. Asking
  BY <1>1, <1>3, <1>4 DEF Asking
<1> QED BY <1>5, <1>6, <1>7, <1>8 DEF Negotiated

\* Every step is one of the negotiation or one beside it.
Talking ==
  \/ Start
  \/ \E m : \/ \E s \in Sides : ReceiveYes(m, s) \/ ReceiveYesAgain(m, s) \/ ReceiveNo(m, s)
                                  \/ ClientOffered(m, s) \/ ClientOfferedAgain(m, s)
            \/ ReceiveTerminal(m) \/ (ClientAsked(m) /\ m.option = "MTTS")
  \/ \E s \in Sides, o \in Codes : ClientAsks(s, o) \/ ClientStops(s, o)

LEMMA Talks ==
  ASSUME [Next]_vars
  PROVE  UNCHANGED scenario /\ (AsideStep \/ Talking)
<1>1. Server => AsideStep \/ Talking
  BY Zenon DEF Server, AsideStep, Talking
<1>2. Client => AsideStep \/ Talking
  BY Zenon DEF Client, AsideStep, Talking
<1>3. UNCHANGED vars => AsideStep
  BY DEF AsideStep
<1>4. UNCHANGED scenario
  BY DEF Next, vars
<1> QED BY <1>1, <1>2, <1>3, <1>4 DEF Next

LEMMA NegotiatedNext ==
  ASSUME TypeOK, Input, Negotiated, [Next]_vars
  PROVE  Negotiated'
<1>1. UNCHANGED scenario
  BY Talks
<1>2. CASE AsideStep
  BY <1>1, <1>2, AsideSteps, AsideKeeps
<1>3. CASE Start
  BY <1>1, <1>3, StartKeeps
<1>4. ASSUME NEW m, NEW s \in Sides,
             \/ ReceiveYes(m, s) \/ ReceiveYesAgain(m, s) \/ ReceiveNo(m, s)
             \/ ClientOffered(m, s) \/ ClientOfferedAgain(m, s)
      PROVE  Negotiated'
  BY <1>1, <1>4, YesKeeps, YesAgainKeeps, NoKeeps, OfferedKeeps, OfferedAgainKeeps
<1>5. ASSUME NEW m, ReceiveTerminal(m) \/ (ClientAsked(m) /\ m.option = "MTTS")
      PROVE  Negotiated'
  BY <1>1, <1>5, TerminalKeeps, AskedKeeps
<1>6. ASSUME NEW s \in Sides, NEW o \in Codes, ClientAsks(s, o) \/ ClientStops(s, o)
      PROVE  Negotiated'
  BY <1>1, <1>6, ChangesKeep
<1> QED BY <1>2, <1>3, <1>4, <1>5, <1>6, Talks DEF Talking

-------------------------------------------------------------------------------
(* What is asked of the charset *)

Requests == [kind : {"SB"}, option : {"CHARSET"}, data : Data]
Answers == [kind : {"SB"}, option : {"CHARSET"}, data : {"accepted", "rejected"}]

\* Once CHARSET has been enabled, the request for a charset or the client's answer is on
\* its way, until the answer settles it.
Charsets ==
  /\ charset_enabled \/ \A s \in Sides : "CHARSET" \notin enabled[s]
  /\ charset_enabled /\ decompressor # "ended" =>
       \/ "CHARSET" \in negotiation \/ charset_rejected
       \/ Has(Outgoing, Requests) \/ Has(Incoming, Answers)

LEMMA RequestKind ==
  ASSUME NEW x \in Raw
  PROVE  /\ x \in Requests <=> x.kind = "SB" /\ x.option = "CHARSET"
         /\ x \in Answers => x.kind = "SB" /\ x.option = "CHARSET"
<1>1. x = [kind |-> x.kind, option |-> x.option, data |-> x.data] /\ x.data \in Data
  BY DEF Raw
<1> QED BY <1>1 DEF Requests, Answers

\* No request and no answer gets lost.
OutKept == Has(Outgoing, Requests) => Has(Outgoing', Requests)
InKept ==
  decompressor' # "ended" =>
    decompressor # "ended" /\ (Has(Incoming, Answers) => Has(Incoming', Answers))

LEMMA CharsetsKept ==
  ASSUME Charsets, OutKept, InKept, charset_enabled' = charset_enabled,
         charset_rejected' = charset_rejected, negotiation \subseteq negotiation',
         \A s \in Sides : "CHARSET" \in enabled'[s] => "CHARSET" \in enabled[s]
  PROVE  Charsets'
<1> DEFINE R == Has(Outgoing, Requests)
           R2 == Has(Outgoing', Requests)
           A == Has(Incoming, Answers)
           A2 == Has(Incoming', Answers)
<1>1. Charsets => /\ charset_enabled \/ \A s \in Sides : "CHARSET" \notin enabled[s]
                  /\ charset_enabled /\ decompressor # "ended" =>
                       "CHARSET" \in negotiation \/ charset_rejected \/ R \/ A
  BY DEF Charsets
<1>2. (/\ charset_enabled' \/ \A s \in Sides : "CHARSET" \notin enabled'[s]
       /\ charset_enabled' /\ decompressor' # "ended" =>
            "CHARSET" \in negotiation' \/ charset_rejected' \/ R2 \/ A2) => Charsets'
  BY DEF Charsets, Requests, Answers, Data
<1>3. (R => R2) /\ (decompressor' # "ended" => decompressor # "ended" /\ (A => A2))
  BY DEF OutKept, InKept
<1> HIDE DEF R, R2, A, A2
<1> QED BY <1>1, <1>2, <1>3

LEMMA PutOutKept ==
  ASSUME TypeOK, UNCHANGED to_client \/ \E ms : MarkedLast(ms) /\ Put(ms)
  PROVE  OutKept
<1>1. CASE UNCHANGED to_client
  BY <1>1 DEF OutKept, Outgoing
<1>2. ASSUME NEW ms, MarkedLast(ms), Put(ms) PROVE OutKept
  <2>1. ms \in Seq(Raw) /\ Outgoing \in Seq(Raw) /\ Outgoing' = Outgoing \o ms
    BY <1>2, Typed, PutEffect DEF MarkedLast
  <2> QED BY <2>1, JoinHas DEF OutKept
<1> QED BY <1>1, <1>2

LEMMA ReadOutKept ==
  ASSUME TypeOK, NEW m, Read(m), ~ (m.kind = "SB" /\ m.option = "CHARSET")
  PROVE  OutKept
<1>1. /\ Outgoing \in Seq(Raw) /\ Outgoing # << >> /\ Head(Outgoing) = Bare(m)
      /\ Outgoing' = Tail(Outgoing) /\ Bare(m) \in Raw
  BY Typed, ReadEffect
<1>2. Bare(m) \notin Requests
  BY <1>1, RequestKind DEF Bare
<1> QED BY <1>1, <1>2, TailFacts DEF OutKept

LEMMA TellsInKept ==
  ASSUME TypeOK, Silent \/ \E x : Tells(x)
  PROVE  InKept
<1>1. CASE Silent
  BY <1>1 DEF Silent, InKept
<1>2. ASSUME NEW x, Tells(x) PROVE InKept
  <2> DEFINE r == <<x>>
  <2>1. r \in Seq(Raw) /\ Incoming \in Seq(Raw)
    BY <1>2, Typed DEF Tells
  <2>2. /\ decompressor' = decompressor
        /\ decompressor # "ended" => Incoming' = Incoming \o r
    BY <1>2 DEF Tells
  <2> HIDE DEF r
  <2>3. Has(Incoming, Answers) => Has(Incoming \o r, Answers)
    BY <2>1, JoinHas
  <2> QED BY <2>2, <2>3 DEF InKept
<1> QED BY <1>1, <1>2

\* The server's handling of anything but an answer.
LEMMA DroppedInKept ==
  ASSUME TypeOK, NEW m, Incoming # << >>, Head(Incoming) = Bare(m), Bare(m) \in Raw,
         decompressor' # "ended" => decompressor # "ended" /\ Incoming' = Tail(Incoming),
         ~ (m.kind = "SB" /\ m.option = "CHARSET")
  PROVE  InKept
<1>1. Bare(m) \notin Answers
  BY RequestKind DEF Bare
<1>2. Has(Incoming, Answers) <=> Has(Tail(Incoming), Answers)
  BY <1>1, Typed, TailFacts
<1> QED BY <1>2 DEF InKept

LEMMA YesCharsets ==
  ASSUME TypeOK, Input, Charsets, NEW m, NEW s \in Sides, ReceiveYes(m, s)
  PROVE  Charsets'
<1>1. Handling(m) /\ m.option \in Options \cap Support[s] /\ m.kind = Accept[s]
  BY DEF Handling, ReceiveYes
<1>2. Heeds(m) /\ m.kind # "SB"
  BY <1>1, HandlingHeeds, Distinct
<1>3. InKept
  BY <1>2, DroppedInKept DEF Heeds
<1>4. OutKept
  BY YesPuts, PutOutKept
<1>5. /\ charset_enabled' = (charset_enabled \/ m.option = "CHARSET")
      /\ charset_rejected' = charset_rejected /\ negotiation \subseteq negotiation'
      /\ enabled' = [enabled EXCEPT ![s] = @ \cup {m.option}]
  BY DEF ReceiveYes, AtEnable
<1>6. enabled \in [Sides -> SUBSET Options] /\ charset_enabled \in BOOLEAN
  BY DEF TypeOK
<1>7. CASE m.option # "CHARSET"
  <2>1. \A t \in Sides : "CHARSET" \in enabled'[t] => "CHARSET" \in enabled[t]
    BY <1>5, <1>6, <1>7
  <2>2. charset_enabled' = charset_enabled
    BY <1>5, <1>6, <1>7
  <2> QED BY <1>3, <1>4, <1>5, <2>1, <2>2, CharsetsKept
<1>8. CASE m.option = "CHARSET" /\ charset_enabled
  <2>1. charset_enabled' /\ charset_enabled
    BY <1>5, <1>8
  <2>2. decompressor # "ended" =>
          \/ "CHARSET" \in negotiation \/ charset_rejected
          \/ Has(Outgoing, Requests) \/ Has(Incoming, Answers)
    BY <2>1 DEF Charsets
  <2>3. decompressor' # "ended" =>
          \/ "CHARSET" \in negotiation' \/ charset_rejected'
          \/ Has(Outgoing', Requests) \/ Has(Incoming', Answers)
    BY <1>3, <1>4, <1>5, <2>2 DEF InKept, OutKept
  <2> QED BY <2>1, <2>3 DEF Charsets, Requests, Answers, Data
<1>9. CASE m.option = "CHARSET" /\ ~ charset_enabled
  <2> DEFINE a == IF m.option \in negotiating[s] THEN << >>
                    ELSE <<Negotiate(Offer[s], m.option)>>
             x == Subnegotiate("CHARSET", "")
             b == <<x>>
  <2>1. EnableMessages(m.option) = b /\ Put(a \o EnableMessages(m.option))
    BY <1>9 DEF ReceiveYes, EnableMessages
  <2>2. a \in Seq(Raw)
    <3>1. Offer[s] \in {"WILL", "DO"} /\ m.option \in Codes
      BY <1>1, Scenario DEF Offer, Sides
    <3>2. <<Negotiate(Offer[s], m.option)>> \in Seq(Raw)
      <4>1. Negotiate(Offer[s], m.option) \in Raw
        BY <3>1, NegotiateRaw
      <4> HIDE DEF a, b, x
      <4> QED BY <4>1
    <3> QED BY <3>2
  <2>3. x \in Raw /\ x.kind = "SB" /\ x.option = "CHARSET"
    BY <1>1, <1>9, Scenario, SubnegotiateRaw DEF Subnegotiate, Data
  <2> HIDE DEF a, x
  <2>4. b \in Seq(Raw) /\ Has(b, Requests)
    BY <2>3, RequestKind, Single
  <2> HIDE DEF b
  <2>5. a \o b \in Seq(Raw) /\ Put(a \o b)
    BY <2>1, <2>2, <2>4
  <2>6. Has(a \o b, Requests)
    BY <2>2, <2>4, JoinHas
  <2> DEFINE ms == a \o b
  <2>7. ms \in Seq(Raw) /\ Put(ms) /\ Has(ms, Requests)
    BY <2>5, <2>6
  <2> HIDE DEF ms
  <2>8. Outgoing' = Outgoing \o ms /\ Outgoing \in Seq(Raw)
    BY <2>7, PutEffect, Typed
  <2>9. Has(Outgoing', Requests)
    BY <2>7, <2>8, JoinHas
  <2>10. charset_enabled'
    BY <1>5, <1>9
  <2> QED BY <2>9, <2>10 DEF Charsets, Requests, Answers, Data
<1> QED BY <1>7, <1>8, <1>9

LEMMA AnswerCharsets ==
  ASSUME TypeOK, Input, Charsets, NEW m, ReceiveCharset(m)
  PROVE  Charsets'
<1>1. Heeds(m)
  BY HandlingHeeds DEF Handling
<1>2. /\ Incoming \in Seq(Raw) /\ Incoming # << >> /\ Head(Incoming) = Bare(m)
      /\ Incoming' = Tail(Incoming) /\ decompressor' = decompressor
  BY <1>1, Typed DEF Heeds
<1>3. /\ UNCHANGED <<enabled, charset_enabled, to_client>> /\ negotiation \subseteq negotiation'
      /\ charset_rejected => charset_rejected'
      /\ m.data = "accepted" => "CHARSET" \in negotiation'
      /\ m.data = "rejected" => charset_rejected'
  BY DEF ReceiveCharset, outVars
<1>4. Outgoing' = Outgoing
  BY <1>3 DEF Outgoing
<1>5. CASE m.data \in {"accepted", "rejected"}
  <2>1. "CHARSET" \in negotiation' \/ charset_rejected'
    BY <1>3, <1>5
  <2> QED BY <1>3, <2>1 DEF Charsets
<1>6. CASE m.data \notin {"accepted", "rejected"}
  <2>1. Bare(m) \notin Answers
    BY <1>6 DEF Bare, Answers
  <2>2. Has(Incoming, Answers) <=> Has(Incoming', Answers)
    BY <1>2, <2>1, TailFacts
  <2>3. charset_enabled /\ decompressor # "ended" =>
          \/ "CHARSET" \in negotiation \/ charset_rejected
          \/ Has(Outgoing, Requests) \/ Has(Incoming, Answers)
    BY DEF Charsets
  <2>4. charset_enabled' /\ decompressor' # "ended" =>
          \/ "CHARSET" \in negotiation' \/ charset_rejected'
          \/ Has(Outgoing', Requests) \/ Has(Incoming', Answers)
    BY <1>2, <1>3, <1>4, <2>2, <2>3
  <2>5. charset_enabled' \/ \A s \in Sides : "CHARSET" \notin enabled'[s]
    BY <1>3 DEF Charsets
  <2> QED BY <2>4, <2>5 DEF Charsets, Requests, Answers, Data
<1> QED BY <1>5, <1>6

LEMMA AskedCharsets ==
  ASSUME TypeOK, Input, Charsets, NEW m, ClientAsked(m)
  PROVE  Charsets'
<1>1. /\ Read(m) /\ UNCHANGED <<enabled, negotiation, charset_enabled, charset_rejected>>
      /\ deflating' = deflating
  BY DEF ClientAsked, statusVars, optionVars
<1>2. InKept
  <2>1. Silent \/ \E x : Tells(x)
    BY AskedTells
  <2> QED BY <2>1, TellsInKept
<1>3. CASE m.option # "CHARSET"
  BY <1>1, <1>2, <1>3, ReadOutKept, CharsetsKept
<1>4. CASE m.option = "CHARSET"
  <2>1. PICK answer \in {"accepted", "rejected"} : Say(<<Subnegotiate("CHARSET", answer)>>)
    BY <1>4 DEF ClientAsked
  <2> DEFINE x == Subnegotiate("CHARSET", answer)
             r == <<x>>
  <2>2. "CHARSET" \in Codes
    BY <1>1, <1>4, ReadTyped, MessageFields
  <2>3. x \in Raw /\ x \in Answers
    BY <2>2, SubnegotiateRaw DEF Subnegotiate, Data, Answers
  <2>4. Say(r)
    BY <2>1
  <2> HIDE DEF x
  <2>5. r \in Seq(Raw) /\ Has(r, Answers)
    BY <2>3, Single
  <2> HIDE DEF r
  <2>6. /\ Incoming' = IF decompressor = "ended" THEN Incoming ELSE Incoming \o r
        /\ decompressor' = decompressor
    BY <2>4, <2>5, SayEffect
  <2>7. Has(Incoming \o r, Answers)
    BY <2>5, Typed, JoinHas
  <2>8. decompressor' # "ended" => Has(Incoming', Answers)
    BY <2>6, <2>7
  <2>9. charset_enabled' \/ \A s \in Sides : "CHARSET" \notin enabled'[s]
    BY <1>1 DEF Charsets
  <2> QED BY <2>8, <2>9 DEF Charsets, Requests, Answers, Data
<1> QED BY <1>3, <1>4

\* The other steps.
LEMMA HandlingCharsets ==
  ASSUME TypeOK, Input, Charsets, NEW m, Handling(m)
  PROVE  Charsets'
<1>1. CASE (\E s \in Sides : ReceiveYes(m, s)) \/ ReceiveCharset(m)
  BY <1>1, YesCharsets, AnswerCharsets
<1>2. CASE \/ \E s \in Sides : \/ ReceiveYesAgain(m, s) \/ ReceiveUnsupported(m, s)
                               \/ ReceiveNo(m, s)
           \/ ReceiveTerminal(m) \/ ReceiveText(m)
  <2>1. ~ (m.kind = "SB" /\ m.option = "CHARSET")
    BY <1>2, Distinct DEF ReceiveYesAgain, ReceiveUnsupported, ReceiveNo, ReceiveTerminal,
       ReceiveText
  <2>2. InKept
    BY <2>1, HandlingHeeds, DroppedInKept DEF Heeds
  <2>3. OutKept
    <3>1. CASE \/ \E s \in Sides : ReceiveYesAgain(m, s) \/ ReceiveNo(m, s)
               \/ ReceiveText(m)
      BY <3>1, PutOutKept DEF ReceiveYesAgain, ReceiveNo, ReceiveText, outVars
    <3>2. CASE (\E s \in Sides : ReceiveUnsupported(m, s)) \/ ReceiveTerminal(m)
      BY <3>2, UnsupportedPuts, TerminalPuts, PutOutKept DEF outVars
    <3> QED BY <1>2, <3>1, <3>2
  <2>4. /\ UNCHANGED <<charset_enabled, charset_rejected>> /\ negotiation \subseteq negotiation'
        /\ \A s \in Sides : "CHARSET" \in enabled'[s] => "CHARSET" \in enabled[s]
    <3>1. CASE \E s \in Sides : ReceiveYesAgain(m, s) \/ ReceiveUnsupported(m, s)
      BY <3>1 DEF ReceiveYesAgain, ReceiveUnsupported, statusVars, optionVars
    <3>2. CASE ReceiveTerminal(m) \/ ReceiveText(m)
      BY <3>2 DEF ReceiveTerminal, ReceiveText, statusVars, optionVars
    <3>3. CASE \E s \in Sides : ReceiveNo(m, s)
      BY <3>3 DEF ReceiveNo, optionVars, TypeOK
    <3> QED BY <1>2, <3>1, <3>2, <3>3
  <2> QED BY <2>2, <2>3, <2>4, CharsetsKept
<1> QED BY <1>1, <1>2 DEF Handling

LEMMA CharsetsNext ==
  ASSUME TypeOK, Input, Charsets, [Next]_vars
  PROVE  Charsets'
<1>1. ASSUME NEW m, Handling(m) PROVE Charsets'
  BY <1>1, HandlingCharsets
<1>2. ASSUME NEW m, ReceiveCompression(m) PROVE Charsets'
  <2>1. InKept
    <3>1. ~ (m.kind = "SB" /\ m.option = "CHARSET")
      BY <1>2 DEF ReceiveCompression
    <3> QED BY <1>2, <3>1, CompressionInput, DroppedInKept
  <2>2. UNCHANGED <<enabled, negotiation, charset_enabled, charset_rejected, to_client>>
    BY <1>2 DEF ReceiveCompression, statusVars, optionVars, outVars
  <2> QED BY <2>1, <2>2, PutOutKept, CharsetsKept
<1>3. ASSUME NEW n \in 1 .. Len(to_server), Receive(n) PROVE Charsets'
  <2>1. InKept
    BY <1>3, ReceiveInput DEF InKept
  <2>2. UNCHANGED <<enabled, negotiation, charset_enabled, charset_rejected, to_client>>
    BY <1>3 DEF Receive, statusVars, optionVars, outVars
  <2> QED BY <2>1, <2>2, PutOutKept, CharsetsKept
<1>4. ASSUME NEW m, NEW s \in Sides, ClientOffered(m, s) PROVE Charsets'
  <2>1. InKept
    BY <1>4, OfferedTells, TellsInKept
  <2>2. /\ Read(m) /\ m.kind # "SB"
        /\ UNCHANGED <<enabled, negotiation, charset_enabled, charset_rejected>>
    BY <1>4, Distinct DEF ClientOffered, statusVars, optionVars
  <2> QED BY <2>1, <2>2, ReadOutKept, CharsetsKept
<1>5. ASSUME NEW s \in Sides, NEW o \in Codes, ClientAsks(s, o) \/ ClientStops(s, o)
      PROVE  Charsets'
  <2>1. InKept
    BY <1>5, AsksTells, StopsTells, TellsInKept
  <2>2. UNCHANGED <<enabled, negotiation, charset_enabled, charset_rejected, to_client>>
    BY <1>5 DEF ClientAsks, ClientStops, statusVars, optionVars, outVars
  <2> QED BY <2>1, <2>2, PutOutKept, CharsetsKept
<1>6. ASSUME NEW m, ClientAsked(m) PROVE Charsets'
  BY <1>6, AskedCharsets
<1>7. ASSUME ClientCompresses \/ ClientStopsCompressing \/ ClientSendsLine
      PROVE  Charsets'
  <2>1. InKept
    BY <1>7, FreeTells, TellsInKept
  <2>2. UNCHANGED <<enabled, negotiation, charset_enabled, charset_rejected, to_client>>
    BY <1>7 DEF ClientCompresses, ClientStopsCompressing, ClientSendsLine, statusVars,
       optionVars, outVars
  <2> QED BY <2>1, <2>2, PutOutKept, CharsetsKept
<1>8. CASE Apart
  <2>1. InKept
    BY <1>8, ApartSilent, TellsInKept
  <2>2. UNCHANGED <<enabled, negotiation, charset_enabled, charset_rejected>>
    BY <1>8 DEF Apart, Start, Settle, SendText, ClientOfferedAgain, ClientRefused,
       ClientSeesText, vars, statusVars, optionVars
  <2>3. OutKept
    <3>1. CASE Start \/ SendText
      BY <3>1, StartPuts, TextPuts, PlainIsMarkedLast, PutOutKept
    <3>2. CASE Settle \/ UNCHANGED vars
      BY <3>2, PutOutKept DEF Settle, vars, outVars
    <3>3. ASSUME NEW m, \/ \E s \in Sides : ClientOfferedAgain(m, s) \/ ClientRefused(m, s)
                        \/ ClientSeesText(m)
          PROVE  OutKept
      <4>1. Read(m) /\ m.kind # "SB"
        BY <3>3, Distinct, Words DEF ClientOfferedAgain, ClientRefused, ClientSeesText, Sides
      <4> QED BY <4>1, ReadOutKept
    <3> QED BY <1>8, <3>1, <3>2, <3>3 DEF Apart
  <2> QED BY <2>1, <2>2, <2>3, CharsetsKept
<1> QED BY <1>1, <1>2, <1>3, <1>4, <1>5, <1>6, <1>7, <1>8, Steps

-------------------------------------------------------------------------------
(* What the invariant says once nothing is under way *)

LEMMA QuietQueues ==
  ASSUME Quiet
  PROVE  /\ Incoming = << >> /\ Outgoing = << >> /\ decompressor # "ended" /\ phase # "new"
         /\ \A P, R : ~ Has(<< >>, P) /\ ~ Last(<< >>, P, R) /\ ~ Before(<< >>, P, R)
<1>1. Incoming = << >> /\ Outgoing = << >>
  BY DEF Quiet, Incoming, Outgoing, Heard, BareOf
<1> QED BY <1>1, Empty DEF Quiet

LEMMA NegotiatedAgree ==
  ASSUME TypeOK, Negotiated
  PROVE  EndsAgree
<1> SUFFICES ASSUME Quiet, NEW s \in Sides PROVE on[s] = enabled[s]
  BY DEF EndsAgree
<1>1. ASSUME NEW o PROVE o \in on[s] <=> o \in enabled[s]
  <2>1. CASE o \in Options \cap Support[s]
    <3>1. Agrees(enabled[s], negotiating[s], on[s], asked[s], << >>, << >>, s, o)
      BY <2>1, QuietQueues DEF Negotiated, Agreement
    <3> QED BY <3>1, QuietQueues DEF Agrees, Will, WillOffer
  <2>2. CASE o \notin Options \cap Support[s]
    BY <2>2 DEF Negotiated, Unsupported
  <2> QED BY <2>1, <2>2
<1> QED BY <1>1

LEMMA NegotiatedSettles ==
  ASSUME TypeOK, Negotiated, Charsets
  PROVE  OffersSettle
<1> SUFFICES ASSUME Quiet, NEW o \in Options \ {"EOR"}, o \notin negotiation
             PROVE  \/ o = "CHARSET" /\ charset_rejected
                    \/ o = "MTTS" /\ mtts_enables > 1
  BY Zenon DEF OffersSettle
<1>1. o \in SupportLocal \cup SupportRemote
  BY Scenario DEF AllOptions
<1>2. PICK s \in Sides : o \in Options \cap Support[s]
  BY <1>1 DEF Sides, Support
<1>3. o \in negotiating[s]
  BY <1>2, QuietQueues DEF Negotiated, Settling
<1>4. Agrees(enabled[s], negotiating[s], on[s], asked[s], << >>, << >>, s, o)
  BY <1>2, QuietQueues DEF Negotiated, Agreement
<1>5. o \in enabled[s]
  BY <1>3, <1>4, QuietQueues DEF Agrees, Will
<1>a. CASE o = "CHARSET"
  <2>1. charset_enabled
    BY <1>5, <1>a DEF Charsets
  <2> QED BY <1>a, <2>1, QuietQueues DEF Charsets
<1>b. ASSUME o # "CHARSET" PROVE o = "MTTS" /\ mtts_enables > 1
  <2>1. o = "MTTS"
    BY <1>2, <1>5, <1>b DEF Negotiated, Settling
  <2>2. s = "remote"
    BY <1>2, <2>1 DEF Sides, Support, SupportLocal
  <2>3. mtts_enables # 0 /\ mtts_enables \in Nat
    BY <1>5, <2>1, <2>2 DEF Negotiated, Terminals, TypeOK
  <2>4. ~ Unsure(enabled["remote"], << >>)
    BY <1>5, <2>1, <2>2, QuietQueues DEF Unsure, Will, WillEnable
  <2>5. mtts_enables # 1
    BY <2>1, <2>4, QuietQueues DEF Negotiated, Asking
  <2> QED BY <2>1, <2>3, <2>5
<1> QED BY <1>a, <1>b

-------------------------------------------------------------------------------
(* Theorems *)

\* What is compressed on the way to the server, what is left of a compressed chunk and
\* how many lines are under way (Input and Counted) hold however the messages fall
\* into chunks.
THEOREM InputInvariant == Spec => [](TypeOK /\ Input /\ Counted)
<1>1. TypeOK /\ Input /\ Counted /\ [Next]_vars => (Input /\ Counted)'
  BY InputNext
<1> QED BY <1>1, InputInit, TypeCorrect, PTL DEF Spec

\* The messages on both streams always account for what the two ends think of each
\* option, whatever the client asks for, refuses and takes back, and the rounds of MTTS
\* have at most one request or answer under way (Negotiated).
THEOREM NegotiatedInvariant == Spec => [](TypeOK /\ Negotiated)
<1>1. TypeOK /\ Input /\ Negotiated /\ [Next]_vars => Negotiated'
  BY NegotiatedNext
<1> QED BY <1>1, NegotiatedInit, InputInvariant, PTL DEF Spec

\* The server always knows whether what it handles next is compressed, however the
\* messages fall into chunks, and has got every line once nothing is under way.
THEOREM InputCorrect == Spec => []InputReadable
<1>1. TypeOK /\ Input /\ Counted => InputReadable
  BY Readable
<1> QED BY <1>1, InputInvariant, PTL

\* However the offers of the server and the requests of the client cross, with any
\* options: once nothing is under way the two ends agree on what is enabled.
THEOREM EndsAgreeCorrect == Spec => []EndsAgree
<1>1. TypeOK /\ Negotiated => EndsAgree
  BY NegotiatedAgree
<1> QED BY <1>1, NegotiatedInvariant, PTL

\* Once CHARSET is enabled, the request for a charset or the answer is under way until
\* the answer settles it (Charsets).
THEOREM CharsetInvariant == Spec => []Charsets
<1>1. Init => Charsets
  BY DEF Init, Charsets, Nobody
<1>2. TypeOK /\ Input /\ Charsets /\ [Next]_vars => Charsets'
  BY CharsetsNext
<1> QED BY <1>1, <1>2, InputInvariant, PTL DEF Spec

\* Once the client has answered everything, the negotiation events that start() waits
\* for are set: all but that of EOR, that of CHARSET if the client has rejected the
\* charsets, and that of MTTS if the client has enabled it over again.
THEOREM OffersSettleCorrect == Spec => []OffersSettle
<1>1. TypeOK /\ Negotiated /\ Charsets => OffersSettle
  BY NegotiatedSettles
<1> QED BY <1>1, NegotiatedInvariant, CharsetInvariant, PTL

\* MTTSOption takes every answer about the terminal for what it is, unless the client
\* enables the option over again.
THEOREM TerminalsCorrect == Spec => []TerminalUnderstood
<1>1. TypeOK /\ Negotiated => TerminalUnderstood
  BY DEF Negotiated, Terminals
<1> QED BY <1>1, NegotiatedInvariant, PTL
===============================================================================
