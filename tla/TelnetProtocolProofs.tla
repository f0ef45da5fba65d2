------------------------- MODULE TelnetProtocolProofs -------------------------
(***************************************************************************)
(* Proofs about TelnetProtocol, for any messages, any items of the game    *)
(* and any bounds: its type invariant, its safety invariants, and that a   *)
(* connection, whichever of its tasks ends it, is a TelnetConnection.      *)
(*                                                                         *)
(* The invariants come in layers: the tasks, the queue to the client, and  *)
(* the link. Each layer is preserved given the ones before it.             *)
(***************************************************************************)
EXTENDS TelnetProtocol, TLAPS

\* What the tasks' states say of each other and of the flags.
Tasks ==
  /\ main # "waiting" => shutdown_event
  /\ Ended => {reader, writer, start} \subseteq {"done", "crashed"}
  /\ main = "returned" => ~ Crashed
  /\ aborted => Crashed
  /\ start \in {"new", "negotiating"} => ~ linked
  /\ ~ Ended => sessions

\* Everything that was enqueued was written, or is on the queue, in order.
Rest ==
  /\ Len(enqueued) = Len(written) + Len(out_queue)
  /\ \A i \in 1 .. Len(written) : enqueued[i] = written[i]
  /\ \A i \in 1 .. Len(out_queue) : enqueued[Len(written) + i] = out_queue[i]

\* The writer is told to end only behind all that is owed.
Sentinels ==
  /\ owed <= Len(enqueued)
  /\ \A i \in 1 .. Len(enqueued) : enqueued[i] = None => shutdown_event /\ owed < i

\* It ends because it was told to, unless the connection is lost or a task raised.
Closing ==
  writer \in {"closing", "done"} =>
    \/ sock = "reset" \/ aborted
    \/ written # << >> /\ written[Len(written)] = None

Told == \E i \in 1 .. Len(incoming) : incoming[i] = "disconnect"

\* The link is told once, with the event; an event without it has another cause.
Link ==
  /\ \A i, j \in 1 .. Len(incoming) :
       incoming[i] = "disconnect" /\ incoming[j] = "disconnect" =>
         i = j /\ linked /\ shutdown_event
  /\ link_disconnect_sent => shutdown_event
  /\ linked /\ shutdown_event =>
       \/ Told \/ shutdown_reason = "link"
       \/ cancelled \/ reader = "crashed" \/ aborted

IInv == TypeOK /\ Tasks /\ Rest /\ Sentinels /\ Closing /\ Link

LEMMA InitIInv == Init => IInv
<1> SUFFICES ASSUME Init PROVE IInv
  OBVIOUS
<1>1. TypeOK
  <2>1. << >> \in Seq(OutItems) /\ << >> \in Seq(InItems) /\ << >> \in Seq(GameItems)
    OBVIOUS
  <2> QED BY <2>1 DEF Init, TypeOK
<1>2. Tasks
  BY DEF Init, Tasks, Ended
<1>3. Rest /\ Sentinels /\ Closing /\ Link
  BY DEF Init, Rest, Sentinels, Closing, Link
<1> QED BY <1>1, <1>2, <1>3 DEF IInv

-------------------------------------------------------------------------------
(* Types *)

LEMMA EnqueueType ==
  ASSUME TypeOK, NEW item \in OutItems, Enqueue(item)
  PROVE  out_queue' \in Seq(OutItems) /\ enqueued' \in Seq(OutItems)
BY DEF TypeOK, Enqueue

LEMMA ShutdownType ==
  ASSUME TypeOK, NEW reason \in Reasons, NEW notify_link \in BOOLEAN,
         Shutdown(reason, notify_link)
  PROVE  /\ shutdown_event' \in BOOLEAN /\ link_disconnect_sent' \in BOOLEAN
         /\ shutdown_reason' \in Reasons \cup {NoReason}
         /\ incoming' \in Seq(InItems) /\ owed' \in Nat
         /\ out_queue' \in Seq(OutItems) /\ enqueued' \in Seq(OutItems)
<1>1. CASE shutdown_event
  BY <1>1 DEF TypeOK, Shutdown
<1>2. CASE ~ shutdown_event
  <2>1. out_queue' \in Seq(OutItems) /\ enqueued' \in Seq(OutItems)
    BY <1>2, EnqueueType DEF Shutdown, OutItems
  <2>2. incoming' = incoming \/ incoming' = Append(incoming, "disconnect")
    BY <1>2 DEF Shutdown
  <2>7. "disconnect" \in InItems
    BY DEF InItems
  <2>3. incoming' \in Seq(InItems)
    <3>1. incoming \in Seq(InItems)
      BY DEF TypeOK
    <3> QED BY <2>2, <2>7, <3>1
  <2>4. link_disconnect_sent' \in BOOLEAN
    BY <1>2 DEF Shutdown, TypeOK
  <2>5. Len(enqueued) \in Nat /\ owed' = Len(enqueued)
    BY <1>2 DEF Shutdown, TypeOK
  <2>6. shutdown_event' = TRUE /\ shutdown_reason' = reason
    BY <1>2 DEF Shutdown
  <2> QED BY <2>1, <2>3, <2>4, <2>5, <2>6
<1> QED BY <1>1, <1>2 DEF TypeOK

LEMMA TypeNext ==
  ASSUME TypeOK, [Next]_vars
  PROVE  TypeOK'
<1> USE DEF TypeOK, peerVars, taskVars, flagVars, queueVars, serviceVars, historyVars
<1>1. CASE PeerCloses
  BY <1>1 DEF PeerCloses
<1>2. CASE PeerResets
  BY <1>2 DEF PeerResets
<1>3. CASE PeerStalls
  BY <1>3 DEF PeerStalls
<1>4. CASE \E item \in GameItems : GameSends(item)
  BY <1>4 DEF GameSends
<1>5. CASE ServiceCancelled
  BY <1>5 DEF ServiceCancelled, Ended
<1>6. CASE ReceiveLine
  BY <1>6 DEF ReceiveLine, InItems
<1>7. CASE ReceiveNegotiate
  <2>1. out_queue' \in Seq(OutItems) /\ enqueued' \in Seq(OutItems)
    BY <1>7, EnqueueType DEF ReceiveNegotiate, OutItems
  <2> QED BY <1>7, <2>1 DEF ReceiveNegotiate
<1>8. CASE ReceiveCapability
  BY <1>8 DEF ReceiveCapability, InItems
<1>9. CASE ReceiveGmcp
  BY <1>9 DEF ReceiveGmcp, CanReceive
<1>10. CASE ReceiveOversize
  <2>1. /\ shutdown_event' \in BOOLEAN /\ link_disconnect_sent' \in BOOLEAN
        /\ shutdown_reason' \in Reasons \cup {NoReason}
        /\ incoming' \in Seq(InItems) /\ owed' \in Nat
        /\ out_queue' \in Seq(OutItems) /\ enqueued' \in Seq(OutItems)
    BY <1>10, ShutdownType DEF ReceiveOversize, Reasons
  <2> QED BY <1>10, <2>1 DEF ReceiveOversize, CanReceive
<1>11. CASE ReaderEnds
  <2>1. /\ shutdown_event' \in BOOLEAN /\ link_disconnect_sent' \in BOOLEAN
        /\ shutdown_reason' \in Reasons \cup {NoReason}
        /\ incoming' \in Seq(InItems) /\ owed' \in Nat
        /\ out_queue' \in Seq(OutItems) /\ enqueued' \in Seq(OutItems)
    BY <1>11, ShutdownType DEF ReaderEnds, Reasons
  <2> QED BY <1>11, <2>1 DEF ReaderEnds
<1>12. CASE WriterWrites
  BY <1>12 DEF WriterWrites
<1>13. CASE WriterDrained
  BY <1>13 DEF WriterDrained
<1>14. CASE WriterLost
  <2>1. /\ shutdown_event' \in BOOLEAN /\ link_disconnect_sent' \in BOOLEAN
        /\ shutdown_reason' \in Reasons \cup {NoReason}
        /\ incoming' \in Seq(InItems) /\ owed' \in Nat
        /\ out_queue' \in Seq(OutItems) /\ enqueued' \in Seq(OutItems)
    BY <1>14, ShutdownType DEF WriterLost, Reasons
  <2> QED BY <1>14, <2>1 DEF WriterLost
<1>15. CASE WriterSentinel
  BY <1>15 DEF WriterSentinel, OutItems
<1>16. CASE WriterCloses
  BY <1>16 DEF WriterCloses
<1>17. CASE StartNegotiates
  <2>1. out_queue' \in Seq(OutItems) /\ enqueued' \in Seq(OutItems)
    BY <1>17, EnqueueType DEF StartNegotiates, OutItems
  <2> QED BY <1>17, <2>1 DEF StartNegotiates
<1>18. CASE StartLinks
  <2>1. out_queue' \in Seq(OutItems) /\ enqueued' \in Seq(OutItems)
    BY <1>18, EnqueueType DEF StartLinks, OutItems, TypeOK
  <2>2. linked' \in BOOLEAN /\ start' \in {"linked", "done"}
    BY <1>18 DEF StartLinks, TypeOK
  <2> QED BY <1>18, <2>1, <2>2 DEF StartLinks
<1>19. CASE ForwardText
  <2>1. out_queue' \in Seq(OutItems) /\ enqueued' \in Seq(OutItems)
    BY <1>19, EnqueueType DEF ForwardText, OutItems
  <2> QED BY <1>19, <2>1 DEF ForwardText, Forward
<1>20. CASE ForwardGmcp
  BY <1>20 DEF ForwardGmcp, Forward
<1>21. CASE ForwardDisconnect
  <2>1. /\ shutdown_event' \in BOOLEAN /\ link_disconnect_sent' \in BOOLEAN
        /\ shutdown_reason' \in Reasons \cup {NoReason}
        /\ incoming' \in Seq(InItems) /\ owed' \in Nat
        /\ out_queue' \in Seq(OutItems) /\ enqueued' \in Seq(OutItems)
    BY <1>21, ShutdownType DEF ForwardDisconnect, Reasons
  <2> QED BY <1>21, <2>1 DEF ForwardDisconnect, Forward
<1>22. CASE MainWakes
  <2>1. out_queue' \in Seq(OutItems) /\ enqueued' \in Seq(OutItems)
    BY <1>22, EnqueueType DEF MainWakes, OutItems, TypeOK
  <2> QED BY <1>22, <2>1 DEF MainWakes, Cancelled
<1>23. CASE GroupAborts
  BY <1>23 DEF GroupAborts, Cancelled, Crashed, Ended
<1>24. CASE MainEnds
  BY <1>24 DEF MainEnds, Crashed
<1>25. CASE UNCHANGED vars
  BY <1>25 DEF vars
<1> QED
  BY <1>1, <1>2, <1>3, <1>4, <1>5, <1>6, <1>7, <1>8, <1>9, <1>10, <1>11, <1>12, <1>13,
     <1>14, <1>15, <1>16, <1>17, <1>18, <1>19, <1>20, <1>21, <1>22, <1>23, <1>24,
     <1>25
     DEF Next, Reader, Writer, Starter, Runner, Environment

-------------------------------------------------------------------------------
(* The tasks *)

LEMMA TasksNext ==
  ASSUME TypeOK, Tasks, [Next]_vars
  PROVE  Tasks'
<1> USE DEF Tasks, TypeOK, Ended, Crashed, peerVars, taskVars, flagVars, queueVars,
            serviceVars, historyVars
<1>1. CASE PeerCloses \/ PeerResets \/ PeerStalls \/ ServiceCancelled \/ ReceiveLine
   \/ ReceiveCapability \/ ReceiveNegotiate \/ WriterDrained \/ WriterWrites \/
   WriterSentinel \/ ForwardText
  BY <1>1 DEF PeerCloses, PeerResets, PeerStalls, ServiceCancelled, ReceiveLine,
     CanReceive, ReceiveCapability, ReceiveNegotiate, WriterDrained, WriterWrites,
     WriterSentinel, ForwardText, Forward
<1>2. CASE \E item \in GameItems : GameSends(item)
  BY <1>2 DEF GameSends
<1>3. CASE ReceiveGmcp
  BY <1>3 DEF ReceiveGmcp, CanReceive
<1>4. CASE ReceiveOversize
  BY <1>4 DEF ReceiveOversize, Shutdown, CanReceive
<1>5. CASE ReaderEnds
  BY <1>5 DEF ReaderEnds, Shutdown
<1>6. CASE WriterLost
  BY <1>6 DEF WriterLost, Shutdown
<1>7. CASE WriterCloses
  BY <1>7 DEF WriterCloses
<1>8. CASE StartNegotiates
  BY <1>8 DEF StartNegotiates, Enqueue
<1>9. CASE StartLinks
  BY <1>9 DEF StartLinks, Enqueue
<1>10. CASE ForwardGmcp
  BY <1>10 DEF ForwardGmcp, Forward
<1>11. CASE ForwardDisconnect
  BY <1>11 DEF ForwardDisconnect, Shutdown, Forward
<1>12. CASE MainWakes
  BY <1>12 DEF MainWakes, Enqueue, Cancelled
<1>13. CASE GroupAborts
  BY <1>13 DEF GroupAborts, Cancelled, Crashed, Ended
<1>14. CASE MainEnds
  BY <1>14 DEF MainEnds, Crashed
<1>15. CASE UNCHANGED vars
  BY <1>15 DEF vars
<1> QED
  BY <1>1, <1>2, <1>3, <1>4, <1>5, <1>6, <1>7, <1>8, <1>9, <1>10, <1>11, <1>12, <1>13,
     <1>14, <1>15
     DEF Next, Reader, Writer, Starter, Runner, Environment

-------------------------------------------------------------------------------
(* The queue to the client *)

LEMMA EnqueueRest ==
  ASSUME TypeOK, Rest, NEW item \in OutItems, Enqueue(item), UNCHANGED written
  PROVE  Rest'
<1>1. /\ Len(enqueued') = Len(enqueued) + 1 /\ Len(out_queue') = Len(out_queue) + 1
      /\ \A i \in 1 .. Len(enqueued) : enqueued'[i] = enqueued[i]
      /\ \A i \in 1 .. Len(out_queue) : out_queue'[i] = out_queue[i]
      /\ enqueued'[Len(enqueued) + 1] = item /\ out_queue'[Len(out_queue) + 1] = item
  BY DEF TypeOK, Enqueue
<1>2. Len(written) \in Nat /\ Len(enqueued) \in Nat /\ Len(out_queue) \in Nat
  BY DEF TypeOK
<1>3. ASSUME NEW i \in 1 .. Len(written') PROVE enqueued'[i] = written'[i]
  <2>1. i \in 1 .. Len(enqueued) /\ i \in 1 .. Len(written)
    BY <1>2 DEF Rest
  <2> QED BY <1>1, <2>1 DEF Rest
<1>4. ASSUME NEW i \in 1 .. Len(out_queue')
      PROVE  enqueued'[Len(written') + i] = out_queue'[i]
  <2>1. CASE i \in 1 .. Len(out_queue)
    <3>1. Len(written) + i \in 1 .. Len(enqueued)
      BY <1>2, <2>1 DEF Rest
    <3> QED BY <1>1, <2>1, <3>1 DEF Rest
  <2>2. CASE i = Len(out_queue) + 1
    <3>1. Len(written) + i = Len(enqueued) + 1
      BY <1>2, <2>2 DEF Rest
    <3> QED BY <1>1, <2>2, <3>1
  <2> QED BY <1>1, <1>2, <2>1, <2>2
<1>5. Len(enqueued') = Len(written') + Len(out_queue')
  BY <1>1, <1>2 DEF Rest
<1> QED BY <1>3, <1>4, <1>5 DEF Rest

LEMMA WriteRest ==
  ASSUME TypeOK, Rest, out_queue # << >>, written' = Append(written, Head(out_queue)),
         out_queue' = Tail(out_queue), UNCHANGED enqueued
  PROVE  /\ Rest'
         /\ written'[Len(written')] = Head(out_queue) /\ written' # << >>
         /\ enqueued[Len(written')] = Head(out_queue)
<1>1. Len(written) \in Nat /\ Len(enqueued) \in Nat /\ Len(out_queue) \in Nat \ {0}
  BY DEF TypeOK
<1>2. /\ Len(written') = Len(written) + 1
      /\ \A i \in 1 .. Len(written) : written'[i] = written[i]
      /\ written'[Len(written) + 1] = out_queue[1]
      /\ Head(out_queue) = out_queue[1]
  BY DEF TypeOK
<1>3. /\ Len(out_queue') = Len(out_queue) - 1
      /\ \A i \in 1 .. Len(out_queue') : out_queue'[i] = out_queue[i + 1]
  BY <1>1 DEF TypeOK
<1>4. enqueued[Len(written) + 1] = out_queue[1]
  BY <1>1 DEF Rest
<1>5. Len(enqueued') = Len(written') + Len(out_queue')
  <2>1. Len(enqueued) = Len(written) + Len(out_queue)
    BY DEF Rest
  <2> QED BY <1>1, <1>2, <1>3, <2>1
<1>6. ASSUME NEW i \in 1 .. Len(written') PROVE enqueued'[i] = written'[i]
  <2>1. CASE i \in 1 .. Len(written)
    BY <1>2, <2>1 DEF Rest
  <2>2. CASE i = Len(written) + 1
    BY <1>2, <1>4, <2>2
  <2> QED BY <1>1, <1>2, <2>1, <2>2
<1>7. ASSUME NEW i \in 1 .. Len(out_queue')
      PROVE  enqueued'[Len(written') + i] = out_queue'[i]
  <2>1. i + 1 \in 1 .. Len(out_queue) /\ Len(written') + i = Len(written) + (i + 1)
    BY <1>1, <1>2, <1>3
  <2>2. enqueued[Len(written) + (i + 1)] = out_queue[i + 1]
    BY <2>1 DEF Rest
  <2> QED BY <1>3, <2>1, <2>2
<1>8. Rest'
  BY <1>5, <1>6, <1>7 DEF Rest
<1>9. written' # << >>
  BY <1>1, <1>2 DEF TypeOK
<1> QED BY <1>2, <1>4, <1>8, <1>9

LEMMA EnqueueSentinels ==
  ASSUME TypeOK, Sentinels, NEW item \in OutItems, Enqueue(item),
         owed' \in Nat, owed' <= Len(enqueued), item = None => shutdown_event',
         shutdown_event => shutdown_event' /\ owed' = owed
  PROVE  Sentinels'
<1>1. /\ Len(enqueued') = Len(enqueued) + 1
      /\ \A i \in 1 .. Len(enqueued) : enqueued'[i] = enqueued[i]
      /\ enqueued'[Len(enqueued) + 1] = item
  BY DEF TypeOK, Enqueue
<1>2. Len(enqueued) \in Nat /\ owed \in Nat
  BY DEF TypeOK
<1>5. owed' <= Len(enqueued')
  BY <1>1, <1>2
<1> SUFFICES ASSUME NEW i \in 1 .. Len(enqueued'), enqueued'[i] = None
             PROVE  shutdown_event' /\ owed' < i
  BY <1>5 DEF Sentinels
<1>3. CASE i \in 1 .. Len(enqueued)
  <2>1. shutdown_event /\ owed < i
    BY <1>1, <1>3 DEF Sentinels
  <2> QED BY <2>1
<1>4. CASE i = Len(enqueued) + 1
  <2>1. shutdown_event'
    BY <1>1, <1>4
  <2> QED BY <1>2, <1>4, <2>1
<1> QED BY <1>1, <1>2, <1>3, <1>4

\* What is owed when the event is set is no more than there is.
LEMMA ShutdownQueue ==
  ASSUME TypeOK, Rest, Sentinels, NEW reason \in Reasons, NEW notify_link \in BOOLEAN,
         Shutdown(reason, notify_link), UNCHANGED written
  PROVE  Rest' /\ Sentinels'
<1>1. CASE shutdown_event
  BY <1>1 DEF Shutdown, Rest, Sentinels
<1>2. CASE ~ shutdown_event
  <2>1. Enqueue(None) /\ shutdown_event' /\ owed' = Len(enqueued) /\ None \in OutItems
    BY <1>2 DEF Shutdown, OutItems
  <2>2. owed' <= Len(enqueued) /\ owed' \in Nat
    BY <2>1 DEF TypeOK
  <2> QED BY <1>2, <2>1, <2>2, EnqueueRest, EnqueueSentinels
<1> QED BY <1>1, <1>2 DEF TypeOK

\* One step per action again: its lemma on the queue, and what it does to the writer.
LEMMA QueueNext ==
  ASSUME TypeOK, Tasks, Rest, Sentinels, Closing, [Next]_vars
  PROVE  (Rest /\ Sentinels /\ Closing)'
<1> USE DEF peerVars, taskVars, flagVars, queueVars, serviceVars, historyVars
<1>1. CASE PeerCloses
  BY <1>1 DEF PeerCloses, Rest, Sentinels, Closing
<1>2. CASE PeerResets
  BY <1>2 DEF PeerResets, Rest, Sentinels, Closing
<1>3. CASE PeerStalls
  BY <1>3 DEF PeerStalls, Rest, Sentinels, Closing
<1>4. CASE \E item \in GameItems : GameSends(item)
  <2>1. PICK item \in GameItems : GameSends(item)
    BY <1>4
  <2> QED BY <2>1 DEF GameSends, Rest, Sentinels, Closing
<1>5. CASE ServiceCancelled
  BY <1>5 DEF ServiceCancelled, Ended, Rest, Sentinels, Closing
<1>6. CASE ReceiveLine
  BY <1>6 DEF ReceiveLine, CanReceive, Rest, Sentinels, Closing
<1>7. CASE ReceiveNegotiate
  <2>1. Enqueue("neg") /\ "neg" \in OutItems /\ "neg" # None
    BY <1>7 DEF ReceiveNegotiate, OutItems, None
  <2>3. owed' \in Nat /\ owed' <= Len(enqueued)
    BY <1>7 DEF ReceiveNegotiate, Sentinels, TypeOK
  <2>2. Rest' /\ Sentinels'
    BY <1>7, <2>1, <2>3, EnqueueRest, EnqueueSentinels DEF ReceiveNegotiate
  <2> QED BY <1>7, <2>2 DEF ReceiveNegotiate, Closing
<1>8. CASE ReceiveCapability
  BY <1>8 DEF ReceiveCapability, CanReceive, Rest, Sentinels, Closing
<1>9. CASE ReceiveGmcp
  BY <1>9 DEF ReceiveGmcp, CanReceive, TypeOK, Rest, Sentinels, Closing
<1>10. CASE ReceiveOversize
  <2>1. Rest' /\ Sentinels'
    BY <1>10, ShutdownQueue DEF ReceiveOversize, Reasons
  <2>2. Closing'
    BY <1>10 DEF ReceiveOversize, Closing, CanReceive
  <2> QED BY <2>1, <2>2
<1>11. CASE ReaderEnds
  <2>1. Rest' /\ Sentinels'
    BY <1>11, ShutdownQueue DEF ReaderEnds, Reasons
  <2>2. Closing'
    BY <1>11 DEF ReaderEnds, Closing
  <2> QED BY <2>1, <2>2
<1>12. CASE WriterWrites
  <2>1. Rest'
    BY <1>12, WriteRest DEF WriterWrites
  <2> QED BY <1>12, <2>1 DEF WriterWrites, Sentinels, Closing
<1>13. CASE WriterDrained
  BY <1>13 DEF WriterDrained, Rest, Sentinels, Closing
<1>14. CASE WriterLost
  <2>1. Rest' /\ Sentinels'
    BY <1>14, ShutdownQueue DEF WriterLost, Reasons
  <2>2. Closing'
    BY <1>14 DEF WriterLost, Closing
  <2> QED BY <2>1, <2>2
<1>15. CASE WriterSentinel
  <2>1. Rest' /\ written' # << >> /\ written'[Len(written')] = None
    BY <1>15, WriteRest DEF WriterSentinel
  <2> QED BY <1>15, <2>1 DEF WriterSentinel, Sentinels, Closing
<1>16. CASE WriterCloses
  BY <1>16 DEF WriterCloses, Rest, Sentinels, Closing
<1>17. CASE StartNegotiates
  <2>1. Enqueue("neg") /\ "neg" \in OutItems /\ "neg" # None
    BY <1>17 DEF StartNegotiates, OutItems, None
  <2>3. owed' \in Nat /\ owed' <= Len(enqueued)
    BY <1>17 DEF StartNegotiates, Sentinels, TypeOK
  <2>2. Rest' /\ Sentinels'
    BY <1>17, <2>1, <2>3, EnqueueRest, EnqueueSentinels DEF StartNegotiates
  <2> QED BY <1>17, <2>2 DEF StartNegotiates, Closing
<1>18. CASE StartLinks
  <2>1. "text" \in OutItems /\ "text" # None
    BY DEF OutItems, None
  <2>2. CASE UNCHANGED <<out_queue, enqueued>>
    BY <1>18, <2>2 DEF StartLinks, Rest, Sentinels, Closing
  <2>3. CASE Enqueue("text")
    <3>2. owed' \in Nat /\ owed' <= Len(enqueued)
      BY <1>18 DEF StartLinks, Sentinels, TypeOK
    <3>1. Rest' /\ Sentinels'
      BY <1>18, <2>1, <2>3, <3>2, EnqueueRest, EnqueueSentinels DEF StartLinks
    <3> QED BY <1>18, <3>1 DEF StartLinks, Closing
  <2> QED BY <1>18, <2>2, <2>3 DEF StartLinks
<1>19. CASE ForwardText
  <2>1. Enqueue("text") /\ "text" \in OutItems /\ "text" # None
    BY <1>19 DEF ForwardText, OutItems, None
  <2>3. owed' \in Nat /\ owed' <= Len(enqueued)
    BY <1>19 DEF ForwardText, Sentinels, TypeOK
  <2>2. Rest' /\ Sentinels'
    BY <1>19, <2>1, <2>3, EnqueueRest, EnqueueSentinels DEF ForwardText
  <2> QED BY <1>19, <2>2 DEF ForwardText, Closing
<1>20. CASE ForwardGmcp
  BY <1>20 DEF ForwardGmcp, Forward, Rest, Sentinels, Closing
<1>21. CASE ForwardDisconnect
  <2>1. Rest' /\ Sentinels'
    BY <1>21, ShutdownQueue DEF ForwardDisconnect, Reasons
  <2>2. Closing'
    BY <1>21 DEF ForwardDisconnect, Closing, Forward
  <2> QED BY <2>1, <2>2
<1>22. CASE MainWakes
  <2>1. CASE UNCHANGED <<out_queue, enqueued>>
    BY <1>22, <2>1 DEF MainWakes, Rest, Sentinels, Closing
  <2>2. CASE Enqueue(None)
    <3>1. None \in OutItems /\ owed' = owed /\ shutdown_event /\ shutdown_event'
      BY <1>22 DEF MainWakes, OutItems
    <3>2. Rest'
      BY <1>22, <2>2, <3>1, EnqueueRest DEF MainWakes
    <3>3. owed <= Len(enqueued) /\ owed' \in Nat
      BY <3>1 DEF Sentinels, TypeOK
    <3>4. Sentinels'
      BY <2>2, <3>1, <3>3, EnqueueSentinels
    <3> QED BY <1>22, <3>2, <3>4 DEF MainWakes, Closing
  <2> QED BY <1>22, <2>1, <2>2 DEF MainWakes
<1>23. CASE GroupAborts
  BY <1>23 DEF GroupAborts, Cancelled, Crashed, Ended, Rest, Sentinels, Closing
<1>24. CASE MainEnds
  BY <1>24 DEF MainEnds, Crashed, Rest, Sentinels, Closing
<1>25. CASE UNCHANGED vars
  BY <1>25 DEF vars, Rest, Sentinels, Closing
<1> QED
  BY <1>1, <1>2, <1>3, <1>4, <1>5, <1>6, <1>7, <1>8, <1>9, <1>10, <1>11, <1>12, <1>13,
     <1>14, <1>15, <1>16, <1>17, <1>18, <1>19, <1>20, <1>21, <1>22, <1>23, <1>24,
     <1>25
     DEF Next, Reader, Writer, Starter, Runner, Environment

-------------------------------------------------------------------------------
(* The link *)

\* Something other than the disconnect is put on the link.
LEMMA IncomingLink ==
  ASSUME TypeOK, Link, NEW item \in {"line", "update"}, incoming' = Append(incoming, item),
         UNCHANGED <<linked, shutdown_event, shutdown_reason, link_disconnect_sent,
                     cancelled, reader, aborted>>
  PROVE  Link'
<1>1. /\ Len(incoming') = Len(incoming) + 1 /\ Len(incoming) \in Nat
      /\ \A i \in 1 .. Len(incoming) : incoming'[i] = incoming[i]
      /\ incoming'[Len(incoming) + 1] # "disconnect"
  BY DEF TypeOK
<1>2. \A i \in 1 .. Len(incoming') :
        incoming'[i] = "disconnect" => i \in 1 .. Len(incoming) /\ incoming[i] = "disconnect"
  BY <1>1
<1>3. Told => Told'
  BY <1>1 DEF Told
<1> QED BY <1>2, <1>3 DEF Link

\* Whoever shuts the connection down first tells the link, and no one does after.
LEMMA ShutdownLink ==
  ASSUME TypeOK, Link, NEW reason \in Reasons, NEW notify_link \in BOOLEAN,
         Shutdown(reason, notify_link), notify_link \/ reason = "link",
         UNCHANGED <<linked, cancelled, aborted>>, reader = "crashed" => reader' = "crashed"
  PROVE  Link'
<1>1. CASE shutdown_event
  BY <1>1 DEF Shutdown, Link, Told
<1>2. CASE ~ shutdown_event
  <2>1. ~ link_disconnect_sent /\ \A i \in 1 .. Len(incoming) : incoming[i] # "disconnect"
    BY <1>2 DEF Link
  <2>2. shutdown_event' /\ shutdown_reason' = reason
    BY <1>2 DEF Shutdown
  <2>3. CASE notify_link /\ linked
    <3>1. incoming' = Append(incoming, "disconnect")
      BY <1>2, <2>1, <2>3 DEF Shutdown
    <3>2. /\ Len(incoming') = Len(incoming) + 1 /\ Len(incoming) \in Nat
          /\ \A i \in 1 .. Len(incoming) : incoming'[i] = incoming[i]
          /\ incoming'[Len(incoming) + 1] = "disconnect"
      BY <3>1 DEF TypeOK
    <3>3. \A i \in 1 .. Len(incoming') : incoming'[i] = "disconnect" => i = Len(incoming) + 1
      BY <2>1, <3>2
    <3>4. Told'
      BY <3>2 DEF Told
    <3> QED BY <2>2, <2>3, <3>3, <3>4 DEF Link
  <2>4. CASE ~ (notify_link /\ linked)
    <3>1. UNCHANGED <<incoming, link_disconnect_sent>>
      BY <1>2, <2>4 DEF Shutdown
    <3> QED BY <2>1, <2>2, <2>4, <3>1 DEF Link
  <2> QED BY <2>3, <2>4
<1> QED BY <1>1, <1>2 DEF TypeOK

LEMMA LinkNext ==
  ASSUME TypeOK, Tasks, Link, [Next]_vars
  PROVE  Link'
<1> USE DEF peerVars, taskVars, flagVars, queueVars, serviceVars, historyVars
<1>1. CASE PeerCloses
  BY <1>1 DEF PeerCloses, Link, Told, Tasks
<1>2. CASE PeerResets
  BY <1>2 DEF PeerResets, Link, Told, Tasks
<1>3. CASE PeerStalls
  BY <1>3 DEF PeerStalls, Link, Told, Tasks
<1>4. CASE \E item \in GameItems : GameSends(item)
  BY <1>4 DEF GameSends, Link, Told, Tasks
<1>5. CASE ServiceCancelled
  BY <1>5 DEF ServiceCancelled, Ended, Link, Told, Tasks
<1>6. CASE ReceiveLine
  BY <1>6, IncomingLink DEF ReceiveLine, CanReceive
<1>7. CASE ReceiveNegotiate
  BY <1>7 DEF ReceiveNegotiate, CanReceive, Enqueue, Link, Told, Tasks
<1>8. CASE ReceiveCapability
  BY <1>8, IncomingLink DEF ReceiveCapability, CanReceive, Link, Told
<1>9. CASE ReceiveGmcp
  BY <1>9 DEF ReceiveGmcp, CanReceive, Link, Told, Tasks
<1>10. CASE ReceiveOversize
  BY <1>10, ShutdownLink DEF ReceiveOversize, Reasons, CanReceive
<1>11. CASE ReaderEnds
  BY <1>11, ShutdownLink DEF ReaderEnds, Reasons
<1>12. CASE WriterWrites
  BY <1>12 DEF WriterWrites, Link, Told, Tasks
<1>13. CASE WriterDrained
  BY <1>13 DEF WriterDrained, Link, Told, Tasks
<1>14. CASE WriterLost
  BY <1>14, ShutdownLink DEF WriterLost, Reasons
<1>15. CASE WriterSentinel
  BY <1>15 DEF WriterSentinel, Link, Told, Tasks
<1>16. CASE WriterCloses
  BY <1>16 DEF WriterCloses, Link, Told, Tasks
<1>17. CASE StartNegotiates
  BY <1>17 DEF StartNegotiates, Enqueue, Link, Told, Tasks
<1>18. CASE StartLinks
  BY <1>18 DEF StartLinks, Enqueue, Link, Told, Tasks
<1>19. CASE ForwardText
  BY <1>19 DEF ForwardText, Forward, Enqueue, Link, Told, Tasks
<1>20. CASE ForwardGmcp
  BY <1>20 DEF ForwardGmcp, Forward, Link, Told, Tasks
<1>21. CASE ForwardDisconnect
  BY <1>21, ShutdownLink DEF ForwardDisconnect, Reasons, Forward
<1>22. CASE MainWakes
  BY <1>22 DEF MainWakes, Enqueue, Cancelled, Link, Told, Tasks
<1>23. CASE GroupAborts
  BY <1>23 DEF GroupAborts, Cancelled, Crashed, Ended, Link, Told, Tasks
<1>24. CASE MainEnds
  BY <1>24 DEF MainEnds, Crashed, Link, Told, Tasks
<1>25. CASE UNCHANGED vars
  BY <1>25 DEF vars, Link, Told, Tasks
<1> QED
  BY <1>1, <1>2, <1>3, <1>4, <1>5, <1>6, <1>7, <1>8, <1>9, <1>10, <1>11, <1>12, <1>13,
     <1>14, <1>15, <1>16, <1>17, <1>18, <1>19, <1>20, <1>21, <1>22, <1>23, <1>24,
     <1>25
     DEF Next, Reader, Writer, Starter, Runner, Environment
LEMMA NextIInv == IInv /\ [Next]_vars => IInv'
BY TypeNext, TasksNext, QueueNext, LinkNext DEF IInv

-------------------------------------------------------------------------------
(* The theorems *)

\* The inductive invariant holds in every state.
THEOREM Invariant == Spec => []IInv
BY InitIInv, NextIInv, PTL DEF Spec

\* The connection is type correct.
THEOREM TypeCorrect == Spec => []TypeOK
<1>1. IInv => TypeOK
  BY DEF IInv
<1> QED BY <1>1, Invariant, PTL

\* The game is told of the end of a link at most once, and never without it.
THEOREM DisconnectCorrect == Spec => []DisconnectOnce
<1>1. IInv => DisconnectOnce
  BY DEF IInv, Link, TypeOK, DisconnectOnce
<1> QED BY <1>1, Invariant, PTL

\* When run() returns, the game knows of the end of a link it was given.
THEOREM KnowledgeCorrect == Spec => []GameKnows
<1>1. IInv => GameKnows
  BY DEF IInv, Link, Told, TypeOK, Tasks, Crashed, GameKnows
<1> QED BY <1>1, Invariant, PTL

\* What was queued before the shutdown is written before run() returns.
THEOREM LastWordsCorrect == Spec => []LastWordsWritten
<1> SUFFICES IInv => LastWordsWritten
  BY Invariant, PTL
<1> SUFFICES ASSUME IInv, main = "returned", sock # "reset"
             PROVE  /\ owed <= Len(written)
                    /\ SubSeq(written, 1, owed) = SubSeq(enqueued, 1, owed)
  BY DEF LastWordsWritten
<1>1. writer = "done" /\ ~ aborted
  BY DEF IInv, Tasks, Ended, Crashed
<1>2. written # << >> /\ written[Len(written)] = None
  BY <1>1 DEF IInv, Closing
<1>3. Len(written) \in Nat \ {0} /\ Len(out_queue) \in Nat /\ owed \in Nat
  BY <1>2 DEF IInv, TypeOK
<1>4. enqueued[Len(written)] = None /\ Len(written) \in 1 .. Len(enqueued)
  BY <1>2, <1>3 DEF IInv, Rest
<1>5. owed < Len(written)
  BY <1>4 DEF IInv, Sentinels
<1>6. \A i \in 1 .. owed : written[i] = enqueued[i]
  BY <1>3, <1>5 DEF IInv, Rest
<1>7. SubSeq(written, 1, owed) = SubSeq(enqueued, 1, owed)
  BY <1>3, <1>5, <1>6 DEF IInv, TypeOK, Rest
<1> QED BY <1>3, <1>5, <1>7

\* A connection that is being shut down is not handed to the game.
THEOREM NoLinkCorrect == Spec => NoLinkAfterShutdown
<1>1. [Next]_vars => [linked' # linked => ~ shutdown_event]_vars
  <2> SUFFICES ASSUME [Next]_vars, linked' # linked PROVE ~ shutdown_event
    OBVIOUS
  <2> USE DEF peerVars, taskVars, flagVars, queueVars, serviceVars, historyVars
  <2>1. ~ Reader
    BY DEF Reader, ReceiveLine, ReceiveNegotiate, ReceiveCapability, ReceiveGmcp,
       ReceiveOversize, ReaderEnds
  <2>2. ~ Writer
    BY DEF Writer, WriterWrites, WriterDrained, WriterLost, WriterSentinel, WriterCloses
  <2>3. ~ Runner
    BY DEF Runner, MainWakes, GroupAborts, MainEnds
  <2>4. ~ Environment
    BY DEF Environment, PeerCloses, PeerResets, PeerStalls, ServiceCancelled, GameSends
  <2>5. ~ UNCHANGED vars
    BY DEF vars
  <2>6. Starter => StartLinks
    BY DEF Starter, StartNegotiates, ForwardText, ForwardGmcp, ForwardDisconnect
  <2>7. StartLinks => ~ shutdown_event
    BY DEF StartLinks
  <2> QED BY <2>1, <2>2, <2>3, <2>4, <2>5, <2>6, <2>7 DEF Next
<1> QED BY <1>1, PTL DEF Spec, NoLinkAfterShutdown

-------------------------------------------------------------------------------
(* The connection as the service sees it *)

LEMMA ShutdownView ==
  ASSUME IInv, ~ Ended, NEW reason, NEW notify_link, Shutdown(reason, notify_link),
         UNCHANGED <<main, linked, sessions, stalled>>
  PROVE  View!ShutDown \/ UNCHANGED View!vars
BY DEF IInv, TypeOK, Ended, Shutdown, View!ShutDown, View!vars

LEMMA ViewNext ==
  ASSUME IInv, [Next]_vars
  PROVE  [View!Next]_(View!vars)
<1> USE DEF IInv, TypeOK, Tasks, Ended, Crashed, View!vars, View!Next, peerVars,
            taskVars, flagVars, queueVars, serviceVars, historyVars
<1>1. CASE PeerCloses
  BY <1>1 DEF PeerCloses
<1>2. CASE PeerResets
  BY <1>2 DEF PeerResets
<1>3. CASE PeerStalls
  <2>1. View!Stall
    BY <1>3 DEF PeerStalls, View!Stall
  <2> QED BY <2>1
<1>4. CASE \E item \in GameItems : GameSends(item)
  BY <1>4 DEF GameSends
<1>5. CASE ServiceCancelled
  <2>1. View!ShutDown \/ UNCHANGED View!vars
    BY <1>5 DEF ServiceCancelled, View!ShutDown
  <2> QED BY <2>1
<1>6. CASE ReceiveLine
  BY <1>6 DEF ReceiveLine, CanReceive
<1>7. CASE ReceiveNegotiate
  BY <1>7 DEF ReceiveNegotiate, CanReceive, Enqueue
<1>8. CASE ReceiveCapability
  BY <1>8 DEF ReceiveCapability, CanReceive
<1>9. CASE ReceiveGmcp
  <2>1. View!ShutDown \/ UNCHANGED View!vars
    BY <1>9 DEF ReceiveGmcp, CanReceive, View!ShutDown
  <2> QED BY <2>1
<1>10. CASE ReceiveOversize
  <2>1. ~ Ended /\ UNCHANGED <<main, linked, sessions, stalled>>
    BY <1>10 DEF ReceiveOversize, CanReceive
  <2>2. View!ShutDown \/ UNCHANGED View!vars
    BY <1>10, <2>1, ShutdownView DEF ReceiveOversize
  <2> QED BY <2>2
<1>11. CASE ReaderEnds
  <2>1. ~ Ended /\ UNCHANGED <<main, linked, sessions, stalled>>
    BY <1>11 DEF ReaderEnds
  <2>2. View!ShutDown \/ UNCHANGED View!vars
    BY <1>11, <2>1, ShutdownView DEF ReaderEnds
  <2> QED BY <2>2
<1>12. CASE WriterWrites
  BY <1>12 DEF WriterWrites
<1>13. CASE WriterDrained
  BY <1>13 DEF WriterDrained
<1>14. CASE WriterLost
  <2>1. ~ Ended /\ UNCHANGED <<main, linked, sessions, stalled>>
    BY <1>14 DEF WriterLost
  <2>2. View!ShutDown \/ UNCHANGED View!vars
    BY <1>14, <2>1, ShutdownView DEF WriterLost
  <2> QED BY <2>2
<1>15. CASE WriterSentinel
  BY <1>15 DEF WriterSentinel
<1>16. CASE WriterCloses
  BY <1>16 DEF WriterCloses
<1>17. CASE StartNegotiates
  BY <1>17 DEF StartNegotiates, Enqueue
<1>18. CASE StartLinks
  <2>1. View!Link \/ UNCHANGED View!vars
    BY <1>18 DEF StartLinks, View!Link
  <2> QED BY <2>1
<1>19. CASE ForwardText
  BY <1>19 DEF ForwardText, Forward, Enqueue
<1>20. CASE ForwardGmcp
  BY <1>20 DEF ForwardGmcp, Forward
<1>21. CASE ForwardDisconnect
  <2>1. ~ Ended /\ UNCHANGED <<main, linked, sessions, stalled>>
    BY <1>21 DEF ForwardDisconnect, Forward
  <2>2. View!ShutDown \/ UNCHANGED View!vars
    BY <1>21, <2>1, ShutdownView DEF ForwardDisconnect
  <2> QED BY <2>2
<1>22. CASE MainWakes
  BY <1>22 DEF MainWakes, Enqueue, Cancelled
<1>23. CASE GroupAborts
  <2>1. View!ShutDown \/ UNCHANGED View!vars
    BY <1>23 DEF GroupAborts, View!ShutDown
  <2> QED BY <2>1
<1>24. CASE MainEnds
  <2>1. main = "joining" /\ shutdown_event /\ sessions
    BY <1>24 DEF MainEnds
  <2>2. CASE Crashed
    <3>1. main' = "raised" /\ sessions' = TRUE
      BY <1>24, <2>2 DEF MainEnds
    <3>2. View!End
      BY <1>24, <2>1, <3>1 DEF MainEnds, View!End
    <3> QED BY <3>2
  <2>3. CASE ~ Crashed
    <3>1. main' = "returned" /\ sessions' = FALSE
      BY <1>24, <2>3 DEF MainEnds
    <3>2. View!End
      BY <1>24, <2>1, <3>1 DEF MainEnds, View!End
    <3> QED BY <3>2
  <2> QED BY <2>2, <2>3
<1>25. CASE UNCHANGED vars
  BY <1>25 DEF vars
<1> QED
  BY <1>1, <1>2, <1>3, <1>4, <1>5, <1>6, <1>7, <1>8, <1>9, <1>10, <1>11, <1>12, <1>13,
     <1>14, <1>15, <1>16, <1>17, <1>18, <1>19, <1>20, <1>21, <1>22, <1>23, <1>24,
     <1>25
     DEF Next, Reader, Writer, Starter, Runner, Environment

\* Whichever of its tasks ends it, a connection takes the steps of a TelnetConnection
\* and no others: the safety of what the service counts on.
THEOREM Refinement == Spec => View!Spec
<1>1. Init => View!Init
  BY DEF Init, View!Init
<1>2. IInv /\ [Next]_vars => [View!Next]_(View!vars)
  BY ViewNext
<1> QED BY <1>1, <1>2, Invariant, PTL DEF Spec, View!Spec
===============================================================================
