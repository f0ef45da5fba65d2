--------------------------- MODULE SessionHubProofs ---------------------------
(***************************************************************************)
(* Machine-checked facts about SessionHub, for any characters, handlers,   *)
(* bound and behaviour of a late send.                                     *)
(*                                                                         *)
(* TypeOK is not inductive by itself: a step that reads character[h] or    *)
(* log[character[h]] is well typed because the phase of h says that h has  *)
(* opened a session. Nor is QueueIsRest: it needs to know which handlers   *)
(* are subscribed. The invariant proved is IInv; SInv, further down, adds   *)
(* how sessions are created and started.                                   *)
(***************************************************************************)
EXTENDS SessionHub, TLAPS

\* A handler has a character once it opened a session, and has neither queued
\* nor taken anything before it subscribed.
HandlerState ==
  \A h \in Handlers :
    /\ phase[h] \in {"idle", "refused"} <=> character[h] = NoChar
    /\ phase[h] \in {"idle", "refused", "opened", "dropped"} =>
         joined[h] = 0 /\ taken[h] = << >> /\ queue[h] = << >>

IInv ==
  /\ TypeOK
  /\ HandlerState
  /\ SubscriptionsAccounted
  /\ QueueIsRest

-------------------------------------------------------------------------------
(* Lemmas on windows of a log *)

\* A window grows with its log when the same item is put at the end of both.
LEMMA WindowPut ==
  ASSUME NEW j \in Nat, NEW t \in Seq(Items), NEW q \in Seq(Items),
         NEW s \in Seq(Items), NEW x \in Items,
         Window(j, t, q, s), j + Len(t) + Len(q) = Len(s)
  PROVE  /\ Window(j, t, Append(q, x), Append(s, x))
         /\ j + Len(t) + Len(Append(q, x)) = Len(Append(s, x))
<1> DEFINE r == Append(q, x)
           u == Append(s, x)
<1>1. Len(r) = Len(q) + 1 /\ Len(u) = Len(s) + 1 /\ r[Len(r)] = x /\ u[Len(u)] = x
  OBVIOUS
<1>2. \A i \in 1 .. Len(q) : r[i] = q[i]
  OBVIOUS
<1>3. \A i \in 1 .. Len(s) : u[i] = s[i]
  OBVIOUS
<1>4. Len(q) \in Nat /\ Len(t) \in Nat /\ Len(s) \in Nat
  OBVIOUS
<1>5. Len(r) \in Nat /\ Len(u) \in Nat
  OBVIOUS
<1> HIDE DEF r, u
<1>6. j + Len(t) + Len(r) = Len(u)
  <2> DEFINE lt == Len(t)
             lq == Len(q)
             ls == Len(s)
             lr == Len(r)
             lu == Len(u)
  <2>1. lt \in Nat /\ lq \in Nat /\ ls \in Nat /\ lr \in Nat /\ lu \in Nat
    BY <1>4, <1>5
  <2>2. lr = lq + 1 /\ lu = ls + 1 /\ j + lt + lq = ls
    BY <1>1
  <2> HIDE DEF lt, lq, ls, lr, lu
  <2>3. j + lt + lr = lu
    BY <2>1, <2>2
  <2> QED
    BY <2>3 DEF lt, lr, lu
<1>7. \A i \in 1 .. Len(t) : t[i] = u[j + i]
  <2>1. ASSUME NEW i \in 1 .. Len(t) PROVE t[i] = u[j + i]
    <3>1. j + i \in 1 .. Len(s)
      BY <1>4
    <3>2. t[i] = s[j + i]
      BY DEF Window
    <3> QED
      BY <3>1, <3>2, <1>3
  <2> QED
    BY <2>1
<1>8. \A i \in 1 .. Len(r) : r[i] = u[j + Len(t) + i]
  <2>1. ASSUME NEW i \in 1 .. Len(q) PROVE r[i] = u[j + Len(t) + i]
    <3>1. j + Len(t) + i \in 1 .. Len(s)
      BY <1>4
    <3>2. q[i] = s[j + Len(t) + i]
      BY DEF Window
    <3> QED
      BY <3>1, <3>2, <1>2, <1>3
  <2>2. r[Len(r)] = u[j + Len(t) + Len(r)]
    BY <1>1, <1>6
  <2>3. \A i \in 1 .. Len(r) : i \in 1 .. Len(q) \/ i = Len(r)
    BY <1>1, <1>4
  <2> QED
    BY <2>1, <2>2, <2>3
<1>9. Window(j, t, r, u)
  <2>1. j + Len(t) + Len(r) <= Len(u)
    BY <1>5, <1>6
  <2> QED
    BY <2>1, <1>7, <1>8 DEF Window
<1> QED
  BY <1>6, <1>9 DEF r, u

\* A window stays one when only its log grows.
LEMMA WindowLogGrows ==
  ASSUME NEW j \in Nat, NEW t \in Seq(Items), NEW q \in Seq(Items),
         NEW s \in Seq(Items), NEW x \in Items,
         Window(j, t, q, s)
  PROVE  Window(j, t, q, Append(s, x))
  BY DEF Window

\* A window stays one when the head of its queue is taken.
LEMMA WindowTake ==
  ASSUME NEW j \in Nat, NEW t \in Seq(Items), NEW q \in Seq(Items),
         NEW s \in Seq(Items), q # << >>,
         Window(j, t, q, s)
  PROVE  /\ Window(j, Append(t, Head(q)), Tail(q), s)
         /\ j + Len(Append(t, Head(q))) + Len(Tail(q)) = j + Len(t) + Len(q)
  BY DEF Window

\* A handler that has just subscribed has an empty window at the log's end.
LEMMA WindowStart ==
  ASSUME NEW s \in Seq(Items)
  PROVE  Window(Len(s), << >>, << >>, s)
  BY DEF Window
-------------------------------------------------------------------------------
(* Lemmas on the operations the actions share *)

\* send_event, whoever the subscribers are, leaves logs and queues well typed.
LEMMA SendEventType ==
  ASSUME TypeOK, NEW C, NEW subs, NEW item \in Items, SendEvent(C, subs, item)
  PROVE  /\ log' \in [Chars -> Seq(Items)]
         /\ queue' \in [Handlers -> Seq(Items)]
  BY DEF TypeOK, SendEvent

\* A handler's window of its session's log survives send_event; S holds the
\* subscribers of that session.
LEMMA SendEventWindow ==
  ASSUME TypeOK, NEW h \in Handlers, NEW c \in Chars,
         NEW j \in Nat, NEW t \in Seq(Items), NEW S,
         NEW C, NEW subs, NEW item \in Items, SendEvent(C, subs, item),
         (\E d \in C : h \in subs[d]) <=> c \in C /\ h \in S,
         Window(j, t, queue[h], log[c]), h \in S => j + Len(t) + Len(queue[h]) = Len(log[c])
  PROVE  /\ Window(j, t, queue'[h], log'[c])
         /\ h \in S => j + Len(t) + Len(queue'[h]) = Len(log'[c])
<1> DEFINE r == log[c]
           q == queue[h]
<1>1. r \in Seq(Items) /\ q \in Seq(Items) /\ Window(j, t, q, r)
  BY DEF TypeOK
<1>2. CASE c \in C /\ h \in S
  <2>1. log'[c] = Append(r, item) /\ queue'[h] = Append(q, item)
    BY <1>2 DEF SendEvent
  <2>2. j + Len(t) + Len(q) = Len(r)
    BY <1>2
  <2> HIDE DEF r, q
  <2>3. /\ Window(j, t, Append(q, item), Append(r, item))
        /\ j + Len(t) + Len(Append(q, item)) = Len(Append(r, item))
    BY <1>1, <2>2, WindowPut
  <2> QED
    BY <2>1, <2>3
<1>3. CASE c \in C /\ h \notin S
  <2>1. log'[c] = Append(r, item) /\ queue'[h] = q
    BY <1>3 DEF SendEvent
  <2> HIDE DEF r, q
  <2>2. Window(j, t, q, Append(r, item))
    BY <1>1, WindowLogGrows
  <2> QED
    BY <2>1, <2>2, <1>3
<1>4. CASE c \notin C
  <2>1. log'[c] = r /\ queue'[h] = q
    BY <1>4 DEF SendEvent
  <2> QED
    BY <2>1, <1>1
<1> QED
  BY <1>2, <1>3, <1>4

\* send_event to the subscribers of some sessions keeps the whole invariant.
LEMMA SendEventInv ==
  ASSUME IInv, NEW C \in SUBSET Chars, NEW item \in Items,
         SendEvent(C, subscriptions, item),
         UNCHANGED <<sessionVars, handlerVars, joined, taken>>
  PROVE  IInv'
<1> USE DEF IInv, sessionVars, handlerVars
<1>1. TypeOK'
  BY SendEventType DEF TypeOK
<1>2. \A h \in Handlers, c \in Chars : h \in subscriptions[c] => c = character[h]
  BY DEF SubscriptionsAccounted
<1>3. \A h \in Handlers : (\E c \in C : h \in subscriptions[c]) <=>
        character[h] \in C /\ h \in subscriptions[character[h]]
  BY <1>2
<1>4. HandlerState'
  <2>1. ASSUME NEW h \in Handlers,
               phase[h] \in {"idle", "refused", "opened", "dropped"}
        PROVE  queue'[h] = queue[h]
    BY <2>1, <1>3 DEF SendEvent, SubscriptionsAccounted
  <2> QED
    BY <2>1 DEF HandlerState
<1>5. SubscriptionsAccounted'
  BY DEF SubscriptionsAccounted
<1>6. QueueIsRest'
  <2> SUFFICES ASSUME NEW h \in Handlers, character[h] # NoChar
               PROVE  /\ Window(joined[h], taken[h], queue'[h], log'[character[h]])
                      /\ h \in subscriptions[character[h]] =>
                           joined[h] + Len(taken[h]) + Len(queue'[h])
                             = Len(log'[character[h]])
    BY DEF QueueIsRest
  <2> DEFINE c == character[h]
             S == subscriptions[c]
             j == joined[h]
             t == taken[h]
             q == queue[h]
  <2>1. /\ c \in Chars
        /\ j \in Nat /\ t \in Seq(Items) /\ q \in Seq(Items)
    BY DEF TypeOK
  <2>2. Window(j, t, q, log[c]) /\ (h \in S => j + Len(t) + Len(q) = Len(log[c]))
    BY DEF QueueIsRest
  <2>3. (\E d \in C : h \in subscriptions[d]) <=> c \in C /\ h \in S
    BY <1>3
  <2>4. TypeOK /\ q = queue[h]
    OBVIOUS
  <2> HIDE DEF c, S, j, t, q, IInv
  <2>5. /\ Window(j, t, queue'[h], log'[c])
        /\ h \in S => j + Len(t) + Len(queue'[h]) = Len(log'[c])
    BY <2>1, <2>2, <2>3, <2>4, SendEventWindow
  <2> QED
    BY <2>5 DEF c, S, j, t
<1> QED
  BY <1>1, <1>4, <1>5, <1>6

\* Taking from a queue is well typed.
LEMMA TakeType ==
  ASSUME TypeOK, NEW h \in Handlers, Take(h)
  PROVE  /\ queue' \in [Handlers -> Seq(Items)]
         /\ taken' \in [Handlers -> Seq(Items)]
         /\ log' \in [Chars -> Seq(Items)]
         /\ joined' \in [Handlers -> Nat]
  BY DEF TypeOK, Take

\* Taking from a queue moves its head to the end of what was taken, and a
\* handler may stop being subscribed in the same step.
LEMMA TakeRest ==
  ASSUME IInv, NEW h \in Handlers, Take(h), character' = character,
         \A c \in Chars : subscriptions'[c] \subseteq subscriptions[c]
  PROVE  QueueIsRest'
<1> SUFFICES ASSUME NEW k \in Handlers, character[k] # NoChar
             PROVE  /\ Window(joined[k], taken'[k], queue'[k], log[character[k]])
                    /\ k \in subscriptions'[character[k]] =>
                         joined[k] + Len(taken'[k]) + Len(queue'[k])
                           = Len(log[character[k]])
  BY DEF QueueIsRest, Take
<1> DEFINE c == character[k]
<1>1. /\ c \in Chars
      /\ joined[k] \in Nat /\ taken[k] \in Seq(Items)
      /\ queue[k] \in Seq(Items) /\ log[c] \in Seq(Items)
  BY DEF IInv, TypeOK
<1>2. /\ Window(joined[k], taken[k], queue[k], log[c])
      /\ k \in subscriptions'[c] =>
           joined[k] + Len(taken[k]) + Len(queue[k]) = Len(log[c])
  BY <1>1 DEF IInv, QueueIsRest
<1>3. CASE k = h
  <2>1. /\ queue[k] # << >>
        /\ taken'[k] = Append(taken[k], Head(queue[k]))
        /\ queue'[k] = Tail(queue[k])
    BY <1>3 DEF Take, IInv, TypeOK
  <2>2. /\ Window(joined[k], Append(taken[k], Head(queue[k])), Tail(queue[k]), log[c])
        /\ joined[k] + Len(Append(taken[k], Head(queue[k]))) + Len(Tail(queue[k]))
             = joined[k] + Len(taken[k]) + Len(queue[k])
    BY <1>1, <1>2, <2>1, WindowTake
  <2> QED
    BY <1>2, <2>1, <2>2
<1>4. CASE k # h
  <2>1. taken'[k] = taken[k] /\ queue'[k] = queue[k]
    BY <1>4 DEF Take, IInv, TypeOK
  <2> QED
    BY <1>2, <2>1
<1> QED
  BY <1>3, <1>4

\* Subscribing, and starting the session one has created, is well typed.
LEMMA SubscribeType ==
  ASSUME TypeOK, NEW h \in Handlers, NEW c \in Chars, NEW start \in BOOLEAN,
         SubscribeAndStart(h, c, start)
  PROVE  /\ subscriptions' \in [Chars -> SUBSET Handlers]
         /\ subscriptions' = [subscriptions EXCEPT ![c] = @ \cup {h}]
         /\ active' \in [Chars -> BOOLEAN]
         /\ log' \in [Chars -> Seq(Items)]
         /\ queue' \in [Handlers -> Seq(Items)]
         /\ joined' \in [Handlers -> Nat]
         /\ joined' = [joined EXCEPT ![h] = Len(log[c])]
         /\ taken' = taken
<1> DEFINE subs == [subscriptions EXCEPT ![c] = @ \cup {h}]
<1>1. subs \in [Chars -> SUBSET Handlers]
  BY DEF TypeOK
<1>2. /\ subscriptions' = subs
      /\ joined' = [joined EXCEPT ![h] = Len(log[c])]
      /\ taken' = taken
  BY DEF SubscribeAndStart
<1>3. joined' \in [Handlers -> Nat]
  BY <1>2 DEF TypeOK
<1>4. CASE start
  <2>1. SendEvent({c}, subs, "ping") /\ active' = [active EXCEPT ![c] = TRUE]
    BY <1>4 DEF SubscribeAndStart
  <2>2. log' \in [Chars -> Seq(Items)] /\ queue' \in [Handlers -> Seq(Items)]
    BY <2>1, SendEventType DEF Items, Events
  <2> QED
    BY <1>1, <1>2, <1>3, <2>1, <2>2 DEF TypeOK
<1>5. CASE ~ start
  <2>1. UNCHANGED <<active, log, queue>>
    BY <1>5 DEF SubscribeAndStart
  <2> QED
    BY <1>1, <1>2, <1>3, <2>1 DEF TypeOK
<1> QED
  BY <1>4, <1>5

\* A handler that has not subscribed yet does so: its window opens at the end of
\* the log, and the start's ping, if there is one, falls into every window of
\* the session.
LEMMA SubscribeRest ==
  ASSUME IInv, NEW h \in Handlers, NEW c \in Chars, NEW start \in BOOLEAN,
         SubscribeAndStart(h, c, start),
         phase[h] \in {"idle", "opened"},
         character' = [character EXCEPT ![h] = c]
  PROVE  /\ QueueIsRest'
         /\ \A k \in Handlers \ {h} :
              phase[k] \in {"idle", "refused", "opened", "dropped"} =>
                queue'[k] = queue[k]
<1> USE DEF IInv
<1> DEFINE subs == [subscriptions EXCEPT ![c] = @ \cup {h}]
<1>1. TypeOK /\ taken' = taken /\ subscriptions' = subs
  BY DEF SubscribeAndStart
<1>2. queue[h] = << >> /\ taken[h] = << >> /\ joined'[h] = Len(log[c]) /\ character'[h] = c
  BY DEF HandlerState, SubscribeAndStart, TypeOK
<1>3. \A k \in Handlers \ {h} : joined'[k] = joined[k] /\ character'[k] = character[k]
  BY DEF SubscribeAndStart, TypeOK
<1>4. \A k \in Handlers, d \in Chars : k # h => (k \in subs[d] <=> k \in subscriptions[d])
  BY DEF TypeOK
<1>5. \A k \in Handlers, d \in Chars :
        k # h /\ k \in subs[d] =>
          /\ d = character[k]
          /\ phase[k] \notin {"idle", "refused", "opened", "dropped"}
  BY <1>4 DEF SubscriptionsAccounted
<1>6. h \in subs[c]
  BY DEF TypeOK
<1>7. ASSUME NEW k \in Handlers, character'[k] # NoChar
      PROVE  /\ Window(joined'[k], taken[k], queue'[k], log'[character'[k]])
             /\ k \in subs[character'[k]] =>
                  joined'[k] + Len(taken[k]) + Len(queue'[k]) = Len(log'[character'[k]])
  <2> DEFINE d == character'[k]
             S == subs[d]
             j == joined'[k]
             t == taken[k]
             q == queue[k]
  <2>1. /\ d \in Chars
        /\ j \in Nat /\ t \in Seq(Items) /\ q \in Seq(Items)
    BY <1>7, <1>2, <1>3 DEF TypeOK
  <2>2. Window(j, t, q, log[d]) /\ (k \in S => j + Len(t) + Len(q) = Len(log[d]))
    <3>1. CASE k = h
      <4>1. d = c /\ j = Len(log[d]) /\ t = << >> /\ q = << >> /\ log[d] \in Seq(Items)
        BY <3>1, <1>2, <1>1 DEF TypeOK
      <4>2. Len(log[d]) + Len(<< >>) + Len(<< >>) = Len(log[d])
        BY <4>1
      <4> QED
        BY <4>1, <4>2, WindowStart
    <3>2. CASE k # h
      <4>1. j = joined[k] /\ d = character[k] /\ d # NoChar
        BY <3>2, <1>3, <1>7
      <4>2. k \in S => k \in subscriptions[d]
        BY <3>2, <1>4, <2>1
      <4> QED
        BY <4>1, <4>2 DEF QueueIsRest
    <3> QED
      BY <3>1, <3>2
  <2>3. CASE start
    <3> DEFINE C == {c}
    <3>1. SendEvent(C, subs, "ping") /\ "ping" \in Items
      BY <2>3 DEF SubscribeAndStart, Items, Events
    <3>2. (\E e \in C : k \in subs[e]) <=> d \in C /\ k \in S
      BY <1>2, <1>3, <1>4, <1>5, <1>6
    <3>3. /\ Window(j, t, queue[k], log[d])
          /\ k \in S => j + Len(t) + Len(queue[k]) = Len(log[d])
      BY <2>2
    <3> HIDE DEF d, S, j, t, q, C, subs, IInv
    <3>4. /\ Window(j, t, queue'[k], log'[d])
          /\ k \in S => j + Len(t) + Len(queue'[k]) = Len(log'[d])
      BY <1>1, <2>1, <3>1, <3>2, <3>3, SendEventWindow
    <3> QED
      BY <3>4 DEF d, S, j, t
  <2>4. CASE ~ start
    <3>1. log' = log /\ queue' = queue
      BY <2>4 DEF SubscribeAndStart
    <3> QED
      BY <3>1, <2>2
  <2> QED
    BY <2>3, <2>4
<1>8. QueueIsRest'
  BY <1>1, <1>7 DEF QueueIsRest
<1>9. ASSUME NEW k \in Handlers \ {h}, phase[k] \in {"idle", "refused", "opened", "dropped"}
      PROVE  queue'[k] = queue[k]
  <2>1. CASE start
    BY <1>5, <1>9, <2>1 DEF SubscribeAndStart, SendEvent
  <2>2. CASE ~ start
    BY <2>2 DEF SubscribeAndStart
  <2> QED
    BY <2>1, <2>2
<1> QED
  BY <1>8, <1>9

\* A step that touches no log and no queue, and moves no handler to another
\* character, keeps the windows; handlers may stop being subscribed.
LEMMA RestKept ==
  ASSUME IInv, UNCHANGED <<feedVars, character>>,
         \A c \in Chars : subscriptions'[c] \subseteq subscriptions[c]
  PROVE  QueueIsRest'
  BY DEF IInv, QueueIsRest, TypeOK, feedVars

\* Unsubscribing takes one handler out of one session's subscribers.
LEMMA UnsubscribeFacts ==
  ASSUME TypeOK, NEW h \in Handlers, character[h] \in Chars, Unsubscribe(h)
  PROVE  /\ subscriptions' \in [Chars -> SUBSET Handlers]
         /\ \A c \in Chars : subscriptions'[c] \subseteq subscriptions[c]
         /\ \A k \in Handlers, c \in Chars :
              k \in subscriptions'[c] <=>
                k \in subscriptions[c] /\ ~ (k = h /\ c = character[h])
  BY DEF TypeOK, Unsubscribe

-------------------------------------------------------------------------------
(* The invariant *)

LEMMA InitInv == Init => IInv
<1> SUFFICES ASSUME Init PROVE IInv
  OBVIOUS
<1>1. TypeOK
  BY DEF Init, TypeOK, Phases
<1>2. HandlerState
  BY DEF Init, HandlerState
<1>3. SubscriptionsAccounted
  BY NoCharAssumption DEF Init, SubscriptionsAccounted, Handlers
<1>4. QueueIsRest
  BY DEF Init, QueueIsRest
<1> QED
  BY <1>1, <1>2, <1>3, <1>4 DEF IInv

\* No step of a handler or of anyone else breaks the invariant.
LEMMA StepInv == IInv /\ [Next]_vars => IInv'
<1> SUFFICES ASSUME IInv, [Next]_vars PROVE IInv'
  OBVIOUS
<1> USE DEF Becomes
<1>a. /\ TypeOK /\ HandlerState /\ SubscriptionsAccounted /\ QueueIsRest
      /\ \A h \in Handlers : phase[h] \notin {"idle", "refused"} => character[h] \in Chars
  BY DEF IInv, TypeOK, HandlerState
<1>1. ASSUME NEW h \in Handlers, ClientLeaves(h) PROVE IInv'
  <2>1. TypeOK'
    BY <1>1, <1>a DEF ClientLeaves, TypeOK, Phases, sessionVars, handlerVars, feedVars
  <2>2. HandlerState'
    BY <1>1, <1>a DEF ClientLeaves, TypeOK, HandlerState, sessionVars, handlerVars, feedVars
  <2>3. SubscriptionsAccounted'
    BY <1>1, <1>a DEF ClientLeaves, TypeOK, HandlerState, SubscriptionsAccounted, sessionVars, handlerVars, feedVars
  <2>4. QueueIsRest'
    BY <1>1, <1>a, RestKept DEF ClientLeaves, TypeOK, sessionVars, feedVars
  <2> QED
    BY <2>1, <2>2, <2>3, <2>4 DEF IInv
<1>2. ASSUME NEW h \in Handlers, Refuse(h) PROVE IInv'
  <2>1. TypeOK'
    BY <1>2, <1>a DEF Refuse, TypeOK, Phases, sessionVars, handlerVars, feedVars
  <2>2. HandlerState'
    BY <1>2, <1>a DEF Refuse, TypeOK, HandlerState, sessionVars, handlerVars, feedVars
  <2>3. SubscriptionsAccounted'
    BY <1>2, <1>a DEF Refuse, TypeOK, HandlerState, SubscriptionsAccounted, sessionVars, handlerVars, feedVars
  <2>4. QueueIsRest'
    BY <1>2, <1>a, RestKept DEF Refuse, TypeOK, sessionVars, feedVars
  <2> QED
    BY <2>1, <2>2, <2>3, <2>4 DEF IInv
<1>3. ASSUME NEW h \in WsHandlers, NEW c \in Chars, WsOpen(h, c) PROVE IInv'
  <2> DEFINE start == c \notin active_sessions
  <2>a. /\ h \in Handlers /\ start \in BOOLEAN /\ SubscribeAndStart(h, c, start)
        /\ phase[h] \in {"idle", "opened"} /\ character' = [character EXCEPT ![h] = c]
    BY <1>3 DEF WsOpen, Handlers, GetSession
  <2> HIDE DEF start
  <2>b. /\ QueueIsRest'
        /\ \A i \in Handlers \ {h} :
             phase[i] \in {"idle", "refused", "opened", "dropped"} => queue'[i] = queue[i]
    BY <2>a, SubscribeRest
  <2>c. /\ subscriptions' = [subscriptions EXCEPT ![c] = @ \cup {h}]
        /\ subscriptions' \in [Chars -> SUBSET Handlers] /\ active' \in [Chars -> BOOLEAN]
        /\ log' \in [Chars -> Seq(Items)] /\ queue' \in [Handlers -> Seq(Items)]
        /\ joined' \in [Handlers -> Nat] /\ joined' = [joined EXCEPT ![h] = Len(log[c])]
        /\ taken' = taken
    BY <1>a, <2>a, SubscribeType
  <2>1. TypeOK'
    BY <1>3, <1>a, <2>a, <2>c DEF WsOpen, TypeOK, Phases, sessionVars, handlerVars, feedVars, GetSession, Handlers
  <2>2. HandlerState'
    BY <1>3, <1>a, <2>a, <2>c, <2>b, NoCharAssumption DEF WsOpen, TypeOK, HandlerState, sessionVars, handlerVars, feedVars, GetSession, Handlers
  <2>3. SubscriptionsAccounted'
    BY <1>3, <1>a, <2>a, <2>c, HandlersAssumption, NoCharAssumption DEF WsOpen, TypeOK, HandlerState, SubscriptionsAccounted, sessionVars, handlerVars, feedVars, GetSession, Handlers
  <2>4. QueueIsRest'
    BY <2>b
  <2> QED
    BY <2>1, <2>2, <2>3, <2>4 DEF IInv
<1>4. ASSUME NEW h \in WsHandlers, WsCommand(h) PROVE IInv'
  <2>1. /\ SendEvent({character[h]}, subscriptions, "text") /\ "text" \in Items /\ {character[h]} \in SUBSET Chars
        /\ UNCHANGED <<sessionVars, handlerVars, joined, taken>>
    BY <1>4, <1>a DEF WsCommand, Items, Events, Handlers, TypeOK
  <2> QED
    BY <2>1, SendEventInv
<1>5. ASSUME NEW h \in WsHandlers, WsCommandFails(h) PROVE IInv'
  <2>1. TypeOK'
    BY <1>5, <1>a DEF WsCommandFails, TypeOK, Phases, sessionVars, handlerVars, feedVars, Handlers
  <2>2. HandlerState'
    BY <1>5, <1>a DEF WsCommandFails, TypeOK, HandlerState, sessionVars, handlerVars, feedVars, Handlers
  <2>3. SubscriptionsAccounted'
    BY <1>5, <1>a, HandlersAssumption DEF WsCommandFails, TypeOK, HandlerState, SubscriptionsAccounted, sessionVars, handlerVars, feedVars, Handlers
  <2>4. QueueIsRest'
    BY <1>5, <1>a, RestKept DEF WsCommandFails, TypeOK, sessionVars, feedVars
  <2> QED
    BY <2>1, <2>2, <2>3, <2>4 DEF IInv
<1>6. ASSUME NEW h \in WsHandlers, WsDisconnect(h) PROVE IInv'
  <2>a. /\ IInv /\ h \in Handlers /\ h \in WsHandlers /\ character[h] \in Chars
        /\ UNCHANGED feedVars
    BY <1>6, <1>a DEF WsDisconnect, Handlers
  <2>b. /\ UNCHANGED <<queue, taken, log, joined>>
        /\ phase[h] \in {"running", "silent"}
    BY <1>6 DEF WsDisconnect, feedVars
  <2>c. CASE phase[h] = "silent"
    <3>1. /\ Unsubscribe(h) /\ phase' = [phase EXCEPT ![h] = "finished"]
          /\ UNCHANGED <<active_sessions, active, character, should_start, link, sending>>
      BY <1>6, <2>c DEF WsDisconnect
    <3>2. /\ subscriptions' \in [Chars -> SUBSET Handlers]
          /\ \A c \in Chars : subscriptions'[c] \subseteq subscriptions[c]
          /\ \A k \in Handlers, c \in Chars :
               k \in subscriptions'[c] <=>
                 k \in subscriptions[c] /\ ~ (k = h /\ c = character[h])
      BY <1>a, <2>a, <3>1, UnsubscribeFacts
    <3>3. TypeOK'
      BY <1>a, <2>a, <2>b, <3>1, <3>2 DEF TypeOK, Phases
    <3>4. HandlerState'
      BY <1>a, <2>a, <2>b, <3>1 DEF TypeOK, HandlerState
    <3>5. SubscriptionsAccounted'
      BY <1>a, <2>a, <3>1, <3>2, HandlersAssumption
         DEF TypeOK, SubscriptionsAccounted, Handlers
    <3>6. QueueIsRest'
      BY <2>a, <3>1, <3>2, RestKept
    <3> QED
      BY <3>3, <3>4, <3>5, <3>6 DEF IInv
  <2>d. CASE phase[h] = "running"
    <3>1. /\ phase' = [phase EXCEPT ![h] = "draining"]
          /\ UNCHANGED <<subscriptions, active_sessions, active, character, should_start, link, sending>>
      BY <1>6, <2>d DEF WsDisconnect
    <3>3. TypeOK'
      BY <1>a, <2>a, <2>b, <3>1 DEF TypeOK, Phases
    <3>4. HandlerState'
      BY <1>a, <2>a, <2>b, <3>1, <2>d DEF TypeOK, HandlerState
    <3>5. SubscriptionsAccounted'
      BY <1>a, <2>a, <3>1, <2>d, HandlersAssumption
         DEF TypeOK, SubscriptionsAccounted, Handlers
    <3>6. QueueIsRest'
      BY <2>a, <3>1, RestKept
    <3> QED
      BY <3>3, <3>4, <3>5, <3>6 DEF IInv
  <2> QED
    BY <2>b, <2>c, <2>d
<1>7. ASSUME NEW h \in WsHandlers, WsTake(h) PROVE IInv'
  <2>a. h \in Handlers /\ Take(h) /\ character' = character
    BY <1>7 DEF WsTake, Handlers, handlerVars
  <2>b. \A c \in Chars : subscriptions'[c] \subseteq subscriptions[c]
    BY <1>7, <1>a DEF WsTake, Unsubscribe, TypeOK, sessionVars
  <2>1. TypeOK'
    BY <1>7, <1>a, <2>a, TakeType DEF WsTake, TypeOK, Phases, sessionVars, handlerVars, feedVars, Sending, Take, Handlers
  <2>2. HandlerState'
    BY <1>7, <1>a DEF WsTake, TypeOK, HandlerState, sessionVars, handlerVars, feedVars, Sending, Take, Handlers
  <2>3. SubscriptionsAccounted'
    BY <1>7, <1>a, HandlersAssumption DEF WsTake, TypeOK, HandlerState, SubscriptionsAccounted, sessionVars, handlerVars, feedVars, Sending, Take, Handlers
  <2>4. QueueIsRest'
    BY <2>a, <2>b, TakeRest
  <2> QED
    BY <2>1, <2>2, <2>3, <2>4 DEF IInv
<1>7s. ASSUME NEW h \in WsHandlers, WsSent(h) PROVE IInv'
  <2>1. TypeOK'
    BY <1>7s, <1>a DEF WsSent, TypeOK, sessionVars, feedVars
  <2>2. HandlerState'
    BY <1>7s, <1>a DEF WsSent, HandlerState, sessionVars, feedVars
  <2>3. SubscriptionsAccounted'
    BY <1>7s, <1>a DEF WsSent, SubscriptionsAccounted, sessionVars, feedVars
  <2>4. QueueIsRest'
    BY <1>7s, <1>a, RestKept DEF WsSent, TypeOK, sessionVars, feedVars
  <2> QED
    BY <2>1, <2>2, <2>3, <2>4 DEF IInv
<1>8. ASSUME NEW h \in WsHandlers, WsSendFails(h) PROVE IInv'
  <2>1. TypeOK'
    BY <1>8, <1>a DEF WsSendFails, TypeOK, Phases, sessionVars, handlerVars, feedVars, Sending, Handlers
  <2>2. HandlerState'
    BY <1>8, <1>a DEF WsSendFails, TypeOK, HandlerState, sessionVars, handlerVars, feedVars, Sending, Handlers
  <2>3. SubscriptionsAccounted'
    BY <1>8, <1>a, HandlersAssumption DEF WsSendFails, TypeOK, HandlerState, SubscriptionsAccounted, sessionVars, handlerVars, feedVars, Sending, Handlers
  <2>4. QueueIsRest'
    BY <1>8, <1>a, RestKept DEF WsSendFails, TypeOK, sessionVars, feedVars
  <2> QED
    BY <2>1, <2>2, <2>3, <2>4 DEF IInv
<1>9. ASSUME NEW h \in WsHandlers, WsSentinel(h) PROVE IInv'
  <2>a. /\ IInv /\ h \in Handlers /\ h \in WsHandlers /\ character[h] \in Chars
        /\ Take(h) /\ phase[h] \in {"running", "draining"}
    BY <1>9, <1>a DEF WsSentinel, Handlers, Sending
  <2>b. /\ queue' \in [Handlers -> Seq(Items)] /\ taken' \in [Handlers -> Seq(Items)]
        /\ log' \in [Chars -> Seq(Items)] /\ joined' \in [Handlers -> Nat]
        /\ joined' = joined
        /\ \A k \in Handlers \ {h} : queue'[k] = queue[k] /\ taken'[k] = taken[k]
    BY <1>a, <2>a, TakeType DEF TypeOK, Take
  <2>c. CASE phase[h] = "draining"
    <3>1. /\ Unsubscribe(h) /\ phase' = [phase EXCEPT ![h] = "finished"]
          /\ UNCHANGED <<active_sessions, active, character, should_start, link, sending>>
      BY <1>9, <2>c DEF WsSentinel
    <3>2. /\ subscriptions' \in [Chars -> SUBSET Handlers]
          /\ \A c \in Chars : subscriptions'[c] \subseteq subscriptions[c]
          /\ \A k \in Handlers, c \in Chars :
               k \in subscriptions'[c] <=>
                 k \in subscriptions[c] /\ ~ (k = h /\ c = character[h])
      BY <1>a, <2>a, <3>1, UnsubscribeFacts
    <3>3. TypeOK'
      BY <1>a, <2>a, <2>b, <3>1, <3>2 DEF TypeOK, Phases
    <3>4. HandlerState'
      BY <1>a, <2>a, <2>b, <3>1 DEF TypeOK, HandlerState
    <3>5. SubscriptionsAccounted'
      BY <1>a, <2>a, <3>1, <3>2, HandlersAssumption
         DEF TypeOK, SubscriptionsAccounted, Handlers
    <3>6. QueueIsRest'
      BY <2>a, <3>1, <3>2, TakeRest
    <3> QED
      BY <3>3, <3>4, <3>5, <3>6 DEF IInv
  <2>d. CASE phase[h] = "running"
    <3>1. /\ phase' = [phase EXCEPT ![h] = "silent"]
          /\ UNCHANGED <<subscriptions, active_sessions, active, character, should_start, link, sending>>
      BY <1>9, <2>d DEF WsSentinel
    <3>3. TypeOK'
      BY <1>a, <2>a, <2>b, <3>1 DEF TypeOK, Phases
    <3>4. HandlerState'
      BY <1>a, <2>a, <2>b, <3>1, <2>d DEF TypeOK, HandlerState
    <3>5. SubscriptionsAccounted'
      BY <1>a, <2>a, <3>1, <2>d, HandlersAssumption
         DEF TypeOK, SubscriptionsAccounted, Handlers
    <3>6. QueueIsRest'
      BY <2>a, <3>1, TakeRest
    <3> QED
      BY <3>3, <3>4, <3>5, <3>6 DEF IInv
  <2> QED
    BY <2>a, <2>c, <2>d
<1>10. ASSUME NEW h \in SseHandlers, NEW c \in Chars, SseOpen(h, c) PROVE IInv'
  <2>1. TypeOK'
    BY <1>10, <1>a DEF SseOpen, TypeOK, Phases, sessionVars, handlerVars, feedVars, GetSession, Handlers
  <2>2. HandlerState'
    BY <1>10, <1>a, NoCharAssumption DEF SseOpen, TypeOK, HandlerState, sessionVars, handlerVars, feedVars, GetSession, Handlers
  <2>3. SubscriptionsAccounted'
    BY <1>10, <1>a, HandlersAssumption, NoCharAssumption DEF SseOpen, TypeOK, HandlerState, SubscriptionsAccounted, sessionVars, handlerVars, feedVars, GetSession, Handlers
  <2>4. QueueIsRest'
    <3>1. h \notin subscriptions[c] /\ character[h] = NoChar /\ joined[h] = 0
          /\ taken[h] = << >> /\ queue[h] = << >> /\ character'[h] = c
      BY <1>10, <1>a, NoCharAssumption
         DEF SseOpen, GetSession, TypeOK, HandlerState, SubscriptionsAccounted, Handlers
    <3>2. \A i \in Handlers \ {h} : character'[i] = character[i]
      BY <1>10, <1>a DEF SseOpen, GetSession, TypeOK
    <3>3. Window(0, << >>, << >>, log[c])
      BY <1>10, <1>a DEF Window, TypeOK
    <3> QED
      BY <1>10, <1>a, <3>1, <3>2, <3>3 DEF SseOpen, QueueIsRest, feedVars, Handlers
  <2> QED
    BY <2>1, <2>2, <2>3, <2>4 DEF IInv
<1>11. ASSUME NEW h \in SseHandlers, SseBegin(h) PROVE IInv'
  <2> DEFINE c == character[h]
             start == should_start[h]
  <2>a. /\ h \in Handlers /\ c \in Chars /\ start \in BOOLEAN
        /\ SubscribeAndStart(h, c, start)
        /\ phase[h] \in {"idle", "opened"} /\ character' = [character EXCEPT ![h] = c]
    BY <1>11, <1>a DEF SseBegin, Handlers, TypeOK
  <2> HIDE DEF start
  <2>b. /\ QueueIsRest'
        /\ \A i \in Handlers \ {h} :
             phase[i] \in {"idle", "refused", "opened", "dropped"} => queue'[i] = queue[i]
    BY <2>a, SubscribeRest
  <2>c. /\ subscriptions' = [subscriptions EXCEPT ![c] = @ \cup {h}]
        /\ subscriptions' \in [Chars -> SUBSET Handlers] /\ active' \in [Chars -> BOOLEAN]
        /\ log' \in [Chars -> Seq(Items)] /\ queue' \in [Handlers -> Seq(Items)]
        /\ joined' \in [Handlers -> Nat] /\ joined' = [joined EXCEPT ![h] = Len(log[c])]
        /\ taken' = taken
    BY <1>a, <2>a, SubscribeType
  <2>1. TypeOK'
    BY <1>11, <1>a, <2>a, <2>c DEF SseBegin, TypeOK, Phases, sessionVars, handlerVars, feedVars, Handlers
  <2>2. HandlerState'
    <3>1. /\ character' = character /\ taken' = taken /\ c # NoChar
          /\ phase' = [phase EXCEPT ![h] = "running"]
          /\ joined' = [joined EXCEPT ![h] = Len(log[c])]
      BY <1>11, <1>a, <2>a, <2>c, NoCharAssumption DEF SseBegin
    <3>2. \A i \in Handlers \ {h} :
            joined'[i] = joined[i] /\ phase'[i] = phase[i]
      BY <3>1, <1>a DEF TypeOK
    <3>3. phase'[h] = "running"
      BY <3>1, <2>a, <1>a DEF TypeOK
    <3> QED
      BY <1>a, <2>b, <3>1, <3>2, <3>3 DEF HandlerState
  <2>3. SubscriptionsAccounted'
    BY <1>11, <1>a, <2>a, <2>c, HandlersAssumption DEF SseBegin, TypeOK, HandlerState, SubscriptionsAccounted, sessionVars, handlerVars, feedVars, Handlers
  <2>4. QueueIsRest'
    BY <2>b
  <2> QED
    BY <2>1, <2>2, <2>3, <2>4 DEF IInv
<1>12. ASSUME NEW h \in SseHandlers, SseNeverBegins(h) PROVE IInv'
  <2>1. TypeOK'
    BY <1>12, <1>a DEF SseNeverBegins, TypeOK, Phases, sessionVars, handlerVars, feedVars, Handlers
  <2>2. HandlerState'
    BY <1>12, <1>a DEF SseNeverBegins, TypeOK, HandlerState, sessionVars, handlerVars, feedVars, Handlers
  <2>3. SubscriptionsAccounted'
    BY <1>12, <1>a DEF SseNeverBegins, TypeOK, HandlerState, SubscriptionsAccounted, sessionVars, handlerVars, feedVars, Handlers
  <2>4. QueueIsRest'
    BY <1>12, <1>a, RestKept DEF SseNeverBegins, TypeOK, sessionVars, feedVars
  <2> QED
    BY <2>1, <2>2, <2>3, <2>4 DEF IInv
<1>13. ASSUME NEW h \in SseHandlers, SseTake(h) PROVE IInv'
  <2>a. h \in Handlers /\ Take(h) /\ character' = character
    BY <1>13 DEF SseTake, Handlers, handlerVars
  <2>b. \A c \in Chars : subscriptions'[c] \subseteq subscriptions[c]
    BY <1>13, <1>a DEF SseTake, Unsubscribe, TypeOK, sessionVars
  <2>1. TypeOK'
    BY <1>13, <1>a, <2>a, TakeType DEF SseTake, TypeOK, Phases, sessionVars, handlerVars, feedVars, Streaming, Take, Handlers
  <2>2. HandlerState'
    BY <1>13, <1>a DEF SseTake, TypeOK, HandlerState, sessionVars, handlerVars, feedVars, Streaming, Take, Handlers
  <2>3. SubscriptionsAccounted'
    BY <1>13, <1>a, HandlersAssumption DEF SseTake, TypeOK, HandlerState, SubscriptionsAccounted, sessionVars, handlerVars, feedVars, Streaming, Take, Handlers
  <2>4. QueueIsRest'
    BY <2>a, <2>b, TakeRest
  <2> QED
    BY <2>1, <2>2, <2>3, <2>4 DEF IInv
<1>13s. ASSUME NEW h \in SseHandlers, SseSent(h) PROVE IInv'
  <2>1. TypeOK'
    BY <1>13s, <1>a DEF SseSent, TypeOK, sessionVars, feedVars
  <2>2. HandlerState'
    BY <1>13s, <1>a DEF SseSent, HandlerState, sessionVars, feedVars
  <2>3. SubscriptionsAccounted'
    BY <1>13s, <1>a DEF SseSent, SubscriptionsAccounted, sessionVars, feedVars
  <2>4. QueueIsRest'
    BY <1>13s, <1>a, RestKept DEF SseSent, TypeOK, sessionVars, feedVars
  <2> QED
    BY <2>1, <2>2, <2>3, <2>4 DEF IInv
<1>14. ASSUME NEW h \in SseHandlers, SseSentinel(h) PROVE IInv'
  <2>a. h \in Handlers /\ Take(h) /\ character' = character
    BY <1>14 DEF SseSentinel, Handlers, handlerVars
  <2>b. \A c \in Chars : subscriptions'[c] \subseteq subscriptions[c]
    BY <1>14, <1>a DEF SseSentinel, Unsubscribe, TypeOK, sessionVars
  <2>1. TypeOK'
    BY <1>14, <1>a, <2>a, TakeType DEF SseSentinel, TypeOK, Phases, sessionVars, handlerVars, feedVars, Streaming, Take, Handlers, Unsubscribe
  <2>2. HandlerState'
    BY <1>14, <1>a DEF SseSentinel, TypeOK, HandlerState, sessionVars, handlerVars, feedVars, Streaming, Take, Handlers, Unsubscribe
  <2>3. SubscriptionsAccounted'
    BY <1>14, <1>a, HandlersAssumption DEF SseSentinel, TypeOK, HandlerState, SubscriptionsAccounted, sessionVars, handlerVars, feedVars, Streaming, Take, Handlers, Unsubscribe
  <2>4. QueueIsRest'
    BY <2>a, <2>b, TakeRest
  <2> QED
    BY <2>1, <2>2, <2>3, <2>4 DEF IInv
<1>15. ASSUME NEW h \in SseHandlers, SseCancel(h) PROVE IInv'
  <2>1. TypeOK'
    BY <1>15, <1>a DEF SseCancel, TypeOK, Phases, sessionVars, handlerVars, feedVars, Unsubscribe, Streaming, Handlers
  <2>2. HandlerState'
    BY <1>15, <1>a DEF SseCancel, TypeOK, HandlerState, sessionVars, handlerVars, feedVars, Unsubscribe, Streaming, Handlers
  <2>3. SubscriptionsAccounted'
    BY <1>15, <1>a DEF SseCancel, TypeOK, HandlerState, SubscriptionsAccounted, sessionVars, handlerVars, feedVars, Unsubscribe, Streaming, Handlers
  <2>4. QueueIsRest'
    BY <1>15, <1>a, RestKept DEF SseCancel, TypeOK, Unsubscribe, Streaming, Handlers, feedVars
  <2> QED
    BY <2>1, <2>2, <2>3, <2>4 DEF IInv
<1>16. ASSUME NEW c \in Chars, SubmitCommand(c) PROVE IInv'
  <2>1. /\ SendEvent({c}, subscriptions, "text") /\ "text" \in Items /\ {c} \in SUBSET Chars
        /\ UNCHANGED <<sessionVars, handlerVars, joined, taken>>
    BY <1>16, <1>a DEF SubmitCommand, Items, Events, Handlers, TypeOK
  <2> QED
    BY <2>1, SendEventInv
<1>17. ASSUME NEW c \in Chars, StopLocal(c) PROVE IInv'
  <2>1. /\ SendEvent({c}, subscriptions, None) /\ None \in Items /\ {c} \in SUBSET Chars
        /\ UNCHANGED <<sessionVars, handlerVars, joined, taken>>
    BY <1>17, <1>a DEF StopLocal, Items, Events, Handlers, TypeOK
  <2> QED
    BY <2>1, SendEventInv
<1>18. ASSUME Ping PROVE IInv'
  <2>1. /\ SendEvent(active_sessions, subscriptions, "ping") /\ "ping" \in Items /\ active_sessions \in SUBSET Chars
        /\ UNCHANGED <<sessionVars, handlerVars, joined, taken>>
    BY <1>18, <1>a DEF Ping, Items, Events, Handlers, TypeOK
  <2> QED
    BY <2>1, SendEventInv
<1>19. CASE UNCHANGED vars
  BY <1>19, <1>a DEF IInv, TypeOK, HandlerState, SubscriptionsAccounted, QueueIsRest,
     vars, sessionVars, handlerVars, feedVars
<1> QED
  BY <1>1, <1>2, <1>3, <1>4, <1>5, <1>6, <1>7, <1>7s, <1>8, <1>9, <1>10, <1>11, <1>12, <1>13, <1>13s, <1>14, <1>15, <1>16, <1>17, <1>18, <1>19 DEF Next, WsStep, SseStep

\* The inductive invariant holds in every state.
THEOREM Invariant == Spec => []IInv
<1>1. Init => IInv
  BY InitInv
<1>2. IInv /\ [Next]_vars => IInv'
  BY StepInv
<1> QED
  BY <1>1, <1>2, PTL DEF Spec

\* Every variable keeps its type: sessions.py and routers/pcs.py put nothing
\* but events and None on the queues, and only handlers in subscriptions.
THEOREM TypeCorrect == Spec => []TypeOK
<1>1. IInv => TypeOK
  BY DEF IInv
<1> QED
  BY <1>1, Invariant, PTL

\* Whatever the interleaving, a subscription that outlives its handler is one of
\* a websocket handler that failed; an SSE handler never leaves one behind.
THEOREM SubscriptionsCorrect == Spec => []SubscriptionsAccounted
<1>1. IInv => SubscriptionsAccounted
  BY DEF IInv
<1> QED
  BY <1>1, Invariant, PTL

\* No event is lost, repeated, reordered or crossed between characters on its
\* way from send_event to the handler that takes it out of its queue.
THEOREM QueuesCorrect == Spec => []QueueIsRest
<1>1. IInv => QueueIsRest
  BY DEF IInv
<1> QED
  BY <1>1, Invariant, PTL

-------------------------------------------------------------------------------
(* The hub implements EventFeed *)

\* send_event to any subscribers publishes on the logs of those sessions.
LEMMA PublishStep ==
  ASSUME NEW C \in SUBSET Chars, NEW item \in Items,
         SendEvent(C, subscriptions, item),
         UNCHANGED <<character, phase, joined, taken>>
  PROVE  Feed!Publish
  BY DEF Feed!Publish, Feed!Append1, SendEvent, Following, Reading

\* Taking the head of a queue reads the next entry of the log.
LEMMA ReadStep ==
  ASSUME IInv, NEW h \in Handlers, phase[h] \in {"running", "draining"}, Take(h),
         character' = character,
         \/ UNCHANGED phase
         \/ \E p \in {"silent", "finished", "failed"} : Becomes(h, p)
  PROVE  Feed!Read(h)
<1> DEFINE c == character[h]
<1>1. /\ c \in Chars /\ c # NoChar /\ Following[h] = c /\ h \in Reading
      /\ joined[h] \in Nat /\ taken[h] \in Seq(Items)
      /\ queue[h] \in Seq(Items) /\ log[c] \in Seq(Items)
  BY NoCharAssumption DEF IInv, TypeOK, HandlerState, Following, Reading
<1>2. Window(joined[h], taken[h], queue[h], log[c])
  BY <1>1 DEF IInv, QueueIsRest
<1>3. queue[h] # << >> /\ taken' = [taken EXCEPT ![h] = Append(@, Head(queue[h]))]
  BY DEF Take
<1>4. Len(queue[h]) > 0 /\ Head(queue[h]) = queue[h][1]
  BY <1>1, <1>3
<1>5. /\ joined[h] + Len(taken[h]) < Len(log[c])
      /\ Head(queue[h]) = log[c][joined[h] + Len(taken[h]) + 1]
  <2> DEFINE j == joined[h]
             t == taken[h]
             q == queue[h]
             r == log[c]
  <2>1. /\ j \in Nat /\ Len(t) \in Nat /\ Len(q) \in Nat /\ Len(r) \in Nat
        /\ Window(j, t, q, r) /\ Len(q) > 0 /\ Head(q) = q[1]
    BY <1>1, <1>2, <1>4
  <2> HIDE DEF j, t, q, r
  <2>2. j + Len(t) < Len(r)
    BY <2>1 DEF Window
  <2>3. 1 \in 1 .. Len(q)
    BY <2>1
  <2>4. q[1] = r[j + Len(t) + 1]
    BY <2>1, <2>3 DEF Window
  <2> QED
    BY <2>1, <2>2, <2>4 DEF j, t, q, r
<1>6. Reading' \in {Reading, Reading \ {h}}
  <2>1. CASE UNCHANGED phase
    BY <2>1 DEF Reading
  <2>2. ASSUME NEW p \in {"silent", "finished", "failed"}, Becomes(h, p)
        PROVE  Reading' = Reading \ {h}
    BY <2>2 DEF Reading, Becomes, IInv, TypeOK
  <2> QED
    BY <2>1, <2>2
<1>7. Following' = Following
  BY DEF Following, Becomes, IInv, TypeOK
<1> QED
  BY <1>1, <1>3, <1>5, <1>6, <1>7 DEF Feed!Read, Take

\* Subscribing joins the log of one's character.
LEMMA JoinStep ==
  ASSUME IInv, NEW h \in Handlers, NEW c \in Chars, NEW start \in BOOLEAN,
         SubscribeAndStart(h, c, start),
         phase[h] \in {"idle", "opened"}, Becomes(h, "running"),
         character' = [character EXCEPT ![h] = c]
  PROVE  Feed!Join(h, c)
<1>1. Following[h] = NoChar
  BY DEF IInv, HandlerState, Following
<1>2. Following' = [Following EXCEPT ![h] = c]
  BY DEF IInv, TypeOK, Following, Becomes
<1>3. Reading' = Reading \cup {h}
  BY DEF IInv, TypeOK, Reading, Becomes
<1>4. joined' = [joined EXCEPT ![h] = Len(log[c])] /\ taken' = taken
  BY DEF SubscribeAndStart
<1>5. UNCHANGED log \/ \E item \in Items : Feed!Append1({c}, item)
  BY DEF SubscribeAndStart, SendEvent, Feed!Append1, Items, Events
<1> QED
  BY <1>1, <1>2, <1>3, <1>4, <1>5 DEF Feed!Join

\* A handler that stops reading without taking anything leaves, or had left.
LEMMA LeaveStep ==
  ASSUME IInv, NEW h \in Handlers, NEW p \in {"silent", "finished", "failed"},
         phase[h] \in {"running", "draining", "silent"}, Becomes(h, p),
         UNCHANGED <<character, log, joined, taken>>
  PROVE  Feed!Leave(h)
<1>1. Following' = Following
  BY DEF Following, Becomes, IInv, TypeOK
<1>2. Reading' = Reading \ {h}
  BY DEF Reading, Becomes, IInv, TypeOK
<1> QED
  BY <1>1, <1>2 DEF Feed!Leave

\* Every step of the hub is a step of EventFeed or changes nothing it can see.
LEMMA FeedStep ==
  ASSUME IInv, [Next]_vars
  PROVE  [Feed!Next]_(Feed!vars)
<1> USE DEF sessionVars, handlerVars, feedVars
<1>a. \A h \in Handlers : phase[h] \notin {"idle", "refused"} => character[h] \in Chars
  BY DEF IInv, TypeOK, HandlerState
<1>1. ASSUME NEW h \in Handlers, ClientLeaves(h) PROVE UNCHANGED Feed!vars
  BY <1>1 DEF ClientLeaves, Feed!vars, Following, Reading
<1>2. ASSUME NEW h \in Handlers, Refuse(h) PROVE UNCHANGED Feed!vars
  <2>1. Following' = Following /\ Reading' = Reading
    BY <1>2 DEF Refuse, Becomes, Following, Reading, IInv, TypeOK
  <2> QED
    BY <1>2, <2>1 DEF Refuse, Feed!vars
<1>3. ASSUME NEW h \in WsHandlers, NEW c \in Chars, WsOpen(h, c) PROVE Feed!Join(h, c)
  <2>1. /\ h \in Handlers /\ (c \notin active_sessions) \in BOOLEAN
        /\ SubscribeAndStart(h, c, c \notin active_sessions)
        /\ phase[h] \in {"idle", "opened"} /\ Becomes(h, "running")
        /\ character' = [character EXCEPT ![h] = c]
    BY <1>3 DEF WsOpen, Handlers, GetSession
  <2> QED
    BY <2>1, JoinStep
<1>4. ASSUME NEW h \in WsHandlers, WsCommand(h) PROVE Feed!Publish
  BY <1>4, <1>a, PublishStep DEF WsCommand, Handlers, Items, Events
<1>5. ASSUME NEW h \in WsHandlers, WsCommandFails(h) PROVE Feed!Leave(h)
  BY <1>5, LeaveStep DEF WsCommandFails, Handlers
<1>6. ASSUME NEW h \in WsHandlers, WsDisconnect(h)
      PROVE  UNCHANGED Feed!vars \/ Feed!Leave(h)
  <2>1. CASE phase[h] = "silent"
    BY <1>6, <2>1, LeaveStep DEF WsDisconnect, Handlers
  <2>2. CASE phase[h] = "running"
    <3>1. Following' = Following /\ Reading' = Reading
      BY <1>6, <2>2 DEF WsDisconnect, Becomes, Following, Reading, IInv, TypeOK
    <3> QED
      BY <1>6, <3>1 DEF WsDisconnect, Feed!vars
  <2> QED
    BY <1>6, <2>1, <2>2 DEF WsDisconnect
<1>7. ASSUME NEW h \in WsHandlers, WsTake(h) PROVE Feed!Read(h)
  BY <1>7, ReadStep DEF WsTake, Sending, Handlers
<1>7s. ASSUME NEW h \in WsHandlers, WsSent(h) PROVE UNCHANGED Feed!vars
  BY <1>7s DEF WsSent, Feed!vars, Following, Reading
<1>8. ASSUME NEW h \in WsHandlers, WsSendFails(h) PROVE Feed!Leave(h)
  BY <1>8, LeaveStep DEF WsSendFails, Sending, Handlers
<1>9. ASSUME NEW h \in WsHandlers, WsSentinel(h) PROVE Feed!Read(h)
  BY <1>9, ReadStep DEF WsSentinel, Sending, Handlers
<1>10. ASSUME NEW h \in SseHandlers, NEW c \in Chars, SseOpen(h, c)
       PROVE  UNCHANGED Feed!vars
  <2>1. Following' = Following /\ Reading' = Reading
    BY <1>10 DEF SseOpen, GetSession, Becomes, Following, Reading, IInv, TypeOK,
       HandlerState, Handlers
  <2> QED
    BY <1>10, <2>1 DEF SseOpen, Feed!vars
<1>11. ASSUME NEW h \in SseHandlers, SseBegin(h) PROVE Feed!Join(h, character[h])
  <2>1. /\ h \in Handlers /\ character[h] \in Chars /\ should_start[h] \in BOOLEAN
        /\ SubscribeAndStart(h, character[h], should_start[h])
        /\ phase[h] \in {"idle", "opened"} /\ Becomes(h, "running")
        /\ character' = [character EXCEPT ![h] = character[h]]
    BY <1>11, <1>a DEF SseBegin, Handlers, IInv, TypeOK
  <2> QED
    BY <2>1, JoinStep
<1>12. ASSUME NEW h \in SseHandlers, SseNeverBegins(h) PROVE UNCHANGED Feed!vars
  <2>1. Following' = Following /\ Reading' = Reading
    BY <1>12 DEF SseNeverBegins, Becomes, Following, Reading, IInv, TypeOK, Handlers
  <2> QED
    BY <1>12, <2>1 DEF SseNeverBegins, Feed!vars
<1>13. ASSUME NEW h \in SseHandlers, SseTake(h) PROVE Feed!Read(h)
  BY <1>13, ReadStep DEF SseTake, Streaming, Handlers
<1>13s. ASSUME NEW h \in SseHandlers, SseSent(h) PROVE UNCHANGED Feed!vars
  BY <1>13s DEF SseSent, Feed!vars, Following, Reading
<1>14. ASSUME NEW h \in SseHandlers, SseSentinel(h) PROVE Feed!Read(h)
  BY <1>14, ReadStep DEF SseSentinel, Streaming, Handlers
<1>15. ASSUME NEW h \in SseHandlers, SseCancel(h) PROVE Feed!Leave(h)
  BY <1>15, LeaveStep DEF SseCancel, Streaming, Handlers
<1>16. ASSUME NEW c \in Chars, SubmitCommand(c) PROVE Feed!Publish
  BY <1>16, PublishStep DEF SubmitCommand, Items, Events
<1>17. ASSUME NEW c \in Chars, StopLocal(c) PROVE Feed!Publish
  BY <1>17, PublishStep DEF StopLocal, Items
<1>18. ASSUME Ping PROVE Feed!Publish
  BY <1>18, PublishStep DEF Ping, Items, Events, IInv, TypeOK
<1>19. CASE UNCHANGED vars
  BY <1>19 DEF vars, Feed!vars, Following, Reading
<1> HIDE DEF sessionVars, handlerVars, feedVars
<1>20. ASSUME NEW h \in WsHandlers, WsStep(h) PROVE [Feed!Next]_(Feed!vars)
  BY <1>20, <1>3, <1>4, <1>5, <1>6, <1>7, <1>7s, <1>8, <1>9 DEF WsStep, Feed!Next, Handlers
<1>21. ASSUME NEW h \in SseHandlers, SseStep(h) PROVE [Feed!Next]_(Feed!vars)
  <2>1. SseBegin(h) => character[h] \in Chars
    BY <1>a, <1>21 DEF SseBegin, Handlers
  <2> QED
    BY <1>21, <2>1, <1>10, <1>11, <1>12, <1>13, <1>13s, <1>14, <1>15
       DEF SseStep, Feed!Next, Handlers
<1> QED
  BY <1>1, <1>2, <1>16, <1>17, <1>18, <1>19, <1>20, <1>21 DEF Next, Feed!Next

\* The sessions, their queues and their handlers implement EventFeed.
THEOREM Refinement == Spec => FeedRefinement
<1>1. Init => Feed!Init
  BY DEF Init, Feed!Init, Following, Reading
<1>2. IInv /\ [Next]_vars => [Feed!Next]_(Feed!vars)
  BY FeedStep
<1> QED
  BY <1>1, <1>2, Invariant, PTL DEF Spec, FeedRefinement, Feed!Spec

-------------------------------------------------------------------------------
(***************************************************************************)
(* How the sessions are created and started: each has one creator, is      *)
(* started by it unless its stream never begins, and the creator hears the *)
(* ping of the start first. SInv strengthens IInv by what that takes.      *)
(***************************************************************************)
Creators ==
  /\ OneCreator
  /\ \A h \in Handlers : phase[h] \in {"idle", "refused"} => ~ should_start[h]

Started ==
  /\ InactiveExplained
  /\ \A c \in Chars \ active_sessions : ~ active[c]

\* The ping that the creator of a session hears first is in the session's log, just
\* behind the place where it joined.
FirstPing ==
  \A h \in Handlers : should_start[h] /\ phase[h] \notin {"opened", "dropped"} =>
    /\ Len(taken[h]) + Len(queue[h]) > 0
    /\ log[character[h]][joined[h] + 1] = "ping"

SInv == IInv /\ Creators /\ Started /\ FirstPing

-------------------------------------------------------------------------------
(* What most steps have in common *)

\* No handler passes from one of these sets of phases to another.
SamePhases ==
  \A h \in Handlers :
    /\ phase'[h] \in {"idle", "refused"} <=> phase[h] \in {"idle", "refused"}
    /\ phase'[h] \in {"opened", "dropped"} <=> phase[h] \in {"opened", "dropped"}

\* What was sent stays where it is, and no handler forgets what it was sent.
OnlyGrows ==
  /\ \A h \in Handlers : /\ Len(taken'[h]) \in Nat /\ Len(queue'[h]) \in Nat
                         /\ Len(taken'[h]) + Len(queue'[h]) >= Len(taken[h]) + Len(queue[h])
  /\ \A c \in Chars : \A i \in 1 .. Len(log[c]) : log'[c][i] = log[c][i]

LEMMA Sums ==
  ASSUME NEW j \in Nat, NEW t \in Nat, NEW q \in Nat, NEW n \in Nat, j + t + q <= n, t + q > 0
  PROVE  j + 1 \in 1 .. n
OBVIOUS

LEMMA MoreSum ==
  ASSUME NEW t \in Nat, NEW q \in Nat, NEW u \in Nat, NEW r \in Nat, u + r >= t + q, t + q > 0
  PROVE  u + r > 0
OBVIOUS

LEMMA MovedSum ==
  ASSUME NEW t \in Nat, NEW q \in Nat
  PROVE  (t + 1) + (q - 1) >= t + q
OBVIOUS

LEMMA QuietStep ==
  ASSUME Creators, Started, SamePhases,
         UNCHANGED <<active_sessions, active, character, should_start>>
  PROVE  Creators' /\ Started'
BY DEF Creators, OneCreator, Started, InactiveExplained, SamePhases, Handlers

\* A first ping stays the first of those that have heard one.
LEMMA PingStays ==
  ASSUME IInv, OnlyGrows, NEW h \in Handlers, character[h] \in Chars,
         character'[h] = character[h], joined'[h] = joined[h],
         Len(taken[h]) + Len(queue[h]) > 0, log[character[h]][joined[h] + 1] = "ping"
  PROVE  /\ Len(taken'[h]) + Len(queue'[h]) > 0
         /\ log'[character'[h]][joined'[h] + 1] = "ping"
<1> DEFINE c == character[h]
<1>1. /\ joined[h] + Len(taken[h]) + Len(queue[h]) <= Len(log[c])
      /\ joined[h] \in Nat /\ Len(taken[h]) \in Nat /\ Len(queue[h]) \in Nat
      /\ Len(log[c]) \in Nat
  <2>1. character[h] # NoChar
    BY NoCharAssumption
  <2> QED BY <2>1 DEF IInv, TypeOK, QueueIsRest, Window
<1>2. joined[h] + 1 \in 1 .. Len(log[c])
  <2> HIDE DEF c
  <2> QED BY <1>1, Sums
<1>3. log'[c][joined[h] + 1] = log[c][joined[h] + 1]
  BY <1>2 DEF OnlyGrows
<1>4. Len(taken'[h]) + Len(queue'[h]) > 0
  <2>1. /\ Len(taken'[h]) \in Nat /\ Len(queue'[h]) \in Nat
        /\ Len(taken'[h]) + Len(queue'[h]) >= Len(taken[h]) + Len(queue[h])
    BY DEF OnlyGrows
  <2> QED BY <1>1, <2>1, MoreSum
<1> QED BY <1>3, <1>4

LEMMA Opened ==
  ASSUME IInv, Creators, NEW h \in Handlers, should_start[h]
  PROVE  character[h] \in Chars
BY DEF IInv, TypeOK, HandlerState, Creators

LEMMA QuietPing ==
  ASSUME IInv, Creators, FirstPing, SamePhases, OnlyGrows,
         UNCHANGED <<character, should_start, joined>>
  PROVE  FirstPing'
<1> SUFFICES ASSUME NEW h \in Handlers, should_start[h], phase'[h] \notin {"opened", "dropped"}
             PROVE  /\ Len(taken'[h]) + Len(queue'[h]) > 0
                    /\ log'[character'[h]][joined'[h] + 1] = "ping"
  BY DEF FirstPing
<1>1. phase[h] \notin {"opened", "dropped"}
  BY DEF SamePhases
<1> QED BY <1>1, Opened, PingStays DEF FirstPing

LEMMA SendGrows ==
  ASSUME TypeOK, NEW C, NEW subs, NEW item \in Items, SendEvent(C, subs, item),
         taken' = taken
  PROVE  OnlyGrows
<1>1. \A h \in Handlers : /\ Len(taken[h]) \in Nat /\ Len(queue[h]) \in Nat
                          /\ Len(queue'[h]) \in {Len(queue[h]), Len(queue[h]) + 1}
  <2> SUFFICES ASSUME NEW h \in Handlers
               PROVE  /\ Len(taken[h]) \in Nat /\ Len(queue[h]) \in Nat
                      /\ Len(queue'[h]) \in {Len(queue[h]), Len(queue[h]) + 1}
    OBVIOUS
  <2>1. taken[h] \in Seq(Items) /\ queue[h] \in Seq(Items)
    BY DEF TypeOK
  <2>2. queue'[h] \in {queue[h], Append(queue[h], item)}
    BY DEF SendEvent
  <2>3. Len(Append(queue[h], item)) = Len(queue[h]) + 1
    BY <2>1
  <2> QED BY <2>1, <2>2, <2>3
<1>2. ASSUME NEW c \in Chars, NEW i \in 1 .. Len(log[c]) PROVE log'[c][i] = log[c][i]
  <2>1. log[c] \in Seq(Items)
    BY DEF TypeOK
  <2>2. log'[c] \in {log[c], Append(log[c], item)}
    BY DEF SendEvent
  <2>3. Append(log[c], item)[i] = log[c][i]
    BY <2>1
  <2> QED BY <2>2, <2>3
<1>3. \A h \in Handlers : Len(queue'[h]) >= Len(queue[h]) /\ Len(queue'[h]) \in Nat
  BY <1>1
<1> QED BY <1>1, <1>2, <1>3 DEF OnlyGrows

LEMMA TakeGrows ==
  ASSUME TypeOK, NEW k \in Handlers, Take(k)
  PROVE  OnlyGrows
<1> SUFFICES ASSUME NEW h \in Handlers
             PROVE  /\ Len(taken'[h]) \in Nat /\ Len(queue'[h]) \in Nat
                    /\ Len(taken'[h]) + Len(queue'[h]) >= Len(taken[h]) + Len(queue[h])
  BY DEF OnlyGrows, Take
<1>1. taken[h] \in Seq(Items) /\ queue[h] \in Seq(Items)
  BY DEF TypeOK
<1>2. CASE h # k
  <2>1. taken'[h] = taken[h] /\ queue'[h] = queue[h]
    BY <1>2 DEF Take, TypeOK
  <2> QED BY <1>1, <2>1
<1>3. CASE h = k
  <2>1. taken'[h] = Append(taken[h], Head(queue[h])) /\ queue'[h] = Tail(queue[h])
    BY <1>3 DEF Take, TypeOK
  <2>2. queue[h] # << >>
    BY <1>3 DEF Take
  <2>3. /\ Len(Append(taken[h], Head(queue[h]))) = Len(taken[h]) + 1
        /\ Len(Tail(queue[h])) = Len(queue[h]) - 1 /\ Len(Tail(queue[h])) \in Nat
    BY <1>1, <2>2
  <2>4. Len(taken[h]) \in Nat /\ Len(queue[h]) \in Nat
    BY <1>1
  <2>5. Len(taken'[h]) = Len(taken[h]) + 1 /\ Len(queue'[h]) = Len(queue[h]) - 1
    BY <2>1, <2>3
  <2>6. Len(taken'[h]) \in Nat /\ Len(queue'[h]) \in Nat
    BY <2>1, <2>3, <2>4
  <2> QED BY <2>4, <2>5, <2>6, MovedSum
<1> QED BY <1>2, <1>3

LEMMA FeedStays ==
  ASSUME TypeOK, UNCHANGED feedVars
  PROVE  OnlyGrows
BY DEF TypeOK, feedVars, OnlyGrows

-------------------------------------------------------------------------------
(* A handler opens a session *)

\* Who asks for a session is its creator if, and only if, there was none.
LEMMA GetSessionCreates ==
  ASSUME IInv, Creators, NEW h \in Handlers, NEW c \in Chars,
         phase[h] = "idle", GetSession(h, c), NEW p \in {"running", "opened"}, Becomes(h, p)
  PROVE  Creators'
<1>1. /\ active_sessions' = active_sessions \cup {c}
      /\ \A k \in Handlers : character'[k] = (IF k = h THEN c ELSE character[k])
      /\ \A k \in Handlers :
           should_start'[k] = (IF k = h THEN c \notin active_sessions ELSE should_start[k])
      /\ \A k \in Handlers : phase'[k] = (IF k = h THEN p ELSE phase[k])
  BY DEF GetSession, Becomes, IInv, TypeOK
<1>2. character[h] \notin Chars
  BY NoCharAssumption DEF IInv, HandlerState
<1>3. ASSUME NEW d \in Chars
      PROVE  d \in active_sessions' <=> \E k \in Handlers : character'[k] = d
  BY <1>1, <1>2 DEF Creators, OneCreator
<1>4. ASSUME NEW d \in Chars, d \in active_sessions'
      PROVE  \E i \in Handlers : \A k \in Handlers :
               (character'[k] = d /\ should_start'[k]) <=> k = i
  <2>1. CASE d \in active_sessions
    <3>1. PICK i \in Handlers : \A k \in Handlers :
            (character[k] = d /\ should_start[k]) <=> k = i
      BY <2>1 DEF Creators, OneCreator
    <3>2. i # h
      BY <1>2, <3>1
    <3>3. \A k \in Handlers : (character'[k] = d /\ should_start'[k]) <=> k = i
      BY <1>1, <1>2, <2>1, <3>1, <3>2
    <3> QED BY <3>3
  <2>2. CASE d \notin active_sessions
    <3>1. d = c /\ \A k \in Handlers : character[k] # d
      BY <1>1, <1>4, <2>2 DEF Creators, OneCreator
    <3>2. \A k \in Handlers : (character'[k] = d /\ should_start'[k]) <=> k = h
      BY <1>1, <2>2, <3>1
    <3> QED BY <3>2
  <2> QED BY <2>1, <2>2
<1>5. \A k \in Handlers : phase'[k] \in {"idle", "refused"} => ~ should_start'[k]
  BY <1>1 DEF Creators
<1> QED BY <1>3, <1>4, <1>5 DEF Creators, OneCreator

\* The handler that starts the session is subscribed by then.
LEMMA StartPings ==
  ASSUME IInv, NEW h \in Handlers, NEW c \in Chars, SubscribeAndStart(h, c, TRUE),
         taken[h] = << >>, queue[h] = << >>
  PROVE  /\ Len(taken'[h]) + Len(queue'[h]) > 0
         /\ log'[c][joined'[h] + 1] = "ping"
<1>1. h \in [subscriptions EXCEPT ![c] = @ \cup {h}][c]
  BY DEF IInv, TypeOK
<1>2. /\ queue'[h] = Append(queue[h], "ping") /\ log'[c] = Append(log[c], "ping")
      /\ joined'[h] = Len(log[c]) /\ taken'[h] = taken[h]
  BY <1>1 DEF SubscribeAndStart, SendEvent, IInv, TypeOK
<1>3. log[c] \in Seq(Items)
  BY DEF IInv, TypeOK
<1>4. Append(log[c], "ping")[Len(log[c]) + 1] = "ping"
  BY <1>3
<1>5. Len(Append(queue[h], "ping")) = 1 /\ Len(taken[h]) = 0
  OBVIOUS
<1> QED BY <1>2, <1>4, <1>5

LEMMA SubscribeGrows ==
  ASSUME IInv, NEW h \in Handlers, NEW c \in Chars, NEW start \in BOOLEAN,
         SubscribeAndStart(h, c, start)
  PROVE  OnlyGrows /\ \A k \in Handlers \ {h} : joined'[k] = joined[k]
<1>1. \A k \in Handlers \ {h} : joined'[k] = joined[k]
  BY DEF SubscribeAndStart, IInv, TypeOK
<1>2. CASE start
  BY <1>2, SendGrows DEF SubscribeAndStart, IInv, Items, Events
<1>3. CASE ~ start
  BY <1>3, FeedStays DEF SubscribeAndStart, OnlyGrows, IInv, TypeOK
<1> QED BY <1>1, <1>2, <1>3

-------------------------------------------------------------------------------
(* Every step *)

LEMMA InitSInv == Init => SInv
<1> SUFFICES ASSUME Init PROVE SInv
  OBVIOUS
<1>1. \A h \in Handlers : character[h] = NoChar /\ ~ should_start[h]
  BY DEF Init
<1>2. Creators
  BY <1>1, NoCharAssumption DEF Init, Creators, OneCreator
<1>3. Started /\ FirstPing
  BY <1>1 DEF Init, Started, InactiveExplained, FirstPing
<1> QED BY <1>2, <1>3, InitInv DEF SInv

LEMMA WsOpenStarts ==
  ASSUME SInv, NEW h \in WsHandlers, NEW c \in Chars, WsOpen(h, c)
  PROVE  Creators' /\ Started' /\ FirstPing'
<1> DEFINE start == c \notin active_sessions
<1>1. /\ h \in Handlers /\ phase[h] = "idle" /\ Becomes(h, "running")
      /\ GetSession(h, c) /\ SubscribeAndStart(h, c, start)
  BY DEF WsOpen, Handlers
<1>2. Creators'
  BY <1>1, GetSessionCreates DEF SInv
<1>3. /\ active_sessions' = active_sessions \cup {c}
      /\ \A k \in Handlers : character'[k] = (IF k = h THEN c ELSE character[k])
      /\ \A k \in Handlers : should_start'[k] = (IF k = h THEN start ELSE should_start[k])
      /\ \A k \in Handlers : phase'[k] = (IF k = h THEN "running" ELSE phase[k])
      /\ \A d \in Chars : active'[d] = IF start /\ d = c THEN TRUE ELSE active[d]
  BY <1>1 DEF GetSession, SubscribeAndStart, Becomes, SInv, IInv, TypeOK
<1>4. h \notin SseHandlers /\ character[h] \notin Chars
  BY <1>1, HandlersAssumption, NoCharAssumption DEF SInv, IInv, HandlerState
<1>5. Started'
  <2>1. \A d \in Chars \ active_sessions' : ~ active'[d]
    BY <1>3 DEF SInv, Started
  <2>2. ASSUME NEW d \in active_sessions'
        PROVE  ~ active'[d] <=>
                 \E k \in SseHandlers : /\ character'[k] = d /\ should_start'[k]
                                        /\ phase'[k] \in {"opened", "dropped"}
    <3>1. d \in Chars
      BY <1>3, <2>2 DEF SInv, IInv, TypeOK
    <3>2. CASE d \in active_sessions
      <4>1. active'[d] = active[d]
        BY <1>3, <3>1, <3>2
      <4>2. \A k \in SseHandlers : /\ character'[k] = character[k]
                                   /\ should_start'[k] = should_start[k]
                                   /\ phase'[k] = phase[k]
        BY <1>3, <1>4 DEF Handlers
      <4> QED BY <3>2, <4>1, <4>2 DEF SInv, Started, InactiveExplained
    <3>3. CASE d \notin active_sessions
      <4>1. d = c /\ active'[d]
        BY <1>3, <2>2, <3>1, <3>3
      <4>2. \A k \in SseHandlers : character'[k] # d
        BY <1>3, <1>4, <3>1, <3>3 DEF SInv, Creators, OneCreator, Handlers
      <4> QED BY <4>1, <4>2
    <3> QED BY <3>2, <3>3
  <2> QED BY <2>1, <2>2 DEF Started, InactiveExplained
<1>6. ASSUME NEW k \in Handlers, should_start'[k], phase'[k] \notin {"opened", "dropped"}
      PROVE  /\ Len(taken'[k]) + Len(queue'[k]) > 0
             /\ log'[character'[k]][joined'[k] + 1] = "ping"
  <2>1. CASE k = h
    <3>1. start /\ taken[h] = << >> /\ queue[h] = << >>
      BY <1>1, <1>3, <1>6, <2>1 DEF SInv, IInv, HandlerState
    <3>2. SubscribeAndStart(h, c, TRUE)
      BY <1>1, <3>1
    <3> QED BY <1>1, <1>3, <2>1, <3>1, <3>2, StartPings DEF SInv
  <2>2. CASE k # h
    <3>1. /\ should_start[k] /\ phase[k] \notin {"opened", "dropped"}
          /\ character'[k] = character[k]
      BY <1>3, <1>6, <2>2
    <3>2. OnlyGrows /\ joined'[k] = joined[k]
      BY <1>1, <2>2, SubscribeGrows DEF SInv
    <3> QED BY <3>1, <3>2, Opened, PingStays DEF SInv, FirstPing
  <2> QED BY <2>1, <2>2
<1> QED BY <1>2, <1>5, <1>6 DEF FirstPing

LEMMA SseOpenStarts ==
  ASSUME SInv, NEW h \in SseHandlers, NEW c \in Chars, SseOpen(h, c)
  PROVE  Creators' /\ Started' /\ FirstPing'
<1>1. /\ h \in Handlers /\ phase[h] = "idle" /\ Becomes(h, "opened")
      /\ GetSession(h, c) /\ UNCHANGED <<active, feedVars>>
  BY DEF SseOpen, Handlers
<1>2. Creators'
  BY <1>1, GetSessionCreates DEF SInv
<1>3. /\ active_sessions' = active_sessions \cup {c}
      /\ \A k \in Handlers : character'[k] = (IF k = h THEN c ELSE character[k])
      /\ \A k \in Handlers :
           should_start'[k] = (IF k = h THEN c \notin active_sessions ELSE should_start[k])
      /\ \A k \in Handlers : phase'[k] = (IF k = h THEN "opened" ELSE phase[k])
  BY <1>1 DEF GetSession, Becomes, SInv, IInv, TypeOK
<1>4. character[h] \notin Chars
  BY <1>1, NoCharAssumption DEF SInv, IInv, HandlerState
<1>5. Started'
  <2>1. \A d \in Chars \ active_sessions' : ~ active'[d]
    BY <1>1, <1>3 DEF SInv, Started
  <2>2. ASSUME NEW d \in active_sessions'
        PROVE  ~ active'[d] <=>
                 \E k \in SseHandlers : /\ character'[k] = d /\ should_start'[k]
                                        /\ phase'[k] \in {"opened", "dropped"}
    <3>1. d \in Chars
      BY <1>3, <2>2 DEF SInv, IInv, TypeOK
    <3>2. CASE d \in active_sessions
      <4>1. \A k \in SseHandlers :
              (character'[k] = d /\ should_start'[k] /\ phase'[k] \in {"opened", "dropped"})
                <=> (character[k] = d /\ should_start[k] /\ phase[k] \in {"opened", "dropped"})
        BY <1>1, <1>3, <1>4, <3>1, <3>2 DEF Handlers
      <4> QED BY <1>1, <3>2, <4>1 DEF SInv, Started, InactiveExplained
    <3>3. CASE d \notin active_sessions
      <4>1. d = c /\ ~ active'[d]
        BY <1>1, <1>3, <2>2, <3>1, <3>3 DEF SInv, Started
      <4>2. character'[h] = d /\ should_start'[h] /\ phase'[h] = "opened"
        BY <1>1, <1>3, <3>3, <4>1
      <4> QED BY <4>1, <4>2
    <3> QED BY <3>2, <3>3
  <2> QED BY <2>1, <2>2 DEF Started, InactiveExplained
<1>6. ASSUME NEW k \in Handlers, should_start'[k], phase'[k] \notin {"opened", "dropped"}
      PROVE  /\ Len(taken'[k]) + Len(queue'[k]) > 0
             /\ log'[character'[k]][joined'[k] + 1] = "ping"
  <2>1. k # h
    BY <1>1, <1>3, <1>6
  <2> QED BY <1>1, <1>3, <1>6, <2>1 DEF SInv, FirstPing, feedVars
<1> QED BY <1>2, <1>5, <1>6 DEF FirstPing

LEMMA SseBeginStarts ==
  ASSUME SInv, NEW h \in SseHandlers, SseBegin(h)
  PROVE  Creators' /\ Started' /\ FirstPing'
<1> DEFINE c == character[h]
<1>1. /\ h \in Handlers /\ phase[h] = "opened" /\ Becomes(h, "running")
      /\ SubscribeAndStart(h, c, should_start[h])
      /\ UNCHANGED <<active_sessions, character, should_start>>
  BY DEF SseBegin, Handlers
<1>2. c \in Chars /\ should_start[h] \in BOOLEAN /\ taken[h] = << >> /\ queue[h] = << >>
  BY <1>1 DEF SInv, IInv, TypeOK, HandlerState
<1>3. /\ \A k \in Handlers : phase'[k] = (IF k = h THEN "running" ELSE phase[k])
      /\ \A d \in Chars : active'[d] = IF should_start[h] /\ d = c THEN TRUE ELSE active[d]
  BY <1>1, <1>2 DEF SubscribeAndStart, Becomes, SInv, IInv, TypeOK
<1>4. Creators'
  BY <1>1, <1>3 DEF SInv, Creators, OneCreator
<1>5. c \in active_sessions
  BY <1>1, <1>2 DEF SInv, Creators, OneCreator
<1>6. Started'
  <2>1. \A d \in Chars \ active_sessions' : ~ active'[d]
    BY <1>1, <1>3, <1>5 DEF SInv, Started
  <2>2. ASSUME NEW d \in active_sessions'
        PROVE  ~ active'[d] <=>
                 \E k \in SseHandlers : /\ character'[k] = d /\ should_start'[k]
                                        /\ phase'[k] \in {"opened", "dropped"}
    <3>1. d \in Chars /\ d \in active_sessions
      BY <1>1, <2>2 DEF SInv, IInv, TypeOK
    <3>2. CASE should_start[h] /\ d = c
      <4>1. active'[d]
        BY <1>3, <3>1, <3>2
      <4>2. \A k \in Handlers : character[k] = d /\ should_start[k] => k = h
        BY <1>1, <3>1, <3>2 DEF SInv, Creators, OneCreator
      <4> QED BY <1>1, <1>3, <4>1, <4>2 DEF Handlers
    <3>3. CASE ~ (should_start[h] /\ d = c)
      <4>1. active'[d] = active[d]
        BY <1>3, <3>1, <3>3
      <4>2. \A k \in SseHandlers : character[k] = d /\ should_start[k] => phase'[k] = phase[k]
        BY <1>3, <3>3 DEF Handlers
      <4> QED BY <1>1, <3>1, <4>1, <4>2 DEF SInv, Started, InactiveExplained
    <3> QED BY <3>2, <3>3
  <2> QED BY <2>1, <2>2 DEF Started, InactiveExplained
<1>7. ASSUME NEW k \in Handlers, should_start'[k], phase'[k] \notin {"opened", "dropped"}
      PROVE  /\ Len(taken'[k]) + Len(queue'[k]) > 0
             /\ log'[character'[k]][joined'[k] + 1] = "ping"
  <2>1. CASE k = h
    <3>1. SubscribeAndStart(h, c, TRUE)
      BY <1>1, <1>2, <1>7, <2>1
    <3>2. /\ Len(taken'[h]) + Len(queue'[h]) > 0
          /\ log'[c][joined'[h] + 1] = "ping"
      <4> HIDE DEF c
      <4> QED BY <1>1, <1>2, <3>1, StartPings DEF SInv
    <3> QED BY <1>1, <2>1, <3>2
  <2>2. CASE k # h
    <3>1. should_start[k] /\ phase[k] \notin {"opened", "dropped"}
      BY <1>1, <1>3, <1>7, <2>2
    <3>2. OnlyGrows /\ joined'[k] = joined[k]
      <4> HIDE DEF c
      <4> QED BY <1>1, <1>2, <2>2, SubscribeGrows DEF SInv
    <3> QED BY <1>1, <3>1, <3>2, Opened, PingStays DEF SInv, FirstPing
  <2> QED BY <2>1, <2>2
<1> QED BY <1>4, <1>6, <1>7 DEF FirstPing

\* A step that leaves sessions and phases alone.
LEMMA QuietSInv ==
  ASSUME SInv, SamePhases, OnlyGrows, UNCHANGED <<active_sessions, active>>,
         UNCHANGED <<character, should_start, joined>>
  PROVE  Creators' /\ Started' /\ FirstPing'
BY QuietStep, QuietPing DEF SInv

LEMMA StepStarts ==
  ASSUME SInv, [Next]_vars
  PROVE  Creators' /\ Started' /\ FirstPing'
<1>1. ASSUME NEW h \in Handlers, ClientLeaves(h) PROVE  Creators' /\ Started' /\ FirstPing'
  <2>1. SamePhases
    BY <1>1 DEF ClientLeaves, SamePhases, SInv, IInv, TypeOK, Handlers, handlerVars
  <2>2. OnlyGrows
    BY <1>1, FeedStays DEF ClientLeaves, SInv, IInv
  <2>3. UNCHANGED <<active_sessions, active, character, should_start, joined>>
    BY <1>1 DEF ClientLeaves, sessionVars, handlerVars, feedVars
  <2> QED BY <2>1, <2>2, <2>3, QuietSInv
<1>2. ASSUME NEW h \in Handlers, Refuse(h) PROVE  Creators' /\ Started' /\ FirstPing'
  <2>1. SamePhases
    BY <1>2 DEF Refuse, Becomes, SamePhases, SInv, IInv, TypeOK, Handlers, handlerVars
  <2>2. OnlyGrows
    BY <1>2, FeedStays DEF Refuse, SInv, IInv
  <2>3. UNCHANGED <<active_sessions, active, character, should_start, joined>>
    BY <1>2 DEF Refuse, sessionVars, handlerVars, feedVars
  <2> QED BY <2>1, <2>2, <2>3, QuietSInv
<1>3. ASSUME NEW h \in WsHandlers, WsCommand(h) PROVE  Creators' /\ Started' /\ FirstPing'
  <2>1. SamePhases
    BY <1>3 DEF WsCommand, SamePhases, SInv, IInv, TypeOK, Handlers, handlerVars
  <2>2. OnlyGrows
    BY <1>3, SendGrows DEF WsCommand, SInv, IInv, Items, Events
  <2>3. UNCHANGED <<active_sessions, active, character, should_start, joined>>
    BY <1>3 DEF WsCommand, sessionVars, handlerVars, feedVars
  <2> QED BY <2>1, <2>2, <2>3, QuietSInv
<1>4. ASSUME NEW h \in WsHandlers, WsCommandFails(h) PROVE  Creators' /\ Started' /\ FirstPing'
  <2>1. SamePhases
    BY <1>4 DEF WsCommandFails, Becomes, SamePhases, SInv, IInv, TypeOK, Handlers, handlerVars
  <2>2. OnlyGrows
    BY <1>4, FeedStays DEF WsCommandFails, SInv, IInv
  <2>3. UNCHANGED <<active_sessions, active, character, should_start, joined>>
    BY <1>4 DEF WsCommandFails, sessionVars, handlerVars, feedVars
  <2> QED BY <2>1, <2>2, <2>3, QuietSInv
<1>5. ASSUME NEW h \in WsHandlers, WsDisconnect(h) PROVE  Creators' /\ Started' /\ FirstPing'
  <2>1. SamePhases
    BY <1>5 DEF WsDisconnect, Becomes, SamePhases, SInv, IInv, TypeOK, Handlers, handlerVars
  <2>2. OnlyGrows
    BY <1>5, FeedStays DEF WsDisconnect, SInv, IInv
  <2>3. UNCHANGED <<active_sessions, active, character, should_start, joined>>
    BY <1>5 DEF WsDisconnect, sessionVars, handlerVars, feedVars
  <2> QED BY <2>1, <2>2, <2>3, QuietSInv
<1>6. ASSUME NEW h \in WsHandlers, WsTake(h) PROVE  Creators' /\ Started' /\ FirstPing'
  <2>1. SamePhases
    BY <1>6 DEF WsTake, SamePhases, SInv, IInv, TypeOK, Handlers, handlerVars
  <2>2. OnlyGrows
    BY <1>6, TakeGrows DEF WsTake, SInv, IInv, Handlers
  <2>3. UNCHANGED <<active_sessions, active, character, should_start, joined>>
    BY <1>6 DEF WsTake, Take, sessionVars, handlerVars, feedVars
  <2> QED BY <2>1, <2>2, <2>3, QuietSInv
<1>6s. ASSUME NEW h \in WsHandlers, WsSent(h) PROVE  Creators' /\ Started' /\ FirstPing'
  <2>1. SamePhases
    BY <1>6s DEF WsSent, SamePhases, SInv, IInv, TypeOK, Handlers, handlerVars
  <2>2. OnlyGrows
    BY <1>6s, FeedStays DEF WsSent, SInv, IInv
  <2>3. UNCHANGED <<active_sessions, active, character, should_start, joined>>
    BY <1>6s DEF WsSent, sessionVars, handlerVars, feedVars
  <2> QED BY <2>1, <2>2, <2>3, QuietSInv
<1>7. ASSUME NEW h \in WsHandlers, WsSendFails(h) PROVE  Creators' /\ Started' /\ FirstPing'
  <2>1. SamePhases
    BY <1>7 DEF WsSendFails, Sending, Becomes, SamePhases, SInv, IInv, TypeOK, Handlers, handlerVars
  <2>2. OnlyGrows
    BY <1>7, FeedStays DEF WsSendFails, SInv, IInv
  <2>3. UNCHANGED <<active_sessions, active, character, should_start, joined>>
    BY <1>7 DEF WsSendFails, sessionVars, handlerVars, feedVars
  <2> QED BY <2>1, <2>2, <2>3, QuietSInv
<1>8. ASSUME NEW h \in WsHandlers, WsSentinel(h) PROVE  Creators' /\ Started' /\ FirstPing'
  <2>1. SamePhases
    BY <1>8 DEF WsSentinel, Sending, Becomes, SamePhases, SInv, IInv, TypeOK, Handlers, handlerVars
  <2>2. OnlyGrows
    BY <1>8, TakeGrows DEF WsSentinel, SInv, IInv, Handlers
  <2>3. UNCHANGED <<active_sessions, active, character, should_start, joined>>
    BY <1>8 DEF WsSentinel, Take, sessionVars, handlerVars, feedVars
  <2> QED BY <2>1, <2>2, <2>3, QuietSInv
<1>9. ASSUME NEW h \in SseHandlers, SseNeverBegins(h) PROVE  Creators' /\ Started' /\ FirstPing'
  <2>1. SamePhases
    BY <1>9 DEF SseNeverBegins, Becomes, SamePhases, SInv, IInv, TypeOK, Handlers, handlerVars
  <2>2. OnlyGrows
    BY <1>9, FeedStays DEF SseNeverBegins, SInv, IInv
  <2>3. UNCHANGED <<active_sessions, active, character, should_start, joined>>
    BY <1>9 DEF SseNeverBegins, sessionVars, handlerVars, feedVars
  <2> QED BY <2>1, <2>2, <2>3, QuietSInv
<1>10. ASSUME NEW h \in SseHandlers, SseTake(h) PROVE  Creators' /\ Started' /\ FirstPing'
  <2>1. SamePhases
    BY <1>10 DEF SseTake, SamePhases, SInv, IInv, TypeOK, Handlers, handlerVars
  <2>2. OnlyGrows
    BY <1>10, TakeGrows DEF SseTake, SInv, IInv, Handlers
  <2>3. UNCHANGED <<active_sessions, active, character, should_start, joined>>
    BY <1>10 DEF SseTake, Take, sessionVars, handlerVars, feedVars
  <2> QED BY <2>1, <2>2, <2>3, QuietSInv
<1>10s. ASSUME NEW h \in SseHandlers, SseSent(h) PROVE  Creators' /\ Started' /\ FirstPing'
  <2>1. SamePhases
    BY <1>10s DEF SseSent, SamePhases, SInv, IInv, TypeOK, Handlers, handlerVars
  <2>2. OnlyGrows
    BY <1>10s, FeedStays DEF SseSent, SInv, IInv
  <2>3. UNCHANGED <<active_sessions, active, character, should_start, joined>>
    BY <1>10s DEF SseSent, sessionVars, handlerVars, feedVars
  <2> QED BY <2>1, <2>2, <2>3, QuietSInv
<1>11. ASSUME NEW h \in SseHandlers, SseSentinel(h) PROVE  Creators' /\ Started' /\ FirstPing'
  <2>1. SamePhases
    BY <1>11 DEF SseSentinel, Streaming, Becomes, SamePhases, SInv, IInv, TypeOK, Handlers, handlerVars
  <2>2. OnlyGrows
    BY <1>11, TakeGrows DEF SseSentinel, SInv, IInv, Handlers
  <2>3. UNCHANGED <<active_sessions, active, character, should_start, joined>>
    BY <1>11 DEF SseSentinel, Take, sessionVars, handlerVars, feedVars
  <2> QED BY <2>1, <2>2, <2>3, QuietSInv
<1>12. ASSUME NEW h \in SseHandlers, SseCancel(h) PROVE  Creators' /\ Started' /\ FirstPing'
  <2>1. SamePhases
    BY <1>12 DEF SseCancel, Streaming, Becomes, SamePhases, SInv, IInv, TypeOK, Handlers, handlerVars
  <2>2. OnlyGrows
    BY <1>12, FeedStays DEF SseCancel, SInv, IInv
  <2>3. UNCHANGED <<active_sessions, active, character, should_start, joined>>
    BY <1>12 DEF SseCancel, sessionVars, handlerVars, feedVars
  <2> QED BY <2>1, <2>2, <2>3, QuietSInv
<1>13. ASSUME NEW h \in WsHandlers, NEW c \in Chars, WsOpen(h, c) PROVE  Creators' /\ Started' /\ FirstPing'
  BY <1>13, WsOpenStarts
<1>14. ASSUME NEW h \in SseHandlers, NEW c \in Chars, SseOpen(h, c) PROVE  Creators' /\ Started' /\ FirstPing'
  BY <1>14, SseOpenStarts
<1>15. ASSUME NEW h \in SseHandlers, SseBegin(h) PROVE  Creators' /\ Started' /\ FirstPing'
  BY <1>15, SseBeginStarts
<1>16. ASSUME NEW c \in Chars, SubmitCommand(c) PROVE  Creators' /\ Started' /\ FirstPing'
  <2>1. SamePhases
    BY <1>16 DEF SubmitCommand, SamePhases, SInv, IInv, TypeOK, Handlers, handlerVars
  <2>2. OnlyGrows
    BY <1>16, SendGrows DEF SubmitCommand, SInv, IInv, Items, Events
  <2>3. UNCHANGED <<active_sessions, active, character, should_start, joined>>
    BY <1>16 DEF SubmitCommand, sessionVars, handlerVars, feedVars
  <2> QED BY <2>1, <2>2, <2>3, QuietSInv
<1>17. ASSUME NEW c \in Chars, StopLocal(c) PROVE  Creators' /\ Started' /\ FirstPing'
  <2>1. SamePhases
    BY <1>17 DEF StopLocal, SamePhases, SInv, IInv, TypeOK, Handlers, handlerVars
  <2>2. OnlyGrows
    BY <1>17, SendGrows DEF StopLocal, SInv, IInv, Items, Events
  <2>3. UNCHANGED <<active_sessions, active, character, should_start, joined>>
    BY <1>17 DEF StopLocal, sessionVars, handlerVars, feedVars
  <2> QED BY <2>1, <2>2, <2>3, QuietSInv
<1>18. CASE Ping
  <2>1. SamePhases
    BY <1>18 DEF Ping, SamePhases, SInv, IInv, TypeOK, Handlers, handlerVars
  <2>2. OnlyGrows
    BY <1>18, SendGrows DEF Ping, SInv, IInv, Items, Events
  <2>3. UNCHANGED <<active_sessions, active, character, should_start, joined>>
    BY <1>18 DEF Ping, sessionVars, handlerVars, feedVars
  <2> QED BY <2>1, <2>2, <2>3, QuietSInv
<1>19. CASE UNCHANGED vars
  <2>1. SamePhases /\ OnlyGrows
    BY <1>19, FeedStays DEF vars, handlerVars, SamePhases, SInv, IInv
  <2> QED BY <1>19, <2>1, QuietSInv DEF vars, sessionVars, handlerVars, feedVars
<1> QED
  BY <1>1, <1>2, <1>3, <1>4, <1>5, <1>6, <1>6s, <1>7, <1>8, <1>9, <1>10, <1>10s, <1>11, <1>12, <1>13,
     <1>14, <1>15, <1>16, <1>17, <1>18, <1>19 DEF Next, WsStep, SseStep

-------------------------------------------------------------------------------
(* Theorems *)

\* The sessions are created and started as SInv says, for any characters and
\* handlers.
THEOREM StartInvariant == Spec => []SInv
<1>1. Init => SInv
  BY InitSInv
<1>2. SInv /\ [Next]_vars => SInv'
  BY StepInv, StepStarts DEF SInv
<1> QED BY <1>1, <1>2, PTL DEF Spec

\* However many handlers ask for a character at once, one of them is to start the
\* session.
THEOREM CreatorCorrect == Spec => []OneCreator
<1>1. SInv => OneCreator
  BY DEF SInv, Creators
<1> QED BY <1>1, StartInvariant, PTL

\* A session that is not active waits for the stream that created it, or that stream
\* never began.
THEOREM InactiveCorrect == Spec => []InactiveExplained
<1>1. SInv => InactiveExplained
  BY DEF SInv, Started
<1> QED BY <1>1, StartInvariant, PTL

\* The creator of a session hears the ping of its start before anything else.
THEOREM StartHeard == Spec => []CreatorHearsStart
<1>1. SInv => CreatorHearsStart
  <2> SUFFICES ASSUME SInv, NEW h \in Handlers, should_start[h],
                      phase[h] \notin {"opened", "dropped"}
               PROVE  /\ taken[h] \o queue[h] # << >>
                      /\ Head(taken[h] \o queue[h]) = "ping"
    BY DEF CreatorHearsStart
  <2> DEFINE t == taken[h]
             q == queue[h]
             s == log[character[h]]
             j == joined[h]
  <2>1. character[h] \in Chars
    BY Opened DEF SInv
  <2>2. t \in Seq(Items) /\ q \in Seq(Items) /\ s \in Seq(Items) /\ j \in Nat
    BY <2>1 DEF SInv, IInv, TypeOK
  <2>3. Window(j, t, q, s) /\ Len(t) + Len(q) > 0 /\ s[j + 1] = "ping"
    BY <2>1, NoCharAssumption DEF SInv, IInv, QueueIsRest, FirstPing
  <2> HIDE DEF t, q, s, j
  <2>4. CASE t # << >>
    <3>1. t[1] = "ping"
      BY <2>2, <2>3, <2>4 DEF Window
    <3>2. t \o q # << >> /\ Head(t \o q) = t[1]
      BY <2>2, <2>4
    <3> QED BY <3>1, <3>2 DEF t, q
  <2>5. CASE t = << >>
    <3>1. Len(t) = 0 /\ q # << >>
      BY <2>2, <2>3, <2>5
    <3>2. q[1] = "ping"
      BY <2>2, <2>3, <3>1 DEF Window
    <3>3. t \o q = q
      BY <2>2, <2>5
    <3>4. Head(q) = q[1]
      BY <2>2, <3>1
    <3> QED BY <3>1, <3>2, <3>3, <3>4 DEF t, q
  <2> QED BY <2>4, <2>5
<1> QED BY <1>1, StartInvariant, PTL
===============================================================================
