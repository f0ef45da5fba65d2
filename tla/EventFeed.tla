------------------------------ MODULE EventFeed ------------------------------
(***************************************************************************)
(* What the event stream of a character promises, without queues: every    *)
(* character has one log of what was published to it, and a reader that    *)
(* joined the log at some point sees, one after the other, exactly the     *)
(* entries published from that point on, until it stops reading.           *)
(*                                                                         *)
(* SessionHub (core/sessions.py and the handlers of core/routers/pcs.py)   *)
(* implements this with one asyncio.Queue per subscription.                *)
(***************************************************************************)
EXTENDS Naturals, Sequences

CONSTANTS Chars,      \* the characters that have a feed
          Readers,    \* those who may read one
          Items,      \* what can be published
          NoChar      \* the feed of a reader that has joined none

VARIABLES log,        \* log[c]: everything published to c, in order
          feed,       \* feed[r]: the character r reads, or NoChar
          from,       \* from[r]: how long the log was when r joined
          seen,       \* seen[r]: the entries r has read
          reading     \* the readers that may still read

vars == <<log, feed, from, seen, reading>>

Init ==
  /\ log = [c \in Chars |-> << >>]
  /\ feed = [r \in Readers |-> NoChar]
  /\ from = [r \in Readers |-> 0]
  /\ seen = [r \in Readers |-> << >>]
  /\ reading = {}

\* One item is appended to the log of every character of S.
Append1(S, item) ==
  log' = [c \in Chars |-> IF c \in S THEN Append(log[c], item) ELSE log[c]]

Publish ==
  /\ \E S \in SUBSET Chars, item \in Items : Append1(S, item)
  /\ UNCHANGED <<feed, from, seen, reading>>

\* A reader joins once; the step may also publish its first entry.
Join(r, c) ==
  /\ feed[r] = NoChar
  /\ feed' = [feed EXCEPT ![r] = c]
  /\ from' = [from EXCEPT ![r] = Len(log[c])]
  /\ reading' = reading \cup {r}
  /\ \/ UNCHANGED log
     \/ \E item \in Items : Append1({c}, item)
  /\ UNCHANGED seen

\* The next entry, and no other; the step may be the reader's last.
Read(r) ==
  /\ r \in reading
  /\ from[r] + Len(seen[r]) < Len(log[feed[r]])
  /\ seen' = [seen EXCEPT ![r] =
                Append(@, log[feed[r]][from[r] + Len(seen[r]) + 1])]
  /\ reading' \in {reading, reading \ {r}}
  /\ UNCHANGED <<log, feed, from>>

Leave(r) ==
  /\ reading' = reading \ {r}
  /\ UNCHANGED <<log, feed, from, seen>>

Next ==
  \/ Publish
  \/ \E r \in Readers : (\E c \in Chars : Join(r, c)) \/ Read(r) \/ Leave(r)

Spec == Init /\ [][Next]_vars
==============================================================================
