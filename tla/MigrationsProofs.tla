--------------------------- MODULE MigrationsProofs ---------------------------
(***************************************************************************)
(* Proofs about Migrations, for any plugins, dependencies and numbers of   *)
(* starts and failures: the list of what remains loses exactly what was    *)
(* resolved, upgrades are performed once and in the order of their         *)
(* dependencies, they are recorded with what they make, and a start that   *)
(* gets as far as performing any has dependencies that can be met.         *)
(***************************************************************************)
EXTENDS Migrations, SequenceTheorems, TLAPS

-------------------------------------------------------------------------------
(* Sequences of migrations *)

\* None twice, and each behind those of its dependencies that are not in free.
Ordered(s, free) ==
  \A i \in DOMAIN s :
    /\ \A j \in DOMAIN s : s[i] = s[j] => i = j
    /\ \A d \in depends[s[i]] \ free : \E j \in 1 .. i - 1 : s[j] = d

LEMMA RanAppend ==
  ASSUME NEW s \in Seq(Migrations), NEW m \in Migrations
  PROVE  Ran(Append(s, m)) = Ran(s) \cup {m}
<1>1. /\ Len(Append(s, m)) = Len(s) + 1 /\ Append(s, m)[Len(s) + 1] = m
      /\ \A i \in 1 .. Len(s) : Append(s, m)[i] = s[i]
  OBVIOUS
<1>2. DOMAIN s = 1 .. Len(s) /\ DOMAIN Append(s, m) = 1 .. Len(s) + 1
  OBVIOUS
<1>3. ASSUME NEW x \in Ran(Append(s, m)) PROVE x \in Ran(s) \cup {m}
  <2>1. PICK i \in 1 .. Len(s) + 1 : x = Append(s, m)[i]
    BY <1>2 DEF Ran
  <2> QED BY <1>1, <1>2, <2>1 DEF Ran
<1>4. ASSUME NEW x \in Ran(s) PROVE x \in Ran(Append(s, m))
  <2>1. PICK i \in 1 .. Len(s) : x = s[i]
    BY <1>2 DEF Ran
  <2>2. i \in 1 .. Len(s) + 1 /\ x = Append(s, m)[i]
    BY <1>1, <2>1
  <2> QED BY <1>2, <2>2 DEF Ran
<1>5. m \in Ran(Append(s, m))
  BY <1>1, <1>2 DEF Ran
<1> QED BY <1>3, <1>4, <1>5

\* What is new and has its dependencies in front of it may follow.
LEMMA OrderedAppend ==
  ASSUME NEW s \in Seq(Migrations), NEW m \in Migrations, NEW free, Ordered(s, free),
         m \notin Ran(s), depends[m] \ free \subseteq Ran(s)
  PROVE  Ordered(Append(s, m), free)
<1> DEFINE t == Append(s, m)
<1>1. /\ DOMAIN t = 1 .. Len(s) + 1 /\ t[Len(s) + 1] = m
      /\ \A i \in 1 .. Len(s) : t[i] = s[i] /\ s[i] # m
      /\ DOMAIN s = 1 .. Len(s) /\ Len(s) \in Nat
  BY DEF Ran
<1> SUFFICES ASSUME NEW i \in DOMAIN t
             PROVE  /\ \A j \in DOMAIN t : t[i] = t[j] => i = j
                    /\ \A d \in depends[t[i]] \ free : \E j \in 1 .. i - 1 : t[j] = d
  BY DEF Ordered
<1> HIDE DEF t
<1>2. CASE i \in 1 .. Len(s)
  <2>1. /\ \A j \in 1 .. Len(s) : s[i] = s[j] => i = j
        /\ \A d \in depends[s[i]] \ free : \E j \in 1 .. i - 1 : s[j] = d
    BY <1>1, <1>2 DEF Ordered
  <2>2. \A j \in DOMAIN t : t[i] = t[j] => i = j
    BY <1>1, <1>2, <2>1
  <2>3. ASSUME NEW d \in depends[t[i]] \ free PROVE \E j \in 1 .. i - 1 : t[j] = d
    <3>1. PICK j \in 1 .. i - 1 : s[j] = d
      BY <1>1, <1>2, <2>1
    <3>2. j \in 1 .. Len(s)
      BY <1>1, <1>2
    <3> QED BY <1>1, <3>1, <3>2
  <2> QED BY <2>2, <2>3
<1>3. CASE i = Len(s) + 1
  <2>1. \A j \in DOMAIN t : t[i] = t[j] => i = j
    BY <1>1, <1>3
  <2>2. ASSUME NEW d \in depends[t[i]] \ free PROVE \E j \in 1 .. i - 1 : t[j] = d
    <3>1. d \in Ran(s)
      BY <1>1, <1>3
    <3>2. PICK j \in 1 .. Len(s) : s[j] = d
      BY <1>1, <3>1 DEF Ran
    <3> QED BY <1>1, <1>3, <3>2
  <2> QED BY <2>1, <2>2
<1> QED BY <1>1, <1>2, <1>3

-------------------------------------------------------------------------------
(* The list of what remains *)

\* The list without its k-th entry.
LEMMA RemovedAt ==
  ASSUME NEW S, NEW s \in Seq(S), NEW k \in 1 .. Len(s)
  PROVE  /\ RemoveAt(s, k) \in Seq(S) /\ Len(RemoveAt(s, k)) = Len(s) - 1
         /\ \A i \in 1 .. Len(s) - 1 : RemoveAt(s, k)[i] = IF i < k THEN s[i] ELSE s[i + 1]
<1> DEFINE n == Len(s)
           c == SubSeq(s, 1, k - 1)
           d == SubSeq(s, k + 1, n)
           t == c \o d
<1>1. n \in Nat /\ k \in 1 .. n /\ s \in Seq(S)
  OBVIOUS
<1>2. /\ c \in Seq(S) /\ Len(c) = k - 1 /\ \A i \in 1 .. k - 1 : c[i] = s[i]
      /\ d \in Seq(S) /\ Len(d) = n - k /\ \A i \in 1 .. n - k : d[i] = s[k + i]
  OBVIOUS
<1> HIDE DEF c, d, n
<1>3. t \in Seq(S) /\ Len(t) = Len(c) + Len(d)
  BY <1>2, ConcatProperties
<1>4. Len(t) = n - 1
  BY <1>1, <1>2, <1>3
<1>5. ASSUME NEW i \in 1 .. n - 1 PROVE t[i] = IF i < k THEN s[i] ELSE s[i + 1]
  <2>1. CASE i < k
    <3>1. i \in 1 .. Len(c)
      BY <1>1, <1>2, <2>1
    <3>2. t[i] = c[i]
      BY <1>2, <3>1
    <3> QED BY <1>1, <1>2, <2>1, <3>2
  <2>2. CASE ~ (i < k)
    <3> DEFINE j == i - (k - 1)
    <3>1. j \in 1 .. n - k /\ i = (k - 1) + j /\ k + j = i + 1
      BY <1>1, <2>2
    <3> HIDE DEF j
    <3>2. t[Len(c) + j] = d[j]
      BY <1>2, <3>1
    <3> QED BY <1>2, <2>2, <3>1, <3>2
  <2> QED BY <2>1, <2>2
<1>6. RemoveAt(s, k) = t
  BY DEF RemoveAt, t, c, d, n
<1> HIDE DEF t
<1> QED BY <1>3, <1>4, <1>5, <1>6 DEF n

Distinct(s) == \A i, j \in DOMAIN s : s[i] = s[j] => i = j
Ascends(s) == \A i, j \in DOMAIN s : i < j => s[i] < s[j]

\* What is left of what remains when its last resolved entry is removed: the other
\* indices stay those of the resolved entries.
LEMMA RemovedLast ==
  ASSUME NEW list \in Seq(Migrations), NEW idx \in Seq(Nat \ {0}), idx # << >>, NEW R,
         Distinct(list), Ascends(idx), Ran(idx) \subseteq DOMAIN list,
         \A i \in DOMAIN list : list[i] \in R <=> i \in Ran(idx)
  PROVE  LET rest == RemoveAt(list, Last(idx)) IN
         /\ rest \in Seq(Migrations) /\ Front(idx) \in Seq(Nat \ {0})
         /\ Distinct(rest) /\ Ascends(Front(idx)) /\ Ran(Front(idx)) \subseteq DOMAIN rest
         /\ \A i \in DOMAIN rest : rest[i] \in R <=> i \in Ran(Front(idx))
         /\ Ran(list) \cup R = Ran(rest) \cup R
         /\ Ran(Front(idx)) \subseteq Ran(idx) /\ Len(rest) < Len(list)
<1> DEFINE k == Last(idx)
           rest == RemoveAt(list, k)
           front == Front(idx)
           l == Len(idx)
           n == Len(list)
<1>1. /\ l \in Nat /\ l \in 1 .. l /\ k = idx[l] /\ DOMAIN idx = 1 .. l
      /\ front \in Seq(Nat \ {0}) /\ DOMAIN front = 1 .. l - 1
      /\ \A i \in 1 .. l - 1 : front[i] = idx[i] /\ i \in 1 .. l /\ i < l
      /\ n \in Nat /\ DOMAIN list = 1 .. n
      /\ \A i \in 1 .. l : idx[i] \in Nat
  BY DEF Last, Front
<1>2. k \in Ran(idx) /\ k \in 1 .. n
  BY <1>1 DEF Ran
<1>3. /\ rest \in Seq(Migrations) /\ Len(rest) = n - 1
      /\ \A i \in 1 .. n - 1 : rest[i] = IF i < k THEN list[i] ELSE list[i + 1]
  BY <1>2, RemovedAt
<1>4. DOMAIN rest = 1 .. n - 1
  BY <1>3
<1> HIDE DEF k, rest, front, l, n
<1>5. \A i \in Ran(idx) : i \in Nat /\ i <= k /\ (i # k <=> i \in Ran(front))
  <2>1. ASSUME NEW j \in 1 .. l
        PROVE  idx[j] \in Nat /\ idx[j] <= k /\ (idx[j] # k <=> idx[j] \in Ran(front))
    <3>1. idx[j] \in Nat /\ (j < l => idx[j] < idx[l])
      BY <1>1 DEF Ascends
    <3>2. CASE j = l
      <4>1. ASSUME NEW m \in 1 .. l - 1 PROVE front[m] # idx[l]
        <5>1. idx[m] < idx[l] /\ front[m] = idx[m] /\ idx[m] \in Nat /\ idx[l] \in Nat
          BY <1>1 DEF Ascends
        <5> QED BY <5>1
      <4> QED BY <1>1, <3>1, <3>2, <4>1 DEF Ran
    <3>3. CASE j < l
      <4>1. j \in 1 .. l - 1 /\ front[j] = idx[j]
        BY <1>1, <3>3
      <4>2. idx[j] \in Ran(front)
        BY <1>1, <4>1 DEF Ran
      <4>3. idx[j] < idx[l] /\ idx[l] \in Nat
        BY <1>1, <3>1, <3>3
      <4>4. idx[j] <= k /\ idx[j] # k
        BY <1>1, <3>1, <4>3
      <4> QED BY <3>1, <4>2, <4>4
    <3> QED BY <1>1, <3>2, <3>3
  <2> QED BY <1>1, <2>1 DEF Ran
<1>6. Ran(front) \subseteq Ran(idx)
  BY <1>1 DEF Ran
<1>7. \A i \in Ran(front) : i \in 1 .. n - 1 /\ i < k
  <2> SUFFICES ASSUME NEW i \in Ran(front) PROVE i \in 1 .. n - 1 /\ i < k
    OBVIOUS
  <2>1. i \in Ran(idx) /\ i <= k /\ i # k /\ i \in 1 .. n
    BY <1>1, <1>5, <1>6
  <2> QED BY <1>1, <1>2, <2>1
<1>8. ASSUME NEW i \in 1 .. n - 1 PROVE rest[i] \in R <=> i \in Ran(front)
  <2>1. CASE i < k
    <3>1. rest[i] = list[i] /\ i \in 1 .. n /\ i # k
      BY <1>1, <1>2, <1>3, <2>1
    <3> QED BY <1>1, <1>5, <1>6, <3>1
  <2>2. CASE ~ (i < k)
    <3>1. rest[i] = list[i + 1] /\ i + 1 \in 1 .. n /\ ~ (i + 1 <= k)
      BY <1>1, <1>2, <1>3, <2>2
    <3> QED BY <1>1, <1>5, <1>7, <2>2, <3>1
  <2> QED BY <2>1, <2>2
<1>9. Distinct(rest)
  <2> SUFFICES ASSUME NEW i \in 1 .. n - 1, NEW j \in 1 .. n - 1, rest[i] = rest[j]
               PROVE  i = j
    BY <1>4 DEF Distinct
  <2> DEFINE at(m) == IF m < k THEN m ELSE m + 1
  <2>1. \A m \in 1 .. n - 1 : at(m) \in 1 .. n /\ rest[m] = list[at(m)]
    BY <1>1, <1>2, <1>3
  <2>2. at(i) = at(j)
    <3> HIDE DEF at
    <3> QED BY <1>1, <2>1 DEF Distinct
  <2> QED BY <1>1, <1>2, <2>2
<1>10. Ascends(front)
  BY <1>1 DEF Ascends
<1>11. Ran(list) \cup R = Ran(rest) \cup R
  <2>1. ASSUME NEW i \in 1 .. n PROVE list[i] \in Ran(rest) \cup R
    <3>1. CASE i = k
      BY <1>1, <1>2, <3>1
    <3>2. CASE i < k
      <4>1. i \in 1 .. n - 1 /\ rest[i] = list[i]
        BY <1>1, <1>2, <1>3, <3>2
      <4> QED BY <1>4, <4>1 DEF Ran
    <3>3. CASE i > k
      <4>1. i - 1 \in 1 .. n - 1 /\ ~ (i - 1 < k) /\ (i - 1) + 1 = i
        BY <1>1, <1>2, <3>3
      <4>2. rest[i - 1] = list[i]
        BY <1>3, <4>1
      <4> QED BY <1>4, <4>1, <4>2 DEF Ran
    <3> QED BY <1>1, <1>2, <3>1, <3>2, <3>3
  <2>2. ASSUME NEW i \in 1 .. n - 1 PROVE rest[i] \in Ran(list)
    <3>1. i \in 1 .. n /\ i + 1 \in 1 .. n
      BY <1>1
    <3> QED BY <1>1, <1>3, <3>1 DEF Ran
  <2> QED BY <1>1, <1>4, <2>1, <2>2 DEF Ran
<1>12. Len(rest) < n
  BY <1>1, <1>3
<1> QED BY <1>1, <1>3, <1>4, <1>6, <1>7, <1>8, <1>9, <1>10, <1>11, <1>12 DEF rest, front, k, n

-------------------------------------------------------------------------------
(* The inductive invariant *)

\* The list has every installed migration that is not resolved; those that this pass
\* has resolved are still in it, at the indices to be removed.
Listed ==
  /\ phase = "listing" =>
       /\ resolved = {} /\ idx_remove = << >> /\ Distinct(remaining_migrations)
       /\ Ran(remaining_migrations) =
            {m \in installed : \E i \in 1 .. pos - 1 : i \in DOMAIN LoadOrder /\ LoadOrder[i] = m}
  /\ phase = "resolving" =>
       /\ Ran(remaining_migrations) \cup resolved = installed
       /\ Distinct(remaining_migrations) /\ Ascends(idx_remove)
       /\ Ran(idx_remove) \subseteq DOMAIN remaining_migrations
       /\ \A i \in Ran(idx_remove) : i < pos
       /\ \A i \in DOMAIN remaining_migrations :
            remaining_migrations[i] \in resolved <=> i \in Ran(idx_remove)

\* What is resolved is installed and in the order of its dependencies, and no part
\* of it waits for itself.
Resolved ==
  /\ resolved = Ran(migration_order) /\ resolved \subseteq installed
  /\ Ordered(migration_order, {})
  /\ \A S \in (SUBSET resolved) \ {{}} : \E m \in S : depends[m] \subseteq resolved \ S
  /\ phase \in {"applying", "up"} => installed \subseteq resolved

\* The transaction sees the rows of the upgrades that it sees, but for the one that
\* is being recorded.
Recorded ==
  /\ RecordsMatchSchema /\ Ordered(schema, NoUpgrade)
  /\ phase \in {"listing", "resolving", "applying"} =>
       /\ Ran(txSchema) = tx_plugin_migrations \cup performing
       /\ Ordered(txSchema, NoUpgrade)
  /\ phase \in {"listing", "resolving"} => performing = {}
  /\ phase = "applying" /\ performing # {} =>
       pos <= Len(migration_order) /\ performing = {Current}

\* The loop has dealt with what it has passed.
Applied ==
  /\ phase = "applying" =>
       \A i \in 1 .. pos - 1 : migration_order[i] \in tx_plugin_migrations \cup NoUpgrade
  /\ UpIsComplete

IInv == TypeOK /\ Listed /\ Resolved /\ Recorded /\ Applied

LEMMA Empty ==
  ASSUME NEW free
  PROVE  /\ << >> \in Seq(Migrations) /\ << >> \in Seq(Nat \ {0}) /\ Len(<< >>) = 0
         /\ Ran(<< >>) = {} /\ Ordered(<< >>, free) /\ Distinct(<< >>) /\ Ascends(<< >>)
BY DEF Ran, Ordered, Distinct, Ascends

LEMMA InitIInv == Init => IInv
<1> SUFFICES ASSUME Init PROVE IInv
  OBVIOUS
<1>1. TypeOK
  BY Empty DEF Init, TypeOK
<1>2. Resolved
  <2>1. resolved = {} /\ migration_order = << >> /\ phase = "down"
    BY DEF Init
  <2>2. ASSUME NEW S \in (SUBSET resolved) \ {{}} PROVE FALSE
    <3>1. S \subseteq resolved /\ S # {}
      OBVIOUS
    <3> QED BY <2>1, <3>1
  <2> QED BY <2>1, <2>2, Empty DEF Resolved
<1>3. Recorded /\ Applied
  BY Empty DEF Init, Recorded, RecordsMatchSchema, Applied, UpIsComplete
<1>4. Listed
  BY DEF Init, Listed
<1> QED BY <1>1, <1>2, <1>3, <1>4 DEF IInv

-------------------------------------------------------------------------------
(* Every step *)

\* Types: the loop's index is within the order that it follows.
LEMMA TypeNext ==
  ASSUME TypeOK, Listed, Recorded, [Next]_vars
  PROVE  TypeOK'
<1> USE DEF resolveVars, txVars, dbVars
<1>1. CASE Begin
  BY <1>1, Empty DEF Begin, TypeOK
<1>2. CASE Consider
  <2>1. Entry \in Migrations /\ pos \in Nat \ {0}
    BY <1>2 DEF Consider, Resolving, Entry, TypeOK
  <2>2. /\ Append(migration_order, Entry) \in Seq(Migrations)
        /\ Append(idx_remove, pos) \in Seq(Nat \ {0})
    BY <2>1 DEF TypeOK
  <2>3. pos + 1 \in Nat \ {0} /\ phase' # "applying"
    BY <1>2 DEF Consider, Resolving, TypeOK
  <2>4. /\ migration_order' \in Seq(Migrations) /\ resolved' \subseteq Migrations
        /\ idx_remove' \in Seq(Nat \ {0}) /\ UNCHANGED remaining_migrations
    BY <1>2, <2>1, <2>2 DEF Consider, Resolve, TypeOK
  <2> QED BY <1>2, <2>3, <2>4 DEF Consider, TypeOK
<1>3. CASE NextPass
  BY <1>3 DEF NextPass, TypeOK
<1>12. CASE List
  <2>1. LoadOrder[pos] \in Migrations
    BY <1>12, LoadOrderAssumption DEF List, TypeOK
  <2>2. Append(remaining_migrations, LoadOrder[pos]) \in Seq(Migrations)
    BY <2>1 DEF TypeOK
  <2>3. pos + 1 \in Nat \ {0} /\ phase' # "applying"
    BY <1>12 DEF List, TypeOK
  <2> QED BY <1>12, <2>2, <2>3 DEF List, TypeOK
<1>13. CASE RemoveResolved
  <2>1. remaining_migrations' \in Seq(Migrations) /\ idx_remove' \in Seq(Nat \ {0})
    BY <1>13, RemovedLast DEF RemoveResolved, Considered, Listed, TypeOK
  <2>2. phase' # "applying"
    BY <1>13 DEF RemoveResolved, Considered
  <2> QED BY <1>13, <2>1, <2>2 DEF RemoveResolved, TypeOK
<1>4. CASE Skip
  BY <1>4 DEF Skip, Applying, TypeOK
<1>5. CASE Perform
  <2>1. Current \in Migrations
    BY <1>5 DEF Perform, Applying, Current, TypeOK
  <2>2. Append(txSchema, Current) \in Seq(Migrations)
    BY <2>1 DEF TypeOK
  <2> QED BY <1>5, <2>1, <2>2 DEF Perform, TypeOK
<1>6. CASE Record
  <2>1. pos <= Len(migration_order)
    BY <1>6 DEF Record, Recorded
  <2> QED BY <1>6, <2>1 DEF Record, TypeOK
<1>7. CASE Commit
  BY <1>7 DEF Commit, TypeOK
<1>8. CASE Fail
  BY <1>8 DEF Fail, TypeOK
<1>9. CASE Stop
  BY <1>9 DEF Stop, TypeOK
<1>10. ASSUME NEW m \in Migrations, Install(m) PROVE TypeOK'
  BY <1>10 DEF Install, TypeOK
<1>11. CASE UNCHANGED vars
  BY <1>11 DEF vars, TypeOK
<1> QED
  BY <1>1, <1>2, <1>3, <1>4, <1>5, <1>6, <1>7, <1>8, <1>9, <1>10, <1>11, <1>12, <1>13
     DEF Next, Startup

\* The list loses what was resolved and nothing else.
LEMMA ListedNext ==
  ASSUME TypeOK, Listed, [Next]_vars
  PROVE  Listed'
<1> USE DEF resolveVars, txVars, dbVars
<1> DEFINE Upto(k) ==
             {m \in installed : \E i \in 1 .. k : i \in DOMAIN LoadOrder /\ LoadOrder[i] = m}
<1>1. CASE Begin
  <2>1. /\ phase' = "listing" /\ resolved' = {} /\ idx_remove' = << >> /\ pos' = 1
        /\ remaining_migrations' = << >>
    BY <1>1 DEF Begin
  <2> QED BY <2>1, Empty DEF Listed, Distinct, Ran
<1>2. CASE List
  <2> DEFINE list == remaining_migrations
             m == LoadOrder[pos]
  <2>1. /\ phase = "listing" /\ phase' = "listing" /\ pos' = pos + 1
        /\ UNCHANGED <<installed, resolved, idx_remove>>
        /\ pos \in DOMAIN LoadOrder /\ m \in Migrations
        /\ list' = IF m \in installed THEN Append(list, m) ELSE list
    BY <1>2, LoadOrderAssumption DEF List, TypeOK
  <2>2. /\ list \in Seq(Migrations) /\ Distinct(list)
        /\ Ran(list) = Upto(pos - 1) /\ pos \in Nat \ {0}
    BY <2>1 DEF Listed, TypeOK
  <2>3. Upto(pos) = IF m \in installed THEN Upto(pos - 1) \cup {m} ELSE Upto(pos - 1)
    BY <2>1, <2>2
  <2>4. m \notin Upto(pos - 1)
    <3> SUFFICES ASSUME NEW i \in 1 .. pos - 1, i \in DOMAIN LoadOrder, LoadOrder[i] = m
                 PROVE  FALSE
      OBVIOUS
    <3>1. i # pos
      BY <2>2
    <3> QED BY <2>1, <3>1, LoadOrderAssumption
  <2> HIDE DEF m, list, Upto
  <2>5. m \notin Ran(list)
    BY <2>2, <2>4
  <2>6. Ran(list') = Upto(pos)
    BY <2>1, <2>2, <2>3, RanAppend
  <2>7. Distinct(Append(list, m))
    <3> DEFINE t == Append(list, m)
    <3>1. /\ DOMAIN t = 1 .. Len(list) + 1 /\ t[Len(list) + 1] = m /\ Len(list) \in Nat
          /\ \A i \in 1 .. Len(list) : t[i] = list[i] /\ list[i] # m
          /\ DOMAIN list = 1 .. Len(list)
      BY <2>1, <2>2, <2>5 DEF Ran
    <3> HIDE DEF t
    <3>2. ASSUME NEW i \in DOMAIN t, NEW j \in DOMAIN t, t[i] = t[j] PROVE i = j
      <4>1. CASE i = Len(list) + 1
        BY <3>1, <3>2, <4>1
      <4>2. CASE j = Len(list) + 1
        BY <3>1, <3>2, <4>2
      <4>3. CASE i # Len(list) + 1 /\ j # Len(list) + 1
        <5>1. i \in 1 .. Len(list) /\ j \in 1 .. Len(list)
          BY <3>1, <4>3
        <5> QED BY <2>2, <3>1, <3>2, <5>1 DEF Distinct
      <4> QED BY <4>1, <4>2, <4>3
    <3> QED BY <3>2 DEF t, Distinct
  <2>8. Distinct(list')
    BY <2>1, <2>2, <2>7
  <2>9. Ran(list') = {x \in installed' : \E i \in 1 .. pos' - 1 :
                                          i \in DOMAIN LoadOrder /\ LoadOrder[i] = x}
    <3>1. pos' - 1 = pos /\ installed' = installed
      BY <2>1, <2>2
    <3> QED BY <2>6, <3>1 DEF Upto
  <2>10. phase = "listing" => resolved = {} /\ idx_remove = << >>
    BY DEF Listed
  <2>11. resolved' = {} /\ idx_remove' = << >> /\ phase' = "listing"
    BY <2>1, <2>10
  <2> QED BY <2>8, <2>9, <2>11 DEF Listed, list, Upto, Distinct, Ran
<1>3. CASE Consider
  <2> DEFINE list == remaining_migrations
             m == Entry
  <2>1. /\ phase = "resolving" /\ phase' = "resolving" /\ pos' = pos + 1
        /\ UNCHANGED <<installed, list>>
        /\ pos \in DOMAIN list /\ m = list[pos] /\ pos \in Nat \ {0}
        /\ DOMAIN list = 1 .. Len(list) /\ Len(list) \in Nat
    BY <1>3 DEF Consider, Resolving, Resolve, Entry, TypeOK
  <2>2. /\ Ran(list) \cup resolved = installed
        /\ Distinct(list) /\ Ascends(idx_remove)
        /\ Ran(idx_remove) \subseteq DOMAIN list
        /\ \A i \in Ran(idx_remove) : i < pos
        /\ \A i \in DOMAIN list : list[i] \in resolved <=> i \in Ran(idx_remove)
    BY <2>1 DEF Listed
  <2>3. \A i \in Ran(idx_remove) : i < pos + 1
    BY <2>1, <2>2
  <2>4. CASE UNCHANGED <<resolved, idx_remove>>
    BY <2>1, <2>2, <2>3, <2>4 DEF Listed, Distinct, Ascends, Ran
  <2>5. CASE resolved' = resolved \cup {m} /\ idx_remove' = Append(idx_remove, pos)
    <3> DEFINE idx == idx_remove
               more == Append(idx, pos)
    <3>1. /\ idx \in Seq(Nat \ {0}) /\ DOMAIN idx = 1 .. Len(idx) /\ Len(idx) \in Nat
          /\ DOMAIN more = 1 .. Len(idx) + 1 /\ more[Len(idx) + 1] = pos
          /\ \A i \in 1 .. Len(idx) : more[i] = idx[i]
      BY <2>1 DEF TypeOK
    <3> HIDE DEF idx, more
    <3>2. Ran(more) = Ran(idx) \cup {pos}
      <4>1. \A i \in 1 .. Len(idx) + 1 : i \in 1 .. Len(idx) \/ i = Len(idx) + 1
        BY <3>1
      <4>2. \A i \in 1 .. Len(idx) : i \in 1 .. Len(idx) + 1
        BY <3>1
      <4>3. Len(idx) + 1 \in 1 .. Len(idx) + 1
        BY <3>1
      <4> QED BY <3>1, <4>1, <4>2, <4>3 DEF Ran
    <3>3. Ascends(more)
      <4> SUFFICES ASSUME NEW i \in 1 .. Len(idx) + 1, NEW j \in 1 .. Len(idx) + 1, i < j
                   PROVE  more[i] < more[j]
        BY <3>1 DEF Ascends
      <4>1. i \in 1 .. Len(idx) /\ more[i] = idx[i] /\ idx[i] \in Ran(idx)
        BY <3>1 DEF Ran
      <4>2. CASE j = Len(idx) + 1
        BY <2>2, <3>1, <4>1, <4>2 DEF idx
      <4>3. CASE j # Len(idx) + 1
        <5>1. j \in 1 .. Len(idx)
          BY <3>1, <4>3
        <5> QED BY <2>2, <3>1, <4>1, <5>1 DEF Ascends, idx
      <4> QED BY <4>2, <4>3
    <3>4. /\ idx_remove' = more /\ list' = list
          /\ Ran(more) \subseteq DOMAIN list /\ \A i \in Ran(more) : i < pos + 1
      BY <2>1, <2>2, <2>3, <2>5, <3>2 DEF idx, more
    <3>5. \A i \in DOMAIN list : list[i] \in resolved \cup {m} <=> i \in Ran(more)
      BY <2>1, <2>2, <3>2 DEF Distinct, idx
    <3>6. Ran(list) \cup (resolved \cup {m}) = installed
      <4>1. m \in Ran(list)
        BY <2>1 DEF Ran
      <4> QED BY <2>2, <4>1
    <3> HIDE DEF m
    <3> QED BY <2>1, <2>2, <2>5, <3>3, <3>4, <3>5, <3>6 DEF Listed
  <2> QED BY <1>3, <2>4, <2>5 DEF Consider, Resolve
<1>4. CASE RemoveResolved
  <2> DEFINE list == remaining_migrations
             rest == RemoveAt(list, Last(idx_remove))
             front == Front(idx_remove)
  <2>1. /\ phase = "resolving" /\ phase' = "resolving" /\ UNCHANGED <<installed, resolved, pos>>
        /\ idx_remove # << >> /\ list' = rest /\ idx_remove' = front
        /\ list \in Seq(Migrations) /\ idx_remove \in Seq(Nat \ {0})
    BY <1>4 DEF RemoveResolved, Considered, TypeOK
  <2>2. /\ Ran(list) \cup resolved = installed
        /\ Distinct(list) /\ Ascends(idx_remove)
        /\ Ran(idx_remove) \subseteq DOMAIN list
        /\ \A i \in Ran(idx_remove) : i < pos
        /\ \A i \in DOMAIN list : list[i] \in resolved <=> i \in Ran(idx_remove)
    BY <2>1 DEF Listed
  <2>3. /\ Distinct(rest) /\ Ascends(front) /\ Ran(front) \subseteq DOMAIN rest
        /\ \A i \in DOMAIN rest : rest[i] \in resolved <=> i \in Ran(front)
        /\ Ran(list) \cup resolved = Ran(rest) \cup resolved
        /\ Ran(front) \subseteq Ran(idx_remove)
    <3> HIDE DEF list
    <3> QED BY <2>1, <2>2, RemovedLast
  <2> HIDE DEF rest, front
  <2>4. \A i \in Ran(front) : i < pos
    BY <2>2, <2>3
  <2> QED BY <2>1, <2>2, <2>3, <2>4 DEF Listed
<1>5. CASE NextPass
  <2>1. /\ UNCHANGED <<installed, resolved, remaining_migrations, idx_remove>> /\ pos' = 1
        /\ phase' \in {"applying", "resolving"} /\ idx_remove = << >>
    BY <1>5 DEF NextPass, PassOver, Considered, Listed
  <2>2. CASE phase = "resolving"
    BY <2>1, <2>2, Empty DEF Listed
  <2>3. CASE phase = "listing" /\ pos > Len(LoadOrder)
    <3>1. resolved = {} /\ Distinct(remaining_migrations)
      BY <2>3 DEF Listed
    <3>2. Ran(remaining_migrations) = installed
      <4>1. ASSUME NEW m \in installed
            PROVE  \E i \in 1 .. pos - 1 : i \in DOMAIN LoadOrder /\ LoadOrder[i] = m
        <5>1. PICK i \in DOMAIN LoadOrder : LoadOrder[i] = m
          BY LoadOrderAssumption DEF TypeOK
        <5>2. i \in 1 .. pos - 1
          BY <2>3, <5>1, LoadOrderAssumption DEF TypeOK
        <5> QED BY <5>1, <5>2
      <4> QED BY <2>3, <4>1 DEF Listed
    <3> QED BY <2>1, <3>1, <3>2, Empty DEF Listed
  <2> QED BY <1>5, <2>2, <2>3 DEF NextPass, PassOver, Considered
<1>6. CASE Skip \/ Perform \/ Record
  <2>1. phase' \notin {"listing", "resolving"}
    BY <1>6 DEF Skip, Perform, Record, Applying
  <2> QED BY <2>1 DEF Listed
<1>7. CASE Commit \/ Fail \/ Stop
  <2>1. phase' \notin {"listing", "resolving"}
    BY <1>7 DEF Commit, Fail, Stop
  <2> QED BY <2>1 DEF Listed
<1>8. ASSUME NEW m \in Migrations, Install(m) PROVE Listed'
  <2>1. phase' \notin {"listing", "resolving"}
    BY <1>8 DEF Install
  <2> QED BY <2>1 DEF Listed
<1>9. CASE UNCHANGED vars
  BY <1>9 DEF vars, Listed, Distinct, Ascends, Ran
<1> QED
  BY <1>1, <1>2, <1>3, <1>4, <1>5, <1>6, <1>7, <1>8, <1>9 DEF Next, Startup

\* Only what has its dependencies resolved is resolved.
LEMMA ResolvedNext ==
  ASSUME TypeOK, Listed, Resolved, [Next]_vars
  PROVE  Resolved'
<1> USE DEF resolveVars, txVars, dbVars
<1>1. CASE Begin
  <2>1. resolved' = {} /\ migration_order' = << >> /\ phase' = "listing"
    BY <1>1 DEF Begin
  <2>2. Ordered(migration_order, {})'
    BY <2>1 DEF Ordered
  <2> QED BY <2>1, <2>2, Empty DEF Resolved
<1>2. CASE Consider
  <2> DEFINE m == Entry
  <2>1. m \in Migrations /\ pos \in DOMAIN remaining_migrations
    BY <1>2 DEF Consider, Resolving, Entry, TypeOK
  <2>2. phase' = "resolving" /\ phase = "resolving" /\ UNCHANGED <<depends, installed>>
    BY <1>2 DEF Consider, Resolving
  <2>5. m \in installed /\ m \notin resolved
    <3>1. m \in Ran(remaining_migrations)
      BY <2>1 DEF Entry, Ran
    <3>2. pos \notin Ran(idx_remove)
      BY <2>2 DEF Listed, TypeOK
    <3> QED BY <2>1, <2>2, <3>1, <3>2 DEF Listed, Entry
  <2>3. CASE UNCHANGED resolveVars
    BY <2>2, <2>3 DEF Resolved, Ordered
  <2>4. CASE ~ UNCHANGED resolveVars
    <3>1. /\ migration_order' = Append(migration_order, m)
          /\ resolved' = resolved \cup {m}
          /\ m \in installed /\ m \notin resolved /\ depends[m] \subseteq resolved
      BY <1>2, <2>4, <2>5 DEF Consider, Resolve
    <3> HIDE DEF m
    <3>2. resolved' = Ran(migration_order')
      BY <2>1, <3>1, RanAppend DEF Resolved, TypeOK, m
    <3>3. Ordered(migration_order', {})
      BY <2>1, <3>1, OrderedAppend DEF Resolved, TypeOK, m
    <3>4. Ordered(migration_order, {})'
      BY <2>2, <3>3 DEF Ordered
    <3>5. ASSUME NEW S \in SUBSET (resolved \cup {m}), S # {}
          PROVE  \E x \in S : depends[x] \subseteq (resolved \cup {m}) \ S
      <4>1. CASE S = {m}
        BY <3>1, <4>1
      <4>2. CASE S # {m}
        <5> DEFINE rest == S \ {m}
        <5>1. rest \subseteq resolved /\ rest # {}
          BY <3>5, <4>2
        <5>2. PICK x \in rest : depends[x] \subseteq resolved \ rest
          <6> HIDE DEF rest
          <6> QED BY <5>1 DEF Resolved
        <5> QED BY <3>1, <5>2
      <4> QED BY <4>1, <4>2
    <3> QED BY <2>2, <3>1, <3>2, <3>4, <3>5 DEF Resolved
  <2> QED BY <2>3, <2>4
<1>3. CASE NextPass
  <2>1. /\ UNCHANGED <<depends, installed, resolved, migration_order>>
        /\ phase' \in {"applying", "resolving"}
        /\ phase' = "applying" => remaining_migrations = << >>
    BY <1>3 DEF NextPass
  <2>2. ASSUME remaining_migrations = << >> PROVE installed \subseteq resolved
    <3>1. Ran(remaining_migrations) = {}
      BY <2>2, Empty
    <3>2. CASE phase = "resolving"
      BY <3>1, <3>2 DEF Listed
    <3>3. CASE phase = "listing" /\ pos > Len(LoadOrder)
      <4>1. ASSUME NEW m \in installed PROVE FALSE
        <5>1. PICK i \in DOMAIN LoadOrder : LoadOrder[i] = m
          BY LoadOrderAssumption DEF TypeOK
        <5>2. i \in 1 .. pos - 1
          BY <3>3, <5>1, LoadOrderAssumption DEF TypeOK
        <5>3. m \in Ran(remaining_migrations)
          BY <3>3, <5>1, <5>2 DEF Listed
        <5> QED BY <3>1, <5>3
      <4> QED BY <4>1
    <3> QED BY <1>3, <3>2, <3>3 DEF NextPass, PassOver, Considered
  <2> QED BY <2>1, <2>2 DEF Resolved, Ordered
<1>12. CASE List
  <2>1. UNCHANGED <<depends, installed, resolved, migration_order>> /\ phase' = "listing"
    BY <1>12 DEF List
  <2> QED BY <2>1 DEF Resolved, Ordered
<1>13. CASE RemoveResolved
  <2>1. UNCHANGED <<depends, installed, resolved, migration_order>> /\ phase' = "resolving"
    BY <1>13 DEF RemoveResolved, Considered
  <2> QED BY <2>1 DEF Resolved, Ordered
<1>4. CASE Skip
  <2>1. /\ UNCHANGED <<depends, installed, resolved, migration_order>>
        /\ phase' \in {"applying", "up"} => phase \in {"applying", "up"}
    BY <1>4 DEF Skip, Applying
  <2> QED BY <2>1 DEF Resolved, Ordered
<1>5. CASE Perform
  <2>1. /\ UNCHANGED <<depends, installed, resolved, migration_order>>
        /\ phase' \in {"applying", "up"} => phase \in {"applying", "up"}
    BY <1>5 DEF Perform, Applying
  <2> QED BY <2>1 DEF Resolved, Ordered
<1>6. CASE Record
  <2>1. /\ UNCHANGED <<depends, installed, resolved, migration_order>>
        /\ phase' \in {"applying", "up"} => phase \in {"applying", "up"}
    BY <1>6 DEF Record
  <2> QED BY <2>1 DEF Resolved, Ordered
<1>7. CASE Commit
  <2>1. /\ UNCHANGED <<depends, installed, resolved, migration_order>>
        /\ phase' \in {"applying", "up"} => phase \in {"applying", "up"}
    BY <1>7 DEF Commit
  <2> QED BY <2>1 DEF Resolved, Ordered
<1>8. CASE Fail
  <2>1. /\ UNCHANGED <<depends, installed, resolved, migration_order>>
        /\ phase' \in {"applying", "up"} => phase \in {"applying", "up"}
    BY <1>8 DEF Fail
  <2> QED BY <2>1 DEF Resolved, Ordered
<1>9. CASE Stop
  <2>1. /\ UNCHANGED <<depends, installed, resolved, migration_order>>
        /\ phase' \in {"applying", "up"} => phase \in {"applying", "up"}
    BY <1>9 DEF Stop
  <2> QED BY <2>1 DEF Resolved, Ordered
<1>10. ASSUME NEW m \in Migrations, Install(m) PROVE Resolved'
  <2>1. /\ UNCHANGED <<depends, resolved, migration_order, phase>> /\ phase = "down"
        /\ installed \subseteq installed'
    BY <1>10 DEF Install
  <2> QED BY <2>1 DEF Resolved, Ordered
<1>11. CASE UNCHANGED vars
  BY <1>11 DEF vars, Resolved, Ordered
<1> QED
  BY <1>1, <1>2, <1>3, <1>4, <1>5, <1>6, <1>7, <1>8, <1>9, <1>10, <1>11, <1>12, <1>13
     DEF Next, Startup

\* An upgrade is performed once, behind its dependencies, and recorded.
LEMMA RecordedNext ==
  ASSUME TypeOK, Resolved, Recorded, Applied, [Next]_vars
  PROVE  Recorded'
<1> USE DEF resolveVars, txVars, dbVars
<1>1. CASE Begin
  <2>1. /\ UNCHANGED <<depends, schema, plugin_migrations>> /\ phase' = "listing"
        /\ performing' = {} /\ txSchema' = schema
        /\ tx_plugin_migrations' = plugin_migrations
    BY <1>1 DEF Begin
  <2> QED BY <2>1 DEF Recorded, RecordsMatchSchema, Ordered
<1>2. CASE Consider
  <2>1. /\ UNCHANGED <<depends, schema, plugin_migrations>>
        /\ UNCHANGED <<txSchema, tx_plugin_migrations, performing>>
        /\ phase = "resolving" /\ phase' \in {"resolving", "applying"}
    BY <1>2 DEF Consider, Resolving
  <2> QED BY <2>1 DEF Recorded, RecordsMatchSchema, Ordered
<1>3. CASE NextPass
  <2>1. /\ UNCHANGED <<depends, schema, plugin_migrations>>
        /\ UNCHANGED <<txSchema, tx_plugin_migrations, performing>>
        /\ phase \in {"listing", "resolving"} /\ phase' \in {"resolving", "applying"}
    BY <1>3 DEF NextPass, PassOver, Considered
  <2>2. performing' = {} /\ RecordsMatchSchema' /\ Ordered(schema, NoUpgrade)'
    BY <2>1 DEF Recorded, RecordsMatchSchema, Ordered
  <2> QED BY <2>1, <2>2 DEF Recorded, RecordsMatchSchema, Ordered
<1>12. CASE List \/ RemoveResolved
  <2>1. /\ UNCHANGED <<depends, schema, plugin_migrations>>
        /\ UNCHANGED <<txSchema, tx_plugin_migrations, performing, phase>>
        /\ phase \in {"listing", "resolving"}
    BY <1>12 DEF List, RemoveResolved, Considered
  <2> QED BY <2>1 DEF Recorded, RecordsMatchSchema, Ordered
<1>4. CASE Skip
  <2>1. /\ UNCHANGED <<depends, schema, plugin_migrations, phase>>
        /\ UNCHANGED <<txSchema, tx_plugin_migrations, performing>>
        /\ phase = "applying" /\ performing = {}
    BY <1>4 DEF Skip, Applying
  <2> QED BY <2>1 DEF Recorded, RecordsMatchSchema, Ordered
<1>5. CASE Perform
  <2>1. /\ UNCHANGED <<depends, schema, plugin_migrations, phase, pos, migration_order>>
        /\ UNCHANGED tx_plugin_migrations /\ phase = "applying" /\ performing = {}
        /\ performing' = {Current} /\ txSchema' = Append(txSchema, Current)
        /\ pos \in DOMAIN migration_order /\ Current \in Migrations
    BY <1>5 DEF Perform, Applying, Current, TypeOK
  <2>2. Ran(txSchema) = tx_plugin_migrations
    BY <2>1 DEF Recorded
  <2>3. Current \notin Ran(txSchema)
    BY <1>5, <2>2 DEF Perform
  <2>4. ASSUME NEW d \in depends[Current] \ NoUpgrade PROVE d \in Ran(txSchema)
    <3>1. PICK j \in 1 .. pos - 1 : migration_order[j] = d
      BY <2>1 DEF Resolved, Ordered, Current
    <3> QED BY <2>1, <2>2, <3>1 DEF Applied
  <2>5. Ran(txSchema') = tx_plugin_migrations' \cup performing'
    BY <2>1, <2>2, RanAppend DEF TypeOK
  <2>6. Ordered(txSchema', NoUpgrade)
    BY <2>1, <2>3, <2>4, OrderedAppend DEF TypeOK, Recorded
  <2>7. /\ Ordered(txSchema, NoUpgrade)' /\ Ordered(schema, NoUpgrade)'
    BY <2>1, <2>6 DEF Recorded, Ordered
  <2>8. RecordsMatchSchema' /\ phase' = "applying"
    BY <2>1 DEF Recorded, RecordsMatchSchema
  <2>9. pos' <= Len(migration_order') /\ performing' = {Current}'
    BY <2>1 DEF Current, TypeOK
  <2> QED BY <2>5, <2>7, <2>8, <2>9 DEF Recorded
<1>6. CASE Record
  <2>1. /\ UNCHANGED <<depends, schema, plugin_migrations, phase, txSchema>>
        /\ phase = "applying" /\ performing' = {}
        /\ tx_plugin_migrations' = tx_plugin_migrations \cup performing
    BY <1>6 DEF Record
  <2> QED BY <2>1 DEF Recorded, RecordsMatchSchema, Ordered
<1>7. CASE Commit
  <2>1. /\ UNCHANGED depends /\ phase = "applying" /\ phase' = "up"
        /\ schema' = txSchema /\ plugin_migrations' = tx_plugin_migrations
        /\ pos > Len(migration_order)
    BY <1>7 DEF Commit
  <2>2. performing = {}
    BY <2>1 DEF Recorded, TypeOK
  <2> QED BY <2>1, <2>2 DEF Recorded, RecordsMatchSchema, Ordered
<1>8. CASE Fail
  <2>1. UNCHANGED <<depends, schema, plugin_migrations>> /\ phase' = "down"
    BY <1>8 DEF Fail
  <2> QED BY <2>1 DEF Recorded, RecordsMatchSchema, Ordered
<1>9. CASE Stop
  <2>1. UNCHANGED <<depends, schema, plugin_migrations>> /\ phase' = "down"
    BY <1>9 DEF Stop
  <2> QED BY <2>1 DEF Recorded, RecordsMatchSchema, Ordered
<1>10. ASSUME NEW m \in Migrations, Install(m) PROVE Recorded'
  <2>1. UNCHANGED <<depends, schema, plugin_migrations>> /\ phase' = "down"
    BY <1>10 DEF Install
  <2> QED BY <2>1 DEF Recorded, RecordsMatchSchema, Ordered
<1>11. CASE UNCHANGED vars
  <2>1. /\ UNCHANGED <<depends, schema, plugin_migrations, phase, txSchema, pos>>
        /\ UNCHANGED <<tx_plugin_migrations, performing, migration_order>>
    BY <1>11 DEF vars
  <2>2. Current' = Current
    BY <2>1 DEF Current
  <2> QED BY <2>1, <2>2 DEF Recorded, RecordsMatchSchema, Ordered
<1> QED
  BY <1>1, <1>2, <1>3, <1>4, <1>5, <1>6, <1>7, <1>8, <1>9, <1>10, <1>11, <1>12
     DEF Next, Startup

\* What is behind the loop's index is recorded, or has no upgrade.
LEMMA AppliedNext ==
  ASSUME TypeOK, Resolved, Recorded, Applied, [Next]_vars
  PROVE  Applied'
<1> USE DEF resolveVars, txVars, dbVars
<1>1. CASE Begin
  <2>1. phase' \notin {"applying", "up"}
    BY <1>1 DEF Begin
  <2> QED BY <2>1 DEF Applied, UpIsComplete
<1>2. CASE Consider
  <2>1. phase' \notin {"applying", "up"}
    BY <1>2 DEF Consider, Resolving
  <2> QED BY <2>1 DEF Applied, UpIsComplete
<1>3. CASE NextPass
  <2>1. pos' = 1 /\ phase' # "up"
    BY <1>3 DEF NextPass
  <2> QED BY <2>1 DEF Applied, UpIsComplete
<1>12. CASE List \/ RemoveResolved
  <2>1. phase' \notin {"applying", "up"}
    BY <1>12 DEF List, RemoveResolved, Considered
  <2> QED BY <2>1 DEF Applied, UpIsComplete
<1>4. CASE Skip
  <2>1. /\ UNCHANGED <<migration_order, tx_plugin_migrations>> /\ phase' = "applying"
        /\ pos' = pos + 1 /\ phase = "applying"
        /\ migration_order[pos] \in tx_plugin_migrations \cup NoUpgrade
    BY <1>4 DEF Skip, Applying, Current
  <2>2. \A i \in 1 .. pos' - 1 : i \in 1 .. pos - 1 \/ i = pos
    BY <2>1 DEF TypeOK
  <2> QED BY <2>1, <2>2 DEF Applied, UpIsComplete
<1>5. CASE Perform
  <2>1. /\ UNCHANGED <<migration_order, tx_plugin_migrations, pos, phase>>
        /\ phase = "applying"
    BY <1>5 DEF Perform, Applying
  <2> QED BY <2>1 DEF Applied, UpIsComplete
<1>6. CASE Record
  <2>1. /\ UNCHANGED <<migration_order, phase>> /\ phase = "applying" /\ pos' = pos + 1
        /\ tx_plugin_migrations' = tx_plugin_migrations \cup performing
        /\ performing = {migration_order[pos]}
    BY <1>6 DEF Record, Recorded, Current
  <2>2. \A i \in 1 .. pos' - 1 : i \in 1 .. pos - 1 \/ i = pos
    BY <2>1 DEF TypeOK
  <2> QED BY <2>1, <2>2 DEF Applied, UpIsComplete
<1>7. CASE Commit
  <2>1. /\ phase = "applying" /\ phase' = "up" /\ pos > Len(migration_order)
        /\ plugin_migrations' = tx_plugin_migrations /\ UNCHANGED installed
    BY <1>7 DEF Commit
  <2>2. ASSUME NEW m \in installed \ NoUpgrade PROVE m \in tx_plugin_migrations
    <3>1. PICK i \in DOMAIN migration_order : migration_order[i] = m
      BY <2>1 DEF Resolved, Ran
    <3>2. i \in 1 .. pos - 1
      BY <2>1 DEF TypeOK
    <3> QED BY <2>1, <3>1, <3>2 DEF Applied
  <2> QED BY <2>1, <2>2 DEF Applied, UpIsComplete
<1>8. CASE Fail
  <2>1. phase' \notin {"applying", "up"}
    BY <1>8 DEF Fail
  <2> QED BY <2>1 DEF Applied, UpIsComplete
<1>9. CASE Stop
  <2>1. phase' \notin {"applying", "up"}
    BY <1>9 DEF Stop
  <2> QED BY <2>1 DEF Applied, UpIsComplete
<1>10. ASSUME NEW m \in Migrations, Install(m) PROVE Applied'
  <2>1. phase' \notin {"applying", "up"}
    BY <1>10 DEF Install
  <2> QED BY <2>1 DEF Applied, UpIsComplete
<1>11. CASE UNCHANGED vars
  BY <1>11 DEF vars, Applied, UpIsComplete
<1> QED
  BY <1>1, <1>2, <1>3, <1>4, <1>5, <1>6, <1>7, <1>8, <1>9, <1>10, <1>11, <1>12
     DEF Next, Startup


LEMMA NextIInv == IInv /\ [Next]_vars => IInv'
<1> SUFFICES ASSUME IInv, [Next]_vars PROVE IInv'
  OBVIOUS
<1> QED BY TypeNext, ListedNext, ResolvedNext, RecordedNext, AppliedNext DEF IInv

-------------------------------------------------------------------------------
(* Theorems *)

\* The inductive invariant holds, for any migrations and whatever fails.
THEOREM Invariant == Spec => []IInv
BY InitIInv, NextIInv, PTL DEF Spec

\* Every variable keeps its type.
THEOREM TypeCorrect == Spec => []TypeOK
<1>1. IInv => TypeOK
  BY DEF IInv
<1> QED BY <1>1, Invariant, PTL

\* A database has no upgrade twice, or before one that it depends on.
THEOREM OrderCorrect == Spec => []InDependencyOrder
<1>1. IInv => InDependencyOrder
  BY DEF IInv, Recorded, Ordered, InDependencyOrder
<1> QED BY <1>1, Invariant, PTL

\* The committed rows of plugin_migrations are those of the committed schema.
THEOREM RecordsCorrect == Spec => []RecordsMatchSchema
<1>1. IInv => RecordsMatchSchema
  BY DEF IInv, Recorded
<1> QED BY <1>1, Invariant, PTL

\* A server that is up has every upgrade that is installed.
THEOREM UpCorrect == Spec => []UpIsComplete
<1>1. IInv => UpIsComplete
  BY DEF IInv, Applied
<1> QED BY <1>1, Invariant, PTL

\* No start whose dependencies cannot be met gets as far as the database.
THEOREM ResolutionCorrect == Spec => []NothingIfUnresolvable
<1>1. IInv => NothingIfUnresolvable
  <2> SUFFICES ASSUME IInv, phase \in {"applying", "up"} PROVE Resolvable
    BY DEF NothingIfUnresolvable
  <2>1. installed = resolved
    BY DEF IInv, Resolved
  <2> QED BY <2>1 DEF IInv, Resolved, Resolvable
<1> QED BY <1>1, Invariant, PTL
===============================================================================
