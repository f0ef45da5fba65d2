------------------------ MODULE PortalConnectionProofs ------------------------
(***************************************************************************)
(* Proofs about PortalConnection, for any plugins that leave core's calls  *)
(* to core's commands, any lines and any life of a token longer than the   *)
(* refresher's poll: the parsers stay in order, tokens are renewed or the  *)
(* connection is ended in time, and a task that raises has a cause that    *)
(* concerns it; and a line reaches one of the commands that it may reach,  *)
(* the same in whatever order the plugins were loaded.                     *)
(***************************************************************************)
EXTENDS PortalConnection, FiniteSetTheorems, SequenceTheorems, TLAPS

-------------------------------------------------------------------------------
(* Numbers and recursion *)

\* A set of numbers that is not empty has a least element: the sets of those up to
\* k, for k in it, are well-founded by inclusion.
LEMMA MinIn == ASSUME NEW S \in SUBSET Nat, S # {}
               PROVE  Min(S) \in S /\ \A n \in S : Min(S) <= n
<1> DEFINE UpTo(k) == {n \in S : n <= k}
<1>1. PICK b \in S : TRUE
  OBVIOUS
<1> DEFINE B == 0 .. b
<1>2. IsWellFoundedOn(StrictSubsetOrdering(B), SUBSET B)
  <2>1. IsFiniteSet(B)
    BY FS_Interval
  <2> QED BY <2>1, FS_FiniteSubsetsOfFinite, FS_StrictSubsetOrderingWellFounded
<1>3. \A k \in S : k <= b => UpTo(k) \subseteq B
  <2> SUFFICES ASSUME NEW k \in S, k <= b, NEW n \in S, n <= k PROVE n \in 0 .. b
    BY Zenon
  <2> QED OBVIOUS
<1>4. \A k \in S, j \in S : j < k => UpTo(j) \subseteq UpTo(k) /\ UpTo(j) # UpTo(k)
  <2> SUFFICES ASSUME NEW k \in S, NEW j \in S, j < k
               PROVE  UpTo(j) \subseteq UpTo(k) /\ UpTo(j) # UpTo(k)
    BY Zenon
  <2>1. \A n \in S : n <= j => n <= k
    OBVIOUS
  <2>2. k <= k /\ ~ (k <= j)
    OBVIOUS
  <2> QED BY <2>1, <2>2, Zenon
<1> HIDE DEF UpTo, B
<1> DEFINE T == {UpTo(k) : k \in {k \in S : k <= b}}
<1>5. T \subseteq SUBSET B /\ T # {}
  <2>1. b <= b
    OBVIOUS
  <2> QED BY <1>3, <2>1
<1>6. PICK A \in T : \A C \in T : ~ (<<C, A>> \in StrictSubsetOrdering(B))
  <2> HIDE DEF T
  <2> QED BY <1>2, <1>5, WFMin
<1>7. PICK m \in S : m <= b /\ A = UpTo(m)
  BY <1>6
<1>8. \A n \in S : m <= n
  <2> SUFFICES ASSUME NEW n \in S, n < m PROVE FALSE
    OBVIOUS
  <2>1. n <= b
    BY <1>7
  <2>2. UpTo(n) \in T
    BY <2>1
  <2> HIDE DEF T
  <2>3. <<UpTo(n), A>> \in StrictSubsetOrdering(B)
    BY <2>2, <1>4, <1>5, <1>6, <1>7 DEF StrictSubsetOrdering
  <2> QED BY <2>2, <2>3, <1>6
<1> QED BY <1>8 DEF Min

\* Induction, for the numbers in a set.
LEMMA Induction ==
  ASSUME NEW T, 0 \in T, \A n \in Nat : n \in T => n + 1 \in T
  PROVE  Nat \subseteq T
<1> DEFINE D == Nat \ T
<1>1. ASSUME D # {} PROVE FALSE
  <2> DEFINE n == Min(D)
  <2>1. D \in SUBSET Nat
    OBVIOUS
  <2>2. n \in D /\ \A m \in D : n <= m
    <3> HIDE DEF D
    <3> QED BY <1>1, <2>1, MinIn
  <2> HIDE DEF n
  <2>3. n \in Nat /\ n # 0
    BY <2>2
  <2>4. n - 1 \in Nat /\ ~ (n <= n - 1) /\ (n - 1) + 1 = n
    BY <2>3
  <2> QED BY <2>2, <2>3, <2>4
<1> QED BY <1>1

Steps(f, N, base, step) ==
  f[0] = base /\ \A n \in 1 .. N : f[n] = step[<<f[n - 1], n>>]

\* A sequence of steps from base, each taken from the last.
LEMMA Recursion ==
  ASSUME NEW N \in Nat, NEW A, NEW base \in A, NEW step \in [A \X (1 .. N) -> A]
  PROVE  \E f \in [0 .. N -> A] : Steps(f, N, base, step)
<1> DEFINE UpTo(f, k) == f[0] = base /\ \A n \in 1 .. k : f[n] = step[<<f[n - 1], n>>]
           T == {k \in Nat : k <= N => \E f \in [0 .. k -> A] : UpTo(f, k)}
<1>1. 0 \in T
  <2> DEFINE f == [n \in 0 .. 0 |-> base]
  <2>1. f \in [0 .. 0 -> A] /\ UpTo(f, 0)
    OBVIOUS
  <2> HIDE DEF f, UpTo
  <2>2. \E g \in [0 .. 0 -> A] : UpTo(g, 0)
    BY <2>1
  <2> QED BY <2>2
<1>2. ASSUME NEW k \in Nat, k \in T PROVE k + 1 \in T
  <2> SUFFICES ASSUME k + 1 <= N PROVE \E g \in [0 .. k + 1 -> A] : UpTo(g, k + 1)
    <3> HIDE DEF UpTo
    <3> QED OBVIOUS
  <2>1. PICK f \in [0 .. k -> A] : UpTo(f, k)
    <3> HIDE DEF UpTo
    <3> QED BY <1>2
  <2> DEFINE g == [n \in 0 .. k + 1 |-> IF n = k + 1 THEN step[<<f[k], k + 1>>] ELSE f[n]]
  <2>2. step[<<f[k], k + 1>>] \in A
    OBVIOUS
  <2>3. g \in [0 .. k + 1 -> A]
    BY <2>2
  <2>4. g[0] = base
    BY <2>1
  <2>5. ASSUME NEW n \in 1 .. k + 1 PROVE g[n] = step[<<g[n - 1], n>>]
    <3>1. CASE n = k + 1
      <4>1. g[n - 1] = f[k] /\ g[n] = step[<<f[k], k + 1>>]
        BY <3>1
      <4> QED BY <3>1, <4>1
    <3>2. CASE n # k + 1
      <4>1. n \in 1 .. k /\ g[n] = f[n] /\ g[n - 1] = f[n - 1]
        BY <3>2
      <4> QED BY <2>1, <4>1
    <3> QED BY <3>1, <3>2
  <2>6. UpTo(g, k + 1)
    BY <2>4, <2>5
  <2> HIDE DEF g, UpTo
  <2> QED BY <2>3, <2>6
<1>3. N \in T
  <2> HIDE DEF T
  <2> QED BY <1>1, <1>2, Induction
<1>4. PICK f \in [0 .. N -> A] : UpTo(f, N)
  BY <1>3
<1> QED BY <1>4 DEF Steps

-------------------------------------------------------------------------------
(* Flattened sequences *)

\* The elements of two sequences together.
LEMMA ConcatRange ==
  ASSUME NEW S, NEW s \in Seq(S), NEW t \in Seq(S)
  PROVE  Range(s \o t) = Range(s) \cup Range(t)
<1> DEFINE st == s \o t
           m == Len(s)
           n == Len(t)
<1>1. /\ st \in Seq(S) /\ Len(st) = m + n
      /\ \A i \in 1 .. m + n : st[i] = IF i <= m THEN s[i] ELSE t[i - m]
  BY ConcatProperties
<1>2. /\ m \in Nat /\ n \in Nat
      /\ DOMAIN s = 1 .. m /\ DOMAIN t = 1 .. n /\ DOMAIN st = 1 .. m + n
  <2>1. DOMAIN st = 1 .. Len(st)
    BY <1>1, LenProperties, Zenon
  <2>2. m \in Nat /\ n \in Nat /\ DOMAIN s = 1 .. m /\ DOMAIN t = 1 .. n
    OBVIOUS
  <2> QED BY <1>1, <2>1, <2>2
<1> HIDE DEF st, m, n
<1>3. ASSUME NEW i \in 1 .. m PROVE s[i] \in Range(st)
  <2>1. i \in 1 .. m + n /\ i <= m
    BY <1>2
  <2> QED BY <1>1, <1>2, <2>1 DEF Range
<1>4. ASSUME NEW i \in 1 .. n PROVE t[i] \in Range(st)
  <2>1. m + i \in 1 .. m + n /\ ~ (m + i <= m) /\ (m + i) - m = i
    BY <1>2
  <2>2. st[m + i] = t[i]
    BY <1>1, <2>1
  <2> QED BY <1>2, <2>1, <2>2 DEF Range
<1>5. ASSUME NEW i \in 1 .. m + n PROVE st[i] \in Range(s) \cup Range(t)
  <2>1. CASE i <= m
    <3>1. i \in 1 .. m
      BY <1>2, <2>1
    <3> QED BY <1>1, <1>2, <2>1, <3>1 DEF Range
  <2>2. CASE ~ (i <= m)
    <3>1. i - m \in 1 .. n
      BY <1>2, <2>2
    <3> QED BY <1>1, <1>2, <2>2, <3>1 DEF Range
  <2> QED BY <2>1, <2>2
<1>6. Range(st) = Range(s) \cup Range(t)
  BY <1>2, <1>3, <1>4, <1>5 DEF Range
<1> QED BY <1>6 DEF st

FlattensUpTo(parts, f) ==
  f[0] = << >> /\ \A n \in 1 .. Len(parts) : f[n] = f[n - 1] \o parts[n]

\* The flattened sequence is built part by part.
LEMMA FlattenTurns ==
  ASSUME NEW S, NEW parts \in Seq(Seq(S))
  PROVE  \E f \in [0 .. Len(parts) -> Seq(S)] :
           FlattensUpTo(parts, f) /\ FlattenSeq(parts) = f[Len(parts)]
<1> DEFINE N == Len(parts)
           step == [x \in Seq(S) \X (1 .. N) |-> x[1] \o parts[x[2]]]
           none == << >>
<1>1. N \in Nat /\ \A n \in 1 .. N : parts[n] \in Seq(S)
  OBVIOUS
<1>2. step \in [Seq(S) \X (1 .. N) -> Seq(S)] /\ none \in Seq(S)
  BY <1>1
<1>3. PICK f \in [0 .. N -> Seq(S)] : Steps(f, N, none, step)
  <2> HIDE DEF N, step, none
  <2> QED BY <1>1, <1>2, Recursion
<1>4. FlattensUpTo(parts, f)
  <2> SUFFICES ASSUME NEW n \in 1 .. N PROVE f[n] = f[n - 1] \o parts[n]
    BY <1>3 DEF FlattensUpTo, Steps
  <2>1. f[n - 1] \in Seq(S)
    OBVIOUS
  <2>2. step[<<f[n - 1], n>>] = f[n - 1] \o parts[n]
    BY <2>1
  <2> QED BY <1>3, <2>2 DEF Steps
<1>5. CASE N = 0
  <2>1. parts = << >>
    BY <1>5
  <2>2. FlattenSeq(parts) = parts
    BY <1>5 DEF FlattenSeq
  <2>3. f[0] = << >>
    BY <1>4 DEF FlattensUpTo
  <2> QED BY <1>4, <1>5, <2>1, <2>2, <2>3
<1>6. CASE N # 0
  <2> DEFINE IsFlat(g) ==
               g = [i \in 1 .. Len(parts) |->
                      IF i = 1 THEN parts[i] ELSE g[i - 1] \o parts[i]]
             h == CHOOSE g : IsFlat(g)
             g0 == [i \in 1 .. N |-> f[i]]
  <2>1. FlattenSeq(parts) = h[N]
    BY <1>6 DEF FlattenSeq
  <2>2. IsFlat(g0)
    <3>1. ASSUME NEW i \in 1 .. N
          PROVE  f[i] = IF i = 1 THEN parts[i] ELSE g0[i - 1] \o parts[i]
      <4>1. CASE i = 1
        <5>1. f[1] = none \o parts[1] /\ parts[1] \in Seq(S)
          <6>1. 1 \in 1 .. N /\ 1 - 1 = 0
            BY <3>1, <4>1
          <6>2. f[1] = f[1 - 1] \o parts[1] /\ f[0] = none
            BY <1>4, <6>1 DEF FlattensUpTo
          <6>3. parts[1] \in Seq(S)
            BY <1>1, <6>1
          <6> HIDE DEF none
          <6> QED BY <6>1, <6>2, <6>3
        <5>2. none \o parts[1] = parts[1]
          BY <5>1, ConcatEmptySeq
        <5> QED BY <4>1, <5>1, <5>2
      <4>2. CASE i # 1
        <5>1. g0[i - 1] = f[i - 1]
          BY <4>2
        <5> QED BY <1>4, <4>2, <5>1 DEF FlattensUpTo
      <4> QED BY <4>1, <4>2
    <3> QED BY <3>1
  <2>3. IsFlat(h)
    <3> HIDE DEF IsFlat, g0
    <3> QED BY <2>2
  <2> DEFINE T == {k \in Nat : k + 1 <= N => h[k + 1] = f[k + 1]}
  <2>4. \A i \in 1 .. N : h[i] = IF i = 1 THEN parts[i] ELSE h[i - 1] \o parts[i]
    <3> HIDE DEF h
    <3> QED BY <2>3
  <2>5. \A i \in 1 .. N : f[i] = IF i = 1 THEN parts[i] ELSE f[i - 1] \o parts[i]
    <3>1. \A i \in 1 .. N : g0[i] = IF i = 1 THEN parts[i] ELSE g0[i - 1] \o parts[i]
      <4> HIDE DEF g0
      <4> QED BY <2>2
    <3>2. \A i \in 1 .. N : g0[i] = f[i] /\ (i # 1 => g0[i - 1] = f[i - 1])
      BY <1>1
    <3> HIDE DEF g0, N
    <3> QED BY <3>1, <3>2
  <2> HIDE DEF h, IsFlat, g0
  <2>6. 0 \in T
    BY <1>1, <2>4, <2>5
  <2>7. ASSUME NEW k \in Nat, k \in T PROVE k + 1 \in T
    <3> SUFFICES ASSUME (k + 1) + 1 <= N PROVE h[(k + 1) + 1] = f[(k + 1) + 1]
      OBVIOUS
    <3> DEFINE i == k + 2
    <3>1. i \in 1 .. N /\ i # 1 /\ i - 1 = k + 1 /\ (k + 1) + 1 = i
      BY <1>1
    <3>2. h[k + 1] = f[k + 1]
      BY <1>1, <2>7
    <3> HIDE DEF i, N
    <3> QED BY <2>4, <2>5, <3>1, <3>2
  <2>8. Nat \subseteq T
    <3> HIDE DEF T
    <3> QED BY <2>6, <2>7, Induction
  <2>9. N - 1 \in Nat /\ (N - 1) + 1 = N
    BY <1>1, <1>6
  <2>10. h[N] = f[N]
    <3>1. N - 1 \in T
      BY <2>8, <2>9, Zenon
    <3>2. h[(N - 1) + 1] = f[(N - 1) + 1]
      BY <2>9, <3>1
    <3> HIDE DEF N
    <3> QED BY <2>9, <3>2
  <2> QED BY <1>4, <2>1, <2>10
<1> QED BY <1>5, <1>6

\* A sequence of sequences of S is flattened to a sequence of S.
LEMMA FlattenType ==
  ASSUME NEW S, NEW parts \in Seq(Seq(S))
  PROVE  FlattenSeq(parts) \in Seq(S)
<1>1. PICK f \in [0 .. Len(parts) -> Seq(S)] : FlattenSeq(parts) = f[Len(parts)]
  BY FlattenTurns, SMTT(30)
<1>2. Len(parts) \in 0 .. Len(parts)
  OBVIOUS
<1> QED BY <1>1, <1>2

\* The elements of a flattened sequence are those of its parts.
LEMMA FlattenedUpTo ==
  ASSUME NEW S, NEW parts \in Seq(Seq(S)), NEW f \in [0 .. Len(parts) -> Seq(S)],
         FlattensUpTo(parts, f), NEW n \in 0 .. Len(parts)
  PROVE  \A c : c \in Range(f[n]) <=> \E i \in 1 .. n : c \in Range(parts[i])
<1> DEFINE Same(k) == \A c : c \in Range(f[k]) <=> \E i \in 1 .. k : c \in Range(parts[i])
           T == {k \in Nat : k <= Len(parts) => Same(k)}
<1>1. 0 \in T
  <2>1. f[0] = << >>
    BY DEF FlattensUpTo
  <2>2. Range(f[0]) = {}
    BY <2>1 DEF Range
  <2> QED BY <2>2
<1>2. ASSUME NEW k \in Nat, k \in T PROVE k + 1 \in T
  <2> SUFFICES ASSUME k + 1 <= Len(parts) PROVE Same(k + 1)
    OBVIOUS
  <2>1. k + 1 \in 1 .. Len(parts) /\ (k + 1) - 1 = k /\ k \in 0 .. Len(parts)
    OBVIOUS
  <2>2. f[k + 1] = f[k] \o parts[k + 1] /\ f[k] \in Seq(S) /\ parts[k + 1] \in Seq(S)
    <3>1. f[k + 1] = f[(k + 1) - 1] \o parts[k + 1]
      BY <2>1 DEF FlattensUpTo
    <3>2. f[k] \in Seq(S)
      BY <2>1
    <3>3. parts[k + 1] \in Seq(S)
      BY <2>1, ElementOfSeq
    <3> QED BY <2>1, <3>1, <3>2, <3>3
  <2>3. Range(f[k + 1]) = Range(f[k]) \cup Range(parts[k + 1])
    BY <2>2, ConcatRange
  <2>4. Same(k)
    BY <1>2, <2>1
  <2>5. \A i : i \in 1 .. k + 1 <=> i \in 1 .. k \/ i = k + 1
    OBVIOUS
  <2> QED BY <2>3, <2>4, <2>5
<1>3. n \in T
  <2> HIDE DEF T
  <2>1. n \in Nat
    OBVIOUS
  <2> QED BY <1>1, <1>2, <2>1, Induction
<1> QED BY <1>3

\* Nothing is lost, and nothing added.
LEMMA FlattenRange ==
  ASSUME NEW S, NEW parts \in Seq(Seq(S))
  PROVE  \A c : c \in Range(FlattenSeq(parts)) <=>
               \E i \in 1 .. Len(parts) : c \in Range(parts[i])
<1>1. PICK f \in [0 .. Len(parts) -> Seq(S)] :
        FlattensUpTo(parts, f) /\ FlattenSeq(parts) = f[Len(parts)]
  BY FlattenTurns
<1>2. Len(parts) \in 0 .. Len(parts)
  OBVIOUS
<1>3. \A c : c \in Range(f[Len(parts)]) <=> \E i \in 1 .. Len(parts) : c \in Range(parts[i])
  <2> DEFINE n == Len(parts)
  <2>1. n \in 0 .. Len(parts) /\ FlattensUpTo(parts, f)
    BY <1>1, <1>2
  <2> HIDE DEF n
  <2>2. \A c : c \in Range(f[n]) <=> \E i \in 1 .. n : c \in Range(parts[i])
    BY <2>1, FlattenedUpTo, SMTT(30)
  <2> QED BY <2>2 DEF n
<1> QED BY <1>1, <1>3

Ordered(s, R) == \A i, j \in 1 .. Len(s) : i < j => <<s[i], s[j]>> \in R
Before(s, t, R) == \A c \in Range(s), d \in Range(t) : <<c, d>> \in R

\* Two sequences in order, one before the other, are in order together.
LEMMA ConcatOrder ==
  ASSUME NEW S, NEW R, NEW s \in Seq(S), NEW t \in Seq(S),
         Ordered(s, R), Ordered(t, R), Before(s, t, R)
  PROVE  Ordered(s \o t, R)
<1> DEFINE st == s \o t
           m == Len(s)
           n == Len(t)
<1>1. /\ Len(st) = m + n
      /\ \A i \in 1 .. m + n : st[i] = IF i <= m THEN s[i] ELSE t[i - m]
  BY ConcatProperties
<1>2. /\ m \in Nat /\ n \in Nat
      /\ \A i \in 1 .. m : s[i] \in Range(s)
      /\ \A i \in 1 .. n : t[i] \in Range(t)
  BY DEF Range
<1>3. /\ \A i, j \in 1 .. m : i < j => <<s[i], s[j]>> \in R
      /\ \A i, j \in 1 .. n : i < j => <<t[i], t[j]>> \in R
  BY DEF Ordered
<1> HIDE DEF st, m, n
<1>4. ASSUME NEW i \in 1 .. m + n, NEW j \in 1 .. m + n, i < j PROVE <<st[i], st[j]>> \in R
  <2>1. CASE j <= m
    <3>1. i \in 1 .. m /\ j \in 1 .. m /\ i <= m
      BY <1>2, <1>4, <2>1
    <3>2. st[i] = s[i] /\ st[j] = s[j]
      BY <1>1, <2>1, <3>1
    <3> QED BY <1>3, <1>4, <3>1, <3>2
  <2>2. CASE i <= m /\ ~ (j <= m)
    <3>1. i \in 1 .. m /\ j - m \in 1 .. n
      BY <1>2, <1>4, <2>2
    <3>2. st[i] = s[i] /\ st[j] = t[j - m]
      BY <1>1, <2>2
    <3> QED BY <1>2, <3>1, <3>2 DEF Before
  <2>3. CASE ~ (i <= m)
    <3>1. i - m \in 1 .. n /\ j - m \in 1 .. n /\ i - m < j - m /\ ~ (j <= m)
      BY <1>2, <1>4, <2>3
    <3>2. st[i] = t[i - m] /\ st[j] = t[j - m]
      BY <1>1, <2>3, <3>1
    <3> QED BY <1>3, <3>1, <3>2
  <2> QED BY <2>1, <2>2, <2>3
<1>5. Ordered(st, R)
  BY <1>1, <1>4 DEF Ordered
<1> QED BY <1>5 DEF st

\* Parts that are ordered, and before one another, are ordered together.
LEMMA FlattenOrder ==
  ASSUME NEW S, NEW R, NEW parts \in Seq(Seq(S)),
         \A i \in 1 .. Len(parts) : Ordered(parts[i], R),
         \A i, j \in 1 .. Len(parts) : i < j => Before(parts[i], parts[j], R)
  PROVE  Ordered(FlattenSeq(parts), R)
<1>1. PICK f \in [0 .. Len(parts) -> Seq(S)] :
        FlattensUpTo(parts, f) /\ FlattenSeq(parts) = f[Len(parts)]
  BY FlattenTurns
<1> DEFINE T == {k \in Nat : k <= Len(parts) => Ordered(f[k], R)}
<1>2. 0 \in T
  <2>1. Ordered(<< >>, R)
    BY DEF Ordered
  <2>2. f[0] = << >>
    BY <1>1 DEF FlattensUpTo
  <2> QED BY <2>1, <2>2
<1>3. ASSUME NEW k \in Nat, k \in T PROVE k + 1 \in T
  <2> SUFFICES ASSUME k + 1 <= Len(parts) PROVE Ordered(f[k + 1], R)
    OBVIOUS
  <2>1. k + 1 \in 1 .. Len(parts) /\ (k + 1) - 1 = k /\ k \in 0 .. Len(parts)
    OBVIOUS
  <2>2. f[k] \in Seq(S)
    BY <2>1
  <2>3. parts[k + 1] \in Seq(S)
    BY <2>1, ElementOfSeq
  <2>4. f[k + 1] = f[k] \o parts[k + 1]
    <3>1. f[k + 1] = f[(k + 1) - 1] \o parts[k + 1]
      BY <1>1, <2>1 DEF FlattensUpTo
    <3> QED BY <2>1, <3>1
  <2>5. \A c : c \in Range(f[k]) <=> \E i \in 1 .. k : c \in Range(parts[i])
    BY <1>1, <2>1, FlattenedUpTo
  <2>6. Before(f[k], parts[k + 1], R)
    <3> SUFFICES ASSUME NEW c \in Range(f[k]), NEW d \in Range(parts[k + 1])
                 PROVE  <<c, d>> \in R
      BY DEF Before
    <3>1. PICK i \in 1 .. k : c \in Range(parts[i])
      BY <2>5
    <3>2. i \in 1 .. Len(parts) /\ i < k + 1
      BY <2>1
    <3>3. Before(parts[i], parts[k + 1], R)
      BY <2>1, <3>2
    <3> QED BY <3>1, <3>3 DEF Before
  <2>7. Ordered(f[k], R) /\ Ordered(parts[k + 1], R)
    BY <1>3, <2>1
  <2>8. Ordered(f[k] \o parts[k + 1], R)
    BY <2>2, <2>3, <2>6, <2>7, ConcatOrder
  <2> QED BY <2>4, <2>8
<1>4. Len(parts) \in T
  <2> HIDE DEF T
  <2>1. Len(parts) \in Nat
    OBVIOUS
  <2> QED BY <1>2, <1>3, <2>1, Induction
<1> QED BY <1>1, <1>4

-------------------------------------------------------------------------------
(* Sorted numbers *)

\* How many of the numbers are below k.
Rank(numbers, k) == Cardinality({j \in numbers : j < k})

\* A greater number has a greater rank.
LEMMA RankGrows ==
  ASSUME NEW N \in SUBSET Int, IsFiniteSet(N), NEW k \in N, NEW l \in N, k < l
  PROVE  Rank(N, k) < Rank(N, l)
<1> DEFINE A == {j \in N : j < k}
           B == {j \in N : j < l}
<1>1. A \subseteq B /\ k \in B /\ k \notin A /\ B \subseteq N
  <2>1. \A j \in N : j < k => j < l
    OBVIOUS
  <2>2. k < l /\ ~ (k < k)
    OBVIOUS
  <2> QED BY <2>1, <2>2, Zenon
<1> HIDE DEF A, B
<1>2. IsFiniteSet(B)
  BY <1>1, FS_Subset
<1>3. /\ IsFiniteSet(A) /\ Cardinality(A) <= Cardinality(B)
      /\ Cardinality(B) = Cardinality(A) => B = A
  BY <1>1, <1>2, FS_Subset
<1>4. Cardinality(A) \in Nat /\ Cardinality(B) \in Nat
  BY <1>2, <1>3, FS_CardinalityType
<1>5. Cardinality(A) < Cardinality(B)
  BY <1>1, <1>3, <1>4
<1> QED BY <1>5 DEF Rank, A, B

\* Every number has a rank of its own, and every rank its number.
LEMMA RankOnto ==
  ASSUME NEW N \in SUBSET Int, IsFiniteSet(N)
  PROVE  /\ Cardinality(N) \in Nat
         /\ \A k \in N : Rank(N, k) \in 0 .. Cardinality(N) - 1
         /\ \A r \in 0 .. Cardinality(N) - 1 : \E k \in N : Rank(N, k) = r
<1> DEFINE C == Cardinality(N)
           rank == [k \in N |-> Rank(N, k)]
<1>1. C \in Nat
  BY FS_CardinalityType
<1>2. ASSUME NEW k \in N PROVE Rank(N, k) \in 0 .. C - 1
  <2> DEFINE A == {j \in N : j < k}
  <2>1. A \subseteq N /\ k \notin A
    OBVIOUS
  <2> HIDE DEF A
  <2>2. IsFiniteSet(A) /\ Cardinality(A) <= C /\ (C = Cardinality(A) => N = A)
    BY <2>1, FS_Subset
  <2>3. Cardinality(A) \in Nat
    BY <2>2, FS_CardinalityType
  <2>4. Cardinality(A) # C
    BY <2>1, <2>2
  <2>5. Cardinality(A) \in 0 .. C - 1
    <3> HIDE DEF C
    <3> QED BY <1>1, <2>2, <2>3, <2>4
  <2> QED BY <2>5 DEF A, Rank
<1>3. ASSUME NEW k \in N, NEW l \in N, Rank(N, k) = Rank(N, l) PROVE k = l
  <2>1. Rank(N, k) \in Int /\ Rank(N, l) \in Int
    BY <1>2
  <2>2. ~ (k < l) /\ ~ (l < k)
    BY <1>3, <2>1, RankGrows
  <2> QED BY <2>2
<1>4. IsFiniteSet(0 .. C - 1) /\ Cardinality(0 .. C - 1) = C
  <2>1. C - 1 \in Int /\ (C - 1) - 0 + 1 = C /\ (0 > C - 1 => C = 0)
    BY <1>1
  <2> HIDE DEF C
  <2> QED BY <2>1, FS_Interval
<1>5. rank \in Injection(N, 0 .. C - 1)
  <2>1. rank \in [N -> 0 .. C - 1]
    BY <1>2
  <2>2. \A k, l \in N : rank[k] = rank[l] => k = l
    BY <1>3
  <2> HIDE DEF rank, C
  <2> QED BY <2>1, <2>2 DEF Injection, IsInjective
<1>6. rank \in Surjection(N, 0 .. C - 1)
  <2> HIDE DEF rank
  <2> QED BY <1>4, <1>5, FS_Injection
<1>7. \A r \in 0 .. C - 1 : \E k \in N : rank[k] = r
  <2> HIDE DEF rank
  <2> QED BY <1>6 DEF Surjection
<1> QED BY <1>1, <1>2, <1>7

\* What Ascending returns.
LEMMA AscendingSorts ==
  ASSUME NEW N \in SUBSET Int, IsFiniteSet(N)
  PROVE  /\ Ascending(N) \in Seq(N)
         /\ Len(Ascending(N)) = Cardinality(N) /\ Cardinality(N) \in Nat
         /\ \A k \in N : \E n \in 1 .. Cardinality(N) : Ascending(N)[n] = k
         /\ \A m, n \in 1 .. Cardinality(N) : m < n => Ascending(N)[m] < Ascending(N)[n]
<1> DEFINE C == Cardinality(N)
           Nth(n) == CHOOSE k \in N : Rank(N, k) = n - 1
<1>1. Ascending(N) = [n \in 1 .. C |-> Nth(n)]
  BY DEF Ascending, Rank
<1>2. C \in Nat
  BY RankOnto
<1>3. ASSUME NEW n \in 1 .. C PROVE Nth(n) \in N /\ Rank(N, Nth(n)) = n - 1
  <2>1. n - 1 \in 0 .. C - 1
    BY <1>2
  <2>2. \E k \in N : Rank(N, k) = n - 1
    BY <2>1, RankOnto
  <2> QED BY <2>2
<1> HIDE DEF Nth
<1>4. Ascending(N) \in Seq(N) /\ Len(Ascending(N)) = C
  <2> HIDE DEF C
  <2> QED BY <1>1, <1>2, <1>3
<1>5. ASSUME NEW k \in N PROVE \E n \in 1 .. C : Ascending(N)[n] = k
  <2> DEFINE n == Rank(N, k) + 1
  <2>1. n \in 1 .. C /\ n - 1 = Rank(N, k)
    <3>1. Rank(N, k) \in 0 .. C - 1
      BY RankOnto
    <3> HIDE DEF C
    <3> QED BY <1>2, <3>1
  <2> HIDE DEF n
  <2>2. Nth(n) \in N /\ Rank(N, Nth(n)) = Rank(N, k)
    BY <1>3, <2>1
  <2>3. Nth(n) = k
    <3>1. Rank(N, k) \in Int /\ Nth(n) \in Int /\ k \in Int
      <4>1. Rank(N, k) \in 0 .. C - 1 /\ k \in Int
        BY RankOnto
      <4>2. Nth(n) \in Int
        BY <2>2
      <4> HIDE DEF C
      <4> QED BY <1>2, <4>1, <4>2
    <3>2. ~ (Nth(n) < k) /\ ~ (k < Nth(n))
      BY <2>2, <3>1, RankGrows
    <3> QED BY <3>1, <3>2
  <2> QED BY <1>1, <2>1, <2>3
<1>6. ASSUME NEW m \in 1 .. C, NEW n \in 1 .. C, m < n PROVE Nth(m) < Nth(n)
  <2>1. /\ Nth(m) \in N /\ Rank(N, Nth(m)) = m - 1
        /\ Nth(n) \in N /\ Rank(N, Nth(n)) = n - 1
    BY <1>3
  <2>0. Nth(m) \in Int /\ Nth(n) \in Int
    BY <2>1
  <2>2. Nth(m) # Nth(n)
    BY <1>6, <2>1
  <2>3. ~ (Nth(n) < Nth(m))
    <3>1. ASSUME Nth(n) < Nth(m) PROVE FALSE
      <4>1. Rank(N, Nth(n)) < Rank(N, Nth(m))
        BY <2>1, <3>1, RankGrows
      <4> QED BY <1>6, <2>1, <4>1
    <3> QED BY <3>1
  <2> HIDE DEF C
  <2> QED BY <2>0, <2>2, <2>3
<1> QED BY <1>1, <1>2, <1>4, <1>5, <1>6

-------------------------------------------------------------------------------
(* The registry *)

\* The last of a sequence of commands that have i's key.
Newest(all, i) == \A j \in DOMAIN all : all[j].key = all[i].key => j <= i

\* The dictionary has, for every key, the command registered last.
IsRegistry(registered, all) ==
  /\ registered = [key \in DOMAIN registered |-> registered[key]]
  /\ IsFiniteSet(DOMAIN registered)
  /\ \A i \in DOMAIN all : all[i].key \in DOMAIN registered
  /\ \A key \in DOMAIN registered :
       \E i \in DOMAIN all : /\ Newest(all, i)
                             /\ all[i].key = key /\ registered[key] = all[i]

\* It stays so when one more command is registered.
LEMMA RegisterNewest ==
  ASSUME NEW C, NEW all \in Seq(C), NEW c \in C, NEW registered, IsRegistry(registered, all)
  PROVE  IsRegistry(Register(registered, c), Append(all, c))
<1> DEFINE n == Len(all)
           more == Append(all, c)
           next == Register(registered, c)
<1>1. /\ n \in Nat /\ DOMAIN all = 1 .. n /\ DOMAIN more = 1 .. n + 1
      /\ more[n + 1] = c /\ \A i \in 1 .. n : more[i] = all[i]
  OBVIOUS
<1>2. /\ DOMAIN next = DOMAIN registered \cup {c.key} /\ next[c.key] = c
      /\ \A key \in DOMAIN registered : key # c.key => next[key] = registered[key]
  BY DEF Register
<1>a. next = [key \in DOMAIN next |-> next[key]]
  BY DEF Register
<1> HIDE DEF n, more, next
<1>3. IsFiniteSet(DOMAIN next)
  <2> DEFINE D == DOMAIN registered
             k == c.key
  <2>1. IsFiniteSet(D) /\ DOMAIN next = D \cup {k}
    BY <1>2 DEF IsRegistry
  <2> HIDE DEF D, k
  <2>2. IsFiniteSet(D \cup {k})
    BY <2>1, FS_AddElement
  <2> QED BY <2>1, <2>2
<1>4. \A i \in DOMAIN more : more[i].key \in DOMAIN next
  <2> SUFFICES ASSUME NEW i \in 1 .. n + 1 PROVE more[i].key \in DOMAIN next
    BY <1>1
  <2>1. CASE i = n + 1
    BY <1>1, <1>2, <2>1
  <2>2. CASE i # n + 1
    <3>1. i \in 1 .. n
      BY <1>1, <2>2
    <3> QED BY <1>1, <1>2, <3>1 DEF IsRegistry
  <2> QED BY <2>1, <2>2
<1>5. ASSUME NEW key \in DOMAIN next
      PROVE  \E i \in DOMAIN more : /\ Newest(more, i)
                                    /\ more[i].key = key /\ next[key] = more[i]
  <2>1. CASE key = c.key
    <3>1. n + 1 \in DOMAIN more /\ Newest(more, n + 1)
      BY <1>1 DEF Newest
    <3> QED BY <1>1, <1>2, <2>1, <3>1
  <2>2. CASE key # c.key
    <3>1. key \in DOMAIN registered
      BY <1>2, <2>2
    <3>2. PICK i \in DOMAIN all : /\ Newest(all, i)
                                  /\ all[i].key = key /\ registered[key] = all[i]
      BY <3>1 DEF IsRegistry
    <3>3. i \in 1 .. n + 1 /\ i \in DOMAIN more /\ more[i] = all[i]
      BY <1>1, <3>2
    <3>4. ASSUME NEW j \in DOMAIN more, more[j].key = more[i].key PROVE j <= i
      <4>1. j # n + 1
        BY <1>1, <2>2, <3>2, <3>3, <3>4
      <4>2. j \in DOMAIN all /\ more[j] = all[j]
        BY <1>1, <4>1
      <4> QED BY <3>2, <3>3, <3>4, <4>2 DEF Newest
    <3>5. Newest(more, i)
      BY <3>4 DEF Newest
    <3> QED BY <1>2, <2>2, <3>1, <3>2, <3>3, <3>5
  <2> QED BY <2>1, <2>2
<1>6. IsRegistry(next, more)
  BY <1>a, <1>3, <1>4, <1>5 DEF IsRegistry
<1> QED BY <1>6 DEF next, more

\* What Registered returns.
LEMMA RegisteredNewest ==
  ASSUME NEW C, NEW plugins \in Seq(Seq(C))
  PROVE  IsRegistry(Registered(plugins), FlattenSeq(plugins))
<1> DEFINE all == FlattenSeq(plugins)
           N == Len(all)
           Keys == {c.key : c \in C}
           A == UNION {[K -> C] : K \in SUBSET Keys}
           step == [x \in A \X (1 .. N) |-> Register(x[1], all[x[2]])]
           none == << >>
<1>1. all \in Seq(C)
  BY FlattenType
<1> HIDE DEF all
<1>2. N \in Nat /\ \A n \in 1 .. N : all[n] \in C
  BY <1>1
<1>3. none \in A
  <2>1. none \in [{} -> C]
    OBVIOUS
  <2> QED BY <2>1
<1>4. ASSUME NEW r \in A, NEW c \in C PROVE Register(r, c) \in A
  <2>1. PICK K \in SUBSET Keys : r \in [K -> C]
    OBVIOUS
  <2>2. K \cup {c.key} \in SUBSET Keys
    OBVIOUS
  <2>3. Register(r, c) \in [K \cup {c.key} -> C]
    <3> HIDE DEF Keys, A
    <3> QED BY <2>1 DEF Register
  <2> HIDE DEF Keys
  <2> QED BY <2>2, <2>3
<1>5. step \in [A \X (1 .. N) -> A]
  <2> HIDE DEF A, N
  <2> QED BY <1>2, <1>4
<1>6. PICK f \in [0 .. N -> A] : Steps(f, N, none, step)
  <2> HIDE DEF A, N, step, none
  <2> QED BY <1>2, <1>3, <1>5, Recursion
<1>7. /\ f[0] = << >>
      /\ \A n \in 1 .. N : f[n] = Register(f[n - 1], all[n])
  <2>1. ASSUME NEW n \in 1 .. N PROVE f[n] = Register(f[n - 1], all[n])
    <3>1. f[n - 1] \in A
      <4>1. n - 1 \in 0 .. N
        BY <1>2
      <4> HIDE DEF A, N
      <4> QED BY <4>1
    <3>2. step[<<f[n - 1], n>>] = Register(f[n - 1], all[n])
      <4> HIDE DEF A
      <4> QED BY <3>1
    <3> HIDE DEF A, step
    <3> QED BY <1>6, <3>2 DEF Steps
  <2>2. f[0] = << >>
    BY <1>6 DEF Steps
  <2> QED BY <2>1, <2>2
<1> HIDE DEF A, step, none
<1> DEFINE Turn(g, n) == IF n = 0 THEN << >> ELSE Register(g[n - 1], all[n])
           IsRegistered(g) == g = [n \in 0 .. N |-> Turn(g, n)]
           h == CHOOSE g : IsRegistered(g)
<1>8. Registered(plugins) = h[N]
  BY DEF Registered, all
<1>9. IsRegistered(h)
  <2>1. \A n \in 0 .. N : f[n] = Turn(f, n)
    BY <1>2, <1>7
  <2>2. f = [n \in 0 .. N |-> f[n]]
    OBVIOUS
  <2>3. IsRegistered(f)
    <3> HIDE DEF Turn, N
    <3> QED BY <2>1, <2>2
  <2> HIDE DEF IsRegistered
  <2> QED BY <2>3
<1>10. \A n \in 0 .. N : h[n] = Turn(h, n)
  <2> HIDE DEF h, Turn, N
  <2> QED BY <1>9
<1> HIDE DEF h
\* Of the first n commands: the dictionary after them.
<1> DEFINE first(n) == SubSeq(all, 1, n)
           T == {n \in Nat : n <= N => IsRegistry(h[n], first(n))}
<1>11. 0 \in T
  <2>1. h[0] = << >>
    BY <1>2, <1>10
  <2>2. first(0) = << >>
    BY <1>1
  <2>3. /\ DOMAIN << >> = {} /\ IsFiniteSet({})
        /\ << >> = [key \in DOMAIN << >> |-> << >>[key]]
    BY FS_EmptySet
  <2>4. IsRegistry(<< >>, << >>)
    BY <2>3 DEF IsRegistry
  <2> QED BY <2>1, <2>2, <2>4
<1>12. ASSUME NEW n \in Nat, n \in T PROVE n + 1 \in T
  <2> SUFFICES ASSUME n + 1 <= N PROVE IsRegistry(h[n + 1], first(n + 1))
    OBVIOUS
  <2>1. n + 1 \in 1 .. N /\ n + 1 \in 0 .. N /\ (n + 1) - 1 = n /\ n + 1 # 0
    BY <1>2
  <2>2. h[n + 1] = Register(h[n], all[n + 1])
    <3>1. h[n + 1] = Turn(h, n + 1)
      BY <1>10, <2>1
    <3> HIDE DEF N
    <3> QED BY <2>1, <3>1
  <2>3. first(n + 1) = Append(first(n), all[n + 1])
    BY <1>1, <2>1
  <2>4. first(n) \in Seq(C) /\ all[n + 1] \in C
    BY <1>1, <1>2, <2>1
  <2>5. IsRegistry(h[n], first(n))
    BY <1>2, <1>12
  <2> HIDE DEF first
  <2>6. IsRegistry(Register(h[n], all[n + 1]), Append(first(n), all[n + 1]))
    BY <2>4, <2>5, RegisterNewest
  <2> QED BY <2>2, <2>3, <2>6
<1>13. N \in T
  <2> HIDE DEF T
  <2> QED BY <1>2, <1>11, <1>12, Induction
<1>14. first(N) = all
  BY <1>1
<1>15. IsRegistry(h[N], all)
  <2>1. IsRegistry(h[N], first(N))
    <3> HIDE DEF N, first
    <3> QED BY <1>2, <1>13
  <2> HIDE DEF N, first
  <2> QED BY <1>14, <2>1
<1> QED BY <1>8, <1>15 DEF all

-------------------------------------------------------------------------------
(* The order of the registry *)

\* Whether the first of two commands comes first.
Earlier(c, d) == c.priority < d.priority \/ (c.priority = d.priority /\ c.key < d.key)

\* What is known of a dictionary of commands.
IsDictionary(registered, C) ==
  /\ IsFiniteSet(DOMAIN registered)
  /\ \A key \in DOMAIN registered :
       registered[key] \in C /\ registered[key].key = key
  /\ \A c \in C : c.key \in Nat /\ c.priority \in Int

\* The priorities, each once, from the least.
LEMMA PrioritiesSorted ==
  ASSUME NEW C, NEW registered, IsDictionary(registered, C)
  PROVE  LET priorities == Priorities(registered) IN
         /\ priorities \in Seq(Int)
         /\ \A key \in DOMAIN registered :
              \E n \in 1 .. Len(priorities) : priorities[n] = registered[key].priority
         /\ \A m, n \in 1 .. Len(priorities) : m < n => priorities[m] < priorities[n]
<1> DEFINE D == DOMAIN registered
           Has(key) == registered[key].priority
           N == {Has(key) : key \in D}
           of == [key \in D |-> Has(key)]
<1>1. N \in SUBSET Int
  BY DEF IsDictionary
<1>2. IsFiniteSet(D)
  BY DEF IsDictionary
<1>3. of \in Surjection(D, N)
  <2> HIDE DEF Has
  <2> QED BY DEF Surjection
<1>4. Priorities(registered) = Ascending(N)
  BY DEF Priorities
<1> HIDE DEF of
<1>5. IsFiniteSet(N)
  <2> HIDE DEF N, D
  <2> QED BY <1>2, <1>3, FS_Surjection
<1>6. \A key \in D : Has(key) \in N
  OBVIOUS
<1> HIDE DEF N
<1>7. /\ Ascending(N) \in Seq(N)
      /\ Len(Ascending(N)) = Cardinality(N) /\ Cardinality(N) \in Nat
      /\ \A k \in N : \E n \in 1 .. Cardinality(N) : Ascending(N)[n] = k
      /\ \A m, n \in 1 .. Cardinality(N) : m < n => Ascending(N)[m] < Ascending(N)[n]
  BY <1>1, <1>5, AscendingSorts
<1>8. Ascending(N) \in Seq(Int)
  BY <1>1, <1>7, SeqMonotonic
<1> QED BY <1>4, <1>6, <1>7, <1>8

\* The commands of one priority, from the least key.
LEMMA ListSorted ==
  ASSUME NEW C, NEW registered, IsDictionary(registered, C), NEW p
  PROVE  LET list == WithPriority(registered, p) IN
         /\ list \in Seq(C)
         /\ \A c : c \in Range(list) <=>
              \E key \in DOMAIN registered : c = registered[key] /\ c.priority = p
         /\ \A m, n \in 1 .. Len(list) : m < n => Earlier(list[m], list[n])
<1> DEFINE D == DOMAIN registered
           N == {key \in D : registered[key].priority = p}
           keys == Ascending(N)
           K == Cardinality(N)
           list == [n \in DOMAIN keys |-> registered[keys[n]]]
<1>1. N \in SUBSET D /\ N \in SUBSET Int
  BY DEF IsDictionary
<1>2. IsFiniteSet(N)
  <2> HIDE DEF N
  <2> QED BY <1>1, FS_Subset DEF IsDictionary
<1>3. \A key \in N : /\ key \in D /\ registered[key] \in C /\ registered[key].key = key
                     /\ registered[key].priority = p /\ key \in Int
  BY <1>1 DEF IsDictionary
<1>4. \A key \in D : registered[key].priority = p => key \in N
  OBVIOUS
<1>5. WithPriority(registered, p) = list
  BY DEF WithPriority
<1> HIDE DEF N
<1>6. /\ keys \in Seq(N) /\ Len(keys) = K /\ K \in Nat
      /\ \A k \in N : \E n \in 1 .. K : keys[n] = k
      /\ \A m, n \in 1 .. K : m < n => keys[m] < keys[n]
  BY <1>1, <1>2, AscendingSorts
<1> HIDE DEF keys, K
<1>7. DOMAIN keys = 1 .. K /\ \A n \in 1 .. K : keys[n] \in N
  BY <1>6
<1>8. list \in Seq(C) /\ Len(list) = K /\ DOMAIN list = 1 .. K
  BY <1>3, <1>6, <1>7
<1>9. \A n \in 1 .. K : list[n] = registered[keys[n]]
  BY <1>7
<1> HIDE DEF list
<1>10. ASSUME NEW c
       PROVE  c \in Range(list) <=> \E key \in D : c = registered[key] /\ c.priority = p
  <2>1. ASSUME c \in Range(list) PROVE \E key \in D : c = registered[key] /\ c.priority = p
    <3>1. PICK n \in 1 .. K : c = registered[keys[n]]
      BY <1>8, <1>9, <2>1 DEF Range
    <3> QED BY <1>3, <1>7, <3>1
  <2>2. ASSUME NEW key \in D, c = registered[key], c.priority = p PROVE c \in Range(list)
    <3>1. key \in N
      BY <1>4, <2>2
    <3>2. PICK n \in 1 .. K : keys[n] = key
      BY <1>6, <3>1
    <3> QED BY <1>8, <1>9, <2>2, <3>2 DEF Range
  <2> QED BY <2>1, <2>2
<1>11. ASSUME NEW m \in 1 .. K, NEW n \in 1 .. K, m < n PROVE Earlier(list[m], list[n])
  <2>1. keys[m] < keys[n] /\ keys[m] \in N /\ keys[n] \in N
    BY <1>6, <1>7, <1>11
  <2> QED BY <1>3, <1>9, <2>1 DEF Earlier
<1> QED BY <1>5, <1>8, <1>10, <1>11

\* Of a list of commands in order, each is one of the dictionary, and of two the one
\* of less priority, or of the same and less key, is the first.
LEMMA InOrderSorts ==
  ASSUME NEW C, NEW plugins, IsDictionary(Registered(plugins), C)
  PROVE  LET registered == Registered(plugins)
             list == InOrder(plugins)
         IN  /\ list \in Seq(C)
             /\ \A c : c \in Range(list) <=> \E key \in DOMAIN registered : c = registered[key]
             /\ \A i, j \in 1 .. Len(list) : i < j => Earlier(list[i], list[j])
<1> DEFINE registered == Registered(plugins)
           priorities == Priorities(registered)
           L == Len(priorities)
           List(i) == WithPriority(registered, priorities[i])
           parts == [i \in DOMAIN priorities |-> List(i)]
           R == {x \in C \X C : Earlier(x[1], x[2])}
<1>1. InOrder(plugins) = FlattenSeq(parts)
  BY DEF InOrder
<1> HIDE DEF registered
<1>2. IsDictionary(registered, C)
  BY DEF registered
<1>3. /\ priorities \in Seq(Int)
      /\ \A key \in DOMAIN registered : \E n \in 1 .. L : priorities[n] = registered[key].priority
      /\ \A m, n \in 1 .. L : m < n => priorities[m] < priorities[n]
  BY <1>2, PrioritiesSorted
<1> HIDE DEF priorities
<1>4. ASSUME NEW i
      PROVE  /\ List(i) \in Seq(C)
             /\ \A c : c \in Range(List(i)) <=>
                  \E key \in DOMAIN registered : c = registered[key] /\ c.priority = priorities[i]
             /\ \A m, n \in 1 .. Len(List(i)) : m < n => Earlier(List(i)[m], List(i)[n])
  <2> DEFINE p == priorities[i]
             list == WithPriority(registered, p)
  <2> HIDE DEF p
  <2>1. /\ list \in Seq(C)
        /\ \A c : c \in Range(list) <=>
             \E key \in DOMAIN registered : c = registered[key] /\ c.priority = p
        /\ \A m, n \in 1 .. Len(list) : m < n => Earlier(list[m], list[n])
    BY <1>2, ListSorted
  <2> QED BY <2>1 DEF p
<1> HIDE DEF List
<1>5. DOMAIN priorities = 1 .. L /\ L \in Nat
  BY <1>3
<1>6. /\ parts \in Seq(Seq(C)) /\ Len(parts) = L
      /\ \A i \in 1 .. L : parts[i] = List(i)
  <2>1. \A i \in 1 .. L : List(i) \in Seq(C)
    BY <1>4
  <2> HIDE DEF L
  <2> QED BY <1>5, <2>1
<1> HIDE DEF parts, L
<1>7. \A i \in 1 .. L : \A c \in Range(List(i)) :
        c \in C /\ c.priority = priorities[i] /\ c.priority \in Int
  <2> SUFFICES ASSUME NEW i \in 1 .. L, NEW c \in Range(List(i))
               PROVE  c \in C /\ c.priority = priorities[i] /\ c.priority \in Int
    OBVIOUS
  <2>1. PICK key \in DOMAIN registered : c = registered[key] /\ c.priority = priorities[i]
    BY <1>4
  <2> QED BY <1>2, <2>1 DEF IsDictionary
<1>8. ASSUME NEW i \in 1 .. L PROVE Ordered(parts[i], R)
  <2> DEFINE list == List(i)
  <2>1. list \in Seq(C) /\ \A m, n \in 1 .. Len(list) : m < n => Earlier(list[m], list[n])
    BY <1>4
  <2> HIDE DEF list
  <2>2. Ordered(list, R)
    BY <2>1 DEF Ordered
  <2> QED BY <1>6, <2>2 DEF list
<1>9. ASSUME NEW i \in 1 .. L, NEW j \in 1 .. L, i < j PROVE Before(parts[i], parts[j], R)
  <2> SUFFICES ASSUME NEW c \in Range(List(i)), NEW d \in Range(List(j))
               PROVE  <<c, d>> \in R
    BY <1>6 DEF Before
  <2>1. c \in C /\ d \in C /\ c.priority < d.priority
    BY <1>3, <1>7, <1>9
  <2> QED BY <2>1 DEF Earlier
<1>10. FlattenSeq(parts) \in Seq(C)
  BY <1>6, FlattenType
<1>11. Ordered(FlattenSeq(parts), R)
  <2> HIDE DEF R
  <2> QED BY <1>6, <1>8, <1>9, FlattenOrder
<1>12. \A c : c \in Range(FlattenSeq(parts)) <=> \E i \in 1 .. L : c \in Range(List(i))
  <2>1. \A c : c \in Range(FlattenSeq(parts)) <=>
              \E i \in 1 .. Len(parts) : c \in Range(parts[i])
    BY <1>6, FlattenRange
  <2> QED BY <1>6, <2>1
<1>13. ASSUME NEW c
       PROVE  c \in Range(FlattenSeq(parts)) <=>
                \E key \in DOMAIN registered : c = registered[key]
  <2>1. ASSUME NEW i \in 1 .. L, c \in Range(List(i))
        PROVE  \E key \in DOMAIN registered : c = registered[key]
    BY <1>4, <2>1
  <2>2. ASSUME NEW key \in DOMAIN registered, c = registered[key]
        PROVE  \E i \in 1 .. L : c \in Range(List(i))
    <3>1. PICK i \in 1 .. L : priorities[i] = registered[key].priority
      BY <1>3
    <3>2. c \in Range(List(i))
      BY <1>4, <2>2, <3>1
    <3> QED BY <3>2
  <2> QED BY <1>12, <2>1, <2>2
<1> DEFINE list == FlattenSeq(parts)
<1>14. ASSUME NEW i \in 1 .. Len(list), NEW j \in 1 .. Len(list), i < j
       PROVE  Earlier(list[i], list[j])
  <2>1. <<list[i], list[j]>> \in R
    <3> HIDE DEF list, R
    <3> QED BY <1>11, <1>14 DEF Ordered, list
  <2> HIDE DEF list
  <2> QED BY <2>1
<1> QED BY <1>1, <1>10, <1>13, <1>14 DEF registered

-------------------------------------------------------------------------------
(* The command that a line reaches *)

\* The commands that a registry is made of, in the order of the registrations.
LEMMA LoadedRegistry ==
  ASSUME NEW plugins \in LoadOrders
  PROVE  LET C == Registrations(plugins)
             all == FlattenSeq(plugins)
         IN  /\ all \in Seq(C)
             /\ IsRegistry(Registered(plugins), all)
             /\ IsDictionary(Registered(plugins), C)
<1> DEFINE C == Registrations(plugins)
           all == FlattenSeq(plugins)
           registered == Registered(plugins)
<1>1. plugins \in Seq(Seq(C)) /\ \A c \in C : c.key \in Nat /\ c.priority \in Int
  BY PluginsAssumption
<1> HIDE DEF C
<1>2. all \in Seq(C)
  BY <1>1, FlattenType
<1>3. IsRegistry(registered, all)
  BY <1>1, RegisteredNewest
<1> HIDE DEF all, registered
<1>4. \A i \in DOMAIN all : all[i] \in C
  BY <1>2
<1>5. IsDictionary(registered, C)
  BY <1>1, <1>3, <1>4 DEF IsRegistry, IsDictionary
<1> QED BY <1>2, <1>3, <1>5 DEF C, all, registered

\* What portal_commands_priority holds, and in which order.
LEMMA CommandsInOrder ==
  ASSUME NEW plugins \in LoadOrders
  PROVE  LET list == InOrder(plugins)
         IN  /\ list \in Seq(Registrations(plugins))
             /\ Range(list) = Effective(plugins)
             /\ \A i, j \in 1 .. Len(list) : i < j => Earlier(list[i], list[j])
<1> DEFINE C == Registrations(plugins)
           all == FlattenSeq(plugins)
           registered == Registered(plugins)
           list == InOrder(plugins)
<1>1. all \in Seq(C) /\ IsRegistry(registered, all) /\ IsDictionary(registered, C)
  BY LoadedRegistry
<1>2. /\ list \in Seq(C)
      /\ \A c : c \in Range(list) <=> \E key \in DOMAIN registered : c = registered[key]
      /\ \A i, j \in 1 .. Len(list) : i < j => Earlier(list[i], list[j])
  <2> HIDE DEF C
  <2> QED BY <1>1, InOrderSorts
<1>3. Effective(plugins) = {all[i] : i \in {i \in DOMAIN all : Newest(all, i)}}
  BY DEF Effective, Newest
<1> HIDE DEF C, all, registered, list
<1>4. ASSUME NEW key \in DOMAIN registered PROVE registered[key] \in Effective(plugins)
  <2>1. PICK i \in DOMAIN all : Newest(all, i) /\ registered[key] = all[i]
    BY <1>1 DEF IsRegistry
  <2> QED BY <1>3, <2>1
<1>5. ASSUME NEW i \in DOMAIN all, Newest(all, i)
      PROVE  \E key \in DOMAIN registered : all[i] = registered[key]
  <2>1. all[i].key \in DOMAIN registered
    BY <1>1 DEF IsRegistry
  <2>2. PICK j \in DOMAIN all : /\ Newest(all, j) /\ all[j].key = all[i].key
                                /\ registered[all[i].key] = all[j]
    BY <1>1, <2>1 DEF IsRegistry
  <2>3. i <= j /\ j <= i /\ i \in Nat /\ j \in Nat
    BY <1>1, <1>5, <2>2 DEF Newest
  <2>4. i = j
    BY <2>3
  <2> QED BY <2>1, <2>2, <2>4
<1>6. Range(list) = Effective(plugins)
  BY <1>2, <1>3, <1>4, <1>5
<1> QED BY <1>2, <1>6 DEF C, list

\* The first command of a list that answers.
LEMMA ReachedFirst ==
  ASSUME NEW C, NEW list \in Seq(C), NEW parser, NEW level, NEW line,
         \A i, j \in 1 .. Len(list) : i < j => Earlier(list[i], list[j])
  PROVE  LET reached == Reached(list, parser, level, line)
             may == {c \in Range(list) : Answers(c, parser, level, line)}
         IN  IF may = {} THEN reached = NoCommand
             ELSE reached \in may /\ \A c \in may : c = reached \/ Earlier(reached, c)
<1> DEFINE Fits(c) == Answers(c, parser, level, line)
           found == {i \in DOMAIN list : Fits(list[i])}
           may == {c \in Range(list) : Fits(c)}
           reached == Reached(list, parser, level, line)
           Goal == IF may = {} THEN reached = NoCommand
                   ELSE reached \in may /\ \A c \in may : c = reached \/ Earlier(reached, c)
<1>1. reached = IF found = {} THEN NoCommand ELSE list[Min(found)]
  BY DEF Reached
<1> HIDE DEF reached, Fits
<1>2. DOMAIN list = 1 .. Len(list) /\ Len(list) \in Nat
  OBVIOUS
<1>3. ASSUME NEW c \in may PROVE \E i \in found : c = list[i]
  BY DEF Range
<1>4. ASSUME NEW i \in found PROVE list[i] \in may
  BY DEF Range
<1>5. ASSUME found = {} PROVE Goal
  BY <1>1, <1>3, <1>5
<1>6. ASSUME found # {} PROVE Goal
  <2> DEFINE m == Min(found)
  <2>1. found \in SUBSET Nat
    BY <1>2
  <2>2. m \in found /\ \A i \in found : m <= i
    <3> HIDE DEF found
    <3> QED BY <1>6, <2>1, MinIn
  <2>3. reached = list[m]
    BY <1>1, <1>6
  <2> HIDE DEF m
  <2>4. reached \in may
    BY <1>4, <2>2, <2>3
  <2>5. ASSUME NEW c \in may PROVE c = reached \/ Earlier(reached, c)
    <3>1. PICK i \in found : c = list[i]
      BY <1>3
    <3>2. m \in 1 .. Len(list) /\ i \in 1 .. Len(list) /\ m <= i
      BY <1>2, <2>2
    <3>3. m = i \/ m < i
      BY <1>2, <3>2
    <3> QED BY <2>3, <3>1, <3>2, <3>3
  <2> QED BY <2>4, <2>5
<1>7. Goal
  BY <1>5, <1>6
<1> QED BY <1>7 DEF reached, Fits

\* What core's commands begin, they begin in the menu they are for.
LEMMA FoundInPlace ==
  ASSUME loaded \in LoadOrders, commands = InOrder(loaded), NEW line
  PROVE  /\ Found(line).runs \in {"login", "register"} => Parser = "auth"
         /\ Found(line).runs \in {"create", "play"} => Parser = "user"
<1> DEFINE C == Registrations(loaded)
           may == {c \in Range(commands) : Answers(c, Parser, admin_level, line)}
<1>1. /\ commands \in Seq(C)
      /\ \A i, j \in 1 .. Len(commands) : i < j => Earlier(commands[i], commands[j])
  BY CommandsInOrder
<1>2. IF may = {} THEN Found(line) = NoCommand ELSE Found(line) \in may
  <2> HIDE DEF C
  <2> QED BY <1>1, ReachedFirst DEF Found
<1>3. CASE Found(line) = NoCommand
  <2>1. Found(line).runs = "nothing"
    BY <1>3 DEF NoCommand
  <2> QED BY <2>1
<1>4. CASE Found(line) \in may
  <2> DEFINE c == Found(line)
  <2> HIDE DEF c
  <2>1. c \in Range(commands) /\ Parser \in c.parsers
    BY <1>4 DEF c, Answers, check_parser
  <2>2. c \in C
    BY <1>1, <2>1 DEF Range
  <2>3. /\ c.runs \in {"login", "register"} => c.parsers = {"auth"}
        /\ c.runs \in {"create", "play"} => c.parsers = {"user"}
    BY <2>2, CallersAssumption
  <2>4. /\ c.runs \in {"login", "register"} => Parser = "auth"
        /\ c.runs \in {"create", "play"} => Parser = "user"
    BY <2>1, <2>3
  <2> QED BY <2>4 DEF c
<1> QED BY <1>2, <1>3, <1>4

\* Plugins with the same commands that count fill the same dictionary.
LEMMA SameRegistry ==
  ASSUME NEW p \in LoadOrders, NEW q \in LoadOrders, Effective(p) = Effective(q)
  PROVE  Registered(p) = Registered(q)
<1> DEFINE Holds(r, E) == /\ r = [key \in DOMAIN r |-> r[key]]
                          /\ \A key \in DOMAIN r : r[key] \in E /\ r[key].key = key
                          /\ \A c \in E : c.key \in DOMAIN r /\ r[c.key] = c
<1>1. ASSUME NEW o \in LoadOrders PROVE Holds(Registered(o), Effective(o))
  <2> DEFINE C == Registrations(o)
             all == FlattenSeq(o)
             r == Registered(o)
             E == Effective(o)
  <2>1. all \in Seq(C) /\ IsRegistry(r, all)
    BY LoadedRegistry
  <2>2. E = {all[i] : i \in {i \in DOMAIN all : Newest(all, i)}}
    BY DEF Effective, Newest
  <2> HIDE DEF C, all, r, E
  <2>3. ASSUME NEW key \in DOMAIN r PROVE r[key] \in E /\ r[key].key = key
    BY <2>1, <2>2, <2>3 DEF IsRegistry
  <2>4. ASSUME NEW c \in E PROVE c.key \in DOMAIN r /\ r[c.key] = c
    <3>1. PICK i \in DOMAIN all : Newest(all, i) /\ c = all[i]
      BY <2>2
    <3>2. c.key \in DOMAIN r
      BY <2>1, <3>1 DEF IsRegistry
    <3>3. PICK j \in DOMAIN all : /\ Newest(all, j) /\ all[j].key = c.key
                                  /\ r[c.key] = all[j]
      BY <2>1, <3>2 DEF IsRegistry
    <3>4. i <= j /\ j <= i /\ i \in Nat /\ j \in Nat
      BY <2>1, <3>1, <3>3 DEF Newest
    <3>5. i = j
      BY <3>4
    <3> QED BY <3>1, <3>2, <3>3, <3>5
  <2>5. r = [key \in DOMAIN r |-> r[key]]
    BY <2>1 DEF IsRegistry
  <2>6. Holds(r, E)
    BY <2>3, <2>4, <2>5
  <2> HIDE DEF Holds
  <2> QED BY <2>6 DEF r, E
<1> DEFINE r == Registered(p)
           s == Registered(q)
           E == Effective(p)
<1>2. Holds(r, E) /\ Holds(s, E)
  <2> HIDE DEF Holds
  <2> QED BY <1>1
<1> HIDE DEF r, s, E
<1>3. DOMAIN r = DOMAIN s
  BY <1>2
<1>4. \A key \in DOMAIN r : r[key] = s[key]
  BY <1>2, <1>3
<1>5. r = s
  BY <1>2, <1>3, <1>4
<1> QED BY <1>5 DEF r, s

\* The registry is what ReachesSame says of it.
LEMMA FoundSame ==
  ASSUME loaded \in LoadOrders, commands = InOrder(loaded)
  PROVE  ReachesSame
<1> DEFINE C == Registrations(loaded)
           effective == Effective(loaded)
<1>1. /\ commands \in Seq(C) /\ Range(commands) = effective
      /\ \A i, j \in 1 .. Len(commands) : i < j => Earlier(commands[i], commands[j])
  BY CommandsInOrder
<1>2. \A c \in effective : c.key \in Nat /\ c.priority \in Int
  <2>1. \A c \in Range(commands) : c \in C
    <3> HIDE DEF C
    <3> QED BY <1>1 DEF Range
  <2> HIDE DEF effective
  <2> QED BY <1>1, <2>1, PluginsAssumption
<1> HIDE DEF C, effective
<1>3. ASSUME NEW line \in Lines
      PROVE  IF MayReach(line) = {} THEN Found(line) = NoCommand
             ELSE /\ Found(line) \in MayReach(line)
                  /\ \A c \in MayReach(line) :
                       c.priority = Found(line).priority => Found(line).key <= c.key
  <2> DEFINE may == MayReach(line)
             found == Found(line)
  <2>1. may = {c \in Range(commands) : Answers(c, Parser, admin_level, line)}
    BY <1>1 DEF MayReach, effective
  <2>2. IF may = {} THEN found = NoCommand
        ELSE found \in may /\ \A c \in may : c = found \/ Earlier(found, c)
    BY <1>1, <2>1, ReachedFirst DEF Found
  <2>3. \A c \in may : c.key \in Nat /\ c.priority \in Int
    BY <1>1, <1>2, <2>1
  <2> HIDE DEF may, found
  <2>4. ASSUME found \in may, NEW c \in may, c.priority = found.priority
        PROVE  found.key <= c.key
    <3>1. CASE c = found
      BY <2>3, <2>4, <3>1
    <3>2. CASE Earlier(found, c)
      BY <2>3, <2>4, <3>2 DEF Earlier
    <3> QED BY <2>2, <2>4, <3>1, <3>2
  <2>5. IF may = {} THEN found = NoCommand
        ELSE /\ found \in may
             /\ \A c \in may : c.priority = found.priority => found.key <= c.key
    BY <2>2, <2>4
  <2> QED BY <2>5 DEF may, found
<1>4. ASSUME NEW plugins \in LoadOrders, Effective(plugins) = Effective(loaded)
      PROVE  commands = InOrder(plugins)
  <2>1. Registered(plugins) = Registered(loaded)
    BY <1>4, SameRegistry
  <2>2. InOrder(plugins) = InOrder(loaded)
    BY <2>1 DEF InOrder
  <2> QED BY <2>2
<1> QED BY <1>3, <1>4 DEF ReachesSame

-------------------------------------------------------------------------------
(* The stacks of parsers *)

Parsers == {"auth", "user", "pc"}

LEMMA SameParsers ==
  ASSUME NEW s \in Seq(Parsers), NEW t \in Seq(Parsers),
         Len(s) = Len(t), \A i \in 1 .. Len(t) : s[i] = t[i]
  PROVE  s = t
BY SeqEqual

LEMMA LoggedIn == Append(<<"auth">>, "user") = <<"auth", "user">>
<1> DEFINE s == Append(<<"auth">>, "user")
           t == <<"auth", "user">>
<1>1. s \in Seq(Parsers) /\ t \in Seq(Parsers) /\ Len(s) = Len(t)
  BY DEF Parsers
<1>2. \A i \in 1 .. Len(t) : s[i] = t[i]
  OBVIOUS
<1>3. s = t
  <2> HIDE DEF s, t
  <2> QED BY <1>1, <1>2, SameParsers
<1> QED BY <1>3

LEMMA Played == Append(<<"auth", "user">>, "pc") = <<"auth", "user", "pc">>
<1> DEFINE s == Append(<<"auth", "user">>, "pc")
           t == <<"auth", "user", "pc">>
<1>1. s \in Seq(Parsers) /\ t \in Seq(Parsers) /\ Len(s) = Len(t)
  BY DEF Parsers
<1>2. \A i \in 1 .. Len(t) : s[i] = t[i]
  OBVIOUS
<1>3. s = t
  <2> HIDE DEF s, t
  <2> QED BY <1>1, <1>2, SameParsers
<1> QED BY <1>3

LEMMA LoggedOut == SubSeq(<<"auth", "user">>, 1, Len(<<"auth", "user">>) - 1) = <<"auth">>
<1> DEFINE s == SubSeq(<<"auth", "user">>, 1, Len(<<"auth", "user">>) - 1)
           t == <<"auth">>
<1>1. s \in Seq(Parsers) /\ t \in Seq(Parsers) /\ Len(s) = Len(t)
  BY DEF Parsers
<1>2. \A i \in 1 .. Len(t) : s[i] = t[i]
  OBVIOUS
<1>3. s = t
  <2> HIDE DEF s, t
  <2> QED BY <1>1, <1>2, SameParsers
<1> QED BY <1>3

LEMMA StacksDiffer ==
  /\ <<"auth">> # <<"auth", "user">> /\ <<"auth">> # <<"auth", "user", "pc">>
  /\ <<"auth", "user">> # <<"auth", "user", "pc">>
  /\ <<"auth">>[Len(<<"auth">>)] = "auth"
  /\ <<"auth", "user">>[Len(<<"auth", "user">>)] = "user"
  /\ <<"auth", "user", "pc">>[Len(<<"auth", "user", "pc">>)] = "pc"
OBVIOUS

-------------------------------------------------------------------------------
(* The inductive invariant *)

MenuCalls == {"look", "create", "user", "characters"}

\* A call is waited for in the menu whose command began it.
Places ==
  /\ commands = InOrder(loaded)
  /\ ParsersInOrder
  /\ loop = "auth" => stack = <<"auth">>
  /\ loop \in MenuCalls => stack = <<"auth", "user">>

\* The refresher waits and asks only for someone who is logged in.
Logins ==
  /\ refresher \in {"waiting", "asking"} => payload # NoToken
  /\ MenuTokenRefused

StreamRaised == \E i \in DOMAIN streams : streams[i] = "raised"

\* Each task that has raised has a cause of its own.
Crashes ==
  /\ loop = "raised" =>
       excuses \cap {"typed early", "websocket lost", "code as markup"} # {}
  /\ refresher = "raised" => excuses \cap {"refresh failed", "token misread"} # {}
  /\ StreamRaised => excuses \cap {"websocket lost", "code as markup"} # {}
  /\ ended = "crashed" => Raised

\* The refresher looks at a token before it expires: its next look is never further
\* away than its poll, and never behind the end of the token it has or of the one
\* that it has read.
Timers ==
  /\ refresher \in {"polling", "waiting"} => clock <= wake
  /\ refresher = "polling" => wake <= clock + Poll
  /\ \A t \in {token, payload} : t # NoToken =>
       /\ t.exp <= clock + Life
       /\ refresher \in {"polling", "waiting"} => wake < t.exp
       /\ refresher = "asking" => clock < t.exp
  /\ payload # NoToken => token # NoToken /\ payload.exp <= token.exp
  /\ refresher = "done" => shutdown_event

\* Lines get to the session from a character only, and nothing leads out of it.
Repls ==
  /\ Len(parser_stack) <= 1
  /\ wire # << >> \/ parser_stack # << >> => stack = <<"auth", "user", "pc">>

IInv == TypeOK /\ Places /\ Logins /\ Crashes /\ Timers /\ Repls

LEMMA InitIInv == Init => IInv
<1> SUFFICES ASSUME Init PROVE IInv
  OBVIOUS
<1>1. TypeOK
  <2>1. /\ <<"auth">> \in Seq({"auth", "user", "pc"}) /\ << >> \in Seq(Lines)
        /\ << >> \in Seq({"connecting", "open", "raised"}) /\ << >> \in Seq({"repl"})
    OBVIOUS
  <2>2. 0 \in 0 .. MaxClock /\ Poll \in Int
    BY BoundsAssumption DEF Poll
  <2> QED BY <2>1, <2>2 DEF Init, TypeOK
<1>2. Places
  BY DEF Init, Places, ParsersInOrder, MenuCalls
<1>3. Logins /\ Crashes
  BY DEF Init, Logins, MenuTokenRefused, Crashes, StreamRaised
<1>4. Timers
  BY LifeAssumption DEF Init, Timers, Poll
<1>5. Repls
  BY DEF Init, Repls
<1> QED BY <1>1, <1>2, <1>3, <1>4, <1>5 DEF IInv

-------------------------------------------------------------------------------
(* Parsers and calls *)

LEMMA StreamSet ==
  ASSUME NEW s \in Seq({"connecting", "open", "raised"}), NEW i \in DOMAIN s,
         NEW v \in {"connecting", "open", "raised"}
  PROVE  /\ [s EXCEPT ![i] = v] \in Seq({"connecting", "open", "raised"})
         /\ Len([s EXCEPT ![i] = v]) = Len(s)
OBVIOUS

\* A 401 in a call of the character menu pops that menu.
LEMMA FailsInPlace ==
  ASSUME Places, NEW result, Fails(result), stack = <<"auth", "user">>,
         UNCHANGED <<registry, streams>>
  PROVE  Places'
<1>1. stack' \in {<<"auth">>, <<"auth", "user">>} /\ loop' = "idle"
  BY LoggedOut DEF Fails, pop_parser
<1>2. Len(streams) = 0
  BY StacksDiffer DEF Places, ParsersInOrder
<1> QED BY <1>1, <1>2, StacksDiffer DEF Places, ParsersInOrder, MenuCalls, registry

LEMMA PlacesNext ==
  ASSUME TypeOK, Places, [Next]_vars
  PROVE  Places'
<1> USE DEF registry, commandVars, tokenVars, refresherVars, endVars, sessionVars
<1>1. ASSUME NEW line \in Lines, Begin(line) PROVE Places'
  <2>1. /\ Found(line).runs \in {"login", "register"} => Parser = "auth"
        /\ Found(line).runs \in {"create", "play"} => Parser = "user"
    BY FoundInPlace DEF TypeOK, Places
  <2>2. /\ Parser = "auth" => stack = <<"auth">>
        /\ Parser = "user" => stack = <<"auth", "user">>
    BY StacksDiffer DEF Places, ParsersInOrder, Parser
  <2>3. \/ loop' = "auth" /\ Found(line).runs \in {"login", "register"}
        \/ loop' \in {"create", "user"} /\ Found(line).runs \in {"create", "play"}
    <3>1. Found(line).runs \in {"login", "register", "create", "play"}
      BY <1>1 DEF Begin, FirstCall
    <3>2. CASE Found(line).runs \in {"login", "register"}
      BY <1>1, <3>2 DEF Begin, FirstCall
    <3>3. CASE Found(line).runs \in {"create", "play"}
      BY <1>1, <3>3 DEF Begin, FirstCall
    <3> QED BY <3>1, <3>2, <3>3
  <2>4. UNCHANGED <<loaded, commands, stack, streams>>
    BY <1>1 DEF Begin
  <2> QED BY <2>1, <2>2, <2>3, <2>4 DEF Places, ParsersInOrder, MenuCalls
<1>2. ASSUME NEW line \in Lines, Quit(line) PROVE Places'
  BY <1>2 DEF Quit, Typed, Shutdown, Places, ParsersInOrder, MenuCalls
<1>3. ASSUME NEW line \in Lines, Relay(line) PROVE Places'
  BY <1>3 DEF Relay, Typed, Places, ParsersInOrder, MenuCalls
<1>4. ASSUME NEW result \in {"ok", "failed", "refused", "misread"}, AuthAnswered(result)
      PROVE  Places'
  <2>1. stack = <<"auth">> /\ Len(streams) = 0
    BY <1>4, StacksDiffer DEF AuthAnswered, Places, ParsersInOrder
  <2>2. \/ stack' = <<"auth", "user">> /\ loop' = "look"
        \/ stack' = <<"auth">> /\ loop' = "idle"
    BY <1>4, <2>1, LoggedIn DEF AuthAnswered, push_parser
  <2> QED BY <1>4, <2>1, <2>2, StacksDiffer DEF AuthAnswered, Places, ParsersInOrder, MenuCalls
<1>5. ASSUME NEW result \in {"ok", "failed", "refused", "misread"}, LookAnswered(result)
      PROVE  Places'
  <2>1. stack = <<"auth", "user">>
    BY <1>5 DEF LookAnswered, Places, MenuCalls
  <2>2. CASE result = "ok"
    BY <1>5, <2>2 DEF LookAnswered, Places, ParsersInOrder, MenuCalls
  <2>3. CASE result # "ok"
    <3>1. Fails(result) /\ UNCHANGED <<registry, streams>>
      BY <1>5, <2>3 DEF LookAnswered
    <3> QED BY <2>1, <3>1, FailsInPlace
  <2> QED BY <2>2, <2>3
<1>6. ASSUME NEW result \in {"ok", "failed", "refused", "misread"}, CreateAnswered(result)
      PROVE  Places'
  BY <1>6 DEF CreateAnswered, Places, ParsersInOrder, MenuCalls
<1>7. ASSUME NEW result \in {"ok", "failed", "refused", "misread"}, UserAnswered(result)
      PROVE  Places'
  <2>1. stack = <<"auth", "user">>
    BY <1>7 DEF UserAnswered, Places, MenuCalls
  <2>2. CASE result = "ok"
    BY <1>7, <2>1, <2>2 DEF UserAnswered, Places, ParsersInOrder, MenuCalls
  <2>3. CASE result # "ok"
    <3>1. Fails(result) /\ UNCHANGED <<registry, streams>>
      BY <1>7, <2>3 DEF UserAnswered
    <3> QED BY <2>1, <3>1, FailsInPlace
  <2> QED BY <2>2, <2>3
<1>8. ASSUME NEW result \in {"ok", "failed", "refused", "misread"}, CharactersAnswered(result)
      PROVE  Places'
  <2>1. stack = <<"auth", "user">>
    BY <1>8 DEF CharactersAnswered, Places, MenuCalls
  <2>2. CASE result = "ok"
    <3>1. Len(streams) = 0 /\ loop' = "idle"
      BY <1>8, <2>1, <2>2, StacksDiffer DEF CharactersAnswered, Places, ParsersInOrder
    <3>2. CASE UNCHANGED <<stack, streams>>
      BY <1>8, <3>1, <3>2 DEF CharactersAnswered, Places, ParsersInOrder, MenuCalls
    <3>3. CASE push_parser("pc") /\ streams' = Append(streams, "connecting")
      <4>1. stack' = <<"auth", "user", "pc">>
        BY <2>1, <3>3, Played DEF push_parser
      <4>2. Len(streams') = 1
        BY <3>1, <3>3 DEF TypeOK
      <4> QED BY <1>8, <3>1, <4>1, <4>2, StacksDiffer
              DEF CharactersAnswered, Places, ParsersInOrder, MenuCalls
    <3> QED BY <1>8, <2>2, <3>2, <3>3 DEF CharactersAnswered
  <2>3. CASE result # "ok"
    <3>1. Fails(result) /\ UNCHANGED <<registry, streams>>
      BY <1>8, <2>3 DEF CharactersAnswered
    <3> QED BY <2>1, <3>1, FailsInPlace
  <2> QED BY <2>2, <2>3
<1>9. CASE RefresherWakes
  BY <1>9 DEF RefresherWakes, SessionExpired, Shutdown, Places, ParsersInOrder,
     MenuCalls
<1>10. CASE RefresherAsks
  BY <1>10 DEF RefresherAsks, Places, ParsersInOrder, MenuCalls
<1>11. CASE RefreshSucceeds
  BY <1>11 DEF RefreshSucceeds, handle_token, Places, ParsersInOrder, MenuCalls
<1>12. CASE RefreshRefused
  BY <1>12 DEF RefreshRefused, SessionExpired, Shutdown, Places, ParsersInOrder,
     MenuCalls
<1>13. CASE RefreshFails \/ RefreshMisread
  BY <1>13 DEF RefreshFails, RefreshMisread, MisreadToken, Places, ParsersInOrder, MenuCalls
<1>14. CASE StreamConnects
  <2>1. PICK i \in DOMAIN streams : streams' = [streams EXCEPT ![i] = "open"]
    BY <1>14 DEF StreamConnects
  <2>2. Len(streams') = Len(streams)
    BY <2>1, StreamSet DEF TypeOK
  <2>3. UNCHANGED <<loaded, commands, stack, loop>>
    BY <1>14 DEF StreamConnects
  <2> QED BY <2>2, <2>3 DEF Places, ParsersInOrder, MenuCalls
<1>15. CASE StreamLost \/ EventFails
  <2>1. PICK i \in DOMAIN streams : streams' = [streams EXCEPT ![i] = "raised"]
    BY <1>15 DEF StreamLost, EventFails
  <2>2. Len(streams') = Len(streams)
    BY <2>1, StreamSet DEF TypeOK
  <2>3. UNCHANGED <<loaded, commands, stack, loop>>
    BY <1>15 DEF StreamLost, EventFails
  <2> QED BY <2>2, <2>3 DEF Places, ParsersInOrder, MenuCalls
<1>16. CASE SessionReceives
  BY <1>16 DEF SessionReceives, Places, ParsersInOrder, MenuCalls
<1>17. CASE Tick
  BY <1>17 DEF Tick, Places, ParsersInOrder, MenuCalls
<1>18. CASE Close
  BY <1>18 DEF Close, Places, ParsersInOrder, MenuCalls
<1>19. CASE GroupAborts
  BY <1>19 DEF GroupAborts, Places, ParsersInOrder, MenuCalls
<1>20. CASE UNCHANGED vars
  BY <1>20 DEF vars, Places, ParsersInOrder, MenuCalls
<1> QED
  BY <1>1, <1>2, <1>3, <1>4, <1>5, <1>6, <1>7, <1>8, <1>9, <1>10, <1>11, <1>12, <1>13,
     <1>14, <1>15, <1>16, <1>17, <1>18, <1>19, <1>20
     DEF Next, Handle, Answered, Refresher, Stream

-------------------------------------------------------------------------------
(* Types *)

LEMMA TokenMade ==
  ASSUME TypeOK
  PROVE  /\ NewToken \in [exp : Nat] /\ NewToken # NoToken
         /\ NewToken.exp = clock + Life /\ clock \in Nat
BY LifeAssumption, BoundsAssumption DEF TypeOK, NewToken, NoToken

\* What was decoded, or its parts that were.
LEMMA TokenTypes ==
  ASSUME TypeOK, handle_token \/ MisreadToken \/ UNCHANGED <<token, payload>>
  PROVE  \A t \in {token', payload'} : t = NoToken \/ t \in [exp : Nat]
BY TokenMade DEF TypeOK, handle_token, MisreadToken

LEMMA StackType ==
  /\ <<"auth">> \in Seq({"auth", "user", "pc"})
  /\ <<"auth", "user">> \in Seq({"auth", "user", "pc"})
  /\ <<"auth", "user", "pc">> \in Seq({"auth", "user", "pc"})
OBVIOUS

LEMMA ReplTyped ==
  ASSUME NEW s \in Seq({"repl"})
  PROVE  /\ Append(s, "repl") \in Seq({"repl"})
         /\ s # << >> => SubSeq(s, 1, Len(s) - 1) \in Seq({"repl"})
OBVIOUS

LEMMA TypeNext ==
  ASSUME TypeOK, Places', [Next]_vars
  PROVE  TypeOK'
<1> USE DEF registry, commandVars, tokenVars, refresherVars, endVars, sessionVars
<1>0. stack' \in Seq({"auth", "user", "pc"})
  BY StackType DEF Places, ParsersInOrder
<1>1. ASSUME NEW line \in Lines, Begin(line) PROVE TypeOK'
  <2>1. loop' \in {"auth", "create", "user"}
    BY <1>1 DEF Begin, FirstCall
  <2> QED BY <1>0, <1>1, <2>1 DEF Begin, TypeOK
<1>2. ASSUME NEW line \in Lines, Quit(line) PROVE TypeOK'
  BY <1>0, <1>2 DEF Quit, TypeOK, Typed, Shutdown
<1>3. ASSUME NEW line \in Lines, Relay(line) PROVE TypeOK'
  <2>1. line \in Lines
    OBVIOUS
  <2>2. wire' \in Seq(Lines)
    <3>1. wire \in Seq(Lines) /\ Append(wire, line) \in Seq(Lines)
      BY <2>1 DEF TypeOK
    <3> QED BY <1>3, <3>1 DEF Relay
  <2>3. loop' \in {loop, "raised"} /\ excuses' \subseteq Excuses
    BY <1>3 DEF Relay, TypeOK, Excuses
  <2> QED BY <1>0, <1>3, <2>2, <2>3, ZenonT(30) DEF Relay, TypeOK
<1>4. ASSUME NEW result \in {"ok", "failed", "refused", "misread"}, AuthAnswered(result)
      PROVE  TypeOK'
  <2>1. \A t \in {token', payload'} : t = NoToken \/ t \in [exp : Nat]
    BY <1>4, TokenTypes DEF AuthAnswered
  <2>2. loop' \in {"idle", "look"} /\ refused' \in BOOLEAN
    BY <1>4 DEF AuthAnswered, MisreadToken, TypeOK
  <2> QED BY <1>0, <1>4, <2>1, <2>2 DEF AuthAnswered, TypeOK
<1>5. ASSUME NEW result \in {"ok", "failed", "refused", "misread"}, LookAnswered(result)
      PROVE  TypeOK'
  <2>1. loop' = "idle" /\ refused' \in BOOLEAN
    BY <1>5 DEF LookAnswered, Fails, TypeOK
  <2> QED BY <1>0, <1>5, <2>1 DEF LookAnswered, TypeOK
<1>6. ASSUME NEW result \in {"ok", "failed", "refused", "misread"}, CreateAnswered(result)
      PROVE  TypeOK'
  BY <1>0, <1>6 DEF CreateAnswered, TypeOK
<1>7. ASSUME NEW result \in {"ok", "failed", "refused", "misread"}, UserAnswered(result)
      PROVE  TypeOK'
  <2>1. loop' \in {"idle", "characters"} /\ refused' \in BOOLEAN
    BY <1>7 DEF UserAnswered, Fails, TypeOK
  <2> QED BY <1>0, <1>7, <2>1 DEF UserAnswered, TypeOK
<1>8. ASSUME NEW result \in {"ok", "failed", "refused", "misread"}, CharactersAnswered(result)
      PROVE  TypeOK'
  <2>1. streams' \in Seq({"connecting", "open", "raised"})
    <3>1. streams' \in {streams, Append(streams, "connecting")}
      BY <1>8 DEF CharactersAnswered
    <3>2. streams \in Seq({"connecting", "open", "raised"})
      BY DEF TypeOK
    <3>3. Append(streams, "connecting") \in Seq({"connecting", "open", "raised"})
      BY <3>2
    <3> QED BY <3>1, <3>2, <3>3
  <2>2. loop' = "idle" /\ refused' \in BOOLEAN
    BY <1>8 DEF CharactersAnswered, Fails, TypeOK
  <2> QED BY <1>0, <1>8, <2>1, <2>2 DEF CharactersAnswered, TypeOK
<1>9. CASE RefresherWakes
  <2>1. clock + Poll \in Int /\ (payload # NoToken => payload.exp - Window \in Int)
    BY BoundsAssumption DEF TypeOK, Poll, Window
  <2>2. /\ refresher' \in {"polling", "raised", "done", "waiting", "asking"} /\ wake' \in Int
        /\ shutdown_event' \in BOOLEAN
        /\ shutdown_cause' \in {NoCause, "quit", "session_expired"}
        /\ excuses' \subseteq Excuses
    BY <1>9, <2>1 DEF RefresherWakes, SessionExpired, Shutdown, TypeOK, Excuses
  <2> QED BY <1>0, <1>9, <2>2, ZenonT(30) DEF RefresherWakes, TypeOK
<1>10. CASE RefresherAsks
  BY <1>0, <1>10 DEF RefresherAsks, TypeOK
<1>11. CASE RefreshSucceeds
  <2>1. \A t \in {token', payload'} : t = NoToken \/ t \in [exp : Nat]
    BY <1>11, TokenTypes DEF RefreshSucceeds
  <2>2. clock + Poll \in Int
    BY BoundsAssumption DEF TypeOK, Poll
  <2> QED BY <1>0, <1>11, <2>1, <2>2 DEF RefreshSucceeds, TypeOK
<1>12. CASE RefreshRefused
  BY <1>0, <1>12 DEF RefreshRefused, TypeOK, SessionExpired, Shutdown
<1>13. CASE RefreshFails \/ RefreshMisread
  <2>1. excuses' \subseteq Excuses
    BY <1>13 DEF RefreshFails, RefreshMisread, TypeOK, Excuses
  <2>2. \A t \in {token', payload'} : t = NoToken \/ t \in [exp : Nat]
    BY <1>13, TokenTypes DEF RefreshFails, RefreshMisread
  <2>3. /\ refresher' = "raised" /\ shutdown_event' \in BOOLEAN /\ refused' \in BOOLEAN
        /\ UNCHANGED <<registry, clock, commandVars, wake, streams, shutdown_cause, ended,
                       sessionVars>>
    BY <1>13 DEF RefreshFails, RefreshMisread, MisreadToken, TypeOK
  <2> QED BY <1>0, <2>1, <2>2, <2>3 DEF TypeOK
<1>14. CASE StreamConnects
  <2>1. PICK i \in DOMAIN streams : streams' = [streams EXCEPT ![i] = "open"]
    BY <1>14 DEF StreamConnects
  <2>2. streams' \in Seq({"connecting", "open", "raised"})
    BY <2>1, StreamSet DEF TypeOK
  <2>3. << >> \in Seq(Lines)
    OBVIOUS
  <2>4. excuses' \subseteq Excuses
    BY <1>14 DEF StreamConnects, TypeOK, Excuses
  <2> QED BY <1>0, <1>14, <2>2, <2>3, <2>4 DEF StreamConnects, TypeOK
<1>15. CASE StreamLost \/ EventFails
  <2>1. PICK i \in DOMAIN streams : streams' = [streams EXCEPT ![i] = "raised"]
    BY <1>15 DEF StreamLost, EventFails
  <2>2. streams' \in Seq({"connecting", "open", "raised"})
    BY <2>1, StreamSet DEF TypeOK
  <2>3. << >> \in Seq(Lines)
    OBVIOUS
  <2>4. excuses' \subseteq Excuses
    BY <1>15 DEF StreamLost, EventFails, TypeOK, Excuses
  <2>5. /\ wire' \in Seq(Lines) /\ unprintable' \in BOOLEAN
        /\ UNCHANGED <<registry, clock, commandVars, tokenVars, refresherVars, endVars,
                       parser_stack>>
    BY <1>15, <2>3 DEF StreamLost, EventFails
  <2> QED BY <1>0, <2>2, <2>4, <2>5 DEF TypeOK
<1>16. CASE SessionReceives
  <2>1. parser_stack' \in Seq({"repl"})
    <3>1. \/ parser_stack' = parser_stack
          \/ parser_stack' = Append(parser_stack, "repl")
          \/ parser_stack # << >> /\ parser_stack' = SubSeq(parser_stack, 1, Len(parser_stack) - 1)
      BY <1>16 DEF SessionReceives, SessionDoes
    <3>2. parser_stack \in Seq({"repl"})
      BY DEF TypeOK
    <3> QED BY <3>1, <3>2, ReplTyped
  <2>2. wire' \in Seq(Lines)
    BY <1>16 DEF SessionReceives, TypeOK
  <2>3. unprintable' \in BOOLEAN
    BY <1>16 DEF SessionReceives, Echoes, TypeOK
  <2> QED BY <1>0, <1>16, <2>1, <2>2, <2>3 DEF SessionReceives, TypeOK
<1>17. CASE Tick
  <2>1. clock' \in 0 .. MaxClock
    BY <1>17, BoundsAssumption DEF Tick, TypeOK
  <2> QED BY <1>0, <1>17, <2>1 DEF Tick, TypeOK
<1>18. CASE Close
  BY <1>0, <1>18 DEF Close, TypeOK
<1>19. CASE GroupAborts
  BY <1>0, <1>19 DEF GroupAborts, TypeOK
<1>20. CASE UNCHANGED vars
  BY <1>20 DEF vars, TypeOK
<1> QED
  BY <1>1, <1>2, <1>3, <1>4, <1>5, <1>6, <1>7, <1>8, <1>9, <1>10, <1>11, <1>12, <1>13,
     <1>14, <1>15, <1>16, <1>17, <1>18, <1>19, <1>20
     DEF Next, Handle, Answered, Refresher, Stream

-------------------------------------------------------------------------------
(* Logins *)

LEMMA LoginsNext ==
  ASSUME TypeOK, Places, Logins, [Next]_vars
  PROVE  Logins'
<1> USE DEF registry, commandVars, tokenVars, refresherVars, endVars, sessionVars
<1>1. ASSUME NEW line \in Lines, Begin(line) PROVE Logins'
  BY <1>1 DEF Begin, Typed, Logins, MenuTokenRefused
<1>2. ASSUME NEW line \in Lines, Quit(line) PROVE Logins'
  BY <1>2 DEF Quit, Typed, Shutdown, Logins, MenuTokenRefused
<1>3. ASSUME NEW line \in Lines, Relay(line) PROVE Logins'
  BY <1>3 DEF Relay, Typed, Logins, MenuTokenRefused
<1>4. ASSUME NEW result \in {"ok", "failed", "refused", "misread"}, AuthAnswered(result)
      PROVE  Logins'
  <2>1. stack = <<"auth">>
    BY <1>4 DEF AuthAnswered, Places
  <2>2. CASE result = "ok"
    <3>1. stack' = <<"auth", "user">> /\ refresher' = refresher
      BY <1>4, <2>1, <2>2, LoggedIn DEF AuthAnswered, push_parser
    <3>2. payload' # NoToken
      BY <1>4, <2>2, TokenMade DEF AuthAnswered, handle_token
    <3> QED BY <3>1, <3>2, StacksDiffer DEF Logins, MenuTokenRefused
  <2>3. CASE result # "ok"
    <3>1. UNCHANGED <<stack, payload, refused, refresher>>
      BY <1>4, <2>3 DEF AuthAnswered, MisreadToken
    <3> QED BY <3>1 DEF Logins, MenuTokenRefused
  <2> QED BY <2>2, <2>3
<1>5. ASSUME NEW result \in {"ok", "failed", "refused", "misread"}, LookAnswered(result)
      PROVE  Logins'
  <2>1. /\ UNCHANGED <<payload, refresher>>
        /\ \/ stack' = stack /\ refused' = refused
           \/ stack' # <<"auth">>
           \/ refused'
    <3>1. CASE result # "ok"
      BY <1>5, <3>1 DEF LookAnswered, Fails
    <3>2. CASE result = "ok"
      BY <1>5, <3>2 DEF LookAnswered
    <3> QED BY <3>1, <3>2
  <2> QED BY <1>5, <2>1 DEF Logins, MenuTokenRefused
<1>6. ASSUME NEW result \in {"ok", "failed", "refused", "misread"}, CreateAnswered(result)
      PROVE  Logins'
  BY <1>6 DEF CreateAnswered, Logins, MenuTokenRefused
<1>7. ASSUME NEW result \in {"ok", "failed", "refused", "misread"}, UserAnswered(result)
      PROVE  Logins'
  <2>1. /\ UNCHANGED <<payload, refresher>>
        /\ \/ stack' = stack /\ refused' = refused
           \/ stack' # <<"auth">>
           \/ refused'
    <3>1. CASE result # "ok"
      BY <1>7, <3>1 DEF UserAnswered, Fails
    <3>2. CASE result = "ok"
      BY <1>7, <3>2 DEF UserAnswered
    <3> QED BY <3>1, <3>2
  <2> QED BY <1>7, <2>1 DEF Logins, MenuTokenRefused
<1>8. ASSUME NEW result \in {"ok", "failed", "refused", "misread"}, CharactersAnswered(result)
      PROVE  Logins'
  <2>1. /\ UNCHANGED <<payload, refresher>>
        /\ \/ stack' = stack /\ refused' = refused
           \/ stack' # <<"auth">>
           \/ refused'
    <3>1. CASE result # "ok"
      BY <1>8, <3>1 DEF CharactersAnswered, Fails
    <3>2. CASE result = "ok"
      <4>1. CASE UNCHANGED <<stack, streams>>
        BY <1>8, <3>2, <4>1 DEF CharactersAnswered
      <4>2. CASE push_parser("pc")
        <5>1. stack' = <<"auth", "user", "pc">>
          BY <1>8, <4>2, Played DEF CharactersAnswered, push_parser, Places, MenuCalls
        <5> QED BY <1>8, <3>2, <5>1, StacksDiffer DEF CharactersAnswered
      <4> QED BY <1>8, <3>2, <4>1, <4>2 DEF CharactersAnswered
    <3> QED BY <3>1, <3>2
  <2> QED BY <1>8, <2>1 DEF Logins, MenuTokenRefused
<1>9. CASE RefresherWakes
  <2>1. /\ UNCHANGED <<payload, refused, stack>>
        /\ refresher' \in {"polling", "done", "raised"} \/ payload # NoToken
    BY <1>9 DEF RefresherWakes, SessionExpired
  <2> QED BY <2>1 DEF Logins, MenuTokenRefused
<1>10. CASE RefresherAsks
  BY <1>10 DEF RefresherAsks, Logins, MenuTokenRefused
<1>11. CASE RefreshSucceeds
  <2>1. payload # NoToken /\ payload' # NoToken
    BY <1>11, TokenMade DEF RefreshSucceeds, handle_token, Logins
  <2> QED BY <1>11, <2>1 DEF RefreshSucceeds, Logins, MenuTokenRefused
<1>12. CASE RefreshRefused
  BY <1>12 DEF RefreshRefused, SessionExpired, Shutdown, Logins, MenuTokenRefused
<1>13. CASE RefreshFails \/ RefreshMisread
  BY <1>13 DEF RefreshFails, RefreshMisread, MisreadToken, Logins, MenuTokenRefused
<1>14. CASE StreamConnects
  BY <1>14 DEF StreamConnects, Logins, MenuTokenRefused
<1>15. CASE StreamLost \/ EventFails
  BY <1>15 DEF StreamLost, EventFails, Logins, MenuTokenRefused
<1>16. CASE SessionReceives
  BY <1>16 DEF SessionReceives, Logins, MenuTokenRefused
<1>17. CASE Tick
  BY <1>17 DEF Tick, Logins, MenuTokenRefused
<1>18. CASE Close
  BY <1>18 DEF Close, Logins, MenuTokenRefused
<1>19. CASE GroupAborts
  BY <1>19 DEF GroupAborts, Logins, MenuTokenRefused
<1>20. CASE UNCHANGED vars
  BY <1>20 DEF vars, Logins, MenuTokenRefused
<1> QED
  BY <1>1, <1>2, <1>3, <1>4, <1>5, <1>6, <1>7, <1>8, <1>9, <1>10, <1>11, <1>12, <1>13,
     <1>14, <1>15, <1>16, <1>17, <1>18, <1>19, <1>20
     DEF Next, Handle, Answered, Refresher, Stream

-------------------------------------------------------------------------------
(* Crashes *)

LEMMA RaisedStays ==
  ASSUME NEW s \in Seq({"connecting", "open", "raised"}), NEW i \in DOMAIN s,
         NEW j \in DOMAIN [s EXCEPT ![i] = "open"], [s EXCEPT ![i] = "open"][j] = "raised"
  PROVE  \E k \in DOMAIN s : s[k] = "raised"
OBVIOUS

\* A step in which no task raises.
Calm ==
  /\ excuses \subseteq excuses'
  /\ loop' = "raised" => loop = "raised"
  /\ refresher' = "raised" => refresher = "raised"
  /\ StreamRaised' => StreamRaised
  /\ ended' = "crashed" => Raised'

LEMMA CrashesKept == ASSUME Crashes, Calm PROVE Crashes'
BY DEF Crashes, Calm

\* While the connection runs its end is not a crash.
LEMMA NoCrash == ASSUME Running, UNCHANGED ended PROVE ended' = "crashed" => Raised'
BY DEF Running

LEMMA CrashesNext ==
  ASSUME TypeOK, Places, Crashes, [Next]_vars
  PROVE  Crashes'
<1> USE DEF registry, commandVars, tokenVars, refresherVars, endVars, sessionVars
<1>1. ASSUME NEW line \in Lines, Begin(line) PROVE Crashes'
  <2>1. loop' # "raised"
    BY <1>1 DEF Begin, FirstCall
  <2>2. Calm
    BY <1>1, <2>1, NoCrash DEF Begin, Typed, Calm, StreamRaised
  <2> QED BY <2>2, CrashesKept
<1>2. ASSUME NEW line \in Lines, Quit(line) PROVE Crashes'
  BY <1>2, NoCrash, CrashesKept DEF Quit, Typed, Shutdown, Calm, StreamRaised
<1>3. ASSUME NEW line \in Lines, Relay(line) PROVE Crashes'
  <2>1. Parser = "pc" /\ Len(streams) = 1
    BY <1>3, StacksDiffer DEF Relay, Parser, Places, ParsersInOrder
  <2>2. /\ UNCHANGED <<refresher, streams, ended>> /\ excuses \subseteq excuses'
        /\ ended' = "crashed" => Raised'
    BY <1>3, NoCrash DEF Relay, Typed
  <2> DEFINE ws == streams[Len(streams)]
  <2>3. ws \in {"connecting", "open", "raised"} /\ Len(streams) \in DOMAIN streams
    <3>1. streams \in Seq({"connecting", "open", "raised"})
      BY DEF TypeOK
    <3> QED BY <2>1, <3>1
  <2>4. CASE ws = "open"
    BY <1>3, <2>2, <2>4, CrashesKept DEF Relay, Calm, StreamRaised
  <2>5. CASE ws = "connecting"
    <3>1. "typed early" \in excuses'
      BY <1>3, <2>5 DEF Relay
    <3> QED BY <2>2, <3>1 DEF Crashes, StreamRaised
  <2>6. CASE ws = "raised"
    <3>1. excuses \cap {"websocket lost", "code as markup"} # {}
      BY <2>3, <2>6 DEF Crashes, StreamRaised
    <3> QED BY <2>2, <3>1 DEF Crashes, StreamRaised
  <2> QED BY <2>3, <2>4, <2>5, <2>6
<1>4. ASSUME NEW result \in {"ok", "failed", "refused", "misread"}, AuthAnswered(result)
      PROVE  Crashes'
  BY <1>4, NoCrash, CrashesKept DEF AuthAnswered, Calm, StreamRaised
<1>5. ASSUME NEW result \in {"ok", "failed", "refused", "misread"}, LookAnswered(result)
      PROVE  Crashes'
  BY <1>5, NoCrash, CrashesKept DEF LookAnswered, Fails, Calm, StreamRaised
<1>6. ASSUME NEW result \in {"ok", "failed", "refused", "misread"}, CreateAnswered(result)
      PROVE  Crashes'
  BY <1>6, NoCrash, CrashesKept DEF CreateAnswered, Calm, StreamRaised
<1>7. ASSUME NEW result \in {"ok", "failed", "refused", "misread"}, UserAnswered(result)
      PROVE  Crashes'
  BY <1>7, NoCrash, CrashesKept DEF UserAnswered, Fails, Calm, StreamRaised
<1>8. ASSUME NEW result \in {"ok", "failed", "refused", "misread"}, CharactersAnswered(result)
      PROVE  Crashes'
  <2>1. /\ UNCHANGED <<excuses, refresher>> /\ loop' = "idle"
        /\ ended' = "crashed" => Raised'
    BY <1>8, NoCrash DEF CharactersAnswered, Fails
  <2>2. CASE streams' = streams
    BY <2>1, <2>2, CrashesKept DEF Calm, StreamRaised
  <2>3. CASE streams' = Append(streams, "connecting")
    <3>1. streams \in Seq({"connecting", "open", "raised"})
      BY DEF TypeOK
    <3>2. ASSUME NEW j \in DOMAIN streams', streams'[j] = "raised"
          PROVE  \E i \in DOMAIN streams : streams[i] = "raised"
      BY <2>3, <3>1, <3>2
    <3> QED BY <2>1, <3>2, CrashesKept DEF Calm, StreamRaised
  <2> QED BY <1>8, <2>2, <2>3 DEF CharactersAnswered
<1>9. CASE RefresherWakes
  <2>1. /\ UNCHANGED <<loop, streams, ended>> /\ excuses \subseteq excuses'
        /\ ended' = "crashed" => Raised'
    BY <1>9, NoCrash DEF RefresherWakes
  <2>2. refresher' = "raised" => "token misread" \in excuses'
    BY <1>9 DEF RefresherWakes, SessionExpired
  <2> QED BY <2>1, <2>2 DEF Crashes, StreamRaised
<1>10. CASE RefresherAsks
  BY <1>10, NoCrash, CrashesKept DEF RefresherAsks, Calm, StreamRaised
<1>11. CASE RefreshSucceeds
  BY <1>11, NoCrash, CrashesKept DEF RefreshSucceeds, Calm, StreamRaised
<1>12. CASE RefreshRefused
  BY <1>12, NoCrash, CrashesKept
     DEF RefreshRefused, SessionExpired, Shutdown, Calm, StreamRaised
<1>13. CASE RefreshFails \/ RefreshMisread
  <2>1. /\ UNCHANGED <<loop, streams, ended>> /\ excuses \subseteq excuses'
        /\ ended' = "crashed" => Raised'
    BY <1>13, NoCrash DEF RefreshFails, RefreshMisread
  <2>2. "refresh failed" \in excuses' \/ "token misread" \in excuses'
    BY <1>13 DEF RefreshFails, RefreshMisread
  <2> QED BY <2>1, <2>2 DEF Crashes, StreamRaised
<1>14. CASE StreamConnects
  <2>1. PICK i \in DOMAIN streams : streams' = [streams EXCEPT ![i] = "open"]
    BY <1>14 DEF StreamConnects
  <2>2. StreamRaised' => StreamRaised
    BY <2>1, RaisedStays DEF TypeOK, StreamRaised
  <2> QED BY <1>14, <2>2, NoCrash, CrashesKept DEF StreamConnects, Calm
<1>15. CASE StreamLost \/ EventFails
  <2>1. /\ UNCHANGED <<loop, refresher, ended>> /\ excuses \subseteq excuses'
        /\ ended' = "crashed" => Raised'
    BY <1>15, NoCrash DEF StreamLost, EventFails
  <2>2. "websocket lost" \in excuses' \/ "code as markup" \in excuses'
    BY <1>15 DEF StreamLost, EventFails
  <2> QED BY <2>1, <2>2 DEF Crashes
<1>16. CASE SessionReceives
  <2>1. UNCHANGED <<excuses, loop, refresher, streams, ended>>
    BY <1>16 DEF SessionReceives
  <2>2. Calm
    BY <2>1 DEF Calm, StreamRaised, Raised, Crashes
  <2> QED BY <2>2, CrashesKept
<1>17. CASE Tick
  BY <1>17, NoCrash, CrashesKept DEF Tick, Calm, StreamRaised
<1>18. CASE Close
  <2>1. UNCHANGED <<excuses, loop, refresher, streams>> /\ ended' # "crashed"
    BY <1>18 DEF Close
  <2> QED BY <2>1, CrashesKept DEF Calm, StreamRaised
<1>19. CASE GroupAborts
  <2>1. UNCHANGED <<excuses, loop, refresher, streams>> /\ Raised
    BY <1>19 DEF GroupAborts
  <2>2. Calm
    BY <2>1 DEF Calm, StreamRaised, Raised
  <2> QED BY <2>2, CrashesKept
<1>20. CASE UNCHANGED vars
  <2>1. UNCHANGED <<excuses, loop, refresher, streams, ended>>
    BY <1>20 DEF vars
  <2>2. Calm
    BY <2>1 DEF Calm, StreamRaised, Raised, Crashes
  <2> QED BY <2>2, CrashesKept
<1> QED
  BY <1>1, <1>2, <1>3, <1>4, <1>5, <1>6, <1>7, <1>8, <1>9, <1>10, <1>11, <1>12, <1>13,
     <1>14, <1>15, <1>16, <1>17, <1>18, <1>19, <1>20
     DEF Next, Handle, Answered, Refresher, Stream

-------------------------------------------------------------------------------
(* Timers *)

\* A token, if there is one, ends at a minute.
LEMMA ClockType ==
  ASSUME TypeOK
  PROVE  /\ clock \in Int /\ wake \in Int
         /\ token # NoToken => token.exp \in Int
         /\ payload # NoToken => payload.exp \in Int
BY BoundsAssumption DEF TypeOK

LEMMA TimersNext ==
  ASSUME TypeOK, Logins, Timers, [Next]_vars
  PROVE  Timers'
<1> USE DEF registry, commandVars, tokenVars, refresherVars, endVars, sessionVars
<1>1. ASSUME NEW line \in Lines, Begin(line) PROVE Timers'
  <2>1. UNCHANGED <<clock, token, payload, refresher, wake, shutdown_event>>
    BY <1>1 DEF Begin
  <2> QED BY <2>1 DEF Timers
<1>2. ASSUME NEW line \in Lines, Quit(line) PROVE Timers'
  <2>1. UNCHANGED <<clock, token, payload, refresher, wake>> /\ shutdown_event'
    BY <1>2 DEF Quit, Shutdown
  <2> QED BY <2>1 DEF Timers
<1>3. ASSUME NEW line \in Lines, Relay(line) PROVE Timers'
  <2>1. UNCHANGED <<clock, token, payload, refresher, wake, shutdown_event>>
    BY <1>3 DEF Relay
  <2> QED BY <2>1 DEF Timers
<1>4. ASSUME NEW result \in {"ok", "failed", "refused", "misread"}, AuthAnswered(result)
      PROVE  Timers'
  <2>1. UNCHANGED <<clock, refresher, wake, shutdown_event>>
    BY <1>4 DEF AuthAnswered
  <2>2. CASE UNCHANGED <<token, payload>>
    BY <2>1, <2>2 DEF Timers
  <2>3. ASSUME token' = NewToken, payload' \in {payload, NewToken} PROVE Timers'
    <3> DEFINE new == NewToken
    <3>1. new # NoToken /\ new.exp = clock + Life
      BY TokenMade
    <3>2. refresher = "waiting" => wake < clock + Life
      BY ClockType, LifeAssumption DEF Timers, Logins
    <3>3. refresher = "polling" => wake < clock + Life
      BY ClockType, LifeAssumption DEF Timers, Poll
    <3>4. clock < clock + Life /\ clock + Life <= clock + Life
      BY ClockType, LifeAssumption DEF Poll
    <3>5. payload # NoToken => payload.exp <= clock + Life
      BY DEF Timers
    <3> HIDE DEF new
    <3>6. token' = new /\ payload' \in {payload, new}
      BY <2>3 DEF new
    <3>7. /\ refresher \in {"polling", "waiting"} => wake < new.exp
          /\ refresher = "asking" => clock < new.exp
          /\ new.exp <= clock + Life
      BY <3>1, <3>2, <3>3, <3>4
    <3>8. \A t \in {token', payload'} : t # NoToken =>
            /\ t.exp <= clock + Life
            /\ refresher \in {"polling", "waiting"} => wake < t.exp
            /\ refresher = "asking" => clock < t.exp
      BY <3>6, <3>7 DEF Timers
    <3>9. payload' # NoToken => token' # NoToken /\ payload'.exp <= token'.exp
      BY <3>1, <3>4, <3>5, <3>6
    <3> QED BY <2>1, <3>8, <3>9 DEF Timers
  <2> QED BY <1>4, <2>2, <2>3 DEF AuthAnswered, handle_token, MisreadToken
<1>5. ASSUME NEW result \in {"ok", "failed", "refused", "misread"}, LookAnswered(result)
      PROVE  Timers'
  <2>1. UNCHANGED <<clock, token, payload, refresher, wake, shutdown_event>>
    BY <1>5 DEF LookAnswered, Fails
  <2> QED BY <2>1 DEF Timers
<1>6. ASSUME NEW result \in {"ok", "failed", "refused", "misread"}, CreateAnswered(result)
      PROVE  Timers'
  <2>1. UNCHANGED <<clock, token, payload, refresher, wake, shutdown_event>>
    BY <1>6 DEF CreateAnswered
  <2> QED BY <2>1 DEF Timers
<1>7. ASSUME NEW result \in {"ok", "failed", "refused", "misread"}, UserAnswered(result)
      PROVE  Timers'
  <2>1. UNCHANGED <<clock, token, payload, refresher, wake, shutdown_event>>
    BY <1>7 DEF UserAnswered, Fails
  <2> QED BY <2>1 DEF Timers
<1>8. ASSUME NEW result \in {"ok", "failed", "refused", "misread"}, CharactersAnswered(result)
      PROVE  Timers'
  <2>1. UNCHANGED <<clock, token, payload, refresher, wake, shutdown_event>>
    BY <1>8 DEF CharactersAnswered, Fails, push_parser
  <2> QED BY <2>1 DEF Timers
<1>9. CASE RefresherWakes
  <2>1. clock = wake /\ refresher = "polling" /\ UNCHANGED <<clock, token, payload>>
    <3>1. refresher = "polling" /\ wake <= clock /\ UNCHANGED <<clock, token, payload>>
      BY <1>9 DEF RefresherWakes, Due
    <3>2. clock <= wake
      BY <3>1 DEF Timers
    <3> QED BY <3>1, <3>2, ClockType
  <2>2. CASE token = NoToken
    <3>1. wake' = clock + Poll /\ UNCHANGED <<refresher, shutdown_event>> /\ payload = NoToken
      BY <1>9, <2>2 DEF RefresherWakes, Timers
    <3> QED BY <2>1, <2>2, <3>1, ClockType DEF Timers, Poll
  <2>3. CASE token # NoToken /\ payload = NoToken
    <3>1. refresher' = "raised" /\ UNCHANGED <<wake, shutdown_event>>
      BY <1>9, <2>3 DEF RefresherWakes
    <3> QED BY <2>1, <3>1 DEF Timers
  <2>4. CASE payload # NoToken
    <3>1. payload.exp - clock > 0 /\ token # NoToken /\ payload.exp <= token.exp
      BY <2>1, <2>4, ClockType DEF Timers
    <3>2. /\ remaining = payload.exp - clock /\ remaining \in Int
          /\ clock \in Int /\ payload.exp \in Int /\ token.exp \in Int
      BY <2>4, <3>1, ClockType DEF remaining
    <3>5. \/ /\ remaining > Window /\ UNCHANGED shutdown_event
             /\ refresher' = "waiting" /\ wake' = payload.exp - Window
          \/ /\ remaining \in 1 .. Window /\ UNCHANGED <<wake, shutdown_event>>
             /\ refresher' = "asking"
      <4>1. ~ (remaining <= 0) /\ token # NoToken
        BY <3>1, <3>2
      <4> QED BY <1>9, <2>4, <4>1, ZenonT(30) DEF RefresherWakes
    <3>3. CASE remaining > Window
      <4>1. refresher' = "waiting" /\ wake' = payload.exp - Window /\ UNCHANGED shutdown_event
        BY <3>2, <3>3, <3>5 DEF Window
      <4>2. clock <= wake' /\ wake' < payload.exp /\ wake' < token.exp
        BY <3>1, <3>2, <3>3, <4>1 DEF Window
      <4> QED BY <2>1, <2>4, <4>1, <4>2 DEF Timers
    <3>4. CASE ~ (remaining > Window)
      <4>1. refresher' = "asking" /\ UNCHANGED <<wake, shutdown_event>>
        BY <3>2, <3>4, <3>5 DEF Window
      <4>2. clock < payload.exp /\ clock < token.exp
        BY <3>1, <3>2
      <4> QED BY <2>1, <2>4, <4>1, <4>2 DEF Timers
    <3> QED BY <3>3, <3>4
  <2> QED BY <2>2, <2>3, <2>4
<1>10. CASE RefresherAsks
  <2>1. /\ refresher = "waiting" /\ wake <= clock /\ refresher' = "asking"
        /\ UNCHANGED <<clock, token, payload, wake, shutdown_event>>
    BY <1>10 DEF RefresherAsks, Due
  <2> QED BY <2>1, ClockType DEF Timers
<1>11. CASE RefreshSucceeds
  <2>1. /\ refresher' = "polling" /\ wake' = clock + Poll
        /\ UNCHANGED <<clock, shutdown_event>>
    BY <1>11 DEF RefreshSucceeds
  <2>2. token'.exp = clock + Life /\ payload' = token' /\ token' # NoToken
    BY <1>11, TokenMade DEF RefreshSucceeds, handle_token
  <2> QED BY <2>1, <2>2, ClockType, LifeAssumption DEF Timers, Poll
<1>12. CASE RefreshRefused
  <2>1. /\ refresher' = "done" /\ shutdown_event'
        /\ UNCHANGED <<clock, token, payload, wake>>
    BY <1>12 DEF RefreshRefused, SessionExpired, Shutdown
  <2> QED BY <2>1 DEF Timers
<1>13. CASE RefreshFails
  <2>1. /\ refresher' = "raised"
        /\ UNCHANGED <<clock, token, payload, wake, shutdown_event>>
    BY <1>13 DEF RefreshFails
  <2> QED BY <2>1 DEF Timers
<1>21. CASE RefreshMisread
  <2>1. /\ refresher' = "raised" /\ token' = NewToken
        /\ UNCHANGED <<clock, payload, wake, shutdown_event>>
    BY <1>21 DEF RefreshMisread, MisreadToken
  <2>2. NewToken # NoToken /\ NewToken.exp = clock + Life /\ NewToken.exp <= clock + Life
    BY TokenMade, LifeAssumption
  <2> QED BY <2>1, <2>2 DEF Timers
<1>14. CASE StreamConnects
  <2>1. UNCHANGED <<clock, token, payload, refresher, wake, shutdown_event>>
    BY <1>14 DEF StreamConnects
  <2> QED BY <2>1 DEF Timers
<1>15. CASE StreamLost \/ EventFails
  <2>1. UNCHANGED <<clock, token, payload, refresher, wake, shutdown_event>>
    BY <1>15 DEF StreamLost, EventFails
  <2> QED BY <2>1 DEF Timers
<1>16. CASE SessionReceives
  <2>1. UNCHANGED <<clock, token, payload, refresher, wake, shutdown_event>>
    BY <1>16 DEF SessionReceives
  <2> QED BY <2>1 DEF Timers
<1>17. CASE Tick
  <2>1. /\ clock' = clock + 1 /\ refresher # "asking"
        /\ refresher \in {"polling", "waiting"} => ~ (wake <= clock)
        /\ UNCHANGED <<token, payload, refresher, wake, shutdown_event>>
    BY <1>17 DEF Tick, Due
  <2>2. clock + Life <= clock + 1 + Life /\ clock + Poll <= clock + 1 + Poll
    BY ClockType, LifeAssumption DEF Poll
  <2> QED BY <2>1, <2>2, ClockType, LifeAssumption DEF Timers, Poll
<1>18. CASE Close
  <2>1. UNCHANGED <<clock, token, payload, refresher, wake, shutdown_event>>
    BY <1>18 DEF Close
  <2> QED BY <2>1 DEF Timers
<1>19. CASE GroupAborts
  <2>1. UNCHANGED <<clock, token, payload, refresher, wake, shutdown_event>>
    BY <1>19 DEF GroupAborts
  <2> QED BY <2>1 DEF Timers
<1>20. CASE UNCHANGED vars
  BY <1>20 DEF vars, Timers
<1> QED
  BY <1>1, <1>2, <1>3, <1>4, <1>5, <1>6, <1>7, <1>8, <1>9, <1>10, <1>11, <1>12, <1>13,
     <1>14, <1>15, <1>16, <1>17, <1>18, <1>19, <1>20, <1>21
     DEF Next, Handle, Answered, Refresher, Stream

-------------------------------------------------------------------------------
(* The REPL of the session *)

\* Only in the login menu and the character menu do parsers come and go.
LEMMA ReplsKept ==
  ASSUME Repls, UNCHANGED <<wire, parser_stack>>,
         stack' = stack \/ stack # <<"auth", "user", "pc">>
  PROVE  Repls'
BY DEF Repls

\* The REPL opens where no parser is open.
LEMMA SessionKeepsOne ==
  ASSUME parser_stack \in Seq({"repl"}), Len(parser_stack) <= 1, NEW line, SessionDoes(line)
  PROVE  Len(parser_stack') <= 1
<1>1. CASE parser_stack # << >> /\ Leaves(line)
  <2>1. parser_stack' = SubSeq(parser_stack, 1, Len(parser_stack) - 1)
    BY <1>1 DEF SessionDoes
  <2> QED BY <1>1, <2>1
<1>2. CASE parser_stack = << >>
  <2>1. CASE parser_stack' = parser_stack
    BY <2>1
  <2>2. CASE parser_stack' = Append(parser_stack, "repl")
    <3>1. Len(Append(parser_stack, "repl")) = Len(parser_stack) + 1 /\ Len(parser_stack) = 0
      BY <1>2
    <3> DEFINE n == Len(parser_stack)
    <3>2. Len(parser_stack') = n + 1 /\ n = 0
      BY <2>2, <3>1
    <3> HIDE DEF n
    <3> QED BY <3>2
  <2> QED BY <1>2, <2>1, <2>2 DEF SessionDoes
<1>3. CASE parser_stack # << >> /\ ~ Leaves(line)
  BY <1>3 DEF SessionDoes
<1> QED BY <1>1, <1>2, <1>3

LEMMA ReplsNext ==
  ASSUME TypeOK, Places, Repls, [Next]_vars
  PROVE  Repls'
<1> USE DEF registry, commandVars, tokenVars, refresherVars, endVars, sessionVars
<1>1. ASSUME NEW line \in Lines, Begin(line) \/ Quit(line) PROVE Repls'
  BY <1>1, ReplsKept DEF Begin, Quit
<1>2. ASSUME NEW line \in Lines, Relay(line) PROVE Repls'
  <2>1. stack = <<"auth", "user", "pc">>
    BY <1>2, StacksDiffer DEF Relay, Parser, Places, ParsersInOrder
  <2> QED BY <1>2, <2>1 DEF Relay, Repls
<1>3. ASSUME NEW result \in {"ok", "failed", "refused", "misread"},
             \/ AuthAnswered(result) \/ LookAnswered(result) \/ CreateAnswered(result)
             \/ UserAnswered(result) \/ CharactersAnswered(result)
      PROVE  Repls'
  <2>1. stack # <<"auth", "user", "pc">>
    <3>1. loop = "auth" \/ loop \in MenuCalls
      BY <1>3 DEF AuthAnswered, LookAnswered, CreateAnswered, UserAnswered,
         CharactersAnswered, MenuCalls
    <3> QED BY <3>1, StacksDiffer DEF Places
  <2>2. UNCHANGED <<wire, parser_stack>>
    BY <1>3 DEF AuthAnswered, LookAnswered, CreateAnswered, UserAnswered, CharactersAnswered
  <2> QED BY <2>1, <2>2, ReplsKept
<1>4. CASE Refresher
  BY <1>4, ReplsKept DEF Refresher, RefresherWakes, RefresherAsks, RefreshSucceeds,
     RefreshRefused, RefreshMisread, RefreshFails
<1>5. CASE StreamConnects
  BY <1>5, ReplsKept DEF StreamConnects
<1>6. CASE StreamLost \/ EventFails
  BY <1>6 DEF StreamLost, EventFails, Repls
<1>7. CASE SessionReceives
  <2>1. /\ wire # << >> /\ UNCHANGED stack
        /\ SessionDoes(Head(wire))
    BY <1>7 DEF SessionReceives
  <2>2. Len(parser_stack') <= 1
    BY <2>1, SessionKeepsOne DEF TypeOK, Repls
  <2> QED BY <2>1, <2>2 DEF Repls
<1>8. CASE Tick \/ Close \/ GroupAborts
  BY <1>8, ReplsKept DEF Tick, Close, GroupAborts
<1>9. CASE UNCHANGED vars
  BY <1>9, ReplsKept DEF vars
<1> QED
  BY <1>1, <1>2, <1>3, <1>4, <1>5, <1>6, <1>7, <1>8, <1>9
     DEF Next, Handle, Answered, Stream

\* A line that no command for a character answers reaches none there.
LEMMA NotFound ==
  ASSUME loaded \in LoadOrders, commands = InOrder(loaded), Parser = "pc", NEW line,
         \A c \in Registrations(loaded) : "pc" \in c.parsers => ~ check_match(c, line)
  PROVE  Found(line) = NoCommand
<1> DEFINE C == Registrations(loaded)
           may == {c \in Range(commands) : Answers(c, Parser, admin_level, line)}
<1>1. /\ commands \in Seq(C)
      /\ \A i, j \in 1 .. Len(commands) : i < j => Earlier(commands[i], commands[j])
  BY CommandsInOrder
<1>2. \A c \in Range(commands) : c \in C
  <2> HIDE DEF C
  <2> QED BY <1>1 DEF Range
<1>3. may = {}
  BY <1>2 DEF Answers, check_parser
<1> HIDE DEF C
<1> QED BY <1>1, <1>3, ReachedFirst DEF Found

-------------------------------------------------------------------------------
(* The invariant holds *)

LEMMA NextIInv == IInv /\ [Next]_vars => IInv'
<1> SUFFICES ASSUME IInv, [Next]_vars PROVE IInv'
  OBVIOUS
<1> USE DEF IInv
<1>1. Places'
  BY PlacesNext
<1>2. TypeOK'
  BY <1>1, TypeNext
<1>3. Logins' /\ Crashes' /\ Timers' /\ Repls'
  BY LoginsNext, CrashesNext, TimersNext, ReplsNext
<1> QED BY <1>1, <1>2, <1>3

-------------------------------------------------------------------------------
(* Theorems *)

\* The inductive invariant holds of the portal's connection, for all plugins, lines
\* and durations that the assumptions allow.
THEOREM Invariant == Spec => []IInv
BY InitIInv, NextIInv, PTL DEF Spec

\* Every variable keeps its type.
THEOREM TypeCorrect == Spec => []TypeOK
<1>1. IInv => TypeOK
  BY DEF IInv
<1> QED BY <1>1, Invariant, PTL

\* Whoever is logged in on a connection that runs on has a token that has not
\* expired: the refresher always looks, and asks, before it does.
THEOREM TokenLiveCorrect == Spec => []TokenLive
<1>1. IInv => TokenLive
  <2> SUFFICES ASSUME IInv, ~ shutdown_event, ~ Raised, token # NoToken
               PROVE  ~ Expired
    BY DEF TokenLive
  <2>1. refresher \in {"polling", "waiting", "asking"}
    BY DEF IInv, TypeOK, Timers, Raised
  <2>2. clock < token.exp
    BY <2>1, ClockType DEF IInv, Timers
  <2> QED BY <2>2, ClockType DEF Expired, IInv
<1> QED BY <1>1, Invariant, PTL

\* The parsers of a connection are the login menu, the character menu and a
\* character, in this order, with one stream for the character.
THEOREM ParsersCorrect == Spec => []ParsersInOrder
<1>1. IInv => ParsersInOrder
  BY DEF IInv, Places
<1> QED BY <1>1, Invariant, PTL

\* A connection crashes only after a task has raised for a cause of its own: a line
\* without a websocket, a stream that was lost or got what it could not print, a
\* refresh without an answer or a token that could not be read.
THEOREM CrashCorrect == Spec => []CrashExplained
<1>1. IInv => CrashExplained
  BY DEF IInv, Crashes, CrashExplained, Raised, StreamRaised
<1> QED BY <1>1, Invariant, PTL

\* Only a 401 leaves a login that could be read behind in the login menu.
THEOREM MenuCorrect == Spec => []MenuTokenRefused
<1>1. IInv => MenuTokenRefused
  BY DEF IInv, Logins
<1> QED BY <1>1, Invariant, PTL

\* A line reaches one of the commands that it may reach, the first of its priority by
\* key, and the same whatever the order of the plugins, whatever plugins there are.
THEOREM ReachesCorrect == Spec => []ReachesSame
<1>1. IInv => ReachesSame
  BY FoundSame DEF IInv, TypeOK, Places
<1> QED BY <1>1, Invariant, PTL

\* A session has one REPL at most, and while it is open the player can leave it.
THEOREM ReplCorrect == Spec => []ReplCanBeLeft
<1>1. IInv => ReplCanBeLeft
  <2> SUFFICES ASSUME IInv, parser_stack # << >>
               PROVE  \E line \in Lines : Leaves(line) /\ Found(line) = NoCommand
    BY DEF IInv, Repls, ReplCanBeLeft
  <2>1. Parser = "pc"
    BY StacksDiffer DEF IInv, Repls, Parser
  <2>2. loaded \in LoadOrders /\ commands = InOrder(loaded)
    BY DEF IInv, TypeOK, Places
  <2>3. PICK line \in Lines :
          /\ Leaves(line)
          /\ \A c \in Registrations(loaded) : "pc" \in c.parsers => ~ check_match(c, line)
    BY <2>2, LeavingAssumption
  <2>4. Found(line) = NoCommand
    BY <2>1, <2>2, <2>3, NotFound
  <2> QED BY <2>3, <2>4
<1> QED BY <1>1, Invariant, PTL
===============================================================================
