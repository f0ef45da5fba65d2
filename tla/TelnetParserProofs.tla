-------------------------- MODULE TelnetParserProofs --------------------------
(***************************************************************************)
(* Proofs about TelnetParser, for any bytes that clients send and any      *)
(* sizes of the two buffers: its type invariant; that a ProtocolError over *)
(* text is a matter of one read; and that what has been handled is what    *)
(* the bytes say, however they fall into reads.                            *)
(*                                                                         *)
(* The scan for IAC SE, the positions of the line ends and the reference   *)
(* are recursive functions. That each is defined by its equation for every *)
(* sequence is proved here (ScanExists, WhereExists, ReadingExists), and   *)
(* facts about all numbers or all sequences by Induction, Downward and     *)
(* BuildUp, over the set of those they hold for.                           *)
(***************************************************************************)
EXTENDS TelnetParser, FiniteSetTheorems, SequenceTheorems, TLAPS

-------------------------------------------------------------------------------
(* Numbers *)

\* A set of numbers that is not empty has a least element: what is below any of its
\* elements is finite.
LEMMA Least ==
  ASSUME NEW S \in SUBSET Nat, S # {}
  PROVE  \E n \in S : \A m \in S : n <= m
<1> DEFINE Below(k) == {m \in S : m < k}
<1>1. PICK b \in S : TRUE
  OBVIOUS
<1> DEFINE B == 0 .. b
           T == {Below(k) : k \in {k \in S : k <= b}}
<1>2. IsWellFoundedOn(StrictSubsetOrdering(B), SUBSET B)
  <2>1. IsFiniteSet(B)
    BY FS_Interval
  <2> QED BY <2>1, FS_FiniteSubsetsOfFinite, FS_StrictSubsetOrderingWellFounded
<1>3. \A k \in S : k <= b => Below(k) \subseteq B
  <2> SUFFICES ASSUME NEW k \in S, k <= b, NEW m \in S, m < k PROVE m \in 0 .. b
    BY Zenon
  <2> QED OBVIOUS
<1>4. \A k \in S, j \in S : j < k => Below(j) \subseteq Below(k) /\ Below(j) # Below(k)
  <2> SUFFICES ASSUME NEW k \in S, NEW j \in S, j < k
               PROVE  Below(j) \subseteq Below(k) /\ Below(j) # Below(k)
    BY Zenon
  <2>1. \A m \in S : m < j => m < k
    OBVIOUS
  <2>2. j < k /\ ~ (j < j)
    OBVIOUS
  <2> QED BY <2>1, <2>2, Zenon
<1>5. T \subseteq SUBSET B /\ T # {}
  <2>1. b <= b
    OBVIOUS
  <2> QED BY <1>3, <2>1
<1> HIDE DEF Below, B, T
<1>6. PICK A \in T : \A C \in T : ~ (<<C, A>> \in StrictSubsetOrdering(B))
  BY <1>2, <1>5, WFMin
<1>7. PICK n \in S : n <= b /\ A = Below(n)
  BY <1>6 DEF T
<1>8. ASSUME NEW m \in S, m < n PROVE FALSE
  <2>1. m <= b
    BY <1>7, <1>8
  <2>2. Below(m) \in T
    BY <2>1 DEF T
  <2>3. <<Below(m), A>> \in StrictSubsetOrdering(B)
    BY <2>2, <1>4, <1>5, <1>6, <1>7, <1>8 DEF StrictSubsetOrdering
  <2> QED BY <2>2, <2>3, <1>6
<1> QED BY <1>8

\* Induction, for the numbers in a set.
LEMMA Induction ==
  ASSUME NEW T, 0 \in T, \A n \in Nat : n \in T => n + 1 \in T
  PROVE  Nat \subseteq T
<1> DEFINE D == Nat \ T
<1>1. ASSUME D # {} PROVE FALSE
  <2>1. PICK n \in D : \A m \in D : n <= m
    BY <1>1, Least
  <2>2. n \in Nat /\ n # 0
    OBVIOUS
  <2>3. n - 1 \in Nat /\ ~ (n <= n - 1) /\ (n - 1) + 1 = n
    BY <2>2
  <2> QED BY <2>1, <2>2, <2>3
<1> QED BY <1>1

\* Induction from the upper end.
LEMMA Downward ==
  ASSUME NEW N \in Nat, NEW T,
         \A i \in 1 .. N : (\A j \in i + 1 .. N : j \in T) => i \in T
  PROVE  1 .. N \subseteq T
<1> DEFINE D == {n \in Nat : n < N /\ N - n \notin T}
<1>1. ASSUME D # {} PROVE FALSE
  <2>1. PICK n \in D : \A m \in D : n <= m
    BY <1>1, Least
  <2>2. n \in Nat /\ n < N /\ N - n \notin T /\ N - n \in 1 .. N
    OBVIOUS
  <2>3. ASSUME NEW j \in (N - n) + 1 .. N PROVE j \in T
    <3>1. N - j \in Nat /\ N - j < N /\ N - (N - j) = j /\ ~ (n <= N - j)
      BY <2>2, <2>3
    <3> QED BY <2>1, <3>1
  <2> QED BY <2>2, <2>3
<1>2. ASSUME NEW i \in 1 .. N PROVE i \in T
  <2>1. N - i \in Nat /\ N - i < N /\ N - (N - i) = i
    BY <1>2
  <2>2. N - i \notin D
    BY <1>1
  <2> QED BY <2>1, <2>2
<1> QED BY <1>2

-------------------------------------------------------------------------------
(* The end of a subnegotiation *)

\* What the scan of ScanUntilIacSe is at i, if at the positions behind it it is scan.
Turn(data, scan, i) ==
  IF i >= Len(data) THEN 0
  ELSE IF data[i] = "IAC" /\ data[i + 1] = "SE" THEN i + 1
  ELSE IF data[i] = "IAC" /\ data[i + 1] = "IAC" THEN scan[i + 2]
  ELSE scan[i + 1]
IsScan(data, scan) == scan = [i \in 1 .. Len(data) + 1 |-> Turn(data, scan, i)]
Scan(data) == CHOOSE scan : IsScan(data, scan)

LEMMA ScanChosen ==
  ASSUME NEW data
  PROVE  ScanUntilIacSe(data) = Scan(data)[1]
BY DEF ScanUntilIacSe, IsScan, Scan, Turn

LEMMA ScanExists ==
  ASSUME NEW S, NEW data \in Seq(S)
  PROVE  IsScan(data, Scan(data))
<1> DEFINE N == Len(data) + 1
           Upper(k, f) == f = [i \in 1 .. N |-> IF i + k < N THEN 0 ELSE Turn(data, f, i)]
           T == {k \in Nat : \E f : Upper(k, f)}
<1>1. Len(data) \in Nat /\ N \in Nat
  OBVIOUS
<1>2. 0 \in T
  <2> DEFINE f == [i \in 1 .. N |-> 0]
  <2>1. ASSUME NEW i \in 1 .. N, ~ (i + 0 < N) PROVE Turn(data, f, i) = 0
    BY <1>1, <2>1 DEF Turn
  <2>2. f = [i \in 1 .. N |-> IF i + 0 < N THEN 0 ELSE Turn(data, f, i)]
    BY <2>1
  <2> QED BY <2>2
<1>3. ASSUME NEW k \in Nat, k \in T PROVE k + 1 \in T
  <2>1. PICK f : Upper(k, f)
    BY <1>3
  <2> DEFINE g == [i \in 1 .. N |-> IF i + (k + 1) < N THEN 0
                                   ELSE IF i + k < N THEN Turn(data, f, i) ELSE f[i]]
  <2>2. ASSUME NEW i \in 1 .. N, ~ (i + (k + 1) < N) PROVE g[i] = Turn(data, g, i)
    <3>1. g[i] = Turn(data, f, i)
      BY <2>1, <2>2, <1>1
    <3>2. ASSUME i < Len(data) PROVE g[i + 1] = f[i + 1] /\ g[i + 2] = f[i + 2]
      BY <2>2, <3>2, <1>1
    <3>3. Turn(data, g, i) = Turn(data, f, i)
      <4> HIDE DEF g
      <4> QED BY <3>2, <1>1 DEF Turn
    <3> QED BY <3>1, <3>3
  <2>3. g = [i \in 1 .. N |-> IF i + (k + 1) < N THEN 0 ELSE Turn(data, g, i)]
    <3>1. ASSUME NEW i \in 1 .. N, i + (k + 1) < N PROVE g[i] = 0
      BY <3>1
    <3>2. DOMAIN g = 1 .. N /\ g = [i \in 1 .. N |-> g[i]]
      OBVIOUS
    <3> HIDE DEF g, N
    <3> QED BY <2>2, <3>1, <3>2
  <2> HIDE DEF g
  <2> QED BY <2>3
<1>4. N \in T
  <2> HIDE DEF T, N
  <2> QED BY <1>1, <1>2, <1>3, Induction
<1>5. PICK f : Upper(N, f)
  BY <1>4
<1>6. \A i \in 1 .. N : ~ (i + N < N)
  BY <1>1
<1>7. f = [i \in 1 .. N |-> Turn(data, f, i)]
  <2> HIDE DEF N
  <2> QED BY <1>5, <1>6
<1>8. IsScan(data, f)
  BY <1>7 DEF IsScan
<1> QED BY <1>8 DEF Scan

\* What the scan is at every position.
LEMMA ScanTurns ==
  ASSUME NEW S, NEW data \in Seq(S), NEW i \in 1 .. Len(data) + 1
  PROVE  /\ Scan(data)[i] = Turn(data, Scan(data), i)
         /\ Scan(data)[i] = 0 \/ Scan(data)[i] \in i + 1 .. Len(data)
<1> DEFINE N == Len(data) + 1
           scan == Scan(data)
           T == {j \in 1 .. N : scan[j] = 0 \/ scan[j] \in j + 1 .. Len(data)}
<1>1. \A j \in 1 .. N : scan[j] = Turn(data, scan, j)
  <2>1. scan = [j \in 1 .. N |-> Turn(data, scan, j)]
    BY ScanExists DEF IsScan
  <2> HIDE DEF scan, N
  <2> QED BY <2>1
<1> HIDE DEF scan
<1>2. ASSUME NEW j \in 1 .. N, \A k \in j + 1 .. N : k \in T PROVE j \in T
  <2>1. CASE j >= Len(data)
    BY <2>1, <1>1 DEF Turn
  <2>2. CASE j < Len(data)
    <3>1. j + 1 \in T /\ j + 2 \in T
      BY <1>2, <2>2
    <3> QED BY <2>2, <3>1, <1>1 DEF Turn
  <2> QED BY <2>1, <2>2
<1>3. 1 .. N \subseteq T
  <2> HIDE DEF T
  <2>1. N \in Nat
    OBVIOUS
  <2> HIDE DEF N
  <2> QED BY <1>2, <2>1, Downward
<1> QED BY <1>1, <1>3 DEF scan

\* What follows does not change where a subnegotiation ends that has ended, and one
\* that has not ended does not end before what follows.
LEMMA ScanGrows ==
  ASSUME NEW S, NEW old \in Seq(S), NEW new \in Seq(S)
  PROVE  LET first == ScanUntilIacSe(old)
             all == ScanUntilIacSe(old \o new)
         IN  IF first # 0 THEN all = first ELSE all = 0 \/ all > Len(old)
<1> DEFINE N == Len(old) + 1
           both == old \o new
           f == Scan(old)
           g == Scan(both)
           T == {i \in 1 .. N : IF f[i] # 0 THEN g[i] = f[i] ELSE g[i] = 0 \/ g[i] > Len(old)}
<1>1. /\ both \in Seq(S) /\ Len(both) = Len(old) + Len(new)
      /\ Len(old) \in Nat /\ Len(new) \in Nat /\ N \in Nat
      /\ \A i \in 1 .. Len(old) : both[i] = old[i]
  OBVIOUS
<1>2. ASSUME NEW i \in 1 .. N PROVE f[i] = Turn(old, f, i) /\ i \in 1 .. Len(old) + 1
  BY ScanTurns
<1>3. ASSUME NEW i \in 1 .. N
      PROVE  g[i] = Turn(both, g, i) /\ (g[i] = 0 \/ g[i] \in i + 1 .. Len(both))
  <2>1. i \in 1 .. Len(both) + 1
    BY <1>1
  <2> QED BY <2>1, <1>1, ScanTurns
<1> HIDE DEF f, g, both
<1>4. ASSUME NEW i \in 1 .. N, \A j \in i + 1 .. N : j \in T PROVE i \in T
  <2>1. CASE i >= Len(old)
    <3>1. f[i] = 0
      BY <2>1, <1>2 DEF Turn
    <3> QED BY <3>1, <2>1, <1>1, <1>3
  <2>2. CASE i < Len(old)
    <3>1. i + 1 \in T /\ i + 2 \in T
      BY <1>1, <1>4, <2>2
    <3>2. both[i] = old[i] /\ both[i + 1] = old[i + 1] /\ i < Len(both)
      <4>1. i \in 1 .. Len(old) /\ i + 1 \in 1 .. Len(old) /\ i < Len(old) + Len(new)
        BY <1>1, <2>2
      <4> QED BY <1>1, <4>1
    <3>3. i \in Nat /\ i + 1 # 0
      BY <1>1
    <3> QED BY <3>1, <3>2, <3>3, <2>2, <1>1, <1>2, <1>3 DEF Turn
  <2> QED BY <1>1, <2>1, <2>2
<1>5. 1 \in T
  <2> HIDE DEF T
  <2>1. 1 \in 1 .. N
    BY <1>1
  <2> HIDE DEF N
  <2> QED BY <1>1, <1>4, <2>1, Downward
<1> QED BY <1>5, ScanChosen DEF f, g, both

LEMMA ScanBounds ==
  ASSUME NEW S, NEW data \in Seq(S)
  PROVE  ScanUntilIacSe(data) = 0 \/ ScanUntilIacSe(data) \in 2 .. Len(data)
<1>1. 1 \in 1 .. Len(data) + 1
  OBVIOUS
<1> QED BY <1>1, ScanTurns, ScanChosen

-------------------------------------------------------------------------------
(* The text before an IAC *)

LEMMA TextBounds ==
  ASSUME NEW S, NEW data \in Seq(S)
  PROVE  /\ ScanUntilIac(data) \in 0 .. Len(data)
         /\ \A i \in 1 .. ScanUntilIac(data) : data[i] # "IAC"
         /\ data # << >> /\ Head(data) # "IAC" => ScanUntilIac(data) > 0
<1> DEFINE P(n) == /\ \A i \in 1 .. n : data[i] # "IAC"
                   /\ n < Len(data) => data[n + 1] = "IAC"
           D == {n \in Nat : n < Len(data) /\ data[n + 1] = "IAC"}
<1>1. Len(data) \in Nat
  OBVIOUS
<1>2. \E n \in 0 .. Len(data) : P(n)
  <2>1. CASE D = {}
    <3>1. ASSUME NEW i \in 1 .. Len(data) PROVE data[i] # "IAC"
      <4>1. i - 1 \in Nat /\ i - 1 < Len(data) /\ (i - 1) + 1 = i
        BY <1>1
      <4> QED BY <2>1, <4>1
    <3>2. P(Len(data)) /\ Len(data) \in 0 .. Len(data)
      BY <1>1, <3>1
    <3> QED BY <3>2
  <2>2. CASE D # {}
    <3>1. PICK n \in D : \A m \in D : n <= m
      BY <2>2, Least
    <3>2. ASSUME NEW i \in 1 .. n PROVE data[i] # "IAC"
      <4>1. i - 1 \in Nat /\ i - 1 < Len(data) /\ (i - 1) + 1 = i /\ ~ (n <= i - 1)
        BY <1>1
      <4> QED BY <3>1, <4>1
    <3>3. P(n) /\ n \in 0 .. Len(data)
      BY <1>1, <3>2
    <3> QED BY <3>3
  <2> QED BY <2>1, <2>2
<1>3. ScanUntilIac(data) \in 0 .. Len(data) /\ P(ScanUntilIac(data))
  BY <1>2 DEF ScanUntilIac
<1>4. ASSUME data # << >>, Head(data) # "IAC" PROVE ScanUntilIac(data) > 0
  <2>1. Head(data) = data[1] /\ 0 < Len(data)
    BY <1>4
  <2> QED BY <1>1, <1>3, <1>4, <2>1
<1> QED BY <1>3, <1>4

-------------------------------------------------------------------------------
(* Positions of bytes *)

IsWhere(bytes, S, found) ==
  found = [n \in 0 .. Len(bytes) |->
             IF n = 0 THEN << >>
             ELSE IF bytes[n] \in S THEN Append(found[n - 1], n)
             ELSE found[n - 1]]
FoundWhere(bytes, S) == CHOOSE found : IsWhere(bytes, S, found)

LEMMA WhereChosen ==
  ASSUME NEW bytes, NEW S
  PROVE  Where(bytes, S) = FoundWhere(bytes, S)[Len(bytes)]
BY DEF Where, FoundWhere, IsWhere

LEMMA WhereExists ==
  ASSUME NEW R, NEW bytes \in Seq(R), NEW S
  PROVE  IsWhere(bytes, S, FoundWhere(bytes, S))
<1> DEFINE V(f, n) == IF n = 0 THEN << >>
                      ELSE IF bytes[n] \in S THEN Append(f[n - 1], n)
                      ELSE f[n - 1]
           UpTo(f, k) == f = [n \in 0 .. k |-> V(f, n)]
           T == {k \in Nat : \E f : UpTo(f, k)}
<1>1. Len(bytes) \in Nat
  OBVIOUS
<1>2. 0 \in T
  <2> DEFINE f == [n \in 0 .. 0 |-> << >>]
  <2>1. \A n \in 0 .. 0 : V(f, n) = << >>
    OBVIOUS
  <2>2. UpTo(f, 0)
    <3> HIDE DEF V
    <3> QED BY <2>1
  <2> QED BY <2>2
<1>3. ASSUME NEW k \in Nat, k \in T PROVE k + 1 \in T
  <2>1. PICK f : UpTo(f, k)
    BY <1>3
  <2> DEFINE g == [n \in 0 .. k + 1 |-> IF n = k + 1 THEN V(f, n) ELSE f[n]]
  <2>2. ASSUME NEW n \in 0 .. k + 1 PROVE g[n] = V(g, n)
    <3>1. g[n] = V(f, n)
      <4>1. CASE n = k + 1
        BY <4>1
      <4>2. CASE n \in 0 .. k
        <5> HIDE DEF V
        <5> QED BY <4>2, <2>1
      <4> QED BY <4>1, <4>2
    <3>2. n # 0 => n - 1 \in 0 .. k /\ g[n - 1] = f[n - 1]
      <4> HIDE DEF V
      <4> QED OBVIOUS
    <3> HIDE DEF g
    <3> QED BY <3>1, <3>2
  <2>3. UpTo(g, k + 1)
    <3>1. g = [n \in 0 .. k + 1 |-> g[n]]
      <4> HIDE DEF V
      <4> QED OBVIOUS
    <3> HIDE DEF g, V
    <3> QED BY <2>2, <3>1
  <2> HIDE DEF g
  <2> QED BY <2>3
<1>4. Len(bytes) \in T
  <2> HIDE DEF T
  <2> QED BY <1>1, <1>2, <1>3, Induction
<1>5. PICK f : UpTo(f, Len(bytes))
  BY <1>4
<1>6. IsWhere(bytes, S, f)
  BY <1>5 DEF IsWhere
<1> QED BY <1>6 DEF FoundWhere

LEMMA WhereTurns ==
  ASSUME NEW R, NEW bytes \in Seq(R), NEW S, NEW n \in 0 .. Len(bytes)
  PROVE  FoundWhere(bytes, S)[n] =
           IF n = 0 THEN << >>
           ELSE IF bytes[n] \in S THEN Append(FoundWhere(bytes, S)[n - 1], n)
           ELSE FoundWhere(bytes, S)[n - 1]
<1> DEFINE f == FoundWhere(bytes, S)
           V(k) == IF k = 0 THEN << >>
                   ELSE IF bytes[k] \in S THEN Append(f[k - 1], k)
                   ELSE f[k - 1]
<1>1. f = [k \in 0 .. Len(bytes) |-> V(k)]
  BY WhereExists DEF IsWhere
<1> HIDE DEF f
<1>2. f[n] = V(n)
  <2> HIDE DEF V
  <2> QED BY <1>1
<1> QED BY <1>2 DEF f

\* None of no bytes; and with one byte more, its position if it is in S.
LEMMA WhereSteps ==
  ASSUME NEW R, NEW bytes \in Seq(R), NEW b \in R, NEW S
  PROVE  /\ Where(<< >>, S) = << >>
         /\ Where(Append(bytes, b), S) =
              IF b \in S THEN Append(Where(bytes, S), Len(bytes) + 1) ELSE Where(bytes, S)
<1> DEFINE more == Append(bytes, b)
           N == Len(bytes)
           f == FoundWhere(bytes, S)
           g == FoundWhere(more, S)
           T == {n \in Nat : n <= N => f[n] = g[n]}
<1>1. Where(<< >>, S) = << >>
  <2> DEFINE none == << >>
  <2>1. none \in Seq(R) /\ Len(none) = 0 /\ 0 \in 0 .. Len(none)
    OBVIOUS
  <2> HIDE DEF none
  <2>2. FoundWhere(none, S)[0] = << >>
    <3>1. IsWhere(none, S, FoundWhere(none, S))
      BY <2>1, WhereExists
    <3> QED BY <2>1, <3>1 DEF IsWhere
  <2>3. Where(none, S) = << >>
    BY <2>1, <2>2, WhereChosen
  <2> QED BY <2>3 DEF none
<1>2. /\ more \in Seq(R) /\ Len(more) = N + 1 /\ N \in Nat
      /\ more[N + 1] = b /\ \A n \in 1 .. N : more[n] = bytes[n]
  OBVIOUS
<1> HIDE DEF more
<1>3. ASSUME NEW n \in 0 .. N
      PROVE  f[n] = IF n = 0 THEN << >>
                    ELSE IF bytes[n] \in S THEN Append(f[n - 1], n) ELSE f[n - 1]
  BY WhereTurns
<1>4. ASSUME NEW n \in 0 .. N + 1
      PROVE  g[n] = IF n = 0 THEN << >>
                    ELSE IF more[n] \in S THEN Append(g[n - 1], n) ELSE g[n - 1]
  BY <1>2, WhereTurns
<1> HIDE DEF f, g, N
<1>5. 0 \in T
  <2>1. 0 \in 0 .. N /\ 0 \in 0 .. N + 1
    BY <1>2
  <2>2. f[0] = << >>
    BY <2>1, <1>3
  <2>3. g[0] = << >>
    BY <2>1, <1>4
  <2> QED BY <2>2, <2>3
<1>6. ASSUME NEW n \in Nat, n \in T PROVE n + 1 \in T
  <2>1. CASE n + 1 <= N
    <3>1. n + 1 \in 0 .. N /\ n + 1 \in 0 .. N + 1 /\ n + 1 # 0 /\ (n + 1) - 1 = n
          /\ more[n + 1] = bytes[n + 1]
      BY <1>2, <2>1
    <3>2. f[n] = g[n]
      BY <1>2, <1>6, <2>1
    <3>3. f[n + 1] = IF bytes[n + 1] \in S THEN Append(f[n], n + 1) ELSE f[n]
      BY <3>1, <1>3
    <3>4. g[n + 1] = IF more[n + 1] \in S THEN Append(g[n], n + 1) ELSE g[n]
      BY <3>1, <1>4
    <3>5. f[n + 1] = g[n + 1]
      BY <3>1, <3>2, <3>3, <3>4
    <3> QED BY <3>5
  <2>2. CASE ~ (n + 1 <= N)
    BY <2>2
  <2> QED BY <2>1, <2>2
<1>7. f[N] = g[N]
  <2>1. N \in T
    <3> HIDE DEF T
    <3> QED BY <1>2, <1>5, <1>6, Induction
  <2>2. N <= N
    BY <1>2
  <2> QED BY <2>1, <2>2
<1>8. g[N + 1] = IF b \in S THEN Append(g[N], N + 1) ELSE g[N]
  <2>1. N + 1 \in 0 .. N + 1 /\ N + 1 # 0 /\ (N + 1) - 1 = N
    BY <1>2
  <2> QED BY <1>2, <1>4, <2>1
<1>9. Where(bytes, S) = f[N] /\ Where(more, S) = g[N + 1]
  BY <1>2, WhereChosen DEF f, g, N
<1>10. Where(more, S) = IF b \in S THEN Append(Where(bytes, S), N + 1) ELSE Where(bytes, S)
  BY <1>7, <1>8, <1>9, Zenon
<1> QED BY <1>1, <1>10 DEF more, N

-------------------------------------------------------------------------------
(* Parts of sequences *)

LEMMA Slice ==
  ASSUME NEW S, NEW q \in Seq(S), NEW m \in 1 .. Len(q) + 1, NEW n \in 0 .. Len(q)
  PROVE  /\ SubSeq(q, m, n) \in Seq(S)
         /\ Len(SubSeq(q, m, n)) = IF m <= n THEN n - m + 1 ELSE 0
         /\ \A i \in 1 .. n - m + 1 : SubSeq(q, m, n)[i] = q[m + i - 1]
<1>1. m \in Int /\ n \in Int /\ \A i \in m .. n : q[i] \in S
  OBVIOUS
<1> QED BY <1>1, SubSeqProperties

LEMMA SliceOfMore ==
  ASSUME NEW S, NEW q \in Seq(S), NEW e \in S,
         NEW m \in 1 .. Len(q) + 1, NEW n \in 0 .. Len(q)
  PROVE  SubSeq(Append(q, e), m, n) = SubSeq(q, m, n)
<1> DEFINE more == Append(q, e)
<1>1. /\ more \in Seq(S) /\ Len(more) = Len(q) + 1 /\ Len(q) \in Nat
      /\ \A i \in 1 .. Len(q) : more[i] = q[i]
  OBVIOUS
<1> HIDE DEF more
<1>2. m \in 1 .. Len(more) + 1 /\ n \in 0 .. Len(more)
  BY <1>1
<1> DEFINE a == SubSeq(more, m, n)
           b == SubSeq(q, m, n)
<1>3. /\ a \in Seq(S) /\ Len(a) = IF m <= n THEN n - m + 1 ELSE 0
      /\ \A i \in 1 .. n - m + 1 : a[i] = more[m + i - 1]
  BY <1>1, <1>2, Slice
<1>4. /\ b \in Seq(S) /\ Len(b) = IF m <= n THEN n - m + 1 ELSE 0
      /\ \A i \in 1 .. n - m + 1 : b[i] = q[m + i - 1]
  BY Slice
<1> HIDE DEF a, b
<1>5. ASSUME NEW i \in 1 .. Len(a) PROVE a[i] = b[i]
  <2>1. i \in 1 .. n - m + 1 /\ m + i - 1 \in 1 .. Len(q)
    BY <1>1, <1>3
  <2> QED BY <2>1, <1>1, <1>3, <1>4
<1>6. Len(a) = Len(b)
  BY <1>3, <1>4
<1>7. a = b
  BY <1>3, <1>4, <1>5, <1>6, SeqEqual, Zenon
<1> QED BY <1>7 DEF a, b, more

LEMMA SliceToMore ==
  ASSUME NEW S, NEW q \in Seq(S), NEW e \in S, NEW m \in 1 .. Len(q) + 1
  PROVE  SubSeq(Append(q, e), m, Len(q) + 1) = Append(SubSeq(q, m, Len(q)), e)
<1> DEFINE N == Len(q)
           more == Append(q, e)
<1>1. /\ more \in Seq(S) /\ Len(more) = N + 1 /\ N \in Nat /\ more[N + 1] = e
      /\ \A i \in 1 .. N : more[i] = q[i]
  OBVIOUS
<1> HIDE DEF more
<1>2. m \in 1 .. Len(more) + 1 /\ N + 1 \in 0 .. Len(more) /\ N \in 0 .. N
  BY <1>1
<1> DEFINE a == SubSeq(more, m, N + 1)
           b == SubSeq(q, m, N)
           c == Append(b, e)
<1>3. /\ a \in Seq(S) /\ Len(a) = IF m <= N + 1 THEN (N + 1) - m + 1 ELSE 0
      /\ \A i \in 1 .. (N + 1) - m + 1 : a[i] = more[m + i - 1]
  BY <1>1, <1>2, Slice
<1>4. /\ b \in Seq(S) /\ Len(b) = IF m <= N THEN N - m + 1 ELSE 0
      /\ \A i \in 1 .. N - m + 1 : b[i] = q[m + i - 1]
  BY <1>2, Slice
<1> HIDE DEF a, b
<1>5. /\ c \in Seq(S) /\ Len(c) = Len(b) + 1 /\ c[Len(b) + 1] = e
      /\ \A i \in 1 .. Len(b) : c[i] = b[i]
  BY <1>4, AppendProperties
<1> HIDE DEF c
<1>6. Len(a) = (N + 1) - m + 1 /\ Len(b) = N - m + 1 /\ m \in Nat
  BY <1>1, <1>3, <1>4
<1>7. ASSUME NEW i \in 1 .. Len(a) PROVE a[i] = c[i]
  <2>1. CASE i = Len(a)
    <3>1. i \in 1 .. (N + 1) - m + 1 /\ m + i - 1 = N + 1 /\ i = Len(b) + 1
      BY <1>1, <1>6, <2>1
    <3> QED BY <3>1, <1>1, <1>3, <1>5
  <2>2. CASE i # Len(a)
    <3>1. /\ i \in 1 .. (N + 1) - m + 1 /\ m + i - 1 \in 1 .. N
          /\ i \in 1 .. Len(b) /\ i \in 1 .. N - m + 1
      BY <1>1, <1>6, <2>2
    <3> QED BY <3>1, <1>1, <1>3, <1>4, <1>5
  <2> QED BY <2>1, <2>2
<1>8. Len(a) = Len(c)
  BY <1>5, <1>6
<1>9. a = c
  BY <1>3, <1>5, <1>7, <1>8, SeqEqual, Zenon
<1> QED BY <1>9 DEF a, b, c, more

\* Induction over sequences.
LEMMA BuildUp ==
  ASSUME NEW R, NEW T, << >> \in T,
         \A q \in Seq(R) : \A b \in R : q \in T => Append(q, b) \in T
  PROVE  Seq(R) \subseteq T
<1> DEFINE U == {n \in Nat : \A q \in Seq(R) : Len(q) = n => q \in T}
<1>1. 0 \in U
  <2>1. ASSUME NEW q \in Seq(R), Len(q) = 0 PROVE q \in T
    <3>1. q = << >>
      BY <2>1
    <3> QED BY <3>1
  <2> QED BY <2>1
<1>2. ASSUME NEW n \in Nat, n \in U PROVE n + 1 \in U
  <2>1. ASSUME NEW q \in Seq(R), Len(q) = n + 1 PROVE q \in T
    <3> DEFINE p == SubSeq(q, 1, n)
    <3>1. p \in Seq(R) /\ Len(p) = n /\ q[n + 1] \in R /\ q = Append(p, q[n + 1])
      BY <2>1
    <3>2. p \in T
      BY <1>2, <3>1
    <3> HIDE DEF p
    <3> QED BY <3>1, <3>2
  <2> QED BY <2>1
<1>3. ASSUME NEW q \in Seq(R) PROVE q \in T
  <2>1. Len(q) \in Nat
    OBVIOUS
  <2>2. Len(q) \in U
    <3> HIDE DEF U
    <3> QED BY <2>1, <1>1, <1>2, Induction
  <2> QED BY <2>2
<1> QED BY <1>3

LEMMA WhereTyped ==
  ASSUME NEW R, NEW bytes \in Seq(R), NEW S
  PROVE  Where(bytes, S) \in Seq(1 .. Len(bytes))
<1> DEFINE T == {q \in Seq(R) : Where(q, S) \in Seq(1 .. Len(q))}
<1>1. CASE R = {}
  <2>1. bytes = << >>
    BY <1>1
  <2>2. << >> \in Seq({0}) /\ 0 \in {0}
    OBVIOUS
  <2>3. Where(<< >>, S) = << >>
    BY <2>2, WhereSteps
  <2>4. << >> \in Seq(1 .. Len(bytes))
    OBVIOUS
  <2> QED BY <2>1, <2>3, <2>4
<1>2. CASE R # {}
  <2>1. << >> \in T
    <3>1. PICK b \in R : TRUE
      BY <1>2
    <3>2. << >> \in Seq(R)
      OBVIOUS
    <3>3. Where(<< >>, S) = << >>
      BY <3>1, <3>2, WhereSteps
    <3>4. << >> \in Seq(1 .. Len(<< >>))
      OBVIOUS
    <3> QED BY <3>2, <3>3, <3>4
  <2>2. ASSUME NEW q \in Seq(R), NEW b \in R, q \in T PROVE Append(q, b) \in T
    <3> DEFINE w == Where(q, S)
               N == Len(q)
               more == Append(q, b)
    <3>1. w \in Seq(1 .. N) /\ N \in Nat
      BY <2>2
    <3>2. more \in Seq(R) /\ Len(more) = N + 1
      OBVIOUS
    <3>3. Where(more, S) = IF b \in S THEN Append(w, N + 1) ELSE w
      BY WhereSteps
    <3> HIDE DEF w, N, more
    <3>4. w \in Seq(1 .. N + 1)
      BY <3>1
    <3>5. N + 1 \in 1 .. N + 1
      BY <3>1
    <3>6. Append(w, N + 1) \in Seq(1 .. N + 1)
      BY <3>4, <3>5
    <3>7. Where(more, S) \in Seq(1 .. Len(more))
      BY <3>2, <3>3, <3>4, <3>6
    <3> QED BY <3>2, <3>7 DEF more
  <2>3. Seq(R) \subseteq T
    <3> HIDE DEF T
    <3> QED BY <2>1, <2>2, BuildUp
  <2> QED BY <2>3
<1> QED BY <1>1, <1>2

-------------------------------------------------------------------------------
(* Lines *)

LEMMA TextLineTyped ==
  ASSUME NEW bytes \in Seq(Bytes)
  PROVE  TextLine(bytes) \in Events
<1> DEFINE Ends == {"CR", "LF"}
           P(q, n) == /\ \A i \in n + 1 .. Len(q) : q[i] \in Ends
                      /\ n > 0 => q[n] \notin Ends
           T == {q \in Seq(Bytes) : \E n \in 0 .. Len(q) : P(q, n)}
<1>1. << >> \in T
  <2>1. << >> \in Seq(Bytes) /\ 0 \in 0 .. Len(<< >>) /\ P(<< >>, 0)
    OBVIOUS
  <2> QED BY <2>1
<1>2. ASSUME NEW q \in Seq(Bytes), NEW b \in Bytes, q \in T PROVE Append(q, b) \in T
  <2> DEFINE more == Append(q, b)
  <2>1. /\ more \in Seq(Bytes) /\ Len(more) = Len(q) + 1 /\ Len(q) \in Nat
        /\ more[Len(q) + 1] = b /\ \A i \in 1 .. Len(q) : more[i] = q[i]
    OBVIOUS
  <2> HIDE DEF more
  <2>2. PICK n \in 0 .. Len(q) : P(q, n)
    BY <1>2
  <2>3. CASE b \in Ends
    <3>1. n \in 0 .. Len(more) /\ P(more, n)
      BY <2>1, <2>2, <2>3
    <3> QED BY <2>1, <3>1 DEF more
  <2>4. CASE b \notin Ends
    <3>1. Len(q) + 1 \in 0 .. Len(more) /\ P(more, Len(q) + 1)
      BY <2>1, <2>4
    <3> QED BY <2>1, <3>1 DEF more
  <2> QED BY <2>3, <2>4
<1>3. bytes \in T
  <2> HIDE DEF T
  <2> QED BY <1>1, <1>2, BuildUp
<1> DEFINE n == CHOOSE n \in 0 .. Len(bytes) : P(bytes, n)
           text == SubSeq(bytes, 1, n)
           kept == Where(text, Bytes \ {"IAC"})
           data == [k \in DOMAIN kept |-> bytes[kept[k]]]
<1>4. n \in 0 .. Len(bytes)
  BY <1>3
<1>5. TextLine(bytes) = Message("line", NoCode, data)
  BY DEF TextLine
<1> HIDE DEF n
<1>6. text \in Seq(Bytes) /\ Len(text) = n /\ n \in Nat
  BY <1>4
<1>7. kept \in Seq(1 .. n)
  <2> HIDE DEF text
  <2> QED BY <1>6, WhereTyped
<1> HIDE DEF kept
<1>8. data \in Seq(Bytes)
  <2>1. DOMAIN kept = 1 .. Len(kept) /\ Len(kept) \in Nat
    BY <1>7
  <2>2. ASSUME NEW k \in 1 .. Len(kept) PROVE bytes[kept[k]] \in Bytes
    <3>1. kept[k] \in 1 .. n
      BY <1>7, <2>2, ElementOfSeq
    <3>2. kept[k] \in 1 .. Len(bytes)
      BY <3>1, <1>4
    <3> QED BY <3>2
  <2> QED BY <2>1, <2>2
<1> HIDE DEF data
<1>9. Message("line", NoCode, data) \in Events
  BY <1>8 DEF Message, Events
<1> QED BY <1>5, <1>9

\* What HandleData makes of the text so far: complete lines, and the beginning of one.
Ends(app) == <<0>> \o LineEnds(app)
Lines(app) ==
  [k \in 1 .. Len(Ends(app)) - 1 |->
     TextLine(SubSeq(app, Ends(app)[k] + 1, Ends(app)[k + 1] - 1))]
Rest(app) == SubSeq(app, Ends(app)[Len(Ends(app))] + 1, Len(app))

LEMMA HandleDataCuts ==
  ASSUME NEW data
  PROVE  HandleData(data) <=> /\ events' = events \o Lines(app_data \o data)
                              /\ app_data' = Rest(app_data \o data)
BY DEF HandleData, Ends, Lines, Rest

LEMMA EndsTyped ==
  ASSUME NEW app \in Seq(Bytes)
  PROVE  /\ Ends(app) \in Seq(0 .. Len(app)) /\ Len(Ends(app)) >= 1
         /\ Len(Ends(app)) = Len(LineEnds(app)) + 1 /\ Len(LineEnds(app)) \in Nat
<1> DEFINE w == LineEnds(app)
<1>1. w \in Seq(1 .. Len(app)) /\ Len(app) \in Nat
  BY WhereTyped DEF LineEnds
<1> HIDE DEF w
<1>2. w \in Seq(0 .. Len(app)) /\ <<0>> \in Seq(0 .. Len(app)) /\ Len(<<0>>) = 1
  BY <1>1
<1> QED BY <1>1, <1>2 DEF Ends, w

\* One byte more: LF completes the line that has begun, any other continues it.
LEMMA CutOne ==
  ASSUME NEW app \in Seq(Bytes), NEW b \in Bytes
  PROVE  /\ Lines(<< >>) = << >> /\ Rest(<< >>) = << >>
         /\ Lines(app) \in Seq(Events) /\ Rest(app) \in Seq(Bytes)
         /\ IF b = "LF"
              THEN /\ Lines(Append(app, b)) = Append(Lines(app), TextLine(Rest(app)))
                   /\ Rest(Append(app, b)) = << >>
              ELSE /\ Lines(Append(app, b)) = Lines(app)
                   /\ Rest(Append(app, b)) = Append(Rest(app), b)
<1> DEFINE more == Append(app, b)
           N == Len(app)
           E == Ends(app)
           F == Ends(more)
           n == Len(E)
<1>1. /\ more \in Seq(Bytes) /\ Len(more) = N + 1 /\ N \in Nat
      /\ more[N + 1] = b /\ \A i \in 1 .. N : more[i] = app[i]
  OBVIOUS
<1>2. E \in Seq(0 .. N) /\ n \in Nat /\ n >= 1
  BY EndsTyped
<1>3. F = IF b = "LF" THEN Append(E, N + 1) ELSE E
  <2>1. LineEnds(more) = IF b = "LF" THEN Append(LineEnds(app), N + 1) ELSE LineEnds(app)
    BY WhereSteps DEF LineEnds
  <2>2. LineEnds(app) \in Seq(1 .. N)
    BY WhereTyped DEF LineEnds
  <2>3. <<0>> \o Append(LineEnds(app), N + 1) = Append(<<0>> \o LineEnds(app), N + 1)
    <3> HIDE DEF N
    <3> QED BY <2>2
  <2> QED BY <2>1, <2>3 DEF Ends
<1>4. Lines(<< >>) = << >> /\ Rest(<< >>) = << >>
  <2>1. LineEnds(<< >>) = << >>
    <3>1. << >> \in Seq(Bytes)
      OBVIOUS
    <3> QED BY <3>1, WhereSteps DEF LineEnds
  <2>2. Ends(<< >>) = <<0>>
    <3>1. <<0>> \in Seq({0})
      OBVIOUS
    <3> QED BY <2>1, <3>1, ConcatEmptySeq DEF Ends
  <2>3. Len(<<0>>) = 1 /\ <<0>>[1] = 0
    OBVIOUS
  <2>4. Lines(<< >>) = << >>
    <3>1. Len(Ends(<< >>)) - 1 = 0
      BY <2>2, <2>3
    <3> DEFINE V(k) ==
                 TextLine(SubSeq(<< >>, Ends(<< >>)[k] + 1, Ends(<< >>)[k + 1] - 1))
    <3>2. Lines(<< >>) = [k \in 1 .. 0 |-> V(k)]
      BY <3>1 DEF Lines
    <3> HIDE DEF V
    <3>3. [k \in 1 .. 0 |-> V(k)] \in Seq({})
      OBVIOUS
    <3> QED BY <3>2, <3>3
  <2>5. Rest(<< >>) = << >>
    <3>1. Rest(<< >>) = SubSeq(<< >>, 0 + 1, Len(<< >>))
      BY <2>2, <2>3 DEF Rest
    <3>2. Len(<< >>) = 0 /\ 0 + 1 \in Int /\ 0 \in Int /\ 0 < 0 + 1
      OBVIOUS
    <3> QED BY <3>1, <3>2, SubSeqEmpty
  <2> QED BY <2>4, <2>5
<1> HIDE DEF more, E, F
<1>5. ASSUME NEW i \in 0 .. N, NEW j \in 0 .. N
      PROVE  /\ SubSeq(app, i + 1, j - 1) \in Seq(Bytes)
             /\ SubSeq(more, i + 1, j - 1) = SubSeq(app, i + 1, j - 1)
  <2>1. CASE j = 0
    <3>1. i + 1 \in Int /\ j - 1 \in Int /\ j - 1 < i + 1 /\ << >> \in Seq(Bytes)
      BY <1>1, <2>1
    <3> QED BY <3>1, SubSeqEmpty
  <2>2. CASE j # 0
    <3>1. i + 1 \in 1 .. N + 1 /\ j - 1 \in 0 .. N
      BY <1>1, <2>2
    <3> QED BY <3>1, Slice, SliceOfMore DEF more
  <2> QED BY <2>1, <2>2
<1>6. \A k \in 1 .. n : E[k] \in 0 .. N
  BY <1>2
<1>7. Lines(app) = [k \in 1 .. n - 1 |-> TextLine(SubSeq(app, E[k] + 1, E[k + 1] - 1))]
  BY DEF Lines, E
<1>8. Lines(app) \in Seq(Events)
  <2>1. ASSUME NEW k \in 1 .. n - 1
        PROVE  TextLine(SubSeq(app, E[k] + 1, E[k + 1] - 1)) \in Events
    <3>1. E[k] \in 0 .. N /\ E[k + 1] \in 0 .. N
      BY <1>2, <1>6
    <3> QED BY <3>1, <1>5, TextLineTyped
  <2>2. n - 1 \in Nat
    BY <1>2
  <2> QED BY <1>7, <2>1, <2>2
<1>9. Rest(app) = SubSeq(app, E[n] + 1, N) /\ E[n] \in 0 .. N
  BY <1>2, <1>6 DEF Rest, E
<1>10. Rest(app) \in Seq(Bytes)
  <2>1. E[n] + 1 \in 1 .. N + 1 /\ N \in 0 .. N
    BY <1>1, <1>9
  <2> QED BY <2>1, <1>9, Slice
<1>11. CASE b = "LF"
  <2>1. /\ F = Append(E, N + 1) /\ Len(F) = n + 1 /\ F[n + 1] = N + 1
        /\ \A k \in 1 .. n : F[k] = E[k]
    BY <1>2, <1>3, <1>11
  <2>2. Rest(more) = << >>
    <3>1. Rest(more) = SubSeq(more, (N + 1) + 1, N + 1)
      BY <2>1, <1>1 DEF Rest, F
    <3> QED BY <3>1, <1>1
  <2>3. Lines(more) = [k \in 1 .. n |-> TextLine(SubSeq(more, F[k] + 1, F[k + 1] - 1))]
    <3>1. Len(F) - 1 = n
      BY <2>1, <1>2
    <3> QED BY <3>1 DEF Lines, F
  <2>4. ASSUME NEW k \in 1 .. n - 1
        PROVE  SubSeq(more, F[k] + 1, F[k + 1] - 1) = SubSeq(app, E[k] + 1, E[k + 1] - 1)
    <3>1. k \in 1 .. n /\ k + 1 \in 1 .. n
      BY <1>2
    <3> QED BY <3>1, <2>1, <1>5, <1>6
  <2>5. SubSeq(more, F[n] + 1, F[n + 1] - 1) = Rest(app)
    <3>1. F[n] = E[n] /\ F[n + 1] - 1 = N
      BY <2>1, <1>1, <1>2
    <3>2. E[n] + 1 \in 1 .. N + 1 /\ N \in 0 .. N
      BY <1>1, <1>9
    <3>3. SubSeq(more, E[n] + 1, N) = SubSeq(app, E[n] + 1, N)
      BY <3>2, SliceOfMore DEF more
    <3> QED BY <3>1, <3>3, <1>9
  <2>6. Lines(more) = Append(Lines(app), TextLine(Rest(app)))
    <3> DEFINE a == Lines(app)
               t == TextLine(Rest(app))
    <3>1. a \in Seq(Events) /\ Len(a) = n - 1 /\ t \in Events
      <4>1. n - 1 \in Nat
        BY <1>2
      <4> QED BY <4>1, <1>7, <1>8, <1>10, TextLineTyped
    <3>2. /\ Append(a, t) \in Seq(Events) /\ Len(Append(a, t)) = n
          /\ Append(a, t)[n] = t /\ \A k \in 1 .. n - 1 : Append(a, t)[k] = a[k]
      <4>1. (n - 1) + 1 = n
        BY <1>2
      <4> HIDE DEF a, t
      <4> QED BY <3>1, <4>1, AppendProperties
    <3>3. ASSUME NEW k \in 1 .. n
          PROVE  TextLine(SubSeq(more, F[k] + 1, F[k + 1] - 1)) = Append(a, t)[k]
      <4>1. CASE k = n
        BY <4>1, <2>5, <3>2
      <4>2. CASE k # n
        <5>1. k \in 1 .. n - 1
          BY <1>2, <4>2
        <5>2. a[k] = TextLine(SubSeq(app, E[k] + 1, E[k + 1] - 1))
          BY <5>1, <1>7
        <5> QED BY <5>1, <5>2, <2>4, <3>2
      <4> QED BY <4>1, <4>2
    <3> DEFINE c == Append(a, t)
    <3>4. Lines(more) = [k \in 1 .. n |-> c[k]]
      <4> HIDE DEF c
      <4>1. \A k \in 1 .. n : TextLine(SubSeq(more, F[k] + 1, F[k + 1] - 1)) = c[k]
        BY <3>3 DEF c
      <4> QED BY <2>3, <4>1
    <3>5. c = [k \in 1 .. n |-> c[k]]
      <4> HIDE DEF c
      <4>1. c \in Seq(Events) /\ Len(c) = n
        BY <3>2 DEF c
      <4> QED BY <4>1
    <3> QED BY <3>4, <3>5
  <2> QED BY <1>4, <1>8, <1>10, <1>11, <2>2, <2>6 DEF more
<1>12. CASE b # "LF"
  <2>1. F = E
    BY <1>3, <1>12
  <2>2. Lines(more) = [k \in 1 .. n - 1 |-> TextLine(SubSeq(more, E[k] + 1, E[k + 1] - 1))]
    BY <2>1 DEF Lines, F
  <2>3. ASSUME NEW k \in 1 .. n - 1
        PROVE  SubSeq(more, E[k] + 1, E[k + 1] - 1) = SubSeq(app, E[k] + 1, E[k + 1] - 1)
    <3>1. k \in 1 .. n /\ k + 1 \in 1 .. n
      BY <1>2
    <3> QED BY <3>1, <1>5, <1>6
  <2>4. Lines(more) = Lines(app)
    BY <1>7, <2>2, <2>3
  <2>5. Rest(more) = SubSeq(more, E[n] + 1, N + 1)
    BY <2>1, <1>1 DEF Rest, F
  <2>6. SubSeq(more, E[n] + 1, N + 1) = Append(SubSeq(app, E[n] + 1, N), b)
    <3>1. E[n] + 1 \in 1 .. N + 1
      BY <1>1, <1>9
    <3> QED BY <3>1, SliceToMore DEF more
  <2> QED BY <1>4, <1>8, <1>9, <1>10, <1>12, <2>4, <2>5, <2>6 DEF more
<1> QED BY <1>11, <1>12

-------------------------------------------------------------------------------
(* Messages *)

LEMMA CodeFound ==
  ASSUME NEW data \in Seq(Bytes), data # << >>, Head(data) = "IAC"
  PROVE  \/ Parse(data) = Nothing /\ Len(data) < 2
         \/ Parse(data) = Found(2, "data", NoCode, <<"IAC">>) /\ Len(data) >= 2 /\ data[2] = "IAC"
         \/ /\ Len(data) >= 2 /\ data[2] = "WILL"
            /\ \/ Parse(data) = Nothing /\ Len(data) < 3
               \/ Parse(data) = Found(3, "negotiate", "WILL", <<data[3]>>) /\ Len(data) >= 3
         \/ /\ Len(data) >= 2 /\ data[2] = "SB"
            /\ \/ Parse(data) = Overflow /\ Len(data) > SubSize
               \/ /\ Parse(data) = Nothing /\ Len(data) <= SubSize
                  /\ ScanUntilIacSe(data) < 5
               \/ /\ Len(data) <= SubSize /\ ScanUntilIacSe(data) \in 5 .. Len(data)
                  /\ Parse(data) =
                       Found(ScanUntilIacSe(data), "subnegotiate", data[3],
                             SubSeq(data, 4, ScanUntilIacSe(data) - 2))
         \/ /\ Len(data) >= 2 /\ data[2] \notin {"IAC", "WILL", "SB"}
            /\ Parse(data) = Found(2, "command", data[2], << >>)
<1> DEFINE c == data[2]
           n == ScanUntilIacSe(data)
<1>1. Len(data) \in Nat /\ SubSize \in Nat /\ (n = 0 \/ n \in 2 .. Len(data))
  BY ScanBounds, SizesAssumption
<1>2. Parse(data) = ParseCode(data)
  BY DEF Parse
<1> HIDE DEF n
<1>3. CASE Len(data) < 2
  BY <1>2, <1>3 DEF ParseCode
<1>4. CASE Len(data) >= 2 /\ c = "IAC"
  BY <1>1, <1>2, <1>4 DEF ParseCode
<1>5. CASE Len(data) >= 2 /\ c = "WILL"
  BY <1>1, <1>2, <1>5 DEF ParseCode
<1>6. CASE Len(data) >= 2 /\ c = "SB"
  <2>1. Parse(data) = ParseSubnegotiation(data)
    BY <1>1, <1>2, <1>6 DEF ParseCode
  <2>2. CASE Len(data) > SubSize
    BY <1>1, <1>6, <2>1, <2>2 DEF ParseSubnegotiation
  <2>3. CASE Len(data) <= SubSize /\ n < 5
    BY <1>1, <1>6, <2>1, <2>3 DEF ParseSubnegotiation, n
  <2>4. CASE Len(data) <= SubSize /\ n >= 5
    <3>1. Parse(data) = Found(n, "subnegotiate", data[3], SubSeq(data, 4, n - 2))
      BY <1>1, <2>1, <2>4 DEF ParseSubnegotiation, n
    <3> QED BY <1>1, <1>6, <2>4, <3>1 DEF n
  <2> QED BY <1>1, <2>2, <2>3, <2>4
<1>7. CASE Len(data) >= 2 /\ c \notin {"IAC", "WILL", "SB"}
  BY <1>1, <1>2, <1>7 DEF ParseCode
<1> QED BY <1>1, <1>3, <1>4, <1>5, <1>6, <1>7

LEMMA TextFound ==
  ASSUME NEW data \in Seq(Bytes), data # << >>, Head(data) # "IAC"
  PROVE  /\ Parse(data) =
              IF Len(data) > AppSize THEN Overflow
              ELSE Found(ScanUntilIac(data), "data", NoCode, SubSeq(data, 1, ScanUntilIac(data)))
         /\ ScanUntilIac(data) \in 1 .. Len(data)
         /\ SubSeq(data, 1, ScanUntilIac(data)) \in Seq(Bytes)
<1> DEFINE n == ScanUntilIac(data)
<1>1. n \in 1 .. Len(data)
  BY TextBounds
<1>2. Parse(data) = IF Len(data) > AppSize THEN Overflow
                    ELSE Found(n, "data", NoCode, SubSeq(data, 1, n))
  BY DEF Parse, ParseText
<1>3. 1 \in 1 .. Len(data) + 1 /\ n \in 0 .. Len(data)
  BY <1>1
<1> QED BY <1>1, <1>2, <1>3, Slice

\* Something is taken off the buffer, or nothing for one of two reasons.
LEMMA ParseTyped ==
  ASSUME NEW data \in Seq(Bytes)
  PROVE  /\ Parse(data).consumed \in 0 .. Len(data)
         /\ Parse(data).consumed = 0 <=> Parse(data) \in {Nothing, Overflow}
         /\ Parse(data).consumed > 0 =>
              IF Parse(data).message.kind = "data" THEN Parse(data).message.data \in Seq(Bytes)
                                                   ELSE Parse(data).message \in Events
         /\ Nothing # Overflow /\ Overflow.consumed = 0 /\ Nothing.consumed = 0
         /\ Parse(<< >>) = Nothing
<1>1. /\ Nothing # Overflow /\ Nothing.consumed = 0 /\ Overflow.consumed = 0
      /\ Parse(<< >>) = Nothing
  BY DEF Nothing, Overflow, Found, Message, Parse
<1>2. ASSUME NEW n, NEW kind, NEW code, NEW text
      PROVE  /\ Found(n, kind, code, text).consumed = n
             /\ Found(n, kind, code, text).message.kind = kind
             /\ Found(n, kind, code, text).message.data = text
             /\ Found(n, kind, code, text).message = Message(kind, code, text)
  BY DEF Found, Message
<1>3. ASSUME NEW kind \in {"command", "negotiate", "subnegotiate"},
             NEW code \in Bytes, NEW text \in Seq(Bytes)
      PROVE  Message(kind, code, text) \in Events /\ kind # "data"
  BY DEF Message, Events
<1>4. CASE data = << >>
  BY <1>1, <1>4
<1>5. CASE data # << >> /\ Head(data) # "IAC"
  <2> DEFINE n == ScanUntilIac(data)
             text == SubSeq(data, 1, n)
  <2>1. /\ Parse(data) = Overflow \/ Parse(data) = Found(n, "data", NoCode, text)
        /\ n \in 1 .. Len(data) /\ text \in Seq(Bytes)
    BY <1>5, TextFound
  <2> HIDE DEF n, text
  <2>2. CASE Parse(data) = Overflow
    BY <2>1, <2>2, <1>1
  <2>3. CASE Parse(data) = Found(n, "data", NoCode, text)
    <3>1. Parse(data).consumed = n /\ Parse(data).message.kind = "data"
          /\ Parse(data).message.data = text
      BY <2>3, <1>2
    <3> QED BY <3>1, <2>1, <1>1
  <2> QED BY <2>1, <2>2, <2>3
<1>6. CASE data # << >> /\ Head(data) = "IAC"
  <2> DEFINE p == Parse(data)
             Good == \E n \in 2 .. Len(data) :
                       /\ p.consumed = n
                       /\ IF p.message.kind = "data" THEN p.message.data \in Seq(Bytes)
                                                     ELSE p.message \in Events
  <2>1. p = Nothing \/ p = Overflow \/ Good
    <3>1. \/ p = Nothing \/ p = Overflow
          \/ p = Found(2, "data", NoCode, <<"IAC">>) /\ Len(data) >= 2
          \/ p = Found(3, "negotiate", "WILL", <<data[3]>>) /\ Len(data) >= 3
          \/ p = Found(2, "command", data[2], << >>) /\ Len(data) >= 2
          \/ \E n \in 5 .. Len(data) :
               p = Found(n, "subnegotiate", data[3], SubSeq(data, 4, n - 2))
      BY <1>6, CodeFound
    <3> HIDE DEF p
    <3>2. Len(data) \in Nat
      OBVIOUS
    <3>3. CASE p = Found(2, "data", NoCode, <<"IAC">>) /\ Len(data) >= 2
      <4>1. <<"IAC">> \in Seq(Bytes)
        BY DEF Bytes
      <4>2. p.consumed = 2 /\ p.message.kind = "data" /\ p.message.data = <<"IAC">>
        BY <1>2, <3>3
      <4>3. 2 \in 2 .. Len(data)
        BY <3>2, <3>3
      <4> QED BY <4>1, <4>2, <4>3
    <3>4. CASE p = Found(3, "negotiate", "WILL", <<data[3]>>) /\ Len(data) >= 3
      <4>1. "WILL" \in Bytes /\ <<data[3]>> \in Seq(Bytes)
        BY <3>2, <3>4 DEF Bytes
      <4>2. /\ p.consumed = 3 /\ p.message.kind = "negotiate"
            /\ p.message = Message("negotiate", "WILL", <<data[3]>>)
        BY <1>2, <3>4
      <4>3. 3 \in 2 .. Len(data)
        BY <3>2, <3>4
      <4> QED BY <1>3, <4>1, <4>2, <4>3
    <3>5. CASE p = Found(2, "command", data[2], << >>) /\ Len(data) >= 2
      <4>1. data[2] \in Bytes /\ << >> \in Seq(Bytes)
        BY <3>2, <3>5
      <4>2. /\ p.consumed = 2 /\ p.message.kind = "command"
            /\ p.message = Message("command", data[2], << >>)
        BY <1>2, <3>5
      <4>3. 2 \in 2 .. Len(data)
        BY <3>2, <3>5
      <4> QED BY <1>3, <4>1, <4>2, <4>3
    <3>6. ASSUME NEW n \in 5 .. Len(data),
                 p = Found(n, "subnegotiate", data[3], SubSeq(data, 4, n - 2))
          PROVE  Good
      <4>1. 4 \in 1 .. Len(data) + 1 /\ n - 2 \in 0 .. Len(data) /\ n \in 2 .. Len(data)
        BY <3>2
      <4>2. data[3] \in Bytes
        BY <3>2
      <4>3. SubSeq(data, 4, n - 2) \in Seq(Bytes)
        BY <4>1, Slice
      <4>4. /\ p.consumed = n /\ p.message.kind = "subnegotiate"
            /\ p.message = Message("subnegotiate", data[3], SubSeq(data, 4, n - 2))
        BY <1>2, <3>6
      <4> QED BY <1>3, <4>1, <4>2, <4>3, <4>4
    <3> QED BY <3>1, <3>3, <3>4, <3>5, <3>6
  <2> HIDE DEF p
  <2>2. p = Nothing \/ p = Overflow => p.consumed = 0
    BY <1>1
  <2>3. Good => p.consumed \in 0 .. Len(data) /\ p.consumed > 0
    OBVIOUS
  <2>4. Len(data) \in Nat
    OBVIOUS
  <2>5. p.consumed = 0 <=> p \in {Nothing, Overflow}
    BY <2>1, <2>2, <2>3
  <2>6. p.consumed \in 0 .. Len(data)
    BY <2>1, <2>2, <2>3, <2>4
  <2>7. p.consumed > 0 => Good
    BY <2>1, <2>2
  <2> QED BY <1>1, <2>5, <2>6, <2>7 DEF p
<1> QED BY <1>4, <1>5, <1>6

-------------------------------------------------------------------------------
(* Type correctness *)

\* What is left of the buffer when a message is taken off it.
LEMMA Left ==
  ASSUME NEW data \in Seq(Bytes), NEW n \in 0 .. Len(data)
  PROVE  /\ SubSeq(data, n + 1, Len(data)) \in Seq(Bytes)
         /\ Len(SubSeq(data, n + 1, Len(data))) = Len(data) - n
         /\ SubSeq(data, 1, n) \in Seq(Bytes) /\ Len(SubSeq(data, 1, n)) = n
         /\ SubSeq(data, 1, n) \o SubSeq(data, n + 1, Len(data)) = data
<1>1. /\ Len(data) \in Nat /\ n \in Nat
      /\ n + 1 \in 1 .. Len(data) + 1 /\ Len(data) \in 0 .. Len(data)
      /\ 1 \in 1 .. Len(data) + 1
  OBVIOUS
<1> DEFINE a == SubSeq(data, n + 1, Len(data))
           b == SubSeq(data, 1, n)
<1>2. a \in Seq(Bytes) /\ Len(a) = IF n + 1 <= Len(data) THEN Len(data) - (n + 1) + 1 ELSE 0
  BY <1>1, Slice
<1>3. b \in Seq(Bytes) /\ Len(b) = IF 1 <= n THEN n - 1 + 1 ELSE 0
  BY <1>1, Slice
<1>4. b \o a = data
  <2>1. n \in 1 - 1 .. Len(data) /\ Len(data) \in n .. Len(data)
    BY <1>1
  <2>2. b \o a = SubSeq(data, 1, Len(data))
    BY <1>1, <2>1, ConcatAdjacentSubSeq
  <2> QED BY <2>2, SubSeqFull
<1> HIDE DEF a, b
<1>5. Len(a) = Len(data) - n /\ Len(b) = n
  BY <1>1, <1>2, <1>3
<1> QED BY <1>2, <1>3, <1>4, <1>5 DEF a, b

LEMMA LinesTyped ==
  ASSUME NEW app \in Seq(Bytes)
  PROVE  Lines(app) \in Seq(Events) /\ Rest(app) \in Seq(Bytes)
<1>1. "x" \in Bytes
  BY DEF Bytes
<1> QED BY <1>1, CutOne

\* What TypeOK says of each variable.
LEMMA Types ==
  TypeOK <=> /\ wire \in Seq(Bytes) /\ in_buffer \in Seq(Bytes) /\ app_data \in Seq(Bytes)
             /\ received \in Seq(Bytes) /\ events \in Seq(Events)
             /\ failed \in BOOLEAN /\ largest \in Nat
BY DEF TypeOK

LEMMA TypeInit == Init => TypeOK
<1> SUFFICES ASSUME Init PROVE TypeOK
  OBVIOUS
<1>1. wire \in Seq(Bytes)
  BY WiresAssumption DEF Init
<1>2. << >> \in Seq(Bytes) /\ << >> \in Seq(Events)
  OBVIOUS
<1> QED BY <1>1, <1>2, Types DEF Init

LEMMA TypeNext == TypeOK /\ [Next]_vars => TypeOK'
<1> SUFFICES ASSUME TypeOK, [Next]_vars PROVE TypeOK'
  OBVIOUS
<1>0. /\ wire \in Seq(Bytes) /\ in_buffer \in Seq(Bytes) /\ app_data \in Seq(Bytes)
      /\ received \in Seq(Bytes) /\ events \in Seq(Events)
      /\ failed \in BOOLEAN /\ largest \in Nat
  BY Types
<1>1. CASE HandleMessage
  <2> DEFINE found == Parse(in_buffer)
  <2>1. found.consumed > 0 /\ found.consumed \in 0 .. Len(in_buffer)
    BY <1>0, <1>1, ParseTyped DEF HandleMessage
  <2>2. in_buffer' \in Seq(Bytes)
    <3>1. in_buffer' = SubSeq(in_buffer, found.consumed + 1, Len(in_buffer))
      BY <1>1 DEF HandleMessage
    <3> HIDE DEF found
    <3> QED BY <3>1, <2>1, <1>0, Left
  <2>3. events' \in Seq(Events) /\ app_data' \in Seq(Bytes)
    <3>1. CASE found.message.kind = "data"
      <4> DEFINE text == found.message.data
                 app == app_data \o text
      <4>1. text \in Seq(Bytes)
        BY <1>0, <2>1, <3>1, ParseTyped
      <4>2. HandleData(text)
        BY <1>1, <3>1 DEF HandleMessage
      <4>3. events' = events \o Lines(app) /\ app_data' = Rest(app)
        BY <4>2, HandleDataCuts
      <4> HIDE DEF text
      <4>4. app \in Seq(Bytes)
        BY <1>0, <4>1
      <4> HIDE DEF app
      <4>5. Lines(app) \in Seq(Events) /\ Rest(app) \in Seq(Bytes)
        BY <4>4, LinesTyped
      <4> QED BY <1>0, <4>3, <4>5
    <3>2. CASE found.message.kind # "data"
      <4>1. found.message \in Events
        BY <1>0, <2>1, <3>2, ParseTyped
      <4>2. events' = Append(events, found.message) /\ app_data' = app_data
        BY <1>1, <3>2 DEF HandleMessage
      <4> HIDE DEF found
      <4> QED BY <1>0, <4>1, <4>2
    <3> QED BY <3>1, <3>2
  <2>4. UNCHANGED <<wire, failed, received, largest>>
    BY <1>1 DEF HandleMessage
  <2> QED BY <1>0, <2>2, <2>3, <2>4 DEF TypeOK
<1>2. CASE Fail
  BY <1>0, <1>2 DEF Fail, TypeOK
<1>3. ASSUME NEW n \in 1 .. Len(wire), Receive(n) PROVE TypeOK'
  <2> DEFINE new == SubSeq(wire, 1, n)
             rest == SubSeq(wire, n + 1, Len(wire))
  <2>1. n \in 0 .. Len(wire) /\ n \in Nat
    BY <1>0
  <2>2. new \in Seq(Bytes) /\ rest \in Seq(Bytes)
    BY <1>0, <2>1, Left
  <2>3. /\ wire' = rest /\ in_buffer' = in_buffer \o new /\ received' = received \o new
        /\ UNCHANGED <<app_data, events, failed>>
        /\ largest' \in {n, largest}
    BY <1>3 DEF Receive
  <2> HIDE DEF new, rest
  <2>4. in_buffer \o new \in Seq(Bytes) /\ received \o new \in Seq(Bytes)
    BY <1>0, <2>2
  <2> QED BY <1>0, <2>1, <2>2, <2>3, <2>4 DEF TypeOK
<1>4. CASE UNCHANGED vars
  BY <1>0, <1>4 DEF vars, TypeOK
<1> QED BY <1>1, <1>2, <1>3, <1>4 DEF Next

\* The buffers hold bytes and only messages and lines are handled, for any bytes, any
\* sizes and however the bytes fall into reads.
THEOREM TypeCorrect == Spec => []TypeOK
<1> QED BY TypeInit, TypeNext, PTL DEF Spec

-------------------------------------------------------------------------------
(* Oversized reads *)

\* How much a message behind an IAC is, and what nothing is found for.
LEMMA CodeConsumed ==
  ASSUME NEW data \in Seq(Bytes), data # << >>, Head(data) = "IAC"
  PROVE  \/ Parse(data) = Nothing /\ Len(data) < 2
         \/ Parse(data).consumed = 2 /\ Len(data) >= 2 /\ data[2] = "IAC"
         \/ Parse(data) = Nothing /\ Len(data) = 2 /\ data[2] = "WILL"
         \/ Parse(data).consumed = 3 /\ Len(data) >= 3 /\ data[2] = "WILL"
         \/ Parse(data) = Overflow /\ Len(data) >= 2 /\ data[2] = "SB" /\ Len(data) > SubSize
         \/ /\ Parse(data) = Nothing /\ Len(data) >= 2 /\ data[2] = "SB"
            /\ Len(data) <= SubSize /\ ScanUntilIacSe(data) < 5
         \/ /\ Len(data) >= 2 /\ data[2] = "SB" /\ Len(data) <= SubSize
            /\ ScanUntilIacSe(data) \in 5 .. Len(data)
            /\ Parse(data).consumed = ScanUntilIacSe(data)
         \/ /\ Len(data) >= 2 /\ data[2] \notin {"IAC", "WILL", "SB"}
            /\ Parse(data).consumed = 2
<1> DEFINE p == Parse(data)
           k == ScanUntilIacSe(data)
           N == Len(data)
           c == data[2]
<1>1. N \in Nat
  OBVIOUS
<1>2. \/ p = Nothing /\ N < 2
      \/ p.consumed = 2 /\ N >= 2 /\ c = "IAC"
      \/ /\ N >= 2 /\ c = "WILL"
         /\ \/ p = Nothing /\ N < 3
            \/ p.consumed = 3 /\ N >= 3
      \/ /\ N >= 2 /\ c = "SB"
         /\ \/ p = Overflow /\ N > SubSize
            \/ p = Nothing /\ N <= SubSize /\ k < 5
            \/ N <= SubSize /\ k \in 5 .. N /\ p.consumed = k
      \/ N >= 2 /\ c \notin {"IAC", "WILL", "SB"} /\ p.consumed = 2
  <2> DEFINE text == SubSeq(data, 4, k - 2)
             d == data[3]
  <2>1. \/ p = Nothing /\ N < 2
        \/ p = Found(2, "data", NoCode, <<"IAC">>) /\ N >= 2 /\ c = "IAC"
        \/ /\ N >= 2 /\ c = "WILL"
           /\ \/ p = Nothing /\ N < 3
              \/ p = Found(3, "negotiate", "WILL", <<d>>) /\ N >= 3
        \/ /\ N >= 2 /\ c = "SB"
           /\ \/ p = Overflow /\ N > SubSize
              \/ p = Nothing /\ N <= SubSize /\ k < 5
              \/ N <= SubSize /\ k \in 5 .. N /\ p = Found(k, "subnegotiate", d, text)
        \/ N >= 2 /\ c \notin {"IAC", "WILL", "SB"} /\ p = Found(2, "command", c, << >>)
    BY CodeFound
  <2>2. /\ Found(2, "data", NoCode, <<"IAC">>).consumed = 2
        /\ Found(3, "negotiate", "WILL", <<d>>).consumed = 3
        /\ Found(k, "subnegotiate", d, text).consumed = k
        /\ Found(2, "command", c, << >>).consumed = 2
    BY DEF Found
  <2> HIDE DEF p, k, N, c, d, text
  <2> QED BY <2>1, <2>2
<1> HIDE DEF p, k, N, c
<1>3. CASE N >= 2 /\ c = "WILL" /\ p = Nothing /\ N < 3
  <2>1. N = 2
    BY <1>1, <1>3
  <2> QED BY <1>3, <2>1 DEF p, k, N, c
<1> QED BY <1>2, <1>3 DEF p, k, N, c

\* A message that is not complete is taken off the buffer with bytes of a later
\* read: at most what that read brought is left.
LEMMA ParseGrows ==
  ASSUME NEW old \in Seq(Bytes), NEW new \in Seq(Bytes), old # << >>, Head(old) = "IAC",
         Parse(old) = Nothing
  PROVE  Parse(old \o new).consumed = 0 \/ Parse(old \o new).consumed >= Len(old)
<1> DEFINE all == old \o new
           p == Parse(all)
           k == ScanUntilIacSe(all)
           j == ScanUntilIacSe(old)
           N == Len(old)
           M == Len(all)
           c == all[2]
<1>1. /\ all \in Seq(Bytes) /\ all # << >> /\ Head(all) = "IAC"
      /\ N \in Nat /\ N >= 1 /\ M \in Nat
      /\ N >= 2 => c = old[2]
  OBVIOUS
<1>2. IF j # 0 THEN k = j ELSE k = 0 \/ k > N
  BY ScanGrows
<1>3. j \in Nat
  BY ScanBounds
<1>4. Nothing.consumed = 0 /\ Overflow.consumed = 0 /\ Nothing # Overflow
  BY ParseTyped
<1>5. N < 2 \/ (N = 2 /\ old[2] = "WILL") \/ (N >= 2 /\ old[2] = "SB" /\ j < 5)
  BY <1>4, CodeConsumed
<1>6. \/ p = Nothing \/ p = Overflow
      \/ p.consumed = 2 /\ c = "IAC"
      \/ p.consumed = 3 /\ c = "WILL"
      \/ p.consumed = k /\ c = "SB" /\ k \in 5 .. M
      \/ p.consumed = 2 /\ c \notin {"IAC", "WILL", "SB"}
  <2> HIDE DEF all
  <2> QED BY <1>1, CodeConsumed
<1> HIDE DEF p, k, N, M, c, j
<1>7. p.consumed = 0 \/ p.consumed >= N
  <2>1. CASE N < 2
    BY <1>1, <1>4, <1>6, <2>1
  <2>2. CASE N = 2 /\ old[2] = "WILL"
    BY <1>1, <1>4, <1>6, <2>2
  <2>3. CASE N >= 2 /\ old[2] = "SB" /\ j < 5
    <3>1. k \in 5 .. M => k > N
      BY <1>1, <1>2, <1>3, <2>3
    <3> QED BY <1>1, <1>4, <1>6, <2>3, <3>1
  <2> QED BY <1>5, <2>1, <2>2, <2>3
<1> QED BY <1>7 DEF p, N

\* More bytes do not make an overflow undone.
LEMMA OverflowStays ==
  ASSUME NEW old \in Seq(Bytes), NEW new \in Seq(Bytes), Parse(old) = Overflow
  PROVE  /\ old # << >> /\ Head(old \o new) = Head(old)
         /\ Parse(old \o new) = Overflow
         /\ Head(old) # "IAC" => Len(old) > AppSize
<1> DEFINE all == old \o new
           N == Len(old)
           M == Len(all)
           c == all[2]
<1>1. old # << >>
  BY ParseTyped
<1>2. /\ all \in Seq(Bytes) /\ all # << >> /\ Head(all) = Head(old)
      /\ N \in Nat /\ M \in Nat /\ M >= N
      /\ N >= 2 => c = old[2]
  BY <1>1
<1>3. Nothing # Overflow /\ Overflow.consumed = 0
  BY ParseTyped
<1>4. CASE Head(old) # "IAC"
  <2> DEFINE m == ScanUntilIac(old)
  <2>1. /\ Parse(old) = IF N > AppSize THEN Overflow
                        ELSE Found(m, "data", NoCode, SubSeq(old, 1, m))
        /\ m > 0
    BY <1>1, <1>4, TextFound
  <2>2. N > AppSize
    <3>1. Found(m, "data", NoCode, SubSeq(old, 1, m)).consumed = m
      BY DEF Found
    <3> QED BY <1>3, <2>1, <3>1
  <2>3. M > AppSize
    BY <1>2, <2>2, SizesAssumption
  <2>4. Parse(all) = Overflow
    <3> HIDE DEF all
    <3> QED BY <1>2, <1>4, <2>3, TextFound
  <2> QED BY <1>1, <1>2, <2>2, <2>4
<1>5. CASE Head(old) = "IAC"
  <2>1. N >= 2 /\ old[2] = "SB" /\ N > SubSize
    BY <1>1, <1>3, <1>5, CodeConsumed
  <2>2. M >= 2 /\ c = "SB" /\ M > SubSize /\ ~ (M <= SubSize)
    BY <1>2, <2>1, SizesAssumption
  <2>3. Parse(all) = Overflow
    <3> HIDE DEF all
    <3>1. \/ Parse(all) = Nothing /\ M < 2
          \/ c = "IAC" \/ c = "WILL" \/ c \notin {"IAC", "WILL", "SB"}
          \/ Parse(all) = Overflow
          \/ M <= SubSize
      BY <1>2, <1>5, CodeConsumed
    <3>2. ~ (M < 2)
      BY <1>2, <2>2
    <3> QED BY <2>2, <3>1, <3>2
  <2> QED BY <1>1, <1>2, <1>5, <2>3
<1> QED BY <1>4, <1>5

\* Until a ProtocolError, text in the buffer is of the last read, and so is what is
\* behind a message that is complete.
Recent ==
  /\ failed => Parse(in_buffer) = Overflow
  /\ ~ failed /\ in_buffer # << >> =>
       IF Head(in_buffer) = "IAC"
         THEN Parse(in_buffer).consumed > 0 =>
                Len(in_buffer) - Parse(in_buffer).consumed <= largest
         ELSE Len(in_buffer) <= largest
  /\ OverflowIsOneRead

LEMMA RecentNext == TypeOK /\ Recent /\ [Next]_vars => Recent'
<1> SUFFICES ASSUME TypeOK, Recent, [Next]_vars PROVE Recent'
  OBVIOUS
<1> DEFINE found == Parse(in_buffer)
           k == found.consumed
<1>0. /\ in_buffer \in Seq(Bytes) /\ wire \in Seq(Bytes) /\ failed \in BOOLEAN
      /\ largest \in Nat /\ Len(in_buffer) \in Nat /\ Len(wire) \in Nat
      /\ k \in 0 .. Len(in_buffer) /\ k \in Nat
      /\ k = 0 <=> found \in {Nothing, Overflow}
      /\ Nothing # Overflow
  BY Types, ParseTyped
<1>1. CASE HandleMessage
  <2>1. /\ k > 0 /\ in_buffer' = SubSeq(in_buffer, k + 1, Len(in_buffer))
        /\ UNCHANGED <<failed, largest>>
    BY <1>1 DEF HandleMessage
  <2>2. ~ failed
    BY <1>0, <2>1 DEF Recent
  <2>3. in_buffer # << >>
    BY <1>0, <2>1
  <2>4. in_buffer' \in Seq(Bytes) /\ Len(in_buffer') = Len(in_buffer) - k
    <3> HIDE DEF k
    <3> QED BY <1>0, <2>1, Left
  <2> HIDE DEF found
  <2>5. Len(in_buffer') <= largest
    BY <1>0, <2>1, <2>2, <2>3, <2>4 DEF Recent, found
  <2>6. Parse(in_buffer').consumed \in 0 .. Len(in_buffer')
    BY <2>4, ParseTyped
  <2>7. Len(in_buffer') - Parse(in_buffer').consumed <= largest
    BY <1>0, <2>4, <2>5, <2>6
  <2> QED BY <2>1, <2>2, <2>5, <2>7 DEF Recent, OverflowIsOneRead
<1>2. CASE Fail
  <2>1. found = Overflow /\ ~ failed /\ failed' /\ UNCHANGED <<in_buffer, largest>>
    BY <1>2 DEF Fail
  <2>2. in_buffer # << >>
    BY <1>0, <2>1, ParseTyped
  <2>3. Head(in_buffer) # "IAC" => Len(in_buffer) > AppSize
    <3>1. << >> \in Seq(Bytes)
      OBVIOUS
    <3> QED BY <1>0, <2>1, <3>1, OverflowStays
  <2>4. Head(in_buffer) # "IAC" => Len(in_buffer) <= largest
    BY <2>1, <2>2 DEF Recent
  <2>5. Head(in_buffer) # "IAC" => largest > AppSize
    BY <1>0, <2>3, <2>4, SizesAssumption
  <2> QED BY <2>1, <2>5 DEF Recent, OverflowIsOneRead
<1>3. ASSUME NEW n \in 1 .. Len(wire), Receive(n) PROVE Recent'
  <2> DEFINE new == SubSeq(wire, 1, n)
             all == in_buffer \o new
  <2>1. n \in 0 .. Len(wire) /\ n \in Nat
    BY <1>0
  <2>2. new \in Seq(Bytes) /\ Len(new) = n
    BY <1>0, <2>1, Left
  <2>3. /\ k = 0 /\ (found = Overflow => failed)
        /\ in_buffer' = all /\ failed' = failed
        /\ largest' = IF n > largest THEN n ELSE largest
    BY <1>3 DEF Receive, Waiting
  <2> HIDE DEF new
  <2>4. all \in Seq(Bytes) /\ Len(all) = Len(in_buffer) + n
    BY <1>0, <2>2, ConcatProperties
  <2>5. Parse(all).consumed \in 0 .. Len(all)
    BY <2>4, ParseTyped
  <2>6. CASE failed
    <3>1. in_buffer # << >> /\ Head(all) = Head(in_buffer) /\ Parse(all) = Overflow
      BY <1>0, <2>2, <2>6, OverflowStays DEF Recent
    <3>2. largest' >= largest /\ largest' \in Nat
      BY <1>0, <2>1, <2>3
    <3>3. Head(all) # "IAC" => largest' > AppSize
      BY <1>0, <3>1, <3>2, <2>6, SizesAssumption DEF Recent, OverflowIsOneRead
    <3> QED BY <2>3, <2>6, <3>1, <3>3 DEF Recent, OverflowIsOneRead
  <2>7. CASE ~ failed
    <3>1. found = Nothing
      BY <1>0, <2>3, <2>7
    <3>2. n <= largest'
      BY <1>0, <2>1, <2>3
    <3>3. CASE in_buffer = << >>
      <4>1. Len(all) = n
        BY <2>1, <2>4, <3>3
      <4>2. Len(all) <= largest' /\ Len(all) - Parse(all).consumed <= largest'
        BY <1>0, <2>1, <2>3, <2>5, <3>2, <4>1
      <4> HIDE DEF all
      <4> QED BY <2>3, <2>7, <4>2 DEF Recent, OverflowIsOneRead
    <3>4. CASE in_buffer # << >>
      <4>1. Head(in_buffer) = "IAC"
        <5>1. ASSUME Head(in_buffer) # "IAC" PROVE FALSE
          <6> DEFINE m == ScanUntilIac(in_buffer)
          <6>1. /\ found = Overflow \/ found = Found(m, "data", NoCode, SubSeq(in_buffer, 1, m))
                /\ m > 0
            BY <1>0, <3>4, <5>1, TextFound
          <6>2. k = m
            BY <6>1, <1>0, <3>1 DEF Found
          <6> QED BY <6>1, <6>2, <2>3
        <5> QED BY <5>1
      <4>2. Head(all) = "IAC" /\ all # << >>
        BY <1>0, <2>2, <3>4, <4>1
      <4>3. Parse(all).consumed = 0 \/ Parse(all).consumed >= Len(in_buffer)
        BY <1>0, <2>2, <3>1, <3>4, <4>1, ParseGrows
      <4> HIDE DEF all, found
      <4>4. Parse(all).consumed > 0 => Len(all) - Parse(all).consumed <= largest'
        BY <1>0, <2>1, <2>3, <2>4, <2>5, <3>2, <4>3
      <4> QED BY <2>3, <2>7, <4>2, <4>4 DEF Recent, OverflowIsOneRead
    <3> QED BY <3>3, <3>4
  <2> QED BY <2>6, <2>7
<1>4. CASE UNCHANGED vars
  BY <1>4 DEF vars, Recent, OverflowIsOneRead
<1> QED BY <1>1, <1>2, <1>3, <1>4 DEF Next

\* Text never waits in the buffer, so a ProtocolError over text is a matter of one
\* read beyond application_buffer_size, whatever the sizes.
THEOREM OverflowCorrect == Spec => []OverflowIsOneRead
<1>1. Init => Recent
  BY DEF Init, Recent, OverflowIsOneRead
<1>2. TypeOK /\ Recent /\ [Next]_vars => Recent'
  BY RecentNext
<1>3. Recent => OverflowIsOneRead
  BY DEF Recent
<1> QED BY <1>1, <1>2, <1>3, TypeCorrect, PTL DEF Spec

-------------------------------------------------------------------------------
(* The reference *)

IsReading(bytes, after) ==
  after = [n \in 0 .. Len(bytes) |-> IF n = 0 THEN Blank ELSE Byte(after[n - 1], bytes[n])]
After(bytes) == CHOOSE after : IsReading(bytes, after)

LEMMA ReadingChosen ==
  ASSUME NEW bytes
  PROVE  Reading(bytes) = After(bytes)[Len(bytes)]
BY DEF Reading, After, IsReading

LEMMA ReadingExists ==
  ASSUME NEW S, NEW bytes \in Seq(S)
  PROVE  IsReading(bytes, After(bytes))
<1> DEFINE V(f, n) == IF n = 0 THEN Blank ELSE Byte(f[n - 1], bytes[n])
           UpTo(f, k) == f = [n \in 0 .. k |-> V(f, n)]
           T == {k \in Nat : \E f : UpTo(f, k)}
<1>1. Len(bytes) \in Nat
  OBVIOUS
<1>2. 0 \in T
  <2> DEFINE f == [n \in 0 .. 0 |-> Blank]
  <2>1. \A n \in 0 .. 0 : V(f, n) = Blank
    OBVIOUS
  <2>2. UpTo(f, 0)
    <3> HIDE DEF V
    <3> QED BY <2>1
  <2> QED BY <2>2
<1>3. ASSUME NEW k \in Nat, k \in T PROVE k + 1 \in T
  <2>1. PICK f : UpTo(f, k)
    BY <1>3
  <2> DEFINE g == [n \in 0 .. k + 1 |-> IF n = k + 1 THEN V(f, n) ELSE f[n]]
  <2>2. ASSUME NEW n \in 0 .. k + 1 PROVE g[n] = V(g, n)
    <3>1. g[n] = V(f, n)
      <4>1. CASE n = k + 1
        BY <4>1
      <4>2. CASE n \in 0 .. k
        <5> HIDE DEF V
        <5> QED BY <4>2, <2>1
      <4> QED BY <4>1, <4>2
    <3>2. n # 0 => n - 1 \in 0 .. k /\ g[n - 1] = f[n - 1]
      <4> HIDE DEF V
      <4> QED OBVIOUS
    <3> HIDE DEF g
    <3> QED BY <3>1, <3>2
  <2>3. UpTo(g, k + 1)
    <3>1. g = [n \in 0 .. k + 1 |-> g[n]]
      <4> HIDE DEF V
      <4> QED OBVIOUS
    <3> HIDE DEF g, V
    <3> QED BY <2>2, <3>1
  <2> HIDE DEF g, V
  <2> QED BY <2>3
<1>4. Len(bytes) \in T
  <2> HIDE DEF T
  <2> QED BY <1>1, <1>2, <1>3, Induction
<1>5. PICK f : UpTo(f, Len(bytes))
  BY <1>4
<1>6. IsReading(bytes, f)
  BY <1>5 DEF IsReading
<1> QED BY <1>6 DEF After

LEMMA ReadingTurns ==
  ASSUME NEW S, NEW bytes \in Seq(S), NEW n \in 0 .. Len(bytes)
  PROVE  /\ n = 0 => After(bytes)[n] = Blank
         /\ n # 0 => After(bytes)[n] = Byte(After(bytes)[n - 1], bytes[n])
<1> DEFINE f == After(bytes)
           V(k) == IF k = 0 THEN Blank ELSE Byte(f[k - 1], bytes[k])
<1>1. f = [k \in 0 .. Len(bytes) |-> V(k)]
  BY ReadingExists DEF IsReading
<1> HIDE DEF f
<1>2. f[n] = V(n)
  <2> HIDE DEF V
  <2> QED BY <1>1
<1> QED BY <1>2 DEF f

LEMMA ReadingSteps ==
  ASSUME NEW bytes \in Seq(Bytes), NEW b \in Bytes
  PROVE  Reading(Append(bytes, b)) = Byte(Reading(bytes), b)
<1> DEFINE more == Append(bytes, b)
           N == Len(bytes)
           f == After(bytes)
           g == After(more)
           T == {n \in Nat : n <= N => f[n] = g[n]}
<1>1. /\ more \in Seq(Bytes) /\ Len(more) = N + 1 /\ N \in Nat
      /\ more[N + 1] = b /\ \A n \in 1 .. N : more[n] = bytes[n]
  OBVIOUS
<1> HIDE DEF more
<1>2. ASSUME NEW n \in 0 .. N
      PROVE  (n = 0 => f[n] = Blank) /\ (n # 0 => f[n] = Byte(f[n - 1], bytes[n]))
  BY ReadingTurns
<1>3. ASSUME NEW n \in 0 .. N + 1
      PROVE  (n = 0 => g[n] = Blank) /\ (n # 0 => g[n] = Byte(g[n - 1], more[n]))
  BY <1>1, ReadingTurns
<1> HIDE DEF f, g, N
<1>4. 0 \in T
  <2>1. 0 \in 0 .. N /\ 0 \in 0 .. N + 1
    BY <1>1
  <2> QED BY <2>1, <1>2, <1>3
<1>5. ASSUME NEW n \in Nat, n \in T PROVE n + 1 \in T
  <2>1. CASE n + 1 <= N
    <3>1. n + 1 \in 0 .. N /\ n + 1 \in 0 .. N + 1 /\ n + 1 # 0 /\ (n + 1) - 1 = n
          /\ more[n + 1] = bytes[n + 1]
      BY <1>1, <2>1
    <3>2. f[n] = g[n]
      BY <1>1, <1>5, <2>1
    <3>3. f[n + 1] = Byte(f[n], bytes[n + 1])
      BY <3>1, <1>2
    <3>4. g[n + 1] = Byte(g[n], more[n + 1])
      BY <3>1, <1>3
    <3>5. f[n + 1] = g[n + 1]
      BY <3>1, <3>2, <3>3, <3>4
    <3> QED BY <3>5
  <2>2. CASE ~ (n + 1 <= N)
    BY <2>2
  <2> QED BY <2>1, <2>2
<1>6. f[N] = g[N]
  <2>1. N \in T
    <3> HIDE DEF T
    <3> QED BY <1>1, <1>4, <1>5, Induction
  <2>2. N <= N
    BY <1>1
  <2> QED BY <2>1, <2>2
<1>7. g[N + 1] = Byte(g[N], b)
  <2>1. N + 1 \in 0 .. N + 1 /\ N + 1 # 0 /\ (N + 1) - 1 = N
    BY <1>1
  <2> QED BY <1>1, <1>3, <2>1
<1>8. Reading(bytes) = f[N] /\ Reading(more) = g[N + 1]
  BY <1>1, ReadingChosen DEF f, g, N
<1> QED BY <1>6, <1>7, <1>8 DEF more

LEMMA ReadingNone == Reading(<< >>) = Blank
<1> DEFINE none == << >>
<1>1. none \in Seq(Bytes) /\ Len(none) = 0 /\ 0 \in 0 .. Len(none)
  OBVIOUS
<1> HIDE DEF none
<1>2. IsReading(none, After(none))
  BY <1>1, ReadingExists
<1>3. After(none)[0] = Blank
  BY <1>1, <1>2 DEF IsReading
<1>4. Reading(none) = Blank
  BY <1>1, <1>3, ReadingChosen
<1> QED BY <1>4 DEF none

States == [mode : {"text", "code", "negotiate", "option", "body", "body_code", "lost"},
           code : Bytes \cup {NoCode}, body : Seq(Bytes),
           line : Seq(Bytes), events : Seq(Events)]

\* What a byte does in each mode.
LEMMA ByteCases ==
  ASSUME NEW s \in States, NEW b \in Bytes
  PROVE  LET t == Byte(s, b) IN
         /\ t \in States
         /\ s.mode = "text" /\ b \notin {"IAC", "LF"} =>
              t.mode = "text" /\ t.events = s.events /\ t.line = Append(s.line, b)
         /\ s.mode = "text" /\ b = "LF" =>
              /\ t.mode = "text" /\ t.events = Append(s.events, TextLine(s.line))
              /\ t.line = << >>
         /\ s.mode = "text" /\ b = "IAC" =>
              t.mode = "code" /\ t.events = s.events /\ t.line = s.line
         /\ s.mode = "code" /\ b = "IAC" =>
              t.mode = "text" /\ t.events = s.events /\ t.line = Append(s.line, b)
         /\ s.mode = "code" /\ b = "SB" =>
              t.mode = "option" /\ t.events = s.events /\ t.line = s.line
         /\ s.mode = "code" /\ b = "WILL" =>
              t.mode = "negotiate" /\ t.events = s.events /\ t.line = s.line
         /\ s.mode = "code" /\ b \notin {"IAC", "SB", "WILL"} =>
              /\ t.mode = "text" /\ t.events = Append(s.events, Message("command", b, << >>))
              /\ t.line = s.line
         /\ s.mode = "negotiate" =>
              /\ t.mode = "text"
              /\ t.events = Append(s.events, Message("negotiate", "WILL", <<b>>))
              /\ t.line = s.line
         /\ s.mode = "option" /\ b = "IAC" => t.mode = "lost"
         /\ s.mode = "option" /\ b # "IAC" =>
              /\ t.mode = "body" /\ t.events = s.events /\ t.line = s.line
              /\ t.code = b /\ t.body = << >>
         /\ s.mode = "body" =>
              /\ t.mode = (IF b = "IAC" THEN "body_code" ELSE "body")
              /\ t.events = s.events /\ t.line = s.line
              /\ t.code = s.code /\ t.body = Append(s.body, b)
         /\ s.mode = "body_code" /\ b # "SE" =>
              /\ t.mode = "body" /\ t.events = s.events /\ t.line = s.line
              /\ t.code = s.code /\ t.body = Append(s.body, b)
         /\ s.mode = "body_code" /\ b = "SE" =>
              /\ t.mode = "text" /\ t.line = s.line
              /\ t.events = Append(s.events, Message("subnegotiate", s.code,
                                                     SubSeq(s.body, 1, Len(s.body) - 1)))
         /\ s.mode = "lost" => t.mode = "lost"
<1> DEFINE t == Byte(s, b)
<1>0. /\ s.mode \in {"text", "code", "negotiate", "option", "body", "body_code", "lost"}
      /\ s.code \in Bytes \cup {NoCode} /\ s.body \in Seq(Bytes) /\ s.line \in Seq(Bytes)
      /\ s.events \in Seq(Events)
      /\ DOMAIN s = {"mode", "code", "body", "line", "events"}
  BY DEF States
<1>1. CASE s.mode = "text" /\ b = "IAC"
  <2>1. t = [s EXCEPT !.mode = "code"]
    BY <1>1 DEF Byte, InMode
  <2> QED BY <1>1, <2>1 DEF States
<1>2. CASE s.mode = "text" /\ b = "LF"
  <2>1. t = [s EXCEPT !.mode = "text", !.events = Append(s.events, TextLine(s.line)),
                      !.line = << >>]
    BY <1>2 DEF Byte, Says, States
  <2>2. Append(s.events, TextLine(s.line)) \in Seq(Events) /\ << >> \in Seq(Bytes)
    <3>1. TextLine(s.line) \in Events
      BY <1>0, TextLineTyped
    <3> QED BY <1>0, <3>1
  <2> QED BY <1>2, <2>1, <2>2 DEF States
<1>3. CASE s.mode = "text" /\ b \notin {"IAC", "LF"}
  <2>1. t = [s EXCEPT !.line = Append(s.line, b)]
    BY <1>3 DEF Byte
  <2>2. Append(s.line, b) \in Seq(Bytes)
    BY <1>0
  <2> QED BY <1>3, <2>1, <2>2 DEF States
<1>4. CASE s.mode = "code" /\ b = "IAC"
  <2>1. t = [s EXCEPT !.mode = "text", !.line = Append(s.line, b)]
    BY <1>4 DEF Byte, InMode, States
  <2>2. Append(s.line, b) \in Seq(Bytes)
    BY <1>0
  <2> QED BY <1>4, <2>1, <2>2 DEF States
<1>5. CASE s.mode = "code" /\ b = "SB"
  <2>1. t = [s EXCEPT !.mode = "option"]
    BY <1>5 DEF Byte, InMode
  <2> QED BY <1>5, <2>1 DEF States
<1>6. CASE s.mode = "code" /\ b = "WILL"
  <2>1. t = [s EXCEPT !.mode = "negotiate"]
    BY <1>6 DEF Byte, InMode
  <2> QED BY <1>6, <2>1 DEF States
<1>7. CASE s.mode = "code" /\ b \notin {"IAC", "SB", "WILL"}
  <2> DEFINE m == Message("command", b, << >>)
  <2>1. t = [s EXCEPT !.mode = "text", !.events = Append(s.events, m)]
    BY <1>7 DEF Byte, Says
  <2>2. Append(s.events, m) \in Seq(Events)
    <3>1. m \in Events
      BY DEF Message, Events
    <3> HIDE DEF m
    <3> QED BY <1>0, <3>1
  <2> HIDE DEF m
  <2>3. /\ t \in States /\ t.mode = "text" /\ t.events = Append(s.events, m)
        /\ t.line = s.line
    BY <1>7, <2>1, <2>2 DEF States
  <2> HIDE DEF t
  <2> QED BY <1>7, <2>3 DEF m, t
<1>8. CASE s.mode = "negotiate"
  <2> DEFINE m == Message("negotiate", "WILL", <<b>>)
  <2>1. t = [s EXCEPT !.mode = "text", !.events = Append(s.events, m)]
    BY <1>8 DEF Byte, Says
  <2>2. Append(s.events, m) \in Seq(Events)
    <3>1. m \in Events
      BY DEF Message, Events, Bytes
    <3> HIDE DEF m
    <3> QED BY <1>0, <3>1
  <2> HIDE DEF m
  <2>3. /\ t \in States /\ t.mode = "text" /\ t.events = Append(s.events, m)
        /\ t.line = s.line
    BY <1>8, <2>1, <2>2 DEF States
  <2> HIDE DEF t
  <2> QED BY <1>8, <2>3 DEF m, t
<1>9. CASE s.mode = "option" /\ b = "IAC"
  <2>1. t = [s EXCEPT !.mode = "lost"]
    BY <1>9 DEF Byte, InMode
  <2> QED BY <1>9, <2>1 DEF States
<1>10. CASE s.mode = "option" /\ b # "IAC"
  <2>1. t = [s EXCEPT !.mode = "body", !.code = b, !.body = << >>]
    BY <1>10 DEF Byte
  <2>2. << >> \in Seq(Bytes)
    OBVIOUS
  <2> QED BY <1>10, <2>1, <2>2 DEF States
<1>11. CASE s.mode = "body"
  <2> DEFINE mode == IF b = "IAC" THEN "body_code" ELSE "body"
  <2>1. t = [s EXCEPT !.mode = mode, !.body = Append(s.body, b)]
    BY <1>11 DEF Byte
  <2>2. Append(s.body, b) \in Seq(Bytes) /\ mode \in {"body", "body_code"}
    BY <1>0
  <2> QED BY <1>11, <2>1, <2>2 DEF States
<1>12. CASE s.mode = "body_code" /\ b # "SE"
  <2>1. t = [s EXCEPT !.mode = "body", !.body = Append(s.body, b)]
    BY <1>12 DEF Byte
  <2>2. Append(s.body, b) \in Seq(Bytes)
    BY <1>0
  <2> QED BY <1>12, <2>1, <2>2 DEF States
<1>13. CASE s.mode = "body_code" /\ b = "SE"
  <2> DEFINE m == Message("subnegotiate", s.code, SubSeq(s.body, 1, Len(s.body) - 1))
  <2>1. t = [s EXCEPT !.mode = "text", !.events = Append(s.events, m)]
    BY <1>13 DEF Byte, Says
  <2>2. Append(s.events, m) \in Seq(Events)
    <3>1. SubSeq(s.body, 1, Len(s.body) - 1) \in Seq(Bytes)
      <4>1. /\ 1 \in Int /\ Len(s.body) - 1 \in Int
            /\ \A i \in 1 .. Len(s.body) - 1 : s.body[i] \in Bytes
        BY <1>0
      <4> QED BY <4>1, SubSeqProperties
    <3>2. m \in Events
      BY <1>0, <3>1 DEF Message, Events
    <3> HIDE DEF m
    <3> QED BY <1>0, <3>2
  <2> HIDE DEF m
  <2>3. /\ t \in States /\ t.mode = "text" /\ t.events = Append(s.events, m)
        /\ t.line = s.line
    BY <1>13, <2>1, <2>2 DEF States
  <2> HIDE DEF t
  <2> QED BY <1>13, <2>3 DEF m, t
<1>14. CASE s.mode = "lost"
  <2>1. t = s
    BY <1>14 DEF Byte
  <2> QED BY <1>14, <2>1
<1> QED BY <1>0, <1>1, <1>2, <1>3, <1>4, <1>5, <1>6, <1>7, <1>8, <1>9, <1>10, <1>11, <1>12,
           <1>13, <1>14

LEMMA ReadingTyped ==
  ASSUME NEW bytes \in Seq(Bytes)
  PROVE  Reading(bytes) \in States
<1> DEFINE T == {q \in Seq(Bytes) : Reading(q) \in States}
<1>1. << >> \in T
  <2>1. << >> \in Seq(Bytes) /\ << >> \in Seq(Events)
    OBVIOUS
  <2>2. Blank \in States
    BY <2>1 DEF Blank, States
  <2> QED BY <2>1, <2>2, ReadingNone
<1>2. ASSUME NEW q \in Seq(Bytes), NEW b \in Bytes, q \in T PROVE Append(q, b) \in T
  <2>1. Reading(Append(q, b)) = Byte(Reading(q), b) /\ Append(q, b) \in Seq(Bytes)
    BY ReadingSteps
  <2>2. Byte(Reading(q), b) \in States
    BY <1>2, ByteCases
  <2> QED BY <2>1, <2>2
<1> HIDE DEF T
<1>3. bytes \in T
  BY <1>1, <1>2, BuildUp
<1> QED BY <1>3 DEF T

LEMMA Associative ==
  ASSUME NEW S, NEW a \in Seq(S), NEW b \in Seq(S), NEW c \in Seq(S)
  PROVE  (a \o b) \o c = a \o (b \o c)
BY ConcatAssociative

LEMMA JoinMore ==
  ASSUME NEW S, NEW p \in Seq(S), NEW q \in Seq(S), NEW b \in S
  PROVE  /\ p \o Append(q, b) = Append(p \o q, b) /\ p \o q \in Seq(S)
         /\ Append(q, b) \in Seq(S)
<1>1. p \o q \in Seq(S) /\ <<b>> \in Seq(S) /\ Append(q, b) \in Seq(S)
  OBVIOUS
<1>2. Append(q, b) = q \o <<b>> /\ Append(p \o q, b) = (p \o q) \o <<b>>
  BY <1>1, AppendIsConcat
<1>3. (p \o q) \o <<b>> = p \o (q \o <<b>>)
  BY <1>1, Associative
<1> QED BY <1>1, <1>2, <1>3

\* What is lost stays lost.
LEMMA LostStays ==
  ASSUME NEW p \in Seq(Bytes), NEW q \in Seq(Bytes), Reading(p).mode = "lost"
  PROVE  Reading(p \o q).mode = "lost"
<1> DEFINE T == {r \in Seq(Bytes) : Reading(p \o r).mode = "lost"}
<1>1. << >> \in T
  <2>1. << >> \in Seq(Bytes) /\ p \o << >> = p
    BY ConcatEmptySeq
  <2> QED BY <2>1
<1>2. ASSUME NEW r \in Seq(Bytes), NEW b \in Bytes, r \in T PROVE Append(r, b) \in T
  <2>1. p \o Append(r, b) = Append(p \o r, b) /\ p \o r \in Seq(Bytes)
        /\ Append(r, b) \in Seq(Bytes)
    BY JoinMore
  <2>2. Reading(Append(p \o r, b)) = Byte(Reading(p \o r), b) /\ Reading(p \o r) \in States
    BY <2>1, ReadingSteps, ReadingTyped
  <2>3. Byte(Reading(p \o r), b).mode = "lost"
    BY <1>2, <2>2, ByteCases
  <2> QED BY <2>1, <2>2, <2>3
<1> HIDE DEF T
<1>3. q \in T
  BY <1>1, <1>2, BuildUp
<1> QED BY <1>3 DEF T

\* The reference behind p and the first j bytes of data.
At(p, data, j) == Reading(p \o SubSeq(data, 1, j))

LEMMA AtSteps ==
  ASSUME NEW p \in Seq(Bytes), NEW data \in Seq(Bytes)
  PROVE  /\ At(p, data, 0) = Reading(p)
         /\ At(p, data, Len(data)) = Reading(p \o data)
         /\ \A j \in 0 .. Len(data) : At(p, data, j) \in States
         /\ \A j \in 1 .. Len(data) : At(p, data, j) = Byte(At(p, data, j - 1), data[j])
         /\ \A j \in 1 .. Len(data) : data[j] \in Bytes
<1>1. At(p, data, 0) = Reading(p)
  <2>1. SubSeq(data, 1, 0) = << >>
    <3>1. 1 \in Int /\ 0 \in Int /\ 0 < 1
      OBVIOUS
    <3> QED BY <3>1, SubSeqEmpty
  <2>2. p \o << >> = p
    BY ConcatEmptySeq
  <2> QED BY <2>1, <2>2 DEF At
<1>2. At(p, data, Len(data)) = Reading(p \o data)
  BY SubSeqFull DEF At
<1>3. ASSUME NEW j \in 0 .. Len(data)
      PROVE  SubSeq(data, 1, j) \in Seq(Bytes) /\ At(p, data, j) \in States
  <2>1. SubSeq(data, 1, j) \in Seq(Bytes)
    BY Left
  <2>2. p \o SubSeq(data, 1, j) \in Seq(Bytes)
    <3> DEFINE r == SubSeq(data, 1, j)
    <3> HIDE DEF r
    <3>1. r \in Seq(Bytes)
      BY <2>1 DEF r
    <3>2. p \o r \in Seq(Bytes)
      BY <3>1
    <3> QED BY <3>2 DEF r
  <2> QED BY <2>1, <2>2, ReadingTyped DEF At
<1>4. ASSUME NEW j \in 1 .. Len(data)
      PROVE  At(p, data, j) = Byte(At(p, data, j - 1), data[j]) /\ data[j] \in Bytes
  <2> DEFINE r == SubSeq(data, 1, j - 1)
             b == data[j]
  <2>1. j - 1 \in 0 .. Len(data) /\ b \in Bytes
    OBVIOUS
  <2>2. r \in Seq(Bytes)
    BY <2>1, <1>3
  <2>3. SubSeq(data, 1, j) = r \o <<b>>
    <3>1. 1 \in 1 .. Len(data) /\ j \in 1 .. Len(data)
      OBVIOUS
    <3> QED BY <3>1, SubSeqRecursiveSecond
  <2> HIDE DEF r, b
  <2>4. r \o <<b>> = Append(r, b)
    BY <2>1, <2>2, AppendIsConcat
  <2>5. p \o Append(r, b) = Append(p \o r, b) /\ p \o r \in Seq(Bytes)
    BY <2>1, <2>2, JoinMore
  <2>6. Reading(Append(p \o r, b)) = Byte(Reading(p \o r), b)
    BY <2>1, <2>5, ReadingSteps
  <2> QED BY <2>1, <2>3, <2>4, <2>5, <2>6 DEF At, r, b
<1> QED BY <1>1, <1>2, <1>3, <1>4

\* Text is cut into the same lines byte by byte and all at once.
LEMMA TextRead ==
  ASSUME NEW p \in Seq(Bytes), NEW app \in Seq(Bytes), NEW said \in Seq(Events),
         NEW text \in Seq(Bytes), \A i \in 1 .. Len(text) : text[i] # "IAC",
         Reading(p).mode = "text", Reading(p).events = said, Reading(p).line = app,
         Lines(app) = << >>, Rest(app) = app
  PROVE  /\ Reading(p \o text).mode = "text"
         /\ Reading(p \o text).events = said \o Lines(app \o text)
         /\ Reading(p \o text).line = Rest(app \o text)
<1> DEFINE P(q) == /\ Reading(p \o q).mode = "text"
                   /\ Reading(p \o q).events = said \o Lines(app \o q)
                   /\ Reading(p \o q).line = Rest(app \o q)
           T == {q \in Seq(Bytes) : (\A i \in 1 .. Len(q) : q[i] # "IAC") => P(q)}
<1>1. << >> \in T
  <2>1. << >> \in Seq(Bytes) /\ p \o << >> = p /\ app \o << >> = app /\ said \o << >> = said
    BY ConcatEmptySeq
  <2>2. P(<< >>)
    BY <2>1
  <2> QED BY <2>1, <2>2
<1>2. ASSUME NEW q \in Seq(Bytes), NEW b \in Bytes, q \in T PROVE Append(q, b) \in T
  <2> DEFINE r == p \o q
             a == app \o q
             s == Reading(r)
             more == Append(q, b)
  <2>1. /\ p \o more = Append(r, b) /\ r \in Seq(Bytes)
        /\ app \o more = Append(a, b) /\ a \in Seq(Bytes) /\ more \in Seq(Bytes)
    <3>1. p \o more = Append(r, b) /\ r \in Seq(Bytes) /\ more \in Seq(Bytes)
      BY JoinMore
    <3>2. app \o more = Append(a, b) /\ a \in Seq(Bytes)
      BY JoinMore
    <3> QED BY <3>1, <3>2
  <2>2. Reading(Append(r, b)) = Byte(s, b) /\ s \in States
    BY <2>1, ReadingSteps, ReadingTyped
  <2>3. ASSUME \A i \in 1 .. Len(more) : more[i] # "IAC" PROVE P(more)
    <3>1. b # "IAC" /\ \A i \in 1 .. Len(q) : q[i] # "IAC"
      <4>1. /\ Len(more) = Len(q) + 1 /\ Len(q) \in Nat /\ more[Len(q) + 1] = b
            /\ \A i \in 1 .. Len(q) : i \in 1 .. Len(q) + 1 /\ more[i] = q[i]
        BY AppendProperties
      <4>2. Len(q) + 1 \in 1 .. Len(q) + 1
        BY <4>1
      <4> HIDE DEF more
      <4> QED BY <2>3, <4>1, <4>2
    <3>2. s.mode = "text" /\ s.events = said \o Lines(a) /\ s.line = Rest(a)
      BY <1>2, <3>1
    <3>3. Lines(a) \in Seq(Events) /\ Rest(a) \in Seq(Bytes)
      BY <2>1, LinesTyped
    <3> HIDE DEF r, a, s, more
    <3>4. CASE b = "LF"
      <4> DEFINE l == TextLine(Rest(a))
      <4>1. Lines(Append(a, b)) = Append(Lines(a), l) /\ Rest(Append(a, b)) = << >>
        BY <2>1, <3>4, CutOne
      <4>2. /\ Byte(s, b).mode = "text" /\ Byte(s, b).events = Append(s.events, l)
            /\ Byte(s, b).line = << >>
        <5>1. /\ Byte(s, b).mode = "text" /\ Byte(s, b).line = << >>
              /\ Byte(s, b).events = Append(s.events, TextLine(s.line))
          BY <2>2, <3>2, <3>4, ByteCases
        <5> QED BY <5>1, <3>2
      <4>3. l \in Events
        BY <3>3, TextLineTyped
      <4> HIDE DEF l
      <4>4. Append(said \o Lines(a), l) = said \o Append(Lines(a), l)
        <5> DEFINE m == Lines(a)
        <5>1. m \in Seq(Events)
          BY <3>3
        <5> HIDE DEF m
        <5>2. said \o Append(m, l) = Append(said \o m, l)
          BY <4>3, <5>1, JoinMore
        <5> QED BY <5>2 DEF m
      <4> QED BY <2>1, <2>2, <3>2, <4>1, <4>2, <4>4
    <3>5. CASE b # "LF"
      <4>1. Lines(Append(a, b)) = Lines(a) /\ Rest(Append(a, b)) = Append(Rest(a), b)
        BY <2>1, <3>5, CutOne
      <4>2. /\ Byte(s, b).mode = "text" /\ Byte(s, b).events = s.events
            /\ Byte(s, b).line = Append(s.line, b)
        BY <2>2, <3>1, <3>2, <3>5, ByteCases
      <4> QED BY <2>1, <2>2, <3>2, <4>1, <4>2
    <3> QED BY <3>4, <3>5
  <2> HIDE DEF P
  <2> QED BY <2>1, <2>3
<1> HIDE DEF T, P
<1>3. text \in T
  BY <1>1, <1>2, BuildUp
<1>4. P(text)
  BY <1>3 DEF T
<1> QED BY <1>4 DEF P

\* A line that has begun is not cut again.
LEMMA RestStays ==
  ASSUME NEW app \in Seq(Bytes)
  PROVE  Lines(Rest(app)) = << >> /\ Rest(Rest(app)) = Rest(app)
<1> DEFINE T == {q \in Seq(Bytes) : Lines(Rest(q)) = << >> /\ Rest(Rest(q)) = Rest(q)}
<1>0. /\ << >> \in Seq(Bytes) /\ "x" \in Bytes
      /\ Lines(<< >>) = << >> /\ Rest(<< >>) = << >>
  <2>1. << >> \in Seq(Bytes) /\ "x" \in Bytes
    BY DEF Bytes
  <2> QED BY <2>1, CutOne
<1>1. << >> \in T
  BY <1>0
<1>2. ASSUME NEW q \in Seq(Bytes), NEW b \in Bytes, q \in T PROVE Append(q, b) \in T
  <2> DEFINE r == Rest(q)
             more == Append(q, b)
  <2>1. r \in Seq(Bytes) /\ more \in Seq(Bytes) /\ Lines(r) = << >> /\ Rest(r) = r
    BY <1>2, LinesTyped
  <2>2. CASE b = "LF"
    <3>1. Rest(more) = << >>
      BY <2>2, CutOne
    <3> QED BY <1>0, <2>1, <3>1
  <2>3. CASE b # "LF"
    <3>1. Rest(more) = Append(r, b)
      BY <2>3, CutOne
    <3> HIDE DEF r
    <3>2. Lines(Append(r, b)) = Lines(r) /\ Rest(Append(r, b)) = Append(Rest(r), b)
      BY <2>1, <2>3, CutOne
    <3>3. Lines(Append(r, b)) = << >> /\ Rest(Append(r, b)) = Append(r, b)
      BY <2>1, <3>2
    <3> HIDE DEF more
    <3>4. more \in T
      BY <2>1, <3>1, <3>3
    <3> QED BY <3>4 DEF more
  <2> QED BY <2>2, <2>3
<1> HIDE DEF T
<1>3. app \in T
  BY <1>1, <1>2, BuildUp
<1> QED BY <1>3 DEF T

\* The cases of a byte that a subnegotiation goes through, one by one.
LEMMA CodeFollows ==
  ASSUME NEW s \in States, s.mode = "text", NEW u, u = Byte(s, "IAC")
  PROVE  u.mode = "code" /\ u.events = s.events /\ u.line = s.line
<1>1. "IAC" \in Bytes
  BY DEF Bytes
<1> QED BY <1>1, ByteCases

LEMMA OptionFollows ==
  ASSUME NEW s \in States, s.mode = "code", NEW u, u = Byte(s, "SB")
  PROVE  u.mode = "option" /\ u.events = s.events /\ u.line = s.line
<1>1. "SB" \in Bytes
  BY DEF Bytes
<1> QED BY <1>1, ByteCases

LEMMA LostFollows ==
  ASSUME NEW s \in States, NEW b \in Bytes, NEW u, u = Byte(s, b),
         s.mode = "lost" \/ (s.mode = "option" /\ b = "IAC")
  PROVE  u.mode = "lost"
BY ByteCases

LEMMA BodyBegins ==
  ASSUME NEW s \in States, NEW b \in Bytes, s.mode = "option", b # "IAC",
         NEW u, u = Byte(s, b)
  PROVE  /\ u.mode = "body" /\ u.events = s.events /\ u.line = s.line
         /\ u.code = b /\ u.body = << >>
<1>1. u = [s EXCEPT !.mode = "body", !.code = b, !.body = << >>]
  BY DEF Byte
<1>2. DOMAIN s = {"mode", "code", "body", "line", "events"}
  BY DEF States
<1> QED BY <1>1, <1>2

LEMMA BodyGrows ==
  ASSUME NEW s \in States, NEW b \in Bytes, NEW u, u = Byte(s, b),
         s.mode = "body" \/ (s.mode = "body_code" /\ b # "SE")
  PROVE  /\ s.mode = "body" => u.mode = (IF b = "IAC" THEN "body_code" ELSE "body")
         /\ s.mode = "body_code" => u.mode = "body"
         /\ u.events = s.events /\ u.line = s.line
         /\ u.code = s.code /\ u.body = Append(s.body, b)
<1> DEFINE more == Append(s.body, b)
           mode == IF s.mode = "body" /\ b = "IAC" THEN "body_code" ELSE "body"
<1>1. u = [s EXCEPT !.mode = mode, !.body = more]
  <2>1. CASE s.mode = "body"
    BY <2>1 DEF Byte
  <2>2. CASE s.mode = "body_code" /\ b # "SE"
    BY <2>2 DEF Byte
  <2> QED BY <2>1, <2>2
<1>2. DOMAIN s = {"mode", "code", "body", "line", "events"}
  BY DEF States
<1> HIDE DEF more
<1>3. /\ u.mode = mode /\ u.events = s.events /\ u.line = s.line
      /\ u.code = s.code /\ u.body = more
  BY <1>1, <1>2
<1> QED BY <1>3 DEF more

LEMMA BodyEnds ==
  ASSUME NEW s \in States, s.mode = "body_code", NEW u, u = Byte(s, "SE")
  PROVE  /\ u.mode = "text" /\ u.line = s.line
         /\ u.events = Append(s.events, Message("subnegotiate", s.code,
                                                SubSeq(s.body, 1, Len(s.body) - 1)))
<1> DEFINE m == Message("subnegotiate", s.code, SubSeq(s.body, 1, Len(s.body) - 1))
<1>1. u = [s EXCEPT !.mode = "text", !.events = Append(s.events, m)]
  BY DEF Byte, Says
<1>2. DOMAIN s = {"mode", "code", "body", "line", "events"}
  BY DEF States
<1> HIDE DEF m
<1>3. u.mode = "text" /\ u.line = s.line /\ u.events = Append(s.events, m)
  BY <1>1, <1>2
<1> QED BY <1>3 DEF m

\* A subnegotiation is over for the reference where it is for the scan; and if the
\* scan finds no end the reference is still in it.
LEMMA SubnegotiationRead ==
  ASSUME NEW p \in Seq(Bytes), NEW data \in Seq(Bytes), Len(data) >= 2,
         data[1] = "IAC", data[2] = "SB", Reading(p).mode = "text"
  PROVE  LET s == Reading(p)
             n == ScanUntilIacSe(data)
             all == Reading(p \o data)
             t == At(p, data, n)
         IN  /\ n < 5 => all.mode = "lost" \/ all.events = s.events
             /\ n >= 5 => \/ t.mode = "lost"
                          \/ /\ t.mode = "text" /\ t.line = s.line
                             /\ t.events =
                                  Append(s.events, Message("subnegotiate", data[3],
                                                           SubSeq(data, 4, n - 2)))
<1> DEFINE s == Reading(p)
           n == ScanUntilIacSe(data)
           N == Len(data)
           a(j) == At(p, data, j)
           f == Scan(data)
           Inside(j) ==
             /\ a(j).events = s.events /\ a(j).line = s.line
             /\ a(j).code = data[3] /\ a(j).body = SubSeq(data, 4, j)
             /\ \/ a(j).mode = "body" /\ f[j + 1] = n
                \/ a(j).mode = "body_code" /\ data[j] = "IAC" /\ f[j] = n /\ j >= 4
<1>1. /\ N \in Nat /\ a(0) = s /\ a(N) = Reading(p \o data)
      /\ \A j \in 0 .. N : a(j) \in States
      /\ \A j \in 1 .. N : a(j) = Byte(a(j - 1), data[j]) /\ data[j] \in Bytes
  BY AtSteps
<1>0. N \in Nat /\ N >= 2
  OBVIOUS
<1>2. ASSUME NEW i \in 1 .. N + 1
      PROVE  /\ i >= N => f[i] = 0
             /\ i < N /\ data[i] = "IAC" /\ data[i + 1] = "SE" => f[i] = i + 1
             /\ i < N /\ data[i] = "IAC" /\ data[i + 1] = "IAC" => f[i] = f[i + 2]
             /\ i < N /\ data[i] = "IAC" /\ data[i + 1] \notin {"IAC", "SE"} => f[i] = f[i + 1]
             /\ i < N /\ data[i] # "IAC" => f[i] = f[i + 1]
             /\ f[i] = 0 \/ f[i] \in i + 1 .. N
  <2>1. f[i] = Turn(data, f, i) /\ (f[i] = 0 \/ f[i] \in i + 1 .. N)
    BY ScanTurns
  <2> HIDE DEF f
  <2> QED BY <1>1, <2>1 DEF Turn
<1>3. n = f[1]
  BY ScanChosen
<1>4. a(1).mode = "code" /\ a(1).events = s.events /\ a(1).line = s.line
  <2>1. 1 \in 1 .. N /\ 1 - 1 = 0 /\ 0 \in 0 .. N
    BY <1>1
  <2>2. a(1) = Byte(s, "IAC") /\ s \in States /\ s.mode = "text"
    <3>1. a(1) = Byte(a(1 - 1), data[1]) /\ a(0) \in States
      BY <1>1, <2>1
    <3> HIDE DEF a, s
    <3>2. s.mode = "text"
      BY DEF s
    <3> QED BY <1>1, <2>1, <3>1, <3>2
  <2> HIDE DEF a, s
  <2> QED BY <2>2, CodeFollows
<1>5. a(2).mode = "option" /\ a(2).events = s.events /\ a(2).line = s.line
  <2>1. 2 \in 1 .. N /\ 2 - 1 = 1 /\ 1 \in 0 .. N
    BY <1>1
  <2>2. a(2) = Byte(a(1), "SB") /\ a(1) \in States
    BY <1>1, <2>1
  <2> HIDE DEF a, s
  <2>3. a(2).mode = "option" /\ a(2).events = a(1).events /\ a(2).line = a(1).line
    BY <1>4, <2>2, OptionFollows
  <2> QED BY <1>4, <2>3
<1> HIDE DEF a, f, n, s
<1>6. N >= 3 => n = f[3]
  <2>1. 1 \in 1 .. N + 1 /\ 2 \in 1 .. N + 1 /\ 1 < N /\ "SB" \notin {"IAC", "SE"}
    BY <1>1
  <2>2. f[1] = f[1 + 1]
    BY <1>2, <2>1
  <2>3. N >= 3 => f[2] = f[2 + 1]
    BY <1>1, <1>2, <2>1
  <2> QED BY <1>3, <2>2, <2>3
<1>7. CASE N < 3
  <2>1. N = 2 /\ a(N).events = s.events
    <3>1. N = 2
      <4> HIDE DEF N
      <4> QED BY <1>0, <1>7
    <3> HIDE DEF N
    <3> QED BY <1>5, <3>1
  <2>2. n = 0
    <3>1. 1 \in 1 .. N + 1
      BY <1>1
    <3>2. f[1] = 0 \/ f[1] = 2
      BY <1>2, <2>1, <3>1
    <3>3. 2 \in 1 .. N + 1 /\ 2 >= N /\ 1 < N
      BY <2>1
    <3>4. f[1] = f[1 + 1] /\ f[2] = 0
      BY <1>2, <3>1, <3>3
    <3> QED BY <1>3, <3>4
  <2> QED BY <1>1, <2>1, <2>2 DEF s, n
<1>8. CASE N >= 3 /\ data[3] = "IAC"
  <2>1. a(3).mode = "lost"
    <3>1. 3 \in 1 .. N /\ 3 - 1 = 2 /\ 2 \in 0 .. N
      BY <1>1, <1>8
    <3>2. a(3) = Byte(a(2), "IAC") /\ a(2) \in States /\ "IAC" \in Bytes
      BY <1>1, <1>8, <3>1
    <3>3. "IAC" \in Bytes
      BY DEF Bytes
    <3> QED BY <1>5, <3>2, <3>3, LostFollows
  <2>2. \A j \in Nat : j >= 3 /\ j <= N => a(j).mode = "lost"
    <3> DEFINE T == {j \in Nat : j >= 3 /\ j <= N => a(j).mode = "lost"}
    <3>1. 0 \in T
      OBVIOUS
    <3>2. ASSUME NEW j \in Nat, j \in T PROVE j + 1 \in T
      <4>1. CASE j + 1 = 3
        BY <2>1, <4>1
      <4>2. CASE j >= 3 /\ j + 1 <= N
        <5>1. j + 1 \in 1 .. N /\ (j + 1) - 1 = j /\ j \in 0 .. N /\ a(j).mode = "lost"
          BY <1>1, <3>2, <4>2
        <5>2. a(j + 1) = Byte(a(j), data[j + 1]) /\ a(j) \in States /\ data[j + 1] \in Bytes
          BY <1>1, <5>1
        <5>3. a(j + 1).mode = "lost"
          BY <5>1, <5>2, LostFollows
        <5> QED BY <5>3
      <4>3. CASE ~ (j + 1 >= 3) \/ ~ (j + 1 <= N)
        BY <4>3
      <4> QED BY <4>1, <4>2, <4>3
    <3> HIDE DEF T
    <3>3. Nat \subseteq T
      BY <3>1, <3>2, Induction
    <3> QED BY <3>3 DEF T
  <2>3. a(N).mode = "lost"
    BY <1>1, <1>8, <2>2
  <2>4. n >= 5 => a(n).mode = "lost"
    <3>1. 1 \in 1 .. N + 1
      BY <1>1
    <3>2. n = 0 \/ n \in 2 .. N
      BY <1>2, <1>3, <3>1
    <3> QED BY <1>1, <3>2, <2>2
  <2> QED BY <1>1, <2>3, <2>4 DEF s, n, a
<1>9. CASE N >= 3 /\ data[3] # "IAC"
  <2>1. Inside(3)
    <3>1. 3 \in 1 .. N /\ 3 - 1 = 2 /\ 2 \in 0 .. N
      BY <1>1, <1>9
    <3>2. a(3) = Byte(a(2), data[3]) /\ a(2) \in States /\ data[3] \in Bytes
      BY <1>1, <1>9, <3>1
    <3>3. /\ a(3).mode = "body" /\ a(3).events = s.events /\ a(3).line = s.line
          /\ a(3).code = data[3] /\ a(3).body = << >>
      <4> DEFINE b == data[3]
      <4> HIDE DEF b
      <4>1. a(3) = Byte(a(2), b) /\ a(2) \in States /\ b \in Bytes /\ b # "IAC"
        BY <1>9, <3>2 DEF b
      <4>2. /\ a(3).mode = "body" /\ a(3).events = a(2).events /\ a(3).line = a(2).line
            /\ a(3).code = b /\ a(3).body = << >>
        BY <1>5, <4>1, BodyBegins
      <4> QED BY <1>5, <4>2 DEF b
    <3>4. SubSeq(data, 4, 3) = << >>
      <4>1. 4 \in Int /\ 3 \in Int /\ 3 < 4
        OBVIOUS
      <4> QED BY <4>1, SubSeqEmpty
    <3>5. f[3 + 1] = n
      <4>1. 3 \in 1 .. N + 1 /\ 4 \in 1 .. N + 1
        BY <1>1, <1>9
      <4>2. CASE 3 < N
        BY <1>2, <1>6, <1>9, <4>1, <4>2
      <4>3. CASE ~ (3 < N)
        <5>1. 3 >= N /\ 4 >= N
          BY <1>1, <1>9, <4>3
        <5>2. f[3] = 0 /\ f[4] = 0
          BY <1>2, <4>1, <5>1
        <5> QED BY <1>6, <1>9, <5>2
      <4> QED BY <4>2, <4>3
    <3> QED BY <3>3, <3>4, <3>5
  <2>2. ASSUME NEW j \in 3 .. N - 1, Inside(j), n # j + 1 PROVE Inside(j + 1)
    <3> DEFINE b == data[j + 1]
    <3>1. /\ j \in Nat /\ j + 1 \in 1 .. N /\ (j + 1) - 1 = j /\ j \in 0 .. N /\ j < N
          /\ j \in 1 .. N + 1 /\ j + 1 \in 1 .. N + 1 /\ (j + 1) + 1 \in 1 .. N + 1
          /\ j + 2 = (j + 1) + 1 /\ j + 1 >= 4
      BY <1>1
    <3>2. a(j + 1) = Byte(a(j), b) /\ a(j) \in States /\ b \in Bytes
      BY <1>1, <3>1
    <3>3. Append(SubSeq(data, 4, j), b) = SubSeq(data, 4, j + 1)
      <4>1. 4 \in 1 .. N /\ j + 1 \in 4 .. N
        BY <1>1, <3>1
      <4>2. SubSeq(data, 4, j + 1) = SubSeq(data, 4, j) \o <<b>>
        BY <4>1, <3>1, SubSeqRecursiveSecond
      <4>3. 4 \in 1 .. N + 1
        BY <1>1, <4>1
      <4>4. SubSeq(data, 4, j) \in Seq(Bytes)
        BY <3>1, <4>3, Slice
      <4> HIDE DEF b
      <4> QED BY <3>2, <4>2, <4>4, AppendIsConcat
    <3> HIDE DEF b
    <3>4. CASE a(j).mode = "body" /\ f[j + 1] = n
      <4>1. /\ a(j + 1).mode = (IF b = "IAC" THEN "body_code" ELSE "body")
            /\ a(j + 1).events = a(j).events /\ a(j + 1).line = a(j).line
            /\ a(j + 1).code = a(j).code /\ a(j + 1).body = Append(a(j).body, b)
        BY <3>2, <3>4, BodyGrows
      <4>2. b # "IAC" => f[(j + 1) + 1] = n
        <5>1. CASE j + 1 < N
          BY <1>2, <3>1, <3>4, <5>1 DEF b
        <5>2. CASE ~ (j + 1 < N)
          <6>1. j + 1 >= N /\ (j + 1) + 1 >= N
            BY <1>1, <3>1, <5>2
          <6>2. f[j + 1] = 0 /\ f[(j + 1) + 1] = 0
            BY <1>2, <3>1, <6>1
          <6> QED BY <3>4, <6>2
        <5> QED BY <5>1, <5>2
      <4>3. b = "IAC" => data[j + 1] = "IAC" /\ f[j + 1] = n
        BY <3>4 DEF b
      <4> QED BY <2>2, <3>1, <3>3, <4>1, <4>2, <4>3
    <3>5. CASE a(j).mode = "body_code" /\ data[j] = "IAC" /\ f[j] = n
      <4>1. b # "SE"
        <5>1. ASSUME b = "SE" PROVE FALSE
          <6>1. f[j] = j + 1
            BY <1>2, <3>1, <3>5, <5>1 DEF b
          <6> QED BY <2>2, <3>5, <6>1
        <5> QED BY <5>1
      <4>2. /\ a(j + 1).mode = "body"
            /\ a(j + 1).events = a(j).events /\ a(j + 1).line = a(j).line
            /\ a(j + 1).code = a(j).code /\ a(j + 1).body = Append(a(j).body, b)
        BY <3>2, <3>5, <4>1, BodyGrows
      <4>3. f[(j + 1) + 1] = n
        <5>1. CASE b = "IAC"
          BY <1>2, <3>1, <3>5, <5>1 DEF b
        <5>2. CASE b # "IAC" /\ j + 1 < N
          <6>1. f[j] = f[j + 1]
            BY <1>2, <3>1, <3>5, <4>1, <5>2 DEF b
          <6>2. f[j + 1] = f[(j + 1) + 1]
            BY <1>2, <3>1, <5>2 DEF b
          <6> QED BY <3>5, <6>1, <6>2
        <5>3. CASE b # "IAC" /\ ~ (j + 1 < N)
          <6>1. f[j] = f[j + 1]
            BY <1>2, <3>1, <3>5, <4>1, <5>3 DEF b
          <6>2. j + 1 >= N /\ (j + 1) + 1 >= N
            BY <1>1, <3>1, <5>3
          <6>3. f[j + 1] = 0 /\ f[(j + 1) + 1] = 0
            BY <1>2, <3>1, <6>2
          <6> QED BY <3>5, <6>1, <6>3
        <5> QED BY <5>1, <5>2, <5>3
      <4> QED BY <2>2, <3>3, <4>2, <4>3
    <3> QED BY <2>2, <3>4, <3>5
  <2>3. n = 0 \/ n \in 4 .. N
    <3>1. 3 \in 1 .. N + 1
      BY <1>1, <1>9
    <3> QED BY <1>2, <1>6, <1>9, <3>1
  <2>4. \A j \in Nat : j >= 3 /\ j <= N /\ (n = 0 \/ j < n) => Inside(j)
    <3> DEFINE T == {j \in Nat : j >= 3 /\ j <= N /\ (n = 0 \/ j < n) => Inside(j)}
    <3>1. 0 \in T
      OBVIOUS
    <3>2. ASSUME NEW j \in Nat, j \in T PROVE j + 1 \in T
      <4> HIDE DEF Inside
      <4>1. CASE j + 1 = 3
        BY <2>1, <4>1
      <4>2. CASE j >= 3 /\ j + 1 <= N /\ (n = 0 \/ j + 1 < n)
        <5>1. j \in 3 .. N - 1 /\ n # j + 1 /\ j <= N /\ (n = 0 \/ j < n)
          BY <1>1, <2>3, <4>2
        <5>2. Inside(j)
          BY <3>2, <4>2, <5>1
        <5>3. Inside(j + 1)
          BY <2>2, <5>1, <5>2
        <5> QED BY <5>3
      <4>3. CASE ~ (j + 1 >= 3) \/ ~ (j + 1 <= N) \/ ~ (n = 0 \/ j + 1 < n)
        BY <4>3
      <4> QED BY <4>1, <4>2, <4>3
    <3> HIDE DEF T, Inside
    <3>3. Nat \subseteq T
      BY <3>1, <3>2, Induction
    <3> QED BY <3>3 DEF T
  <2>5. CASE n = 0
    <3>1. Inside(N)
      <4>1. N \in Nat /\ N >= 3 /\ N <= N
        BY <1>0, <1>9
      <4> HIDE DEF Inside, N
      <4> QED BY <2>4, <2>5, <4>1
    <3> QED BY <1>1, <2>5, <3>1 DEF s, n
  <2>6. CASE n # 0
    <3> DEFINE j == n - 1
    <3>1. /\ n \in 4 .. N /\ n \in Nat /\ j \in Nat /\ j >= 3 /\ j <= N /\ j < n /\ j + 1 = n
          /\ n \in 1 .. N /\ j \in 0 .. N /\ j < N /\ n \in 1 .. N + 1 /\ j \in 1 .. N + 1
      BY <1>1, <2>3, <2>6
    <3>2. Inside(j)
      BY <2>4, <3>1
    <3>3. a(n) = Byte(a(j), data[n]) /\ a(j) \in States /\ data[n] \in Bytes
      BY <1>1, <3>1
    <3>4. f[n] = 0 \/ f[n] > n
      BY <1>2, <3>1
    <3> HIDE DEF j
    <3>5. a(j).mode = "body_code" /\ data[j] = "IAC" /\ f[j] = n /\ j >= 4
      <4>1. f[j + 1] # n
        BY <3>1, <3>4
      <4> QED BY <3>2, <4>1
    <3>6. data[n] = "SE"
      <4>1. ASSUME data[n] = "IAC" PROVE FALSE
        <5>1. f[j] = f[j + 2] /\ j + 2 \in 1 .. N + 1
          BY <1>1, <1>2, <3>1, <3>5, <4>1
        <5>2. f[j + 2] = 0 \/ f[j + 2] > j + 2
          BY <1>2, <5>1
        <5> QED BY <3>1, <3>5, <5>1, <5>2
      <4>2. ASSUME data[n] \notin {"IAC", "SE"} PROVE FALSE
        <5>1. f[j] = f[j + 1]
          BY <1>2, <3>1, <3>5, <4>2
        <5> QED BY <3>1, <3>4, <3>5, <5>1
      <4> QED BY <4>1, <4>2
    <3>7. /\ a(n).mode = "text" /\ a(n).line = a(j).line
          /\ a(n).events = Append(a(j).events, Message("subnegotiate", a(j).code,
                                    SubSeq(a(j).body, 1, Len(a(j).body) - 1)))
      <4>1. a(n) = Byte(a(j), "SE") /\ a(j) \in States /\ a(j).mode = "body_code"
        BY <3>3, <3>5, <3>6
      <4> QED BY <4>1, BodyEnds
    <3>8. n >= 5
      BY <3>1, <3>5
    <3>9. SubSeq(a(j).body, 1, Len(a(j).body) - 1) = SubSeq(data, 4, n - 2)
      <4> DEFINE c == SubSeq(data, 4, j)
                 d == SubSeq(c, 1, Len(c) - 1)
      <4>1. 4 \in 1 .. N + 1 /\ 4 \in 1 .. N /\ j \in 4 .. N
        BY <1>1, <3>1, <3>5
      <4>2. c \in Seq(Bytes) /\ Len(c) = j - 3
        <5>1. c \in Seq(Bytes) /\ Len(c) = IF 4 <= j THEN j - 4 + 1 ELSE 0
          BY <3>1, <4>1, Slice
        <5> HIDE DEF c
        <5> QED BY <3>1, <4>1, <5>1
      <4>3. c = SubSeq(data, 4, j - 1) \o <<data[j]>>
        BY <4>1, SubSeqRecursiveSecond
      <4>4. /\ SubSeq(data, 4, j - 1) \in Seq(Bytes)
            /\ Len(SubSeq(data, 4, j - 1)) = j - 4
        <5>1. j - 1 \in 0 .. N
          BY <1>1, <3>1, <4>1
        <5> DEFINE e == SubSeq(data, 4, j - 1)
        <5>2. e \in Seq(Bytes) /\ Len(e) = IF 4 <= j - 1 THEN (j - 1) - 4 + 1 ELSE 0
          BY <4>1, <5>1, Slice
        <5> HIDE DEF e
        <5>3. Len(e) = j - 4
          BY <3>1, <4>1, <5>2
        <5> QED BY <5>2, <5>3 DEF e
      <4> DEFINE e == SubSeq(data, 4, j - 1)
      <4> HIDE DEF c, e
      <4>5. d = e
        <5>1. j - 4 \in 0 .. Len(c) /\ Len(c) - 1 = j - 4 /\ j - 4 \in Nat
          BY <3>1, <4>1, <4>2
        <5>2. data[j] \in Bytes /\ <<data[j]>> \in Seq(Bytes)
          BY <1>1, <3>1, <4>1
        <5>3. d \in Seq(Bytes) /\ Len(d) = j - 4
          BY <4>2, <5>1, Left
        <5>4. ASSUME NEW i \in 1 .. Len(d) PROVE d[i] = e[i]
          <6>1. 1 \in 1 .. Len(c) + 1
            BY <4>2
          <6>2. i \in 1 .. j - 4 - 1 + 1 /\ 1 + i - 1 = i /\ i \in 1 .. Len(e)
            BY <4>4, <5>1, <5>3 DEF e
          <6>3. d[i] = c[i]
            BY <4>2, <5>1, <6>1, <6>2, Slice
          <6>4. c[i] = e[i]
            <7>1. e \in Seq(Bytes) /\ c = e \o <<data[j]>>
              BY <4>3, <4>4 DEF e
            <7> QED BY <5>2, <6>2, <7>1
          <6> QED BY <6>3, <6>4
        <5>5. e \in Seq(Bytes) /\ Len(d) = Len(e)
          BY <4>4, <5>3 DEF e
        <5> HIDE DEF d
        <5> QED BY <5>3, <5>4, <5>5, SeqEqual, Zenon
      <4>6. j - 1 = n - 2
        BY <3>1
      <4> QED BY <3>2, <4>5, <4>6 DEF c, e
    <3>10. /\ a(n).mode = "text" /\ a(n).line = s.line
           /\ a(n).events = Append(s.events, Message("subnegotiate", data[3],
                                                     SubSeq(data, 4, n - 2)))
      BY <3>2, <3>7, <3>9
    <3> QED BY <3>1, <3>8, <3>10 DEF s, n, a
  <2> QED BY <2>5, <2>6
<1> QED BY <1>1, <1>7, <1>8, <1>9

\* The cases of a byte that the other messages go through.
LEMMA IacEscaped ==
  ASSUME NEW s \in States, s.mode = "code", NEW u, u = Byte(s, "IAC")
  PROVE  u.mode = "text" /\ u.events = s.events /\ u.line = Append(s.line, "IAC")
<1>1. "IAC" \in Bytes
  BY DEF Bytes
<1> QED BY <1>1, ByteCases

LEMMA WillFollows ==
  ASSUME NEW s \in States, s.mode = "code", NEW u, u = Byte(s, "WILL")
  PROVE  u.mode = "negotiate" /\ u.events = s.events /\ u.line = s.line
<1>1. "WILL" \in Bytes
  BY DEF Bytes
<1> QED BY <1>1, ByteCases

LEMMA WillNames ==
  ASSUME NEW s \in States, s.mode = "negotiate", NEW b \in Bytes, NEW u, u = Byte(s, b)
  PROVE  /\ u.mode = "text" /\ u.line = s.line
         /\ u.events = Append(s.events, Message("negotiate", "WILL", <<b>>))
<1> DEFINE m == Message("negotiate", "WILL", <<b>>)
<1>1. u = [s EXCEPT !.mode = "text", !.events = Append(s.events, m)]
  BY DEF Byte, Says
<1>2. DOMAIN s = {"mode", "code", "body", "line", "events"}
  BY DEF States
<1> HIDE DEF m
<1>3. u.mode = "text" /\ u.line = s.line /\ u.events = Append(s.events, m)
  BY <1>1, <1>2
<1> QED BY <1>3 DEF m

LEMMA CommandFollows ==
  ASSUME NEW s \in States, s.mode = "code", NEW b \in Bytes, b \notin {"IAC", "SB", "WILL"},
         NEW u, u = Byte(s, b)
  PROVE  /\ u.mode = "text" /\ u.line = s.line
         /\ u.events = Append(s.events, Message("command", b, << >>))
<1> DEFINE m == Message("command", b, << >>)
<1>1. u = [s EXCEPT !.mode = "text", !.events = Append(s.events, m)]
  BY DEF Byte, Says
<1>2. DOMAIN s = {"mode", "code", "body", "line", "events"}
  BY DEF States
<1> HIDE DEF m
<1>3. u.mode = "text" /\ u.line = s.line /\ u.events = Append(s.events, m)
  BY <1>1, <1>2
<1> QED BY <1>3 DEF m

LEMMA FoundFields ==
  ASSUME NEW n, NEW kind, NEW code, NEW text, NEW p, p = Found(n, kind, code, text)
  PROVE  /\ p.consumed = n /\ p.message = Message(kind, code, text)
         /\ p.message.kind = kind /\ p.message.data = text
BY DEF Found, Message

\* Behind an IAC in text.
LEMMA IacRead ==
  ASSUME NEW p \in Seq(Bytes), NEW data \in Seq(Bytes), data # << >>, Head(data) = "IAC",
         Reading(p).mode = "text"
  PROVE  /\ At(p, data, 1).mode = "code" /\ At(p, data, 1).events = Reading(p).events
         /\ At(p, data, 1).line = Reading(p).line /\ At(p, data, 1) \in States
         /\ Len(data) >= 1 /\ Len(data) \in Nat /\ data[1] = "IAC"
<1> DEFINE u == At(p, data, 1)
           s == Reading(p)
           z == At(p, data, 0)
<1>1. 1 \in 1 .. Len(data) /\ 1 - 1 = 0 /\ 0 \in 0 .. Len(data) /\ 1 \in 0 .. Len(data)
      /\ data[1] = "IAC" /\ Len(data) >= 1 /\ Len(data) \in Nat
  OBVIOUS
<1>2. z = s /\ u = Byte(At(p, data, 1 - 1), data[1]) /\ z \in States /\ u \in States
  BY <1>1, AtSteps
<1>3. u = Byte(s, "IAC")
  BY <1>1, <1>2
<1>4. s.mode = "text"
  OBVIOUS
<1> HIDE DEF u, s, z
<1>5. u.mode = "code" /\ u.events = s.events /\ u.line = s.line
  BY <1>2, <1>3, <1>4, CodeFollows
<1> QED BY <1>1, <1>2, <1>5 DEF u, s

\* The byte after it.
LEMMA NextRead ==
  ASSUME NEW p \in Seq(Bytes), NEW data \in Seq(Bytes), NEW j \in Nat, j < Len(data)
  PROVE  /\ At(p, data, j + 1) = Byte(At(p, data, j), data[j + 1])
         /\ At(p, data, j) \in States /\ At(p, data, j + 1) \in States
         /\ data[j + 1] \in Bytes
<1>1. j + 1 \in 1 .. Len(data) /\ (j + 1) - 1 = j /\ j \in 0 .. Len(data)
      /\ j + 1 \in 0 .. Len(data)
  OBVIOUS
<1> QED BY <1>1, AtSteps

\* A reader of single bytes has just handled these messages and is in this line.
Even(s, said, app) == s.mode = "text" /\ s.events = said /\ s.line = app

\* What handling a message makes of them.
Handled(s, message, said, app) ==
  IF message.kind = "data"
    THEN Even(s, said \o Lines(app \o message.data), Rest(app \o message.data))
    ELSE Even(s, Append(said, message), app)

\* Each message the parser takes off is one the reference has handled at its end.
LEMMA CodeRead ==
  ASSUME NEW p \in Seq(Bytes), NEW data \in Seq(Bytes), NEW said \in Seq(Events),
         NEW app \in Seq(Bytes), Even(Reading(p), said, app),
         Lines(app) = << >>, Rest(app) = app,
         data # << >>, Head(data) = "IAC", Parse(data).consumed > 0
  PROVE  LET t == At(p, data, Parse(data).consumed) IN
         t.mode = "lost" \/ Handled(t, Parse(data).message, said, app)
<1> DEFINE found == Parse(data)
           N == Len(data)
           n == ScanUntilIacSe(data)
           a(j) == At(p, data, j)
<1>1. Reading(p).mode = "text" /\ Reading(p).events = said /\ Reading(p).line = app
  BY DEF Even
<1>2. /\ a(1).mode = "code" /\ a(1).events = said /\ a(1).line = app /\ a(1) \in States
      /\ N >= 1 /\ N \in Nat /\ data[1] = "IAC"
  BY <1>1, IacRead
<1>3. N >= 2 => a(2) = Byte(a(1), data[2]) /\ a(2) \in States /\ data[2] \in Bytes
  <2>1. 1 \in Nat /\ 1 + 1 = 2 /\ (N >= 2 => 1 < N)
    BY <1>2
  <2>2. N >= 2 => /\ a(1 + 1) = Byte(a(1), data[1 + 1])
                  /\ a(1 + 1) \in States /\ data[1 + 1] \in Bytes
    BY <2>1, NextRead
  <2> QED BY <2>1, <2>2
<1>4. found # Nothing /\ found # Overflow
  BY ParseTyped
<1>5. CASE found = Found(2, "data", NoCode, <<"IAC">>) /\ N >= 2 /\ data[2] = "IAC"
  <2>1. /\ found.consumed = 2 /\ found.message.kind = "data"
        /\ found.message.data = <<"IAC">>
    BY <1>5, FoundFields
  <2> HIDE DEF a
  <2>2. a(2).mode = "text" /\ a(2).events = said /\ a(2).line = Append(app, "IAC")
    <3>1. a(2) = Byte(a(1), "IAC")
      BY <1>3, <1>5
    <3> QED BY <1>2, <3>1, IacEscaped
  <2>3. "IAC" \in Bytes /\ "IAC" # "LF"
    BY DEF Bytes
  <2>4. Lines(Append(app, "IAC")) = << >> /\ Rest(Append(app, "IAC")) = Append(app, "IAC")
    BY <2>3, CutOne
  <2>5. app \o <<"IAC">> = Append(app, "IAC") /\ said \o << >> = said
    BY <2>3, AppendIsConcat, ConcatEmptySeq
  <2>6. Handled(a(2), found.message, said, app)
    <3> HIDE DEF found
    <3> QED BY <2>1, <2>2, <2>4, <2>5 DEF Handled, Even
  <2> QED BY <2>1, <2>6 DEF a
<1>6. CASE N >= 3 /\ data[2] = "WILL" /\ found = Found(3, "negotiate", "WILL", <<data[3]>>)
  <2> DEFINE m == Message("negotiate", "WILL", <<data[3]>>)
  <2>1. found.consumed = 3 /\ found.message = m /\ found.message.kind = "negotiate"
    BY <1>6, FoundFields
  <2>2. a(3) = Byte(a(2), data[3]) /\ data[3] \in Bytes
    <3>1. 2 \in Nat /\ 2 + 1 = 3 /\ 2 < N
      BY <1>2, <1>6
    <3>2. a(2 + 1) = Byte(a(2), data[2 + 1]) /\ data[2 + 1] \in Bytes
      BY <3>1, NextRead
    <3> QED BY <3>1, <3>2
  <2> HIDE DEF a
  <2>3. a(2).mode = "negotiate" /\ a(2).events = said /\ a(2).line = app /\ a(2) \in States
    <3>1. a(2) = Byte(a(1), "WILL") /\ a(2) \in States
      BY <1>2, <1>3, <1>6
    <3> QED BY <1>2, <3>1, WillFollows
  <2>4. a(3).mode = "text" /\ a(3).line = app /\ a(3).events = Append(said, m)
    BY <2>2, <2>3, WillNames
  <2> HIDE DEF m, found
  <2>5. Handled(a(3), found.message, said, app)
    BY <2>1, <2>4 DEF Handled, Even
  <2> QED BY <2>1, <2>5 DEF a, found
<1>7. CASE /\ N >= 2 /\ data[2] = "SB" /\ n \in 5 .. N
           /\ found = Found(n, "subnegotiate", data[3], SubSeq(data, 4, n - 2))
  <2> DEFINE m == Message("subnegotiate", data[3], SubSeq(data, 4, n - 2))
  <2>1. found.consumed = n /\ found.message = m /\ found.message.kind = "subnegotiate"
    BY <1>7, FoundFields
  <2>2. \/ a(n).mode = "lost"
        \/ /\ a(n).mode = "text" /\ a(n).line = app /\ a(n).events = Append(said, m)
    <3>1. n >= 5
      BY <1>7
    <3> QED BY <1>1, <1>2, <1>7, <3>1, SubnegotiationRead
  <2> HIDE DEF a, m, found, n
  <2>3. a(n).mode = "lost" \/ Handled(a(n), found.message, said, app)
    BY <2>1, <2>2 DEF Handled, Even
  <2> QED BY <2>1, <2>3 DEF a, found
<1>8. CASE /\ N >= 2 /\ data[2] \notin {"IAC", "WILL", "SB"}
           /\ found = Found(2, "command", data[2], << >>)
  <2> DEFINE b == data[2]
             m == Message("command", b, << >>)
  <2>1. found.consumed = 2 /\ found.message = m /\ found.message.kind = "command"
    BY <1>8, FoundFields
  <2> HIDE DEF a
  <2>2. a(2).mode = "text" /\ a(2).line = app /\ a(2).events = Append(said, m)
    <3>1. a(2) = Byte(a(1), b) /\ b \in Bytes /\ b \notin {"IAC", "SB", "WILL"}
      BY <1>3, <1>8
    <3> HIDE DEF b
    <3> QED BY <1>2, <3>1, CommandFollows
  <2> HIDE DEF m, found
  <2>3. Handled(a(2), found.message, said, app)
    BY <2>1, <2>2 DEF Handled, Even
  <2> QED BY <2>1, <2>3 DEF a, found
<1>9. \/ found = Nothing \/ found = Overflow
      \/ found = Found(2, "data", NoCode, <<"IAC">>) /\ N >= 2 /\ data[2] = "IAC"
      \/ N >= 3 /\ data[2] = "WILL" /\ found = Found(3, "negotiate", "WILL", <<data[3]>>)
      \/ /\ N >= 2 /\ data[2] = "SB" /\ n \in 5 .. N
         /\ found = Found(n, "subnegotiate", data[3], SubSeq(data, 4, n - 2))
      \/ /\ N >= 2 /\ data[2] \notin {"IAC", "WILL", "SB"}
         /\ found = Found(2, "command", data[2], << >>)
  BY CodeFound
<1> HIDE DEF found, N, n, a
<1>10. CASE a(found.consumed).mode = "lost" \/ Handled(a(found.consumed), found.message, said, app)
  BY <1>10 DEF found, a
<1> QED BY <1>4, <1>5, <1>6, <1>7, <1>8, <1>9 DEF found, N, n

LEMMA MessageRead ==
  ASSUME NEW p \in Seq(Bytes), NEW data \in Seq(Bytes), NEW said \in Seq(Events),
         NEW app \in Seq(Bytes), Even(Reading(p), said, app),
         Lines(app) = << >>, Rest(app) = app, Parse(data).consumed > 0
  PROVE  LET t == At(p, data, Parse(data).consumed) IN
         t.mode = "lost" \/ Handled(t, Parse(data).message, said, app)
<1> DEFINE found == Parse(data)
           n == ScanUntilIac(data)
           text == SubSeq(data, 1, n)
<1>1. data # << >>
  BY ParseTyped
<1>2. CASE Head(data) = "IAC"
  BY <1>1, <1>2, CodeRead
<1>3. CASE Head(data) # "IAC"
  <2>1. found # Overflow
    BY ParseTyped
  <2>2. /\ found = Found(n, "data", NoCode, text) /\ n \in 1 .. Len(data)
        /\ text \in Seq(Bytes)
    BY <1>1, <1>3, <2>1, TextFound
  <2>3. found.consumed = n /\ found.message.kind = "data" /\ found.message.data = text
    <3> HIDE DEF found, n, text
    <3> QED BY <2>2, FoundFields
  <2>4. \A i \in 1 .. Len(text) : text[i] # "IAC"
    <3>1. n \in 0 .. Len(data) /\ 1 \in 1 .. Len(data) + 1
      BY <2>2
    <3>2. Len(text) = n
      BY <3>1, Left
    <3>3. \A i \in 1 .. n : data[i] # "IAC"
      BY TextBounds
    <3>4. ASSUME NEW i \in 1 .. n PROVE text[i] = data[i]
      <4>1. i \in 1 .. n - 1 + 1 /\ 1 + i - 1 = i
        BY <2>2
      <4>2. text[i] = data[1 + i - 1]
        BY <3>1, <4>1, Slice
      <4> QED BY <4>1, <4>2
    <3> HIDE DEF text
    <3> QED BY <3>2, <3>3, <3>4
  <2>5. Reading(p).mode = "text" /\ Reading(p).events = said /\ Reading(p).line = app
    BY DEF Even
  <2> HIDE DEF text
  <2>6. /\ Reading(p \o text).mode = "text"
        /\ Reading(p \o text).events = said \o Lines(app \o text)
        /\ Reading(p \o text).line = Rest(app \o text)
    BY <2>2, <2>4, <2>5, TextRead
  <2>7. At(p, data, n) = Reading(p \o text)
    BY DEF At, text
  <2> HIDE DEF found, n
  <2>8. Handled(At(p, data, n), found.message, said, app)
    BY <2>3, <2>6, <2>7 DEF Handled, Even
  <2> QED BY <2>3, <2>8 DEF found
<1> QED BY <1>2, <1>3

\* What is not complete for the parser is not complete for the reference.
LEMMA WaitingRead ==
  ASSUME NEW p \in Seq(Bytes), NEW data \in Seq(Bytes), Reading(p).mode = "text",
         Parse(data) = Nothing
  PROVE  Reading(p \o data).mode = "lost" \/ Reading(p \o data).events = Reading(p).events
<1> DEFINE s == Reading(p)
           N == Len(data)
           all == Reading(p \o data)
           a(j) == At(p, data, j)
<1>1. CASE data = << >>
  <2>1. p \o << >> = p
    BY ConcatEmptySeq
  <2> QED BY <1>1, <2>1
<1>2. CASE data # << >> /\ Head(data) # "IAC"
  <2> DEFINE n == ScanUntilIac(data)
             text == SubSeq(data, 1, n)
  <2>1. Nothing # Overflow /\ Nothing.consumed = 0
    BY ParseTyped
  <2>2. Nothing = Found(n, "data", NoCode, text) /\ n \in 1 .. Len(data)
    BY <1>2, <2>1, TextFound
  <2>3. Nothing.consumed = n
    BY <2>2, FoundFields
  <2> QED BY <2>1, <2>2, <2>3
<1>3. CASE data # << >> /\ Head(data) = "IAC"
  <2>1. /\ a(1).mode = "code" /\ a(1).events = s.events /\ a(1) \in States
        /\ N >= 1 /\ N \in Nat /\ data[1] = "IAC"
    BY <1>3, IacRead
  <2>2. a(N) = all
    BY AtSteps
  <2>3. Nothing # Overflow /\ Nothing.consumed = 0
    BY ParseTyped
  <2>4. \/ N < 2 \/ (N = 2 /\ data[2] = "WILL")
        \/ (N >= 2 /\ data[2] = "SB" /\ ScanUntilIacSe(data) < 5)
    BY <1>3, <2>3, CodeConsumed
  <2>5. CASE N < 2
    <3>1. N = 1
      <4> HIDE DEF N, a, s
      <4> QED BY <2>1, <2>5
    <3> HIDE DEF N, a, s, all
    <3>2. all.events = s.events
      BY <2>1, <2>2, <3>1
    <3> QED BY <3>2 DEF all, s
  <2>6. CASE N = 2 /\ data[2] = "WILL"
    <3>1. a(2) = Byte(a(1), "WILL")
      <4>1. 1 \in Nat /\ 1 < N /\ 1 + 1 = 2
        BY <2>6
      <4>2. a(1 + 1) = Byte(a(1), data[1 + 1])
        BY <4>1, NextRead
      <4> QED BY <2>6, <4>1, <4>2
    <3> HIDE DEF N, a, s, all
    <3>2. a(2).events = s.events
      BY <2>1, <3>1, WillFollows
    <3>3. all.events = s.events
      BY <2>2, <2>6, <3>2
    <3> QED BY <3>3 DEF all, s
  <2>7. CASE N >= 2 /\ data[2] = "SB" /\ ScanUntilIacSe(data) < 5
    BY <2>1, <2>7, SubnegotiationRead
  <2> QED BY <2>4, <2>5, <2>6, <2>7
<1> QED BY <1>1, <1>2, <1>3

\* The bytes taken off the buffer.
Taken == SubSeq(received, 1, Len(received) - Len(in_buffer))

LEMMA TakenIs ==
  ASSUME NEW t \in Seq(Bytes), NEW b \in Seq(Bytes)
  PROVE  SubSeq(t \o b, 1, Len(t \o b) - Len(b)) = t /\ t \o b \in Seq(Bytes)
<1> DEFINE all == t \o b
           n == Len(t)
           c == SubSeq(all, 1, n)
<1>1. /\ all \in Seq(Bytes) /\ Len(all) = n + Len(b) /\ n \in Nat /\ Len(b) \in Nat
      /\ \A i \in 1 .. n : all[i] = t[i]
  BY ConcatProperties
<1> HIDE DEF all
<1>2. n \in 0 .. Len(all) /\ Len(all) - Len(b) = n /\ 1 \in 1 .. Len(all) + 1
  BY <1>1
<1>3. c \in Seq(Bytes) /\ Len(c) = n
  BY <1>1, <1>2, Left
<1>4. ASSUME NEW i \in 1 .. Len(c) PROVE c[i] = t[i]
  <2>1. i \in 1 .. n - 1 + 1 /\ 1 + i - 1 = i /\ i \in 1 .. n
    BY <1>1, <1>3
  <2>2. c[i] = all[1 + i - 1]
    BY <1>1, <1>2, <2>1, Slice
  <2> QED BY <1>1, <2>1, <2>2
<1>5. c = t
  <2> HIDE DEF c
  <2> QED BY <1>3, <1>4, SeqEqual, Zenon
<1> QED BY <1>1, <1>2, <1>5 DEF all

\* The reference has read what was taken off and is where the parser is, between
\* two messages and in the line that has begun.
Faithful ==
  /\ received = Taken \o in_buffer /\ Taken \in Seq(Bytes)
  /\ Lines(app_data) = << >> /\ Rest(app_data) = app_data
  /\ Reading(Taken).mode # "lost" => Even(Reading(Taken), events, app_data)

LEMMA FaithfulInit == Init => Faithful
<1> SUFFICES ASSUME Init PROVE Faithful
  OBVIOUS
<1> DEFINE none == << >>
<1>1. /\ received = none /\ in_buffer = none /\ app_data = none /\ events = none
      /\ none \in Seq(Bytes) /\ "x" \in Bytes
  BY DEF Init, Bytes
<1>2. Lines(none) = none /\ Rest(none) = none
  BY <1>1, CutOne
<1>3. none \o none = none
  BY ConcatEmptySeq
<1>4. Reading(none) = Blank
  BY ReadingNone
<1>5. Blank.mode = "text" /\ Blank.events = none /\ Blank.line = none
  BY DEF Blank
<1> HIDE DEF none
<1>6. Taken = none
  <2>1. SubSeq(none \o none, 1, Len(none \o none) - Len(none)) = none
    BY <1>1, TakenIs
  <2> QED BY <1>1, <1>3, <2>1 DEF Taken
<1> QED BY <1>1, <1>2, <1>3, <1>4, <1>5, <1>6 DEF Faithful, Even

\* Faithful holds again when bytes were taken off, or read.
LEMMA FaithfulAgain ==
  ASSUME NEW t \in Seq(Bytes), received' = t \o in_buffer', in_buffer' \in Seq(Bytes),
         Lines(app_data') = << >>, Rest(app_data') = app_data',
         Reading(t).mode # "lost" => Even(Reading(t), events', app_data')
  PROVE  Faithful'
<1>1. Taken' = t
  <2> DEFINE b == in_buffer'
  <2>1. b \in Seq(Bytes)
    OBVIOUS
  <2>2. Taken' = SubSeq(t \o b, 1, Len(t \o b) - Len(b))
    BY DEF Taken
  <2> HIDE DEF b
  <2>3. SubSeq(t \o b, 1, Len(t \o b) - Len(b)) = t
    BY <2>1, TakenIs
  <2> QED BY <2>2, <2>3
<1> QED BY <1>1 DEF Faithful

LEMMA FaithfulNext == TypeOK /\ Faithful /\ [Next]_vars => Faithful'
<1> SUFFICES ASSUME TypeOK, Faithful, [Next]_vars PROVE Faithful'
  OBVIOUS
<1> DEFINE t == Taken
           found == Parse(in_buffer)
           k == found.consumed
<1>0. /\ in_buffer \in Seq(Bytes) /\ wire \in Seq(Bytes) /\ app_data \in Seq(Bytes)
      /\ received \in Seq(Bytes) /\ events \in Seq(Events)
      /\ t \in Seq(Bytes) /\ received = t \o in_buffer
      /\ Lines(app_data) = << >> /\ Rest(app_data) = app_data
      /\ Reading(t).mode # "lost" => Even(Reading(t), events, app_data)
      /\ k \in 0 .. Len(in_buffer)
  BY Types, ParseTyped DEF Faithful
<1> HIDE DEF t
<1>1. CASE HandleMessage
  <2> DEFINE m == SubSeq(in_buffer, 1, k)
             rest == SubSeq(in_buffer, k + 1, Len(in_buffer))
  <2>1. /\ k > 0 /\ in_buffer' = rest /\ received' = received
        /\ IF found.message.kind = "data" THEN HandleData(found.message.data)
           ELSE events' = Append(events, found.message) /\ app_data' = app_data
    BY <1>1 DEF HandleMessage
  <2>2. m \in Seq(Bytes) /\ rest \in Seq(Bytes) /\ m \o rest = in_buffer
    <3> HIDE DEF k
    <3> QED BY <1>0, Left
  <2>3. Reading(t \o m) = At(t, in_buffer, k)
    BY DEF At
  <2>4. found.message.kind = "data" =>
          /\ found.message.data \in Seq(Bytes)
          /\ events' = events \o Lines(app_data \o found.message.data)
          /\ app_data' = Rest(app_data \o found.message.data)
    BY <1>0, <2>1, ParseTyped, HandleDataCuts
  <2>5. \/ Reading(t).mode = "lost"
        \/ Reading(t \o m).mode = "lost"
        \/ Handled(Reading(t \o m), found.message, events, app_data)
    BY <1>0, <2>1, <2>3, MessageRead
  <2>6. t \o m \in Seq(Bytes) /\ received' = (t \o m) \o in_buffer'
    <3> HIDE DEF m, rest
    <3>1. t \o m \in Seq(Bytes)
      BY <1>0, <2>2
    <3>2. (t \o m) \o rest = t \o (m \o rest)
      <4>1. t \in Seq(Bytes) /\ m \in Seq(Bytes) /\ rest \in Seq(Bytes)
        BY <1>0, <2>2
      <4> QED BY <4>1, Associative
    <3> QED BY <1>0, <2>1, <2>2, <3>1, <3>2
  <2>7. Reading(t).mode = "lost" => Reading(t \o m).mode = "lost"
    BY <1>0, <2>2, LostStays
  <2> DEFINE text == found.message.data
             message == found.message
  <2> HIDE DEF m, found
  <2>8. Reading(t \o m).mode # "lost" => Even(Reading(t \o m), events', app_data')
    BY <2>1, <2>4, <2>5, <2>7 DEF Handled
  <2>9. Lines(app_data') = << >> /\ Rest(app_data') = app_data'
    <3>1. CASE found.message.kind = "data"
      <4> DEFINE app == app_data \o found.message.data
      <4>1. app_data' = Rest(app) /\ found.message.data \in Seq(Bytes)
        BY <2>4, <3>1
      <4>2. app \in Seq(Bytes)
        BY <1>0, <4>1
      <4> HIDE DEF app
      <4> QED BY <4>1, <4>2, RestStays
    <3>2. CASE found.message.kind # "data"
      BY <1>0, <2>1, <3>2
    <3> QED BY <3>1, <3>2
  <2>10. in_buffer' \in Seq(Bytes)
    BY <2>1, <2>2
  <2> QED BY <2>6, <2>8, <2>9, <2>10, FaithfulAgain
<1>2. CASE Fail
  BY <1>2 DEF Fail, Faithful, Taken
<1>3. ASSUME NEW n \in 1 .. Len(wire), Receive(n) PROVE Faithful'
  <2> DEFINE new == SubSeq(wire, 1, n)
  <2>1. /\ in_buffer' = in_buffer \o new /\ received' = received \o new
        /\ UNCHANGED <<app_data, events>>
    BY <1>3 DEF Receive
  <2>2. new \in Seq(Bytes)
    <3>1. n \in 0 .. Len(wire)
      BY <1>0
    <3> QED BY <1>0, <3>1, Left
  <2> HIDE DEF new
  <2>3. received' = t \o in_buffer' /\ in_buffer' \in Seq(Bytes)
    <3>1. (t \o in_buffer) \o new = t \o (in_buffer \o new)
      <4> DEFINE b == in_buffer
      <4>1. t \in Seq(Bytes) /\ b \in Seq(Bytes) /\ new \in Seq(Bytes)
        BY <1>0, <2>2
      <4> HIDE DEF b
      <4>2. (t \o b) \o new = t \o (b \o new)
        BY <4>1, Associative, SMTT(60)
      <4> QED BY <4>2 DEF b
    <3>2. in_buffer \o new \in Seq(Bytes)
      <4>1. in_buffer \in Seq(Bytes) /\ new \in Seq(Bytes)
        BY <1>0, <2>2
      <4> QED BY <4>1
    <3> QED BY <1>0, <2>1, <3>1, <3>2
  <2> QED BY <1>0, <2>1, <2>3, FaithfulAgain
<1>4. CASE UNCHANGED vars
  BY <1>4 DEF vars, Faithful, Taken
<1> QED BY <1>1, <1>2, <1>3, <1>4 DEF Next

LEMMA FaithfulSays == TypeOK /\ Faithful => EventsAsSent
<1> SUFFICES ASSUME TypeOK, Faithful PROVE EventsAsSent
  OBVIOUS
<1> DEFINE t == Taken
           r == Reading(t)
           all == Reading(received)
<1>1. /\ in_buffer \in Seq(Bytes) /\ t \in Seq(Bytes) /\ received = t \o in_buffer
      /\ r.mode # "lost" => Even(r, events, app_data)
  BY Types DEF Faithful
<1>2. r.mode # "lost" => r.mode = "text" /\ r.events = events /\ r.line = app_data
  <2> HIDE DEF r
  <2> QED BY <1>1 DEF Even
<1>3. ASSUME Waiting, ~ failed, Parse(in_buffer) # Overflow, all.mode # "lost"
      PROVE  all.events = events
  <2>1. Parse(in_buffer) = Nothing
    <3>1. Parse(in_buffer).consumed = 0
      BY <1>3 DEF Waiting
    <3> QED BY <1>1, <1>3, <3>1, ParseTyped
  <2>2. r.mode # "lost"
    <3>1. r.mode = "lost" => all.mode = "lost"
      <4> HIDE DEF t
      <4> QED BY <1>1, LostStays
    <3> QED BY <1>3, <3>1
  <2>3. r.mode = "text" /\ r.events = events
    BY <1>2, <2>2
  <2>4. all.mode = "lost" \/ all.events = r.events
    <3> HIDE DEF t
    <3> QED BY <1>1, <2>1, <2>3, WaitingRead
  <2> QED BY <1>3, <2>3, <2>4
<1> QED BY <1>2, <1>3 DEF EventsAsSent, Taken

\* However the bytes of a client fall into reads, what has been handled is what they
\* say, each message and each line once and in order; and when the loop waits it has
\* handled all that is complete: for any bytes and any sizes of the buffers.
THEOREM EventsCorrect == Spec => []EventsAsSent
<1> QED BY FaithfulInit, FaithfulNext, FaithfulSays, TypeCorrect, PTL DEF Spec
===============================================================================
