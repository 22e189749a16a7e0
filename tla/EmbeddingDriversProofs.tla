----------------------- MODULE EmbeddingDriversProofs -------------------------
(***************************************************************************)
(* Theorems about the trace tools and the benchmark drivers of the         *)
(* embedding benchmark: what a written trace is, that it is read once,     *)
(* that the simulated caches are LRU caches and the reuse distances those  *)
(* of the trace, and what the drivers serve, report, fail on and release,  *)
(* for any jobs, block sizes and capacities.                               *)
(***************************************************************************)
EXTENDS EmbeddingDrivers, SequenceTheorems, FiniteSetTheorems, NaturalsInduction, WellFoundedInduction, TLAPS

\* Induction over the naturals, for a set of them.
LEMMA LeastOf ==
    ASSUME NEW T, T \subseteq Nat, T # {}
    PROVE  \E m \in T : \A k \in T : m <= k
<1> DEFINE R == OpToRel(<, Nat)
<1>1. PICK m \in T : \A k \in T : ~ (<<k, m>> \in R)
  BY NatLessThanWellFounded, WFMin
<1>2. \A k, n \in Nat : k < n => <<k, n>> \in R
  BY DEF OpToRel
<1>3. ASSUME NEW k \in T PROVE m <= k
  <2>1. ~(k < m)
    BY <1>1, <1>2
  <2>2. QED
    BY <2>1
<1>4. QED
  BY <1>3

\* Induction on a set of naturals.
LEMMA Inductive ==
    ASSUME NEW T, 0 \in T, \A n \in Nat : n \in T => n + 1 \in T
    PROVE  \A n \in Nat : n \in T
<1> DEFINE B == Nat \ T
<1> SUFFICES ASSUME B # {} PROVE FALSE
  OBVIOUS
<1>1. PICK m \in B : \A k \in B : m <= k
  BY LeastOf
<1>2. m # 0 /\ m - 1 \in Nat /\ m - 1 \notin B /\ m \in Nat
  BY <1>1
<1>3. (m - 1) + 1 \in T
  BY <1>2
<1>4. QED
  BY <1>1, <1>2, <1>3

\* f begins with b and takes its next value from G.
Unrolls(f, D, b, n, G) ==
    f \in [0..n -> D] /\ f[0] = b /\ \A i \in 1..n : f[i] = G[<<f[i - 1], i>>]

\* A function defined by recursion along 0..n exists.
LEMMA RecursionExists ==
    ASSUME NEW D, NEW b \in D, NEW n \in Nat, NEW G \in [D \X (1..n) -> D]
    PROVE  \E f : Unrolls(f, D, b, n, G)
<1> DEFINE T == {k \in Nat : k <= n => \E f \in [0..k -> D] : f[0] = b /\ \A i \in 1..k : f[i] = G[<<f[i - 1], i>>]}
<1>1. 0 \in T
  <2> DEFINE f == [i \in 0..0 |-> b]
  <2>1. f \in [0..0 -> D] /\ f[0] = b /\ \A i \in 1..0 : f[i] = G[<<f[i - 1], i>>]
    OBVIOUS
  <2> HIDE DEF f
  <2>2. QED
    BY <2>1
<1>2. ASSUME NEW k \in Nat, k \in T PROVE k + 1 \in T
  <2> SUFFICES ASSUME k + 1 <= n
               PROVE  \E f \in [0..(k + 1) -> D] : f[0] = b /\ \A i \in 1..(k + 1) : f[i] = G[<<f[i - 1], i>>]
    OBVIOUS
  <2>1. PICK f \in [0..k -> D] : f[0] = b /\ \A i \in 1..k : f[i] = G[<<f[i - 1], i>>]
    BY <1>2
  <2> DEFINE g == [i \in 0..(k + 1) |-> IF i = k + 1 THEN G[<<f[k], k + 1>>] ELSE f[i]]
  <2>2. G[<<f[k], k + 1>>] \in D
    <3>1. <<f[k], k + 1>> \in D \X (1..n)
      BY <2>1
    <3>2. QED
      BY <3>1
  <2>3. g \in [0..(k + 1) -> D]
    BY <2>1, <2>2
  <2>4. g[0] = b
    BY <2>1
  <2>5. ASSUME NEW i \in 1..(k + 1) PROVE g[i] = G[<<g[i - 1], i>>]
    <3>1. CASE i = k + 1
      <4>1. i - 1 = k /\ k \in 0..(k + 1) /\ k + 1 \in 0..(k + 1) /\ k # k + 1
        BY <3>1
      <4>2. g[k] = f[k] /\ g[k + 1] = G[<<f[k], k + 1>>]
        BY <4>1
      <4> HIDE DEF g
      <4>3. QED
        BY <3>1, <4>1, <4>2
    <3>2. CASE i # k + 1
      <4>1. i \in 1..k /\ i - 1 \in 0..k /\ i - 1 # k + 1
        BY <3>2
      <4>2. QED
        BY <4>1, <2>1
    <3>3. QED
      BY <3>1, <3>2
  <2> HIDE DEF g
  <2>6. QED
    BY <2>3, <2>4, <2>5
<1>3. n \in T
  <2> HIDE DEF T
  <2>1. QED
    BY <1>1, <1>2, Inductive
<1>4. QED
  BY <1>3 DEF Unrolls

-----------------------------------------------------------------------------
(* What Total computes.                                                    *)

\* T is the function of running totals of s.
Totals(s, T) ==
    T \in [0..Len(s) -> Int] /\ T[0] = 0 /\ \A i \in 1..Len(s) : T[i] = T[i - 1] + s[i]

\* Total is the last of its partial sums.
LEMMA TotalsExist ==
    ASSUME NEW s \in Seq(Int)
    PROVE  \E T : Totals(s, T) /\ Total(s) = T[Len(s)]
<1> DEFINE n == Len(s)
           G == [p \in Int \X (1..n) |-> p[1] + s[p[2]]]
           F == CHOOSE F : F = [i \in 0..n |-> IF i = 0 THEN 0 ELSE F[i - 1] + s[i]]
<1>1. n \in Nat /\ \A i \in 1..n : s[i] \in Int
  OBVIOUS
<1>2. G \in [Int \X (1..n) -> Int]
  BY <1>1
<1>3. PICK f \in [0..n -> Int] : f[0] = 0 /\ \A i \in 1..n : f[i] = G[<<f[i - 1], i>>]
  <2> HIDE DEF G, n, F
  <2>1. \E f : Unrolls(f, Int, 0, n, G)
    <3>1. 0 \in Int /\ n \in Nat
      BY <1>1
    <3>2. QED
      BY <3>1, <1>2, RecursionExists, Zenon
  <2>2. QED
    BY <2>1 DEF Unrolls
<1>4. \A i \in 1..n : f[i] = f[i - 1] + s[i]
  <2> SUFFICES ASSUME NEW i \in 1..n PROVE f[i] = f[i - 1] + s[i]
    OBVIOUS
  <2>1. <<f[i - 1], i>> \in Int \X (1..n)
    <3>1. i - 1 \in 0..n
      BY <1>1
    <3>2. QED
      BY <3>1
  <2>2. QED
    BY <1>3, <2>1
<1>5. f = [i \in 0..n |-> IF i = 0 THEN 0 ELSE f[i - 1] + s[i]]
  BY <1>3, <1>4, <1>1
<1>6. F = [i \in 0..n |-> IF i = 0 THEN 0 ELSE F[i - 1] + s[i]]
  BY <1>5
<1>7. Total(s) = F[n]
  BY DEF Total
<1> HIDE DEF F
<1>8. F[0] = 0 /\ (\A i \in 1..n : F[i] = F[i - 1] + s[i]) /\ F = [i \in 0..n |-> F[i]]
  BY <1>6, <1>1
<1>9. \A i \in 0..n : F[i] \in Int
  <2> DEFINE T == {k \in Nat : k <= n => F[k] \in Int}
  <2>1. 0 \in T
    BY <1>8
  <2>2. ASSUME NEW k \in Nat, k \in T PROVE k + 1 \in T
    <3> SUFFICES ASSUME k + 1 <= n PROVE F[k + 1] \in Int
      OBVIOUS
    <3>1. k + 1 \in 1..n /\ (k + 1) - 1 = k /\ F[k] \in Int
      BY <2>2, <1>1
    <3>2. F[k + 1] = F[k] + s[k + 1] /\ s[k + 1] \in Int
      BY <3>1, <1>8, <1>1
    <3>3. QED
      BY <3>1, <3>2
  <2>3. \A k \in Nat : k \in T
    <3> HIDE DEF T
    <3>1. QED
      BY <2>1, <2>2, Inductive
  <2>4. QED
    BY <2>3, <1>1
<1>10. Totals(s, F)
  BY <1>8, <1>9 DEF Totals
<1>11. QED
  BY <1>7, <1>10

\* The running totals of a sequence and of its beginning agree.
LEMMA TotalsAgree ==
    ASSUME NEW s, NEW t, NEW S, NEW T, Totals(s, S), Totals(t, T), Len(s) \in Nat, Len(t) \in Nat,
           Len(s) <= Len(t), \A i \in 1..Len(s) : s[i] = t[i]
    PROVE  \A i \in 0..Len(s) : S[i] = T[i]
<1> DEFINE U == {k \in Nat : k <= Len(s) => S[k] = T[k]}
<1>1. 0 \in U
  BY DEF Totals
<1>2. ASSUME NEW k \in Nat, k \in U PROVE k + 1 \in U
  <2> SUFFICES ASSUME k + 1 <= Len(s) PROVE S[k + 1] = T[k + 1]
    OBVIOUS
  <2>1. k + 1 \in 1..Len(s) /\ k + 1 \in 1..Len(t) /\ (k + 1) - 1 = k /\ S[k] = T[k]
    BY <1>2
  <2>2. S[k + 1] = S[k] + s[k + 1] /\ T[k + 1] = T[k] + t[k + 1]
    BY <2>1 DEF Totals
  <2>3. QED
    BY <2>1, <2>2
<1>3. \A k \in Nat : k \in U
  <2> HIDE DEF U
  <2>1. QED
    BY <1>1, <1>2, Inductive
<1>4. QED
  BY <1>3

\* The empty sum, its type, and one more element.
LEMMA TotalOfNone == Total(<<>>) = 0
<1>1. PICK T : Totals(<<>>, T) /\ Total(<<>>) = T[Len(<<>>)]
  BY TotalsExist, EmptySeq
<1>2. QED
  BY <1>1 DEF Totals

\* The total of integers is an integer.
LEMMA TotalInt ==
    ASSUME NEW s \in Seq(Int)
    PROVE  Total(s) \in Int
<1>1. PICK T : Totals(s, T) /\ Total(s) = T[Len(s)]
  BY TotalsExist
<1>2. QED
  BY <1>1 DEF Totals

\* The total of a longer sequence.
LEMMA TotalAppend ==
    ASSUME NEW s \in Seq(Int), NEW x \in Int
    PROVE  Total(Append(s, x)) = Total(s) + x
<1> DEFINE t == Append(s, x)
<1>1. t \in Seq(Int) /\ Len(t) = Len(s) + 1 /\ Len(s) \in Nat /\ t[Len(t)] = x /\ \A i \in 1..Len(s) : s[i] = t[i]
  BY AppendProperties
<1> HIDE DEF t
<1>2. PICK S : Totals(s, S) /\ Total(s) = S[Len(s)]
  BY TotalsExist
<1>3. PICK T : Totals(t, T) /\ Total(t) = T[Len(t)]
  BY <1>1, TotalsExist
<1>4. S[Len(s)] = T[Len(s)]
  BY <1>1, <1>2, <1>3, TotalsAgree
<1>5. T[Len(t)] = T[Len(t) - 1] + t[Len(t)]
  <2>1. Len(t) \in 1..Len(t)
    BY <1>1
  <2>2. QED
    BY <1>3, <2>1 DEF Totals
<1>6. QED
  BY <1>1, <1>2, <1>3, <1>4, <1>5 DEF t

\* The totals of the beginnings of a sequence.
LEMMA TotalOfFirst ==
    ASSUME NEW s \in Seq(Int), NEW k \in 1..Len(s)
    PROVE  /\ Total(SubSeq(s, 1, k)) = Total(SubSeq(s, 1, k - 1)) + s[k]
           /\ Total(SubSeq(s, 1, k - 1)) \in Int
<1> DEFINE p == SubSeq(s, 1, k - 1)
           q == SubSeq(s, 1, k)
<1>1. p \in Seq(Int) /\ q \in Seq(Int) /\ s[k] \in Int
  OBVIOUS
<1>2. q = Append(p, s[k])
  <2>1. q = p \o <<s[k]>>
    BY SubSeqRecursiveSecond
  <2> HIDE DEF p, q
  <2>2. QED
    BY <1>1, <2>1, AppendIsConcat
<1> HIDE DEF p, q
<1>3. Total(q) = Total(p) + s[k] /\ Total(p) \in Int
  BY <1>1, <1>2, TotalAppend, TotalInt
<1>4. QED
  BY <1>3 DEF p, q

\* Sizes that are not negative have growing totals.
LEMMA TotalGrows ==
    ASSUME NEW s \in Seq(Nat), NEW i \in 0..Len(s), NEW j \in i..Len(s)
    PROVE  /\ Total(SubSeq(s, 1, i)) \in Nat
           /\ Total(SubSeq(s, 1, i)) <= Total(SubSeq(s, 1, j))
<1> DEFINE P(k) == Total(SubSeq(s, 1, k))
<1>1. s \in Seq(Int) /\ Len(s) \in Nat /\ \A k \in 1..Len(s) : s[k] \in Nat
  BY SeqMonotonic
<1>2. \A k \in 1..Len(s) : P(k) = P(k - 1) + s[k] /\ P(k - 1) \in Int
  BY <1>1, TotalOfFirst
<1>3. P(0) = 0
  <2>1. SubSeq(s, 1, 0) = <<>>
    BY SubSeqEmpty
  <2>2. QED
    BY <2>1, TotalOfNone
<1> HIDE DEF P
<1>4. \A k \in Nat : k <= Len(s) => P(k) \in Nat
  <2> DEFINE T == {k \in Nat : k <= Len(s) => P(k) \in Nat}
  <2>1. 0 \in T
    BY <1>3
  <2>2. ASSUME NEW k \in Nat, k \in T PROVE k + 1 \in T
    <3> SUFFICES ASSUME k + 1 <= Len(s) PROVE P(k + 1) \in Nat
      OBVIOUS
    <3>1. P(k + 1) = P((k + 1) - 1) + s[k + 1] /\ s[k + 1] \in Nat
      BY <1>1, <1>2
    <3>2. (k + 1) - 1 = k /\ P(k) \in Nat
      BY <2>2, <1>1
    <3>3. QED
      BY <3>1, <3>2
  <2>3. \A k \in Nat : k \in T
    <3> HIDE DEF T
    <3>1. QED
      BY <2>1, <2>2, Inductive
  <2>4. QED
    BY <2>3
<1>5. \A k \in Nat : i + k <= Len(s) => P(i) <= P(i + k)
  <2> DEFINE T == {k \in Nat : i + k <= Len(s) => P(i) <= P(i + k)}
  <2>1. 0 \in T
    <3>1. i + 0 = i /\ P(i) \in Nat
      BY <1>1, <1>4
    <3>2. QED
      BY <3>1
  <2>2. ASSUME NEW k \in Nat, k \in T PROVE k + 1 \in T
    <3> SUFFICES ASSUME i + (k + 1) <= Len(s) PROVE P(i) <= P(i + (k + 1))
      OBVIOUS
    <3>1. i + (k + 1) \in 1..Len(s) /\ (i + (k + 1)) - 1 = i + k /\ i + k \in Nat /\ i + k <= Len(s) /\ i \in Nat
      BY <1>1
    <3>2. P(i + (k + 1)) = P(i + k) + s[i + (k + 1)] /\ s[i + (k + 1)] \in Nat
      BY <1>1, <1>2, <3>1
    <3>3. P(i) <= P(i + k) /\ P(i) \in Nat /\ P(i + k) \in Nat
      BY <2>2, <3>1, <1>1, <1>4
    <3>4. QED
      BY <3>2, <3>3
  <2>3. \A k \in Nat : k \in T
    <3> HIDE DEF T
    <3>1. QED
      BY <2>1, <2>2, Inductive
  <2>4. QED
    BY <2>3
<1>6. j - i \in Nat /\ i + (j - i) = j /\ i \in Nat /\ i <= Len(s)
  BY <1>1
<1>7. P(i) \in Nat /\ P(i) <= P(j)
  BY <1>1, <1>4, <1>5, <1>6
<1>8. QED
  BY <1>7 DEF P

-----------------------------------------------------------------------------
(* What FlattenSeq computes.                                               *)

\* T has what the first sequences of s make when they are joined.
Joins(S, s, T) ==
    T \in [0..Len(s) -> Seq(S)] /\ T[0] = <<>> /\ \A i \in 1..Len(s) : T[i] = T[i - 1] \o s[i]

\* FlattenSeq is the last of its partial concatenations.
LEMMA JoinsExist ==
    ASSUME NEW S, NEW s \in Seq(Seq(S))
    PROVE  \E T : Joins(S, s, T) /\ FlattenSeq(s) = T[Len(s)]
<1> DEFINE n == Len(s)
           D == Seq(S)
           G == [p \in D \X (1..n) |-> p[1] \o s[p[2]]]
           F == CHOOSE F : F = [i \in 1..n |-> IF i = 1 THEN s[i] ELSE F[i - 1] \o s[i]]
           T == [i \in 0..n |-> IF i = 0 THEN <<>> ELSE F[i]]
<1>1. n \in Nat /\ <<>> \in D /\ \A i \in 1..n : s[i] \in D
  BY EmptySeq
<1>2. G \in [D \X (1..n) -> D]
  <2>1. ASSUME NEW p \in D \X (1..n) PROVE p[1] \o s[p[2]] \in D
    <3>1. p[1] \in Seq(S) /\ s[p[2]] \in Seq(S)
      BY <1>1
    <3>2. QED
      BY <3>1, ConcatProperties
  <2>2. QED
    BY <2>1
<1>3. PICK f : Unrolls(f, D, <<>>, n, G)
  <2> HIDE DEF G, n, F, D
  <2>1. QED
    BY <1>1, <1>2, RecursionExists, Zenon
<1>4. f \in [0..n -> D] /\ f[0] = <<>> /\ \A i \in 1..n : f[i] = f[i - 1] \o s[i]
  <2>1. f \in [0..n -> D] /\ f[0] = <<>> /\ \A i \in 1..n : f[i] = G[<<f[i - 1], i>>]
    BY <1>3 DEF Unrolls
  <2>2. ASSUME NEW i \in 1..n PROVE f[i] = f[i - 1] \o s[i]
    <3>1. i - 1 \in 0..n
      BY <1>1
    <3>2. <<f[i - 1], i>> \in D \X (1..n)
      BY <3>1, <2>1
    <3>3. QED
      BY <2>1, <3>2
  <2>3. QED
    BY <2>1, <2>2
<1> DEFINE g == [i \in 1..n |-> f[i]]
<1>5. g = [i \in 1..n |-> IF i = 1 THEN s[i] ELSE g[i - 1] \o s[i]]
  <2>1. ASSUME NEW i \in 1..n PROVE g[i] = IF i = 1 THEN s[i] ELSE g[i - 1] \o s[i]
    <3>1. CASE i = 1
      <4>1. f[1] = <<>> \o s[1] /\ s[1] \in Seq(S)
        <5>1. 1 \in 1..n /\ 1 - 1 = 0
          BY <3>1
        <5>2. f[1] = f[1 - 1] \o s[1]
          BY <1>4, <5>1
        <5>3. QED
          BY <1>4, <1>1, <5>1, <5>2
      <4>2. <<>> \o s[1] = s[1]
        BY <4>1, ConcatEmptySeq
      <4>3. QED
        BY <3>1, <4>1, <4>2
    <3>2. CASE i # 1
      <4>1. i - 1 \in 1..n
        BY <3>2, <1>1
      <4>2. QED
        BY <1>4, <4>1, <3>2
    <3>3. QED
      BY <3>1, <3>2
  <2>2. g = [i \in 1..n |-> g[i]]
    OBVIOUS
  <2> HIDE DEF g
  <2>3. QED
    BY <2>1, <2>2
<1>6. F = [i \in 1..n |-> IF i = 1 THEN s[i] ELSE F[i - 1] \o s[i]]
  <2> HIDE DEF g
  <2>1. QED
    BY <1>5
<1>7. FlattenSeq(s) = IF n = 0 THEN s ELSE F[n]
  BY DEF FlattenSeq
<1> HIDE DEF F, g
<1>8. \A i \in 1..n : F[i] = IF i = 1 THEN s[i] ELSE F[i - 1] \o s[i]
  BY <1>6
<1>9. \A k \in Nat : k + 1 <= n => F[k + 1] \in D
  <2> DEFINE U == {k \in Nat : k + 1 <= n => F[k + 1] \in D}
  <2>1. 0 \in U
    BY <1>8, <1>1
  <2>2. ASSUME NEW k \in Nat, k \in U PROVE k + 1 \in U
    <3> SUFFICES ASSUME (k + 1) + 1 <= n PROVE F[(k + 1) + 1] \in D
      OBVIOUS
    <3>1. F[k + 1] \in Seq(S)
      BY <2>2, <1>1
    <3>2. (k + 1) + 1 \in 1..n /\ (k + 1) + 1 # 1 /\ ((k + 1) + 1) - 1 = k + 1
      BY <1>1
    <3>3. F[(k + 1) + 1] = F[k + 1] \o s[(k + 1) + 1] /\ s[(k + 1) + 1] \in Seq(S)
      BY <3>2, <1>8, <1>1
    <3>4. QED
      BY <3>1, <3>3, ConcatProperties
  <2>3. \A k \in Nat : k \in U
    <3> HIDE DEF U
    <3>1. QED
      BY <2>1, <2>2, Inductive
  <2>4. QED
    BY <2>3
<1>10. \A i \in 1..n : F[i] \in D
  <2> SUFFICES ASSUME NEW i \in 1..n PROVE F[i] \in D
    OBVIOUS
  <2>1. i - 1 \in Nat /\ (i - 1) + 1 = i /\ i <= n
    BY <1>1
  <2>2. QED
    BY <1>9, <2>1
<1>11. T \in [0..n -> D]
  BY <1>1, <1>10
<1>12. T[0] = <<>>
  BY <1>1
<1>13. ASSUME NEW i \in 1..n PROVE T[i] = T[i - 1] \o s[i]
  <2>1. CASE i = 1
    <3>1. T[i] = s[i] /\ T[i - 1] = <<>> /\ s[i] \in Seq(S)
      BY <2>1, <1>1, <1>8
    <3>2. <<>> \o s[i] = s[i]
      BY <3>1, ConcatEmptySeq
    <3>3. QED
      BY <3>1, <3>2
  <2>2. CASE i # 1
    <3>1. i - 1 \in 1..n /\ i \in 0..n /\ i # 0 /\ i - 1 \in 0..n /\ i - 1 # 0
      BY <2>2, <1>1
    <3>2. T[i] = F[i] /\ T[i - 1] = F[i - 1]
      BY <3>1
    <3>3. QED
      BY <3>2, <2>2, <1>8
  <2>3. QED
    BY <2>1, <2>2
<1>14. FlattenSeq(s) = T[n]
  <2>1. CASE n = 0
    <3>1. s = <<>>
      BY <2>1, EmptySeq
    <3>2. QED
      BY <3>1, <2>1, <1>7
  <2>2. CASE n # 0
    BY <2>2, <1>7, <1>1
  <2>3. QED
    BY <2>1, <2>2
<1> HIDE DEF T
<1>15. Joins(S, s, T)
  BY <1>11, <1>12, <1>13 DEF Joins
<1>16. QED
  BY <1>14, <1>15

\* The partial concatenations of a prefix are those of the whole.
LEMMA JoinsAgree ==
    ASSUME NEW S, NEW s, NEW t, NEW P, NEW T, Joins(S, s, P), Joins(S, t, T), Len(s) \in Nat, Len(t) \in Nat,
           Len(s) <= Len(t), \A i \in 1..Len(s) : s[i] = t[i]
    PROVE  \A i \in 0..Len(s) : P[i] = T[i]
<1> DEFINE U == {k \in Nat : k <= Len(s) => P[k] = T[k]}
<1>1. 0 \in U
  BY DEF Joins
<1>2. ASSUME NEW k \in Nat, k \in U PROVE k + 1 \in U
  <2> SUFFICES ASSUME k + 1 <= Len(s) PROVE P[k + 1] = T[k + 1]
    OBVIOUS
  <2>1. k + 1 \in 1..Len(s) /\ k + 1 \in 1..Len(t) /\ (k + 1) - 1 = k /\ P[k] = T[k]
    BY <1>2
  <2>2. P[k + 1] = P[k] \o s[k + 1] /\ T[k + 1] = T[k] \o t[k + 1]
    BY <2>1 DEF Joins
  <2>3. QED
    BY <2>1, <2>2
<1>3. \A k \in Nat : k \in U
  <2> HIDE DEF U
  <2>1. QED
    BY <1>1, <1>2, Inductive
<1>4. QED
  BY <1>3

\* Nothing to join, the type, and one more sequence.
LEMMA FlattenNone == FlattenSeq(<<>>) = <<>>
  BY DEF FlattenSeq

\* Rows of S flatten to a sequence of S.
LEMMA FlattenSeqType ==
    ASSUME NEW S, NEW s \in Seq(Seq(S))
    PROVE  FlattenSeq(s) \in Seq(S)
<1>1. PICK T : Joins(S, s, T) /\ FlattenSeq(s) = T[Len(s)]
  BY JoinsExist
<1>2. Len(s) \in 0..Len(s)
  OBVIOUS
<1>3. QED
  BY <1>1, <1>2 DEF Joins

\* One more row is joined at the end.
LEMMA FlattenAppend ==
    ASSUME NEW S, NEW s \in Seq(Seq(S)), NEW x \in Seq(S)
    PROVE  FlattenSeq(Append(s, x)) = FlattenSeq(s) \o x
<1> DEFINE t == Append(s, x)
<1>1. /\ t \in Seq(Seq(S)) /\ Len(t) = Len(s) + 1 /\ Len(s) \in Nat /\ t[Len(t)] = x
      /\ \A i \in 1..Len(s) : s[i] = t[i]
  BY AppendProperties
<1> HIDE DEF t
<1>2. PICK P : Joins(S, s, P) /\ FlattenSeq(s) = P[Len(s)]
  BY JoinsExist
<1>3. PICK T : Joins(S, t, T) /\ FlattenSeq(t) = T[Len(t)]
  BY <1>1, JoinsExist
<1>4. P[Len(s)] = T[Len(s)]
  <2>1. Len(s) \in 0..Len(s) /\ Len(s) <= Len(t) /\ Len(t) \in Nat
    BY <1>1
  <2>2. QED
    BY <1>1, <1>2, <1>3, <2>1, JoinsAgree
<1>5. T[Len(t)] = T[Len(t) - 1] \o t[Len(t)]
  <2>1. Len(t) \in 1..Len(t)
    BY <1>1
  <2>2. QED
    BY <1>3, <2>1 DEF Joins
<1>6. Len(t) - 1 = Len(s)
  BY <1>1
<1>7. QED
  BY <1>1, <1>2, <1>3, <1>4, <1>5, <1>6 DEF t

\* A stretch of s, one sequence at a time.
LEMMA FlattenLast ==
    ASSUME NEW S, NEW s \in Seq(Seq(S)), NEW m \in Nat, NEW k \in Nat, m < k, k <= Len(s)
    PROVE  /\ FlattenSeq(SubSeq(s, m + 1, k)) = FlattenSeq(SubSeq(s, m + 1, k - 1)) \o s[k]
           /\ FlattenSeq(SubSeq(s, m + 1, k - 1)) \in Seq(S) /\ s[k] \in Seq(S)
<1> DEFINE p == SubSeq(s, m + 1, k - 1)
           q == SubSeq(s, m + 1, k)
<1>1. p \in Seq(Seq(S)) /\ s[k] \in Seq(S)
  <2>1. \A i \in (m + 1)..(k - 1) : s[i] \in Seq(S)
    OBVIOUS
  <2>2. p \in Seq(Seq(S))
    BY <2>1, SubSeqProperties
  <2>3. QED
    BY <2>2
<1>2. q = p \o <<s[k]>>
  <2>1. m + 1 \in 1..Len(s) /\ k \in (m + 1)..Len(s)
    OBVIOUS
  <2>2. QED
    BY <2>1, SubSeqRecursiveSecond
<1> HIDE DEF p, q
<1>3. q = Append(p, s[k])
  BY <1>1, <1>2, AppendIsConcat
<1>4. FlattenSeq(q) = FlattenSeq(p) \o s[k] /\ FlattenSeq(p) \in Seq(S)
  BY <1>1, <1>3, FlattenAppend, FlattenSeqType
<1>5. QED
  BY <1>1, <1>4 DEF p, q

\* Rows flatten stretch by stretch: the reason why batches never overlap and leave no gap.
LEMMA FlattenStretch ==
    ASSUME NEW S, NEW s \in Seq(Seq(S)), NEW m \in 0..Len(s), NEW k \in m..Len(s)
    PROVE  /\ FlattenSeq(SubSeq(s, 1, k)) = FlattenSeq(SubSeq(s, 1, m)) \o FlattenSeq(SubSeq(s, m + 1, k))
           /\ FlattenSeq(SubSeq(s, m + 1, k)) \in Seq(S)
<1> DEFINE F(i, j) == FlattenSeq(SubSeq(s, i + 1, j))
<1>1. Len(s) \in Nat /\ m \in Nat
  OBVIOUS
<1>2. \A i, j \in Nat : i < j /\ j <= Len(s) =>
          F(i, j) = F(i, j - 1) \o s[j] /\ F(i, j - 1) \in Seq(S) /\ s[j] \in Seq(S)
  BY FlattenLast
<1>3. \A i \in Nat : F(i, i) = <<>>
  <2> SUFFICES ASSUME NEW i \in Nat PROVE F(i, i) = <<>>
    OBVIOUS
  <2>1. SubSeq(s, i + 1, i) = <<>>
    BY SubSeqEmpty
  <2>2. QED
    BY <2>1, FlattenNone
<1>4. F(0, m) \in Seq(S)
  <2> DEFINE p == SubSeq(s, 0 + 1, m)
  <2>1. \A i \in (0 + 1)..m : s[i] \in Seq(S)
    OBVIOUS
  <2>2. p \in Seq(Seq(S))
    BY <2>1, SubSeqProperties
  <2> HIDE DEF p
  <2>3. FlattenSeq(p) \in Seq(S)
    BY <2>2, FlattenSeqType
  <2>4. QED
    BY <2>3 DEF p
<1> HIDE DEF F
<1> DEFINE U == {d \in Nat : m + d <= Len(s) => F(0, m + d) = F(0, m) \o F(m, m + d) /\ F(m, m + d) \in Seq(S)}
<1>5. 0 \in U
  <2>1. m + 0 = m /\ F(m, m) = <<>>
    BY <1>1, <1>3
  <2>2. F(0, m) \o <<>> = F(0, m) /\ <<>> \in Seq(S)
    BY <1>4, ConcatEmptySeq, EmptySeq
  <2>3. QED
    BY <2>1, <2>2
<1>6. ASSUME NEW d \in Nat, d \in U PROVE d + 1 \in U
  <2> DEFINE j == m + (d + 1)
  <2> SUFFICES ASSUME j <= Len(s) PROVE F(0, j) = F(0, m) \o F(m, j) /\ F(m, j) \in Seq(S)
    <3>1. d + 1 \in Nat
      OBVIOUS
    <3>2. QED
      BY <3>1, Zenon
  <2>1. j \in Nat /\ j - 1 = m + d /\ m + d <= Len(s) /\ 0 < j /\ m < j
    BY <1>1
  <2>2. F(0, m + d) = F(0, m) \o F(m, m + d) /\ F(m, m + d) \in Seq(S)
    BY <1>6, <2>1
  <2>3. F(0, j) = F(0, m + d) \o s[j] /\ F(m, j) = F(m, m + d) \o s[j] /\ s[j] \in Seq(S)
    <3>1. F(0, j) = F(0, j - 1) \o s[j]
      BY <1>2, <2>1
    <3>2. F(m, j) = F(m, j - 1) \o s[j] /\ s[j] \in Seq(S)
      BY <1>1, <1>2, <2>1
    <3>3. QED
      BY <3>1, <3>2, <2>1
  <2> HIDE DEF j
  <2>4. (F(0, m) \o F(m, m + d)) \o s[j] = F(0, m) \o (F(m, m + d) \o s[j])
    <3> DEFINE a == F(0, m)
               b == F(m, m + d)
               c == s[j]
    <3>1. a \in Seq(S) /\ b \in Seq(S) /\ c \in Seq(S)
      BY <1>4, <2>2, <2>3
    <3> HIDE DEF a, b, c
    <3>2. (a \o b) \o c = a \o (b \o c)
      BY <3>1, ConcatAssociative
    <3>3. QED
      BY <3>2 DEF a, b, c
  <2>5. F(m, m + d) \o s[j] \in Seq(S)
    BY <2>2, <2>3, ConcatProperties
  <2>6. QED
    BY <2>2, <2>3, <2>4, <2>5
<1>7. \A d \in Nat : d \in U
  <2> HIDE DEF U
  <2>1. QED
    BY <1>5, <1>6, Inductive
<1>8. k - m \in Nat /\ m + (k - m) = k /\ k <= Len(s)
  BY <1>1
<1>9. F(0, k) = F(0, m) \o F(m, k) /\ F(m, k) \in Seq(S)
  BY <1>7, <1>8
<1>10. 0 + 1 = 1
  OBVIOUS
<1>11. QED
  BY <1>9, <1>10 DEF F

-----------------------------------------------------------------------------
(* What Ascending computes.                                                *)

\* How many members of S are smaller.
Rank(S, x) == Cardinality({y \in S : y < x})

\* Members in order have different ranks.
LEMMA RankDiffers ==
    ASSUME NEW S, S \subseteq Int, IsFiniteSet(S), NEW x \in S, NEW y \in S, x < y
    PROVE  Rank(S, x) # Rank(S, y)
<1> DEFINE X == {z \in S : z < x}
           Y == {z \in S : z < y}
<1>1. \A z \in S : z < x => z < y
  OBVIOUS
<1>2. X \subseteq Y /\ x \in Y /\ Y \subseteq S
  BY <1>1
<1>3. x \notin X
  OBVIOUS
<1> HIDE DEF X, Y
<1>4. IsFiniteSet(Y)
  BY <1>2, FS_Subset
<1>5. Cardinality(X) # Cardinality(Y)
  BY <1>2, <1>3, <1>4, FS_Subset
<1>6. QED
  BY <1>5 DEF X, Y, Rank

\* A rank is that of one member.
LEMMA RankInjective ==
    ASSUME NEW S, S \subseteq Int, IsFiniteSet(S), NEW x \in S, NEW y \in S, Rank(S, x) = Rank(S, y)
    PROVE  x = y
<1>1. ~(x < y)
  BY RankDiffers
<1>2. ~(y < x)
  BY RankDiffers
<1>3. x \in Int /\ y \in Int
  OBVIOUS
<1>4. QED
  BY <1>1, <1>2, <1>3

\* Ranks are the positions below the number of members.
LEMMA RankRange ==
    ASSUME NEW S, S \subseteq Int, IsFiniteSet(S), NEW x \in S
    PROVE  Rank(S, x) \in 0..(Cardinality(S) - 1)
<1> DEFINE X == {z \in S : z < x}
<1>1. X \subseteq S /\ x \notin X
  OBVIOUS
<1> HIDE DEF X
<1>2. IsFiniteSet(X) /\ Cardinality(X) <= Cardinality(S) /\ Cardinality(X) # Cardinality(S)
  BY <1>1, FS_Subset
<1>3. Cardinality(X) \in Nat /\ Cardinality(S) \in Nat
  BY <1>2, FS_CardinalityType
<1>4. Cardinality(X) \in 0..(Cardinality(S) - 1)
  BY <1>2, <1>3
<1>5. QED
  BY <1>4 DEF X, Rank

\* Every position is some member's rank.
LEMMA RankReached ==
    ASSUME NEW S, S \subseteq Int, IsFiniteSet(S), NEW i \in 1..Cardinality(S)
    PROVE  \E x \in S : Rank(S, x) = i - 1
<1> DEFINE n == Cardinality(S)
           N == 0..(n - 1)
           r == [x \in S |-> Rank(S, x)]
<1>1. n \in Nat
  BY FS_CardinalityType
<1>2. r \in [S -> N]
  BY RankRange
<1>3. \A x, y \in S : r[x] = r[y] => x = y
  BY RankInjective
<1>4. IsFiniteSet(N) /\ Cardinality(N) = n
  <2>1. IsFiniteSet(N) /\ Cardinality(N) = IF 0 > n - 1 THEN 0 ELSE (n - 1) - 0 + 1
    <3>1. 0 \in Int /\ n - 1 \in Int
      BY <1>1
    <3> HIDE DEF n
    <3>2. QED
      BY <3>1, FS_Interval
  <2>2. QED
    BY <1>1, <2>1
<1>5. i - 1 \in N
  BY <1>1
<1> HIDE DEF r, N
<1>6. r \in Injection(S, N)
  BY <1>2, <1>3 DEF Injection, IsInjective
<1>7. r \in Surjection(S, N)
  BY <1>4, <1>6, FS_Injection
<1>8. \E x \in S : r[x] = i - 1
  BY <1>5, <1>7 DEF Surjection
<1>9. QED
  BY <1>8 DEF r

\* The sequence has every member of S once.
LEMMA AscendingIs ==
    ASSUME NEW S, S \subseteq Int, IsFiniteSet(S)
    PROVE  LET A == Ascending(S) IN
           /\ A \in Seq(S) /\ Len(A) = Cardinality(S) /\ ToSet(A) = S
           /\ \A i, j \in 1..Len(A) : A[i] = A[j] => i = j
           /\ \A i \in 1..Len(A) : Rank(S, A[i]) = i - 1
<1> DEFINE A == Ascending(S)
           n == Cardinality(S)
<1>1. n \in Nat
  BY FS_CardinalityType
<1>2. A = [i \in 1..n |-> CHOOSE x \in S : Rank(S, x) = i - 1]
  BY DEF Ascending, Rank
<1> HIDE DEF A
<1>3. \A i \in 1..n : A[i] \in S /\ Rank(S, A[i]) = i - 1
  <2> SUFFICES ASSUME NEW i \in 1..n PROVE A[i] \in S /\ Rank(S, A[i]) = i - 1
    OBVIOUS
  <2>1. \E x \in S : Rank(S, x) = i - 1
    BY RankReached
  <2>2. A[i] = CHOOSE x \in S : Rank(S, x) = i - 1
    BY <1>2
  <2>3. QED
    BY <2>1, <2>2
<1>4. A \in [1..n -> S]
  BY <1>2, <1>3
<1>5. A \in Seq(S) /\ Len(A) = n
  BY <1>1, <1>4
<1>6. \A x \in S : \E i \in 1..n : A[i] = x
  <2> SUFFICES ASSUME NEW x \in S PROVE \E i \in 1..n : A[i] = x
    OBVIOUS
  <2> DEFINE i == Rank(S, x) + 1
  <2>1. Rank(S, x) \in 0..(n - 1)
    BY RankRange
  <2>2. i \in 1..n /\ i - 1 = Rank(S, x)
    BY <1>1, <2>1
  <2> HIDE DEF i
  <2>3. A[i] \in S /\ Rank(S, A[i]) = Rank(S, x)
    BY <1>3, <2>2
  <2>4. A[i] = x
    BY <2>3, RankInjective
  <2>5. QED
    BY <2>2, <2>4
<1>7. ToSet(A) = S
  BY <1>3, <1>4, <1>6 DEF ToSet
<1>8. \A i, j \in 1..n : A[i] = A[j] => i = j
  <2> SUFFICES ASSUME NEW i \in 1..n, NEW j \in 1..n, A[i] = A[j] PROVE i = j
    OBVIOUS
  <2>1. i - 1 = j - 1
    BY <1>3
  <2>2. QED
    BY <2>1
<1>9. QED
  BY <1>3, <1>5, <1>7, <1>8 DEF A

\* 1..n in ascending order.
LEMMA AscendingInterval ==
    ASSUME NEW n \in Nat
    PROVE  Ascending(1..n) \in Seq(1..n) /\ Len(Ascending(1..n)) = n /\ \A i \in 1..n : Ascending(1..n)[i] = i
<1> DEFINE S == 1..n
           A == Ascending(S)
<1>1. S \subseteq Int /\ IsFiniteSet(S) /\ Cardinality(S) = n
  <2>1. IsFiniteSet(S) /\ Cardinality(S) = IF 1 > n THEN 0 ELSE n - 1 + 1
    BY FS_Interval
  <2>2. QED
    BY <2>1
<1>2. A \in Seq(S) /\ Len(A) = n /\ \A i \in 1..n : Rank(S, A[i]) = i - 1
  <2> HIDE DEF S
  <2>1. QED
    BY <1>1, AscendingIs
<1>3. \A x \in S : Rank(S, x) = x - 1
  <2> SUFFICES ASSUME NEW x \in S PROVE Rank(S, x) = x - 1
    OBVIOUS
  <2>1. {y \in S : y < x} = 1..(x - 1)
    OBVIOUS
  <2>2. Cardinality(1..(x - 1)) = IF 1 > x - 1 THEN 0 ELSE (x - 1) - 1 + 1
    BY FS_Interval
  <2>3. Cardinality(1..(x - 1)) = x - 1
    BY <2>2
  <2>4. QED
    BY <2>1, <2>3 DEF Rank
<1>4. ASSUME NEW i \in 1..n PROVE A[i] = i
  <2>1. A[i] \in S
    BY <1>2, ElementOfSeq
  <2>2. A[i] - 1 = i - 1
    BY <1>2, <1>3, <2>1
  <2> DEFINE a == A[i]
  <2>3. a \in Int /\ a - 1 = i - 1
    BY <2>1, <2>2
  <2> HIDE DEF a
  <2>4. a = i
    BY <2>3
  <2>5. QED
    BY <2>4 DEF a
<1>5. QED
  BY <1>2, <1>4

-----------------------------------------------------------------------------
(* Ids within their tables.                                                *)

\* Python's min of two numbers.
LEMMA MinOfTwo ==
    ASSUME NEW a \in Int, NEW b \in Int
    PROVE  Min({a, b}) = IF a <= b THEN a ELSE b
<1> DEFINE S == {a, b}
           m == IF a <= b THEN a ELSE b
<1>1. m \in S /\ \A y \in S : m <= y
  OBVIOUS
<1>2. Min(S) \in S /\ \A y \in S : Min(S) <= y
  <2>1. \E x \in S : \A y \in S : x <= y
    BY <1>1
  <2> HIDE DEF S
  <2>2. QED
    BY <2>1 DEF Min
<1>3. Min(S) <= m /\ m <= Min(S) /\ Min(S) \in Int
  BY <1>1, <1>2
<1> HIDE DEF S
<1>4. QED
  BY <1>3 DEF S

\* Python's max of two numbers.
LEMMA MaxOfTwo ==
    ASSUME NEW a \in Int, NEW b \in Int
    PROVE  Max({a, b}) = IF a >= b THEN a ELSE b
<1> DEFINE S == {a, b}
           m == IF a >= b THEN a ELSE b
<1>1. m \in S /\ \A y \in S : m >= y
  OBVIOUS
<1>2. Max(S) \in S /\ \A y \in S : Max(S) >= y
  <2>1. \E x \in S : \A y \in S : x >= y
    BY <1>1
  <2> HIDE DEF S
  <2>2. QED
    BY <2>1 DEF Max
<1>3. Max(S) <= m /\ m <= Max(S) /\ Max(S) \in Int
  BY <1>1, <1>2
<1> HIDE DEF S
<1>4. QED
  BY <1>3 DEF S

\* A finite set has a greatest member.
LEMMA MaxOfFinite ==
    ASSUME NEW S, S \subseteq Int, IsFiniteSet(S), S # {}
    PROVE  Max(S) \in S /\ \A y \in S : y <= Max(S)
<1> DEFINE n == Cardinality(S)
<1>1. n \in Nat /\ n # 0
  BY FS_CardinalityType, FS_EmptySet
<1>2. n \in 1..n
  BY <1>1
<1>3. PICK x \in S : Rank(S, x) = n - 1
  BY <1>2, RankReached
<1> DEFINE X == {y \in S : y < x}
           R == S \ {x}
<1>4. IsFiniteSet(R) /\ Cardinality(R) = n - 1
  BY FS_RemoveElement
<1>5. X \subseteq R
  OBVIOUS
<1>6. Cardinality(X) = n - 1
  BY <1>3 DEF Rank
<1> HIDE DEF X, R, n
<1>7. X = R
  BY <1>4, <1>5, <1>6, FS_Subset
<1>8. \A y \in S : x >= y
  BY <1>7 DEF X, R
<1>9. QED
  BY <1>8 DEF Max

\* A hash modulo a size is a row of a table of that size.
LEMMA RemainderIs ==
    ASSUME NEW h \in Nat, NEW d \in Positive
    PROVE  h % d \in 0..(d - 1)
  BY SMTT(30) DEF Positive

\* Hash sizes as sequences of numbers.
LEMMA SizesAreNumbers ==
    ASSUME NEW sizes \in Seq(Positive)
    PROVE  sizes \in Seq(Nat) /\ sizes \in Seq(Int) /\ Len(sizes) \in Nat /\ DOMAIN sizes = 1..Len(sizes)
<1>1. Positive \subseteq Nat /\ Positive \subseteq Int
  BY DEF Positive
<1>2. sizes \in Seq(Nat)
  BY <1>1, SeqMonotonic, Zenon
<1>3. sizes \in Seq(Int)
  BY <1>1, SeqMonotonic, Zenon
<1>4. QED
  BY <1>2, <1>3

\* An id of field f lies in the field's own stretch of the table.
LEMMA PerFieldIdIs ==
    ASSUME NEW sizes \in Seq(Positive), NEW f \in 1..Len(sizes), NEW h \in Nat
    PROVE  LET id == PerFieldId(sizes, f, h) IN
           /\ id \in Nat /\ id < Total(sizes)
           /\ Total(SubSeq(sizes, 1, f - 1)) <= id /\ id < Total(SubSeq(sizes, 1, f))
<1> DEFINE id == PerFieldId(sizes, f, h)
           P(k) == Total(SubSeq(sizes, 1, k))
<1>1. sizes \in Seq(Nat) /\ sizes \in Seq(Int) /\ Len(sizes) \in Nat /\ sizes[f] \in Positive /\ DOMAIN sizes = 1..Len(sizes)
  BY SizesAreNumbers
<1>2. id = P(f - 1) + (h % sizes[f])
  BY <1>1 DEF PerFieldId, field_offsets_from_hash_sizes
<1>3. h % sizes[f] \in 0..(sizes[f] - 1)
  BY <1>1, RemainderIs
<1>4. P(f) = P(f - 1) + sizes[f]
  BY <1>1, TotalOfFirst
<1>5. P(f - 1) \in Nat /\ P(f) \in Nat
  <2>1. f - 1 \in 0..Len(sizes) /\ f - 1 \in (f - 1)..Len(sizes) /\ f \in 0..Len(sizes) /\ f \in f..Len(sizes)
    BY <1>1
  <2>2. QED
    BY <2>1, <1>1, TotalGrows
<1>6. P(f) <= Total(sizes) /\ Total(sizes) \in Int
  <2>1. f \in 0..Len(sizes) /\ Len(sizes) \in f..Len(sizes)
    BY <1>1
  <2>2. P(f) <= P(Len(sizes))
    BY <2>1, <1>1, TotalGrows
  <2>3. SubSeq(sizes, 1, Len(sizes)) = sizes
    BY <1>1, SubSeqFull
  <2>4. QED
    BY <2>2, <2>3, <1>1, TotalInt
<1>7. sizes[f] \in Nat
  BY <1>1 DEF Positive
<1> DEFINE t == Total(sizes)
           a == P(f - 1)
           b == P(f)
           r == h % sizes[f]
<1>8. a \in Nat /\ b \in Nat /\ t \in Int /\ r \in 0..(sizes[f] - 1) /\ b = a + sizes[f] /\ b <= t /\ id = a + r
  BY <1>2, <1>3, <1>4, <1>5, <1>6
<1> HIDE DEF t, a, b, r, id
<1>9. id \in Nat /\ id < t /\ a <= id /\ id < b
  BY <1>7, <1>8
<1>10. QED
  BY <1>9 DEF t, a, b, id

\* The offsets of two fields keep their ids apart: an id is of one field only.
LEMMA PerFieldApart ==
    ASSUME NEW sizes \in Seq(Positive), NEW f \in 1..Len(sizes), NEW g \in 1..Len(sizes), NEW h \in Nat, NEW k \in Nat,
           PerFieldId(sizes, f, h) = PerFieldId(sizes, g, k)
    PROVE  f = g
<1> DEFINE P(i) == Total(SubSeq(sizes, 1, i))
<1>1. sizes \in Seq(Nat) /\ Len(sizes) \in Nat
  BY SizesAreNumbers
<1>2. \A i \in 1..Len(sizes) : \A x \in Nat :
          LET id == PerFieldId(sizes, i, x) IN id \in Nat /\ P(i - 1) <= id /\ id < P(i)
  BY PerFieldIdIs
<1>3. \A i \in 0..Len(sizes) : \A j \in i..Len(sizes) : P(i) \in Nat /\ P(i) <= P(j)
  BY <1>1, TotalGrows
<1> HIDE DEF P
<1>4. ASSUME NEW i \in 1..Len(sizes), NEW j \in 1..Len(sizes), i < j, NEW x \in Nat, NEW y \in Nat
      PROVE  PerFieldId(sizes, i, x) # PerFieldId(sizes, j, y)
  <2>1. i \in 0..Len(sizes) /\ j - 1 \in i..Len(sizes) /\ j - 1 \in 0..Len(sizes) /\ j - 1 \in (j - 1)..Len(sizes)
    BY <1>1, <1>4
  <2>2. P(i) <= P(j - 1) /\ P(i) \in Nat /\ P(j - 1) \in Nat
    BY <1>3, <2>1
  <2> DEFINE u == PerFieldId(sizes, i, x)
             v == PerFieldId(sizes, j, y)
  <2>3. u \in Nat /\ u < P(i) /\ v \in Nat /\ P(j - 1) <= v
    BY <1>2, <1>4
  <2> HIDE DEF u, v
  <2>4. u # v
    BY <2>2, <2>3
  <2>5. QED
    BY <2>4 DEF u, v
<1>5. ~(f < g)
  BY <1>4
<1>6. ~(g < f)
  BY <1>4
<1>7. QED
  BY <1>5, <1>6, <1>1

\* n tables of one size.
LEMMA TotalOfEqual ==
    ASSUME NEW n \in Nat, NEW c \in Nat
    PROVE  [f \in 1..n |-> c] \in Seq(Nat) /\ Len([f \in 1..n |-> c]) = n /\ Total([f \in 1..n |-> c]) = n * c
<1> DEFINE s(k) == [f \in 1..k |-> c]
           U == {k \in Nat : Total(s(k)) = k * c}
<1>1. \A k \in Nat : s(k) \in Seq(Nat) /\ Len(s(k)) = k /\ s(k) \in Seq(Int)
  OBVIOUS
<1>2. 0 \in U
  <2>1. s(0) = <<>>
    <3>1. s(0) \in Seq(Nat) /\ Len(s(0)) = 0
      BY <1>1
    <3> HIDE DEF s
    <3>2. QED
      BY <3>1, EmptySeq
  <2>2. 0 * c = 0
    OBVIOUS
  <2> HIDE DEF s
  <2>3. QED
    BY <2>1, <2>2, TotalOfNone
<1>3. ASSUME NEW k \in Nat, k \in U PROVE k + 1 \in U
  <2>1. s(k + 1) = Append(s(k), c)
    <3>1. Append(s(k), c) \in Seq(Int) /\ Len(Append(s(k), c)) = k + 1 /\ \A i \in 1..(k + 1) : Append(s(k), c)[i] = c
      OBVIOUS
    <3>2. s(k + 1) \in Seq(Int) /\ Len(s(k + 1)) = k + 1 /\ \A i \in 1..(k + 1) : s(k + 1)[i] = c
      OBVIOUS
    <3> DEFINE x == s(k + 1)
               y == Append(s(k), c)
    <3>3. x \in Seq(Int) /\ y \in Seq(Int) /\ Len(x) = Len(y) /\ \A i \in 1..Len(x) : x[i] = y[i]
      BY <3>1, <3>2
    <3> HIDE DEF x, y
    <3>4. x = y
      BY <3>3, SeqEqual
    <3>5. QED
      BY <3>4 DEF x, y
  <2>2. s(k) \in Seq(Int) /\ Total(s(k)) = k * c /\ c \in Int
    BY <1>1, <1>3
  <2> HIDE DEF s
  <2>3. Total(s(k + 1)) = k * c + c
    BY <2>1, <2>2, TotalAppend
  <2>4. (k + 1) * c = k * c + c
    BY SMTT(30)
  <2>5. QED
    BY <2>3, <2>4
<1>4. \A k \in Nat : k \in U
  <2> HIDE DEF U
  <2>1. QED
    BY <1>2, <1>3, Inductive
<1>5. QED
  BY <1>1, <1>4

\* A total of sizes that has a field is positive, and as large as the size of any field.
LEMMA TotalPositive ==
    ASSUME NEW sizes \in Seq(Positive), Len(sizes) >= 1
    PROVE  Total(sizes) \in Positive
<1>1. 1 \in 1..Len(sizes) /\ 0 \in Nat
  OBVIOUS
<1>2. PerFieldId(sizes, 1, 0) \in Nat /\ PerFieldId(sizes, 1, 0) < Total(sizes)
  BY <1>1, PerFieldIdIs
<1>3. sizes \in Seq(Int)
  BY SizesAreNumbers
<1>4. Total(sizes) \in Int
  BY <1>3, TotalInt
<1> DEFINE x == PerFieldId(sizes, 1, 0)
           t == Total(sizes)
<1>5. x \in Nat /\ x < t /\ t \in Int
  BY <1>2, <1>4
<1> HIDE DEF x, t
<1>6. t \in Positive
  BY <1>5 DEF Positive
<1>7. QED
  BY <1>6 DEF t

\* The samples that are used.
LEMMA UpToIs ==
    ASSUME NEW S, NEW rows \in Seq(S), rows # <<>>, NEW max \in Nat
    PROVE  LET u == UpTo(rows, max) IN u \in Seq(S) /\ u # <<>> /\ Len(u) <= Len(rows) /\ \A i \in 1..Len(u) : u[i] = rows[i]
<1> DEFINE k == IF max = Absent THEN Len(rows) ELSE Min({Len(rows), max})
           u == SubSeq(rows, 1, k)
<1>1. Len(rows) \in Nat /\ Len(rows) >= 1
  BY EmptySeq
<1>2. k \in 1..Len(rows)
  <2>1. Min({Len(rows), max}) = IF Len(rows) <= max THEN Len(rows) ELSE max
    BY <1>1, MinOfTwo
  <2>2. QED
    BY <1>1, <2>1 DEF Absent
<1> HIDE DEF k
<1>3. u \in Seq(S) /\ Len(u) = k /\ \A i \in 1..k : u[i] = rows[i]
  <2>1. \A i \in 1..k : rows[i] \in S
    BY <1>2
  <2>2. QED
    BY <1>2, <2>1
<1>4. UpTo(rows, max) = u
  BY DEF UpTo, k
<1> HIDE DEF u
<1>5. u # <<>>
  BY <1>2, <1>3, EmptySeq
<1>6. QED
  BY <1>1, <1>2, <1>3, <1>4, <1>5

-----------------------------------------------------------------------------
(* The traces of preprocess_criteo_trace.                                  *)

\* What a job of each tool is.
LEMMA JobIs ==
    ASSUME NEW j \in Job
    PROVE  /\ j.tool = "criteo" => CriteoJob(j)
           /\ j.tool = "dlrm" => DlrmJob(j)
           /\ j.tool = "synthetic" => SyntheticJob(j)
           /\ j.tool = "import" => ImportJob(j)
           /\ j.tool \in {"criteo", "dlrm", "synthetic", "import"}
<1>1. CriteoJob(j) \/ DlrmJob(j) \/ SyntheticJob(j) \/ ImportJob(j)
  BY JobAssumption
<1>2. CriteoJob(j) => j.tool = "criteo"
  BY DEF CriteoJob
<1>3. DlrmJob(j) => j.tool = "dlrm"
  BY DEF DlrmJob
<1>4. SyntheticJob(j) => j.tool = "synthetic"
  BY DEF SyntheticJob
<1>5. ImportJob(j) => j.tool = "import"
  BY DEF ImportJob
<1>6. QED
  BY <1>1, <1>2, <1>3, <1>4, <1>5

\* The fields of a Criteo job.
LEMMA CriteoFields ==
    ASSUME NEW j, CriteoJob(j)
    PROVE  /\ j.raw \in Seq(Seq(Nat \cup {Empty})) /\ j.raw # <<>> /\ j.mode \in {"per_field_offset", "shared_hash"}
           /\ j.hash_sizes \in Seq(Positive) /\ j.num_fields \in Positive /\ j.drop_empty \in BOOLEAN
           /\ j.batch_size \in Nat /\ j.bag_size \in Positive /\ j.max_samples \in Nat
           /\ Len(j.hash_sizes) \in {1, j.num_fields}
  BY DEF CriteoJob

\* parse_hash_sizes gives every field a size.
LEMMA HashSizesAre ==
    ASSUME NEW value \in Seq(Positive), NEW n \in Positive, Len(value) \in {1, n}
    PROVE  parse_hash_sizes(value, n) \in Seq(Positive) /\ Len(parse_hash_sizes(value, n)) = n
<1>1. n \in Nat
  BY DEF Positive
<1>2. CASE Len(value) = 1
  <2>1. value[1] \in Positive
    <3>1. 1 \in 1..Len(value)
      BY <1>2
    <3>2. QED
      BY <3>1, ElementOfSeq
  <2>2. [f \in 1..n |-> value[1]] \in Seq(Positive) /\ Len([f \in 1..n |-> value[1]]) = n
    BY <1>1, <2>1
  <2>3. QED
    BY <1>2, <2>2 DEF parse_hash_sizes
<1>3. CASE Len(value) # 1
  BY <1>3 DEF parse_hash_sizes
<1>4. QED
  BY <1>2, <1>3

\* The ids of one sample: in range, and the field's own when nothing is dropped.
LEMMA CategoricalIds ==
    ASSUME NEW j, CriteoJob(j), NEW sample \in [1..j.num_fields -> Nat \cup {Empty}]
    PROVE  LET ids == categorical_to_ids(sample, j)
               sizes == CriteoSizes(j) IN
           /\ ids \in Seq(0..(Total(sizes) - 1))
           /\ ~j.drop_empty =>
                  /\ Len(ids) = j.num_fields
                  /\ j.mode = "per_field_offset" =>
                         \A i \in 1..Len(ids) : \E h \in Nat : ids[i] = PerFieldId(sizes, i, h)
<1> DEFINE n == j.num_fields
           sizes == CriteoSizes(j)
           V == 0..(Total(sizes) - 1)
           K == {f \in DOMAIN sample : sample[f] # Empty \/ ~j.drop_empty}
           fields == Ascending(K)
           hash(f) == IF sample[f] = Empty THEN EmptyHash ELSE sample[f]
           id(f) == IF j.mode = "per_field_offset" THEN PerFieldId(sizes, f, hash(f)) ELSE hash(f) % Total(sizes)
           ids == categorical_to_ids(sample, j)
<1>1. n \in Nat /\ n >= 1 /\ n \in Positive /\ DOMAIN sample = 1..n
  BY CriteoFields DEF Positive
<1>2. sizes \in Seq(Positive) /\ Len(sizes) = n
  BY <1>1, CriteoFields, HashSizesAre DEF CriteoSizes
<1>3. K \subseteq 1..n /\ (~j.drop_empty => K = 1..n)
  BY <1>1
<1>4. K \subseteq Int /\ IsFiniteSet(K)
  <2>1. IsFiniteSet(1..n)
    BY <1>1, FS_Interval
  <2>2. K \subseteq Int
    BY <1>1
  <2> HIDE DEF K
  <2>3. IsFiniteSet(K)
    BY <1>3, <2>1, FS_Subset, Zenon
  <2>4. QED
    BY <2>2, <2>3
<1>5. fields \in Seq(K) /\ Len(fields) \in Nat /\ DOMAIN fields = 1..Len(fields)
  <2> HIDE DEF K
  <2>1. fields \in Seq(K)
    BY <1>4, AscendingIs
  <2> HIDE DEF fields
  <2>2. QED
    BY <2>1
<1>6. Total(sizes) \in Positive
  BY <1>1, <1>2, TotalPositive
<1>7. \A f \in 1..n : hash(f) \in Nat
  BY <1>1, TraceAssumption
<1>8. \A f \in 1..n : id(f) \in V
  <2> SUFFICES ASSUME NEW f \in 1..n PROVE id(f) \in V
    OBVIOUS
  <2>1. hash(f) \in Nat
    BY <1>7
  <2> HIDE DEF hash, sizes
  <2> DEFINE t == Total(sizes)
  <2>2. hash(f) % t \in 0..(t - 1)
    BY <2>1, <1>6, RemainderIs
  <2>3. PerFieldId(sizes, f, hash(f)) \in Nat /\ PerFieldId(sizes, f, hash(f)) < t
    BY <2>1, <1>2, PerFieldIdIs
  <2>4. t \in Int
    BY <1>6 DEF Positive
  <2> HIDE DEF t
  <2>5. QED
    BY <2>2, <2>3, <2>4 DEF t
<1>9. ids = [i \in DOMAIN fields |-> id(fields[i])]
  BY DEF categorical_to_ids
<1>10. \A i \in 1..Len(fields) : fields[i] \in 1..n
  <2> HIDE DEF K, fields
  <2>1. QED
    BY <1>3, <1>5, ElementOfSeq
<1> HIDE DEF id, fields, ids, V
<1>11. ids \in Seq(V) /\ Len(ids) = Len(fields)
  <2>1. ids \in [1..Len(fields) -> V]
    BY <1>5, <1>8, <1>9, <1>10
  <2>2. QED
    BY <1>5, <2>1
<1>12. ASSUME ~j.drop_empty PROVE Len(ids) = n /\ \A i \in 1..n : ids[i] = id(i)
  <2>1. fields = Ascending(1..n)
    BY <1>3, <1>12 DEF fields
  <2>2. Len(fields) = n /\ \A i \in 1..n : fields[i] = i
    BY <1>1, <2>1, AscendingInterval
  <2>3. QED
    BY <1>5, <1>9, <1>11, <2>2
<1>13. ASSUME ~j.drop_empty, j.mode = "per_field_offset", NEW i \in 1..n
       PROVE  \E h \in Nat : ids[i] = PerFieldId(sizes, i, h)
  <2>1. ids[i] = PerFieldId(sizes, i, hash(i)) /\ hash(i) \in Nat
    BY <1>7, <1>12, <1>13 DEF id
  <2> HIDE DEF hash
  <2>2. QED
    BY <2>1
<1> HIDE DEF sizes
<1>14. QED
  BY <1>11, <1>12, <1>13 DEF V, sizes, ids

\* A row of preprocess_criteo_trace: its width, its range and the field of each id.
LEMMA CriteoRowIs ==
    ASSUME NEW j, CriteoJob(j), NEW line \in Seq(Nat \cup {Empty})
    PROVE  LET row == CriteoRow(line, j)
               sizes == CriteoSizes(j) IN
           /\ row \in Seq(0..(Total(sizes) - 1)) /\ row # <<>>
           /\ j.drop_empty \/ j.bag_size <= j.num_fields => Len(row) = j.bag_size
           /\ ~j.drop_empty =>
                  /\ Len(row) = IF j.num_fields < j.bag_size THEN j.num_fields ELSE j.bag_size
                  /\ j.mode = "per_field_offset" =>
                         \A i \in 1..Len(row) : \E h \in Nat : row[i] = PerFieldId(sizes, i, h)
<1> DEFINE n == j.num_fields
           bag == j.bag_size
           sizes == CriteoSizes(j)
           V == 0..(Total(sizes) - 1)
           sample == parse_criteo_line(line, n)
           ids == categorical_to_ids(sample, j)
           pad == IF j.drop_empty /\ Len(ids) < bag THEN bag - Len(ids) ELSE 0
           zeros == [i \in 1..pad |-> 0]
           whole == ids \o zeros
           cut == IF Len(whole) < bag THEN Len(whole) ELSE bag
           row == SubSeq(whole, 1, cut)
<1>1. n \in Nat /\ n >= 1 /\ bag \in Nat /\ bag >= 1 /\ n \in Positive /\ j.drop_empty \in BOOLEAN
  BY CriteoFields DEF Positive
<1>2. sample \in [1..n -> Nat \cup {Empty}]
  <2>1. \A f \in 1..n : f <= Len(line) => line[f] \in Nat \cup {Empty}
    OBVIOUS
  <2>2. QED
    BY <2>1 DEF parse_criteo_line
<1> HIDE DEF sample
<1>3. /\ ids \in Seq(V)
      /\ ~j.drop_empty =>
             /\ Len(ids) = n
             /\ j.mode = "per_field_offset" =>
                    \A i \in 1..Len(ids) : \E h \in Nat : ids[i] = PerFieldId(sizes, i, h)
  BY <1>2, CategoricalIds
<1>4. 0 \in V
  <2>1. sizes \in Seq(Positive) /\ Len(sizes) = n
    BY <1>1, CriteoFields, HashSizesAre DEF CriteoSizes
  <2> HIDE DEF sizes
  <2>2. Total(sizes) \in Positive
    BY <1>1, <2>1, TotalPositive
  <2>3. QED
    BY <2>2 DEF Positive
<1>5. CriteoRow(line, j) = row
  BY DEF CriteoRow, sample
<1> HIDE DEF ids, V, sizes
<1>6. Len(ids) \in Nat /\ pad \in Nat
  BY <1>1, <1>3
<1>7. zeros \in Seq(V) /\ Len(zeros) = pad
  <2> HIDE DEF pad
  <2>1. QED
    BY <1>4, <1>6
<1> HIDE DEF zeros
<1>8. /\ whole \in Seq(V) /\ Len(whole) = Len(ids) + pad
      /\ \A i \in 1..Len(ids) : whole[i] = ids[i]
  <2>1. /\ whole \in Seq(V) /\ Len(whole) = Len(ids) + Len(zeros)
        /\ \A i \in 1..(Len(ids) + Len(zeros)) : whole[i] = IF i <= Len(ids) THEN ids[i] ELSE zeros[i - Len(ids)]
    BY <1>3, <1>7, ConcatProperties
  <2> HIDE DEF whole, pad
  <2>2. QED
    BY <2>1, <1>6, <1>7
<1> HIDE DEF whole
<1>9. /\ j.drop_empty => Len(whole) >= bag
      /\ ~j.drop_empty => Len(whole) = n /\ Len(ids) = n
  BY <1>1, <1>3, <1>6, <1>8
<1>10. cut \in 1..Len(whole) /\ cut \in Nat
  BY <1>1, <1>6, <1>8, <1>9
<1>11. /\ j.drop_empty \/ bag <= n => cut = bag
       /\ ~j.drop_empty => cut = IF n < bag THEN n ELSE bag
  BY <1>1, <1>9, <1>6, <1>8
<1> HIDE DEF cut
<1>12. row \in Seq(V) /\ Len(row) = cut /\ \A i \in 1..cut : row[i] = whole[i]
  <2>1. \A i \in 1..cut : whole[i] \in V
    BY <1>8, <1>10
  <2>2. QED
    BY <1>8, <1>10, <2>1
<1> HIDE DEF row
<1>13. row # <<>>
  BY <1>10, <1>12
<1>14. ASSUME ~j.drop_empty, j.mode = "per_field_offset", NEW i \in 1..cut
       PROVE  \E h \in Nat : row[i] = PerFieldId(sizes, i, h)
  <2>1. i \in 1..Len(ids)
    BY <1>9, <1>10, <1>14, <1>1
  <2>2. row[i] = ids[i]
    BY <2>1, <1>8, <1>12
  <2>3. QED
    BY <2>1, <2>2, <1>3, <1>14
<1>15. QED
  BY <1>5, <1>11, <1>12, <1>13, <1>14 DEF V, sizes

-----------------------------------------------------------------------------
(* The traces of convert_dlrm_trace.                                       *)

\* The parts of a conversion job.
LEMMA DlrmFields ==
    ASSUME NEW j, DlrmJob(j)
    PROVE  /\ j.raw.shape \in Seq(Positive) /\ j.raw.data \in Seq(Nat)
           /\ j.mode \in {"per_field_offset", "shared_hash", "direct"}
           /\ j.hash_sizes \in Seq(Positive) /\ j.num_embeddings \in Nat
           /\ j.batch_size \in Nat /\ j.max_samples \in Nat
           /\ Len(j.raw.shape) \in 1..3 /\ Len(j.raw.data) >= Width(j.raw.shape)
           /\ Len(j.hash_sizes) \in {0, 1, Width(j.raw.shape)}
           /\ Width(j.raw.shape) \in Positive
<1>1. /\ j.raw.shape \in Seq(Positive) /\ j.raw.data \in Seq(Nat)
      /\ j.mode \in {"per_field_offset", "shared_hash", "direct"}
      /\ j.hash_sizes \in Seq(Positive) /\ j.num_embeddings \in Nat
      /\ j.batch_size \in Nat /\ j.max_samples \in Nat
      /\ Len(j.raw.shape) \in 1..3 /\ Len(j.raw.data) >= Width(j.raw.shape)
      /\ Len(j.hash_sizes) \in {0, 1, Width(j.raw.shape)}
  BY DEF DlrmJob
<1>2. Width(j.raw.shape) \in Positive
  <2>1. Len(j.raw.shape) \in 1..Len(j.raw.shape)
    <3> DEFINE n == Len(j.raw.shape)
    <3>1. n \in 1..3
      BY <1>1
    <3> HIDE DEF n
    <3>2. n \in 1..n
      BY <3>1
    <3>3. QED
      BY <3>2 DEF n
  <2>2. j.raw.shape[Len(j.raw.shape)] \in Positive
    BY <1>1, <2>1, ElementOfSeq
  <2>3. 1 \in Positive
    BY DEF Positive
  <2>4. QED
    BY <2>2, <2>3 DEF Width
<1>3. QED
  BY <1>1, <1>2

\* Samples of one width.
LEMMA SamplesAre ==
    ASSUME NEW j, DlrmJob(j)
    PROVE  LET raw == load_sparse(j) IN
           /\ raw \in Seq(Seq(Nat)) /\ raw # <<>>
           /\ \A i \in 1..Len(raw) : Len(raw[i]) = Width(j.raw.shape)
<1> DEFINE w == Width(j.raw.shape)
           data == j.raw.data
           n == Len(data) \div w
           R == {r \in Seq(Nat) : Len(r) = w}
           rows == [i \in 1..n |-> SubSeq(data, (i - 1) * w + 1, i * w)]
<1>1. w \in Nat /\ w >= 1 /\ data \in Seq(Nat) /\ Len(data) \in Nat /\ Len(data) >= w /\ j.max_samples \in Nat
  BY DlrmFields DEF Positive
<1> HIDE DEF w, data
<1>2. n \in Nat /\ n >= 1 /\ n * w <= Len(data)
  <2>1. \A m \in Nat : m \div w \in Nat /\ (m >= w => m \div w >= 1) /\ (m \div w) * w <= m
    BY <1>1, SMTT(30)
  <2>2. QED
    BY <1>1, <2>1
<1> HIDE DEF n
<1>3. \A i \in 1..n : SubSeq(data, (i - 1) * w + 1, i * w) \in R
  <2> SUFFICES ASSUME NEW i \in 1..n PROVE SubSeq(data, (i - 1) * w + 1, i * w) \in R
    OBVIOUS
  <2> DEFINE a == (i - 1) * w + 1
             b == i * w
  <2>1. a \in Int /\ b \in Int /\ 1 <= a /\ b - a + 1 = w /\ b <= Len(data)
    <3>1. i * w \in Nat /\ (i - 1) * w = i * w - w /\ (i - 1) * w \in Nat
      BY <1>1, <1>2, SMTT(30)
    <3>2. i * w <= n * w /\ n * w \in Nat
      BY <1>1, <1>2, SMTT(30)
    <3>3. QED
      BY <1>1, <1>2, <3>1, <3>2
  <2> HIDE DEF a, b
  <2>2. \A k \in a..b : data[k] \in Nat
    BY <1>1, <2>1
  <2>3. SubSeq(data, a, b) \in Seq(Nat) /\ Len(SubSeq(data, a, b)) = IF a <= b THEN b - a + 1 ELSE 0
    BY <2>1, <2>2, SubSeqProperties
  <2>4. Len(SubSeq(data, a, b)) = w
    BY <1>1, <2>1, <2>3
  <2>5. QED
    BY <2>3, <2>4 DEF a, b
<1>4. rows \in Seq(R) /\ Len(rows) = n
  <2>1. rows \in [1..n -> R]
    BY <1>3
  <2> HIDE DEF rows, R
  <2>2. QED
    BY <1>2, <2>1
<1> DEFINE raw == UpTo(rows, j.max_samples)
<1>5. load_sparse(j) = raw
  BY DEF load_sparse, w, n, data
<1> HIDE DEF rows, R
<1>6. rows # <<>>
  BY <1>2, <1>4
<1>7. raw \in Seq(R) /\ raw # <<>>
  BY <1>1, <1>4, <1>6, UpToIs
<1> HIDE DEF raw
<1>8. raw \in Seq(Seq(Nat))
  <2>1. R \subseteq Seq(Nat)
    BY DEF R
  <2>2. QED
    BY <1>7, <2>1, SeqMonotonic, Zenon
<1>9. \A i \in 1..Len(raw) : raw[i] \in R
  BY <1>7, ElementOfSeq
<1>10. QED
  BY <1>5, <1>7, <1>8, <1>9 DEF R, w

\* The features of a trace have a greatest one.
LEMMA ImageFinite ==
    ASSUME NEW s, NEW n \in Nat, DOMAIN s = 1..n
    PROVE  IsFiniteSet(ToSet(s))
<1> DEFINE T == ToSet(s)
           D == 1..n
           f == [i \in D |-> s[i]]
<1>1. f \in Surjection(D, T)
  BY DEF Surjection, ToSet
<1>2. IsFiniteSet(D)
  BY FS_Interval
<1> HIDE DEF f, T, D
<1>3. IsFiniteSet(T)
  BY <1>1, <1>2, FS_Surjection
<1>4. QED
  BY <1>3 DEF T

\* The greatest raw feature, from which convert_dlrm_trace sizes a table, bounds every one.
LEMMA GreatestFeature ==
    ASSUME NEW raw \in Seq(Seq(Nat)), raw # <<>>, \A i \in 1..Len(raw) : Len(raw[i]) >= 1
    PROVE  LET M == Max(UNION {ToSet(s) : s \in ToSet(raw)}) IN
           M \in Nat /\ \A i \in 1..Len(raw) : \A f \in 1..Len(raw[i]) : raw[i][f] <= M
<1> DEFINE F == {ToSet(s) : s \in ToSet(raw)}
           U == UNION F
           sets == [i \in 1..Len(raw) |-> ToSet(raw[i])]
<1>1. Len(raw) \in Nat /\ Len(raw) >= 1 /\ DOMAIN raw = 1..Len(raw)
  BY EmptySeq
<1>2. \A i \in 1..Len(raw) : raw[i] \in Seq(Nat) /\ Len(raw[i]) \in Nat /\ DOMAIN raw[i] = 1..Len(raw[i])
  BY ElementOfSeq
<1>a. \A s : s \in ToSet(raw) <=> \E i \in 1..Len(raw) : s = raw[i]
  BY <1>1 DEF ToSet
<1>b. \A T : T \in F <=> \E i \in 1..Len(raw) : T = ToSet(raw[i])
  BY <1>a
<1>c. \A i \in 1..Len(raw) : \A x : x \in ToSet(raw[i]) <=> \E f \in 1..Len(raw[i]) : x = raw[i][f]
  BY <1>2 DEF ToSet
<1> HIDE DEF F
<1>3. F = ToSet(sets)
  <2>1. \A T : T \in ToSet(sets) <=> \E i \in 1..Len(raw) : T = ToSet(raw[i])
    BY DEF ToSet
  <2>2. QED
    BY <2>1, <1>b
<1>4. IsFiniteSet(F)
  <2>1. DOMAIN sets = 1..Len(raw)
    OBVIOUS
  <2> HIDE DEF sets, F
  <2>2. QED
    BY <1>1, <1>3, <2>1, ImageFinite
<1>5. \A T \in F : IsFiniteSet(T)
  <2> SUFFICES ASSUME NEW i \in 1..Len(raw) PROVE IsFiniteSet(ToSet(raw[i]))
    BY <1>b
  <2>1. QED
    BY <1>2, ImageFinite
<1>6. IsFiniteSet(U)
  <2> HIDE DEF F
  <2>1. QED
    BY <1>4, <1>5, FS_UNION
<1>7. \A i \in 1..Len(raw) : \A f \in 1..Len(raw[i]) : raw[i][f] \in U
  BY <1>b, <1>c
<1>8. U \subseteq Nat
  <2> SUFFICES ASSUME NEW x \in U PROVE x \in Nat
    OBVIOUS
  <2>1. PICK i \in 1..Len(raw) : x \in ToSet(raw[i])
    BY <1>b
  <2>2. PICK f \in 1..Len(raw[i]) : x = raw[i][f]
    BY <2>1, <1>c
  <2>3. QED
    BY <2>2, <1>2, ElementOfSeq
<1>9. U # {}
  <2>1. 1 \in 1..Len(raw) /\ 1 \in 1..Len(raw[1])
    BY <1>1, <1>2
  <2>2. raw[1][1] \in U
    BY <1>7, <2>1
  <2> HIDE DEF U
  <2>3. QED
    BY <2>2
<1> HIDE DEF U
<1>10. Max(U) \in U /\ \A y \in U : y <= Max(U)
  <2>1. U \subseteq Int
    BY <1>8
  <2>2. QED
    BY <2>1, <1>6, <1>9, MaxOfFinite
<1>11. QED
  BY <1>7, <1>8, <1>10 DEF U, F

\* The tables of a DLRM trace: one per field.
LEMMA DlrmSizesAre ==
    ASSUME NEW j, DlrmJob(j)
    PROVE  LET raw == load_sparse(j)
               w == Width(j.raw.shape)
               M == Max(UNION {ToSet(s) : s \in ToSet(raw)})
               sizes == DlrmSizes(raw, j) IN
           /\ sizes \in Seq(Positive) /\ Len(sizes) = w /\ M \in Nat
           /\ Total(sizes) \in Positive /\ DlrmTotal(raw, j) \in Positive
           /\ j.hash_sizes = <<>> /\ j.num_embeddings # Absent /\ j.num_embeddings >= w
                  => Total(sizes) <= j.num_embeddings
           /\ j.hash_sizes = <<>> /\ j.num_embeddings = Absent => M + 1 <= Total(sizes)
<1> DEFINE raw == load_sparse(j)
           w == Width(j.raw.shape)
           M == Max(UNION {ToSet(s) : s \in ToSet(raw)})
           ne == j.num_embeddings
           c == Max({1, ne \div w})
           sizes == DlrmSizes(raw, j)
           E(x) == [f \in 1..w |-> x]
<1>1. raw \in Seq(Seq(Nat)) /\ raw # <<>> /\ \A i \in 1..Len(raw) : Len(raw[i]) = w
  BY SamplesAre
<1>2. w \in Positive /\ w \in Nat /\ w >= 1 /\ ne \in Nat
  BY DlrmFields DEF Positive
<1> HIDE DEF raw
<1>3. Len(raw) \in Nat /\ 1 \in 1..Len(raw)
  BY <1>1, EmptySeq
<1>4. raw[1] \in Seq(Nat) /\ Len(raw[1]) = w /\ DOMAIN raw[1] = 1..w
  BY <1>1, <1>3, ElementOfSeq
<1>5. M \in Nat
  BY <1>1, <1>2, GreatestFeature
<1> HIDE DEF M, w
<1>6. sizes = IF j.hash_sizes # <<>> THEN parse_hash_sizes(j.hash_sizes, w)
              ELSE IF ne # Absent THEN E(c) ELSE E(M + 1)
  BY <1>4 DEF DlrmSizes, M
<1>7. ne \div w \in Nat /\ (ne >= w => ne \div w >= 1) /\ w * (ne \div w) <= ne
  BY <1>2, SMTT(30)
<1>8. c \in Positive /\ (ne >= w => c = ne \div w)
  <2>1. c = IF 1 >= ne \div w THEN 1 ELSE ne \div w
    BY <1>7, MaxOfTwo
  <2> HIDE DEF c
  <2>2. QED
    BY <1>7, <2>1 DEF Positive
<1> HIDE DEF c
<1>9. ASSUME NEW x \in Positive PROVE E(x) \in Seq(Positive) /\ Len(E(x)) = w /\ Total(E(x)) = w * x
  <2>1. x \in Nat
    BY DEF Positive
  <2>2. E(x) \in Seq(Positive) /\ Len(E(x)) = w
    BY <1>2
  <2>3. QED
    BY <1>2, <2>1, <2>2, TotalOfEqual
<1>10. M + 1 \in Positive
  BY <1>5 DEF Positive
<1> HIDE DEF E
<1>11. sizes \in Seq(Positive) /\ Len(sizes) = w
  <2>1. CASE j.hash_sizes # <<>>
    <3>1. j.hash_sizes \in Seq(Positive) /\ Len(j.hash_sizes) \in {0, 1, w}
      BY DlrmFields DEF w
    <3>2. Len(j.hash_sizes) # 0
      BY <2>1, <3>1, EmptySeq
    <3>3. parse_hash_sizes(j.hash_sizes, w) \in Seq(Positive) /\ Len(parse_hash_sizes(j.hash_sizes, w)) = w
      BY <1>2, <3>1, <3>2, HashSizesAre
    <3>4. QED
      BY <2>1, <3>3, <1>6
  <2>2. CASE j.hash_sizes = <<>>
    BY <2>2, <1>6, <1>8, <1>9, <1>10
  <2>3. QED
    BY <2>1, <2>2
<1>12. DlrmTotal(raw, j) = IF ne # Absent THEN ne ELSE Total(sizes)
  BY DEF DlrmTotal
<1>13. j.hash_sizes = <<>> /\ ne # Absent => Total(sizes) = w * c
  BY <1>6, <1>8, <1>9
<1>14. j.hash_sizes = <<>> /\ ne = Absent => Total(sizes) = w * (M + 1)
  BY <1>6, <1>9, <1>10
<1> HIDE DEF sizes
<1>15. Total(sizes) \in Positive
  BY <1>2, <1>11, TotalPositive
<1>16. DlrmTotal(raw, j) \in Positive
  BY <1>2, <1>12, <1>15 DEF Positive, Absent
<1>17. j.hash_sizes = <<>> /\ ne # Absent /\ ne >= w => Total(sizes) <= ne
  BY <1>7, <1>8, <1>13
<1>18. M + 1 <= w * (M + 1)
  <2> DEFINE m == M + 1
  <2>1. m \in Nat
    BY <1>5
  <2> HIDE DEF m
  <2>2. m <= w * m
    BY <2>1, <1>2, SMTT(30)
  <2>3. QED
    BY <2>2 DEF m
<1>19. j.hash_sizes = <<>> /\ ne = Absent => M + 1 <= Total(sizes)
  BY <1>14, <1>18
<1>20. QED
  BY <1>5, <1>11, <1>15, <1>16, <1>17, <1>19 DEF raw, w, M, sizes

\* The options of a DLRM job that do not contradict each other.
Sized(j) ==
    /\ j.hash_sizes # <<>> => j.num_embeddings = Absent /\ j.mode # "direct"
    /\ j.num_embeddings # Absent => j.num_embeddings >= Len(load_sparse(j)[1])

\* An id of convert_dlrm_trace: a number, of its field, and in range when the table is sized for it.
LEMMA DlrmIdIs ==
    ASSUME NEW j, DlrmJob(j), NEW i \in 1..Len(load_sparse(j)), NEW f \in 1..Width(j.raw.shape)
    PROVE  LET raw == load_sparse(j)
               h == raw[i][f]
               id == DlrmId(raw, j, f, h) IN
           /\ id \in Nat
           /\ j.mode = "per_field_offset" => h \in Nat /\ id = PerFieldId(DlrmSizes(raw, j), f, h)
           /\ Sized(j) => id < DlrmTotal(raw, j)
<1> DEFINE raw == load_sparse(j)
           w == Width(j.raw.shape)
           M == Max(UNION {ToSet(s) : s \in ToSet(raw)})
           ne == j.num_embeddings
           sizes == DlrmSizes(raw, j)
           total == DlrmTotal(raw, j)
           top == IF ne # Absent THEN ne ELSE M + 1
           h == raw[i][f]
           id == DlrmId(raw, j, f, h)
<1>1. raw \in Seq(Seq(Nat)) /\ raw # <<>> /\ \A k \in 1..Len(raw) : Len(raw[k]) = w
  BY SamplesAre
<1>2. /\ sizes \in Seq(Positive) /\ Len(sizes) = w /\ M \in Nat
      /\ Total(sizes) \in Positive /\ total \in Positive
      /\ j.hash_sizes = <<>> /\ ne # Absent /\ ne >= w => Total(sizes) <= ne
      /\ j.hash_sizes = <<>> /\ ne = Absent => M + 1 <= Total(sizes)
  BY DlrmSizesAre
<1>3. ne \in Nat /\ j.mode \in {"per_field_offset", "shared_hash", "direct"} /\ w \in Positive
  BY DlrmFields
<1>4. Sized(j) =>
          /\ j.hash_sizes # <<>> => ne = Absent /\ j.mode # "direct"
          /\ ne # Absent => ne >= w
  <2>1. 1 \in 1..Len(raw)
    BY <1>1, EmptySeq
  <2>2. Len(raw[1]) = w
    BY <1>1, <2>1
  <2>3. QED
    BY <2>2 DEF Sized
<1>5. total = IF ne # Absent THEN ne ELSE Total(sizes)
  BY DEF DlrmTotal
<1>6. h \in Nat
  <2>1. raw[i] \in Seq(Nat) /\ Len(raw[i]) = w
    BY <1>1, ElementOfSeq
  <2>2. QED
    BY <2>1, ElementOfSeq
<1>7. /\ j.mode = "per_field_offset" => id = PerFieldId(sizes, f, h)
      /\ j.mode = "shared_hash" => id = h % total
      /\ j.mode = "direct" => id = h % top
  BY DEF DlrmId
<1> HIDE DEF raw, w, M, sizes, total, h, id
<1>8. PerFieldId(sizes, f, h) \in Nat /\ PerFieldId(sizes, f, h) < Total(sizes)
  <2>1. f \in 1..Len(sizes)
    BY <1>2 DEF w
  <2>2. QED
    BY <1>2, <1>6, <2>1, PerFieldIdIs
<1>9. h % total \in 0..(total - 1)
  BY <1>2, <1>6, RemainderIs
<1>10. top \in Positive
  BY <1>2, <1>3 DEF Positive, Absent
<1>11. h % top \in 0..(top - 1)
  <2> HIDE DEF top
  <2>1. QED
    BY <1>6, <1>10, RemainderIs
<1>12. total \in Nat /\ top \in Nat /\ Total(sizes) \in Nat
  BY <1>2, <1>10 DEF Positive
<1> DEFINE ts == Total(sizes)
           p == PerFieldId(sizes, f, h)
           q == h % total
           r == h % top
<1>13. p \in Nat /\ p < ts /\ q \in 0..(total - 1) /\ r \in 0..(top - 1) /\ ts \in Nat
  BY <1>8, <1>9, <1>11, <1>12
<1>14. /\ j.mode = "per_field_offset" => id = p
       /\ j.mode = "shared_hash" => id = q
       /\ j.mode = "direct" => id = r
  BY <1>7
<1>15. Sized(j) /\ j.mode = "per_field_offset" => ts <= total
  BY <1>2, <1>4, <1>5, <1>12
<1>16. Sized(j) /\ j.mode = "direct" => top <= total
  BY <1>2, <1>4, <1>5, <1>12
<1> HIDE DEF ts, p, q, r, top
<1>17. id \in Nat
  BY <1>3, <1>12, <1>13, <1>14
<1>18. Sized(j) => id < total
  BY <1>3, <1>12, <1>13, <1>14, <1>15, <1>16
<1>19. QED
  BY <1>6, <1>7, <1>17, <1>18 DEF raw, h, id, sizes, total

-----------------------------------------------------------------------------
(* The traces of generate_ids.                                             *)

\* The rows of generate_ids.
Overlapped(j) ==
    LET n == j.batch_size * j.bag_size
        row[b \in DOMAIN j.raw] ==
            IF b = 1 THEN j.raw[1]
            ELSE SubSeq(row[b - 1], 1, j.overlap) \o SubSeq(j.raw[b], j.overlap + 1, n)
    IN  row

\* Every batch begins with the one before it, and every id is one that was drawn.
LEMMA SyntheticRows ==
    ASSUME NEW j, SyntheticJob(j), NEW row, row = Overlapped(j)
    PROVE  /\ row \in Seq(Seq(Nat)) /\ row # <<>>
           /\ \A i \in 1..Len(row) : /\ Len(row[i]) = j.batch_size * j.bag_size
                                     /\ row[i] # <<>>
                                     /\ \A f \in 1..Len(row[i]) : row[i][f] < j.num_embeddings
<1> DEFINE n == j.batch_size * j.bag_size
           N == Len(j.raw)
           ov == j.overlap
           V == 0..(j.num_embeddings - 1)
           D == {d \in Seq(V) : Len(d) = n}
           next1(d, i) == IF i = 1 THEN j.raw[1] ELSE SubSeq(d, 1, ov) \o SubSeq(j.raw[i], ov + 1, n)
           G == [p \in D \X (1..N) |-> next1(p[1], p[2])]
           F == CHOOSE F : F = [b \in 1..N |-> next1(F[b - 1], b)]
<1>1. /\ j.raw \in Seq(Seq(Nat)) /\ j.raw # <<>> /\ j.batch_size \in Positive /\ j.bag_size \in Positive
      /\ j.num_embeddings \in Positive /\ ov \in Nat /\ ov < n
      /\ \A r \in ToSet(j.raw) : (\A id \in ToSet(r) : id < j.num_embeddings) /\ Len(r) = n
  BY DEF SyntheticJob, RowsOfIds
<1>2. N \in Nat /\ N >= 1 /\ DOMAIN j.raw = 1..N
  BY <1>1, EmptySeq
<1>3. n \in Nat /\ n >= 1
  <2> DEFINE a == j.batch_size
             b == j.bag_size
  <2>1. a \in Nat /\ b \in Nat /\ a >= 1 /\ b >= 1
    BY <1>1 DEF Positive
  <2> HIDE DEF a, b
  <2>2. a * b \in Nat /\ a * b >= 1
    BY <2>1, SMTT(30)
  <2>3. QED
    BY <2>2 DEF a, b
<1>4. \A i \in 1..N : j.raw[i] \in D
  <2> SUFFICES ASSUME NEW i \in 1..N PROVE j.raw[i] \in D
    OBVIOUS
  <2> DEFINE r == j.raw[i]
  <2>1. r \in Seq(Nat) /\ r \in ToSet(j.raw)
    BY <1>1, <1>2, ElementOfSeq DEF ToSet
  <2> HIDE DEF r
  <2>2. Len(r) = n /\ DOMAIN r = 1..n /\ \A k \in 1..n : r[k] \in Nat
    BY <1>1, <2>1
  <2>3. \A k \in 1..n : r[k] < j.num_embeddings
    BY <1>1, <2>1, <2>2 DEF ToSet
  <2>4. j.num_embeddings \in Nat
    BY <1>1 DEF Positive
  <2>5. \A k \in 1..n : r[k] \in V
    BY <2>2, <2>3, <2>4
  <2>6. r \in [1..n -> V]
    BY <2>1, <2>2, <2>5
  <2> HIDE DEF V, n
  <2>7. r \in Seq(V)
    BY <1>3, <2>6
  <2>8. QED
    BY <2>2, <2>7 DEF r
<1> HIDE DEF N, V, n, ov
<1>5. \A d \in D : \A i \in 1..N : next1(d, i) \in D
  <2> SUFFICES ASSUME NEW d \in D, NEW i \in 1..N PROVE next1(d, i) \in D
    OBVIOUS
  <2> DEFINE e == j.raw[i]
             x == SubSeq(d, 1, ov)
             y == SubSeq(e, ov + 1, n)
  <2>1. CASE i = 1
    BY <2>1, <1>4
  <2>2. CASE i # 1
    <3>1. d \in Seq(V) /\ Len(d) = n /\ e \in Seq(V) /\ Len(e) = n
      BY <1>4
    <3>2. (\A k \in 1..ov : d[k] \in V) /\ (\A k \in (ov + 1)..n : e[k] \in V) /\ ov \in Nat /\ ov < n
      BY <3>1, <1>1, <1>3
    <3> HIDE DEF e
    <3>3. x \in Seq(V) /\ Len(x) = ov
      BY <3>2, <1>1, SubSeqProperties
    <3>4. y \in Seq(V) /\ Len(y) = n - ov
      <4>1. y \in Seq(V) /\ Len(y) = IF ov + 1 <= n THEN n - (ov + 1) + 1 ELSE 0
        BY <3>2, <1>3, SubSeqProperties
      <4>2. QED
        BY <4>1, <3>2, <1>3
    <3> HIDE DEF x, y
    <3>5. x \o y \in Seq(V) /\ Len(x \o y) = Len(x) + Len(y)
      BY <3>3, <3>4, ConcatProperties
    <3>6. x \o y \in D
      BY <3>2, <3>3, <3>4, <3>5, <1>3
    <3>7. QED
      BY <3>6, <2>2 DEF x, y, e
  <2>3. QED
    BY <2>1, <2>2
<1>6. G \in [D \X (1..N) -> D]
  <2> HIDE DEF next1, D
  <2>1. QED
    BY <1>5
<1>7. j.raw[1] \in D
  BY <1>2, <1>4
<1>8. PICK f : Unrolls(f, D, j.raw[1], N, G)
  <2> HIDE DEF G, D
  <2>1. QED
    BY <1>2, <1>6, <1>7, RecursionExists, Zenon
<1>9. f \in [0..N -> D] /\ \A i \in 1..N : f[i] = next1(f[i - 1], i)
  <2>1. f \in [0..N -> D] /\ \A i \in 1..N : f[i] = G[<<f[i - 1], i>>]
    BY <1>8 DEF Unrolls
  <2>2. ASSUME NEW i \in 1..N PROVE f[i] = next1(f[i - 1], i)
    <3>1. i - 1 \in 0..N
      BY <1>2
    <3>2. <<f[i - 1], i>> \in D \X (1..N)
      BY <3>1, <2>1
    <3> HIDE DEF next1, D
    <3>3. QED
      BY <2>1, <3>2
  <2> HIDE DEF next1, D
  <2>3. QED
    BY <2>1, <2>2
<1> DEFINE g == [i \in 1..N |-> f[i]]
<1>10. \A i \in 1..N : g[i] = next1(g[i - 1], i)
  <2> SUFFICES ASSUME NEW i \in 1..N PROVE g[i] = next1(g[i - 1], i)
    OBVIOUS
  <2>1. CASE i = 1
    BY <2>1, <1>9
  <2>2. CASE i # 1
    <3>1. i - 1 \in 1..N
      BY <2>2, <1>2
    <3>2. QED
      BY <3>1, <1>9
  <2>3. QED
    BY <2>1, <2>2
<1>11. g = [b \in 1..N |-> next1(g[b - 1], b)]
  <2>1. g = [i \in 1..N |-> g[i]]
    OBVIOUS
  <2> HIDE DEF g, next1
  <2>2. QED
    BY <2>1, <1>10
<1>12. F = [b \in 1..N |-> next1(F[b - 1], b)]
  <2> HIDE DEF g, next1
  <2>1. QED
    BY <1>11
<1>13. row = F
  BY <1>2 DEF N, n, ov, Overlapped
<1> HIDE DEF F, g, G
<1>14. \A i \in 1..N : row[i] = next1(row[i - 1], i)
  <2> HIDE DEF next1
  <2>1. QED
    BY <1>12, <1>13
<1>15. \A k \in Nat : k + 1 <= N => row[k + 1] \in D
  <2> DEFINE U == {k \in Nat : k + 1 <= N => row[k + 1] \in D}
  <2>1. 0 \in U
    <3>1. row[1] = j.raw[1]
      BY <1>14, <1>2
    <3>2. 0 + 1 = 1
      OBVIOUS
    <3>3. QED
      BY <3>1, <3>2, <1>7
  <2>2. ASSUME NEW k \in Nat, k \in U PROVE k + 1 \in U
    <3> SUFFICES ASSUME (k + 1) + 1 <= N PROVE row[(k + 1) + 1] \in D
      OBVIOUS
    <3>1. row[k + 1] \in D /\ (k + 1) + 1 \in 1..N /\ ((k + 1) + 1) - 1 = k + 1
      BY <2>2, <1>2
    <3> HIDE DEF next1, D
    <3>2. row[(k + 1) + 1] = next1(row[k + 1], (k + 1) + 1)
      BY <3>1, <1>14
    <3>3. QED
      BY <3>1, <3>2, <1>5
  <2>3. \A k \in Nat : k \in U
    <3> HIDE DEF U
    <3>1. QED
      BY <2>1, <2>2, Inductive
  <2>4. QED
    BY <2>3
<1>16. \A i \in 1..N : row[i] \in D
  <2> SUFFICES ASSUME NEW i \in 1..N PROVE row[i] \in D
    OBVIOUS
  <2>1. i - 1 \in Nat /\ (i - 1) + 1 = i /\ i <= N
    BY <1>2
  <2>2. QED
    BY <1>15, <2>1
<1>17. row \in Seq(D) /\ Len(row) = N
  <2>1. row = [i \in 1..N |-> row[i]]
    <3> HIDE DEF next1
    <3>1. QED
      BY <1>12, <1>13
  <2> HIDE DEF D
  <2>2. row \in [1..N -> D]
    BY <2>1, <1>16
  <2>3. QED
    BY <1>2, <2>2
<1>18. D \subseteq Seq(Nat)
  <2>1. V \subseteq Nat
    BY <1>1 DEF V, Positive
  <2>2. \A d \in Seq(V) : d \in Seq(Nat)
    BY <2>1, SeqMonotonic, Zenon
  <2>3. QED
    BY <2>2
<1>19. row \in Seq(Seq(Nat))
  <2> HIDE DEF D
  <2>1. QED
    BY <1>17, <1>18, SeqMonotonic, Zenon
<1>20. ASSUME NEW i \in 1..N PROVE Len(row[i]) = n /\ row[i] # <<>> /\ \A k \in 1..Len(row[i]) : row[i][k] < j.num_embeddings
  <2> DEFINE r == row[i]
  <2>1. r \in Seq(V) /\ Len(r) = n
    BY <1>16
  <2> HIDE DEF r
  <2>2. \A k \in 1..Len(r) : r[k] \in V
    BY <2>1, ElementOfSeq
  <2>3. j.num_embeddings \in Nat
    BY <1>1 DEF Positive
  <2>4. \A k \in 1..Len(r) : r[k] < j.num_embeddings
    BY <2>2, <2>3 DEF V
  <2>5. r # <<>>
    BY <2>1, <1>3
  <2>6. QED
    BY <2>1, <2>4, <2>5 DEF r
<1>21. row # <<>>
  BY <1>2, <1>17
<1>22. QED
  BY <1>17, <1>19, <1>20, <1>21 DEF n

-----------------------------------------------------------------------------
(* What the tools write.                                                   *)

\* Consistent, of a job.
Plain(j) ==
    CASE j.tool = "criteo" -> j.drop_empty \/ j.bag_size <= j.num_fields
      [] j.tool = "dlrm" -> Sized(j)
      [] OTHER -> TRUE

\* An array that the reader can cut.
Readable(t) ==
    /\ t.rows \in Seq(Seq(Nat)) /\ t.rows # <<>> /\ \A i \in 1..Len(t.rows) : t.rows[i] # <<>>
    /\ t.ndim \in 1..3 /\ (t.ndim = 1 => Len(t.rows) = 1)
    /\ t.batch_size \in Nat /\ t.bag_size \in Nat /\ t.total \in Nat
    /\ t.layout = "samples_by_fields" => t.ndim = 2

\* Samples by fields are as wide as the bag, batches of a synthetic trace as the job says.
Shaped(t, j) ==
    /\ t.layout = "samples_by_fields" /\ Plain(j) => t.bag_size # Absent /\ Len(t.rows[1]) = t.bag_size
    /\ j.tool = "synthetic" =>
           /\ t.layout = "none" /\ t.ndim = 2 /\ t.batch_size # Absent /\ t.bag_size # Absent
           /\ \A i \in 1..Len(t.rows) : Len(t.rows[i]) = t.batch_size * t.bag_size

Within(t, j) == Plain(j) => \A i \in 1..Len(t.rows) : \A f \in 1..Len(t.rows[i]) : t.rows[i][f] < t.total

Apart(t, j) ==
    /\ j.tool \in {"criteo", "dlrm"} /\ j.mode = "per_field_offset"
    /\ j.tool = "criteo" => ~j.drop_empty
    => \A i, k \in 1..Len(t.rows) : \A f, g \in 1..Len(t.rows[1]) : t.rows[i][f] = t.rows[k][g] => f = g

Proper(t, j) == Readable(t) /\ Shaped(t, j) /\ Within(t, j) /\ Apart(t, j)

CriteoTrace(j) ==
    LET raw == UpTo(j.raw, j.max_samples)
    IN  Written(2, [s \in DOMAIN raw |-> CriteoRow(raw[s], j)], "samples_by_fields",
                j.batch_size, j.bag_size, Total(CriteoSizes(j)))

\* preprocess_criteo_trace writes a proper trace.
LEMMA CriteoTraceIs ==
    ASSUME NEW j, CriteoJob(j)
    PROVE  Proper(CriteoTrace(j), j)
<1> DEFINE raw == UpTo(j.raw, j.max_samples)
           rows == [s \in DOMAIN raw |-> CriteoRow(raw[s], j)]
           sizes == CriteoSizes(j)
           total == Total(sizes)
           V == 0..(total - 1)
           n == Len(raw)
           t == CriteoTrace(j)
           S == Nat \cup {Empty}
<1>1. /\ j.raw \in Seq(Seq(S)) /\ j.raw # <<>> /\ j.max_samples \in Nat /\ j.batch_size \in Nat /\ j.bag_size \in Positive
      /\ j.hash_sizes \in Seq(Positive) /\ j.num_fields \in Positive /\ Len(j.hash_sizes) \in {1, j.num_fields}
      /\ j.drop_empty \in BOOLEAN
  BY CriteoFields
<1>2. raw \in Seq(Seq(S)) /\ raw # <<>>
  <2> HIDE DEF S
  <2>1. QED
    BY <1>1, UpToIs
<1> HIDE DEF raw
<1>3. n \in Nat /\ n >= 1 /\ DOMAIN raw = 1..n /\ 1 \in 1..n
  BY <1>2, EmptySeq
<1>4. sizes \in Seq(Positive) /\ Len(sizes) = j.num_fields
  BY <1>1, HashSizesAre DEF CriteoSizes
<1> HIDE DEF sizes
<1>5. total \in Positive /\ total \in Nat
  BY <1>1, <1>4, TotalPositive DEF Positive
<1> HIDE DEF total
<1>6. ASSUME NEW i \in 1..n
      PROVE  /\ rows[i] \in Seq(V) /\ rows[i] # <<>>
             /\ j.drop_empty \/ j.bag_size <= j.num_fields => Len(rows[i]) = j.bag_size
             /\ ~j.drop_empty =>
                    /\ Len(rows[i]) = IF j.num_fields < j.bag_size THEN j.num_fields ELSE j.bag_size
                    /\ j.mode = "per_field_offset" =>
                           \A f \in 1..Len(rows[i]) : \E h \in Nat : rows[i][f] = PerFieldId(sizes, f, h)
  <2> DEFINE line == raw[i]
  <2>1. line \in Seq(S)
    BY <1>2, ElementOfSeq
  <2> HIDE DEF line
  <2>2. rows[i] = CriteoRow(line, j)
    BY <1>3 DEF line
  <2>3. QED
    BY <2>1, <2>2, CriteoRowIs DEF sizes, total
<1>7. rows \in Seq(Seq(V)) /\ Len(rows) = n
  <2>1. rows \in [1..n -> Seq(V)]
    BY <1>3, <1>6
  <2> HIDE DEF rows
  <2>2. QED
    BY <2>1, <1>3
<1>8. V \subseteq Nat
  BY <1>5
<1>9. t = Written(2, rows, "samples_by_fields", j.batch_size, j.bag_size, total)
  BY DEF CriteoTrace, raw, total, sizes
<1> HIDE DEF rows, n, t
<1>10. /\ t.ndim = 2 /\ t.rows = rows /\ t.layout = "samples_by_fields" /\ t.batch_size = j.batch_size
       /\ t.bag_size = j.bag_size /\ t.total = total
  BY <1>9 DEF Written
<1>11. \A i \in 1..n : \A f \in 1..Len(rows[i]) : rows[i][f] \in V
  BY <1>6, ElementOfSeq
<1>12. rows \in Seq(Seq(Nat))
  <2> HIDE DEF V
  <2>1. Seq(V) \subseteq Seq(Nat)
    BY <1>8, SeqMonotonic, Zenon
  <2>2. QED
    BY <2>1, <1>7, SeqMonotonic, Zenon
<1>13. Readable(t)
  <2>1. rows # <<>>
    BY <1>3, <1>7
  <2>2. j.bag_size \in Nat
    BY <1>1 DEF Positive
  <2>3. QED
    BY <2>1, <2>2, <1>1, <1>5, <1>6, <1>7, <1>10, <1>12 DEF Readable
<1>14. j.tool = "criteo"
  BY DEF CriteoJob
<1>15. Plain(j) <=> j.drop_empty \/ j.bag_size <= j.num_fields
  BY <1>14 DEF Plain
<1>16. Shaped(t, j)
  BY <1>1, <1>3, <1>6, <1>10, <1>14, <1>15 DEF Shaped, Absent, Positive
<1>17. Within(t, j)
  <2>1. \A i \in 1..n : \A f \in 1..Len(rows[i]) : rows[i][f] < total
    BY <1>5, <1>11
  <2>2. QED
    BY <2>1, <1>7, <1>10 DEF Within
<1>18. Apart(t, j)
  <2> SUFFICES ASSUME j.mode = "per_field_offset", ~j.drop_empty,
                      NEW i \in 1..n, NEW k \in 1..n, NEW f \in 1..Len(rows[1]), NEW g \in 1..Len(rows[1]),
                      rows[i][f] = rows[k][g]
               PROVE  f = g
    BY <1>7, <1>10, <1>14 DEF Apart
  <2> DEFINE w == IF j.num_fields < j.bag_size THEN j.num_fields ELSE j.bag_size
  <2>1. Len(rows[1]) = w /\ Len(rows[i]) = w /\ Len(rows[k]) = w
    BY <1>3, <1>6
  <2>2. w <= j.num_fields /\ w \in Nat
    BY <1>1 DEF Positive
  <2> HIDE DEF w
  <2>3. PICK h \in Nat : rows[i][f] = PerFieldId(sizes, f, h)
    BY <1>6, <2>1
  <2>4. PICK l \in Nat : rows[k][g] = PerFieldId(sizes, g, l)
    BY <1>6, <2>1
  <2>5. f \in 1..Len(sizes) /\ g \in 1..Len(sizes)
    BY <2>1, <2>2, <1>1, <1>4 DEF Positive
  <2>6. PerFieldId(sizes, f, h) = PerFieldId(sizes, g, l)
    BY <2>3, <2>4
  <2>7. QED
    BY <2>5, <2>6, <1>4, PerFieldApart
<1>19. QED
  BY <1>13, <1>16, <1>17, <1>18 DEF Proper, t

DlrmTrace(j) ==
    LET raw == load_sparse(j)
        row(s) == [f \in DOMAIN s |-> DlrmId(raw, j, f, s[f])]
    IN  Written(2, [s \in DOMAIN raw |-> row(raw[s])], "samples_by_fields",
                j.batch_size, Len(raw[1]), DlrmTotal(raw, j))

\* convert_dlrm_trace writes a proper trace.
LEMMA DlrmTraceIs ==
    ASSUME NEW j, DlrmJob(j)
    PROVE  Proper(DlrmTrace(j), j)
<1> DEFINE raw == load_sparse(j)
           row(s) == [f \in DOMAIN s |-> DlrmId(raw, j, f, s[f])]
           rows == [s \in DOMAIN raw |-> row(raw[s])]
           sizes == DlrmSizes(raw, j)
           total == DlrmTotal(raw, j)
           n == Len(raw)
           w == Width(j.raw.shape)
           t == DlrmTrace(j)
<1>1. raw \in Seq(Seq(Nat)) /\ raw # <<>> /\ \A i \in 1..n : Len(raw[i]) = w
  BY SamplesAre
<1>2. w \in Positive /\ w \in Nat /\ j.batch_size \in Nat
  BY DlrmFields DEF Positive
<1>3. sizes \in Seq(Positive) /\ Len(sizes) = w /\ total \in Positive /\ total \in Nat
  BY DlrmSizesAre DEF Positive
<1>4. n \in Nat /\ n >= 1 /\ DOMAIN raw = 1..n /\ 1 \in 1..n
  BY <1>1, EmptySeq
<1>5. ASSUME NEW i \in 1..n, NEW f \in 1..w
      PROVE  LET id == DlrmId(raw, j, f, raw[i][f]) IN
             /\ id \in Nat
             /\ j.mode = "per_field_offset" => \E h \in Nat : id = PerFieldId(sizes, f, h)
             /\ Sized(j) => id < total
  BY DlrmIdIs
<1>6. t = Written(2, rows, "samples_by_fields", j.batch_size, Len(raw[1]), total)
  BY DEF DlrmTrace
<1> HIDE DEF raw, sizes, total, w, t, n
<1>7. ASSUME NEW i \in 1..n
      PROVE  /\ rows[i] \in Seq(Nat) /\ Len(rows[i]) = w
             /\ \A f \in 1..w : rows[i][f] = DlrmId(raw, j, f, raw[i][f])
  <2> DEFINE s == raw[i]
  <2>1. s \in Seq(Nat) /\ Len(s) = w /\ DOMAIN s = 1..w
    BY <1>1, ElementOfSeq DEF n
  <2>2. rows[i] = [f \in 1..w |-> DlrmId(raw, j, f, s[f])]
    BY <1>4, <2>1
  <2>3. rows[i] \in [1..w -> Nat]
    BY <1>5, <2>2
  <2> HIDE DEF rows, s
  <2>4. rows[i] \in Seq(Nat) /\ Len(rows[i]) = w
    BY <2>3, <1>2
  <2>5. QED
    BY <2>2, <2>4 DEF s
<1>8. rows \in Seq(Seq(Nat)) /\ Len(rows) = n
  <2>1. rows = [i \in 1..n |-> rows[i]]
    BY <1>4
  <2> HIDE DEF rows
  <2>2. rows \in [1..n -> Seq(Nat)]
    BY <1>7, <2>1
  <2>3. QED
    BY <2>2, <1>4
<1> HIDE DEF rows
<1>9. /\ t.ndim = 2 /\ t.rows = rows /\ t.layout = "samples_by_fields" /\ t.batch_size = j.batch_size
      /\ t.bag_size = w /\ t.total = total
  <2>1. Len(raw[1]) = w
    BY <1>1, <1>4
  <2>2. QED
    BY <2>1, <1>6 DEF Written
<1>10. Readable(t)
  <2>1. rows # <<>>
    BY <1>4, <1>8
  <2>2. \A i \in 1..n : rows[i] # <<>>
    <3> SUFFICES ASSUME NEW i \in 1..n PROVE rows[i] # <<>>
      OBVIOUS
    <3>1. Len(rows[i]) = w /\ w # 0
      BY <1>2, <1>7 DEF Positive
    <3>2. QED
      BY <3>1
  <2>3. QED
    BY <2>1, <2>2, <1>2, <1>3, <1>8, <1>9 DEF Readable
<1>11. j.tool = "dlrm"
  BY DEF DlrmJob
<1>12. Plain(j) <=> Sized(j)
  BY <1>11 DEF Plain
<1>13. Shaped(t, j)
  BY <1>2, <1>4, <1>7, <1>9, <1>11 DEF Shaped, Absent, Positive
<1>14. Within(t, j)
  <2> SUFFICES ASSUME Sized(j), NEW i \in 1..n, NEW f \in 1..Len(rows[i]) PROVE rows[i][f] < total
    BY <1>8, <1>9, <1>12 DEF Within
  <2>1. f \in 1..w
    BY <1>7
  <2>2. QED
    BY <2>1, <1>5, <1>7
<1>15. Apart(t, j)
  <2> SUFFICES ASSUME j.mode = "per_field_offset",
                      NEW i \in 1..n, NEW k \in 1..n, NEW f \in 1..Len(rows[1]), NEW g \in 1..Len(rows[1]),
                      rows[i][f] = rows[k][g]
               PROVE  f = g
    BY <1>8, <1>9, <1>11 DEF Apart
  <2>1. f \in 1..w /\ g \in 1..w
    BY <1>4, <1>7
  <2>2. PICK h \in Nat : rows[i][f] = PerFieldId(sizes, f, h)
    BY <2>1, <1>5, <1>7
  <2>3. PICK l \in Nat : rows[k][g] = PerFieldId(sizes, g, l)
    BY <2>1, <1>5, <1>7
  <2>4. PerFieldId(sizes, f, h) = PerFieldId(sizes, g, l) /\ f \in 1..Len(sizes) /\ g \in 1..Len(sizes)
    BY <2>1, <2>2, <2>3, <1>3
  <2>5. QED
    BY <2>4, <1>3, PerFieldApart
<1>16. QED
  BY <1>10, <1>13, <1>14, <1>15 DEF Proper, t

\* generate_trace writes a proper trace.
LEMMA SyntheticTraceIs ==
    ASSUME NEW j, SyntheticJob(j)
    PROVE  Proper(Written(2, Overlapped(j), "none", j.batch_size, j.bag_size, j.num_embeddings), j)
<1> DEFINE row == Overlapped(j)
           t == Written(2, row, "none", j.batch_size, j.bag_size, j.num_embeddings)
<1>1. /\ row \in Seq(Seq(Nat)) /\ row # <<>>
      /\ \A i \in 1..Len(row) : /\ Len(row[i]) = j.batch_size * j.bag_size
                                /\ row[i] # <<>>
                                /\ \A f \in 1..Len(row[i]) : row[i][f] < j.num_embeddings
  BY SyntheticRows
<1>2. j.tool = "synthetic" /\ j.batch_size \in Positive /\ j.bag_size \in Positive /\ j.num_embeddings \in Positive
  BY DEF SyntheticJob
<1> HIDE DEF row
<1>3. /\ t.ndim = 2 /\ t.rows = row /\ t.layout = "none" /\ t.batch_size = j.batch_size
      /\ t.bag_size = j.bag_size /\ t.total = j.num_embeddings
  BY DEF Written
<1> HIDE DEF t
<1>4. Readable(t)
  BY <1>1, <1>2, <1>3 DEF Readable, Positive
<1>5. Shaped(t, j) /\ Within(t, j) /\ Apart(t, j)
  BY <1>1, <1>2, <1>3 DEF Shaped, Within, Apart, Positive, Absent
<1>6. QED
  BY <1>4, <1>5 DEF Proper, t, row

\* An imported array is a proper trace.
LEMMA ImportedTraceIs ==
    ASSUME NEW j, ImportJob(j)
    PROVE  Proper(Written(j.ndim, j.raw, "none", Absent, Absent, j.num_embeddings), j)
<1> DEFINE t == Written(j.ndim, j.raw, "none", Absent, Absent, j.num_embeddings)
           rows == j.raw
<1>1. /\ j.tool = "import" /\ rows \in Seq(Seq(Nat)) /\ rows # <<>> /\ j.ndim \in 1..3 /\ j.num_embeddings \in Positive
      /\ j.ndim = 1 => Len(rows) = 1
      /\ \A r \in ToSet(rows) : r # <<>> /\ \A id \in ToSet(r) : id < j.num_embeddings
  BY DEF ImportJob, RowsOfIds
<1> HIDE DEF rows
<1>2. \A i \in 1..Len(rows) : rows[i] # <<>> /\ \A f \in 1..Len(rows[i]) : rows[i][f] < j.num_embeddings
  <2> SUFFICES ASSUME NEW i \in 1..Len(rows)
               PROVE  rows[i] # <<>> /\ \A f \in 1..Len(rows[i]) : rows[i][f] < j.num_embeddings
    OBVIOUS
  <2> DEFINE r == rows[i]
  <2>1. r \in Seq(Nat) /\ r \in ToSet(rows)
    BY <1>1, ElementOfSeq DEF ToSet
  <2> HIDE DEF r
  <2>2. \A f \in 1..Len(r) : r[f] \in ToSet(r)
    BY <2>1 DEF ToSet
  <2>3. QED
    BY <2>1, <2>2, <1>1 DEF r
<1>3. /\ t.ndim = j.ndim /\ t.rows = rows /\ t.layout = "none" /\ t.batch_size = 0
      /\ t.bag_size = 0 /\ t.total = j.num_embeddings
  BY DEF Written, rows, Absent
<1> HIDE DEF t
<1>4. Readable(t)
  BY <1>1, <1>2, <1>3 DEF Readable, Positive
<1>5. Shaped(t, j) /\ Within(t, j) /\ Apart(t, j)
  BY <1>1, <1>2, <1>3 DEF Shaped, Within, Apart, Positive, Absent
<1>6. QED
  BY <1>4, <1>5 DEF Proper, t

-----------------------------------------------------------------------------
(* How the reader cuts a trace.                                            *)

\* Division rounded up: the last batch is short and never empty.
LEMMA CeilingIs ==
    ASSUME NEW R \in Positive, NEW s \in Positive
    PROVE  LET q == (R + s - 1) \div s IN
           q \in Nat /\ q <= R /\ R <= q * s /\ \A b \in Nat : b < q => b * s < R
<1> DEFINE q == (R + s - 1) \div s
<1>1. R \in Nat /\ s \in Nat /\ R >= 1 /\ s >= 1
  BY DEF Positive
<1>2. q \in Nat /\ q * s <= R + s - 1 /\ R + s - 1 < q * s + s
  BY <1>1, SMTT(30)
<1> HIDE DEF q
<1>3. R <= q * s
  <2> DEFINE p == q * s
  <2>1. p \in Nat
    BY <1>1, <1>2
  <2> HIDE DEF p
  <2>2. R + s - 1 < p + s
    BY <1>2 DEF p
  <2>3. R <= p
    BY <2>1, <2>2, <1>1
  <2>4. QED
    BY <2>3 DEF p
<1>4. ASSUME NEW b \in Nat, b < q PROVE b * s < R
  <2>1. (b + 1) * s <= q * s /\ (b + 1) * s = b * s + s
    BY <1>1, <1>2, <1>4, SMTT(30)
  <2> DEFINE p == q * s
             c == b * s
  <2>2. p \in Nat /\ c \in Nat
    BY <1>1, <1>2
  <2>3. c + s <= p /\ p <= R + s - 1
    BY <2>1, <1>2
  <2> HIDE DEF p, c
  <2>4. c < R
    BY <2>2, <2>3, <1>1
  <2>5. QED
    BY <2>4 DEF c
<1>5. q <= R
  <2> SUFFICES ASSUME q > R PROVE FALSE
    BY <1>1, <1>2
  <2>1. R < q
    BY <1>1, <1>2
  <2>2. R * s < R
    BY <2>1, <1>1, <1>4
  <2>3. R * s >= R
    BY <1>1, SMTT(30)
  <2> DEFINE p == R * s
  <2>4. p \in Nat /\ p < R /\ p >= R
    BY <2>2, <2>3, <1>1
  <2> HIDE DEF p
  <2>5. QED
    BY <2>4, <1>1
<1>6. QED
  BY <1>2, <1>3, <1>4, <1>5 DEF q

\* The next multiple.
LEMMA OneMore ==
    ASSUME NEW b \in Nat, NEW s \in Nat
    PROVE  (b + 1) * s = b * s + s
BY SMTT(30)

\* How many rows the first n batches have.
Cut(n) == IF IsSampled THEN Min({Rows, n * trace.batch_size}) ELSE n

\* The number of batches of a trace.
LEMMA NumBatches ==
    ASSUME Readable(trace)
    PROVE  /\ Rows \in Positive /\ num_batches \in Nat /\ num_batches <= Rows
           /\ IsSampled => trace.batch_size \in Positive /\ num_batches = InBatches
           /\ Shaped(trace, job) /\ Plain(job) => IsSampled \/ num_batches = Rows
<1>1. /\ trace.rows \in Seq(Seq(Nat)) /\ trace.rows # <<>> /\ trace.batch_size \in Nat
      /\ trace.ndim = 1 => Rows = 1
  BY DEF Readable, Rows
<1>2. Rows \in Positive
  BY <1>1, EmptySeq DEF Rows, Positive
<1>3. trace.batch_size # Absent => trace.batch_size \in Positive
  BY <1>1 DEF Absent, Positive
<1>4. trace.batch_size # Absent => InBatches \in Nat /\ InBatches <= Rows
  BY <1>2, <1>3, CeilingIs DEF InBatches
<1>5. num_batches \in Nat /\ num_batches <= Rows
  BY <1>1, <1>2, <1>4 DEF num_batches, Positive, IsSampled
<1>6. IsSampled => trace.batch_size \in Positive /\ num_batches = InBatches
  BY <1>3 DEF IsSampled, num_batches
<1>7. Shaped(trace, job) /\ Plain(job) => IsSampled \/ num_batches = Rows
  BY <1>1 DEF Shaped, Readable, IsSampled, num_batches
<1>8. QED
  BY <1>2, <1>5, <1>6, <1>7

\* Batches are cut at rows that increase, from the first to the last.
LEMMA CutIs ==
    ASSUME Readable(trace)
    PROVE  /\ Cut(0) = 0
           /\ \A b \in Nat : b <= num_batches => Cut(b) \in Nat /\ Cut(b) <= Rows
           /\ \A b \in Nat : b < num_batches => Cut(b) < Cut(b + 1)
           /\ Shaped(trace, job) /\ Plain(job) => Cut(num_batches) = Rows
<1>1. /\ Rows \in Positive /\ num_batches \in Nat /\ num_batches <= Rows
      /\ IsSampled => trace.batch_size \in Positive /\ num_batches = InBatches
      /\ Shaped(trace, job) /\ Plain(job) => IsSampled \/ num_batches = Rows
  BY NumBatches
<1>2. Rows \in Nat
  BY <1>1 DEF Positive
<1>3. CASE ~IsSampled
  BY <1>1, <1>2, <1>3 DEF Cut
<1>4. CASE IsSampled
  <2> DEFINE s == trace.batch_size
             R == Rows
             q == num_batches
  <2>1. s \in Positive /\ s \in Nat /\ s >= 1 /\ R \in Positive /\ R \in Nat /\ q = (R + s - 1) \div s
    BY <1>1, <1>2, <1>4 DEF InBatches, Positive
  <2>2. \A n \in Nat : Cut(n) = IF R <= n * s THEN R ELSE n * s
    <3> SUFFICES ASSUME NEW n \in Nat PROVE Cut(n) = IF R <= n * s THEN R ELSE n * s
      OBVIOUS
    <3>1. n * s \in Int /\ R \in Int
      BY <2>1
    <3>2. Cut(n) = Min({R, n * s})
      BY <1>4 DEF Cut
    <3> HIDE DEF s, R
    <3>3. QED
      BY <3>1, <3>2, MinOfTwo
  <2> HIDE DEF s, R, q
  <2>4. q \in Nat /\ q <= R /\ R <= q * s /\ \A b \in Nat : b < q => b * s < R
    BY <2>1, CeilingIs
  <2>5. Cut(0) = 0
    <3>1. 0 * s = 0 /\ ~(R <= 0)
      BY <2>1 DEF Positive
    <3>2. QED
      BY <2>2, <3>1
  <2>6. ASSUME NEW b \in Nat PROVE Cut(b) \in Nat /\ Cut(b) <= R
    <3> DEFINE p == b * s
    <3>1. p \in Nat
      BY <2>1
    <3>2. Cut(b) = IF R <= p THEN R ELSE p
      BY <2>2
    <3> HIDE DEF p
    <3>3. QED
      BY <3>1, <3>2, <2>1
  <2>7. ASSUME NEW b \in Nat, b < q PROVE Cut(b) < Cut(b + 1)
    <3> DEFINE p == b * s
               p1 == (b + 1) * s
    <3>1. p \in Nat /\ p1 = p + s
      BY <2>1, SMTT(30)
    <3>2. Cut(b) = IF R <= p THEN R ELSE p
      BY <2>2
    <3>3. Cut(b + 1) = IF R <= p1 THEN R ELSE p1
      BY <2>2
    <3>4. p < R
      BY <2>4, <2>7
    <3> HIDE DEF p, p1
    <3>5. QED
      BY <3>1, <3>2, <3>3, <3>4, <2>1
  <2>8. Cut(q) = R
    BY <2>2, <2>4
  <2>9. QED
    BY <2>5, <2>6, <2>7, <2>8 DEF q, R
<1>5. QED
  BY <1>3, <1>4

\* A batch is the rows between two cuts, and has at least one id.
LEMMA BatchIs ==
    ASSUME Readable(trace), NEW b \in Nat, b < num_batches
    PROVE  /\ get_batch_ids(b) = FlattenSeq(SubSeq(trace.rows, Cut(b) + 1, Cut(b + 1)))
           /\ get_batch_ids(b) \in Seq(Nat) /\ get_batch_ids(b) # <<>>
           /\ Cut(b) \in Nat /\ Cut(b + 1) \in Nat /\ Cut(b) < Cut(b + 1) /\ Cut(b + 1) <= Rows
<1> DEFINE s == trace.rows
           m == Cut(b)
           k == Cut(b + 1)
<1>1. num_batches \in Nat /\ Rows \in Nat /\ num_batches <= Rows
  BY NumBatches DEF Positive
<1>2. m \in Nat /\ k \in Nat /\ m < k /\ k <= Rows
  <2>1. b + 1 \in Nat /\ b + 1 <= num_batches /\ b <= num_batches
    BY <1>1
  <2>2. QED
    BY <2>1, CutIs
<1>3. s \in Seq(Seq(Nat)) /\ Rows = Len(s) /\ \A i \in 1..Len(s) : s[i] # <<>>
  BY DEF Readable, Rows
<1> DEFINE X == FlattenSeq(SubSeq(s, m + 1, k - 1))
           Y == FlattenSeq(SubSeq(s, m + 1, k))
<1>4. get_batch_ids(b) = Y
  <2>1. CASE IsSampled
    <3>1. BatchStart(b) + 1 = m + 1
      <4>1. trace.batch_size \in Nat
        BY DEF Readable
      <4>2. b * trace.batch_size \in Int
        BY <4>1
      <4>3. m = IF Rows <= b * trace.batch_size THEN Rows ELSE b * trace.batch_size
        BY <2>1, <4>2, <1>1, MinOfTwo DEF Cut
      <4>4. m = b * trace.batch_size
        BY <4>2, <4>3, <1>1, <1>2
      <4>5. QED
        BY <4>4 DEF BatchStart
    <3>2. BatchEnd(b) = k
      <4>1. trace.batch_size \in Nat
        BY DEF Readable
      <4>2. (b + 1) * trace.batch_size = b * trace.batch_size + trace.batch_size
        BY <4>1, OneMore
      <4>3. QED
        BY <2>1, <4>2 DEF BatchEnd, BatchStart, Cut
    <3>3. QED
      BY <2>1, <3>1, <3>2 DEF get_batch_ids
  <2>2. CASE ~IsSampled
    <3>1. m = b /\ k = b + 1
      BY <2>2 DEF Cut
    <3>2. get_batch_ids(b) = s[b + 1]
      BY <2>2 DEF get_batch_ids
    <3> HIDE DEF s
    <3>3. Y = X \o s[k]
      BY <1>2, <1>3, FlattenLast
    <3>4. SubSeq(s, m + 1, k - 1) = <<>>
      BY <3>1, <1>3
    <3>5. X = <<>>
      BY <3>4, FlattenNone
    <3>6. s[k] \in Seq(Nat)
      BY <1>1, <1>2, <1>3, ElementOfSeq
    <3> HIDE DEF X, Y, k, m
    <3>7. <<>> \o s[k] = s[k]
      BY <3>6
    <3>8. QED
      BY <3>1, <3>2, <3>3, <3>5, <3>7
  <2>3. QED
    BY <2>1, <2>2
<1>5. Y \in Seq(Nat) /\ Y # <<>>
  <2> HIDE DEF s, m, k
  <2>1. Y = X \o s[k] /\ X \in Seq(Nat) /\ s[k] \in Seq(Nat)
    BY <1>2, <1>3, FlattenLast
  <2>2. s[k] # <<>>
    BY <1>1, <1>2, <1>3
  <2> DEFINE y == s[k]
  <2>3. y \in Seq(Nat) /\ y # <<>>
    BY <2>1, <2>2
  <2> HIDE DEF X, Y, y
  <2>4. X \o y \in Seq(Nat) /\ Len(X \o y) = Len(X) + Len(y)
    BY <2>1, <2>3, ConcatProperties
  <2>5. Len(y) >= 1 /\ Len(X) \in Nat /\ Len(y) \in Nat
    BY <2>1, <2>3, EmptySeq
  <2>6. Y = X \o y
    BY <2>1 DEF y
  <2>7. Len(Y) >= 1
    BY <2>4, <2>5, <2>6
  <2>8. QED
    BY <2>4, <2>6, <2>7, EmptySeq
<1>6. QED
  BY <1>2, <1>4, <1>5

-----------------------------------------------------------------------------
(* The trace and what was read of it.                                      *)

\* A written trace is proper, and the batches so far are its first rows.
TraceOK ==
    /\ job \in Job /\ stage \in {"raw", "trace"}
    /\ stage = "raw" => TraceInit
    /\ stage = "trace" =>
           /\ Proper(trace, job) /\ next \in Nat /\ next <= num_batches
           /\ read = FlattenSeq(SubSeq(trace.rows, 1, Cut(next)))

\* The job's options agree exactly when Consistent says so.
LEMMA ConsistentJob == Consistent <=> Plain(job)
BY DEF Consistent, Plain, Sized

\* No row is before the first cut.
LEMMA NothingRead ==
    Readable(trace) => 0 <= num_batches /\ FlattenSeq(SubSeq(trace.rows, 1, Cut(0))) = <<>>
<1> SUFFICES ASSUME Readable(trace)
             PROVE  0 <= num_batches /\ FlattenSeq(SubSeq(trace.rows, 1, Cut(0))) = <<>>
  OBVIOUS
<1>1. Cut(0) = 0 /\ num_batches \in Nat
  BY CutIs, NumBatches
<1>2. trace.rows \in Seq(Seq(Nat))
  BY DEF Readable
<1>3. SubSeq(trace.rows, 1, Cut(0)) = <<>>
  BY <1>1, <1>2
<1>4. FlattenSeq(SubSeq(trace.rows, 1, Cut(0))) = <<>>
  BY <1>3, FlattenNone, Zenon
<1>5. QED
  BY <1>1, <1>4

\* Each of the four tools writes a proper trace and leaves the analysis as it was.
LEMMA WrittenTrace ==
    ASSUME TraceOK, preprocess \/ convert \/ generate_ids \/ Import
    PROVE  Proper(trace, job)' /\ UNCHANGED <<job, next, read, sims, hits, stats, accesses>>
           /\ stage' = "trace" /\ stage = "raw"
<1>1. job \in Job
  BY DEF TraceOK
<1>2. CASE preprocess
  <2>1. job.tool = "criteo" /\ trace' = CriteoTrace(job)
    BY <1>2 DEF preprocess, Write, CriteoTrace
  <2>2. UNCHANGED <<job, next, read, sims, hits, stats, accesses>> /\ stage' = "trace" /\ stage = "raw"
    BY <1>2 DEF preprocess, Write
  <2>3. Proper(CriteoTrace(job), job)
    BY <2>1, <1>1, JobIs, CriteoTraceIs
  <2>4. QED
    BY <2>1, <2>2, <2>3
<1>3. CASE convert
  <2>1. job.tool = "dlrm" /\ trace' = DlrmTrace(job)
    BY <1>3 DEF convert, Write, DlrmTrace
  <2>2. UNCHANGED <<job, next, read, sims, hits, stats, accesses>> /\ stage' = "trace" /\ stage = "raw"
    BY <1>3 DEF convert, Write
  <2>3. Proper(DlrmTrace(job), job)
    BY <2>1, <1>1, JobIs, DlrmTraceIs
  <2>4. QED
    BY <2>1, <2>2, <2>3
<1>4. CASE generate_ids
  <2> DEFINE t == Written(2, Overlapped(job), "none", job.batch_size, job.bag_size, job.num_embeddings)
  <2>1. job.tool = "synthetic" /\ trace' = t
    BY <1>4 DEF generate_ids, Write, Overlapped
  <2>2. UNCHANGED <<job, next, read, sims, hits, stats, accesses>> /\ stage' = "trace" /\ stage = "raw"
    BY <1>4 DEF generate_ids, Write
  <2>3. Proper(t, job)
    BY <2>1, <1>1, JobIs, SyntheticTraceIs
  <2>4. QED
    BY <2>1, <2>2, <2>3
<1>5. CASE Import
  <2> DEFINE t == Written(job.ndim, job.raw, "none", Absent, Absent, job.num_embeddings)
  <2>1. job.tool = "import" /\ trace' = t
    BY <1>5 DEF Import, Write
  <2>2. UNCHANGED <<job, next, read, sims, hits, stats, accesses>> /\ stage' = "trace" /\ stage = "raw"
    BY <1>5 DEF Import, Write
  <2>3. Proper(t, job)
    BY <2>1, <1>1, JobIs, ImportedTraceIs
  <2>4. QED
    BY <2>1, <2>2, <2>3
<1>6. QED
  BY <1>2, <1>3, <1>4, <1>5

\* Nothing is read at first.
LEMMA TraceOKInit == TraceInit => TraceOK
BY DEF TraceInit, TraceOK

\* Reading a batch moves to the next cut.
LEMMA BatchRead ==
    ASSUME TraceOK, NextBatch
    PROVE  /\ TraceOK' /\ stage = "trace" /\ UNCHANGED <<job, stage, trace>>
           /\ next \in Nat /\ next < num_batches /\ Readable(trace)
<1>1. /\ stage = "trace" /\ next < num_batches /\ next' = next + 1 /\ UNCHANGED <<job, stage, trace>>
      /\ read' = read \o get_batch_ids(next)
  BY DEF NextBatch
<1>2. Proper(trace, job) /\ next \in Nat /\ read = FlattenSeq(SubSeq(trace.rows, 1, Cut(next)))
  BY <1>1 DEF TraceOK
<1>3. Readable(trace)
  BY <1>2 DEF Proper
<1>4. num_batches' = num_batches /\ num_batches \in Nat
  BY <1>1, <1>3, NumBatches DEF num_batches, InBatches, IsSampled, Rows
<1>5. Cut(next)' = Cut(next + 1)
  BY <1>1 DEF Cut, IsSampled, Rows
<1> DEFINE s == trace.rows
           m == Cut(next)
           k == Cut(next + 1)
<1>6. /\ get_batch_ids(next) = FlattenSeq(SubSeq(s, m + 1, k))
      /\ m \in Nat /\ k \in Nat /\ m < k /\ k <= Len(s)
  BY <1>1, <1>2, <1>3, BatchIs DEF Rows
<1>7. s \in Seq(Seq(Nat))
  BY <1>3 DEF Readable
<1>8. read' = FlattenSeq(SubSeq(s, 1, k))
  <2> HIDE DEF s, m, k
  <2>1. m \in 0..Len(s) /\ k \in m..Len(s)
    BY <1>6, <1>7
  <2>2. FlattenSeq(SubSeq(s, 1, k)) = FlattenSeq(SubSeq(s, 1, m)) \o FlattenSeq(SubSeq(s, m + 1, k))
    BY <2>1, <1>7, FlattenStretch
  <2>3. read' = FlattenSeq(SubSeq(s, 1, m)) \o FlattenSeq(SubSeq(s, m + 1, k))
    BY <1>1, <1>2, <1>6 DEF s, m
  <2>4. QED
    BY <2>2, <2>3
<1>9. next' \in Nat /\ next' <= num_batches'
  BY <1>1, <1>2, <1>4
<1>10. Proper(trace, job)'
  BY <1>1, <1>2
<1>11. TraceOK'
  BY <1>1, <1>5, <1>8, <1>9, <1>10 DEF TraceOK
<1>12. QED
  BY <1>1, <1>2, <1>3, <1>11

\* Every step of the trace tools keeps the trace and what was read of it.
LEMMA TraceOKStep == TraceOK /\ [TraceNext]_traceVars => TraceOK'
<1> SUFFICES ASSUME TraceOK, [TraceNext]_traceVars PROVE TraceOK'
  OBVIOUS
<1>1. CASE preprocess \/ convert \/ generate_ids \/ Import
  <2>1. Proper(trace, job)' /\ job' = job /\ next' = next /\ read' = read /\ stage' = "trace" /\ stage = "raw"
    BY <1>1, WrittenTrace
  <2>2. next = 0 /\ read = <<>>
    BY <2>1 DEF TraceOK, TraceInit
  <2>3. Readable(trace)'
    BY <2>1 DEF Proper
  <2>4. (0 <= num_batches /\ FlattenSeq(SubSeq(trace.rows, 1, Cut(0))) = <<>>)'
    BY <2>3, NothingRead, PTL
  <2>5. QED
    BY <2>1, <2>2, <2>4 DEF TraceOK
<1>2. CASE NextBatch
  BY <1>2, BatchRead
<1>3. CASE UNCHANGED traceVars
  BY <1>3 DEF traceVars, TraceOK, TraceInit, Cut, num_batches, InBatches, IsSampled, Rows
<1>4. QED
  BY <1>1, <1>2, <1>3 DEF TraceNext

\* The steps of the system are steps of the trace tools or leave the trace alone.
LEMMA TraceSteps == [Next]_<<traceVars, driverVars>> => [TraceNext]_traceVars
BY DEF Next, Done

\* The inductive invariant of the trace: what a tool wrote is a proper trace, and the ids read
\* are those of its rows up to the cut of the next batch.
THEOREM TraceInv == Spec => []TraceOK
<1>1. Init => TraceOK
  BY TraceOKInit DEF Init
<1>2. TraceOK /\ [Next]_<<traceVars, driverVars>> => TraceOK'
  BY TraceOKStep, TraceSteps
<1>3. QED
  BY <1>1, <1>2, PTL DEF Spec

\* Rows and ids by their positions.
LEMMA RowsOfRows ==
    ASSUME NEW rows, rows \in Seq(Seq(Nat)), NEW r \in ToSet(rows)
    PROVE  \E i \in 1..Len(rows) : r = rows[i] /\ DOMAIN r = 1..Len(r) /\ \A id \in ToSet(r) : \E f \in 1..Len(r) : id = r[f]
<1>1. PICK i \in 1..Len(rows) : r = rows[i]
  BY DEF ToSet
<1>2. r \in Seq(Nat)
  BY <1>1, ElementOfSeq
<1>3. DOMAIN r = 1..Len(r)
  BY <1>2
<1>4. \A id \in ToSet(r) : \E f \in 1..Len(r) : id = r[f]
  BY <1>3 DEF ToSet
<1>5. QED
  BY <1>1, <1>3, <1>4

\* Ids of a proper trace are below its total.
LEMMA ProperInRange == TraceOK => IdsInRange
<1> SUFFICES ASSUME TraceOK, Plain(job), NEW r \in ToSet(trace.rows), NEW id \in ToSet(r) PROVE id < trace.total
  BY ConsistentJob DEF IdsInRange
<1>1. CASE stage = "raw"
  BY <1>1 DEF TraceOK, TraceInit, Written, ToSet
<1>2. CASE stage = "trace"
  <2>1. trace.rows \in Seq(Seq(Nat)) /\ Within(trace, job)
    BY <1>2 DEF TraceOK, Proper, Readable
  <2>2. PICK i \in 1..Len(trace.rows) : r = trace.rows[i] /\ \E f \in 1..Len(r) : id = r[f]
    BY <2>1, RowsOfRows
  <2>3. QED
    BY <2>1, <2>2 DEF Within
<1>3. QED
  BY <1>1, <1>2 DEF TraceOK

\* Written with options that agree (Consistent), every id of a trace is below the
\* total_num_embeddings of its metadata, from which the embedding file is sized.
THEOREM IdsStayInRange == Spec => []IdsInRange
BY TraceInv, ProperInRange, PTL

\* Fields of a proper trace share no id.
LEMMA ProperSeparate == TraceOK => FieldsAreSeparate
<1> SUFFICES ASSUME TraceOK, stage = "trace", job.tool \in {"criteo", "dlrm"}, job.mode = "per_field_offset",
                    job.tool = "criteo" => ~job.drop_empty, NEW r \in ToSet(trace.rows), NEW s \in ToSet(trace.rows),
                    NEW f \in DOMAIN trace.rows[1], NEW g \in DOMAIN trace.rows[1], r[f] = s[g]
             PROVE  f = g
  BY DEF FieldsAreSeparate
<1>1. trace.rows \in Seq(Seq(Nat)) /\ trace.rows # <<>> /\ Apart(trace, job)
  BY DEF TraceOK, Proper, Readable
<1>2. PICK i \in 1..Len(trace.rows) : r = trace.rows[i]
  BY <1>1, RowsOfRows
<1>3. PICK k \in 1..Len(trace.rows) : s = trace.rows[k]
  BY <1>1, RowsOfRows
<1>4. DOMAIN trace.rows[1] = 1..Len(trace.rows[1])
  <2>1. 1 \in 1..Len(trace.rows)
    BY <1>1, EmptySeq
  <2>2. trace.rows[1] \in Seq(Nat)
    BY <1>1, <2>1, ElementOfSeq
  <2>3. QED
    BY <2>2
<1>5. QED
  BY <1>1, <1>2, <1>3, <1>4 DEF Apart

\* With offsets by field (per_field_offset), no id of a trace is of two fields, in the output of
\* preprocess_criteo_trace and of convert_dlrm_trace.
THEOREM FieldsStaySeparate == Spec => []FieldsAreSeparate
BY TraceInv, ProperSeparate, PTL

\* At the last cut every row has been read, once and in order.
LEMMA AllRead == TraceOK => EveryIdReadOnce
<1> SUFFICES ASSUME TraceOK, Analysed, Plain(job) PROVE read = FlattenSeq(trace.rows)
  BY ConsistentJob DEF EveryIdReadOnce
<1>1. Proper(trace, job) /\ read = FlattenSeq(SubSeq(trace.rows, 1, Cut(num_batches)))
  BY DEF TraceOK, Analysed
<1>2. Cut(num_batches) = Len(trace.rows)
  BY <1>1, CutIs DEF Proper, Rows
<1>3. trace.rows \in Seq(Seq(Nat))
  BY <1>1 DEF Proper, Readable
<1>4. SubSeq(trace.rows, 1, Len(trace.rows)) = trace.rows
  <2> DEFINE s == trace.rows
             n == Len(s)
             q == SubSeq(s, 1, n)
  <2> HIDE DEF s
  <2>1. s \in Seq(Seq(Nat)) /\ n \in Nat
    BY <1>3 DEF s
  <2>2. Len(q) = n /\ \A i \in 1..n : q[i] = s[i]
    BY <2>1
  <2>3. q \in Seq(Seq(Nat))
    BY <2>1
  <2> HIDE DEF q
  <2>4. q = s
    BY <2>1, <2>2, <2>3, SeqEqual
  <2>5. QED
    BY <2>4 DEF q, s
<1>5. QED
  BY <1>1, <1>2, <1>4

\* Cut into batches by get_batch_ids, a trace is read whole, every id once and in order, the short
\* last batch included.
THEOREM TraceIsReadOnce == Spec => []EveryIdReadOnce
BY TraceInv, AllRead, PTL

-----------------------------------------------------------------------------
(* What a driver holds open.                                               *)

\* A driver at work holds its resource, has not ended, and has released nothing; a
\* driver that has ended holds none.
Control ==
    /\ system \in System \cup {None} /\ step \in {"batch", "lookup", "exit"} /\ resource \in {None, "open"}
    /\ released \in [System -> {0, 1}] /\ failed \in [System -> {None, "RuntimeError", "ValueError"}]
    /\ DOMAIN reports \subseteq System
    /\ step = "exit" <=> resource = None
    /\ system = None => step = "exit"
    /\ step # "exit" => system \notin DOMAIN reports /\ failed[system] = None /\ system # "torch"
    /\ \A s \in System : s \notin DOMAIN reports /\ failed[s] = None => released[s] = 0
    /\ \A s \in DOMAIN reports \ {"torch"} : released[s] = 1

controlVars == <<system, step, resource, released, reports, failed>>

\* No driver runs at first.
LEMMA ControlInit == Init => Control
BY DEF Init, Control, System, None

\* A driver starts when none is at work, and never a second time.
LEMMA Started ==
    ASSUME Control, NEW s \in System, Start(s)
    PROVE  system = None /\ system' = s /\ s \notin DOMAIN reports /\ failed[s] = None /\ resource = None
           /\ released[s] = 0 /\ step = "exit"
BY DEF Start, Control

\* Every step keeps the control of the drivers.
LEMMA ControlStep == Control /\ [Next]_<<traceVars, driverVars>> => Control'
<1> SUFFICES ASSUME Control, [Next]_<<traceVars, driverVars>> PROVE Control'
  OBVIOUS
<1>1. CASE UNCHANGED controlVars
  BY <1>1 DEF controlVars, Control
<1>2. CASE OpenFile
  <2>1. /\ Start("cpu_staging") /\ resource' = "open" /\ step' = "batch"
        /\ UNCHANGED <<released, reports, failed>>
    BY <1>2 DEF OpenFile
  <2>2. system' = "cpu_staging" /\ "cpu_staging" \notin DOMAIN reports /\ failed["cpu_staging"] = None
    BY <2>1, Started DEF System
  <2>3. QED
    BY <2>1, <2>2 DEF Control, System, None
<1>3. CASE StageBatch
  <2>1. step = "batch" /\ step' = "lookup" /\ UNCHANGED <<system, resource, released, reports, failed>>
    BY <1>3 DEF StageBatch, AtBatch, endVars
  <2>2. QED
    BY <2>1 DEF Control
<1>4. CASE StageBlock
  <2>1. step = "lookup" /\ step' \in {"batch", "lookup"} /\ UNCHANGED <<system, resource, released, reports, failed>>
    BY <1>4 DEF StageBlock, AtRead, endVars
  <2>2. QED
    BY <2>1 DEF Control
<1>5. CASE StageFails
  <2>1. /\ system = "cpu_staging" /\ step = "lookup" /\ step' = "exit" /\ resource' = None
        /\ failed' = [failed EXCEPT ![system] = "RuntimeError"]
        /\ released' = [released EXCEPT ![system] = @ + 1] /\ UNCHANGED <<system, reports>>
    BY <1>5 DEF StageFails, AtRead, Raise, CloseFile
  <2>2. system \in System /\ released[system] = 0 /\ system \notin DOMAIN reports
    BY <2>1 DEF Control, System
  <2>3. released' = [released EXCEPT ![system] = 1]
    BY <2>1, <2>2
  <2>4. QED
    BY <2>1, <2>2, <2>3 DEF Control, None
<1>6. CASE ReportStaging
  <2>1. /\ system = "cpu_staging" /\ step = "batch" /\ step' = "exit" /\ resource' = None
        /\ released' = [released EXCEPT ![system] = @ + 1] /\ UNCHANGED <<system, failed>>
        /\ DOMAIN reports' = DOMAIN reports \cup {system}
    BY <1>6 DEF ReportStaging, Report, CloseFile
  <2>2. system \in System /\ released[system] = 0
    BY <2>1 DEF Control, System
  <2>3. released' = [released EXCEPT ![system] = 1]
    BY <2>1, <2>2
  <2>4. QED
    BY <2>1, <2>2, <2>3 DEF Control
<1>7. CASE OpenBag
  <2>1. /\ Start("memtier") /\ UNCHANGED <<released, reports>>
        /\ \/ /\ failed' \in {[failed EXCEPT !["memtier"] = "ValueError"], [failed EXCEPT !["memtier"] = "RuntimeError"]}
              /\ step' = "exit" /\ resource' = resource
           \/ resource' = "open" /\ step' = "batch" /\ failed' = failed
    BY <1>7 DEF OpenBag, Raise
  <2>2. system' = "memtier" /\ "memtier" \notin DOMAIN reports /\ failed["memtier"] = None /\ resource = None
    BY <2>1, Started DEF System
  <2>3. ASSUME NEW e \in {"ValueError", "RuntimeError"}, failed' = [failed EXCEPT !["memtier"] = e],
               step' = "exit", resource' = resource
        PROVE  Control'
    BY <2>1, <2>2, <2>3 DEF Control, System, None
  <2>4. ASSUME resource' = "open", step' = "batch", failed' = failed PROVE Control'
    BY <2>1, <2>2, <2>4 DEF Control, System, None
  <2>5. QED
    BY <2>1, <2>3, <2>4
<1>8. CASE forward
  <2>1. step = "batch" /\ step' = "lookup" /\ UNCHANGED <<system, resource, released, reports, failed>>
    BY <1>8 DEF forward, AtBatch, endVars
  <2>2. QED
    BY <2>1 DEF Control
<1>9. CASE Serve \/ LookupFails
  BY <1>1, <1>9 DEF Serve, LookupFails, endVars, controlVars
<1>10. CASE lookup_blocks
  <2>1. system = "memtier" /\ step = "lookup" /\ UNCHANGED system
    BY <1>10 DEF lookup_blocks, InLookup
  <2>2. system \in System /\ released[system] = 0 /\ system \notin DOMAIN reports /\ resource = "open"
    BY <2>1 DEF Control, System
  <2>3. CASE step' = "batch" /\ UNCHANGED <<resource, released, reports, failed>>
    BY <2>1, <2>3 DEF Control
  <2>4. CASE rc # 0 /\ Raise(system, "RuntimeError") /\ close
    <3>1. /\ step' = "exit" /\ resource' = None /\ UNCHANGED reports
          /\ failed' = [failed EXCEPT ![system] = "RuntimeError"]
          /\ released' = [released EXCEPT ![system] = 1]
      BY <2>2, <2>4 DEF Raise, close
    <3>2. QED
      BY <2>1, <2>2, <3>1 DEF Control, None
  <2>5. QED
    BY <1>10, <2>3, <2>4 DEF lookup_blocks
<1>11. CASE ReportMemtier
  <2>1. /\ system = "memtier" /\ step = "batch" /\ step' = "exit" /\ close
        /\ UNCHANGED <<system, failed>> /\ DOMAIN reports' = DOMAIN reports \cup {system}
    BY <1>11 DEF ReportMemtier, Report
  <2>2. system \in System /\ released[system] = 0 /\ resource = "open"
    BY <2>1 DEF Control, System
  <2>3. released' = [released EXCEPT ![system] = 1] /\ resource' = None
    BY <2>1, <2>2 DEF close
  <2>4. QED
    BY <2>1, <2>2, <2>3 DEF Control
<1>12. CASE Exit
  <2>1. step = "exit" /\ close /\ system' = None /\ UNCHANGED <<step, reports, failed>>
    BY <1>12 DEF Exit, endVars
  <2>2. resource = None /\ resource' = None /\ released' = released
    BY <2>1 DEF Control, close, None
  <2>3. QED
    BY <2>1, <2>2 DEF Control
<1>13. CASE RunTorch
  <2>1. Start("torch") /\ UNCHANGED <<resource, released>> /\ step' = "exit"
    BY <1>13 DEF RunTorch, Report, Raise
  <2>2. system' = "torch" /\ "torch" \notin DOMAIN reports /\ failed["torch"] = None /\ resource = None
    BY <2>1, Started DEF System
  <2>3. \/ DOMAIN reports' = DOMAIN reports \cup {"torch"} /\ failed' = failed
        \/ reports' = reports /\ failed' = [failed EXCEPT !["torch"] = "RuntimeError"]
    BY <1>13 DEF RunTorch, Report, Raise
  <2>4. QED
    BY <2>1, <2>2, <2>3 DEF Control, System, None
<1>14. CASE TraceNext /\ UNCHANGED driverVars
  BY <1>1, <1>14 DEF driverVars, endVars, controlVars
<1>15. CASE FileStep
  BY <1>1, <1>15 DEF FileStep, endVars, controlVars
<1>16. CASE Done \/ UNCHANGED <<traceVars, driverVars>>
  BY <1>1, <1>16 DEF Done, driverVars, endVars, controlVars
<1>17. QED
  BY <1>2, <1>3, <1>4, <1>5, <1>6, <1>7, <1>8, <1>9, <1>10, <1>11, <1>12, <1>13, <1>14, <1>15, <1>16
     DEF Next, DriverStep

\* A driver that has ended has released its resource, once.
LEMMA ControlReleases == Control => ReleasedOnce
BY DEF Control, ReleasedOnce, System

\* The inductive invariant of the control: a driver at work holds its file or runtime and has
\* released nothing, one that has ended holds none.
THEOREM ControlInv == Spec => []Control
BY ControlInit, ControlStep, PTL DEF Spec

\* Every driver releases what it opened exactly once, whether it reports or raises.
THEOREM EveryResourceIsReleased == Spec => []ReleasedOnce
BY ControlInv, ControlReleases, PTL

-----------------------------------------------------------------------------
(* The blocks of a batch.                                                  *)

\* ids_to_blocks lists each block of the ids once.
LEMMA BlocksAre ==
    ASSUME NEW ids \in Seq(Nat)
    PROVE  LET B == ids_to_blocks(ids) IN
           /\ B \in Seq(Nat) /\ ToSet(B) \subseteq Nat /\ IsFiniteSet(ToSet(B)) /\ Len(B) = Cardinality(ToSet(B))
           /\ \A i, k \in 1..Len(B) : B[i] = B[k] => i = k
           /\ \A x : x \in ToSet(B) <=> \E i \in 1..Len(ids) : x = ids[i] \div RowsPerBlock
           /\ ids # <<>> => ToSet(B) # {} /\ B # <<>>
<1> DEFINE S == {ids[i] \div RowsPerBlock : i \in DOMAIN ids}
           n == Len(ids)
           f == [i \in 1..n |-> ids[i] \div RowsPerBlock]
           B == ids_to_blocks(ids)
<1>1. n \in Nat /\ DOMAIN ids = 1..n /\ RowsPerBlock \in Nat /\ RowsPerBlock > 0
  BY TraceAssumption
<1>2. \A i \in 1..n : ids[i] \div RowsPerBlock \in Nat
  <2> SUFFICES ASSUME NEW i \in 1..n PROVE ids[i] \div RowsPerBlock \in Nat
    OBVIOUS
  <2> DEFINE h == ids[i]
  <2>1. h \in Nat
    BY ElementOfSeq
  <2> HIDE DEF h
  <2>2. h \div RowsPerBlock \in Nat
    BY <2>1, <1>1, SMTT(30)
  <2>3. QED
    BY <2>2 DEF h
<1>3. S \subseteq Nat /\ \A x : x \in S <=> \E i \in 1..n : x = ids[i] \div RowsPerBlock
  BY <1>1, <1>2
<1>4. ToSet(f) = S
  BY <1>1 DEF ToSet
<1>5. IsFiniteSet(S)
  <2>1. DOMAIN f = 1..n
    OBVIOUS
  <2> HIDE DEF f, S
  <2>2. IsFiniteSet(ToSet(f))
    BY <2>1, <1>1, ImageFinite
  <2>3. QED
    BY <2>2, <1>4
<1>6. B = Ascending(S)
  BY DEF ids_to_blocks
<1>7. ids # <<>> => S # {}
  <2> SUFFICES ASSUME ids # <<>> PROVE S # {}
    OBVIOUS
  <2>1. 1 \in 1..n
    BY EmptySeq
  <2>2. QED
    BY <2>1, <1>1
<1> HIDE DEF S, B, f
<1>8. S \subseteq Int
  BY <1>3
<1>9. /\ B \in Seq(S) /\ Len(B) = Cardinality(S) /\ ToSet(B) = S
      /\ \A i, j \in 1..Len(B) : B[i] = B[j] => i = j
  BY <1>5, <1>6, <1>8, AscendingIs
<1>10. B \in Seq(Nat)
  BY <1>3, <1>9, SeqMonotonic, Zenon
<1>11. ids # <<>> => B # <<>>
  BY <1>7, <1>9 DEF ToSet
<1>12. QED
  BY <1>3, <1>5, <1>7, <1>9, <1>10, <1>11 DEF B, n

\* The blocks of a batch.
LEMMA BlocksOfBatch ==
    ASSUME Readable(trace), NEW b \in Nat, b < num_batches
    PROVE  LET B == ids_to_blocks(get_batch_ids(b)) IN
           /\ B \in Seq(Nat) /\ B # <<>> /\ ToSet(B) = BlocksOf(b) /\ Len(B) = Cardinality(BlocksOf(b))
           /\ \A i, k \in 1..Len(B) : B[i] = B[k] => i = k
           /\ BlocksOf(b) \subseteq Nat /\ IsFiniteSet(BlocksOf(b)) /\ BlocksOf(b) # {}
           /\ \A x : x \in BlocksOf(b) <=> \E i \in 1..Len(get_batch_ids(b)) : x = get_batch_ids(b)[i] \div RowsPerBlock
<1> DEFINE ids == get_batch_ids(b)
<1>1. ids \in Seq(Nat) /\ ids # <<>>
  BY BatchIs
<1>2. BlocksOf(b) = ToSet(ids_to_blocks(ids))
  BY DEF BlocksOf
<1> HIDE DEF ids
<1>3. QED
  BY <1>1, <1>2, BlocksAre DEF ids

\* The members of a concatenation.
LEMMA ToSetConcat ==
    ASSUME NEW S, NEW s \in Seq(S), NEW t \in Seq(S)
    PROVE  ToSet(s \o t) = ToSet(s) \cup ToSet(t)
<1>1. Range(s \o t) = Range(s) \cup Range(t)
  BY RangeConcatenation
<1>2. \A f : Range(f) = ToSet(f)
  BY DEF Range, ToSet
<1>3. QED
  BY <1>1, <1>2

\* The ids of the first n batches.
ReadUpTo(n) == FlattenSeq(SubSeq(trace.rows, 1, Cut(n)))

\* One more batch is read after those before it.
LEMMA ReadMore ==
    ASSUME Readable(trace), NEW n \in Nat, n < num_batches
    PROVE  /\ ReadUpTo(n) \in Seq(Nat) /\ ReadUpTo(n + 1) \in Seq(Nat)
           /\ ReadUpTo(n + 1) = ReadUpTo(n) \o get_batch_ids(n)
           /\ Len(ReadUpTo(n + 1)) = Len(ReadUpTo(n)) + Len(get_batch_ids(n))
           /\ ToSet(ReadUpTo(n + 1)) = ToSet(ReadUpTo(n)) \cup ToSet(get_batch_ids(n))
<1> DEFINE s == trace.rows
           m == Cut(n)
           k == Cut(n + 1)
           X == ReadUpTo(n)
           Y == get_batch_ids(n)
           Z == ReadUpTo(n + 1)
<1>1. /\ Y = FlattenSeq(SubSeq(s, m + 1, k)) /\ Y \in Seq(Nat)
      /\ m \in Nat /\ k \in Nat /\ m < k /\ k <= Len(s)
  BY BatchIs DEF Rows
<1>2. s \in Seq(Seq(Nat)) /\ Len(s) \in Nat
  BY DEF Readable
<1>3. Z = FlattenSeq(SubSeq(s, 1, k)) /\ X = FlattenSeq(SubSeq(s, 1, m))
  BY DEF ReadUpTo
<1> HIDE DEF s, m, k, X, Y, Z
<1>4. m \in 0..Len(s) /\ k \in m..Len(s)
  BY <1>1, <1>2
<1>5. Z = X \o Y
  BY <1>1, <1>2, <1>3, <1>4, FlattenStretch
<1>6. X \in Seq(Nat)
  <2>1. SubSeq(s, 1, m) \in Seq(Seq(Nat))
    BY <1>2, <1>4
  <2>2. QED
    BY <2>1, <1>3, FlattenSeqType
<1>7. Z \in Seq(Nat) /\ Len(Z) = Len(X) + Len(Y) /\ ToSet(Z) = ToSet(X) \cup ToSet(Y)
  <2>1. X \o Y \in Seq(Nat) /\ Len(X \o Y) = Len(X) + Len(Y)
    BY <1>1, <1>6, ConcatProperties
  <2>2. ToSet(X \o Y) = ToSet(X) \cup ToSet(Y)
    BY <1>1, <1>6, ToSetConcat
  <2>3. QED
    BY <2>1, <2>2, <1>5
<1>8. QED
  BY <1>1, <1>5, <1>6, <1>7 DEF X, Y, Z

\* Before the first batch nothing is read.
LEMMA ReadNone == Readable(trace) => ReadUpTo(0) = <<>>
BY NothingRead DEF ReadUpTo

\* A block is used in the first n batches when one of their ids lies in it.
Used(n) == {x \in Nat : \E b \in 0..(n - 1) : x \in BlocksOf(b)}

\* One more batch uses its blocks too.
LEMMA UsedMore ==
    ASSUME Readable(trace), NEW n \in Nat, n < num_batches
    PROVE  Used(n + 1) = Used(n) \cup BlocksOf(n)
<1>1. BlocksOf(n) \subseteq Nat
  BY BlocksOfBatch
<1>2. \A b : b \in 0..((n + 1) - 1) <=> b \in 0..(n - 1) \/ b = n
  OBVIOUS
<1>3. QED
  BY <1>1, <1>2 DEF Used

\* Before the first batch no block is used.
LEMMA UsedNone == Used(0) = {}
BY DEF Used

\* The blocks used are those of the ids read.
LEMMA UsedAreRead ==
    ASSUME Readable(trace), NEW n \in Nat, n <= num_batches
    PROVE  \A x : x \in Used(n) <=> \E id \in ToSet(ReadUpTo(n)) : x = id \div RowsPerBlock
<1> DEFINE Same(k) == \A x : x \in Used(k) <=> \E id \in ToSet(ReadUpTo(k)) : x = id \div RowsPerBlock
           T == {k \in Nat : k <= num_batches => Same(k)}
<1>1. 0 \in T
  <2>1. ReadUpTo(0) = <<>>
    BY ReadNone
  <2>2. ToSet(ReadUpTo(0)) = {}
    BY <2>1 DEF ToSet
  <2>3. QED
    BY <2>2, UsedNone
<1>2. ASSUME NEW k \in Nat, k \in T PROVE k + 1 \in T
  <2> SUFFICES ASSUME k + 1 <= num_batches PROVE Same(k + 1)
    OBVIOUS
  <2>1. num_batches \in Nat
    BY NumBatches
  <2>2. k < num_batches /\ Same(k)
    BY <1>2, <2>1
  <2>3. ToSet(ReadUpTo(k + 1)) = ToSet(ReadUpTo(k)) \cup ToSet(get_batch_ids(k))
    BY <2>2, ReadMore
  <2>4. Used(k + 1) = Used(k) \cup BlocksOf(k)
    BY <2>2, UsedMore
  <2>5. \A x : x \in BlocksOf(k) <=> \E id \in ToSet(get_batch_ids(k)) : x = id \div RowsPerBlock
    <3> DEFINE ids == get_batch_ids(k)
    <3>1. ids \in Seq(Nat)
      BY <2>2, BatchIs
    <3>2. \A x : x \in BlocksOf(k) <=> \E i \in 1..Len(ids) : x = ids[i] \div RowsPerBlock
      BY <2>2, BlocksOfBatch
    <3> HIDE DEF ids
    <3>3. \A id : id \in ToSet(ids) <=> \E i \in 1..Len(ids) : id = ids[i]
      BY <3>1 DEF ToSet
    <3>4. \A x : x \in BlocksOf(k) <=> \E id \in ToSet(ids) : x = id \div RowsPerBlock
      BY <3>2, <3>3
    <3>5. QED
      BY <3>4 DEF ids
  <2>6. QED
    BY <2>2, <2>3, <2>4, <2>5
<1>3. \A k \in Nat : k \in T
  <2> HIDE DEF T
  <2>1. QED
    BY <1>1, <1>2, Inductive
<1>4. QED
  BY <1>3

-----------------------------------------------------------------------------
(* What the analysis and the drivers count.                                *)

\* A function of 1..n is a sequence.
LEMMA SequenceOf ==
    ASSUME NEW S, NEW n \in Nat, NEW s \in [1..n -> S]
    PROVE  s \in Seq(S) /\ Len(s) = n
OBVIOUS

\* The values of one more position, appended.
LEMMA Extends ==
    ASSUME NEW n \in Nat, NEW f, NEW s, f = [i \in 1..(n + 1) |-> f[i]], s = [i \in 1..n |-> f[i]]
    PROVE  Append(s, f[n + 1]) = f
<1> DEFINE S == {f[i] : i \in 1..(n + 1)}
           e == f[n + 1]
<1>1. f \in [1..(n + 1) -> S] /\ e \in S
  OBVIOUS
<1>2. s \in [1..n -> S] /\ \A i \in 1..n : s[i] = f[i]
  OBVIOUS
<1> HIDE DEF S, e
<1>3. f \in Seq(S) /\ Len(f) = n + 1
  BY <1>1
<1>4. s \in Seq(S) /\ Len(s) = n
  BY <1>2, SequenceOf
<1>5. Append(s, e) \in Seq(S) /\ Len(Append(s, e)) = n + 1
  BY <1>1, <1>4, AppendProperties
<1>6. \A i \in 1..(n + 1) : Append(s, e)[i] = f[i]
  BY <1>1, <1>2, <1>4 DEF e
<1>7. Append(s, e) = f
  BY <1>3, <1>5, <1>6, SeqEqual
<1>8. QED
  BY <1>7 DEF e

UniqueIds(n) == [i \in 1..n |-> Cardinality(ToSet(get_batch_ids(i - 1)))]
UniqueBlocks(n) == [i \in 1..n |-> Cardinality(BlocksOf(i - 1))]
ReuseOf(b) == Ratio(Cardinality(BlocksOf(b) \cap BlocksOf(b - 1)), Cardinality(BlocksOf(b)))
Reuse(n) == [i \in 1..(n - 1) |-> ReuseOf(i)]

\* A record of counters after the first n batches.
TallyIs(r, n) ==
    /\ r.total_lookups = Len(ReadUpTo(n))
    /\ r.unique_ids = UniqueIds(n) /\ r.unique_blocks = UniqueBlocks(n) /\ r.reuse_ratios = Reuse(n)
    /\ r.previous_blocks = IF n = 0 THEN {} ELSE BlocksOf(n - 1)

\* The counters after one more batch.
CountsMore(q, r, ids, blocks) ==
    /\ q.total_lookups = r.total_lookups + Len(ids)
    /\ q.unique_ids = Append(r.unique_ids, Cardinality(ToSet(ids)))
    /\ q.unique_blocks = Append(r.unique_blocks, Cardinality(blocks))
    /\ q.reuse_ratios = IF r.previous_blocks = {} THEN r.reuse_ratios
                        ELSE Append(r.reuse_ratios, Ratio(Cardinality(blocks \cap r.previous_blocks),
                                                          Cardinality(blocks)))
    /\ q.previous_blocks = blocks

\* The counts of no batch.
LEMMA TallyNone ==
    ASSUME Readable(trace), NEW r, r.total_lookups = 0, r.unique_ids = <<>>, r.unique_blocks = <<>>,
           r.reuse_ratios = <<>>, r.previous_blocks = {}
    PROVE  TallyIs(r, 0)
<1>1. ReadUpTo(0) = <<>>
  BY ReadNone
<1>2. Len(ReadUpTo(0)) = 0
  BY <1>1
<1>3. UniqueIds(0) = <<>>
  BY DEF UniqueIds
<1>4. UniqueBlocks(0) = <<>>
  BY DEF UniqueBlocks
<1>5. Reuse(0) = <<>>
  BY DEF Reuse
<1>6. QED
  BY <1>2, <1>3, <1>4, <1>5 DEF TallyIs

\* The counts of one more batch, from the update that the analysis and the drivers share.
LEMMA TallyMore ==
    ASSUME Readable(trace), NEW n \in Nat, n < num_batches, NEW r, NEW q, TallyIs(r, n),
           CountsMore(q, r, get_batch_ids(n), BlocksOf(n))
    PROVE  TallyIs(q, n + 1)
<1>1. (n + 1) - 1 = n /\ n + 1 # 0
  OBVIOUS
<1>2. q.total_lookups = Len(ReadUpTo(n + 1))
  BY ReadMore DEF TallyIs, CountsMore
<1>3. q.unique_ids = UniqueIds(n + 1)
  <2> DEFINE f == UniqueIds(n + 1)
             s == UniqueIds(n)
  <2>1. f = [i \in 1..(n + 1) |-> f[i]] /\ s = [i \in 1..n |-> f[i]]
    BY DEF UniqueIds
  <2>2. f[n + 1] = Cardinality(ToSet(get_batch_ids(n)))
    BY <1>1 DEF UniqueIds
  <2> HIDE DEF f, s
  <2>3. Append(s, f[n + 1]) = f
    BY <2>1, Extends
  <2>4. QED
    BY <2>2, <2>3 DEF f, s, TallyIs, CountsMore
<1>4. q.unique_blocks = UniqueBlocks(n + 1)
  <2> DEFINE f == UniqueBlocks(n + 1)
             s == UniqueBlocks(n)
  <2>1. f = [i \in 1..(n + 1) |-> f[i]] /\ s = [i \in 1..n |-> f[i]]
    BY DEF UniqueBlocks
  <2>2. f[n + 1] = Cardinality(BlocksOf(n))
    BY <1>1 DEF UniqueBlocks
  <2> HIDE DEF f, s
  <2>3. Append(s, f[n + 1]) = f
    BY <2>1, Extends
  <2>4. QED
    BY <2>2, <2>3 DEF f, s, TallyIs, CountsMore
<1>5. q.reuse_ratios = Reuse(n + 1)
  <2>1. CASE n = 0
    <3>1. q.reuse_ratios = Reuse(0)
      BY <2>1 DEF TallyIs, CountsMore
    <3>2. Reuse(0) = <<>> /\ Reuse(1) = <<>>
      BY DEF Reuse
    <3>3. QED
      BY <2>1, <3>1, <3>2
  <2>2. CASE n # 0
    <3> DEFINE m == n - 1
               f == Reuse(n + 1)
               s == Reuse(n)
    <3>1. m \in Nat /\ n = m + 1 /\ m < num_batches
      BY <2>2, NumBatches
    <3>2. r.previous_blocks = BlocksOf(m) /\ BlocksOf(m) # {}
      BY <2>2, <3>1, BlocksOfBatch DEF TallyIs
    <3>3. f = [i \in 1..(m + 1) |-> f[i]] /\ s = [i \in 1..m |-> f[i]]
      BY <3>1, <1>1 DEF Reuse
    <3>4. f[m + 1] = ReuseOf(n)
      BY <3>1, <1>1 DEF Reuse
    <3>5. ReuseOf(n) = Ratio(Cardinality(BlocksOf(n) \cap BlocksOf(m)), Cardinality(BlocksOf(n)))
      BY DEF ReuseOf
    <3> HIDE DEF f, s, m
    <3>6. Append(s, f[m + 1]) = f
      BY <3>1, <3>3, Extends
    <3>7. QED
      BY <3>2, <3>4, <3>5, <3>6 DEF f, s, TallyIs, CountsMore
  <2>3. QED
    BY <2>1, <2>2
<1>6. q.previous_blocks = BlocksOf((n + 1) - 1)
  BY <1>1 DEF CountsMore
<1>7. QED
  BY <1>1, <1>2, <1>3, <1>4, <1>5, <1>6 DEF TallyIs

\* What is derived from the trace changes only with it.
LEMMA SameTrace ==
    ASSUME trace' = trace
    PROVE  /\ num_batches' = num_batches /\ Rows' = Rows
           /\ \A b : get_batch_ids(b)' = get_batch_ids(b)
           /\ \A b : BlocksOf(b)' = BlocksOf(b)
           /\ \A n : ReadUpTo(n)' = ReadUpTo(n)
           /\ \A n : Used(n)' = Used(n)
           /\ \A r : \A n : TallyIs(r, n)' = TallyIs(r, n)
<1>1. num_batches' = num_batches /\ Rows' = Rows
  BY DEF num_batches, InBatches, IsSampled, Rows
<1>2. ASSUME NEW b PROVE get_batch_ids(b)' = get_batch_ids(b)
  BY DEF get_batch_ids, IsSampled, Rows, BatchStart, BatchEnd
<1>3. ASSUME NEW b PROVE BlocksOf(b)' = BlocksOf(b)
  BY <1>2 DEF BlocksOf
<1>4. ASSUME NEW n PROVE ReadUpTo(n)' = ReadUpTo(n)
  BY DEF ReadUpTo, Cut, IsSampled, Rows
<1>5. ASSUME NEW n PROVE Used(n)' = Used(n)
  BY <1>3 DEF Used
<1>6. ASSUME NEW r, NEW n PROVE TallyIs(r, n)' = TallyIs(r, n)
  BY <1>2, <1>3, <1>4 DEF TallyIs, UniqueIds, UniqueBlocks, Reuse, ReuseOf
<1>7. QED
  BY <1>1, <1>2, <1>3, <1>4, <1>5, <1>6

\* The counters of the analysis are those of the batches so far.
StatsOK ==
    stage = "trace" =>
        /\ TallyIs(stats, next)
        /\ BagToSet(stats.id_counter) = ToSet(ReadUpTo(next))
        /\ BagToSet(stats.block_counter) = Used(next)

\* Counter.update adds the keys of both.
LEMMA UnionOfBags ==
    ASSUME NEW A, NEW B
    PROVE  BagToSet(A (+) B) = BagToSet(A) \cup BagToSet(B)
BY DEF BagToSet, \oplus

\* A Counter of a list has its members as keys.
LEMMA ToBagIs ==
    ASSUME NEW s
    PROVE  BagToSet(ToBag(s)) = ToSet(s)
BY DEF BagToSet, ToBag, ToSet, Range

\* A Counter of a set has its members as keys.
LEMMA SetToBagIs ==
    ASSUME NEW S
    PROVE  BagToSet(SetToBag(S)) = S
BY DEF BagToSet, SetToBag

\* The analysis starts with no counts.
LEMMA StatsOKInit == TraceInit => StatsOK
BY DEF TraceInit, StatsOK

\* What the loop of analyze_trace does with a batch.
LEMMA BatchTaken ==
    ASSUME TraceOK, NextBatch
    PROVE  LET ids == get_batch_ids(next)
               blocks == ids_to_blocks(ids) IN
           /\ next' = next + 1 /\ stats' = Tallied(stats, next, ids, BlocksOf(next))
           /\ accesses' = accesses \o blocks
           /\ sims' = update_lru_sims(blocks).sims /\ hits' = update_lru_sims(blocks).hits
BY DEF NextBatch, BlocksOf

\* A batch of the analysis is counted.
LEMMA StatsOKBatch ==
    ASSUME TraceOK, StatsOK, NextBatch
    PROVE  StatsOK'
<1> DEFINE ids == get_batch_ids(next)
           B == BlocksOf(next)
           q == Tallied(stats, next, ids, B)
<1>1. stage = "trace" /\ UNCHANGED <<job, stage, trace>> /\ next \in Nat /\ next < num_batches /\ Readable(trace)
  BY BatchRead
<1>2. next' = next + 1 /\ stats' = q
  BY BatchTaken
<1>3. /\ TallyIs(stats, next) /\ BagToSet(stats.id_counter) = ToSet(ReadUpTo(next))
      /\ BagToSet(stats.block_counter) = Used(next)
  BY <1>1 DEF StatsOK
<1>4. CountsMore(q, stats, ids, B)
  BY DEF CountsMore, Tallied
<1>5. q.id_counter = stats.id_counter (+) ToBag(ids) /\ q.block_counter = stats.block_counter (+) SetToBag(B)
  BY DEF Tallied
<1>6. TallyIs(q, next + 1)
  <2> HIDE DEF q
  <2>1. QED
    BY <1>1, <1>3, <1>4, TallyMore
<1> HIDE DEF q, ids, B
<1>7. BagToSet(q.id_counter) = ToSet(ReadUpTo(next)) \cup ToSet(ids)
  BY <1>3, <1>5, UnionOfBags, ToBagIs
<1>8. BagToSet(q.block_counter) = Used(next) \cup B
  BY <1>3, <1>5, UnionOfBags, SetToBagIs
<1>9. BagToSet(q.id_counter) = ToSet(ReadUpTo(next + 1)) /\ BagToSet(q.block_counter) = Used(next + 1)
  BY <1>1, <1>7, <1>8, ReadMore, UsedMore DEF ids, B
<1>10. TallyIs(stats, next)' = TallyIs(q, next + 1)
  <2>1. \A r : \A n : TallyIs(r, n)' = TallyIs(r, n)
    BY <1>1, SameTrace
  <2>2. QED
    BY <1>1, <1>2 DEF TallyIs, UniqueIds, UniqueBlocks, Reuse, ReuseOf, ReadUpTo, Cut, IsSampled, Rows,
        get_batch_ids, BatchStart, BatchEnd, BlocksOf
<1>11. QED
  <2>1. ToSet(ReadUpTo(next))' = ToSet(ReadUpTo(next + 1))
    BY <1>1, <1>2 DEF ReadUpTo, Cut, IsSampled, Rows
  <2>2. Used(next)' = Used(next + 1)
    BY <1>1, <1>2 DEF Used, BlocksOf, get_batch_ids, BatchStart, BatchEnd, IsSampled, Rows
  <2>3. QED
    BY <1>2, <1>6, <1>9, <1>10, <2>1, <2>2 DEF StatsOK

\* Every step of the trace tools keeps the counts.
LEMMA StatsOKStep == TraceOK /\ StatsOK /\ [TraceNext]_traceVars => StatsOK'
<1> SUFFICES ASSUME TraceOK, StatsOK, [TraceNext]_traceVars PROVE StatsOK'
  OBVIOUS
<1>1. CASE preprocess \/ convert \/ generate_ids \/ Import
  <2>1. Proper(trace, job)' /\ next' = next /\ stats' = stats /\ stage' = "trace" /\ stage = "raw"
    BY <1>1, WrittenTrace
  <2>2. /\ next = 0 /\ stats.total_lookups = 0 /\ stats.unique_ids = <<>> /\ stats.unique_blocks = <<>>
        /\ stats.reuse_ratios = <<>> /\ stats.previous_blocks = {}
        /\ stats.id_counter = EmptyBag /\ stats.block_counter = EmptyBag
    BY <2>1 DEF TraceOK, TraceInit
  <2>3. Readable(trace)'
    BY <2>1 DEF Proper
  <2>4. BagToSet(EmptyBag) = {}
    BY SetToBagIs DEF EmptyBag
  <2>5. (ReadUpTo(0) = <<>>)'
    BY <2>3, ReadNone, PTL
  <2>6. ToSet(ReadUpTo(0))' = {} /\ Len(ReadUpTo(0))' = 0
    BY <2>5 DEF ToSet
  <2>7. Used(0)' = {}
    BY DEF Used
  <2>8. TallyIs(stats, 0)'
    BY <2>1, <2>2, <2>6 DEF TallyIs, UniqueIds, UniqueBlocks, Reuse
  <2>9. QED
    BY <2>1, <2>2, <2>4, <2>6, <2>7, <2>8 DEF StatsOK
<1>2. CASE NextBatch
  BY <1>2, StatsOKBatch
<1>3. CASE UNCHANGED traceVars
  <2>1. UNCHANGED <<trace, stage, next, stats>>
    BY <1>3 DEF traceVars
  <2>2. QED
    BY <2>1 DEF StatsOK, TallyIs, UniqueIds, UniqueBlocks, Reuse, ReuseOf, ReadUpTo, Used, Cut, IsSampled, Rows,
        get_batch_ids, BatchStart, BatchEnd, BlocksOf
<1>4. QED
  BY <1>1, <1>2, <1>3 DEF TraceNext

-----------------------------------------------------------------------------
(* The table, and the loop of a driver over a trace that no longer changes. *)

\* An analysed trace does not change.
LEMMA Settled ==
    ASSUME TraceOK, Analysed, [Next]_<<traceVars, driverVars>>
    PROVE  UNCHANGED traceVars /\ Analysed'
<1>1. Readable(trace) /\ stage = "trace" /\ next = num_batches
  BY DEF TraceOK, Analysed, Proper
<1>2. num_batches \in Nat
  BY <1>1, NumBatches
<1>3. ~TraceNext
  <2>1. ~(preprocess \/ convert \/ generate_ids \/ Import)
    BY <1>1 DEF preprocess, convert, generate_ids, Import, Write
  <2>2. ~NextBatch
    BY <1>1, <1>2 DEF NextBatch
  <2>3. QED
    BY <2>1, <2>2 DEF TraceNext
<1>4. UNCHANGED traceVars
  BY <1>3 DEF Next, Done
<1>5. Analysed'
  BY <1>4, <1>1 DEF traceVars, Analysed, num_batches, InBatches, IsSampled, Rows
<1>6. QED
  BY <1>4, <1>5

\* There is a table only for an analysed trace, drivers run and end only with a table,
\* and a table that is done has every row that was asked for.
FileOK ==
    /\ writer \in {None, "writing", "done", "killed"} /\ file \in Nat \cup {NoFile} /\ asked \in Nat
    /\ writer = None <=> file = NoFile
    /\ file # NoFile => Analysed
    /\ writer = "writing" => file <= asked
    /\ writer = "done" => file = asked
    /\ system # None \/ DOMAIN reports # {} => file # NoFile
    /\ \A s \in System : failed[s] # None => file # NoFile
    /\ complete # {} => writer = "done"

\* There is no table at first.
LEMMA FileOKInit == Init => FileOK
BY DEF Init, FileOK, None, NoFile, System, Absent

\* Writing the table, killed or not, never shortens it, and done means every row asked for.
LEMMA FileMoves ==
    ASSUME FileOK, generate_embedding_file
    PROVE  /\ writer' \in {"writing", "done", "killed"} /\ file' \in Nat /\ asked' \in Nat
           /\ file # NoFile => file <= file' /\ asked' = asked
           /\ writer' = "writing" => file' <= asked'
           /\ writer' = "done" => file' = asked'
           /\ writer # "done" /\ Analysed
<1>1. CASE StartGenerator
  <2>1. Analysed
    BY <1>1 DEF StartGenerator, Replayed
  <2>2. asked' \in Nat
    BY <1>1, DriverAssumption DEF StartGenerator, Positive
  <2>3. file = NoFile /\ file' = 0 /\ writer' = "writing"
    BY <1>1 DEF StartGenerator
  <2>4. writer # "done"
    BY <2>3 DEF FileOK, NoFile, None
  <2>5. QED
    BY <2>1, <2>2, <2>3, <2>4
<1>2. CASE WriteChunk \/ KillGenerator
  <2>1. writer = "writing" /\ asked' = asked
    BY <1>2 DEF WriteChunk, KillGenerator
  <2>2. file # NoFile /\ file \in Nat /\ asked \in Nat /\ Analysed /\ file <= asked
    BY <2>1 DEF FileOK, None
  <2> DEFINE m == Min({RowsPerChunk, asked - file})
  <2>3. m \in Nat /\ m <= asked - file
    <3>1. RowsPerChunk \in Int /\ asked - file \in Int /\ RowsPerChunk \in Nat
      BY <2>2, DriverAssumption DEF Positive
    <3>2. m = IF RowsPerChunk <= asked - file THEN RowsPerChunk ELSE asked - file
      BY <3>1, MinOfTwo
    <3> HIDE DEF m
    <3>3. QED
      BY <3>1, <3>2, <2>2
  <2> HIDE DEF m
  <2>4. CASE WriteChunk
    <3>1. CASE file < asked
      <4>1. file' = file + m /\ writer' = writer
        BY <2>4, <3>1 DEF WriteChunk, m
      <4>2. QED
        BY <4>1, <2>1, <2>2, <2>3
    <3>2. CASE ~(file < asked)
      <4>1. file' = file /\ writer' = "done"
        BY <2>4, <3>2 DEF WriteChunk
      <4>2. file = asked
        BY <3>2, <2>2
      <4>3. QED
        BY <4>1, <4>2, <2>1, <2>2
    <3>3. QED
      BY <3>1, <3>2
  <2>5. CASE KillGenerator
    <3>1. PICK n \in 0..m : file' = file + n
      BY <2>5 DEF KillGenerator, m
    <3>2. writer' = "killed"
      BY <2>5 DEF KillGenerator
    <3>3. QED
      BY <3>1, <3>2, <2>1, <2>2, <2>3
  <2>6. QED
    BY <1>2, <2>4, <2>5
<1>3. QED
  BY <1>1, <1>2 DEF generate_embedding_file

\* Drivers only read the table.
LEMMA DriverKeepsFile ==
    ASSUME DriverStep
    PROVE  file' = file /\ writer' = writer /\ asked' = asked
BY DEF DriverStep, OpenFile, StageBatch, StageBlock, StageFails, ReportStaging, OpenBag, forward, Serve, LookupFails,
    lookup_blocks, ReportMemtier, RunTorch, Exit, fileVars

\* A driver starts on a table, and is one of the complete ones only when the table is done.
LEMMA StartsOn ==
    ASSUME Control, NEW s, Start(s)
    PROVE  file # NoFile /\ Analysed /\ complete' \in {complete, complete \cup {s}} /\ (complete' # complete => writer = "done")
BY DEF Start, Replayed

\* A driver's step starts one, or one is at work.
LEMMA DriverSteps ==
    ASSUME Control, DriverStep
    PROVE  \/ \E s \in System : Start(s)
           \/ system # None /\ complete' = complete
<1>1. CASE OpenFile
  BY <1>1 DEF OpenFile, System
<1>2. CASE OpenBag
  BY <1>2 DEF OpenBag, System
<1>3. CASE RunTorch
  BY <1>3 DEF RunTorch, System
<1>4. CASE StageBatch \/ StageBlock \/ StageFails \/ ReportStaging
  BY <1>4 DEF StageBatch, AtBatch, StageBlock, AtRead, StageFails, ReportStaging, endVars, None
<1>5. CASE forward \/ Serve \/ LookupFails \/ lookup_blocks \/ ReportMemtier
  BY <1>5 DEF forward, AtBatch, Serve, InLookup, LookupFails, lookup_blocks, ReportMemtier, endVars, None
<1>6. CASE Exit
  BY <1>6 DEF Exit, endVars
<1>7. QED
  BY <1>1, <1>2, <1>3, <1>4, <1>5, <1>6 DEF DriverStep

\* Every step keeps the table.
LEMMA FileOKStep == TraceOK /\ Control /\ FileOK /\ [Next]_<<traceVars, driverVars>> => FileOK'
<1> SUFFICES ASSUME TraceOK, Control, FileOK, [Next]_<<traceVars, driverVars>> PROVE FileOK'
  OBVIOUS
<1>1. CASE UNCHANGED driverVars
  <2>1. UNCHANGED <<file, asked, writer, system, reports, failed, complete>>
    BY <1>1 DEF driverVars, fileVars, endVars
  <2>2. CASE file = NoFile
    BY <2>1, <2>2 DEF FileOK, None
  <2>3. CASE file # NoFile
    <3>1. UNCHANGED traceVars /\ Analysed'
      BY <2>3, Settled DEF FileOK
    <3>2. trace' = trace
      BY <3>1 DEF traceVars
    <3>3. QED
      BY <2>1, <3>1, <3>2 DEF FileOK
  <2>4. QED
    BY <2>2, <2>3
<1>2. CASE FileStep
  <2>1. UNCHANGED <<system, reports, failed, complete>> /\ generate_embedding_file
    BY <1>2 DEF FileStep, endVars
  <2>2. /\ writer' \in {"writing", "done", "killed"} /\ file' \in Nat /\ asked' \in Nat
        /\ writer' = "writing" => file' <= asked'
        /\ writer' = "done" => file' = asked'
        /\ writer # "done" /\ Analysed
    BY <2>1, FileMoves
  <2>3. trace' = trace /\ Analysed'
    BY <2>2, Settled DEF traceVars
  <2>4. file' # NoFile /\ writer' # None
    BY <2>2 DEF NoFile, None
  <2>5. complete' = {}
    BY <2>1, <2>2 DEF FileOK
  <2>6. QED
    BY <2>1, <2>2, <2>3, <2>4, <2>5 DEF FileOK
<1>3. CASE DriverStep
  <2>1. file' = file /\ writer' = writer /\ asked' = asked
    BY <1>3, DriverKeepsFile
  <2>2. file # NoFile /\ (complete' = complete \/ writer = "done")
    <3>1. CASE \E s \in System : Start(s)
      BY <3>1, StartsOn
    <3>2. CASE system # None /\ complete' = complete
      BY <3>2 DEF FileOK
    <3>3. QED
      BY <1>3, <3>1, <3>2, DriverSteps
  <2>3. trace' = trace /\ Analysed'
    BY <2>2, Settled DEF traceVars, FileOK
  <2>4. QED
    BY <2>1, <2>2, <2>3 DEF FileOK
<1>4. QED
  BY <1>1, <1>2, <1>3 DEF Next, Done

IsTally(t) ==
    t = [pos |-> t.pos, total_lookups |-> t.total_lookups, all_unique_ids |-> t.all_unique_ids,
         all_unique_blocks |-> t.all_unique_blocks, previous_blocks |-> t.previous_blocks,
         unique_ids |-> t.unique_ids, unique_blocks |-> t.unique_blocks, reuse_ratios |-> t.reuse_ratios,
         posix_reads |-> t.posix_reads]

\* A batch of a driver's loop, counted in its locals.
LEMMA BatchTalliedIs ==
    ASSUME NEW t, IsTally(t), NEW ids, NEW blocks
    PROVE  LET q == BatchTallied(t, ids, blocks) IN
           /\ IsTally(q) /\ q.pos = t.pos + 1 /\ CountsMore(q, t, ids, blocks)
           /\ q.all_unique_ids = t.all_unique_ids \cup ToSet(ids)
           /\ q.all_unique_blocks = t.all_unique_blocks \cup blocks /\ q.posix_reads = t.posix_reads
<1> DEFINE p == t.pos + 1
           l == t.total_lookups + Len(ids)
           ui == t.all_unique_ids \cup ToSet(ids)
           ub == t.all_unique_blocks \cup blocks
           si == Append(t.unique_ids, Cardinality(ToSet(ids)))
           sb == Append(t.unique_blocks, Cardinality(blocks))
           rr == IF t.previous_blocks = {} THEN t.reuse_ratios
                 ELSE Append(t.reuse_ratios, Ratio(Cardinality(blocks \cap t.previous_blocks), Cardinality(blocks)))
           q == BatchTallied(t, ids, blocks)
           c == [t EXCEPT !.pos = p, !.total_lookups = l, !.all_unique_ids = ui, !.all_unique_blocks = ub,
                          !.unique_ids = si, !.unique_blocks = sb, !.reuse_ratios = rr]
<1>1. q = [c EXCEPT !.previous_blocks = blocks]
  BY DEF BatchTallied, Counted
<1> HIDE DEF p, l, ui, ub, si, sb, rr, q
<1>2. q = [pos |-> p, total_lookups |-> l, all_unique_ids |-> ui, all_unique_blocks |-> ub, previous_blocks |-> blocks,
           unique_ids |-> si, unique_blocks |-> sb, reuse_ratios |-> rr, posix_reads |-> t.posix_reads]
  BY <1>1 DEF IsTally
<1>3. /\ q.pos = p /\ q.total_lookups = l /\ q.all_unique_ids = ui /\ q.all_unique_blocks = ub
      /\ q.previous_blocks = blocks /\ q.unique_ids = si /\ q.unique_blocks = sb /\ q.reuse_ratios = rr
      /\ q.posix_reads = t.posix_reads
  BY <1>2
<1>4. IsTally(q)
  BY <1>2, <1>3 DEF IsTally
<1>5. CountsMore(q, t, ids, blocks)
  BY <1>3 DEF CountsMore, l, si, sb, rr
<1>6. QED
  BY <1>3, <1>4, <1>5 DEF p, ui, ub, q

\* The locals of a driver's loop are those of the batches so far.
LoopOK ==
    step # "exit" =>
        /\ IsTally(tally) /\ tally.pos \in Nat /\ tally.pos <= num_batches
        /\ TallyIs(tally, tally.pos)
        /\ tally.all_unique_ids = ToSet(ReadUpTo(tally.pos)) /\ tally.all_unique_blocks = Used(tally.pos)

\* No loop runs at first.
LEMMA LoopOKInit == Init => LoopOK
BY DEF Init, LoopOK

\* A loop starts with no counts.
LEMMA LoopStarts ==
    ASSUME TraceOK, Analysed, NEW t, t = NoTally
    PROVE  /\ IsTally(t) /\ t.pos = 0 /\ t.posix_reads = 0 /\ TallyIs(t, 0) /\ num_batches \in Nat
           /\ t.all_unique_ids = ToSet(ReadUpTo(0)) /\ t.all_unique_blocks = Used(0)
<1>1. Readable(trace)
  BY DEF TraceOK, Analysed, Proper
<1>2. num_batches \in Nat
  BY <1>1, NumBatches
<1>3. IsTally(t) /\ t.pos = 0 /\ t.all_unique_ids = {} /\ t.all_unique_blocks = {} /\ t.posix_reads = 0
  BY DEF NoTally, IsTally
<1>4. TallyIs(t, 0)
  BY <1>1, TallyNone DEF NoTally
<1>5. ToSet(ReadUpTo(0)) = {}
  BY <1>1, ReadNone DEF ToSet
<1>6. QED
  BY <1>2, <1>3, <1>4, <1>5, UsedNone

\* One more batch.
LEMMA LoopGoesOn ==
    ASSUME TraceOK, Analysed, LoopOK, step # "exit", tally.pos < num_batches, NEW q,
           q = BatchTallied(tally, Ids, ToSet(Blocks))
    PROVE  /\ IsTally(q) /\ q.pos = tally.pos + 1 /\ q.pos \in Nat /\ q.pos <= num_batches /\ TallyIs(q, q.pos)
           /\ q.all_unique_ids = ToSet(ReadUpTo(q.pos)) /\ q.all_unique_blocks = Used(q.pos)
           /\ q.posix_reads = tally.posix_reads
           /\ Used(q.pos) = Used(tally.pos) \cup ToSet(Blocks)
<1>1. Readable(trace)
  BY DEF TraceOK, Analysed, Proper
<1>2. num_batches \in Nat
  BY <1>1, NumBatches
<1>3. /\ IsTally(tally) /\ tally.pos \in Nat /\ TallyIs(tally, tally.pos)
      /\ tally.all_unique_ids = ToSet(ReadUpTo(tally.pos)) /\ tally.all_unique_blocks = Used(tally.pos)
  BY DEF LoopOK
<1> DEFINE n == tally.pos
           ids == get_batch_ids(n)
           B == BlocksOf(n)
<1>4. q = BatchTallied(tally, ids, B) /\ ToSet(Blocks) = B
  BY DEF Ids, Blocks, BlocksOf
<1>5. /\ IsTally(q) /\ q.pos = n + 1 /\ CountsMore(q, tally, ids, B)
      /\ q.all_unique_ids = tally.all_unique_ids \cup ToSet(ids)
      /\ q.all_unique_blocks = tally.all_unique_blocks \cup B /\ q.posix_reads = tally.posix_reads
  <2> HIDE DEF ids, B
  <2>1. QED
    BY <1>3, <1>4, BatchTalliedIs
<1>6. n \in Nat /\ n < num_batches
  BY <1>3
<1>7. TallyIs(q, n + 1)
  BY <1>1, <1>3, <1>5, <1>6, TallyMore
<1>8. ToSet(ReadUpTo(n + 1)) = ToSet(ReadUpTo(n)) \cup ToSet(ids) /\ Used(n + 1) = Used(n) \cup B
  BY <1>1, <1>6, ReadMore, UsedMore
<1> HIDE DEF n, ids, B
<1>9. n + 1 \in Nat /\ n + 1 <= num_batches
  BY <1>2, <1>6
<1>10. QED
  BY <1>3, <1>4, <1>5, <1>7, <1>8, <1>9 DEF n

\* The loop's invariant in the next state, of a trace that stays.
LEMMA LoopNext ==
    ASSUME trace' = trace, IsTally(tally'), tally'.pos \in Nat, tally'.pos <= num_batches, TallyIs(tally', tally'.pos),
           tally'.all_unique_ids = ToSet(ReadUpTo(tally'.pos)), tally'.all_unique_blocks = Used(tally'.pos)
    PROVE  LoopOK'
<1>1. num_batches' = num_batches
  BY SameTrace
<1>2. ReadUpTo(tally.pos)' = ReadUpTo(tally'.pos)
  BY DEF ReadUpTo, Cut, IsSampled, Rows
<1>3. Used(tally.pos)' = Used(tally'.pos)
  BY DEF Used, BlocksOf, get_batch_ids, BatchStart, BatchEnd, IsSampled, Rows
<1>4. TallyIs(tally, tally.pos)' = TallyIs(tally', tally'.pos)
  BY DEF TallyIs, UniqueIds, UniqueBlocks, Reuse, ReuseOf, ReadUpTo, Cut, IsSampled, Rows,
        get_batch_ids, BatchStart, BatchEnd, BlocksOf
<1>5. QED
  BY <1>1, <1>2, <1>3, <1>4 DEF LoopOK

\* What a driver at work can rely on.
LEMMA AtWork ==
    ASSUME TraceOK, Control, FileOK, step # "exit"
    PROVE  Analysed /\ file \in Nat /\ Readable(trace) /\ num_batches \in Nat /\ trace.total \in Nat /\ system # None
<1>1. system # None
  BY DEF Control
<1>2. file # NoFile /\ Analysed /\ file \in Nat
  BY <1>1 DEF FileOK
<1>3. Readable(trace)
  BY <1>2 DEF TraceOK, Analysed, Proper
<1>4. QED
  BY <1>1, <1>2, <1>3, NumBatches DEF Readable

\* A step that leaves the locals alone keeps the loop.
LEMMA LoopKept ==
    ASSUME TraceOK, Control, FileOK, LoopOK, [Next]_<<traceVars, driverVars>>, step # "exit", tally' = tally
    PROVE  LoopOK'
<1>1. Analysed
  BY AtWork
<1>2. trace' = trace
  BY <1>1, Settled DEF traceVars
<1>3. QED
  BY <1>2, LoopNext DEF LoopOK

\* Starting a driver starts its loop.
LEMMA LoopBegins ==
    ASSUME TraceOK, NEW s, Start(s), [Next]_<<traceVars, driverVars>>
    PROVE  LoopOK'
<1>1. Analysed /\ tally' = NoTally
  BY DEF Start, Replayed
<1>2. trace' = trace
  BY <1>1, Settled DEF traceVars
<1> DEFINE t == NoTally
<1>3. /\ IsTally(t) /\ t.pos = 0 /\ TallyIs(t, 0) /\ num_batches \in Nat
      /\ t.all_unique_ids = ToSet(ReadUpTo(0)) /\ t.all_unique_blocks = Used(0)
  BY <1>1, LoopStarts
<1> HIDE DEF t
<1>4. tally' = t
  BY <1>1 DEF t
<1>5. t.pos \in Nat /\ t.pos <= num_batches
  BY <1>3
<1>6. QED
  BY <1>2, <1>3, <1>4, <1>5, LoopNext

\* The next batch is counted in the locals.
LEMMA LoopBatch ==
    ASSUME TraceOK, Control, FileOK, LoopOK, [Next]_<<traceVars, driverVars>>, NEW s, AtBatch(s),
           tally' = BatchTallied(tally, Ids, ToSet(Blocks))
    PROVE  /\ LoopOK' /\ Analysed /\ trace' = trace /\ tally'.pos = tally.pos + 1 /\ tally'.posix_reads = tally.posix_reads
           /\ tally.pos \in Nat /\ tally.pos < num_batches /\ Used(tally'.pos) = Used(tally.pos) \cup ToSet(Blocks)
<1>1. step # "exit" /\ tally.pos < num_batches
  BY DEF AtBatch
<1>2. Analysed
  BY <1>1, AtWork
<1>3. trace' = trace
  BY <1>2, Settled DEF traceVars
<1> DEFINE q == BatchTallied(tally, Ids, ToSet(Blocks))
<1>4. /\ IsTally(q) /\ q.pos = tally.pos + 1 /\ q.pos \in Nat /\ q.pos <= num_batches /\ TallyIs(q, q.pos)
      /\ q.all_unique_ids = ToSet(ReadUpTo(q.pos)) /\ q.all_unique_blocks = Used(q.pos)
      /\ q.posix_reads = tally.posix_reads
      /\ Used(q.pos) = Used(tally.pos) \cup ToSet(Blocks)
  BY <1>1, <1>2, LoopGoesOn
<1>5. tally' = q
  OBVIOUS
<1> HIDE DEF q
<1>6. LoopOK'
  BY <1>3, <1>4, <1>5, LoopNext
<1>7. tally.pos \in Nat
  BY <1>1 DEF LoopOK
<1>8. QED
  BY <1>1, <1>2, <1>3, <1>4, <1>5, <1>6, <1>7

\* One more read leaves the other counts alone.
LEMMA OneRead ==
    ASSUME NEW t, IsTally(t), NEW q, q = [t EXCEPT !.posix_reads = @ + 1]
    PROVE  /\ IsTally(q) /\ q.posix_reads = t.posix_reads + 1 /\ q.pos = t.pos
           /\ q.all_unique_ids = t.all_unique_ids /\ q.all_unique_blocks = t.all_unique_blocks
           /\ q.total_lookups = t.total_lookups /\ q.unique_ids = t.unique_ids /\ q.unique_blocks = t.unique_blocks
           /\ q.reuse_ratios = t.reuse_ratios /\ q.previous_blocks = t.previous_blocks
<1> DEFINE p == t.posix_reads + 1
<1>1. q = [t EXCEPT !.posix_reads = p]
  OBVIOUS
<1> HIDE DEF p
<1>2. q = [pos |-> t.pos, total_lookups |-> t.total_lookups, all_unique_ids |-> t.all_unique_ids,
         all_unique_blocks |-> t.all_unique_blocks, previous_blocks |-> t.previous_blocks,
         unique_ids |-> t.unique_ids, unique_blocks |-> t.unique_blocks, reuse_ratios |-> t.reuse_ratios,
         posix_reads |-> p]
  BY <1>1 DEF IsTally
<1>3. QED
  BY <1>2 DEF IsTally, p

\* A block read by the staging driver leaves the loop where it is.
LEMMA LoopBlock ==
    ASSUME TraceOK, Control, FileOK, LoopOK, [Next]_<<traceVars, driverVars>>, StageBlock
    PROVE  /\ LoopOK' /\ trace' = trace /\ tally'.posix_reads = tally.posix_reads + 1 /\ tally'.pos = tally.pos
<1>1. step # "exit" /\ tally' = [tally EXCEPT !.posix_reads = @ + 1]
  BY DEF StageBlock, AtRead
<1>2. Analysed
  BY <1>1, AtWork
<1>3. trace' = trace
  BY <1>2, Settled DEF traceVars
<1>4. /\ IsTally(tally) /\ tally.pos \in Nat /\ tally.pos <= num_batches /\ TallyIs(tally, tally.pos)
      /\ tally.all_unique_ids = ToSet(ReadUpTo(tally.pos)) /\ tally.all_unique_blocks = Used(tally.pos)
  BY <1>1 DEF LoopOK
<1> DEFINE q == [tally EXCEPT !.posix_reads = @ + 1]
<1>5. tally' = q
  BY <1>1
<1>6. /\ IsTally(q) /\ q.posix_reads = tally.posix_reads + 1 /\ q.pos = tally.pos
      /\ q.all_unique_ids = tally.all_unique_ids /\ q.all_unique_blocks = tally.all_unique_blocks
      /\ q.total_lookups = tally.total_lookups /\ q.unique_ids = tally.unique_ids /\ q.unique_blocks = tally.unique_blocks
      /\ q.reuse_ratios = tally.reuse_ratios /\ q.previous_blocks = tally.previous_blocks
  BY <1>4, OneRead
<1> HIDE DEF q
<1>7. TallyIs(q, q.pos)
  BY <1>4, <1>6 DEF TallyIs
<1>8. LoopOK'
  BY <1>3, <1>4, <1>5, <1>6, <1>7, LoopNext
<1>9. QED
  BY <1>3, <1>5, <1>6, <1>8

\* Every step keeps the locals of the loop.
LEMMA LoopOKStep ==
    TraceOK /\ Control /\ FileOK /\ LoopOK /\ [Next]_<<traceVars, driverVars>> => LoopOK'
<1> SUFFICES ASSUME TraceOK, Control, FileOK, LoopOK, [Next]_<<traceVars, driverVars>> PROVE LoopOK'
  OBVIOUS
<1>1. CASE step' = "exit"
  BY <1>1 DEF LoopOK
<1>2. CASE step # "exit" /\ tally' = tally
  BY <1>2, LoopKept
<1>3. CASE UNCHANGED driverVars \/ FileStep
  <2>1. UNCHANGED <<step, tally>>
    BY <1>3 DEF driverVars, FileStep
  <2>2. QED
    BY <2>1, <1>1, <1>2
<1>4. CASE OpenFile \/ OpenBag \/ RunTorch
  BY <1>4, LoopBegins DEF OpenFile, OpenBag, RunTorch
<1>5. CASE StageBatch \/ forward
  BY <1>5, LoopBatch DEF StageBatch, forward
<1>6. CASE StageBlock
  BY <1>6, LoopBlock
<1>7. CASE StageFails \/ ReportStaging \/ ReportMemtier \/ Exit
  BY <1>1, <1>7 DEF StageFails, Raise, ReportStaging, ReportMemtier, Report, Exit
<1>8. CASE Serve \/ LookupFails \/ lookup_blocks
  BY <1>2, <1>8 DEF Serve, LookupFails, lookup_blocks, InLookup
<1>9. QED
  BY <1>3, <1>4, <1>5, <1>6, <1>7, <1>8 DEF Next, Done, DriverStep

-----------------------------------------------------------------------------
(* The blocks that are served.                                             *)

\* A lookup that has failed, before forward raises.
Broken == system = "memtier" /\ step = "lookup" /\ at = "idle" /\ rc # 0

Placing == IF at = "place" THEN 1 ELSE 0
Loading == IF at = "loading" THEN 1 ELSE 0

\* The library while memtier_embedding is at work: what was begun is in the file but for
\* the block being loaded, and hits, reads and copies are those of the blocks served.
LibraryOK ==
    /\ at \in {"idle", "next", "loading", "place"} /\ (step = "batch" => at = "idle") /\ (at # "idle" => rc # 0)
    /\ metrics \in [Service!Metric -> Nat] /\ begun \subseteq Nat /\ IsFiniteSet(begun)
    /\ at \in {"loading", "place"} => todo # <<>> /\ Head(todo) \in begun
    /\ ~Broken =>
           /\ at = "idle" => todo = <<>>
           /\ at = "place" => Whole(Head(todo), file)
           /\ \A x \in begun : Whole(x, file) \/ (at = "loading" /\ x = Head(todo))
           /\ \A x \in tally.all_unique_blocks : x \in begun \/ x \in ToSet(todo)
           /\ metrics["hbm_hits"] + metrics["dram_hits"] + metrics["posix_reads"] + Len(todo)
                  = Total(tally.unique_blocks) + Placing
           /\ metrics["copied"] + Placing = metrics["dram_hits"] + metrics["posix_reads"]
           /\ Cardinality(begun) <= metrics["posix_reads"] + Loading

\* The blocks to do are among those met, and those met and not to do were read whole.
BlocksOK ==
    /\ tally.unique_blocks \in Seq(Nat) /\ tally.all_unique_blocks \subseteq Nat /\ tally.posix_reads \in Nat
    /\ todo \in Seq(Nat) /\ ToSet(todo) \subseteq tally.all_unique_blocks /\ (step = "batch" => todo = <<>>)
    /\ ~Broken => \A x \in tally.all_unique_blocks : x \in ToSet(todo) \/ Whole(x, file)

WorkOK ==
    /\ system = None => Service!LookupInit
    /\ step # "exit" =>
           /\ BlocksOK
           /\ system = "cpu_staging" => tally.posix_reads + Len(todo) = Total(tally.unique_blocks)
           /\ system = "memtier" => LibraryOK

\* No block is to do at first.
LEMMA WorkOKInit == Init => WorkOK
BY DEF Init, WorkOK

\* The first of the blocks to do and the rest.
LEMMA TodoIs ==
    ASSUME NEW t \in Seq(Nat), t # <<>>
    PROVE  /\ Head(t) \in ToSet(t) /\ Head(t) \in Nat /\ Tail(t) \in Seq(Nat)
           /\ Len(t) \in Nat /\ Len(Tail(t)) \in Nat /\ Len(t) = Len(Tail(t)) + 1
           /\ \A x : x \in ToSet(t) <=> x = Head(t) \/ x \in ToSet(Tail(t))
<1> DEFINE u == Tail(t)
           n == Len(t)
<1>1. Head(t) \in Nat /\ u \in Seq(Nat) /\ n \in Nat /\ n >= 1
  BY HeadTailProperties, EmptySeq
<1>2. Len(u) = n - 1 /\ \A i \in 1..(n - 1) : u[i] = t[i + 1]
  BY <1>1
<1>3. Head(t) = t[1] /\ 1 \in DOMAIN t /\ DOMAIN t = 1..n
  BY <1>1
<1>4. Head(t) \in ToSet(t)
  BY <1>3 DEF ToSet
<1> HIDE DEF u, n
<1>5. DOMAIN u = 1..(n - 1)
  BY <1>1, <1>2
<1>6. ASSUME NEW x \in ToSet(u) PROVE x \in ToSet(t)
  <2>1. PICK i \in 1..(n - 1) : x = u[i]
    BY <1>5 DEF ToSet
  <2>2. x = t[i + 1] /\ i + 1 \in 1..n
    BY <2>1, <1>1, <1>2
  <2>3. QED
    BY <2>2, <1>3 DEF ToSet
<1>7. ASSUME NEW x \in ToSet(t), x # Head(t) PROVE x \in ToSet(u)
  <2>1. PICK i \in 1..n : x = t[i]
    BY <1>3 DEF ToSet
  <2>2. i # 1
    BY <2>1, <1>3, <1>7
  <2>3. i - 1 \in 1..(n - 1) /\ (i - 1) + 1 = i
    BY <2>1, <2>2, <1>1
  <2>4. x = u[i - 1]
    BY <2>1, <2>3, <1>2
  <2>5. QED
    BY <2>3, <2>4, <1>5 DEF ToSet
<1>8. QED
  BY <1>1, <1>2, <1>4, <1>6, <1>7 DEF u, n

\* Totals of naturals.
LEMMA NumbersTotal ==
    ASSUME NEW s \in Seq(Nat)
    PROVE  Total(s) \in Int /\ \A x \in Nat : Total(Append(s, x)) = Total(s) + x /\ Append(s, x) \in Seq(Nat)
<1>1. s \in Seq(Int)
  <2>1. Nat \subseteq Int
    OBVIOUS
  <2>2. QED
    BY <2>1, SeqMonotonic, Zenon
<1>2. Total(s) \in Int
  BY <1>1, TotalInt
<1>3. ASSUME NEW x \in Nat PROVE Total(Append(s, x)) = Total(s) + x /\ Append(s, x) \in Seq(Nat)
  <2>1. x \in Int
    OBVIOUS
  <2>2. Append(s, x) \in Seq(Nat)
    BY AppendProperties
  <2>3. QED
    BY <1>1, <2>1, <2>2, TotalAppend
<1>4. QED
  BY <1>2, <1>3

\* A block whole in a table is whole in a longer one.
LEMMA WholeStays ==
    ASSUME NEW b, NEW r \in Int, NEW s \in Int, r <= s, b \in Nat, Whole(b, r)
    PROVE  Whole(b, s)
<1> DEFINE p == (b + 1) * RowsPerBlock
<1>1. p \in Int /\ p <= r
  BY TraceAssumption DEF Whole
<1> HIDE DEF p
<1>2. p <= s
  BY <1>1
<1>3. QED
  BY <1>2 DEF p, Whole

\* A table that grows loses no block.
LEMMA WorkKept ==
    ASSUME WorkOK, UNCHANGED <<system, step, tally, at, todo, begun, metrics, rc>>,
           step # "exit" => file \in Nat /\ file' \in Nat /\ file <= file'
    PROVE  WorkOK'
<1>1. system' = None => Service!LookupInit'
  BY DEF WorkOK, Service!LookupInit, Service!Metric
<1>2. Broken' <=> Broken
  BY DEF Broken
<1>3. ASSUME step # "exit" PROVE BlocksOK'
  <2>1. BlocksOK /\ file \in Int /\ file' \in Int /\ file <= file'
    BY <1>3 DEF WorkOK
  <2>2. \A x \in Nat : Whole(x, file) => Whole(x, file')
    BY <2>1, WholeStays
  <2>3. QED
    BY <2>1, <2>2, <1>2 DEF BlocksOK
<1>4. ASSUME step # "exit", system = "memtier" PROVE LibraryOK'
  <2>1. LibraryOK /\ file \in Int /\ file' \in Int /\ file <= file' /\ todo \in Seq(Nat)
    BY <1>4 DEF WorkOK, BlocksOK
  <2>2. \A x \in Nat : Whole(x, file) => Whole(x, file')
    BY <2>1, WholeStays
  <2>3. at = "place" => Head(todo) \in Nat
    BY <2>1, TodoIs DEF LibraryOK
  <2>4. Placing' = Placing /\ Loading' = Loading
    BY DEF Placing, Loading
  <2>5. QED
    BY <2>1, <2>2, <2>3, <2>4, <1>2 DEF LibraryOK
<1>5. QED
  BY <1>1, <1>3, <1>4 DEF WorkOK

\* A driver starts on an idle library.
LEMMA WorkBegins ==
    ASSUME Control, WorkOK, NEW s \in System, Start(s), UNCHANGED lookupVars, step' \in {"batch", "exit"}
    PROVE  WorkOK'
<1>1. system = None /\ system' = s /\ tally' = NoTally
  BY Started DEF Start
<1>2. at = "idle" /\ todo = <<>> /\ begun = {} /\ rc = -1 /\ metrics = [m \in Service!Metric |-> 0]
  BY <1>1 DEF WorkOK, Service!LookupInit
<1>3. at' = "idle" /\ todo' = <<>> /\ begun' = {} /\ rc' = -1 /\ metrics' = [m \in Service!Metric |-> 0]
  BY <1>2 DEF lookupVars
<1>4. tally'.unique_blocks = <<>> /\ tally'.all_unique_blocks = {} /\ tally'.posix_reads = 0
  BY <1>1 DEF NoTally
<1>5. Total(tally'.unique_blocks) = 0 /\ Len(todo') = 0 /\ ToSet(todo') = {}
  BY <1>3, <1>4, TotalOfNone DEF ToSet
<1>6. BlocksOK'
  BY <1>3, <1>4, <1>5 DEF BlocksOK
<1>7. Placing' = 0 /\ Loading' = 0
  BY <1>3 DEF Placing, Loading
<1>8. Cardinality(begun') = 0 /\ IsFiniteSet(begun')
  BY <1>3, FS_EmptySet
<1>9. ASSUME step' # "exit" PROVE LibraryOK'
  <2>1. step' = "batch"
    BY <1>9
  <2>2. QED
    BY <1>3, <1>4, <1>5, <1>7, <1>8, <2>1 DEF LibraryOK, Service!Metric, Broken
<1>10. system' # None
  BY <1>1 DEF System, None
<1>11. QED
  BY <1>4, <1>5, <1>6, <1>9, <1>10 DEF WorkOK

\* What a batch adds.
LEMMA BatchAdds ==
    ASSUME TraceOK, Control, FileOK, LoopOK, [Next]_<<traceVars, driverVars>>, NEW s, AtBatch(s),
           tally' = BatchTallied(tally, Ids, ToSet(Blocks))
    PROVE  /\ Blocks \in Seq(Nat) /\ ToSet(Blocks) \subseteq Nat /\ Len(Blocks) \in Nat
           /\ tally'.unique_blocks = Append(tally.unique_blocks, Len(Blocks))
           /\ tally'.all_unique_blocks = tally.all_unique_blocks \cup ToSet(Blocks)
           /\ tally'.posix_reads = tally.posix_reads
<1>1. step # "exit" /\ tally.pos < num_batches
  BY DEF AtBatch
<1>2. Readable(trace) /\ tally.pos \in Nat /\ IsTally(tally)
  BY <1>1, AtWork DEF LoopOK
<1>3. Ids \in Seq(Nat)
  BY <1>1, <1>2, BatchIs DEF Ids
<1>4. Blocks \in Seq(Nat) /\ ToSet(Blocks) \subseteq Nat /\ Len(Blocks) = Cardinality(ToSet(Blocks))
  BY <1>3, BlocksAre DEF Blocks
<1>5. CountsMore(tally', tally, Ids, ToSet(Blocks))
      /\ tally'.all_unique_blocks = tally.all_unique_blocks \cup ToSet(Blocks) /\ tally'.posix_reads = tally.posix_reads
  <2> DEFINE q == BatchTallied(tally, Ids, ToSet(Blocks))
  <2>1. CountsMore(q, tally, Ids, ToSet(Blocks))
        /\ q.all_unique_blocks = tally.all_unique_blocks \cup ToSet(Blocks) /\ q.posix_reads = tally.posix_reads
    BY <1>2, BatchTalliedIs
  <2>2. tally' = q
    OBVIOUS
  <2> HIDE DEF q
  <2>3. QED
    BY <2>1, <2>2
<1>6. QED
  BY <1>4, <1>5 DEF CountsMore

\* The staging driver takes up the blocks of a batch.
LEMMA WorkStageBatch ==
    ASSUME TraceOK, Control, FileOK, LoopOK, WorkOK, [Next]_<<traceVars, driverVars>>, StageBatch
    PROVE  WorkOK'
<1>1. /\ AtBatch("cpu_staging") /\ tally' = BatchTallied(tally, Ids, ToSet(Blocks)) /\ todo' = Blocks
      /\ step' = "lookup" /\ UNCHANGED <<file, system, at, begun, metrics, rc>>
  BY DEF StageBatch, fileVars
<1>2. system = "cpu_staging" /\ step = "batch"
  BY <1>1 DEF AtBatch
<1>3. /\ Blocks \in Seq(Nat) /\ ToSet(Blocks) \subseteq Nat /\ Len(Blocks) \in Nat
      /\ tally'.unique_blocks = Append(tally.unique_blocks, Len(Blocks))
      /\ tally'.all_unique_blocks = tally.all_unique_blocks \cup ToSet(Blocks)
      /\ tally'.posix_reads = tally.posix_reads
  BY <1>1, BatchAdds
<1>4. BlocksOK /\ tally.posix_reads + Len(todo) = Total(tally.unique_blocks)
  BY <1>2 DEF WorkOK
<1>5. ~Broken /\ ~Broken' /\ todo = <<>> /\ tally.unique_blocks \in Seq(Nat)
  BY <1>1, <1>2, <1>4 DEF Broken, BlocksOK
<1>6. /\ Total(tally'.unique_blocks) = Total(tally.unique_blocks) + Len(Blocks)
      /\ tally'.unique_blocks \in Seq(Nat) /\ Total(tally.unique_blocks) \in Int
  BY <1>3, <1>5, NumbersTotal
<1>7. ToSet(todo) = {} /\ Len(todo) = 0 /\ tally.posix_reads \in Nat
  BY <1>4, <1>5 DEF ToSet, BlocksOK
<1>8. BlocksOK'
  BY <1>1, <1>3, <1>4, <1>5, <1>6, <1>7 DEF BlocksOK
<1>9. tally'.posix_reads + Len(todo') = Total(tally'.unique_blocks)
  BY <1>1, <1>3, <1>4, <1>6, <1>7
<1>10. QED
  BY <1>1, <1>2, <1>8, <1>9 DEF WorkOK, None

\* The staging driver reads a block, or fails on a short one.
LEMMA WorkStageBlock ==
    ASSUME TraceOK, Control, FileOK, LoopOK, WorkOK, [Next]_<<traceVars, driverVars>>, StageBlock
    PROVE  WorkOK'
<1>1. /\ system = "cpu_staging" /\ step = "lookup" /\ todo # <<>> /\ Whole(Head(todo), file) /\ todo' = Tail(todo)
      /\ step' = (IF Len(todo) = 1 THEN "batch" ELSE "lookup") /\ UNCHANGED <<file, system, at, begun, metrics, rc>>
      /\ tally' = [tally EXCEPT !.posix_reads = @ + 1]
  BY DEF StageBlock, AtRead, fileVars
<1>2. BlocksOK /\ tally.posix_reads + Len(todo) = Total(tally.unique_blocks) /\ IsTally(tally)
  BY <1>1 DEF WorkOK, LoopOK
<1>3. tally'.posix_reads = tally.posix_reads + 1 /\ tally'.unique_blocks = tally.unique_blocks
      /\ tally'.all_unique_blocks = tally.all_unique_blocks
  BY <1>1, <1>2, OneRead
<1>4. /\ Head(todo) \in ToSet(todo) /\ Tail(todo) \in Seq(Nat) /\ Len(todo) \in Nat /\ Len(Tail(todo)) \in Nat
      /\ Len(todo) = Len(Tail(todo)) + 1
      /\ \A x : x \in ToSet(todo) <=> x = Head(todo) \/ x \in ToSet(Tail(todo))
  BY <1>1, <1>2, TodoIs DEF BlocksOK
<1>5. ~Broken /\ ~Broken'
  BY <1>1 DEF Broken
<1>6. step' = "batch" => todo' = <<>>
  <2> SUFFICES ASSUME step' = "batch" PROVE todo' = <<>>
    OBVIOUS
  <2>1. Len(todo) = 1
    BY <1>1
  <2>2. Len(Tail(todo)) = 0
    BY <2>1, <1>4
  <2>3. QED
    BY <2>2, <1>1, <1>4, EmptySeq
<1>7. BlocksOK'
  BY <1>1, <1>2, <1>3, <1>4, <1>5, <1>6 DEF BlocksOK
<1>8. tally'.posix_reads + Len(todo') = Total(tally'.unique_blocks)
  <2>1. tally.posix_reads \in Nat
    BY <1>2 DEF BlocksOK
  <2>2. QED
    BY <1>1, <1>2, <1>3, <1>4, <2>1
<1>9. QED
  BY <1>1, <1>7, <1>8 DEF WorkOK, None

\* memtier_embedding hands the blocks of a batch to the library.
LEMMA WorkForward ==
    ASSUME TraceOK, Control, FileOK, LoopOK, WorkOK, [Next]_<<traceVars, driverVars>>, forward
    PROVE  WorkOK'
<1>1. /\ AtBatch("memtier") /\ tally' = BatchTallied(tally, Ids, ToSet(Blocks)) /\ step' = "lookup" /\ rc' = -1
      /\ UNCHANGED <<file, system, begun, metrics>> /\ at = "idle"
      /\ \/ at' = "next" /\ todo' = Blocks
         \/ at' = "idle" /\ todo' = todo
  BY DEF forward, Service!Call, fileVars
<1>2. system = "memtier" /\ step = "batch" /\ system' = "memtier"
  BY <1>1 DEF AtBatch
<1>3. /\ Blocks \in Seq(Nat) /\ ToSet(Blocks) \subseteq Nat /\ Len(Blocks) \in Nat
      /\ tally'.unique_blocks = Append(tally.unique_blocks, Len(Blocks))
      /\ tally'.all_unique_blocks = tally.all_unique_blocks \cup ToSet(Blocks)
      /\ tally'.posix_reads = tally.posix_reads
  BY <1>1, BatchAdds
<1>4. BlocksOK /\ LibraryOK
  BY <1>2 DEF WorkOK
<1>5. ~Broken /\ todo = <<>> /\ tally.unique_blocks \in Seq(Nat)
  BY <1>1, <1>2, <1>4 DEF Broken, BlocksOK
<1>6. /\ Total(tally'.unique_blocks) = Total(tally.unique_blocks) + Len(Blocks)
      /\ tally'.unique_blocks \in Seq(Nat) /\ Total(tally.unique_blocks) \in Int
  BY <1>3, <1>5, NumbersTotal
<1>7. ToSet(todo) = {} /\ Len(todo) = 0
  BY <1>5 DEF ToSet
<1>8. CASE at' = "next" /\ todo' = Blocks
  <2>1. ~Broken'
    BY <1>8 DEF Broken
  <2>2. BlocksOK'
    BY <1>1, <1>3, <1>4, <1>5, <1>6, <1>7, <1>8, <2>1 DEF BlocksOK
  <2>3. Placing = 0 /\ Placing' = 0 /\ Loading = 0 /\ Loading' = 0
    BY <1>1, <1>8 DEF Placing, Loading
  <2> DEFINE m == metrics
  <2>4. /\ m["hbm_hits"] \in Nat /\ m["dram_hits"] \in Nat /\ m["posix_reads"] \in Nat
        /\ m["hbm_hits"] + m["dram_hits"] + m["posix_reads"] + 0 = Total(tally.unique_blocks) + 0
    BY <1>4, <1>5, <1>7, <2>3 DEF LibraryOK, Service!Metric
  <2>5. m["hbm_hits"] + m["dram_hits"] + m["posix_reads"] + Len(Blocks) = Total(tally'.unique_blocks) + 0
    BY <1>3, <1>6, <2>4
  <2>6. LibraryOK'
    BY <1>1, <1>3, <1>4, <1>5, <1>7, <1>8, <2>1, <2>3, <2>5 DEF LibraryOK
  <2>7. QED
    BY <1>1, <1>2, <2>2, <2>6 DEF WorkOK, None
<1>9. CASE at' = "idle" /\ todo' = todo
  <2>1. Broken'
    BY <1>1, <1>2, <1>9 DEF Broken
  <2>2. BlocksOK'
    BY <1>1, <1>3, <1>4, <1>5, <1>6, <1>7, <1>9, <2>1 DEF BlocksOK
  <2>3. LibraryOK'
    BY <1>1, <1>4, <1>9, <2>1 DEF LibraryOK
  <2>4. QED
    BY <1>1, <1>2, <2>2, <2>3 DEF WorkOK, None
<1>10. QED
  BY <1>1, <1>8, <1>9

\* One counter of the library goes up and the others stay.
LEMMA MetricUp ==
    ASSUME NEW f \in [Service!Metric -> Nat], NEW m \in Service!Metric, NEW g, g = [f EXCEPT ![m] = @ + 1]
    PROVE  /\ g \in [Service!Metric -> Nat] /\ g[m] = f[m] + 1
           /\ \A k \in Service!Metric : k # m => g[k] = f[k]
OBVIOUS

\* The library serves a block from its caches or from the file.
LEMMA WorkServe ==
    ASSUME WorkOK, Serve
    PROVE  WorkOK'
<1> DEFINE m == metrics
           T == Total(tally.unique_blocks)
           served == m["hbm_hits"] + m["dram_hits"] + m["posix_reads"]
<1>1. system = "memtier" /\ step = "lookup" /\ UNCHANGED <<file, system, step, tally>>
  BY DEF Serve, InLookup, fileVars
<1>2. BlocksOK /\ LibraryOK
  BY <1>1 DEF WorkOK
<1>3. at # "idle"
  BY DEF Serve, Service!HbmHit, Service!DramHit, Service!Miss, Service!Place, Service!Return, Service!Read, Service!AtBlock
<1>4. ~Broken
  BY <1>3 DEF Broken
<1>5. /\ metrics \in [Service!Metric -> Nat] /\ begun \subseteq Nat /\ IsFiniteSet(begun) /\ rc # 0
      /\ at = "place" => Whole(Head(todo), file)
      /\ \A x \in begun : Whole(x, file) \/ (at = "loading" /\ x = Head(todo))
      /\ \A x \in tally.all_unique_blocks : x \in begun \/ x \in ToSet(todo)
      /\ served + Len(todo) = T + Placing
      /\ m["copied"] + Placing = m["dram_hits"] + m["posix_reads"]
      /\ Cardinality(begun) <= m["posix_reads"] + Loading
  BY <1>2, <1>3, <1>4 DEF LibraryOK
<1>6. /\ tally.unique_blocks \in Seq(Nat) /\ tally.all_unique_blocks \subseteq Nat /\ tally.posix_reads \in Nat
      /\ todo \in Seq(Nat) /\ ToSet(todo) \subseteq tally.all_unique_blocks
      /\ \A x \in tally.all_unique_blocks : x \in ToSet(todo) \/ Whole(x, file)
  BY <1>2, <1>4 DEF BlocksOK
<1>7. T \in Int /\ Len(todo) \in Nat
  BY <1>6, NumbersTotal
<1>8. /\ m["hbm_hits"] \in Nat /\ m["dram_hits"] \in Nat /\ m["posix_reads"] \in Nat /\ m["copied"] \in Nat
      /\ {"hbm_hits", "dram_hits", "dram_misses", "posix_reads", "copied"} = Service!Metric
  BY <1>5 DEF Service!Metric
<1>9. todo # <<>> =>
          /\ Head(todo) \in ToSet(todo) /\ Head(todo) \in Nat /\ Tail(todo) \in Seq(Nat)
          /\ Len(Tail(todo)) \in Nat /\ Len(todo) = Len(Tail(todo)) + 1
          /\ \A x : x \in ToSet(todo) <=> x = Head(todo) \/ x \in ToSet(Tail(todo))
  BY <1>6, TodoIs
<1>10. Cardinality(begun) \in Nat
  BY <1>5, FS_CardinalityType
<1>11. ASSUME BlocksOK', LibraryOK' PROVE WorkOK'
  BY <1>1, <1>11 DEF WorkOK, None
<1> HIDE DEF T
<1>12. CASE Service!HbmHit
  <2>1. /\ at = "next" /\ todo # <<>> /\ Head(todo) \in begun /\ metrics' = [metrics EXCEPT !["hbm_hits"] = @ + 1]
        /\ todo' = Tail(todo) /\ UNCHANGED <<at, begun, rc>>
    BY <1>12 DEF Service!HbmHit, Service!AtBlock, Service!Counted
  <2>2. /\ metrics' \in [Service!Metric -> Nat] /\ metrics'["hbm_hits"] = m["hbm_hits"] + 1
        /\ metrics'["dram_hits"] = m["dram_hits"] /\ metrics'["posix_reads"] = m["posix_reads"]
        /\ metrics'["copied"] = m["copied"]
    BY <2>1, <1>5, <1>8, MetricUp
  <2>3. ~Broken' /\ Placing = 0 /\ Placing' = 0 /\ Loading = 0 /\ Loading' = 0
    BY <2>1 DEF Broken, Placing, Loading
  <2>4. Whole(Head(todo), file)
    BY <2>1, <1>5
  <2>5. BlocksOK'
    BY <1>1, <1>6, <1>9, <2>1, <2>3, <2>4 DEF BlocksOK
  <2>6. metrics'["hbm_hits"] + metrics'["dram_hits"] + metrics'["posix_reads"] + Len(todo') = T + 0
    BY <1>5, <1>7, <1>8, <1>9, <2>1, <2>2, <2>3
  <2>7. \A x \in tally.all_unique_blocks : x \in begun \/ x \in ToSet(Tail(todo))
    BY <1>5, <1>9, <2>1
  <2>8. LibraryOK'
    BY <1>1, <1>5, <2>1, <2>2, <2>3, <2>6, <2>7 DEF LibraryOK, T
  <2>9. QED
    BY <2>5, <2>8, <1>11
<1>13. CASE Service!DramHit
  <2>1. /\ at = "next" /\ todo # <<>> /\ Head(todo) \in begun /\ metrics' = [metrics EXCEPT !["dram_hits"] = @ + 1]
        /\ at' = "place" /\ UNCHANGED <<todo, begun, rc>>
    BY <1>13 DEF Service!DramHit, Service!AtBlock, Service!Counted
  <2>2. /\ metrics' \in [Service!Metric -> Nat] /\ metrics'["dram_hits"] = m["dram_hits"] + 1
        /\ metrics'["hbm_hits"] = m["hbm_hits"] /\ metrics'["posix_reads"] = m["posix_reads"]
        /\ metrics'["copied"] = m["copied"]
    BY <2>1, <1>5, <1>8, MetricUp
  <2>3. ~Broken' /\ Placing = 0 /\ Placing' = 1 /\ Loading = 0 /\ Loading' = 0
    BY <2>1 DEF Broken, Placing, Loading
  <2>4. Whole(Head(todo), file)
    BY <2>1, <1>5
  <2>5. BlocksOK'
    BY <1>1, <1>6, <2>1, <2>3 DEF BlocksOK
  <2>6. metrics'["hbm_hits"] + metrics'["dram_hits"] + metrics'["posix_reads"] + Len(todo') = T + 1
    <3> DEFINE a == m["hbm_hits"]
               b == m["dram_hits"]
               c == m["posix_reads"]
               n == Len(todo)
    <3>1. a \in Nat /\ b \in Nat /\ c \in Nat /\ n \in Nat /\ T \in Int /\ a + b + c + n = T + 0
      BY <1>5, <1>7, <1>8, <2>3
    <3>2. metrics'["hbm_hits"] = a /\ metrics'["dram_hits"] = b + 1 /\ metrics'["posix_reads"] = c /\ Len(todo') = n
      BY <2>1, <2>2
    <3> HIDE DEF a, b, c, n
    <3>3. a + (b + 1) + c + n = T + 1
      BY <3>1
    <3>4. QED
      BY <3>2, <3>3
  <2>7. metrics'["copied"] + 1 = metrics'["dram_hits"] + metrics'["posix_reads"]
    BY <1>5, <1>8, <2>2, <2>3
  <2>8. LibraryOK'
    BY <1>1, <1>5, <2>1, <2>2, <2>3, <2>4, <2>6, <2>7 DEF LibraryOK, T
  <2>9. QED
    BY <2>5, <2>8, <1>11
<1>14. CASE Service!Miss
  <2>1. /\ at = "next" /\ todo # <<>> /\ metrics' = [metrics EXCEPT !["dram_misses"] = @ + 1]
        /\ begun' = begun \cup {Head(todo)} /\ at' = "loading" /\ UNCHANGED <<todo, rc>>
    BY <1>14 DEF Service!Miss, Service!AtBlock, Service!Counted
  <2>2. /\ metrics' \in [Service!Metric -> Nat] /\ metrics'["dram_hits"] = m["dram_hits"]
        /\ metrics'["hbm_hits"] = m["hbm_hits"] /\ metrics'["posix_reads"] = m["posix_reads"]
        /\ metrics'["copied"] = m["copied"]
    BY <2>1, <1>5, <1>8, MetricUp
  <2>3. ~Broken' /\ Placing = 0 /\ Placing' = 0 /\ Loading = 0 /\ Loading' = 1
    BY <2>1 DEF Broken, Placing, Loading
  <2>4. IsFiniteSet(begun') /\ Cardinality(begun') <= Cardinality(begun) + 1 /\ Cardinality(begun') \in Nat
    <3>1. IsFiniteSet(begun') /\ Cardinality(begun') = IF Head(todo) \in begun THEN Cardinality(begun) ELSE Cardinality(begun) + 1
      BY <2>1, <1>5, FS_AddElement
    <3>2. QED
      BY <3>1, <1>10
  <2>5. BlocksOK'
    BY <1>1, <1>6, <2>1, <2>3 DEF BlocksOK
  <2>6. Cardinality(begun') <= metrics'["posix_reads"] + 1
    BY <1>5, <1>8, <1>10, <2>2, <2>3, <2>4
  <2>7. begun' \subseteq Nat
    BY <1>5, <1>9, <2>1
  <2>8. LibraryOK'
    BY <1>1, <1>5, <2>1, <2>2, <2>3, <2>4, <2>6, <2>7 DEF LibraryOK, T
  <2>9. QED
    BY <2>5, <2>8, <1>11
<1>15. CASE at = "loading" /\ Whole(Head(todo), file) /\ Service!Read
  <2>1. /\ metrics' = [metrics EXCEPT !["posix_reads"] = @ + 1]
        /\ at' = "place" /\ UNCHANGED <<todo, begun, rc>>
    BY <1>15 DEF Service!Read, Service!Counted
  <2>2. /\ metrics' \in [Service!Metric -> Nat] /\ metrics'["posix_reads"] = m["posix_reads"] + 1
        /\ metrics'["hbm_hits"] = m["hbm_hits"] /\ metrics'["dram_hits"] = m["dram_hits"]
        /\ metrics'["copied"] = m["copied"]
    BY <2>1, <1>5, <1>8, MetricUp
  <2>3. ~Broken' /\ Placing = 0 /\ Placing' = 1 /\ Loading = 1 /\ Loading' = 0
    BY <2>1, <1>15 DEF Broken, Placing, Loading
  <2>4. todo # <<>> /\ Head(todo) \in begun
    BY <1>2, <1>15 DEF LibraryOK
  <2>5. BlocksOK'
    BY <1>1, <1>6, <2>1, <2>3 DEF BlocksOK
  <2>6. metrics'["hbm_hits"] + metrics'["dram_hits"] + metrics'["posix_reads"] + Len(todo') = T + 1
    BY <1>5, <1>7, <1>8, <2>1, <2>2, <2>3
  <2>7. metrics'["copied"] + 1 = metrics'["dram_hits"] + metrics'["posix_reads"]
    BY <1>5, <1>8, <2>2, <2>3
  <2>8. Cardinality(begun) <= metrics'["posix_reads"] + 0
    BY <1>5, <1>8, <1>10, <2>2, <2>3
  <2>9. \A x \in begun : Whole(x, file)
    BY <1>5, <1>15
  <2>10. LibraryOK'
    BY <1>1, <1>5, <1>15, <2>1, <2>2, <2>3, <2>4, <2>6, <2>7, <2>8, <2>9 DEF LibraryOK, T
  <2>11. QED
    BY <2>5, <2>10, <1>11
<1>16. CASE Service!Place
  <2>1. /\ at = "place" /\ metrics' = [metrics EXCEPT !["copied"] = @ + 1]
        /\ todo' = Tail(todo) /\ at' = "next" /\ UNCHANGED <<begun, rc>>
    BY <1>16 DEF Service!Place, Service!Counted
  <2>2. /\ metrics' \in [Service!Metric -> Nat] /\ metrics'["copied"] = m["copied"] + 1
        /\ metrics'["hbm_hits"] = m["hbm_hits"] /\ metrics'["dram_hits"] = m["dram_hits"]
        /\ metrics'["posix_reads"] = m["posix_reads"]
    BY <2>1, <1>5, <1>8, MetricUp
  <2>3. ~Broken' /\ Placing = 1 /\ Placing' = 0 /\ Loading = 0 /\ Loading' = 0
    BY <2>1 DEF Broken, Placing, Loading
  <2>4. todo # <<>> /\ Head(todo) \in begun /\ Whole(Head(todo), file)
    BY <1>2, <1>5, <2>1 DEF LibraryOK
  <2>5. BlocksOK'
    BY <1>1, <1>6, <1>9, <2>1, <2>3, <2>4 DEF BlocksOK
  <2>6. metrics'["hbm_hits"] + metrics'["dram_hits"] + metrics'["posix_reads"] + Len(todo') = T + 0
    <3> DEFINE a == m["hbm_hits"]
               b == m["dram_hits"]
               c == m["posix_reads"]
               n == Len(Tail(todo))
    <3>1. a \in Nat /\ b \in Nat /\ c \in Nat /\ n \in Nat /\ T \in Int /\ a + b + c + (n + 1) = T + 1
      BY <1>5, <1>7, <1>8, <1>9, <2>3, <2>4
    <3>2. metrics'["hbm_hits"] = a /\ metrics'["dram_hits"] = b /\ metrics'["posix_reads"] = c /\ Len(todo') = n
      BY <2>1, <2>2
    <3> HIDE DEF a, b, c, n
    <3>3. a + b + c + n = T + 0
      BY <3>1
    <3>4. QED
      BY <3>2, <3>3
  <2>7. metrics'["copied"] + 0 = metrics'["dram_hits"] + metrics'["posix_reads"]
    BY <1>5, <1>8, <2>2, <2>3
  <2>8. \A x \in tally.all_unique_blocks : x \in begun \/ x \in ToSet(Tail(todo))
    BY <1>5, <1>9, <2>4
  <2>9. LibraryOK'
    BY <1>1, <1>5, <2>1, <2>2, <2>3, <2>6, <2>7, <2>8 DEF LibraryOK, T
  <2>10. QED
    BY <2>5, <2>9, <1>11
<1>17. CASE Service!Return
  <2>1. at = "next" /\ todo = <<>> /\ rc' = 0 /\ at' = "idle" /\ UNCHANGED <<todo, begun, metrics>>
    BY <1>17 DEF Service!Return
  <2>2. ~Broken' /\ Placing = 0 /\ Placing' = 0 /\ Loading = 0 /\ Loading' = 0
    BY <2>1 DEF Broken, Placing, Loading
  <2>3. BlocksOK'
    BY <1>1, <1>6, <2>1, <2>2 DEF BlocksOK
  <2>4. LibraryOK'
    BY <1>1, <1>5, <2>1, <2>2 DEF LibraryOK, T
  <2>5. QED
    BY <2>3, <2>4, <1>11
<1>18. QED
  BY <1>12, <1>13, <1>14, <1>15, <1>16, <1>17 DEF Serve

\* The library's lookup fails.
LEMMA WorkFails ==
    ASSUME WorkOK, LookupFails
    PROVE  WorkOK'
<1>1. /\ system = "memtier" /\ step = "lookup" /\ UNCHANGED <<file, system, step, tally>>
      /\ at # "idle" /\ at' = "idle" /\ todo' = <<>> /\ UNCHANGED <<begun, metrics, rc>>
  BY DEF LookupFails, InLookup, fileVars, Service!Fail
<1>2. BlocksOK /\ LibraryOK
  BY <1>1 DEF WorkOK
<1>3. Broken' /\ ToSet(todo') = {}
  BY <1>1, <1>2 DEF Broken, LibraryOK, ToSet
<1>4. BlocksOK'
  BY <1>1, <1>2, <1>3 DEF BlocksOK
<1>5. LibraryOK'
  BY <1>1, <1>2, <1>3 DEF LibraryOK
<1>6. QED
  BY <1>1, <1>4, <1>5 DEF WorkOK, None

\* The library's lookup returns.
LEMMA WorkReturns ==
    ASSUME WorkOK, lookup_blocks
    PROVE  WorkOK'
<1>1. /\ system = "memtier" /\ step = "lookup" /\ at = "idle"
      /\ UNCHANGED <<file, system, tally, at, todo, begun, metrics, rc>>
      /\ \/ rc = 0 /\ step' = "batch"
         \/ step' = "exit"
  BY DEF lookup_blocks, InLookup, fileVars, lookupVars, Raise
<1>2. CASE step' = "exit"
  BY <1>1, <1>2 DEF WorkOK, None
<1>3. CASE rc = 0 /\ step' = "batch"
  <2>1. BlocksOK /\ LibraryOK /\ ~Broken /\ ~Broken'
    BY <1>1, <1>3 DEF WorkOK, Broken
  <2>2. BlocksOK'
    BY <1>1, <1>3, <2>1 DEF BlocksOK, LibraryOK
  <2>3. Placing' = Placing /\ Loading' = Loading
    BY <1>1 DEF Placing, Loading
  <2>4. LibraryOK'
    BY <1>1, <1>3, <2>1, <2>3 DEF LibraryOK
  <2>5. QED
    BY <1>1, <2>2, <2>4 DEF WorkOK, None
<1>4. QED
  BY <1>1, <1>2, <1>3

\* Every step keeps the work of the drivers: the case split over their actions.
LEMMA WorkOKStep ==
    TraceOK /\ Control /\ FileOK /\ LoopOK /\ WorkOK /\ [Next]_<<traceVars, driverVars>> => WorkOK'
<1> SUFFICES ASSUME TraceOK, Control, FileOK, LoopOK, WorkOK, [Next]_<<traceVars, driverVars>> PROVE WorkOK'
  OBVIOUS
<1>1. CASE UNCHANGED driverVars
  <2>1. UNCHANGED <<file, system, step, tally, at, todo, begun, metrics, rc>>
    BY <1>1 DEF driverVars, fileVars, lookupVars
  <2>2. step # "exit" => file \in Nat
    BY AtWork
  <2>3. QED
    BY <2>1, <2>2, WorkKept
<1>2. CASE FileStep
  <2>1. UNCHANGED <<system, step, tally, at, todo, begun, metrics, rc>> /\ generate_embedding_file
    BY <1>2 DEF FileStep, lookupVars
  <2>2. step # "exit" => file \in Nat /\ file # NoFile
    BY AtWork DEF NoFile
  <2>3. file' \in Nat /\ (file # NoFile => file <= file')
    BY <2>1, FileMoves
  <2>4. QED
    BY <2>1, <2>2, <2>3, WorkKept
<1>3. CASE OpenFile \/ OpenBag \/ RunTorch
  <2>1. UNCHANGED lookupVars /\ step' \in {"batch", "exit"} /\ \E s \in System : Start(s)
    BY <1>3 DEF OpenFile, OpenBag, RunTorch, Raise, Report, System
  <2>2. QED
    BY <2>1, WorkBegins
<1>4. CASE StageBatch
  BY <1>4, WorkStageBatch
<1>5. CASE StageBlock
  BY <1>5, WorkStageBlock
<1>6. CASE StageFails \/ ReportStaging \/ ReportMemtier
  <2>1. step' = "exit" /\ system' = system /\ system # None
    BY <1>6 DEF StageFails, AtRead, Raise, ReportStaging, ReportMemtier, Report, None
  <2>2. QED
    BY <2>1 DEF WorkOK
<1>7. CASE Exit
  <2>1. step' = "exit" /\ Service!LookupInit'
    BY <1>7 DEF Exit, Service!LookupInit, Service!Metric
  <2>2. QED
    BY <2>1 DEF WorkOK
<1>8. CASE forward
  BY <1>8, WorkForward
<1>9. CASE Serve
  BY <1>9, WorkServe
<1>10. CASE LookupFails
  BY <1>10, WorkFails
<1>11. CASE lookup_blocks
  BY <1>11, WorkReturns
<1>12. QED
  BY <1>1, <1>2, <1>3, <1>4, <1>5, <1>6, <1>7, <1>8, <1>9, <1>10, <1>11 DEF Next, Done, DriverStep

-----------------------------------------------------------------------------
(* How drivers end.                                                        *)

\* The table holds an id exactly when it holds the whole block of the id.
LEMMA HoldsIs ==
    ASSUME NEW id \in Nat, NEW rows \in Int
    PROVE  Holds(rows, id) <=> Whole(id \div RowsPerBlock, rows)
<1> DEFINE k == RowsPerBlock
           b == id \div k
           p == b * k
<1>1. k \in Nat /\ k >= 1
  BY TraceAssumption
<1> HIDE DEF k
<1>2. b \in Nat /\ p \in Nat /\ p <= id /\ id < p + k /\ (b + 1) * k = p + k
  BY <1>1, SMTT(30)
<1>3. ASSUME NEW r \in Nat PROVE r \div k = b <=> (p <= r /\ r < p + k)
  <2> DEFINE c == r \div k
  <2>1. c \in Nat /\ c * k <= r /\ r < c * k + k
    BY <1>1, SMTT(30)
  <2> HIDE DEF b, p, c
  <2>2. c = b => p <= r /\ r < p + k
    BY <2>1 DEF p
  <2>3. ASSUME p <= r, r < p + k, c < b PROVE FALSE
    <3>1. (c + 1) * k <= b * k /\ (c + 1) * k = c * k + k
      BY <1>1, <1>2, <2>1, <2>3, SMTT(30)
    <3>2. QED
      BY <3>1, <2>1, <2>3, <1>1, <1>2 DEF p
  <2>4. ASSUME p <= r, r < p + k, b < c PROVE FALSE
    <3>1. (b + 1) * k <= c * k /\ (b + 1) * k = b * k + k
      BY <1>1, <1>2, <2>1, <2>4, SMTT(30)
    <3>2. QED
      BY <3>1, <2>1, <2>4, <1>1, <1>2 DEF p
  <2>5. QED
    BY <2>1, <2>2, <2>3, <2>4, <1>2 DEF c
<1>4. Whole(b, rows) <=> p + k <= rows
  BY <1>2 DEF Whole, k
<1>5. Holds(rows, id) <=> \A r \in 0..(id + k) : r \div k = b => r < rows
  BY DEF Holds, k
<1> HIDE DEF b, p
<1>6. ASSUME Whole(b, rows), NEW r \in 0..(id + k), r \div k = b PROVE r < rows
  <2>1. r \in Nat
    BY <1>1
  <2>2. r < p + k
    BY <2>1, <1>3, <1>6
  <2>3. QED
    BY <2>1, <2>2, <1>1, <1>2, <1>4, <1>6
<1>7. ASSUME Holds(rows, id) PROVE Whole(b, rows)
  <2> DEFINE r == p + k - 1
  <2>1. r \in Nat /\ r \in 0..(id + k) /\ p <= r /\ r < p + k
    BY <1>1, <1>2
  <2>2. r \div k = b
    BY <2>1, <1>3
  <2>3. r < rows
    BY <2>1, <2>2, <1>5, <1>7
  <2>4. QED
    BY <2>3, <1>1, <1>2, <1>4
<1>8. QED
  BY <1>5, <1>6, <1>7 DEF b, k

\* The trace uses a block that the rows asked for do not fill.
Short == \E x \in Used(num_batches) : ~Whole(x, asked)

\* What the report of driver s says.
ReportIs(s, r) ==
    /\ r.trace.num_batches = num_batches /\ r.trace.lookups = Len(ReadUpTo(num_batches))
    /\ s # "torch" =>
           /\ r.trace.num_unique_ids = Cardinality(ToSet(ReadUpTo(num_batches)))
           /\ r.trace.num_unique_blocks = Cardinality(Used(num_batches))
           /\ r.trace.ids_per_batch = UniqueIds(num_batches) /\ r.trace.blocks_per_batch = UniqueBlocks(num_batches)
           /\ r.trace.reuse = Reuse(num_batches)
           /\ \A x \in Used(num_batches) : Whole(x, file)
    /\ s = "cpu_staging" => r.posix_reads = Total(UniqueBlocks(num_batches))
    /\ s = "memtier" =>
           /\ r.hbm_hit_rate[1] + r.dram_hit_rate[1] + r.posix_reads = Total(UniqueBlocks(num_batches))
           /\ r.dram_to_gpu = r.dram_hit_rate[1] + r.posix_reads
           /\ r.ssd_traffic_reduction[1] <= 0

\* Reports are right, and a driver that fails on a complete table without a fault has met
\* a block that is short.
EndOK ==
    /\ \A s \in DOMAIN reports : ReportIs(s, reports[s])
    /\ \A s \in System \ {"torch"} : failed[s] = "RuntimeError" /\ s \in complete \ faulted => Short
    /\ Broken /\ "memtier" \in complete \ faulted => Short

\* There are no reports at first.
LEMMA EndOKInit == Init => EndOK
BY DEF Init, EndOK, Broken, None, System

\* A report stays right while the table grows.
LEMMA ReportKept ==
    ASSUME trace' = trace, file \in Nat, file' \in Nat, file <= file', NEW s, NEW r, ReportIs(s, r)
    PROVE  ReportIs(s, r)'
<1>1. /\ num_batches' = num_batches
      /\ \A b : get_batch_ids(b)' = get_batch_ids(b)
      /\ \A b : BlocksOf(b)' = BlocksOf(b)
      /\ \A n : ReadUpTo(n)' = ReadUpTo(n)
      /\ \A n : Used(n)' = Used(n)
  BY SameTrace
<1> DEFINE n == num_batches
<1>2. /\ ReadUpTo(num_batches)' = ReadUpTo(n) /\ Used(num_batches)' = Used(n)
      /\ UniqueIds(num_batches)' = UniqueIds(n) /\ UniqueBlocks(num_batches)' = UniqueBlocks(n)
      /\ Reuse(num_batches)' = Reuse(n)
  BY DEF UniqueIds, UniqueBlocks, Reuse, ReuseOf, ReadUpTo, Used, Cut, IsSampled, Rows,
        get_batch_ids, BatchStart, BatchEnd, BlocksOf, num_batches, InBatches
<1>3. Used(n) \subseteq Nat
  BY DEF Used
<1>4. \A x \in Used(n) : Whole(x, file) => Whole(x, file')
  <2>1. file \in Int /\ file' \in Int
    OBVIOUS
  <2>2. QED
    BY <2>1, <1>3, WholeStays
<1>5. ReportIs(s, r)'
  BY <1>1, <1>2, <1>4 DEF ReportIs
<1>6. QED
  BY <1>5

\* The blocks a complete table cuts short depend on the trace and the rows asked for only.
LEMMA ShortKept ==
    ASSUME trace' = trace, asked' = asked
    PROVE  Short' = Short
<1>1. Used(num_batches)' = Used(num_batches)
  BY DEF Used, IsSampled, Rows, get_batch_ids, BatchStart, BatchEnd, BlocksOf, num_batches, InBatches
<1>2. QED
  BY <1>1 DEF Short

\* A step that writes no report and lets no driver fail.
LEMMA EndKept ==
    ASSUME TraceOK, Control, FileOK, EndOK, [Next]_<<traceVars, driverVars>>, UNCHANGED <<reports, failed>>,
           faulted \subseteq faulted', complete' = complete,
           Broken' /\ "memtier" \in complete \ faulted' => file # NoFile /\ Short,
           file # NoFile => file \in Nat /\ file' \in Nat /\ file <= file' /\ asked' = asked
    PROVE  EndOK'
<1>1. CASE file = NoFile
  <2>1. DOMAIN reports = {} /\ \A s \in System : failed[s] = None
    BY <1>1 DEF FileOK
  <2>2. QED
    BY <2>1, <1>1 DEF EndOK, None
<1>2. CASE file # NoFile
  <2>1. trace' = trace /\ asked' = asked
    BY <1>2, Settled DEF traceVars, FileOK
  <2>2. Short' = Short
    BY <2>1, ShortKept
  <2>3. ASSUME NEW s \in DOMAIN reports PROVE ReportIs(s, reports[s])'
    <3>1. PICK r : r = reports[s]
      OBVIOUS
    <3>2. ReportIs(s, r) /\ r = reports'[s] /\ file \in Nat /\ file' \in Nat /\ file <= file'
      BY <1>2, <3>1 DEF EndOK
    <3>3. ReportIs(s, r)'
      BY <2>1, <3>2, ReportKept
    <3>4. QED
      BY <3>3, <3>2
  <2>4. QED
    BY <2>2, <2>3 DEF EndOK
<1>3. QED
  BY <1>1, <1>2

\* A driver's step, on a table: the reports that there were stay right.
LEMMA DriverSettled ==
    ASSUME TraceOK, Control, FileOK, EndOK, [Next]_<<traceVars, driverVars>>, DriverStep
    PROVE  /\ file \in Nat /\ file # NoFile /\ file' = file /\ Analysed /\ trace' = trace /\ Short' = Short
           /\ \A s \in DOMAIN reports : \A r : r = reports[s] => ReportIs(s, r)'
<1>1. file' = file /\ writer' = writer /\ asked' = asked
  BY DriverKeepsFile
<1>2. file # NoFile
  <2>1. CASE \E s \in System : Start(s)
    BY <2>1, StartsOn
  <2>2. CASE system # None /\ complete' = complete
    BY <2>2 DEF FileOK
  <2>3. QED
    BY <2>1, <2>2, DriverSteps
<1>3. Analysed /\ file \in Nat
  BY <1>2 DEF FileOK
<1>4. trace' = trace
  BY <1>3, Settled DEF traceVars
<1>5. ASSUME NEW s \in DOMAIN reports, NEW r, r = reports[s] PROVE ReportIs(s, r)'
  <2>1. ReportIs(s, r)
    BY <1>5 DEF EndOK
  <2>2. QED
    BY <1>1, <1>3, <1>4, <2>1, ReportKept
<1>6. QED
  BY <1>1, <1>2, <1>3, <1>4, <1>5, ShortKept

\* A block that was to do is one the trace uses.
LEMMA ShortMet ==
    ASSUME TraceOK, Control, FileOK, LoopOK, WorkOK, step # "exit", todo # <<>>, ~Whole(Head(todo), file),
           NEW s, s \in complete
    PROVE  Short
<1>1. Analysed /\ Readable(trace) /\ num_batches \in Nat
  BY AtWork
<1>2. /\ todo \in Seq(Nat) /\ ToSet(todo) \subseteq tally.all_unique_blocks
      /\ tally.all_unique_blocks = Used(tally.pos) /\ tally.pos \in Nat /\ tally.pos <= num_batches
  BY DEF WorkOK, BlocksOK, LoopOK
<1>3. Head(todo) \in ToSet(todo)
  BY <1>2, TodoIs
<1>4. Used(tally.pos) \subseteq Used(num_batches)
  BY <1>1, <1>2 DEF Used
<1>5. file = asked
  BY DEF FileOK
<1>6. QED
  BY <1>2, <1>3, <1>4, <1>5 DEF Short

\* The end of the loop: what the driver reports of the trace, and that every block was there.
LEMMA LoopEnds ==
    ASSUME TraceOK, Control, FileOK, LoopOK, WorkOK, step = "batch", tally.pos = num_batches
    PROVE  LET t == Common(tally) IN
           /\ t.num_batches = num_batches /\ t.lookups = Len(ReadUpTo(num_batches))
           /\ t.num_unique_ids = Cardinality(ToSet(ReadUpTo(num_batches)))
           /\ t.num_unique_blocks = Cardinality(Used(num_batches))
           /\ t.ids_per_batch = UniqueIds(num_batches) /\ t.blocks_per_batch = UniqueBlocks(num_batches)
           /\ t.reuse = Reuse(num_batches)
           /\ \A x \in Used(num_batches) : Whole(x, file)
           /\ todo = <<>> /\ ~Broken /\ Len(todo) = 0
           /\ tally.unique_blocks = UniqueBlocks(num_batches) /\ tally.all_unique_blocks = Used(num_batches)
<1>1. /\ TallyIs(tally, num_batches)
      /\ tally.all_unique_ids = ToSet(ReadUpTo(num_batches)) /\ tally.all_unique_blocks = Used(num_batches)
  BY DEF LoopOK
<1>2. ~Broken
  BY DEF Broken
<1>3. todo = <<>> /\ \A x \in tally.all_unique_blocks : x \in ToSet(todo) \/ Whole(x, file)
  BY <1>2 DEF WorkOK, BlocksOK
<1>4. ToSet(todo) = {} /\ Len(todo) = 0
  BY <1>3 DEF ToSet
<1>5. QED
  BY <1>1, <1>2, <1>3, <1>4 DEF TallyIs, Common

\* The report of the staging driver is right.
LEMMA EndStaging ==
    ASSUME TraceOK, Control, FileOK, LoopOK, WorkOK, EndOK, [Next]_<<traceVars, driverVars>>, ReportStaging
    PROVE  EndOK'
<1> DEFINE r == [trace |-> Common(tally), posix_reads |-> tally.posix_reads]
<1>1. /\ system = "cpu_staging" /\ step = "batch" /\ tally.pos = num_batches /\ step' = "exit"
      /\ UNCHANGED <<failed, complete, faulted>> /\ DOMAIN reports' = DOMAIN reports \cup {"cpu_staging"}
      /\ reports'["cpu_staging"] = r /\ \A s \in DOMAIN reports : s # "cpu_staging" => reports'[s] = reports[s]
  BY DEF ReportStaging, Report
<1>2. /\ file \in Nat /\ file' = file /\ trace' = trace /\ Short' = Short
      /\ \A s \in DOMAIN reports : \A q : q = reports[s] => ReportIs(s, q)'
  BY DriverSettled DEF DriverStep
<1>3. r.trace = Common(tally) /\ r.posix_reads = tally.posix_reads
  OBVIOUS
<1> HIDE DEF r
<1>4. tally.posix_reads + Len(todo) = Total(tally.unique_blocks) /\ tally.posix_reads \in Nat
  BY <1>1 DEF WorkOK, BlocksOK
<1>5. ReportIs("cpu_staging", r)
  BY <1>1, <1>3, <1>4, LoopEnds DEF ReportIs
<1>6. ReportIs("cpu_staging", reports["cpu_staging"])'
  <2>1. PICK v : v = r
    OBVIOUS
  <2>2. ReportIs("cpu_staging", v) /\ v = reports'["cpu_staging"]
    BY <2>1, <1>1, <1>5
  <2>3. ReportIs("cpu_staging", v)'
    BY <2>2, <1>2, ReportKept
  <2>4. QED
    BY <2>2, <2>3
<1>7. ~Broken'
  BY <1>1 DEF Broken
<1>8. ASSUME NEW s \in DOMAIN reports' PROVE ReportIs(s, reports[s])'
  <2>1. CASE s = "cpu_staging"
    BY <2>1, <1>6
  <2>2. CASE s # "cpu_staging"
    <3>1. PICK q : q = reports[s]
      OBVIOUS
    <3>2. s \in DOMAIN reports /\ reports'[s] = q
      BY <2>2, <3>1, <1>1
    <3>3. ReportIs(s, q)'
      BY <3>1, <3>2, <1>2
    <3>4. QED
      BY <3>2, <3>3
  <2>3. QED
    BY <2>1, <2>2
<1>9. QED
  BY <1>1, <1>2, <1>7, <1>8 DEF EndOK

\* The report of memtier_embedding is right.
LEMMA EndMemtier ==
    ASSUME TraceOK, Control, FileOK, LoopOK, WorkOK, EndOK, [Next]_<<traceVars, driverVars>>, ReportMemtier
    PROVE  EndOK'
<1> DEFINE m == metrics
           unique == Cardinality(tally.all_unique_blocks)
           all == m["hbm_hits"] + m["dram_hits"] + m["posix_reads"]
           r == [trace |-> Common(tally), posix_reads |-> m["posix_reads"], dram_to_gpu |-> m["copied"],
                 hbm_hit_rate |-> Ratio(m["hbm_hits"], all),
                 dram_hit_rate |-> Ratio(m["dram_hits"], all),
                 ssd_traffic_reduction |-> Ratio(unique - m["posix_reads"], unique)]
<1>1. /\ system = "memtier" /\ step = "batch" /\ tally.pos = num_batches /\ step' = "exit"
      /\ UNCHANGED <<failed, complete, faulted>> /\ DOMAIN reports' = DOMAIN reports \cup {"memtier"}
      /\ reports'["memtier"] = r /\ \A s \in DOMAIN reports : s # "memtier" => reports'[s] = reports[s]
  BY DEF ReportMemtier, Report
<1>2. /\ file \in Nat /\ file' = file /\ trace' = trace /\ Short' = Short
      /\ \A s \in DOMAIN reports : \A q : q = reports[s] => ReportIs(s, q)'
  BY DriverSettled DEF DriverStep
<1>3. /\ r.trace = Common(tally) /\ r.posix_reads = m["posix_reads"] /\ r.dram_to_gpu = m["copied"]
      /\ r.hbm_hit_rate[1] = m["hbm_hits"] /\ r.dram_hit_rate[1] = m["dram_hits"]
      /\ r.ssd_traffic_reduction[1] = unique - m["posix_reads"]
  BY DEF Ratio
<1> HIDE DEF r
<1>4. LibraryOK /\ ~Broken /\ at = "idle"
  BY <1>1 DEF WorkOK, Broken, LibraryOK
<1>5. Placing = 0 /\ Loading = 0
  BY <1>4 DEF Placing, Loading
<1>6. /\ m["hbm_hits"] \in Nat /\ m["dram_hits"] \in Nat /\ m["posix_reads"] \in Nat /\ m["copied"] \in Nat
      /\ m["hbm_hits"] + m["dram_hits"] + m["posix_reads"] + Len(todo) = Total(tally.unique_blocks) + 0
      /\ m["copied"] + 0 = m["dram_hits"] + m["posix_reads"]
      /\ Cardinality(begun) <= m["posix_reads"] + 0 /\ IsFiniteSet(begun)
      /\ \A x \in tally.all_unique_blocks : x \in begun \/ x \in ToSet(todo)
  BY <1>4, <1>5 DEF LibraryOK, Service!Metric
<1>7. todo = <<>> /\ Len(todo) = 0 /\ tally.unique_blocks = UniqueBlocks(num_batches)
  BY <1>1, LoopEnds
<1>8. unique <= m["posix_reads"] /\ unique \in Nat
  <2>1. tally.all_unique_blocks \subseteq begun
    BY <1>6, <1>7 DEF ToSet
  <2>2. unique \in Nat /\ Cardinality(begun) \in Nat /\ unique <= Cardinality(begun)
    BY <2>1, <1>6, FS_Subset, FS_CardinalityType
  <2> HIDE DEF unique
  <2>3. QED
    BY <2>2, <1>6
<1>9. Total(tally.unique_blocks) \in Int
  BY <1>1, NumbersTotal DEF WorkOK, BlocksOK
<1> HIDE DEF unique
<1>10. /\ r.hbm_hit_rate[1] + r.dram_hit_rate[1] + r.posix_reads = Total(UniqueBlocks(num_batches))
       /\ r.dram_to_gpu = r.dram_hit_rate[1] + r.posix_reads
       /\ r.ssd_traffic_reduction[1] <= 0
  BY <1>3, <1>6, <1>7, <1>8, <1>9
<1>11. ReportIs("memtier", r)
  BY <1>1, <1>3, <1>10, LoopEnds DEF ReportIs
<1>12. ReportIs("memtier", reports["memtier"])'
  <2>1. PICK v : v = r
    OBVIOUS
  <2>2. ReportIs("memtier", v) /\ v = reports'["memtier"]
    BY <2>1, <1>1, <1>11
  <2>3. ReportIs("memtier", v)'
    BY <2>2, <1>2, ReportKept
  <2>4. QED
    BY <2>2, <2>3
<1>13. ~Broken'
  BY <1>1 DEF Broken
<1>14. ASSUME NEW s \in DOMAIN reports' PROVE ReportIs(s, reports[s])'
  <2>1. CASE s = "memtier"
    BY <2>1, <1>12
  <2>2. CASE s # "memtier"
    <3>1. PICK q : q = reports[s]
      OBVIOUS
    <3>2. s \in DOMAIN reports /\ reports'[s] = q
      BY <2>2, <3>1, <1>1
    <3>3. ReportIs(s, q)'
      BY <3>1, <3>2, <1>2
    <3>4. QED
      BY <3>2, <3>3
  <2>3. QED
    BY <2>1, <2>2
<1>15. QED
  BY <1>1, <1>2, <1>13, <1>14 DEF EndOK

\* A synthetic trace is read row by row.
LEMMA SyntheticBatches ==
    ASSUME Readable(trace), Shaped(trace, job), job.tool = "synthetic"
    PROVE  num_batches = Rows /\ \A b \in 0..(Rows - 1) : get_batch_ids(b) = trace.rows[b + 1]
<1> DEFINE s == trace.rows
           n == trace.batch_size
           g == trace.bag_size
<1>1. /\ trace.layout = "none" /\ trace.ndim = 2 /\ n \in Nat /\ n # 0 /\ g \in Nat /\ g # 0
      /\ \A i \in 1..Len(s) : Len(s[i]) = n * g
      /\ s \in Seq(Seq(Nat)) /\ s # <<>>
  BY DEF Shaped, Readable, Absent
<1>2. Rows = Len(s) /\ Rows \in Nat /\ 1 \in 1..Len(s)
  BY <1>1, EmptySeq DEF Rows
<1>3. CASE ~IsSampled
  BY <1>1, <1>2, <1>3 DEF num_batches, get_batch_ids
<1>4. CASE IsSampled
  <2>1. n * g = g
    BY <1>1, <1>2, <1>4 DEF IsSampled
  <2>2. n = 1
    <3> HIDE DEF n, g
    <3>1. QED
      BY <1>1, <2>1, SMTT(30)
  <2>3. num_batches = Rows
    <3>1. num_batches = (Rows + 1 - 1) \div 1
      BY <1>4, <2>2, NumBatches DEF InBatches
    <3>2. \A m \in Nat : (m + 1 - 1) \div 1 = m
      BY SMTT(30)
    <3>3. QED
      BY <3>1, <3>2, <1>2
  <2>4. ASSUME NEW b \in 0..(Rows - 1) PROVE get_batch_ids(b) = s[b + 1]
    <3>1. b \in Nat /\ b < num_batches /\ b + 1 <= Rows
      BY <2>3, <1>2
    <3>2. get_batch_ids(b) = FlattenSeq(SubSeq(s, Cut(b) + 1, Cut(b + 1)))
      BY <3>1, BatchIs
    <3>3. Cut(b) = b /\ Cut(b + 1) = b + 1
      <4>1. \A k \in Nat : k <= Rows => Min({Rows, k}) = k
        <5> SUFFICES ASSUME NEW k \in Nat, k <= Rows PROVE Min({Rows, k}) = k
          OBVIOUS
        <5>1. Min({Rows, k}) = IF Rows <= k THEN Rows ELSE k
          BY <1>2, MinOfTwo
        <5>2. QED
          BY <5>1, <1>2
      <4>2. \A k \in Nat : k * n = k
        BY <2>2
      <4>3. \A k \in Nat : k <= Rows => Cut(k) = k
        BY <4>1, <4>2, <1>4 DEF Cut
      <4>4. b <= Rows /\ b + 1 \in Nat
        BY <3>1, <1>2
      <4>5. QED
        BY <3>1, <4>3, <4>4
    <3> DEFINE k == b + 1
               X == FlattenSeq(SubSeq(s, b + 1, k - 1))
    <3> HIDE DEF s
    <3>4. k \in Nat /\ b < k /\ k <= Len(s) /\ k - 1 = b
      BY <3>1, <1>2
    <3> HIDE DEF k
    <3> HIDE DEF n, g
    <3>5. FlattenSeq(SubSeq(s, b + 1, k)) = X \o s[k] /\ s[k] \in Seq(Nat)
      <4>1. s \in Seq(Seq(Nat)) /\ b \in Nat
        BY <3>1, <1>1
      <4>2. QED
        BY <4>1, <3>4, FlattenLast, Zenon
    <3>6. SubSeq(s, b + 1, k - 1) = <<>>
      BY <3>1, <3>4, <1>1
    <3>7. X = <<>>
      BY <3>6, FlattenNone, Zenon
    <3>8. <<>> \o s[k] = s[k]
      BY <3>5
    <3> HIDE DEF X
    <3>9. QED
      BY <3>2, <3>3, <3>5, <3>7, <3>8 DEF k
  <2>5. QED
    BY <2>3, <2>4
<1>5. QED
  BY <1>3, <1>4

\* The report of the torch baseline is right.
LEMMA EndTorch ==
    ASSUME TraceOK, Control, FileOK, EndOK, [Next]_<<traceVars, driverVars>>, RunTorch
    PROVE  EndOK'
<1> DEFINE r == [trace |-> [num_batches |-> Rows, lookups |-> Len(FlattenSeq(trace.rows))]]
<1>1. /\ Start("torch") /\ job.tool = "synthetic" /\ step' = "exit"
      /\ \/ /\ DOMAIN reports' = DOMAIN reports \cup {"torch"} /\ reports'["torch"] = r
            /\ \A s \in DOMAIN reports : s # "torch" => reports'[s] = reports[s]
            /\ UNCHANGED <<failed, faulted>>
         \/ /\ failed' = [failed EXCEPT !["torch"] = "RuntimeError"] /\ faulted' = faulted \cup {"torch"}
            /\ UNCHANGED reports
  BY DEF RunTorch, Report, Raise
<1>2. /\ file \in Nat /\ file' = file /\ trace' = trace /\ Short' = Short /\ Analysed
      /\ \A s \in DOMAIN reports : \A q : q = reports[s] => ReportIs(s, q)'
  BY DriverSettled DEF DriverStep
<1>3. Proper(trace, job) /\ read = ReadUpTo(num_batches)
  BY <1>2 DEF TraceOK, Analysed, ReadUpTo
<1>4. num_batches = Rows
  BY <1>1, <1>3, SyntheticBatches DEF Proper
<1>5. ReadUpTo(num_batches) = FlattenSeq(trace.rows)
  <2>1. Consistent
    BY <1>1 DEF Consistent
  <2>2. QED
    BY <2>1, <1>2, <1>3, AllRead DEF EveryIdReadOnce
<1>6. r.trace.num_batches = Rows /\ r.trace.lookups = Len(FlattenSeq(trace.rows))
  OBVIOUS
<1> HIDE DEF r
<1>7. ReportIs("torch", r)
  BY <1>4, <1>5, <1>6 DEF ReportIs
<1>8. ~Broken'
  BY <1>1 DEF Broken
<1>9. \A s \in System \ {"torch"} : s \in complete' => s \in complete
  BY <1>1, StartsOn
<1>10. ASSUME NEW s \in DOMAIN reports' PROVE ReportIs(s, reports[s])'
  <2>1. CASE s \in DOMAIN reports /\ reports'[s] = reports[s]
    <3>1. PICK q : q = reports[s]
      OBVIOUS
    <3>2. ReportIs(s, q)' /\ q = reports'[s]
      BY <2>1, <3>1, <1>2
    <3>3. QED
      BY <3>2
  <2>2. CASE s = "torch" /\ reports'[s] = r
    <3>1. PICK v : v = r
      OBVIOUS
    <3>2. ReportIs("torch", v)'
      BY <3>1, <1>2, <1>7, ReportKept
    <3>3. QED
      BY <2>2, <3>1, <3>2
  <2>3. QED
    BY <1>1, <2>1, <2>2
<1>11. \A s \in System \ {"torch"} : failed'[s] = failed[s] /\ (s \in faulted' <=> s \in faulted)
  BY <1>1 DEF Control
<1>12. QED
  BY <1>2, <1>8, <1>9, <1>10, <1>11 DEF EndOK

\* Driver s fails: with a fault, or on a short block.
LEMMA EndFails ==
    ASSUME TraceOK, Control, FileOK, EndOK, [Next]_<<traceVars, driverVars>>, DriverStep, step' \in {"batch", "exit"},
           NEW s \in System, NEW e \in {"ValueError", "RuntimeError"}, UNCHANGED reports,
           failed' = [failed EXCEPT ![s] = e] \/ failed' = failed, faulted \subseteq faulted',
           \A t \in System \ {s} : t \in complete' => t \in complete,
           failed' = failed => failed[s] = None,
           failed' # failed /\ e = "RuntimeError" /\ s \in complete' \ faulted' => Short
    PROVE  EndOK'
<1>1. /\ file \in Nat /\ file' = file /\ trace' = trace /\ Short' = Short /\ Analysed
      /\ \A x \in DOMAIN reports : \A q : q = reports[x] => ReportIs(x, q)'
  BY DriverSettled
<1>2. ~Broken'
  BY DEF Broken
<1>3. ASSUME NEW x \in DOMAIN reports' PROVE ReportIs(x, reports[x])'
  <2>1. PICK q : q = reports[x]
    OBVIOUS
  <2>2. ReportIs(x, q)' /\ q = reports'[x]
    BY <2>1, <1>1
  <2>3. QED
    BY <2>2
<1>4. ASSUME NEW t \in System \ {"torch"}, failed'[t] = "RuntimeError", t \in complete' \ faulted' PROVE Short
  <2>1. CASE t = s
    <3>1. failed' # failed
      BY <2>1, <1>4 DEF None
    <3>2. e = "RuntimeError"
      BY <2>1, <3>1, <1>4 DEF Control
    <3>3. QED
      BY <2>1, <3>1, <3>2, <1>4
  <2>2. CASE t # s
    <3>1. failed[t] = "RuntimeError" /\ t \in complete \ faulted
      BY <2>2, <1>4 DEF Control
    <3>2. QED
      BY <3>1, <1>4 DEF EndOK
  <2>3. QED
    BY <2>1, <2>2
<1>5. QED
  BY <1>1, <1>2, <1>3, <1>4 DEF EndOK

\* Every step keeps the reports right and the failures explained.
LEMMA EndOKStep ==
    TraceOK /\ Control /\ FileOK /\ LoopOK /\ WorkOK /\ EndOK /\ [Next]_<<traceVars, driverVars>> => EndOK'
<1> SUFFICES ASSUME TraceOK, Control, FileOK, LoopOK, WorkOK, EndOK, [Next]_<<traceVars, driverVars>> PROVE EndOK'
  OBVIOUS
<1>1. file # NoFile => file \in Nat
  BY DEF FileOK
<1>2. Broken /\ "memtier" \in complete \ faulted => file # NoFile /\ Short
  BY DEF EndOK, FileOK, Broken, None
<1>3. CASE UNCHANGED driverVars
  <2>1. UNCHANGED <<file, asked, system, step, at, rc, reports, failed, complete, faulted>>
    BY <1>3 DEF driverVars, fileVars, endVars, lookupVars
  <2>2. Broken' = Broken
    BY <2>1 DEF Broken
  <2>3. faulted \subseteq faulted'
    BY <2>1
  <2>4. file # NoFile => file \in Nat /\ file' \in Nat /\ file <= file' /\ asked' = asked
    BY <1>1, <2>1
  <2>5. QED
    BY <2>1, <2>2, <2>3, <2>4, <1>2, EndKept
<1>4. CASE FileStep
  <2>1. UNCHANGED <<system, step, at, rc, reports, failed, complete, faulted>> /\ generate_embedding_file
    BY <1>4 DEF FileStep, endVars, lookupVars
  <2>2. Broken' = Broken
    BY <2>1 DEF Broken
  <2>3. faulted \subseteq faulted'
    BY <2>1
  <2>4. file # NoFile => file \in Nat /\ file' \in Nat /\ file <= file' /\ asked' = asked
    BY <1>1, <2>1, FileMoves
  <2>5. QED
    BY <2>1, <2>2, <2>3, <2>4, <1>2, EndKept
<1>5. CASE DriverStep
  <2>1. file' = file /\ asked' = asked
    BY <1>5, DriverKeepsFile
  <2>2. file # NoFile => file \in Nat /\ file' \in Nat /\ file <= file' /\ asked' = asked
    BY <1>1, <2>1
  <2>3. CASE StageBatch \/ StageBlock
    <3>1. UNCHANGED <<system, reports, failed, complete, faulted>> /\ system = "cpu_staging"
      BY <2>3 DEF StageBatch, StageBlock, AtBatch, AtRead, endVars
    <3>2. ~Broken' /\ faulted \subseteq faulted'
      BY <3>1 DEF Broken
    <3>3. QED
      BY <2>2, <3>1, <3>2, EndKept
  <2>4. CASE Serve
    <3>1. UNCHANGED <<system, step, reports, failed, complete, faulted>> /\ system = "memtier" /\ step = "lookup"
      BY <2>4 DEF Serve, InLookup, endVars
    <3>2. at' # "idle" \/ rc' = 0
      BY <2>4 DEF Serve, Service!HbmHit, Service!AtBlock, Service!DramHit, Service!Miss, Service!Place, Service!Return,
                  Service!Read
    <3>3. ~Broken' /\ faulted \subseteq faulted'
      BY <3>1, <3>2 DEF Broken
    <3>4. QED
      BY <2>2, <3>1, <3>3, EndKept
  <2>5. CASE forward
    <3>1. UNCHANGED <<reports, failed, complete>> /\ system = "memtier"
      BY <2>5 DEF forward, AtBatch, endVars
    <3>2. (at' = "next" /\ faulted' = faulted) \/ faulted' = faulted \cup {"memtier"}
      BY <2>5, <3>1 DEF forward
    <3>3. faulted \subseteq faulted' /\ (Broken' => "memtier" \in faulted')
      BY <3>2 DEF Broken
    <3>4. QED
      BY <2>2, <3>1, <3>3, EndKept
  <2>6. CASE LookupFails
    <3>1. UNCHANGED <<reports, failed, complete>> /\ system = "memtier" /\ step = "lookup"
      BY <2>6 DEF LookupFails, InLookup, endVars
    <3>2. \/ at = "loading" /\ ~Whole(Head(todo), file) /\ faulted' = faulted
          \/ faulted' = faulted \cup {"memtier"}
      BY <2>6, <3>1 DEF LookupFails
    <3>3. at = "loading" => todo # <<>>
      BY <3>1 DEF WorkOK, LibraryOK
    <3>4. file # NoFile
      BY <3>1 DEF FileOK, None
    <3>5. faulted \subseteq faulted'
      BY <3>2
    <3>6. "memtier" \in complete \ faulted' => Short
      BY <3>1, <3>2, <3>3, ShortMet
    <3>7. QED
      BY <2>2, <3>1, <3>4, <3>5, <3>6, EndKept
  <2>7. CASE Exit
    <3>1. UNCHANGED <<reports, failed, complete, faulted>> /\ system' = None
      BY <2>7 DEF Exit, endVars
    <3>2. ~Broken' /\ faulted \subseteq faulted'
      BY <3>1 DEF Broken, None
    <3>3. QED
      BY <2>2, <3>1, <3>2, EndKept
  <2>8. CASE OpenFile
    <3>1. Start("cpu_staging") /\ step' = "batch" /\ UNCHANGED <<reports, failed, faulted>>
      BY <2>8 DEF OpenFile
    <3>2. failed["cpu_staging"] = None /\ "cpu_staging" \in System
      BY <3>1 DEF Start, System
    <3>3. \A t \in System \ {"cpu_staging"} : t \in complete' => t \in complete
      BY <3>1, StartsOn
    <3>4. step' \in {"batch", "exit"} /\ faulted \subseteq faulted' /\ "ValueError" \in {"ValueError", "RuntimeError"}
      BY <3>1
    <3>5. QED
      BY <1>5, <3>1, <3>2, <3>3, <3>4, EndFails
  <2>9. CASE OpenBag
    <3>1. Start("memtier") /\ UNCHANGED reports
      BY <2>9 DEF OpenBag, Raise
    <3>2. failed["memtier"] = None /\ "memtier" \in System
      BY <3>1 DEF Start, System
    <3>3. \A t \in System \ {"memtier"} : t \in complete' => t \in complete
      BY <3>1, StartsOn
    <3>4. step' \in {"batch", "exit"} /\ faulted \subseteq faulted'
      BY <2>9 DEF OpenBag, Raise
    <3>5. PICK e \in {"ValueError", "RuntimeError"} :
              /\ failed' = [failed EXCEPT !["memtier"] = e] \/ failed' = failed
              /\ failed' # failed /\ e = "RuntimeError" => "memtier" \in faulted'
      <4>1. CASE Raise("memtier", "ValueError") \/ failed' = failed
        BY <4>1 DEF Raise
      <4>2. CASE Raise("memtier", "RuntimeError") /\ faulted' = faulted \cup {"memtier"}
        BY <4>2 DEF Raise
      <4>3. QED
        BY <2>9, <4>1, <4>2 DEF OpenBag
    <3>6. failed' # failed /\ e = "RuntimeError" /\ "memtier" \in complete' \ faulted' => Short
      BY <3>5
    <3>7. QED
      BY <1>5, <3>1, <3>2, <3>3, <3>4, <3>5, <3>6, EndFails
  <2>10. CASE StageFails
    <3>1. /\ system = "cpu_staging" /\ step = "lookup" /\ todo # <<>> /\ step' = "exit" /\ UNCHANGED <<reports, complete>>
          /\ failed' = [failed EXCEPT !["cpu_staging"] = "RuntimeError"]
          /\ \/ ~Whole(Head(todo), file) /\ faulted' = faulted
             \/ faulted' = faulted \cup {"cpu_staging"}
      BY <2>10 DEF StageFails, AtRead, Raise
    <3>2. "cpu_staging" \in System /\ failed["cpu_staging"] = None
      BY <3>1 DEF System, Control
    <3>3. "cpu_staging" \in complete' \ faulted' => Short
      BY <3>1, ShortMet
    <3>4. failed' # failed
      BY <3>1, <3>2 DEF Control, None
    <3>5. step' \in {"batch", "exit"} /\ faulted \subseteq faulted' /\ "RuntimeError" \in {"ValueError", "RuntimeError"}
      BY <3>1
    <3>6. QED
      BY <1>5, <3>1, <3>2, <3>3, <3>4, <3>5, EndFails
  <2>11. CASE lookup_blocks
    <3>1. /\ system = "memtier" /\ step = "lookup" /\ at = "idle" /\ UNCHANGED <<complete, faulted>>
          /\ \/ rc = 0 /\ step' = "batch" /\ failed' = failed
             \/ rc # 0 /\ step' = "exit" /\ failed' = [failed EXCEPT !["memtier"] = "RuntimeError"]
          /\ UNCHANGED reports
      BY <2>11 DEF lookup_blocks, InLookup, Raise
    <3>2. "memtier" \in System /\ failed["memtier"] = None
      BY <3>1 DEF System, Control
    <3>3. rc # 0 => Broken
      BY <3>1 DEF Broken
    <3>4. failed' # failed /\ "memtier" \in complete' \ faulted' => Short
      BY <3>1, <3>3, <1>2
    <3>5. step' \in {"batch", "exit"} /\ faulted \subseteq faulted' /\ "RuntimeError" \in {"ValueError", "RuntimeError"}
      BY <3>1
    <3>6. QED
      BY <1>5, <3>1, <3>2, <3>4, <3>5, EndFails
  <2>12. CASE ReportStaging
    BY <2>12, EndStaging
  <2>13. CASE ReportMemtier
    BY <2>13, EndMemtier
  <2>14. CASE RunTorch
    BY <2>14, EndTorch
  <2>15. QED
    BY <1>5, <2>3, <2>4, <2>5, <2>6, <2>7, <2>8, <2>9, <2>10, <2>11, <2>12, <2>13, <2>14 DEF DriverStep
<1>6. QED
  BY <1>3, <1>4, <1>5 DEF Next, Done

-----------------------------------------------------------------------------
(* The drivers' properties.                                                *)

\* Together they are inductive.
DriversOK == TraceOK /\ StatsOK /\ Control /\ FileOK /\ LoopOK /\ WorkOK /\ EndOK

\* The inductive invariant of the trace tools and the drivers holds of every behaviour: what
\* a trace is like, what the analysis has counted, what a driver holds open, what the table
\* contains, what a driver's loop and the library have counted, and what is reported.
THEOREM DriversInv == Spec => []DriversOK
<1>1. Init => DriversOK
  BY TraceOKInit, StatsOKInit, ControlInit, FileOKInit, LoopOKInit, WorkOKInit, EndOKInit DEF Init, DriversOK
<1>2. DriversOK /\ [Next]_<<traceVars, driverVars>> => DriversOK'
  BY TraceSteps, TraceOKStep, StatsOKStep, ControlStep, FileOKStep, LoopOKStep, WorkOKStep, EndOKStep DEF DriversOK
<1>3. QED
  BY <1>1, <1>2, PTL DEF Spec

\* What is known once the whole trace has been analysed.
LEMMA AnalysedIs ==
    ASSUME DriversOK, Analysed
    PROVE  /\ Readable(trace) /\ Shaped(trace, job) /\ num_batches \in Nat /\ next = num_batches
           /\ read = ReadUpTo(num_batches) /\ TallyIs(stats, num_batches)
           /\ BagToSet(stats.id_counter) = ToSet(read) /\ BagToSet(stats.block_counter) = Used(num_batches)
<1>1. Readable(trace) /\ Shaped(trace, job)
  BY DEF DriversOK, TraceOK, Analysed, Proper
<1>2. next = num_batches /\ read = ReadUpTo(num_batches)
  BY DEF DriversOK, TraceOK, Analysed, ReadUpTo
<1>3. QED
  BY <1>1, <1>2, NumBatches DEF DriversOK, StatsOK, Analysed

\* A driver that has ended has a trace that is analysed.
LEMMA EndedIs ==
    ASSUME DriversOK, NEW s \in System, s \in DOMAIN reports \/ failed[s] # None
    PROVE  Analysed /\ file \in Nat /\ trace.total \in Nat
<1>1. file # NoFile
  BY DEF DriversOK, FileOK
<1>2. Analysed /\ file \in Nat
  BY <1>1 DEF DriversOK, FileOK
<1>3. QED
  BY <1>2, AnalysedIs DEF Readable

\* What is read is a sequence of ids.
LEMMA ReadIsIds ==
    ASSUME Readable(trace), NEW n \in Nat, n <= num_batches
    PROVE  ReadUpTo(n) \in Seq(Nat) /\ ToSet(ReadUpTo(n)) \subseteq Nat
<1>1. ReadUpTo(n) \in Seq(Nat)
  <2>1. CASE n = 0
    <3>1. ReadUpTo(n) = <<>>
      BY <2>1, ReadNone
    <3>2. QED
      BY <3>1
  <2>2. CASE n # 0
    <3> DEFINE m == n - 1
    <3>1. m \in Nat /\ m < num_batches /\ m + 1 = n
      BY <2>2, NumBatches
    <3> HIDE DEF m
    <3>2. QED
      BY <3>1, ReadMore
  <2>3. QED
    BY <2>1, <2>2
<1>2. QED
  BY <1>1 DEF ToSet

\* The ids read lie in whole blocks exactly when the blocks used are whole.
LEMMA ReadIsHeld ==
    ASSUME DriversOK, Analysed, NEW rows \in Nat
    PROVE  (\A id \in ToSet(read) : Holds(rows, id)) <=> \A x \in Used(num_batches) : Whole(x, rows)
<1>1. Readable(trace) /\ num_batches \in Nat /\ read = ReadUpTo(num_batches)
  BY AnalysedIs
<1>2. num_batches <= num_batches
  BY <1>1
<1>3. /\ \A x : x \in Used(num_batches) <=> \E id \in ToSet(read) : x = id \div RowsPerBlock
      /\ ToSet(read) \subseteq Nat
  BY <1>1, <1>2, UsedAreRead, ReadIsIds
<1>4. \A id \in ToSet(read) : Holds(rows, id) <=> Whole(id \div RowsPerBlock, rows)
  BY <1>3, HoldsIs
<1>5. QED
  BY <1>3, <1>4

\* The ids read are ids of the trace, and so below its total when the options of the tool
\* agree with each other.
LEMMA ReadInRange ==
    ASSUME DriversOK, Analysed, Consistent, NEW id \in ToSet(read)
    PROVE  id < trace.total
<1>1. Readable(trace) /\ num_batches \in Nat /\ read = ReadUpTo(num_batches)
  BY AnalysedIs
<1>2. \A r \in ToSet(trace.rows) : \A x \in ToSet(r) : x < trace.total
  BY ProperInRange DEF DriversOK, IdsInRange
<1>3. PICK s : s = trace.rows
  OBVIOUS
<1>4. PICK total : total = trace.total
  OBVIOUS
<1> DEFINE S == {x \in Nat : x < total}
<1>5. s \in Seq(Seq(Nat))
  BY <1>1, <1>3 DEF Readable
<1>6. \A r \in ToSet(s) : \A x \in ToSet(r) : x < total
  BY <1>2, <1>3, <1>4
<1>7. ASSUME NEW k \in 1..Len(s) PROVE s[k] \in Seq(S)
  <2>1. s[k] \in Seq(Nat) /\ s[k] \in ToSet(s)
    BY <1>5 DEF ToSet
  <2>2. PICK r : r = s[k]
    OBVIOUS
  <2>3. r \in Seq(Nat) /\ \A x \in ToSet(r) : x < total
    BY <2>1, <2>2, <1>6
  <2>4. \A i \in 1..Len(r) : r[i] \in S
    BY <2>3 DEF ToSet
  <2>5. r \in Seq(S)
    <3> HIDE DEF S
    <3>1. QED
      BY <2>3, <2>4
  <2>6. QED
    BY <2>2, <2>5
<1> HIDE DEF S
<1>8. s \in Seq(Seq(S))
  <2>1. PICK D : D = Seq(S)
    OBVIOUS
  <2>2. \A k \in 1..Len(s) : s[k] \in D
    BY <1>7, <2>1
  <2>3. s \in Seq(D)
    BY <1>5, <2>2
  <2>4. QED
    BY <2>1, <2>3
<1>9. PICK q : q = SubSeq(s, 1, Cut(num_batches)) /\ q \in Seq(Seq(S))
  <2>1. Cut(num_batches) \in Nat /\ Cut(num_batches) <= Len(s)
    BY <1>1, <1>3, CutIs DEF Rows
  <2>2. PICK c : c = Cut(num_batches)
    OBVIOUS
  <2>3. SubSeq(s, 1, c) \in Seq(Seq(S))
    BY <2>1, <2>2, <1>8
  <2>4. QED
    BY <2>2, <2>3
<1>10. read = FlattenSeq(q)
  BY <1>1, <1>3, <1>9 DEF ReadUpTo
<1>11. read \in Seq(S)
  BY <1>9, <1>10, FlattenSeqType
<1>12. id \in S
  BY <1>11 DEF ToSet
<1>13. QED
  BY <1>4, <1>12 DEF S

\* The invariant explains the failures.
LEMMA ShortBlocks == DriversOK => OnlyShortBlocksFail
<1> DEFINE Why(id) == \/ id < file /\ ~Holds(file, id)
                      \/ id >= file /\ (asked < trace.total \/ ~Consistent)
<1> SUFFICES ASSUME DriversOK, NEW s \in {"cpu_staging", "memtier"}
             PROVE  /\ s \in DOMAIN reports => \A id \in ToSet(read) : Holds(file, id)
                    /\ failed[s] = "RuntimeError" /\ s \in complete \ faulted => \E id \in ToSet(read) : Why(id)
  BY DEF OnlyShortBlocksFail
<1>1. s \in System /\ s # "torch"
  BY DEF System
<1>2. ASSUME s \in DOMAIN reports PROVE \A id \in ToSet(read) : Holds(file, id)
  <2>1. Analysed /\ file \in Nat
    BY <1>1, <1>2, EndedIs
  <2>2. \A x \in Used(num_batches) : Whole(x, file)
    BY <1>1, <1>2 DEF DriversOK, EndOK, ReportIs
  <2>3. QED
    BY <2>1, <2>2, ReadIsHeld
<1>3. ASSUME failed[s] = "RuntimeError", s \in complete \ faulted PROVE \E id \in ToSet(read) : Why(id)
  <2>1. Analysed /\ file \in Nat /\ trace.total \in Nat
    BY <1>1, <1>3, EndedIs DEF None
  <2>2. file = asked
    BY <1>3 DEF DriversOK, FileOK
  <2>3. Short
    BY <1>1, <1>3 DEF DriversOK, EndOK
  <2>4. PICK id \in ToSet(read) : ~Holds(file, id)
    BY <2>1, <2>2, <2>3, ReadIsHeld DEF Short
  <2>5. id \in Nat
    BY <2>1, AnalysedIs, ReadIsIds
  <2>6. id >= file /\ Consistent => asked < trace.total
    BY <2>1, <2>2, <2>5, ReadInRange
  <2>7. Why(id)
    BY <2>1, <2>4, <2>5, <2>6
  <2>8. QED
    BY <2>7
<1>4. QED
  BY <1>2, <1>3

\* A driver that reports met no block that the table did not wholly have, whatever happened
\* to the generator and whatever number of rows it was run for.  Started on a complete table
\* and without faults, a driver fails only on a last block that the rows of the table do not
\* fill, or on a row that the table does not have; never on such a row when the table was
\* made for as many rows as the trace is about.
THEOREM DriversFailOnShortBlocks == Spec => []OnlyShortBlocksFail
BY DriversInv, ShortBlocks, PTL

\* The invariant counts every block served.
LEMMA ServedOnce == DriversOK => EveryBlockServedOnce
<1> SUFFICES ASSUME DriversOK, "memtier" \in DOMAIN reports
             PROVE  LET r == reports["memtier"] IN
                    /\ r.hbm_hit_rate[1] + r.dram_hit_rate[1] + r.posix_reads = Total(stats.unique_blocks)
                    /\ "cpu_staging" \in DOMAIN reports =>
                           reports["cpu_staging"].posix_reads = Total(stats.unique_blocks)
                    /\ r.dram_to_gpu = r.dram_hit_rate[1] + r.posix_reads
                    /\ r.ssd_traffic_reduction[1] <= 0
  BY DEF EveryBlockServedOnce
<1>1. Analysed
  BY EndedIs DEF System
<1>2. stats.unique_blocks = UniqueBlocks(num_batches)
  BY <1>1, AnalysedIs DEF TallyIs
<1>3. QED
  BY <1>2 DEF DriversOK, EndOK, ReportIs

\* In the report of memtier_embedding every block of every batch is one hit in HBM, one hit
\* in DRAM or one read, as baseline_cpu_staging reads each of them once; what is copied is
\* what was not a hit in HBM, and the reported reduction of the traffic is never positive.
THEOREM BlocksAreServedOnce == Spec => []EveryBlockServedOnce
BY DriversInv, ServedOnce, PTL

\* The summary of a synthetic trace, made from its rows, is that of the batches.
LEMMA SummaryIs ==
    ASSUME Readable(trace), Shaped(trace, job), job.tool = "synthetic"
    PROVE  /\ estimate_block_reuse.unique_counts = UniqueBlocks(num_batches)
           /\ estimate_block_reuse.reuse_rates = Reuse(num_batches)
<1> DEFINE bl(b) == ToSet(ids_to_blocks(trace.rows[b]))
           n == Rows
<1>1. num_batches = n /\ \A b \in 0..(n - 1) : get_batch_ids(b) = trace.rows[b + 1]
  BY SyntheticBatches
<1>2. n \in Nat
  BY DEF Readable, Rows
<1>3. ASSUME NEW b \in 0..(n - 1) PROVE BlocksOf(b) = bl(b + 1)
  BY <1>1 DEF BlocksOf
<1>4. /\ estimate_block_reuse.unique_counts = [b \in 1..n |-> Cardinality(bl(b))]
      /\ estimate_block_reuse.reuse_rates =
             [b \in 1..(n - 1) |-> Ratio(Cardinality(bl(b) \cap bl(b + 1)), Cardinality(bl(b + 1)))]
  BY DEF estimate_block_reuse
<1> HIDE DEF bl, n
<1>5. \A i \in 1..n : BlocksOf(i - 1) = bl(i)
  <2> SUFFICES ASSUME NEW i \in 1..n PROVE BlocksOf(i - 1) = bl(i)
    OBVIOUS
  <2>1. i - 1 \in 0..(n - 1) /\ (i - 1) + 1 = i
    BY <1>2
  <2>2. QED
    BY <2>1, <1>3
<1>6. \A i \in 1..(n - 1) : ReuseOf(i) = Ratio(Cardinality(bl(i) \cap bl(i + 1)), Cardinality(bl(i + 1)))
  <2> SUFFICES ASSUME NEW i \in 1..(n - 1)
               PROVE  ReuseOf(i) = Ratio(Cardinality(bl(i) \cap bl(i + 1)), Cardinality(bl(i + 1)))
    OBVIOUS
  <2>1. i \in 0..(n - 1) /\ i \in 1..n
    BY <1>2
  <2>2. BlocksOf(i) = bl(i + 1) /\ BlocksOf(i - 1) = bl(i)
    BY <2>1, <1>3, <1>5
  <2>3. bl(i + 1) \cap bl(i) = bl(i) \cap bl(i + 1)
    OBVIOUS
  <2>4. QED
    BY <2>2, <2>3 DEF ReuseOf
<1>7. QED
  BY <1>1, <1>4, <1>5, <1>6 DEF UniqueBlocks, Reuse

\* The invariant makes the reports agree.
LEMMA Agreeing == DriversOK => ReportsAgree
<1> SUFFICES ASSUME DriversOK, Analysed PROVE ReportsAgree
  BY DEF ReportsAgree
<1>1. /\ Readable(trace) /\ Shaped(trace, job) /\ next = num_batches
      /\ read = ReadUpTo(num_batches) /\ TallyIs(stats, num_batches)
      /\ BagToSet(stats.id_counter) = ToSet(read) /\ BagToSet(stats.block_counter) = Used(num_batches)
  BY AnalysedIs
<1>2. \A s \in DOMAIN reports : ReportIs(s, reports[s])
  BY DEF DriversOK, EndOK
<1>3. job.tool = "synthetic" =>
          /\ estimate_block_reuse.unique_counts = stats.unique_blocks
          /\ estimate_block_reuse.reuse_rates = stats.reuse_ratios
  BY <1>1, SummaryIs DEF TallyIs
<1>4. ASSUME NEW s \in DOMAIN reports
      PROVE  reports[s].trace.num_batches = next /\ reports[s].trace.lookups = stats.total_lookups
  BY <1>1, <1>2 DEF ReportIs, TallyIs
<1>5. ASSUME NEW s \in DOMAIN reports \ {"torch"}
      PROVE  LET r == reports[s].trace IN
             /\ r.num_unique_ids = Cardinality(BagToSet(stats.id_counter))
             /\ r.num_unique_blocks = Cardinality(BagToSet(stats.block_counter))
             /\ r.ids_per_batch = stats.unique_ids /\ r.blocks_per_batch = stats.unique_blocks
             /\ r.reuse = stats.reuse_ratios
  BY <1>1, <1>2 DEF ReportIs, TallyIs
<1>6. QED
  BY <1>3, <1>4, <1>5 DEF ReportsAgree

\* Every report says of the trace what the analysis says: as many batches, lookups, ids and
\* blocks, the same per batch and the same reuse; so does the summary of a synthetic trace.
THEOREM ReportsStayAgreed == Spec => []ReportsAgree
BY DriversInv, Agreeing, PTL

-----------------------------------------------------------------------------
(* The LRU simulation.  A cache after the accesses A is described by the   *)
(* blocks used since the latest use of each block.                         *)

Since(A, x) == {y \in ToSet(A) : \E i \in 1..Len(A) : A[i] = y /\ \A k \in i..Len(A) : A[k] # x}

\* One more access.
LEMMA Appended ==
    ASSUME NEW A \in Seq(Nat), NEW b \in Nat
    PROVE  LET P == Append(A, b)
               n == Len(A)
           IN  /\ P \in Seq(Nat) /\ n \in Nat /\ Len(P) = n + 1 /\ P[n + 1] = b
               /\ \A i \in 1..n : P[i] = A[i]
               /\ ToSet(P) = ToSet(A) \cup {b}
<1> DEFINE P == Append(A, b)
           n == Len(A)
<1>1. P \in Seq(Nat) /\ n \in Nat /\ Len(P) = n + 1 /\ P[n + 1] = b /\ \A i \in 1..n : P[i] = A[i]
  OBVIOUS
<1>2. DOMAIN A = 1..n /\ DOMAIN P = 1..(n + 1)
  BY <1>1
<1> HIDE DEF P, n
<1>3. ToSet(P) = ToSet(A) \cup {b}
  <2>1. \A i : i \in 1..(n + 1) <=> i \in 1..n \/ i = n + 1
    BY <1>1
  <2>2. QED
    BY <1>1, <1>2, <2>1 DEF ToSet
<1>4. QED
  BY <1>1, <1>3 DEF P, n

\* One more access.
LEMMA SinceMore ==
    ASSUME NEW A \in Seq(Nat), NEW b \in Nat, NEW x, NEW y
    PROVE  y \in Since(Append(A, b), x) <=> x # b /\ (y \in Since(A, x) \/ y = b)
<1> DEFINE P == Append(A, b)
           n == Len(A)
<1>1. /\ n \in Nat /\ Len(P) = n + 1 /\ P[n + 1] = b /\ \A i \in 1..n : P[i] = A[i]
      /\ ToSet(P) = ToSet(A) \cup {b}
  BY Appended
<1>2. /\ y \in Since(P, x) <=> y \in ToSet(P) /\ \E i \in 1..Len(P) : P[i] = y /\ \A k \in i..Len(P) : P[k] # x
      /\ y \in Since(A, x) <=> y \in ToSet(A) /\ \E i \in 1..n : A[i] = y /\ \A k \in i..n : A[k] # x
  BY DEF Since
<1>3. \A i \in 1..n : A[i] \in ToSet(A)
  BY DEF ToSet
<1> HIDE DEF P, n
<1>4. \A i \in 1..n : \A k : k \in i..(n + 1) <=> k \in i..n \/ k = n + 1
  BY <1>1
<1>5. \A i \in 1..n : \A k \in i..n : k \in 1..n
  BY <1>1
<1>6. ASSUME y \in Since(P, x) PROVE x # b /\ (y \in Since(A, x) \/ y = b)
  <2>1. PICK i \in 1..(n + 1) : P[i] = y /\ \A k \in i..(n + 1) : P[k] # x
    BY <1>1, <1>2, <1>6
  <2>2. x # b
    <3>1. n + 1 \in i..(n + 1)
      BY <1>1
    <3>2. QED
      BY <3>1, <2>1, <1>1
  <2>3. CASE i = n + 1
    BY <2>1, <2>2, <2>3, <1>1
  <2>4. CASE i \in 1..n
    <3>1. A[i] = y /\ \A k \in i..n : A[k] # x
      BY <2>1, <2>4, <1>1, <1>4, <1>5
    <3>2. QED
      BY <3>1, <2>2, <2>4, <1>2, <1>3
  <2>5. QED
    BY <2>3, <2>4, <1>1
<1>7. ASSUME x # b, y \in Since(A, x) PROVE y \in Since(P, x)
  <2>1. PICK i \in 1..n : A[i] = y /\ \A k \in i..n : A[k] # x
    BY <1>2, <1>7
  <2>2. P[i] = y /\ \A k \in i..(n + 1) : P[k] # x
    BY <2>1, <1>1, <1>4, <1>5, <1>7
  <2>3. i \in 1..(n + 1) /\ y \in ToSet(P)
    BY <1>1, <1>2, <1>7
  <2>4. QED
    BY <2>2, <2>3, <1>1, <1>2
<1>8. ASSUME x # b, y = b PROVE y \in Since(P, x)
  <2>1. n + 1 \in 1..(n + 1) /\ \A k \in (n + 1)..(n + 1) : k = n + 1
    BY <1>1
  <2>2. P[n + 1] = y /\ \A k \in (n + 1)..(n + 1) : P[k] # x
    BY <2>1, <1>1, <1>8
  <2>3. QED
    BY <2>1, <2>2, <1>1, <1>2, <1>8
<1>9. QED
  BY <1>6, <1>7, <1>8 DEF P

\* The cache holds the blocks used latest, in the order of their latest use, and it is
\* full when a block is not in it.
CacheIs(A, c, s) ==
    /\ s \in Seq(Nat) /\ Len(s) <= c /\ ToSet(s) \subseteq ToSet(A)
    /\ \A i \in 1..Len(s) : \A y : y \in Since(A, s[i]) <=> \E k \in (i + 1)..Len(s) : y = s[k]
    /\ \A x \in ToSet(A) \ ToSet(s) : Len(s) = c /\ ToSet(s) \subseteq Since(A, x)

\* A block is not among those used since its own last use.
LEMMA NotSinceItself ==
    ASSUME NEW A, Len(A) \in Nat, NEW x
    PROVE  x \notin Since(A, x)
<1> SUFFICES ASSUME x \in Since(A, x) PROVE FALSE
  OBVIOUS
<1>1. PICK i \in 1..Len(A) : A[i] = x /\ \A k \in i..Len(A) : A[k] # x
  BY DEF Since
<1>2. i \in i..Len(A)
  OBVIOUS
<1>3. QED
  BY <1>1, <1>2

\* A simulated cache holds no block twice.
LEMMA CacheDistinct ==
    ASSUME NEW A \in Seq(Nat), NEW c, NEW s, CacheIs(A, c, s)
    PROVE  \A i, k \in 1..Len(s) : s[i] = s[k] => i = k
<1>1. s \in Seq(Nat) /\ Len(s) \in Nat /\ Len(A) \in Nat
  BY DEF CacheIs
<1>2. ASSUME NEW i \in 1..Len(s), NEW k \in 1..Len(s), i < k, s[i] = s[k] PROVE FALSE
  <2>1. k \in (i + 1)..Len(s)
    BY <1>1, <1>2
  <2>2. s[k] \in Since(A, s[i])
    BY <2>1 DEF CacheIs
  <2>3. QED
    BY <2>2, <1>1, <1>2, NotSinceItself
<1>3. QED
  BY <1>1, <1>2

\* s with the element at p taken out and b put at the end.
Shifted(q, s, p, b) ==
    /\ q \in Seq(Nat) /\ Len(q) = Len(s) /\ q[Len(s)] = b
    /\ \A i \in 1..(Len(s) - 1) : q[i] = IF i < p THEN s[i] ELSE s[i + 1]

\* move_to_end: the block leaves its place and is the last.
LEMMA RemovedIs ==
    ASSUME NEW s \in Seq(Nat), NEW b \in ToSet(s), \A i, k \in 1..Len(s) : s[i] = s[k] => i = k
    PROVE  \E p \in 1..Len(s) : s[p] = b /\ Shifted(Append(RemoveFirst(s, b), b), s, p, b)
<1> DEFINE n == Len(s)
           I == {i \in 1..n : s[i] = b}
<1>1. n \in Nat
  OBVIOUS
<1>2. PICK p \in 1..n : s[p] = b
  BY DEF ToSet
<1>3. I = {p}
  BY <1>2
<1>4. Min(I) = p
  <2>1. p \in Int
    BY <1>1
  <2>2. Min({p, p}) = p
    BY <2>1, MinOfTwo
  <2>3. {p, p} = {p}
    OBVIOUS
  <2>4. QED
    BY <2>2, <2>3, <1>3
<1> DEFINE t == RemoveFirst(s, b)
           u == SubSeq(s, 1, p - 1)
           v == SubSeq(s, p + 1, n)
<1>5. t = RemoveAt(s, Min(I))
  <2>1. I # {}
    BY <1>3
  <2>2. SelectInSeq(s, LAMBDA w : w = b) = Min(I)
    BY <2>1 DEF SelectInSeq
  <2>3. QED
    BY <2>2, <1>2 DEF RemoveFirst
<1>6. t = u \o v
  BY <1>4, <1>5 DEF RemoveAt
<1>7. /\ u \in Seq(Nat) /\ Len(u) = p - 1 /\ \A i \in 1..(p - 1) : u[i] = s[i]
      /\ v \in Seq(Nat) /\ Len(v) = n - p /\ \A i \in 1..(n - p) : v[i] = s[p + i]
  <2>1. p \in Nat /\ 1 <= p /\ p <= n
    BY <1>1
  <2>2. u \in Seq(Nat) /\ Len(u) = p - 1 /\ \A i \in 1..(p - 1) : u[i] = s[i]
    BY <2>1, <1>1
  <2>3. v \in Seq(Nat) /\ Len(v) = n - p /\ \A i \in 1..(n - p) : v[i] = s[p + i]
    BY <2>1, <1>1
  <2>4. QED
    BY <2>2, <2>3
<1> HIDE DEF u, v, t, I
<1>8. /\ t \in Seq(Nat) /\ Len(t) = n - 1
      /\ \A i \in 1..Len(u) : t[i] = u[i]
      /\ \A i \in 1..Len(v) : t[Len(u) + i] = v[i]
  <2>1. /\ t \in Seq(Nat) /\ Len(t) = Len(u) + Len(v)
        /\ \A i \in 1..(Len(u) + Len(v)) : t[i] = IF i <= Len(u) THEN u[i] ELSE v[i - Len(u)]
    <3>1. u \in Seq(Nat) /\ v \in Seq(Nat)
      BY <1>7
    <3>2. /\ u \o v \in Seq(Nat) /\ Len(u \o v) = Len(u) + Len(v)
          /\ \A i \in 1..(Len(u) + Len(v)) : (u \o v)[i] = IF i <= Len(u) THEN u[i] ELSE v[i - Len(u)]
      BY <3>1, ConcatProperties
    <3>3. QED
      BY <3>2, <1>6
  <2>2. Len(u) \in Nat /\ Len(v) \in Nat /\ Len(u) + Len(v) = n - 1
    <3> HIDE DEF n
    <3>1. QED
      BY <1>1, <1>7
  <2> DEFINE l == Len(u)
             m == Len(v)
  <2> HIDE DEF l, m, n
  <2>3. ASSUME NEW i \in 1..l PROVE t[i] = u[i]
    <3>1. i \in 1..(l + m) /\ i <= l
      BY <2>2 DEF l, m
    <3>2. QED
      BY <3>1, <2>1 DEF l, m
  <2>4. ASSUME NEW i \in 1..m PROVE t[l + i] = v[i]
    <3>1. l + i \in 1..(l + m) /\ ~(l + i <= l) /\ (l + i) - l = i
      BY <2>2 DEF l, m
    <3>2. QED
      BY <3>1, <2>1 DEF l, m
  <2>5. QED
    BY <2>1, <2>2, <2>3, <2>4 DEF l, m
<1>9. ASSUME NEW i \in 1..(n - 1) PROVE t[i] = IF i < p THEN s[i] ELSE s[i + 1]
  <2>1. CASE i < p
    <3>1. i \in 1..Len(u)
      BY <2>1, <1>1, <1>7
    <3>2. t[i] = u[i]
      BY <3>1, <1>8
    <3>3. QED
      BY <2>1, <3>1, <3>2, <1>7
  <2>2. CASE ~(i < p)
    <3> DEFINE k == i - (p - 1)
    <3>1. k \in 1..(n - p) /\ i = Len(u) + k /\ p + k = i + 1
      BY <2>2, <1>1, <1>7
    <3>2. t[i] = v[k]
      BY <3>1, <1>7, <1>8
    <3>3. v[k] = s[p + k]
      BY <3>1, <1>7
    <3>4. QED
      BY <2>2, <3>1, <3>2, <3>3
  <2>3. QED
    BY <2>1, <2>2
<1> DEFINE q == Append(t, b)
<1>10. b \in Nat
  BY <1>2
<1>11. q \in Seq(Nat) /\ Len(q) = (n - 1) + 1 /\ q[(n - 1) + 1] = b /\ \A i \in 1..(n - 1) : q[i] = t[i]
  BY <1>8, <1>10, Appended
<1>12. (n - 1) + 1 = n
  BY <1>1
<1> HIDE DEF q
<1>13. Shifted(q, s, p, b)
  BY <1>9, <1>11, <1>12 DEF Shifted
<1>14. QED
  BY <1>2, <1>13 DEF q, t

\* A block that is absent is not removed.
LEMMA NotRemoved ==
    ASSUME NEW s \in Seq(Nat), NEW b, b \notin ToSet(s)
    PROVE  RemoveFirst(s, b) = s
<1>1. ~ \E i \in 1..Len(s) : s[i] = b
  BY DEF ToSet
<1>2. QED
  BY <1>1 DEF RemoveFirst

\* The three things a lookup does to a cache: a block in it moves to the end, a new one is
\* appended while there is room, or takes the place of the first.
LEMMA LookedUpIs ==
    ASSUME NEW s \in Seq(Nat), NEW c \in Nat \ {0}, Len(s) <= c, NEW b \in Nat,
           \A i, k \in 1..Len(s) : s[i] = s[k] => i = k
    PROVE  LET q == LookedUp(s, c, b) IN
           \/ b \in ToSet(s) /\ \E p \in 1..Len(s) : s[p] = b /\ Shifted(q, s, p, b)
           \/ b \notin ToSet(s) /\ Len(s) < c /\ q = Append(s, b)
           \/ b \notin ToSet(s) /\ Len(s) = c /\ Shifted(q, s, 1, b)
<1> DEFINE n == Len(s)
           a == Append(RemoveFirst(s, b), b)
           q == LookedUp(s, c, b)
<1>1. n \in Nat /\ q = IF Len(a) > c THEN Tail(a) ELSE a
  BY DEF LookedUp
<1>2. CASE b \in ToSet(s)
  <2>1. PICK p \in 1..n : s[p] = b /\ Shifted(a, s, p, b)
    BY <1>2, RemovedIs
  <2>2. Len(a) = n
    BY <2>1 DEF Shifted
  <2>3. q = a
    BY <2>2, <1>1
  <2>4. QED
    BY <2>1, <2>3, <1>2
<1>3. CASE b \notin ToSet(s)
  <2>1. a = Append(s, b)
    BY <1>3, NotRemoved
  <2>2. Len(a) = n + 1 /\ a \in Seq(Nat) /\ a[n + 1] = b /\ \A i \in 1..n : a[i] = s[i]
    BY <2>1, Appended
  <2>3. CASE n < c
    <3>1. q = a
      BY <2>2, <2>3, <1>1
    <3>2. QED
      BY <3>1, <2>1, <2>3, <1>3
  <2>4. CASE ~(n < c)
    <3>1. n = c /\ n >= 1
      BY <2>4, <1>1
    <3>2. q = Tail(a)
      BY <2>2, <3>1, <1>1
    <3> HIDE DEF a, q
    <3>3. q \in Seq(Nat) /\ Len(q) = n /\ \A i \in 1..n : q[i] = a[i + 1]
      BY <2>2, <3>1, <3>2
    <3>4. q[n] = b
      BY <2>2, <3>1, <3>3
    <3>5. ASSUME NEW i \in 1..(n - 1) PROVE q[i] = IF i < 1 THEN s[i] ELSE s[i + 1]
      <4>1. i \in 1..n /\ i + 1 \in 1..n /\ ~(i < 1)
        BY <1>1
      <4>2. q[i] = s[i + 1]
        BY <4>1, <2>2, <3>3
      <4>3. QED
        BY <4>1, <4>2
    <3>6. Shifted(q, s, 1, b)
      BY <3>3, <3>4, <3>5 DEF Shifted
    <3>7. QED
      BY <3>1, <3>6, <1>3 DEF q
  <2>5. QED
    BY <2>3, <2>4
<1>4. QED
  BY <1>2, <1>3

\* A block moves to the end, or takes the place of the first one in a full cache.
LEMMA CacheShifts ==
    ASSUME NEW A \in Seq(Nat), NEW c \in Nat, NEW s, CacheIs(A, c, s), NEW b \in Nat, NEW p \in 1..Len(s), NEW q,
           Shifted(q, s, p, b), s[p] = b \/ (b \notin ToSet(s) /\ p = 1 /\ Len(s) = c)
    PROVE  CacheIs(Append(A, b), c, q)
<1> DEFINE n == Len(s)
           P == Append(A, b)
<1>1. /\ s \in Seq(Nat) /\ n \in Nat /\ n <= c /\ n >= 1 /\ p \in 1..n
      /\ DOMAIN s = 1..n /\ ToSet(s) \subseteq ToSet(A)
  BY DEF CacheIs
<1>2. /\ q \in Seq(Nat) /\ Len(q) = n /\ q[n] = b /\ DOMAIN q = 1..n
      /\ \A i \in 1..(n - 1) : q[i] = IF i < p THEN s[i] ELSE s[i + 1]
  BY DEF Shifted
<1>3. \A i, k \in 1..n : s[i] = s[k] => i = k
  BY CacheDistinct
<1>4. ToSet(P) = ToSet(A) \cup {b}
  BY Appended
<1>5. \A x, y : y \in Since(P, x) <=> x # b /\ (y \in Since(A, x) \/ y = b)
  BY SinceMore
<1>6. /\ \A i \in 1..n : \A y : y \in Since(A, s[i]) <=> \E k \in (i + 1)..n : y = s[k]
      /\ \A x \in ToSet(A) \ ToSet(s) : n = c /\ ToSet(s) \subseteq Since(A, x)
  BY DEF CacheIs
<1> HIDE DEF n, P
<1>7. \A x : x \in ToSet(s) <=> \E i \in 1..n : x = s[i]
  BY <1>1 DEF ToSet
<1>8. \A i \in 1..n : i # p => s[i] # b
  BY <1>1, <1>3, <1>7 DEF n
<1>9. ASSUME NEW k \in 1..n, k # p PROVE \E i \in 1..(n - 1) : q[i] = s[k] /\ i <= k /\ (k < p => i = k) /\ (p < k => i = k - 1)
  <2>1. CASE k < p
    <3>1. k \in 1..(n - 1) /\ ~(p < k)
      BY <2>1, <1>1
    <3>2. q[k] = s[k]
      BY <3>1, <2>1, <1>2
    <3>3. QED
      BY <2>1, <3>1, <3>2
  <2>2. CASE p < k
    <3> DEFINE i == k - 1
    <3>1. i \in 1..(n - 1) /\ ~(i < p) /\ i + 1 = k /\ i <= k /\ ~(k < p)
      BY <2>2, <1>1
    <3>2. q[i] = s[k]
      BY <3>1, <1>2
    <3>3. QED
      BY <2>2, <3>1, <3>2
  <2>3. QED
    BY <1>1, <1>9, <2>1, <2>2
<1>10. ASSUME NEW i \in 1..(n - 1) PROVE \E k \in 1..n : k # p /\ q[i] = s[k] /\ i <= k /\ k <= i + 1 /\ (i < p => k = i) /\ (p <= i => k = i + 1)
  <2>1. CASE i < p
    <3>1. i \in 1..n /\ i # p /\ i <= i + 1 /\ ~(p <= i)
      BY <2>1, <1>1
    <3>2. QED
      BY <2>1, <3>1, <1>2
  <2>2. CASE ~(i < p)
    <3>1. i + 1 \in 1..n /\ i + 1 # p /\ i <= i + 1 /\ p <= i
      BY <2>2, <1>1
    <3>2. QED
      BY <2>2, <3>1, <1>2
  <2>3. QED
    BY <2>1, <2>2
<1>11. n \in 1..n /\ \A i : i \in 1..n <=> i \in 1..(n - 1) \/ i = n
  BY <1>1
<1>12. \A x : x \in ToSet(q) <=> x = b \/ \E k \in 1..n : k # p /\ x = s[k]
  <2>1. \A x : x \in ToSet(q) <=> \E i \in 1..n : x = q[i]
    BY <1>2 DEF ToSet
  <2>2. \A x : x \in ToSet(q) <=> x = b \/ \E i \in 1..(n - 1) : x = q[i]
    BY <2>1, <1>2, <1>11
  <2>3. \A k \in 1..n : k # p => \E i \in 1..(n - 1) : s[k] = q[i]
    BY <1>9
  <2>4. \A i \in 1..(n - 1) : \E k \in 1..n : k # p /\ q[i] = s[k]
    BY <1>10
  <2>5. ASSUME NEW x, x \in ToSet(q), x # b PROVE \E k \in 1..n : k # p /\ x = s[k]
    <3>1. PICK i \in 1..(n - 1) : x = q[i]
      BY <2>2, <2>5
    <3>2. QED
      BY <3>1, <2>4
  <2>6. ASSUME NEW k \in 1..n, k # p PROVE s[k] \in ToSet(q)
    BY <2>2, <2>3, <2>6
  <2>7. b \in ToSet(q)
    BY <2>2
  <2>8. QED
    BY <2>5, <2>6, <2>7
<1>13. ToSet(q) \subseteq ToSet(P)
  BY <1>1, <1>4, <1>7, <1>12
<1>14. ASSUME NEW i \in 1..n, NEW y PROVE y \in Since(P, q[i]) <=> \E k \in (i + 1)..n : y = q[k]
  <2>1. CASE i = n
    <3>1. (i + 1)..n = {}
      BY <2>1, <1>1
    <3>2. QED
      BY <2>1, <3>1, <1>2, <1>5
  <2>2. CASE i # n
    <3>1. i \in 1..(n - 1)
      BY <2>2, <1>11
    <3>2. PICK g \in 1..n : g # p /\ q[i] = s[g] /\ i <= g /\ g <= i + 1 /\ (i < p => g = i) /\ (p <= i => g = i + 1)
      BY <3>1, <1>10
    <3>3. y \in Since(P, q[i]) <=> y = b \/ \E k \in (g + 1)..n : y = s[k]
      BY <3>2, <1>5, <1>6, <1>8
    <3>4. n \in (i + 1)..n
      BY <3>1, <1>1
    <3>5. ASSUME NEW k \in (g + 1)..n, y = s[k] PROVE \E j \in (i + 1)..n : y = q[j]
      <4>1. k \in 1..n
        BY <3>2, <1>1
      <4>2. CASE k = p
        <5>1. p # 1
          BY <4>2, <3>2, <1>1
        <5>2. y = b
          BY <4>2, <5>1, <3>5
        <5>3. QED
          BY <5>2, <3>4, <1>2
      <4>3. CASE k # p
        <5>1. PICK j \in 1..(n - 1) : q[j] = s[k] /\ j <= k /\ (k < p => j = k) /\ (p < k => j = k - 1)
          BY <4>1, <4>3, <1>9
        <5>2. j \in (i + 1)..n
          BY <5>1, <4>1, <4>3, <3>1, <3>2, <1>1
        <5>3. QED
          BY <5>1, <5>2, <3>5
      <4>4. QED
        BY <4>2, <4>3
    <3>6. ASSUME NEW j \in (i + 1)..n, y = q[j] PROVE y = b \/ \E k \in (g + 1)..n : y = s[k]
      <4>1. CASE j = n
        BY <4>1, <3>6, <1>2
      <4>2. CASE j # n
        <5>1. j \in 1..(n - 1)
          BY <4>2, <3>1, <1>1
        <5>2. PICK k \in 1..n : k # p /\ q[j] = s[k] /\ j <= k /\ k <= j + 1 /\ (j < p => k = j) /\ (p <= j => k = j + 1)
          BY <5>1, <1>10
        <5>3. k \in (g + 1)..n
          BY <5>1, <5>2, <3>1, <3>2, <1>1
        <5>4. QED
          BY <5>2, <5>3, <3>6
      <4>3. QED
        BY <4>1, <4>2
    <3>7. y = b => \E j \in (i + 1)..n : y = q[j]
      BY <3>4, <1>2
    <3>8. QED
      BY <3>3, <3>5, <3>6, <3>7
  <2>3. QED
    BY <2>1, <2>2
<1>15. ASSUME NEW x \in ToSet(P) \ ToSet(q) PROVE n = c /\ ToSet(q) \subseteq Since(P, x)
  <2>1. x # b /\ x \in ToSet(A)
    BY <1>4, <1>12
  <2>2. CASE x \in ToSet(s)
    <3>1. x = s[p]
      BY <2>1, <2>2, <1>7, <1>12
    <3>2. p = 1 /\ n = c
      BY <2>1, <3>1 DEF n
    <3>3. ASSUME NEW y \in ToSet(q) PROVE y \in Since(P, x)
      <4>1. CASE y = b
        BY <4>1, <2>1, <1>5
      <4>2. CASE y # b
        <5>1. PICK k \in 1..n : k # p /\ y = s[k]
          BY <4>2, <1>12
        <5>2. k \in (p + 1)..n
          BY <5>1, <3>2, <1>1
        <5>3. y \in Since(A, x)
          BY <5>1, <5>2, <3>1, <1>1, <1>6
        <5>4. QED
          BY <5>3, <2>1, <1>5
      <4>3. QED
        BY <4>1, <4>2
    <3>4. QED
      BY <3>2, <3>3
  <2>3. CASE x \notin ToSet(s)
    <3>1. n = c /\ ToSet(s) \subseteq Since(A, x)
      BY <2>1, <2>3, <1>6
    <3>2. QED
      BY <3>1, <2>1, <1>5, <1>7, <1>12
  <2>4. QED
    BY <2>2, <2>3
<1>16. QED
  BY <1>1, <1>2, <1>13, <1>14, <1>15 DEF CacheIs, P

\* A new block, while there is room.
LEMMA CacheGrows ==
    ASSUME NEW A \in Seq(Nat), NEW c \in Nat, NEW s, CacheIs(A, c, s), NEW b \in Nat, b \notin ToSet(s), Len(s) < c
    PROVE  CacheIs(Append(A, b), c, Append(s, b))
<1> DEFINE n == Len(s)
           P == Append(A, b)
           q == Append(s, b)
<1>1. s \in Seq(Nat) /\ n \in Nat /\ n < c /\ ToSet(s) \subseteq ToSet(A)
  BY DEF CacheIs
<1>2. q \in Seq(Nat) /\ Len(q) = n + 1 /\ q[n + 1] = b /\ (\A i \in 1..n : q[i] = s[i]) /\ ToSet(q) = ToSet(s) \cup {b}
  BY <1>1, Appended
<1>3. ToSet(P) = ToSet(A) \cup {b}
  BY Appended
<1>4. \A x, y : y \in Since(P, x) <=> x # b /\ (y \in Since(A, x) \/ y = b)
  BY SinceMore
<1>5. /\ \A i \in 1..n : \A y : y \in Since(A, s[i]) <=> \E k \in (i + 1)..n : y = s[k]
      /\ \A x \in ToSet(A) : x \in ToSet(s)
  BY <1>1 DEF CacheIs
<1>6. \A i \in 1..n : s[i] # b
  BY <1>1 DEF ToSet
<1> HIDE DEF n, P, q
<1>7. ASSUME NEW i \in 1..(n + 1), NEW y PROVE y \in Since(P, q[i]) <=> \E k \in (i + 1)..(n + 1) : y = q[k]
  <2>1. CASE i = n + 1
    <3>1. (i + 1)..(n + 1) = {}
      BY <2>1, <1>1
    <3>2. QED
      BY <2>1, <3>1, <1>2, <1>4
  <2>2. CASE i # n + 1
    <3>1. i \in 1..n
      BY <2>2, <1>1
    <3>2. \A k : k \in (i + 1)..(n + 1) <=> k \in (i + 1)..n \/ k = n + 1
      BY <3>1, <1>1
    <3>3. \A k \in (i + 1)..n : q[k] = s[k]
      BY <3>1, <1>1, <1>2
    <3>4. y \in Since(P, q[i]) <=> y = b \/ \E k \in (i + 1)..n : y = s[k]
      BY <3>1, <1>2, <1>4, <1>5, <1>6
    <3>5. QED
      BY <3>2, <3>3, <3>4, <1>2
  <2>3. QED
    BY <2>1, <2>2
<1>8. n + 1 <= c /\ ToSet(q) \subseteq ToSet(P) /\ ToSet(P) \ ToSet(q) = {}
  BY <1>1, <1>2, <1>3, <1>5
<1>9. CacheIs(P, c, q)
  BY <1>2, <1>7, <1>8 DEF CacheIs
<1>10. QED
  BY <1>9 DEF P, q

\* A lookup keeps the cache what it is.
LEMMA CacheLookedUp ==
    ASSUME NEW A \in Seq(Nat), NEW c \in Nat \ {0}, NEW s, CacheIs(A, c, s), NEW b \in Nat
    PROVE  CacheIs(Append(A, b), c, LookedUp(s, c, b))
<1> DEFINE q == LookedUp(s, c, b)
<1>1. s \in Seq(Nat) /\ Len(s) \in Nat /\ Len(s) <= c /\ c \in Nat /\ c >= 1
  BY DEF CacheIs
<1>2. \A i, k \in 1..Len(s) : s[i] = s[k] => i = k
  BY CacheDistinct
<1>3. \/ b \in ToSet(s) /\ \E p \in 1..Len(s) : s[p] = b /\ Shifted(q, s, p, b)
      \/ b \notin ToSet(s) /\ Len(s) < c /\ q = Append(s, b)
      \/ b \notin ToSet(s) /\ Len(s) = c /\ Shifted(q, s, 1, b)
  BY <1>1, <1>2, LookedUpIs
<1> HIDE DEF q
<1>4. CASE \E p \in 1..Len(s) : s[p] = b /\ Shifted(q, s, p, b)
  BY <1>1, <1>4, CacheShifts DEF q
<1>5. CASE b \notin ToSet(s) /\ Len(s) < c /\ q = Append(s, b)
  BY <1>1, <1>5, CacheGrows DEF q
<1>6. CASE b \notin ToSet(s) /\ Len(s) = c /\ Shifted(q, s, 1, b)
  <2>1. 1 \in 1..Len(s)
    BY <1>1, <1>6
  <2>2. QED
    BY <1>1, <1>6, <2>1, CacheShifts DEF q
<1>7. QED
  BY <1>3, <1>4, <1>5, <1>6

\* The blocks of a sequence without repetitions are as many as it is long.
LEMMA DistinctCount ==
    ASSUME NEW s \in Seq(Nat), \A i, k \in 1..Len(s) : s[i] = s[k] => i = k
    PROVE  IsFiniteSet(ToSet(s)) /\ Cardinality(ToSet(s)) = Len(s)
<1> DEFINE n == Len(s)
           T == ToSet(s)
<1>1. n \in Nat /\ DOMAIN s = 1..n /\ s = [i \in 1..n |-> s[i]]
  OBVIOUS
<1>2. s \in Bijection(1..n, T)
  <2>1. s \in [1..n -> T] /\ \A t \in T : \E i \in 1..n : s[i] = t
    BY <1>1 DEF ToSet
  <2>2. IsInjective(s)
    BY <1>1 DEF IsInjective
  <2> HIDE DEF T, n
  <2>3. QED
    BY <2>1, <2>2 DEF Bijection, Injection, Surjection
<1>3. IsFiniteSet(1..n) /\ Cardinality(1..n) = n
  <2> HIDE DEF n
  <2>1. 1 \in Int /\ n \in Int
    BY <1>1
  <2>2. IsFiniteSet(1..n) /\ Cardinality(1..n) = IF 1 > n THEN 0 ELSE n - 1 + 1
    BY <2>1, FS_Interval
  <2>3. QED
    BY <2>2, <1>1
<1> HIDE DEF n, T
<1>4. ExistsBijection(1..n, T)
  BY <1>2 DEF ExistsBijection
<1>5. QED
  BY <1>3, <1>4, FS_Bijection DEF n, T

\* The blocks from i + 1 on are fewer than the sequence is long.
LEMMA RestCount ==
    ASSUME NEW s \in Seq(Nat), NEW i \in 1..Len(s), NEW T, \A y : y \in T <=> \E k \in (i + 1)..Len(s) : y = s[k]
    PROVE  IsFiniteSet(T) /\ Cardinality(T) < Len(s)
<1> DEFINE n == Len(s)
           D == (i + 1)..n
           f == [k \in D |-> s[k]]
<1>1. n \in Nat /\ i \in Nat /\ i >= 1 /\ i <= n
  OBVIOUS
<1>2. f \in Surjection(D, T)
  <2>1. f \in [D -> T] /\ \A y \in T : \E k \in D : f[k] = y
    OBVIOUS
  <2> HIDE DEF f, D
  <2>2. QED
    BY <2>1 DEF Surjection
<1>3. IsFiniteSet(D) /\ Cardinality(D) < n /\ Cardinality(D) \in Nat
  <2> HIDE DEF n
  <2>1. i + 1 \in Int /\ n \in Int
    BY <1>1
  <2>2. IsFiniteSet(D) /\ Cardinality(D) = IF i + 1 > n THEN 0 ELSE n - (i + 1) + 1
    BY <2>1, FS_Interval
  <2> HIDE DEF D
  <2>3. QED
    BY <2>2, <1>1
<1> HIDE DEF D, f
<1>4. IsFiniteSet(T) /\ Cardinality(T) <= Cardinality(D)
  BY <1>2, <1>3, FS_Surjection
<1>5. Cardinality(T) \in Nat
  BY <1>4, FS_CardinalityType
<1>6. QED
  BY <1>1, <1>3, <1>4, <1>5

\* The blocks used since are finitely many.
LEMMA SinceIsFinite ==
    ASSUME NEW A \in Seq(Nat), NEW x
    PROVE  IsFiniteSet(ToSet(A)) /\ IsFiniteSet(Since(A, x)) /\ Cardinality(Since(A, x)) \in Nat
<1>1. Len(A) \in Nat /\ DOMAIN A = 1..Len(A)
  OBVIOUS
<1>2. IsFiniteSet(ToSet(A))
  BY <1>1, ImageFinite
<1>3. Since(A, x) \in SUBSET ToSet(A)
  BY DEF Since
<1>4. QED
  BY <1>2, <1>3, FS_Subset, FS_CardinalityType

\* A block is in the cache when it was used and fewer than c others were used since.
LEMMA HitIs ==
    ASSUME NEW A \in Seq(Nat), NEW c \in Nat, NEW s, CacheIs(A, c, s), NEW x
    PROVE  x \in ToSet(s) <=> x \in ToSet(A) /\ Cardinality(Since(A, x)) < c
<1>1. /\ s \in Seq(Nat) /\ Len(s) \in Nat /\ Len(s) <= c /\ ToSet(s) \subseteq ToSet(A)
      /\ \A i, k \in 1..Len(s) : s[i] = s[k] => i = k
  <2>1. s \in Seq(Nat) /\ Len(s) <= c /\ ToSet(s) \subseteq ToSet(A)
    BY DEF CacheIs
  <2>2. QED
    BY <2>1, CacheDistinct
<1>2. IsFiniteSet(Since(A, x)) /\ Cardinality(Since(A, x)) \in Nat
  BY SinceIsFinite
<1>3. ASSUME x \in ToSet(s) PROVE x \in ToSet(A) /\ Cardinality(Since(A, x)) < c
  <2>1. PICK i \in 1..Len(s) : x = s[i]
    BY <1>1, <1>3 DEF ToSet
  <2>2. \A y : y \in Since(A, x) <=> \E k \in (i + 1)..Len(s) : y = s[k]
    BY <2>1 DEF CacheIs
  <2>3. Cardinality(Since(A, x)) < Len(s)
    BY <2>2, <1>1, RestCount
  <2>4. QED
    BY <2>3, <1>1, <1>2, <1>3
<1>4. ASSUME x \in ToSet(A), x \notin ToSet(s) PROVE ~(Cardinality(Since(A, x)) < c)
  <2>1. Len(s) = c /\ ToSet(s) \in SUBSET Since(A, x)
    BY <1>4 DEF CacheIs
  <2>2. Cardinality(ToSet(s)) = Len(s) /\ Cardinality(ToSet(s)) <= Cardinality(Since(A, x))
    BY <2>1, <1>1, <1>2, DistinctCount, FS_Subset
  <2>3. QED
    BY <2>1, <2>2, <1>2
<1>5. QED
  BY <1>3, <1>4

-----------------------------------------------------------------------------
(* The accesses that hit, over a sequence of accesses.                     *)

RepeatedIn(A) == {k \in DOMAIN A : \E i \in 1..(k - 1) : A[i] = A[k]}

BetweenIn(A, k) ==
    LET last == Max({0} \cup {i \in 1..(k - 1) : A[i] = A[k]})
    IN  IF last = 0 THEN {} ELSE {A[i] : i \in (last + 1)..(k - 1)}

LruHits(A, c) == {k \in RepeatedIn(A) : Cardinality(BetweenIn(A, k)) < c}

\* What was used between two earlier accesses does not change.
LEMMA BetweenKept ==
    ASSUME NEW A \in Seq(Nat), NEW b \in Nat, NEW k \in 1..Len(A)
    PROVE  BetweenIn(Append(A, b), k) = BetweenIn(A, k)
<1> DEFINE P == Append(A, b)
           n == Len(A)
<1>1. n \in Nat /\ \A i \in 1..n : P[i] = A[i]
  BY Appended
<1> HIDE DEF P, n
<1>2. \A i \in 1..(k - 1) : P[i] = A[i]
  BY <1>1 DEF n
<1>3. P[k] = A[k]
  BY <1>1 DEF n
<1> DEFINE I == {i \in 1..(k - 1) : A[i] = A[k]}
           J == {i \in 1..(k - 1) : P[i] = P[k]}
           m == Max({0} \cup I)
<1>4. I = J
  BY <1>2, <1>3
<1>5. m \in Nat
  <2>1. I \subseteq Nat /\ \A i \in I : i <= k
    BY DEF I
  <2>2. k \in Nat
    BY DEF n
  <2>3. IsFiniteSet(I)
    BY <2>1, <2>2, FS_BoundedSetOfNaturals
  <2> DEFINE Z == {0} \cup I
  <2>4. IsFiniteSet(Z) /\ Z \subseteq Int /\ Z # {} /\ Z \subseteq Nat
    <3>1. IsFiniteSet(I \cup {0})
      BY <2>3, FS_AddElement
    <3>2. I \cup {0} = Z
      OBVIOUS
    <3>3. Z \subseteq Nat /\ Z # {}
      BY <2>1, <3>2
    <3> HIDE DEF I
    <3>4. IsFiniteSet(Z)
      BY <3>1, <3>2
    <3> HIDE DEF Z
    <3>5. QED
      BY <3>3, <3>4
  <2> HIDE DEF Z
  <2>5. Max(Z) \in Z
    BY <2>4, MaxOfFinite
  <2>6. QED
    BY <2>4, <2>5 DEF Z
<1>6. BetweenIn(A, k) = IF m = 0 THEN {} ELSE {A[i] : i \in (m + 1)..(k - 1)}
  BY DEF BetweenIn
<1>7. BetweenIn(P, k) = IF m = 0 THEN {} ELSE {P[i] : i \in (m + 1)..(k - 1)}
  BY <1>4 DEF BetweenIn
<1> HIDE DEF m
<1>8. {A[i] : i \in (m + 1)..(k - 1)} = {P[i] : i \in (m + 1)..(k - 1)}
  <2>1. \A i \in (m + 1)..(k - 1) : i \in 1..(k - 1)
    BY <1>5
  <2>2. QED
    BY <2>1, <1>2
<1>9. QED
  BY <1>6, <1>7, <1>8 DEF P

\* What is between the last two uses of a block is what was used since the earlier one.
LEMMA BetweenLast ==
    ASSUME NEW A \in Seq(Nat), NEW b \in ToSet(A)
    PROVE  BetweenIn(Append(A, b), Len(A) + 1) = Since(A, b)
<1> DEFINE P == Append(A, b)
           n == Len(A)
           I == {i \in 1..n : A[i] = b}
           Z == {0} \cup I
           m == Max(Z)
<1>1. b \in Nat /\ DOMAIN A = 1..n /\ n \in Nat
  BY DEF ToSet
<1>2. P[n + 1] = b /\ \A i \in 1..n : P[i] = A[i]
  BY <1>1, Appended
<1>3. (n + 1) - 1 = n
  BY <1>1
<1> HIDE DEF n, P
<1>4. I # {} /\ I \subseteq Nat /\ \A i \in I : i <= n /\ i >= 1
  BY <1>1 DEF ToSet
<1>5. Z \subseteq Int /\ IsFiniteSet(Z) /\ Z # {}
  <2>1. IsFiniteSet(I)
    BY <1>1, <1>4, FS_BoundedSetOfNaturals
  <2>2. IsFiniteSet(I \cup {0})
    BY <2>1, FS_AddElement
  <2>3. I \cup {0} = Z
    OBVIOUS
  <2>4. Z \subseteq Int /\ Z # {}
    BY <1>4
  <2> HIDE DEF Z
  <2>5. QED
    BY <2>2, <2>3, <2>4
<1>6. m \in Z /\ \A i \in Z : i <= m
  <2> HIDE DEF Z
  <2>1. QED
    BY <1>5, MaxOfFinite
<1>7. m \in I
  BY <1>4, <1>6
<1>8. BetweenIn(P, n + 1) = {P[i] : i \in (m + 1)..n}
  <2>1. {i \in 1..n : P[i] = P[n + 1]} = I
    BY <1>2
  <2>2. m # 0
    BY <1>4, <1>7
  <2>3. QED
    BY <2>1, <2>2, <1>3 DEF BetweenIn
<1> HIDE DEF m
<1>9. m \in 1..n /\ A[m] = b /\ \A i \in 1..n : A[i] = b => i <= m
  BY <1>6, <1>7
<1>10. {P[i] : i \in (m + 1)..n} = {A[i] : i \in (m + 1)..n}
  <2>1. \A i \in (m + 1)..n : P[i] = A[i]
    BY <1>1, <1>2, <1>9
  <2>2. QED
    BY <2>1
<1>11. ASSUME NEW i \in (m + 1)..n PROVE A[i] \in Since(A, b)
  <2>1. i \in 1..n /\ A[i] \in ToSet(A)
    BY <1>1, <1>9 DEF ToSet
  <2>2. \A k \in i..n : A[k] # b
    BY <1>1, <1>9, <2>1
  <2>3. QED
    BY <2>1, <2>2 DEF Since, n
<1>12. ASSUME NEW y \in Since(A, b) PROVE \E i \in (m + 1)..n : y = A[i]
  <2>1. PICK i \in 1..n : A[i] = y /\ \A k \in i..n : A[k] # b
    BY DEF Since, n
  <2>2. ~(i <= m)
    <3>1. i <= m => m \in i..n
      BY <1>1, <1>9
    <3>2. QED
      BY <2>1, <3>1, <1>9
  <2>3. i \in (m + 1)..n
    BY <1>1, <1>9, <2>2
  <2>4. QED
    BY <2>1, <2>3
<1>13. {A[i] : i \in (m + 1)..n} = Since(A, b)
  BY <1>11, <1>12
<1>14. QED
  BY <1>8, <1>10, <1>13 DEF P, n

\* One more access: what it repeats and whether it hits.
LEMMA RepeatedMore ==
    ASSUME NEW A \in Seq(Nat), NEW b \in Nat, NEW k
    PROVE  k \in RepeatedIn(Append(A, b)) <=> k \in RepeatedIn(A) \/ (k = Len(A) + 1 /\ b \in ToSet(A))
<1> DEFINE P == Append(A, b)
           n == Len(A)
<1>1. P \in Seq(Nat) /\ n \in Nat /\ Len(P) = n + 1 /\ P[n + 1] = b /\ \A i \in 1..n : P[i] = A[i]
  BY Appended
<1>2. DOMAIN A = 1..n /\ DOMAIN P = 1..(n + 1)
  BY <1>1
<1> HIDE DEF P, n
<1>3. k \in 1..(n + 1) <=> k \in 1..n \/ k = n + 1
  BY <1>1
<1>4. CASE k \in 1..n
  <2>1. \A i \in 1..(k - 1) : i \in 1..n
    BY <1>1, <1>4
  <2>2. (\E i \in 1..(k - 1) : P[i] = P[k]) <=> \E i \in 1..(k - 1) : A[i] = A[k]
    BY <2>1, <1>1, <1>4
  <2>3. k # n + 1
    BY <1>1, <1>4
  <2>4. QED
    BY <2>2, <2>3, <1>2, <1>3, <1>4 DEF RepeatedIn, P, n
<1>5. CASE k = n + 1
  <2>1. k - 1 = n /\ k \notin 1..n
    BY <1>1, <1>5
  <2>2. (\E i \in 1..(k - 1) : P[i] = P[k]) <=> b \in ToSet(A)
    BY <2>1, <1>1, <1>2, <1>5 DEF ToSet
  <2>3. QED
    BY <2>1, <2>2, <1>2, <1>3, <1>5 DEF RepeatedIn, P, n
<1>6. CASE k \notin 1..(n + 1)
  BY <1>2, <1>3, <1>6 DEF RepeatedIn, P, n
<1>7. QED
  BY <1>3, <1>4, <1>5, <1>6

\* The reference hits of one more access.
LEMMA HitsMore ==
    ASSUME NEW A \in Seq(Nat), NEW b \in Nat, NEW c, NEW k
    PROVE  k \in LruHits(Append(A, b), c) <=>
               k \in LruHits(A, c) \/ (k = Len(A) + 1 /\ b \in ToSet(A) /\ Cardinality(Since(A, b)) < c)
<1>1. k \in RepeatedIn(Append(A, b)) <=> k \in RepeatedIn(A) \/ (k = Len(A) + 1 /\ b \in ToSet(A))
  BY RepeatedMore
<1>2. ASSUME k \in RepeatedIn(A) PROVE BetweenIn(Append(A, b), k) = BetweenIn(A, k) /\ k # Len(A) + 1
  <2>1. k \in 1..Len(A)
    BY <1>2 DEF RepeatedIn
  <2>2. QED
    BY <2>1, BetweenKept
<1>3. b \in ToSet(A) => BetweenIn(Append(A, b), Len(A) + 1) = Since(A, b)
  BY BetweenLast
<1>4. CASE k \in RepeatedIn(A)
  BY <1>1, <1>2, <1>4 DEF LruHits
<1>5. CASE k \notin RepeatedIn(A)
  BY <1>1, <1>3, <1>5 DEF LruHits
<1>6. QED
  BY <1>4, <1>5

\* The hits can be counted.
LEMMA HitsFinite ==
    ASSUME NEW A \in Seq(Nat), NEW c
    PROVE  /\ IsFiniteSet(RepeatedIn(A)) /\ IsFiniteSet(LruHits(A, c))
           /\ Cardinality(RepeatedIn(A)) \in Nat /\ Cardinality(LruHits(A, c)) \in Nat
           /\ \A k \in RepeatedIn(A) : k \in Nat /\ k <= Len(A)
<1>1. RepeatedIn(A) \subseteq 1..Len(A) /\ Len(A) \in Nat /\ LruHits(A, c) \in SUBSET RepeatedIn(A)
  BY DEF RepeatedIn, LruHits
<1>2. \A k \in RepeatedIn(A) : k \in Nat /\ k <= Len(A)
  BY <1>1
<1>3. RepeatedIn(A) \in SUBSET Nat
  BY <1>2
<1>4. IsFiniteSet(RepeatedIn(A))
  BY <1>1, <1>2, <1>3, FS_BoundedSetOfNaturals
<1>5. IsFiniteSet(LruHits(A, c))
  BY <1>1, <1>4, FS_Subset
<1>6. QED
  BY <1>2, <1>4, <1>5, FS_CardinalityType

\* A set that gains e when the condition holds.
LEMMA GainsOne ==
    ASSUME NEW S, NEW T, NEW e, NEW cond \in BOOLEAN, IsFiniteSet(S), e \notin S,
           \A x : x \in T <=> x \in S \/ (x = e /\ cond)
    PROVE  Cardinality(T) = Cardinality(S) + (IF cond THEN 1 ELSE 0) /\ Cardinality(S) \in Nat
<1>1. Cardinality(S) \in Nat
  BY FS_CardinalityType
<1>2. CASE cond
  <2>1. T = S \cup {e}
    BY <1>2
  <2>2. QED
    BY <2>1, <1>1, <1>2, FS_AddElement
<1>3. CASE ~cond
  <2>1. T = S
    BY <1>3
  <2>2. QED
    BY <2>1, <1>1, <1>3
<1>4. QED
  BY <1>2, <1>3

\* Caches and hit counters after the accesses A; an access that repeats nothing is the
\* first of its block.
LruOK(A, S, H) ==
    /\ A \in Seq(Nat) /\ S \in [Capacity -> Seq(Nat)] /\ H \in [Capacity -> Nat]
    /\ \A c \in Capacity : CacheIs(A, c, S[c]) /\ H[c] = Cardinality(LruHits(A, c))
    /\ Cardinality(RepeatedIn(A)) + Cardinality(ToSet(A)) = Len(A)

\* One access of every simulated cache keeps what LruOK says.
LEMMA LruNext ==
    ASSUME NEW A, NEW S, NEW H, LruOK(A, S, H), NEW b \in Nat, NEW Q, NEW R,
           Q = [c \in Capacity |-> LookedUp(S[c], c, b)],
           R = [c \in Capacity |-> H[c] + (IF b \in ToSet(S[c]) THEN 1 ELSE 0)]
    PROVE  LruOK(Append(A, b), Q, R)
<1> DEFINE P == Append(A, b)
           n == Len(A)
<1>1. A \in Seq(Nat) /\ S \in [Capacity -> Seq(Nat)] /\ H \in [Capacity -> Nat]
  BY DEF LruOK
<1>2. P \in Seq(Nat) /\ n \in Nat /\ Len(P) = n + 1 /\ ToSet(P) = ToSet(A) \cup {b}
  BY <1>1, Appended
<1>3. ASSUME NEW c \in Capacity
      PROVE  CacheIs(P, c, Q[c]) /\ R[c] = Cardinality(LruHits(P, c)) /\ R[c] \in Nat
  <2>1. c \in Nat \ {0} /\ c \in Nat /\ CacheIs(A, c, S[c]) /\ H[c] = Cardinality(LruHits(A, c))
    BY TraceAssumption DEF LruOK
  <2>2. CacheIs(P, c, Q[c])
    BY <2>1, <1>1, CacheLookedUp
  <2> DEFINE cond == b \in ToSet(S[c])
  <2>3. cond <=> b \in ToSet(A) /\ Cardinality(Since(A, b)) < c
    BY <2>1, <1>1, HitIs
  <2>4. \A k : k \in LruHits(P, c) <=> k \in LruHits(A, c) \/ (k = n + 1 /\ cond)
    BY <2>3, <1>1, HitsMore
  <2>5. IsFiniteSet(LruHits(A, c)) /\ n + 1 \notin LruHits(A, c)
    <3>1. IsFiniteSet(LruHits(A, c)) /\ \A k \in RepeatedIn(A) : k \in Nat /\ k <= n
      BY <1>1, HitsFinite
    <3>2. LruHits(A, c) \subseteq RepeatedIn(A)
      BY DEF LruHits
    <3>3. QED
      BY <3>1, <3>2, <1>2
  <2>6. R[c] = H[c] + (IF cond THEN 1 ELSE 0)
    OBVIOUS
  <2>7. cond \in BOOLEAN
    OBVIOUS
  <2> HIDE DEF cond, P, n
  <2>8. /\ Cardinality(LruHits(P, c)) = Cardinality(LruHits(A, c)) + (IF cond THEN 1 ELSE 0)
        /\ Cardinality(LruHits(A, c)) \in Nat
    BY <2>4, <2>5, <2>7, GainsOne
  <2>9. QED
    BY <2>1, <2>2, <2>6, <2>8
<1>4. Cardinality(RepeatedIn(P)) + Cardinality(ToSet(P)) = Len(P)
  <2> DEFINE cond == b \in ToSet(A)
  <2>1. \A k : k \in RepeatedIn(P) <=> k \in RepeatedIn(A) \/ (k = n + 1 /\ cond)
    BY <1>1, RepeatedMore
  <2>2. IsFiniteSet(RepeatedIn(A)) /\ n + 1 \notin RepeatedIn(A) /\ cond \in BOOLEAN
    <3>1. IsFiniteSet(RepeatedIn(A)) /\ \A k \in RepeatedIn(A) : k \in Nat /\ k <= n
      BY <1>1, HitsFinite
    <3>2. cond \in BOOLEAN
      OBVIOUS
    <3> HIDE DEF cond, n
    <3>3. n + 1 \notin RepeatedIn(A)
      BY <3>1, <1>2
    <3>4. QED
      BY <3>1, <3>2, <3>3
  <2>3. IsFiniteSet(ToSet(A))
    BY <1>1, SinceIsFinite
  <2>4. Cardinality(ToSet(P)) = (IF cond THEN Cardinality(ToSet(A)) ELSE Cardinality(ToSet(A)) + 1) /\ Cardinality(ToSet(A)) \in Nat
    BY <2>3, <1>2, FS_AddElement, FS_CardinalityType
  <2>5. Cardinality(RepeatedIn(A)) + Cardinality(ToSet(A)) = n
    BY DEF LruOK
  <2> HIDE DEF cond, P, n
  <2>6. /\ Cardinality(RepeatedIn(P)) = Cardinality(RepeatedIn(A)) + (IF cond THEN 1 ELSE 0)
        /\ Cardinality(RepeatedIn(A)) \in Nat
    BY <2>1, <2>2, GainsOne
  <2>7. QED
    BY <2>4, <2>5, <2>6, <1>2
<1>5. Q \in [Capacity -> Seq(Nat)] /\ R \in [Capacity -> Nat]
  BY <1>3 DEF CacheIs
<1>6. QED
  BY <1>2, <1>3, <1>4, <1>5 DEF LruOK

\* Min of a set of naturals is a member of it.
LEMMA LeastIsMin ==
    ASSUME NEW I, I \subseteq Nat, I # {}
    PROVE  Min(I) \in I
<1>1. \E x \in I : \A y \in I : x <= y
  BY LeastOf
<1>2. QED
  BY <1>1 DEF Min

\* A simulated cache is a sequence of blocks.
LEMMA LookedUpType ==
    ASSUME NEW s \in Seq(Nat), NEW c, NEW b \in Nat
    PROVE  LookedUp(s, c, b) \in Seq(Nat)
<1> DEFINE n == Len(s)
           t == RemoveFirst(s, b)
<1>1. t \in Seq(Nat)
  <2>1. CASE ~ \E i \in 1..n : s[i] = b
    BY <2>1 DEF RemoveFirst
  <2>2. CASE \E i \in 1..n : s[i] = b
    <3> DEFINE I == {i \in 1..n : s[i] = b}
               m == Min(I)
    <3>1. I # {} /\ I \subseteq Nat
      BY <2>2
    <3>2. m \in I
      BY <3>1, LeastIsMin
    <3>3. SelectInSeq(s, LAMBDA w : w = b) = m
      BY <3>1 DEF SelectInSeq
    <3>4. t = RemoveAt(s, m)
      BY <2>2, <3>3 DEF RemoveFirst
    <3>5. m \in 1..n /\ n \in Nat
      BY <3>2
    <3> HIDE DEF m, t
    <3>6. SubSeq(s, 1, m - 1) \in Seq(Nat) /\ SubSeq(s, m + 1, n) \in Seq(Nat)
      BY <3>5
    <3>7. QED
      BY <3>4, <3>6, ConcatProperties DEF RemoveAt
  <2>3. QED
    BY <2>1, <2>2
<1> HIDE DEF t
<1>2. Append(t, b) \in Seq(Nat) /\ Append(t, b) # <<>>
  BY <1>1, AppendProperties
<1>3. Tail(Append(t, b)) \in Seq(Nat)
  BY <1>2, HeadTailProperties
<1>4. QED
  BY <1>2, <1>3 DEF LookedUp, t

\* What one access does to the simulation's caches and counters.
Accessed(u, b) ==
    [sims |-> [c \in Capacity |-> LookedUp(u.sims[c], c, b)],
     hits |-> [c \in Capacity |-> u.hits[c] + (IF b \in ToSet(u.sims[c]) THEN 1 ELSE 0)]]

\* The steps of update_lru_sims over the blocks of a batch.
Steps(f, blocks) ==
    /\ f[0] = [sims |-> sims, hits |-> hits]
    /\ \A i \in 1..Len(blocks) : f[i] = Accessed(f[i - 1], blocks[i])

\* update_lru_sims goes block by block.
LEMMA StepsExist ==
    ASSUME sims \in [Capacity -> Seq(Nat)], hits \in [Capacity -> Nat], NEW blocks \in Seq(Nat)
    PROVE  \E f : Steps(f, blocks) /\ update_lru_sims(blocks) = f[Len(blocks)]
<1> DEFINE n == Len(blocks)
           D == [sims : [Capacity -> Seq(Nat)], hits : [Capacity -> Nat]]
           z == [sims |-> sims, hits |-> hits]
           G == [p \in D \X (1..n) |-> Accessed(p[1], blocks[p[2]])]
           F == CHOOSE F : F = [i \in 0..n |-> IF i = 0 THEN z ELSE Accessed(F[i - 1], blocks[i])]
<1>1. n \in Nat /\ z \in D /\ \A i \in 1..n : blocks[i] \in Nat
  OBVIOUS
<1>2. ASSUME NEW u \in D, NEW b \in Nat PROVE Accessed(u, b) \in D
  <2>1. \A c \in Capacity : u.sims[c] \in Seq(Nat) /\ u.hits[c] \in Nat
    OBVIOUS
  <2>2. \A c \in Capacity : LookedUp(u.sims[c], c, b) \in Seq(Nat)
    BY <2>1, LookedUpType
  <2> DEFINE Q == [c \in Capacity |-> LookedUp(u.sims[c], c, b)]
             R == [c \in Capacity |-> u.hits[c] + (IF b \in ToSet(u.sims[c]) THEN 1 ELSE 0)]
  <2>3. Q \in [Capacity -> Seq(Nat)] /\ R \in [Capacity -> Nat]
    BY <2>1, <2>2
  <2>4. Accessed(u, b) = [sims |-> Q, hits |-> R]
    BY DEF Accessed
  <2> HIDE DEF Q, R
  <2>5. QED
    BY <2>3, <2>4
<1>3. G \in [D \X (1..n) -> D]
  <2> HIDE DEF D, n
  <2>1. \A p \in D \X (1..n) : p[1] \in D /\ p[2] \in 1..n
    OBVIOUS
  <2>2. \A p \in D \X (1..n) : Accessed(p[1], blocks[p[2]]) \in D
    BY <1>1, <1>2, <2>1
  <2>3. QED
    BY <2>2
<1>4. PICK f : Unrolls(f, D, z, n, G)
  <2> HIDE DEF G, D, z, n
  <2>1. QED
    BY <1>1, <1>3, RecursionExists, Zenon
<1>5. f \in [0..n -> D] /\ f[0] = z /\ \A i \in 1..n : f[i] = Accessed(f[i - 1], blocks[i])
  <2>1. f \in [0..n -> D] /\ f[0] = z /\ \A i \in 1..n : f[i] = G[<<f[i - 1], i>>]
    BY <1>4 DEF Unrolls
  <2> HIDE DEF D, z, n
  <2>2. ASSUME NEW i \in 1..n PROVE f[i] = Accessed(f[i - 1], blocks[i])
    <3>1. i - 1 \in 0..n
      BY <1>1
    <3>2. <<f[i - 1], i>> \in D \X (1..n)
      BY <3>1, <2>1
    <3>3. QED
      BY <2>1, <3>2
  <2>3. QED
    BY <2>1, <2>2
<1>6. f = [i \in 0..n |-> IF i = 0 THEN z ELSE Accessed(f[i - 1], blocks[i])]
  <2> HIDE DEF D, z, n
  <2>1. \A i \in 0..n : f[i] = IF i = 0 THEN z ELSE Accessed(f[i - 1], blocks[i])
    BY <1>1, <1>5
  <2>2. QED
    BY <1>5, <2>1
<1>7. F = [i \in 0..n |-> IF i = 0 THEN z ELSE Accessed(F[i - 1], blocks[i])]
  <2> HIDE DEF z, n
  <2>1. QED
    BY <1>6
<1>8. update_lru_sims(blocks) = F[n]
  BY DEF update_lru_sims, Accessed
<1> HIDE DEF F, z
<1>9. F[0] = z /\ \A i \in 1..n : F[i] = Accessed(F[i - 1], blocks[i])
  <2> HIDE DEF n
  <2>1. QED
    BY <1>7, <1>1
<1>10. Steps(F, blocks)
  BY <1>9 DEF Steps, z
<1>11. QED
  BY <1>8, <1>10

\* Concatenation is associative.
LEMMA Regrouped ==
    ASSUME NEW a \in Seq(Nat), NEW b \in Seq(Nat), NEW c \in Seq(Nat)
    PROVE  (a \o b) \o c = a \o (b \o c)
BY ConcatAssociative

\* One more block of the batch.
LEMMA ConcatMore ==
    ASSUME NEW A \in Seq(Nat), NEW B \in Seq(Nat), NEW k \in Nat, k + 1 <= Len(B)
    PROVE  Append(A \o SubSeq(B, 1, k), B[k + 1]) = A \o SubSeq(B, 1, k + 1)
<1> DEFINE m == k + 1
           x == SubSeq(B, 1, k)
           e == B[m]
<1>1. 1 \in 1..Len(B) /\ m \in 1..Len(B) /\ m - 1 = k
  OBVIOUS
<1>2. SubSeq(B, 1, m) = x \o <<e>>
  <2>1. SubSeq(B, 1, m) = SubSeq(B, 1, m - 1) \o <<B[m]>>
    <3> HIDE DEF m
    <3>1. QED
      BY <1>1, SubSeqRecursiveSecond
  <2>2. QED
    BY <2>1, <1>1
<1>3. x \in Seq(Nat) /\ e \in Nat
  BY <1>1
<1> HIDE DEF x, e, m
<1>4. <<e>> \in Seq(Nat) /\ A \o x \in Seq(Nat)
  BY <1>3, ConcatProperties
<1>5. Append(A \o x, e) = (A \o x) \o <<e>>
  BY <1>3, <1>4, AppendIsConcat
<1>6. (A \o x) \o <<e>> = A \o (x \o <<e>>)
  BY <1>3, <1>4, Regrouped
<1>7. QED
  BY <1>2, <1>5, <1>6 DEF x, e, m

\* The blocks of a batch, one after the other.
LEMMA LruBatch ==
    ASSUME LruOK(accesses, sims, hits), NEW blocks \in Seq(Nat)
    PROVE  LET u == update_lru_sims(blocks) IN LruOK(accesses \o blocks, u.sims, u.hits)
<1> DEFINE n == Len(blocks)
           pre(k) == accesses \o SubSeq(blocks, 1, k)
<1>1. accesses \in Seq(Nat) /\ sims \in [Capacity -> Seq(Nat)] /\ hits \in [Capacity -> Nat] /\ n \in Nat
  BY DEF LruOK
<1>2. PICK f : Steps(f, blocks) /\ update_lru_sims(blocks) = f[n]
  BY <1>1, StepsExist
<1> DEFINE Good(k) == LruOK(pre(k), f[k].sims, f[k].hits)
           T == {k \in Nat : k <= n => Good(k)}
<1>3. 0 \in T
  <2>1. f[0].sims = sims /\ f[0].hits = hits
    BY <1>2 DEF Steps
  <2>2. pre(0) = accesses
    <3>1. SubSeq(blocks, 1, 0) = <<>>
      BY <1>1
    <3>2. accesses \o <<>> = accesses
      BY <1>1, ConcatEmptySeq
    <3>3. QED
      BY <3>1, <3>2
  <2> HIDE DEF pre
  <2>3. QED
    BY <2>1, <2>2
<1>4. ASSUME NEW k \in Nat, k \in T PROVE k + 1 \in T
  <2> SUFFICES ASSUME k + 1 <= n PROVE Good(k + 1)
    OBVIOUS
  <2>1. Good(k)
    BY <1>1, <1>4
  <2> DEFINE b == blocks[k + 1]
  <2>2. k + 1 \in 1..n /\ (k + 1) - 1 = k /\ b \in Nat
    BY <1>1
  <2>3. f[k + 1] = Accessed(f[k], b)
    BY <1>2, <2>2 DEF Steps
  <2>4. pre(k + 1) = Append(pre(k), b)
    BY <1>1, ConcatMore
  <2> HIDE DEF b, pre, n
  <2>5. /\ f[k + 1].sims = [c \in Capacity |-> LookedUp(f[k].sims[c], c, b)]
        /\ f[k + 1].hits = [c \in Capacity |-> f[k].hits[c] + (IF b \in ToSet(f[k].sims[c]) THEN 1 ELSE 0)]
    BY <2>3 DEF Accessed
  <2>6. LruOK(Append(pre(k), b), f[k + 1].sims, f[k + 1].hits)
    BY <2>1, <2>2, <2>5, LruNext
  <2>7. QED
    BY <2>4, <2>6
<1>5. \A k \in Nat : k \in T
  <2> HIDE DEF T
  <2>1. QED
    BY <1>3, <1>4, Inductive
<1>6. Good(n)
  BY <1>1, <1>5
<1>7. pre(n) = accesses \o blocks
  BY <1>1, SubSeqFull
<1> HIDE DEF pre, n
<1>8. QED
  BY <1>2, <1>6, <1>7

\* Sequences and counters before the first access.
LEMMA LruNone ==
    ASSUME NEW S, NEW H, S = [c \in Capacity |-> <<>>], H = [c \in Capacity |-> 0]
    PROVE  LruOK(<<>>, S, H)
<1>1. ToSet(<<>>) = {} /\ RepeatedIn(<<>>) = {} /\ <<>> \in Seq(Nat) /\ Len(<<>>) = 0
  BY DEF ToSet, RepeatedIn
<1>2. \A c : LruHits(<<>>, c) = {}
  BY <1>1 DEF LruHits
<1>3. Cardinality({}) = 0
  BY FS_EmptySet
<1>4. \A c \in Capacity : CacheIs(<<>>, c, <<>>)
  BY <1>1, TraceAssumption DEF CacheIs
<1>5. S \in [Capacity -> Seq(Nat)] /\ H \in [Capacity -> Nat]
  BY <1>1
<1>6. \A c \in Capacity : S[c] = <<>> /\ H[c] = 0
  OBVIOUS
<1>7. Cardinality(RepeatedIn(<<>>)) + Cardinality(ToSet(<<>>)) = Len(<<>>)
  <2>1. Cardinality(RepeatedIn(<<>>)) = 0 /\ Cardinality(ToSet(<<>>)) = 0
    BY <1>1, <1>3
  <2>2. QED
    BY <2>1, <1>1
<1>8. \A c \in Capacity : CacheIs(<<>>, c, S[c]) /\ H[c] = Cardinality(LruHits(<<>>, c))
  BY <1>2, <1>3, <1>4, <1>6
<1>9. QED
  BY <1>1, <1>5, <1>7, <1>8 DEF LruOK

\* The simulation is that of the accesses so far, which are the blocks of the batches.
SimsOK ==
    /\ LruOK(accesses, sims, hits)
    /\ stage = "trace" => ToSet(accesses) = Used(next)

\* Simulated caches are empty at first.
LEMMA SimsOKInit == TraceInit => SimsOK
<1> SUFFICES ASSUME TraceInit PROVE SimsOK
  OBVIOUS
<1>1. accesses = <<>> /\ sims = [c \in Capacity |-> <<>>] /\ hits = [c \in Capacity |-> 0] /\ stage = "raw"
  BY DEF TraceInit
<1>2. LruOK(<<>>, sims, hits)
  BY <1>1, LruNone
<1>3. QED
  BY <1>1, <1>2 DEF SimsOK

\* A batch keeps what the simulated caches are.
LEMMA SimsBatch ==
    ASSUME TraceOK, SimsOK, NextBatch
    PROVE  /\ SimsOK' /\ Len(accesses') = Len(accesses) + Cardinality(BlocksOf(next))
           /\ Len(accesses) \in Nat
<1>1. stage = "trace" /\ UNCHANGED <<job, stage, trace>> /\ next \in Nat /\ next < num_batches /\ Readable(trace)
  BY BatchRead
<1> DEFINE B == ids_to_blocks(get_batch_ids(next))
           u == update_lru_sims(B)
<1>2. next' = next + 1 /\ accesses' = accesses \o B /\ sims' = u.sims /\ hits' = u.hits
  BY BatchTaken
<1>3. B \in Seq(Nat) /\ ToSet(B) = BlocksOf(next) /\ Len(B) = Cardinality(BlocksOf(next))
  BY <1>1, BlocksOfBatch
<1> HIDE DEF B
<1>4. LruOK(accesses, sims, hits) /\ accesses \in Seq(Nat) /\ ToSet(accesses) = Used(next)
  BY <1>1 DEF SimsOK, LruOK
<1>5. LruOK(accesses \o B, u.sims, u.hits)
  BY <1>3, <1>4, LruBatch
<1> HIDE DEF u
<1>6. LruOK(accesses, sims, hits)'
  BY <1>2, <1>5 DEF LruOK
<1>7. ToSet(accesses') = Used(next + 1)
  <2>1. ToSet(accesses \o B) = ToSet(accesses) \cup ToSet(B)
    BY <1>3, <1>4, ToSetConcat
  <2>2. Used(next + 1) = Used(next) \cup BlocksOf(next)
    BY <1>1, UsedMore
  <2>3. QED
    BY <2>1, <2>2, <1>2, <1>3, <1>4
<1>8. Used(next)' = Used(next + 1)
  BY <1>1, <1>2 DEF Used, BlocksOf, get_batch_ids, BatchStart, BatchEnd, IsSampled, Rows
<1>9. Len(accesses') = Len(accesses) + Len(B) /\ Len(accesses) \in Nat
  <2>1. PICK a, b : a = accesses /\ b = B
    OBVIOUS
  <2>2. a \in Seq(Nat) /\ b \in Seq(Nat)
    BY <2>1, <1>3, <1>4
  <2>3. Len(a \o b) = Len(a) + Len(b) /\ Len(a) \in Nat
    BY <2>2
  <2>4. QED
    BY <2>1, <2>3, <1>2
<1>10. SimsOK'
  BY <1>6, <1>7, <1>8 DEF SimsOK
<1>11. QED
  BY <1>3, <1>9, <1>10

\* Every step of the trace tools keeps what the simulated caches are.
LEMMA SimsOKStep == TraceOK /\ SimsOK /\ [TraceNext]_traceVars => SimsOK'
<1> SUFFICES ASSUME TraceOK, SimsOK, [TraceNext]_traceVars PROVE SimsOK'
  OBVIOUS
<1>1. CASE preprocess \/ convert \/ generate_ids \/ Import
  <2>1. UNCHANGED <<next, sims, hits, accesses>> /\ stage' = "trace" /\ stage = "raw"
    BY <1>1, WrittenTrace
  <2>2. accesses = <<>> /\ next = 0
    BY <2>1 DEF TraceOK, TraceInit
  <2>3. LruOK(accesses, sims, hits)'
    BY <2>1 DEF SimsOK, LruOK
  <2>4. Used(0)' = {}
    BY DEF Used
  <2>5. ToSet(accesses') = {} /\ Used(next)' = {}
    BY <2>1, <2>2, <2>4 DEF ToSet
  <2>6. QED
    BY <2>3, <2>5 DEF SimsOK
<1>2. CASE NextBatch
  BY <1>2, SimsBatch
<1>3. CASE UNCHANGED traceVars
  <2>1. UNCHANGED <<trace, stage, next, sims, hits, accesses>>
    BY <1>3 DEF traceVars
  <2>2. QED
    BY <2>1 DEF SimsOK, LruOK, Used, BlocksOf, get_batch_ids, BatchStart, BatchEnd, IsSampled, Rows
<1>4. QED
  BY <1>1, <1>2, <1>3 DEF TraceNext

\* The invariant counts the reference hits.
LEMMA SimulatesLru == SimsOK => HitsAreLruHits
<1> SUFFICES ASSUME SimsOK, NEW c \in Capacity
             PROVE  hits[c] = Cardinality({k \in Repeated : Cardinality(Between(k)) < c})
  BY DEF HitsAreLruHits
<1>1. hits[c] = Cardinality(LruHits(accesses, c))
  BY DEF SimsOK, LruOK
<1>2. Repeated = RepeatedIn(accesses)
  BY DEF Repeated, RepeatedIn
<1>3. \A k : Between(k) = BetweenIn(accesses, k)
  BY DEF Between, BetweenIn
<1>4. QED
  BY <1>1, <1>2, <1>3 DEF LruHits

\* For every capacity the simulation of analyze_trace counts exactly the accesses that an LRU
\* cache of that many blocks hits, whatever the trace: hits move a block to the end, misses
\* evict the block that was used least recently.
THEOREM SimulationIsLru == Spec => []HitsAreLruHits
<1>1. Init => TraceOK /\ SimsOK
  BY TraceOKInit, SimsOKInit DEF Init
<1>2. TraceOK /\ SimsOK /\ [Next]_<<traceVars, driverVars>> => (TraceOK /\ SimsOK)'
  BY TraceSteps, TraceOKStep, SimsOKStep
<1>3. QED
  BY <1>1, <1>2, SimulatesLru, PTL DEF Spec

-----------------------------------------------------------------------------
(* Reuse distances.                                                        *)

\* L gives each block used in the first n batches the latest of them that uses it.
LastOK(L, n) ==
    /\ DOMAIN L = Used(n)
    /\ \A x \in Used(n) : /\ L[x] \in 0..(n - 1) /\ x \in BlocksOf(L[x])
                          /\ \A e \in (L[x] + 1)..(n - 1) : x \notin BlocksOf(e)

\* last_seen after one more batch.
LEMMA LastMore ==
    ASSUME Readable(trace), NEW n \in Nat, n < num_batches, NEW L, LastOK(L, n)
    PROVE  LastOK(LastSeen(L, n, BlocksOf(n)), n + 1)
<1> DEFINE B == BlocksOf(n)
           M == LastSeen(L, n, B)
           U == Used(n)
<1>1. DOMAIN L = U /\ Used(n + 1) = U \cup B
  BY UsedMore DEF LastOK
<1>2. M = [x \in U \cup B |-> IF x \in B THEN n ELSE L[x]]
  BY <1>1 DEF LastSeen
<1> HIDE DEF M
<1>3. DOMAIN M = U \cup B
  BY <1>2
<1>4. ASSUME NEW x \in U \cup B
      PROVE  /\ M[x] \in 0..n /\ x \in BlocksOf(M[x])
             /\ \A e \in (M[x] + 1)..n : x \notin BlocksOf(e)
  <2>1. CASE x \in B
    <3>1. M[x] = n
      BY <1>2, <2>1
    <3>2. n \in 0..n /\ (n + 1)..n = {}
      OBVIOUS
    <3>3. QED
      BY <2>1, <3>1, <3>2
  <2>2. CASE x \notin B
    <3>1. M[x] = L[x] /\ x \in U
      BY <1>2, <2>2
    <3>2. L[x] \in 0..(n - 1) /\ x \in BlocksOf(L[x]) /\ \A e \in (L[x] + 1)..(n - 1) : x \notin BlocksOf(e)
      BY <3>1 DEF LastOK
    <3>3. \A e \in (L[x] + 1)..n : e \in (L[x] + 1)..(n - 1) \/ e = n
      BY <3>2
    <3>4. L[x] \in 0..n
      BY <3>2
    <3>5. QED
      BY <2>2, <3>1, <3>2, <3>3, <3>4
  <2>3. QED
    BY <2>1, <2>2
<1>5. (n + 1) - 1 = n
  OBVIOUS
<1>6. LastOK(M, n + 1)
  BY <1>1, <1>3, <1>4, <1>5 DEF LastOK
<1>7. QED
  BY <1>6 DEF M

\* A block is used again at the distance that last_seen gives.
LEMMA AgainIs ==
    ASSUME Readable(trace), NEW n \in Nat, n < num_batches, NEW L, LastOK(L, n), NEW x, NEW d \in 1..n
    PROVE  x \in UsedAgain(n, d) <=> x \in BlocksOf(n) \cap Used(n) /\ d = n - L[x]
<1>1. x \in UsedAgain(n, d) <=>
          x \in BlocksOf(n) /\ x \in BlocksOf(n - d) /\ \A e \in 1..(d - 1) : x \notin BlocksOf(n - e)
  BY DEF UsedAgain
<1>2. n - d \in 0..(n - 1)
  OBVIOUS
<1>3. ASSUME x \in UsedAgain(n, d) PROVE x \in BlocksOf(n) \cap Used(n) /\ d = n - L[x]
  <2>1. x \in Nat
    BY <1>1, <1>3, BlocksOfBatch
  <2>2. x \in Used(n)
    BY <2>1, <1>1, <1>2, <1>3 DEF Used
  <2>3. L[x] \in 0..(n - 1) /\ x \in BlocksOf(L[x]) /\ \A e \in (L[x] + 1)..(n - 1) : x \notin BlocksOf(e)
    BY <2>2 DEF LastOK
  <2>4. ~(L[x] < n - d)
    <3>1. L[x] < n - d => n - d \in (L[x] + 1)..(n - 1)
      BY <2>3, <1>2
    <3>2. QED
      BY <3>1, <2>3, <1>1, <1>3
  <2>5. ~(n - d < L[x])
    <3> DEFINE e == n - L[x]
    <3>1. n - d < L[x] => e \in 1..(d - 1) /\ n - e = L[x]
      BY <2>3, <1>2
    <3>2. QED
      BY <3>1, <2>3, <1>1, <1>3
  <2>6. QED
    BY <2>2, <2>3, <2>4, <2>5, <1>1, <1>3
<1>4. ASSUME x \in BlocksOf(n) \cap Used(n), d = n - L[x] PROVE x \in UsedAgain(n, d)
  <2>1. L[x] \in 0..(n - 1) /\ x \in BlocksOf(L[x]) /\ \A e \in (L[x] + 1)..(n - 1) : x \notin BlocksOf(e)
    BY <1>4 DEF LastOK
  <2>2. n - d = L[x]
    BY <2>1, <1>4
  <2>3. ASSUME NEW e \in 1..(d - 1) PROVE x \notin BlocksOf(n - e)
    <3>1. n - e \in (L[x] + 1)..(n - 1)
      BY <2>1, <1>4
    <3>2. QED
      BY <3>1, <2>1
  <2>4. QED
    BY <2>1, <2>2, <2>3, <1>1, <1>4
<1>5. QED
  BY <1>3, <1>4

\* The distances within the first n batches.
Distances(n) == UNION {UNION {{<<x, b, d>> : x \in UsedAgain(b, d)} : d \in 1..b} : b \in 1..(n - 1)}

\* The members of Distances.
LEMMA DistancesAre ==
    ASSUME NEW n, NEW t
    PROVE  t \in Distances(n) <=> \E b \in 1..(n - 1) : \E d \in 1..b : \E x \in UsedAgain(b, d) : t = <<x, b, d>>
BY DEF Distances

\* The distances of one more batch.
LEMMA DistancesMore ==
    ASSUME Readable(trace), NEW n \in Nat, n < num_batches, NEW L, LastOK(L, n)
    PROVE  Distances(n + 1) = Distances(n) \cup {<<x, n, n - L[x]>> : x \in BlocksOf(n) \cap DOMAIN L}
<1> DEFINE N == {<<x, n, n - L[x]>> : x \in BlocksOf(n) \cap Used(n)}
<1>1. DOMAIN L = Used(n)
  BY DEF LastOK
<1>2. ASSUME NEW t \in Distances(n + 1) PROVE t \in Distances(n) \cup N
  <2>1. PICK b \in 1..((n + 1) - 1) : \E d \in 1..b : \E x \in UsedAgain(b, d) : t = <<x, b, d>>
    BY DistancesAre
  <2>2. CASE b = n
    <3>1. PICK d \in 1..n : \E x \in UsedAgain(n, d) : t = <<x, n, d>>
      BY <2>1, <2>2
    <3>2. PICK x \in UsedAgain(n, d) : t = <<x, n, d>>
      BY <3>1
    <3>3. x \in BlocksOf(n) \cap Used(n) /\ d = n - L[x]
      BY AgainIs
    <3>4. QED
      BY <3>2, <3>3
  <2>3. CASE b # n
    <3>1. b \in 1..(n - 1)
      BY <2>3
    <3>2. QED
      BY <2>1, <3>1, DistancesAre
  <2>4. QED
    BY <2>2, <2>3
<1>3. ASSUME NEW t \in Distances(n) PROVE t \in Distances(n + 1)
  <2>1. PICK b \in 1..(n - 1) : \E d \in 1..b : \E x \in UsedAgain(b, d) : t = <<x, b, d>>
    BY DistancesAre
  <2>2. b \in 1..((n + 1) - 1)
    OBVIOUS
  <2>3. QED
    BY <2>1, <2>2, DistancesAre
<1>4. ASSUME NEW x \in BlocksOf(n) \cap Used(n) PROVE <<x, n, n - L[x]>> \in Distances(n + 1)
  <2> DEFINE d == n - L[x]
  <2>1. L[x] \in 0..(n - 1)
    BY DEF LastOK
  <2>2. d \in 1..n /\ n \in 1..((n + 1) - 1)
    BY <2>1
  <2>3. x \in UsedAgain(n, d)
    BY <2>2, AgainIs
  <2> HIDE DEF d
  <2>4. <<x, n, d>> \in Distances(n + 1)
    BY <2>2, <2>3, DistancesAre
  <2>5. QED
    BY <2>4 DEF d
<1>5. QED
  BY <1>1, <1>2, <1>3, <1>4

\* The distances that a batch n adds.
DistancesOf(S, L, n) == {<<x, n, n - L[x]>> : x \in S}

\* The new distances of a batch are as many as its blocks that were used before.
LEMMA NewDistances ==
    ASSUME NEW S, IsFiniteSet(S), NEW L, NEW n
    PROVE  IsFiniteSet(DistancesOf(S, L, n)) /\ Cardinality(DistancesOf(S, L, n)) = Cardinality(S)
<1> DEFINE N == DistancesOf(S, L, n)
           f == [x \in S |-> <<x, n, n - L[x]>>]
<1>1. f \in [S -> N] /\ \A t \in N : \E x \in S : f[x] = t
  BY DEF DistancesOf
<1>2. DOMAIN f = S /\ \A x, y \in S : f[x] = f[y] => x = y
  OBVIOUS
<1>3. IsInjective(f)
  <2> HIDE DEF f
  <2>1. QED
    BY <1>2 DEF IsInjective
<1> HIDE DEF f, N
<1>4. f \in Bijection(S, N)
  BY <1>1, <1>3 DEF Bijection, Injection, Surjection
<1>5. ExistsBijection(S, N)
  BY <1>4 DEF ExistsBijection
<1>6. QED
  BY <1>5, FS_Bijection DEF N

\* The distances found in the batches so far, and that with the blocks they are as many as
\* the accesses.
ReuseOK ==
    stage = "trace" =>
        /\ LastOK(stats.last_seen, next) /\ stats.reuse_distances = Distances(next)
        /\ IsFiniteSet(stats.reuse_distances)
        /\ Cardinality(stats.reuse_distances) + Cardinality(Used(next)) = Len(accesses)

\* No trace is analysed at first.
LEMMA ReuseOKInit == TraceInit => ReuseOK
BY DEF TraceInit, ReuseOK

\* A batch keeps the distances and their number.
LEMMA ReuseBatch ==
    ASSUME TraceOK, SimsOK, ReuseOK, NextBatch
    PROVE  ReuseOK'
<1>1. stage = "trace" /\ UNCHANGED <<job, stage, trace>> /\ next \in Nat /\ next < num_batches /\ Readable(trace)
  BY BatchRead
<1> DEFINE B == BlocksOf(next)
           U == Used(next)
           L == stats.last_seen
           D == stats.reuse_distances
           ids == get_batch_ids(next)
           q == Tallied(stats, next, ids, B)
           N == {<<x, next, next - L[x]>> : x \in B \cap DOMAIN L}
<1>2. next' = next + 1 /\ stats' = q
  BY BatchTaken
<1>3. LastOK(L, next) /\ D = Distances(next) /\ IsFiniteSet(D) /\ Cardinality(D) + Cardinality(U) = Len(accesses)
  BY <1>1 DEF ReuseOK
<1>4. q.last_seen = LastSeen(L, next, B) /\ q.reuse_distances = D \cup N
  BY DEF Tallied
<1>5. Len(accesses') = Len(accesses) + Cardinality(B) /\ Len(accesses) \in Nat
  BY SimsBatch
<1>6. LastOK(LastSeen(L, next, B), next + 1)
  BY <1>1, <1>3, LastMore
<1>7. Distances(next + 1) = D \cup N
  BY <1>1, <1>3, DistancesMore
<1>8. IsFiniteSet(B) /\ IsFiniteSet(U) /\ Used(next + 1) = U \cup B /\ DOMAIN L = U
  <2>1. IsFiniteSet(B) /\ Used(next + 1) = U \cup B
    BY <1>1, BlocksOfBatch, UsedMore
  <2>2. accesses \in Seq(Nat) /\ ToSet(accesses) = U
    BY <1>1 DEF SimsOK, LruOK
  <2>3. IsFiniteSet(U)
    BY <2>2, SinceIsFinite
  <2>4. QED
    BY <2>1, <2>3, <1>3 DEF LastOK
<1>9. \A t \in D : t \notin N
  <2> SUFFICES ASSUME NEW t \in D, t \in N PROVE FALSE
    OBVIOUS
  <2>1. PICK b \in 1..(next - 1) : \E d \in 1..b : \E x \in UsedAgain(b, d) : t = <<x, b, d>>
    BY <1>3, DistancesAre
  <2>2. t[2] = b /\ t[2] = next
    BY <2>1
  <2>3. QED
    BY <2>2, <1>1
<1> DEFINE m == next
<1> HIDE DEF q, ids, L, D, N, B, U
<1>10. IsFiniteSet(N) /\ Cardinality(N) = Cardinality(B \cap U) /\ IsFiniteSet(B \cap U)
  <2>1. IsFiniteSet(B \cap U)
    BY <1>8, FS_Intersection
  <2>2. N = {<<x, next, next - L[x]>> : x \in B \cap U}
    BY <1>8 DEF N
  <2> DEFINE S == B \cap U
  <2>3. IsFiniteSet(S) /\ N = {<<x, next, next - L[x]>> : x \in S}
    BY <2>1, <2>2
  <2> HIDE DEF S
  <2>4. IsFiniteSet(N) /\ Cardinality(N) = Cardinality(S)
    <3>1. N = DistancesOf(S, L, next)
      BY <2>3 DEF DistancesOf
    <3>2. QED
      BY <2>3, <3>1, NewDistances
  <2>5. QED
    BY <2>1, <2>4 DEF S
<1>11. IsFiniteSet(D \cup N) /\ Cardinality(D \cup N) = Cardinality(D) + Cardinality(N) - Cardinality(D \cap N)
  BY <1>3, <1>10, FS_Union
<1>12. D \cap N = {} /\ Cardinality({}) = 0
  BY <1>9, FS_EmptySet
<1>13. Cardinality(U \cup B) = Cardinality(U) + Cardinality(B) - Cardinality(U \cap B)
  BY <1>8, FS_Union
<1>14. U \cap B = B \cap U
  OBVIOUS
<1>15. /\ Cardinality(D) \in Nat /\ Cardinality(N) \in Nat /\ Cardinality(U) \in Nat /\ Cardinality(B) \in Nat
       /\ Cardinality(B \cap U) \in Nat
  BY <1>3, <1>8, <1>10, FS_CardinalityType
<1>16. Cardinality(D \cup N) + Cardinality(U \cup B) = Len(accesses')
  <2>1. Cardinality(D \cap N) = 0 /\ Cardinality(U \cap B) = Cardinality(B \cap U)
    BY <1>12, <1>14
  <2>2. PICK cd \in Nat, cu \in Nat, cb \in Nat, ci \in Nat :
            /\ cd = Cardinality(D) /\ cu = Cardinality(U) /\ cb = Cardinality(B) /\ ci = Cardinality(B \cap U)
    BY <1>15
  <2>3. Cardinality(D \cup N) = cd + ci - 0
    BY <2>1, <2>2, <1>10, <1>11
  <2>4. Cardinality(U \cup B) = cu + cb - ci
    BY <2>1, <2>2, <1>13
  <2>5. Len(accesses') = (cd + cu) + cb
    BY <2>2, <1>3, <1>5
  <2>6. (cd + ci - 0) + (cu + cb - ci) = (cd + cu) + cb
    OBVIOUS
  <2>7. QED
    BY <2>3, <2>4, <2>5, <2>6
<1>17. LastOK(stats.last_seen, next)'
  <2>1. PICK M : M = LastSeen(L, next, B)
    OBVIOUS
  <2>2. LastOK(M, next + 1) /\ stats'.last_seen = M /\ next' = next + 1 /\ trace' = trace
    BY <2>1, <1>1, <1>2, <1>4, <1>6
  <2>3. QED
    BY <2>2 DEF LastOK, Used, BlocksOf, get_batch_ids, BatchStart, BatchEnd, IsSampled, Rows
<1>18. Used(next)' = Used(next + 1) /\ Distances(next)' = Distances(next + 1)
  <2>1. Used(next)' = Used(next + 1)
    BY <1>1, <1>2 DEF Used, BlocksOf, get_batch_ids, BatchStart, BatchEnd, IsSampled, Rows
  <2>2. Distances(next)' = Distances(next + 1)
    BY <1>1, <1>2 DEF Distances, UsedAgain, BlocksOf, get_batch_ids, BatchStart, BatchEnd, IsSampled, Rows
  <2>3. QED
    BY <2>1, <2>2
<1>19. stats'.reuse_distances = D \cup N
  BY <1>2, <1>4
<1>20. QED
  BY <1>7, <1>8, <1>11, <1>16, <1>17, <1>18, <1>19 DEF ReuseOK

\* Every step of the trace tools keeps the distances.
LEMMA ReuseOKStep == TraceOK /\ SimsOK /\ ReuseOK /\ [TraceNext]_traceVars => ReuseOK'
<1> SUFFICES ASSUME TraceOK, SimsOK, ReuseOK, [TraceNext]_traceVars PROVE ReuseOK'
  OBVIOUS
<1>1. CASE preprocess \/ convert \/ generate_ids \/ Import
  <2>1. UNCHANGED <<next, stats, accesses>> /\ stage' = "trace" /\ stage = "raw"
    BY <1>1, WrittenTrace
  <2>2. next = 0 /\ accesses = <<>> /\ stats.last_seen = EmptyBag /\ stats.reuse_distances = {}
    BY <2>1 DEF TraceOK, TraceInit
  <2>3. Used(0)' = {} /\ Distances(0)' = {}
    BY DEF Used, Distances
  <2>4. DOMAIN EmptyBag = {}
    BY DEF EmptyBag, SetToBag
  <2>5. Used(next)' = {} /\ Distances(next)' = {}
    BY <2>1, <2>2, <2>3
  <2>6. LastOK(stats.last_seen, next)'
    BY <2>1, <2>2, <2>4, <2>5 DEF LastOK
  <2>7. IsFiniteSet({}) /\ Cardinality({}) = 0
    BY FS_EmptySet
  <2>8. Cardinality(stats'.reuse_distances) + Cardinality(Used(next)') = Len(accesses')
    <3>1. Cardinality(stats'.reuse_distances) = 0 /\ Cardinality(Used(next)') = 0 /\ Len(accesses') = 0
      BY <2>1, <2>2, <2>5, <2>7
    <3>2. QED
      BY <3>1
  <2>9. QED
    BY <2>1, <2>2, <2>5, <2>6, <2>7, <2>8 DEF ReuseOK
<1>2. CASE NextBatch
  BY <1>2, ReuseBatch
<1>3. CASE UNCHANGED traceVars
  <2>1. UNCHANGED <<trace, stage, next, stats, accesses>>
    BY <1>3 DEF traceVars
  <2>2. Used(next)' = Used(next)
    BY <2>1 DEF Used, BlocksOf, get_batch_ids, BatchStart, BatchEnd, IsSampled, Rows
  <2>3. Distances(next)' = Distances(next)
    BY <2>1 DEF Distances, UsedAgain, BlocksOf, get_batch_ids, BatchStart, BatchEnd, IsSampled, Rows
  <2>4. CASE stage = "trace"
    <3>1. PICK M : M = stats.last_seen
      OBVIOUS
    <3>2. LastOK(M, next) /\ stats'.last_seen = M /\ next' = next /\ trace' = trace
      BY <2>1, <2>4, <3>1 DEF ReuseOK
    <3>3. LastOK(stats.last_seen, next)'
      BY <3>2 DEF LastOK, Used, BlocksOf, get_batch_ids, BatchStart, BatchEnd, IsSampled, Rows
    <3>4. QED
      BY <2>1, <2>2, <2>3, <2>4, <3>3 DEF ReuseOK
  <2>5. CASE stage # "trace"
    BY <2>1, <2>5 DEF ReuseOK
  <2>6. QED
    BY <2>4, <2>5
<1>4. QED
  BY <1>1, <1>2, <1>3 DEF TraceNext

\* Between two uses of a block there are others only.
LEMMA BetweenOthers ==
    ASSUME NEW A \in Seq(Nat), NEW k \in RepeatedIn(A)
    PROVE  BetweenIn(A, k) \subseteq ToSet(A) \ {A[k]} /\ A[k] \in ToSet(A)
<1> DEFINE n == Len(A)
           I == {i \in 1..(k - 1) : A[i] = A[k]}
           Z == I \cup {0}
           m == Max({0} \cup I)
<1>1. n \in Nat /\ DOMAIN A = 1..n /\ k \in 1..n
  BY DEF RepeatedIn
<1>2. I \subseteq Nat /\ \A i \in I : i <= k
  BY <1>1
<1>3. IsFiniteSet(I)
  BY <1>1, <1>2, FS_BoundedSetOfNaturals
<1>4. IsFiniteSet(Z)
  <2> HIDE DEF I
  <2>1. QED
    BY <1>3, FS_AddElement
<1>5. Z \subseteq Int /\ Z # {} /\ Z \subseteq Nat
  BY <1>2
<1>6. {0} \cup I = Z
  OBVIOUS
<1>7. m \in Nat /\ \A i \in I : i <= m
  <2>1. Max(Z) \in Z /\ \A i \in Z : i <= Max(Z)
    <3> HIDE DEF Z
    <3>1. QED
      BY <1>4, <1>5, MaxOfFinite
  <2>2. QED
    BY <2>1, <1>5, <1>6
<1>8. BetweenIn(A, k) = IF m = 0 THEN {} ELSE {A[i] : i \in (m + 1)..(k - 1)}
  BY DEF BetweenIn
<1> HIDE DEF m
<1>9. ASSUME NEW i \in (m + 1)..(k - 1) PROVE A[i] \in ToSet(A) /\ A[i] # A[k]
  <2>1. i \in 1..n /\ i \in 1..(k - 1) /\ ~(i <= m)
    BY <1>1, <1>7
  <2>2. QED
    BY <2>1, <1>1, <1>7 DEF ToSet
<1>10. A[k] \in ToSet(A)
  BY <1>1 DEF ToSet
<1>11. QED
  BY <1>8, <1>9, <1>10

\* A cache that holds every block hits whenever a block is repeated.
LEMMA AllRepeatedHit ==
    ASSUME NEW A \in Seq(Nat), NEW c \in Nat, c >= Cardinality(ToSet(A))
    PROVE  LruHits(A, c) = RepeatedIn(A)
<1> SUFFICES ASSUME NEW k \in RepeatedIn(A) PROVE Cardinality(BetweenIn(A, k)) < c
  BY DEF LruHits
<1> DEFINE T == ToSet(A)
           x == A[k]
           Y == BetweenIn(A, k)
<1>1. Y \in SUBSET (T \ {x}) /\ x \in T
  BY BetweenOthers
<1>2. IsFiniteSet(T)
  BY SinceIsFinite
<1> HIDE DEF T, x, Y
<1>3. IsFiniteSet(T \ {x}) /\ Cardinality(T \ {x}) = Cardinality(T) - 1
  BY <1>1, <1>2, FS_RemoveElement
<1>4. IsFiniteSet(Y) /\ Cardinality(Y) <= Cardinality(T \ {x})
  BY <1>1, <1>3, FS_Subset
<1>5. Cardinality(Y) \in Nat /\ Cardinality(T) \in Nat
  BY <1>2, <1>4, FS_CardinalityType
<1>6. c >= Cardinality(T)
  BY DEF T
<1>7. QED
  BY <1>3, <1>4, <1>5, <1>6 DEF Y

\* The invariant measures reuse.
LEMMA Measured == TraceOK /\ StatsOK /\ SimsOK /\ ReuseOK => ReuseIsMeasured
<1> SUFFICES ASSUME TraceOK, StatsOK, SimsOK, ReuseOK, Analysed PROVE ReuseIsMeasured
  BY DEF ReuseIsMeasured
<1>1. stage = "trace" /\ read = ReadUpTo(next)
  BY DEF TraceOK, Analysed, ReadUpTo
<1>2. /\ stats.total_lookups = Len(ReadUpTo(next)) /\ BagToSet(stats.id_counter) = ToSet(ReadUpTo(next))
      /\ BagToSet(stats.block_counter) = Used(next)
  BY <1>1 DEF StatsOK, TallyIs
<1>3. /\ stats.reuse_distances = Distances(next) /\ IsFiniteSet(stats.reuse_distances)
      /\ Cardinality(stats.reuse_distances) + Cardinality(Used(next)) = Len(accesses)
  BY <1>1 DEF ReuseOK
<1>4. accesses \in Seq(Nat) /\ ToSet(accesses) = Used(next)
  BY <1>1 DEF SimsOK, LruOK
<1>5. ASSUME NEW c \in Capacity, c >= Cardinality(DOMAIN stats.block_counter)
      PROVE  hits[c] = Cardinality(stats.reuse_distances)
  <2>1. DOMAIN stats.block_counter = ToSet(accesses) /\ c \in Nat
    BY <1>2, <1>4, TraceAssumption DEF BagToSet
  <2>2. LruHits(accesses, c) = RepeatedIn(accesses)
    BY <2>1, <1>4, <1>5, AllRepeatedHit
  <2>3. /\ hits[c] = Cardinality(LruHits(accesses, c))
        /\ Cardinality(RepeatedIn(accesses)) + Cardinality(ToSet(accesses)) = Len(accesses)
    BY DEF SimsOK, LruOK
  <2>4. Cardinality(RepeatedIn(accesses)) \in Nat
    BY <1>4, HitsFinite
  <2>5. Cardinality(ToSet(accesses)) \in Nat /\ Cardinality(stats.reuse_distances) \in Nat
    BY <1>3, <1>4, SinceIsFinite, FS_CardinalityType
  <2>6. QED
    BY <2>2, <2>3, <2>4, <2>5, <1>3, <1>4
<1>6. QED
  BY <1>1, <1>2, <1>3, <1>5 DEF ReuseIsMeasured, Distances

\* The reuse distances of a whole trace are exactly the repeated uses of a block, each with
\* the number of batches since the latest earlier one; a simulated cache that holds every
\* block hits as often; and the analysis counts the lookups and the ids of the trace.
THEOREM ReuseStaysMeasured == Spec => []ReuseIsMeasured
<1> DEFINE OK == TraceOK /\ StatsOK /\ SimsOK /\ ReuseOK
<1>1. Init => OK
  BY TraceOKInit, StatsOKInit, SimsOKInit, ReuseOKInit DEF Init
<1>2. OK /\ [Next]_<<traceVars, driverVars>> => OK'
  BY TraceSteps, TraceOKStep, StatsOKStep, SimsOKStep, ReuseOKStep
<1>3. OK => ReuseIsMeasured
  BY Measured
<1> HIDE DEF OK
<1>4. QED
  BY <1>1, <1>2, <1>3, PTL DEF Spec
===============================================================================
