--------------------------- MODULE LogLineProofs ---------------------------
(* Theorems about LogLine, for every set of keys, values, batches, contexts   *)
(* and messages, and every number of loggers.                                 *)
EXTENDS LogLine, SequenceTheorems, WellFoundedInduction, TLAPS

-----------------------------------------------------------------------------
(* Induction over the naturals, stated with sets: what recursive functions    *)
(* compute follows from it.                                                   *)

LEMMA LeastElement ==
    ASSUME NEW S \in SUBSET Nat, S # {}
    PROVE  \E m \in S : \A n \in S : m <= n
<1> DEFINE R == OpToRel(<, Nat)
<1>1. IsWellFoundedOn(R, Nat)
  BY NatLessThanWellFounded
<1>2. \A x, y \in Nat : <<y, x>> \in R <=> y < x
  BY DEF OpToRel
<1> HIDE DEF R
<1>3. \E x \in S : \A y \in S : ~(<<y, x>> \in R)
  BY <1>1, WFMin
<1>4. \A x, y \in S : ~(y < x) => x <= y
  OBVIOUS
<1> QED BY <1>2, <1>3, <1>4

LEMMA GreatestElement ==
    ASSUME NEW S \in SUBSET Nat, S # {}, NEW bound \in Nat, \A n \in S : n <= bound
    PROVE  \E m \in S : \A n \in S : m >= n
<1> DEFINE T == {bound - n : n \in S}
<1>1. T \in SUBSET Nat /\ T # {}
  <2>1. \A n \in S : n \in Nat /\ n <= bound
    OBVIOUS
  <2>2. \A n \in S : bound - n \in Nat
    BY <2>1
  <2>3. PICK n \in S : TRUE
    OBVIOUS
  <2>4. bound - n \in T
    OBVIOUS
  <2>5. T \in SUBSET Nat
    BY <2>2
  <2> QED BY <2>4, <2>5
<1>2. PICK t \in T : \A u \in T : t <= u
  <2> HIDE DEF T
  <2> QED BY <1>1, LeastElement
<1>3. PICK m \in S : t = bound - m
  BY <1>2
<1>4. ASSUME NEW n \in S PROVE m >= n
  <2>1. bound - m <= bound - n
    BY <1>2, <1>3
  <2>2. m \in Nat /\ n \in Nat
    OBVIOUS
  <2> QED BY <2>1, <2>2
<1> QED BY <1>4

LEMMA Induction ==
    ASSUME NEW S \in SUBSET Nat, 0 \in S, \A n \in S : n + 1 \in S
    PROVE  S = Nat
<1> SUFFICES ASSUME Nat \ S # {} PROVE FALSE
  OBVIOUS
<1> DEFINE T == Nat \ S
<1>1. PICK m \in T : \A n \in T : m <= n
  <2>1. T \in SUBSET Nat /\ T # {}
    OBVIOUS
  <2> HIDE DEF T
  <2> QED BY <2>1, LeastElement
<1>2. m # 0 /\ m - 1 \in Nat /\ ~(m <= m - 1)
  OBVIOUS
<1>3. m - 1 \in S
  BY <1>1, <1>2
<1> QED BY <1>2, <1>3

Recursive(f, x, step, bound) ==
    \A i \in 0 .. bound : f[i] = IF i = 0 THEN x ELSE step[<<i, f[i - 1]>>]

\* A function defined by recursion on a number exists and has its type.
LEMMA Recursion ==
    ASSUME NEW X, NEW x \in X, NEW bound \in Nat, NEW step \in [(1 .. bound) \X X -> X]
    PROVE  \E f \in [0 .. bound -> X] : Recursive(f, x, step, bound)
<1> DEFINE Up(f, n) == \A i \in 0 .. n : f[i] = IF i = 0 THEN x ELSE step[<<i, f[i - 1]>>]
           I == {n \in Nat : n <= bound => \E f \in [0 .. n -> X] : Up(f, n)}
<1>1. 0 \in I
  <2> DEFINE f == [i \in 0 .. 0 |-> x]
  <2>1. f \in [0 .. 0 -> X] /\ Up(f, 0)
    OBVIOUS
  <2> HIDE DEF f
  <2> QED BY <2>1
<1>2. ASSUME NEW n \in I, n + 1 <= bound PROVE \E f \in [0 .. n + 1 -> X] : Up(f, n + 1)
  <2>1. n \in Nat /\ n <= bound /\ n + 1 \in 1 .. bound
    <3>1. n \in Nat
      OBVIOUS
    <3> QED BY <3>1, <1>2
  <2>2. PICK f \in [0 .. n -> X] : Up(f, n)
    <3> HIDE DEF Up
    <3> QED BY <2>1
  <2> DEFINE next == step[<<n + 1, f[n]>>]
             g == [i \in 0 .. n + 1 |-> IF i = n + 1 THEN next ELSE f[i]]
  <2>3. f[n] \in X /\ next \in X
    <3>1. f[n] \in X
      BY <2>1
    <3> QED BY <2>1, <3>1
  <2>4. g \in [0 .. n + 1 -> X]
    <3> HIDE DEF next
    <3>1. \A i \in 0 .. n + 1 : i # n + 1 => i \in 0 .. n
      BY <2>1
    <3> QED BY <2>3, <3>1
  <2>5. \A i \in 0 .. n : i \in 0 .. n + 1 /\ i # n + 1
    BY <2>1
  <2>6. \A i \in 0 .. n : g[i] = f[i]
    <3> HIDE DEF next
    <3> QED BY <2>5
  <2>7. g[n + 1] = next
    BY <2>1
  <2>8. Up(g, n + 1)
    <3> SUFFICES ASSUME NEW i \in 0 .. n + 1
                 PROVE  g[i] = IF i = 0 THEN x ELSE step[<<i, g[i - 1]>>]
      OBVIOUS
    <3>1. CASE i = n + 1
      <4>1. i # 0 /\ i - 1 = n /\ n \in 0 .. n
        BY <2>1, <3>1
      <4> HIDE DEF g
      <4> QED BY <2>6, <2>7, <3>1, <4>1
    <3>2. CASE i \in 0 .. n
      <4>1. i # 0 => i - 1 \in 0 .. n
        BY <2>1, <3>2
      <4>2. f[i] = IF i = 0 THEN x ELSE step[<<i, f[i - 1]>>]
        BY <2>2, <3>2
      <4> HIDE DEF g
      <4> QED BY <2>6, <3>2, <4>1, <4>2
    <3>3. i = n + 1 \/ i \in 0 .. n
      BY <2>1
    <3> QED BY <3>1, <3>2, <3>3
  <2> HIDE DEF g, Up
  <2> QED BY <2>4, <2>8
<1>3. I = Nat
  <2>1. I \in SUBSET Nat
    OBVIOUS
  <2>2. \A n \in I : n + 1 \in I
    <3> HIDE DEF Up
    <3>1. \A n \in I : n + 1 \in Nat
      OBVIOUS
    <3> QED BY <1>2, <3>1
  <2> HIDE DEF I
  <2> QED BY <1>1, <2>1, <2>2, Induction
<1>4. PICK f \in [0 .. bound -> X] : Up(f, bound)
  <2> HIDE DEF Up
  <2>1. bound \in I /\ bound <= bound
    <3> HIDE DEF I
    <3> QED BY <1>3
  <2> QED BY <2>1
<1> QED BY <1>4 DEF Recursive

\* What holds at first and is kept by every step holds at the end.
LEMMA RecursionInvariant ==
    ASSUME NEW R, NEW bound \in Nat, NEW f, <<0, f[0]>> \in R,
           \A i \in 0 .. bound : i < bound /\ <<i, f[i]>> \in R => <<i + 1, f[i + 1]>> \in R
    PROVE  \A i \in 0 .. bound : <<i, f[i]>> \in R
<1> DEFINE I == {n \in Nat : n <= bound => <<n, f[n]>> \in R}
<1>1. I \in SUBSET Nat /\ 0 \in I
  OBVIOUS
<1>2. ASSUME NEW n \in I PROVE n + 1 \in I
  <2>1. n \in Nat /\ n + 1 \in Nat
    OBVIOUS
  <2>2. ASSUME n + 1 <= bound PROVE <<n + 1, f[n + 1]>> \in R
    <3>1. n \in 0 .. bound /\ n < bound /\ n <= bound
      BY <2>1, <2>2
    <3> QED BY <3>1
  <2> QED BY <2>1, <2>2
<1>3. I = Nat
  <2> HIDE DEF I
  <2> QED BY <1>1, <1>2, Induction
<1>4. ASSUME NEW i \in 0 .. bound PROVE <<i, f[i]>> \in R
  <2>1. i \in Nat /\ i <= bound
    OBVIOUS
  <2>2. i \in I
    <3> HIDE DEF I
    <3> QED BY <1>3, <2>1
  <2> QED BY <2>1, <2>2
<1> QED BY <1>4

-----------------------------------------------------------------------------
(* Putting sequences together. *)

\* One after the other, up to each place.
Joins(f, seqs) ==
    f = [i \in 1 .. Len(seqs) |-> IF i = 1 THEN seqs[i] ELSE f[i - 1] \o seqs[i]]

LEMMA FlattenEmpty == FlattenSeq(<< >>) = << >>
BY Len(<< >>) = 0 DEF FlattenSeq

LEMMA JoinsExist ==
    ASSUME NEW S, NEW seqs \in Seq(Seq(S))
    PROVE  \E f \in [1 .. Len(seqs) -> Seq(S)] : Joins(f, seqs)
<1> DEFINE N == Len(seqs)
           step == [p \in (1 .. N) \X Seq(S) |-> p[2] \o seqs[p[1]]]
<1>1. N \in Nat /\ << >> \in Seq(S)
  OBVIOUS
<1>2. ASSUME NEW i \in 1 .. N, NEW s \in Seq(S)
      PROVE  s \o seqs[i] \in Seq(S) /\ step[<<i, s>>] = s \o seqs[i] /\ << >> \o seqs[i] = seqs[i]
  <2>1. seqs[i] \in Seq(S)
    BY ElementOfSeq
  <2>2. s \o seqs[i] \in Seq(S) /\ << >> \o seqs[i] = seqs[i]
    BY <2>1, ConcatProperties, ConcatEmptySeq
  <2>3. <<i, s>> \in (1 .. N) \X Seq(S) /\ <<i, s>>[1] = i /\ <<i, s>>[2] = s
    OBVIOUS
  <2> HIDE DEF N
  <2> QED BY <2>2, <2>3
<1>3. step \in [(1 .. N) \X Seq(S) -> Seq(S)]
  <2>1. ASSUME NEW p \in (1 .. N) \X Seq(S) PROVE p[2] \o seqs[p[1]] \in Seq(S)
    BY <1>2
  <2> HIDE DEF N
  <2> QED BY <2>1
<1> HIDE DEF step
<1>4. PICK f \in [0 .. N -> Seq(S)] :
          \A i \in 0 .. N : f[i] = IF i = 0 THEN << >> ELSE step[<<i, f[i - 1]>>]
  <2> DEFINE X == Seq(S)
             none == << >>
  <2>1. none \in X /\ step \in [(1 .. N) \X X -> X]
    BY <1>1, <1>3
  <2> HIDE DEF N, X, none
  <2>2. N \in Nat
    BY <1>1
  <2>3. \E f \in [0 .. N -> X] : Recursive(f, none, step, N)
    BY <2>1, <2>2, Recursion
  <2> QED BY <2>3 DEF X, none, Recursive
<1> DEFINE g == [i \in 1 .. N |-> f[i]]
<1>5. ASSUME NEW i \in 1 .. N
      PROVE  g[i] = IF i = 1 THEN seqs[i] ELSE g[i - 1] \o seqs[i]
  <2>1. i \in 0 .. N /\ i - 1 \in 0 .. N /\ i # 0 /\ (i # 1 => i - 1 \in 1 .. N) /\ 1 - 1 = 0 /\ 0 \in 0 .. N
    BY <1>1
  <2>2. f[i - 1] \in Seq(S)
    BY <2>1
  <2>3. f[i] = f[i - 1] \o seqs[i]
    <3> HIDE DEF N
    <3> QED BY <1>2, <1>4, <2>1, <2>2
  <2>4. i = 1 => f[i - 1] = << >>
    BY <1>4, <2>1
  <2>5. g[i] = f[i] /\ (i # 1 => g[i - 1] = f[i - 1])
    BY <2>1
  <2>6. << >> \o seqs[i] = seqs[i]
    BY <1>2, <1>1
  <2> HIDE DEF g, N
  <2> QED BY <2>3, <2>4, <2>5, <2>6
<1>6. g \in [1 .. N -> Seq(S)]
  <2>1. \A i \in 1 .. N : i \in 0 .. N
    BY <1>1
  <2> QED BY <2>1
<1>7. g = [i \in 1 .. N |-> IF i = 1 THEN seqs[i] ELSE g[i - 1] \o seqs[i]]
  <2>1. g = [i \in 1 .. N |-> g[i]]
    BY <1>6
  <2> HIDE DEF g, N
  <2> QED BY <1>5, <2>1
<1> HIDE DEF g
<1> QED BY <1>6, <1>7 DEF Joins

\* What holds of nothing, and is kept when one more part is put behind, holds of
\* the whole.
LEMMA FlattenInduction ==
    ASSUME NEW S, NEW seqs \in Seq(Seq(S)), NEW R, <<0, << >>>> \in R,
           \A n \in 0 .. Len(seqs), s \in Seq(S) :
               n < Len(seqs) /\ <<n, s>> \in R => <<n + 1, s \o seqs[n + 1]>> \in R
    PROVE  <<Len(seqs), FlattenSeq(seqs)>> \in R /\ FlattenSeq(seqs) \in Seq(S)
<1>1. CASE seqs = << >>
  <2>1. Len(seqs) = 0 /\ FlattenSeq(seqs) = << >> /\ << >> \in Seq(S)
    BY <1>1, FlattenEmpty
  <2> QED BY <2>1
<1>2. CASE seqs # << >>
  <2> DEFINE N == Len(seqs)
             h == CHOOSE f : Joins(f, seqs)
  <2>1. N \in Nat /\ N # 0 /\ N > 0
    BY <1>2, EmptySeq
  <2>2. Joins(h, seqs) /\ \E f \in [1 .. N -> Seq(S)] : Joins(f, seqs)
    BY JoinsExist, Zenon
  <2>3. FlattenSeq(seqs) = h[N]
    BY <2>1, Zenon DEF FlattenSeq, Joins
  <2> HIDE DEF h
  <2>4. \A i \in 1 .. N : h[i] = IF i = 1 THEN seqs[i] ELSE h[i - 1] \o seqs[i]
    BY <2>2 DEF Joins
  <2> DEFINE f == [i \in 0 .. N |-> IF i = 0 THEN << >> ELSE h[i]]
             Q == {p \in R : p[2] \in Seq(S)}
  <2>5. f[0] = << >> /\ \A i \in 1 .. N : f[i] = h[i]
    BY <2>1
  <2>6. <<0, f[0]>> \in Q
    <3>1. <<0, f[0]>>[2] = f[0] /\ << >> \in Seq(S)
      OBVIOUS
    <3> HIDE DEF f
    <3> QED BY <2>5, <3>1
  <2>7. ASSUME NEW i \in 0 .. N, i < N, <<i, f[i]>> \in Q PROVE <<i + 1, f[i + 1]>> \in Q
    <3>1. f[i] \in Seq(S) /\ <<i, f[i]>> \in R
      <4>1. <<i, f[i]>>[2] = f[i]
        OBVIOUS
      <4> QED BY <2>7, <4>1
    <3>2. i + 1 \in 1 .. N /\ (i = 0 => i + 1 = 1) /\ (i # 0 => i + 1 # 1 /\ i + 1 - 1 = i /\ i \in 1 .. N)
      BY <2>1, <2>7
    <3>3. seqs[i + 1] \in Seq(S)
      <4> HIDE DEF f, Q
      <4> QED BY <3>2, ElementOfSeq
    <3>4. << >> \o seqs[i + 1] = seqs[i + 1]
      BY <3>3, ConcatEmptySeq
    <3> HIDE DEF f
    <3>5. f[i + 1] = f[i] \o seqs[i + 1]
      <4>1. CASE i = 0
        <5> HIDE DEF N
        <5> QED BY <2>4, <2>5, <3>2, <3>4, <4>1
      <4>2. CASE i # 0
        <5>1. f[i + 1] = h[i + 1] /\ f[i] = h[i]
          BY <2>5, <3>2, <4>2
        <5>2. PICK k \in 1 .. N : k = i + 1 /\ k # 1 /\ k - 1 = i
          BY <3>2, <4>2
        <5>3. h[k] = h[k - 1] \o seqs[k]
          BY <2>4, <5>2
        <5> QED BY <5>1, <5>2, <5>3
      <4> QED BY <4>1, <4>2
    <3>6. f[i] \o seqs[i + 1] \in Seq(S)
      BY <3>1, <3>3, ConcatProperties
    <3>7. <<i + 1, f[i] \o seqs[i + 1]>> \in R
      BY <2>7, <3>1
    <3>8. <<i + 1, f[i + 1]>>[2] = f[i + 1]
      OBVIOUS
    <3> QED BY <3>5, <3>6, <3>7, <3>8
  <2>8. \A i \in 0 .. N : <<i, f[i]>> \in Q
    <3> HIDE DEF f, Q, N
    <3> QED BY <2>1, <2>6, <2>7, RecursionInvariant
  <2>9. <<N, h[N]>> \in Q
    <3>1. N \in 0 .. N /\ N \in 1 .. N
      BY <2>1
    <3> HIDE DEF f, Q, N
    <3> QED BY <2>5, <2>8, <3>1
  <2>10. <<N, h[N]>>[2] = h[N]
    OBVIOUS
  <2> QED BY <2>3, <2>9, <2>10
<1> QED BY <1>1, <1>2

LEMMA Concat ==
    ASSUME NEW S, NEW s \in Seq(S), NEW t \in Seq(S), NEW whole, whole = s \o t
    PROVE  /\ whole \in Seq(S) /\ Len(whole) = Len(s) + Len(t)
           /\ \A i \in 1 .. Len(s) : i \in 1 .. Len(whole) /\ whole[i] = s[i]
           /\ \A j \in 1 .. Len(t) : Len(s) + j \in 1 .. Len(whole) /\ whole[Len(s) + j] = t[j]
           /\ \A k \in 1 .. Len(whole) :
                  k \in 1 .. Len(s) \/ \E j \in 1 .. Len(t) : k = Len(s) + j
<1>1. Len(s) \in Nat /\ Len(t) \in Nat
  OBVIOUS
<1>2. /\ whole \in Seq(S) /\ Len(whole) = Len(s) + Len(t)
      /\ \A i \in 1 .. Len(s) + Len(t) :
             whole[i] = IF i <= Len(s) THEN s[i] ELSE t[i - Len(s)]
  BY ConcatProperties
<1>3. ASSUME NEW i \in 1 .. Len(s) PROVE i \in 1 .. Len(whole) /\ whole[i] = s[i]
  BY <1>1, <1>2
<1>4. ASSUME NEW j \in 1 .. Len(t)
      PROVE  Len(s) + j \in 1 .. Len(whole) /\ whole[Len(s) + j] = t[j]
  <2>1. PICK k \in 1 .. Len(s) + Len(t) : k = Len(s) + j /\ ~(k <= Len(s)) /\ k - Len(s) = j
    BY <1>1
  <2> QED BY <1>2, <2>1
<1>5. ASSUME NEW k \in 1 .. Len(whole)
      PROVE  k \in 1 .. Len(s) \/ \E j \in 1 .. Len(t) : k = Len(s) + j
  <2>1. k \in 1 .. Len(s) \/ (k - Len(s) \in 1 .. Len(t) /\ k = Len(s) + (k - Len(s)))
    BY <1>1, <1>2
  <2> QED BY <2>1
<1> QED BY <1>2, <1>3, <1>4, <1>5

\* Parts of one element each: the whole has those elements.
LEMMA FlattenSingletons ==
    ASSUME NEW S, NEW seqs \in Seq(Seq(S)), \A i \in 1 .. Len(seqs) : Len(seqs[i]) = 1
    PROVE  /\ FlattenSeq(seqs) \in Seq(S) /\ Len(FlattenSeq(seqs)) = Len(seqs)
           /\ \A i \in 1 .. Len(seqs) : FlattenSeq(seqs)[i] = seqs[i][1]
<1> DEFINE Has(s, n) == Len(s) = n /\ \A i \in 1 .. n : s[i] = seqs[i][1]
           R == {p \in (0 .. Len(seqs)) \X Seq(S) : Has(p[2], p[1])}
<1>1. \A n, s : <<n, s>> \in R <=> n \in 0 .. Len(seqs) /\ s \in Seq(S) /\ Has(s, n)
  OBVIOUS
<1> HIDE DEF R
<1>2. <<0, << >>>> \in R
  <2>1. 0 \in 0 .. Len(seqs) /\ << >> \in Seq(S) /\ Len(<< >>) = 0 /\ \A i \in 1 .. 0 : FALSE
    OBVIOUS
  <2> QED BY <1>1, <2>1
<1>3. ASSUME NEW n \in 0 .. Len(seqs), NEW s \in Seq(S), n < Len(seqs), <<n, s>> \in R
      PROVE  <<n + 1, s \o seqs[n + 1]>> \in R
  <2>1. n + 1 \in 1 .. Len(seqs) /\ n + 1 \in 0 .. Len(seqs) /\ n \in Nat
    BY <1>3
  <2>2. seqs[n + 1] \in Seq(S) /\ Len(seqs[n + 1]) = 1
    BY <2>1, ElementOfSeq
  <2>3. Has(s, n)
    <3> HIDE DEF Has
    <3> QED BY <1>1, <1>3
  <2> DEFINE part == seqs[n + 1]
             whole == s \o part
  <2>4. /\ whole \in Seq(S) /\ Len(whole) = n + 1
        /\ \A i \in 1 .. Len(s) : whole[i] = s[i]
        /\ \A j \in 1 .. Len(part) : whole[Len(s) + j] = part[j]
    <3>1. Len(part) = 1 /\ Len(s) = n
      BY <2>2, <2>3
    <3>2. part \in Seq(S) /\ whole = s \o part
      BY <2>2
    <3> HIDE DEF part, whole
    <3>3. /\ whole \in Seq(S) /\ Len(whole) = Len(s) + Len(part)
          /\ \A i \in 1 .. Len(s) : i \in 1 .. Len(whole) /\ whole[i] = s[i]
          /\ \A j \in 1 .. Len(part) : whole[Len(s) + j] = part[j]
      BY <3>2, Concat
    <3> QED BY <3>1, <3>3
  <2>5. Has(whole, n + 1)
    <3>1. whole[n + 1] = part[1]
      <4>1. Len(part) = 1 /\ Len(s) = n /\ 1 \in 1 .. 1
        BY <2>2, <2>3
      <4> HIDE DEF part, whole
      <4> QED BY <2>4, <4>1
    <3>2. \A i \in 1 .. n : whole[i] = seqs[i][1]
      <4> HIDE DEF part, whole
      <4> QED BY <2>3, <2>4
    <3>3. \A i \in 1 .. n + 1 : i \in 1 .. n \/ i = n + 1
      BY <2>1
    <3>4. part[1] = seqs[n + 1][1] /\ Len(whole) = n + 1
      BY <2>4
    <3> HIDE DEF part, whole
    <3> QED BY <3>1, <3>2, <3>3, <3>4
  <2>6. <<n + 1, whole>> \in R
    <3> HIDE DEF Has, whole
    <3> QED BY <1>1, <2>1, <2>4, <2>5
  <2> QED BY <2>6
<1>4. <<Len(seqs), FlattenSeq(seqs)>> \in R
  <2> HIDE DEF Has
  <2> QED BY <1>2, <1>3, FlattenInduction
<1>5. FlattenSeq(seqs) \in Seq(S) /\ Has(FlattenSeq(seqs), Len(seqs))
  <2> HIDE DEF Has
  <2> QED BY <1>1, <1>4
<1> QED BY <1>5

HasAll(whole, parts) ==
    \A i \in 1 .. Len(parts) : \A j \in 1 .. Len(parts[i]) :
        \E m \in 1 .. Len(whole) : whole[m] = parts[i][j]

\* An element of a part is an element of the whole.
LEMMA FlattenElements ==
    ASSUME NEW S, NEW seqs \in Seq(Seq(S))
    PROVE  FlattenSeq(seqs) \in Seq(S) /\ HasAll(FlattenSeq(seqs), seqs)
<1> DEFINE Has(s, n) ==
               \A i \in 1 .. n : \A j \in 1 .. Len(seqs[i]) :
                   \E m \in 1 .. Len(s) : s[m] = seqs[i][j]
           R == {p \in (0 .. Len(seqs)) \X Seq(S) : Has(p[2], p[1])}
<1>1. \A n, s : <<n, s>> \in R <=> n \in 0 .. Len(seqs) /\ s \in Seq(S) /\ Has(s, n)
  OBVIOUS
<1> HIDE DEF R
<1>2. <<0, << >>>> \in R
  <2>1. 0 \in 0 .. Len(seqs) /\ << >> \in Seq(S) /\ \A i \in 1 .. 0 : FALSE
    OBVIOUS
  <2> QED BY <1>1, <2>1
<1>3. ASSUME NEW n \in 0 .. Len(seqs), NEW s \in Seq(S), n < Len(seqs), <<n, s>> \in R
      PROVE  <<n + 1, s \o seqs[n + 1]>> \in R
  <2>1. n + 1 \in 1 .. Len(seqs) /\ n + 1 \in 0 .. Len(seqs) /\ n \in Nat
    BY <1>3
  <2>2. seqs[n + 1] \in Seq(S)
    BY <2>1, ElementOfSeq
  <2>3. Has(s, n)
    <3> HIDE DEF Has
    <3> QED BY <1>1, <1>3
  <2> DEFINE part == seqs[n + 1]
             whole == s \o part
  <2>4. /\ whole \in Seq(S)
        /\ \A i \in 1 .. Len(s) : i \in 1 .. Len(whole) /\ whole[i] = s[i]
        /\ \A j \in 1 .. Len(part) : Len(s) + j \in 1 .. Len(whole) /\ whole[Len(s) + j] = part[j]
    <3>1. part \in Seq(S) /\ whole = s \o part
      BY <2>2
    <3> HIDE DEF part, whole
    <3> QED BY <3>1, Concat
  <2>6. ASSUME NEW i \in 1 .. n + 1, NEW j \in 1 .. Len(seqs[i])
        PROVE  \E m \in 1 .. Len(whole) : whole[m] = seqs[i][j]
    <3>1. CASE i <= n
      <4>1. i \in 1 .. n
        BY <2>1, <3>1
      <4>2. PICK m \in 1 .. Len(s) : s[m] = seqs[i][j]
        BY <2>3, <4>1
      <4> HIDE DEF whole, part
      <4> QED BY <2>4, <4>2
    <3>2. CASE ~(i <= n)
      <4>1. seqs[i] = part /\ j \in 1 .. Len(part)
        <5>1. i = n + 1
          BY <2>1, <3>2
        <5> QED BY <5>1
      <4> HIDE DEF whole, part
      <4> QED BY <2>4, <4>1
    <3> QED BY <3>1, <3>2
  <2>7. Has(whole, n + 1)
    BY <2>6
  <2> HIDE DEF Has
  <2>8. <<n + 1, whole>> \in R
    BY <1>1, <2>1, <2>4, <2>7
  <2> QED BY <2>8
<1>4. <<Len(seqs), FlattenSeq(seqs)>> \in R
  <2> HIDE DEF Has
  <2> QED BY <1>2, <1>3, FlattenInduction
<1>5. FlattenSeq(seqs) \in Seq(S) /\ Has(FlattenSeq(seqs), Len(seqs))
  <2> HIDE DEF Has
  <2> QED BY <1>1, <1>4
<1> QED BY <1>5 DEF HasAll

-----------------------------------------------------------------------------
(* Fields with their first and last places. *)

LEMMA FirstPlace ==
    ASSUME NEW S \in SUBSET Nat, S # {}
    PROVE  FirstOf(S) \in S /\ \A n \in S : FirstOf(S) <= n
<1>1. \E m \in S : \A n \in S : m <= n
  BY LeastElement
<1> QED BY <1>1 DEF FirstOf

LEMMA FirstPlaceIs ==
    ASSUME NEW S \in SUBSET Nat, NEW m \in S, \A n \in S : m <= n
    PROVE  FirstOf(S) = m
<1>1. FirstOf(S) \in S /\ \A n \in S : FirstOf(S) <= n
  BY FirstPlace
<1>2. FirstOf(S) <= m /\ m <= FirstOf(S) /\ m \in Nat /\ FirstOf(S) \in Nat
  BY <1>1
<1> QED BY <1>2

LEMMA LastPlaceIs ==
    ASSUME NEW S \in SUBSET Nat, NEW m \in S, \A n \in S : n <= m
    PROVE  LastOf(S) = m
<1>1. LastOf(S) \in S /\ \A n \in S : LastOf(S) >= n
  <2>1. \E k \in S : \A n \in S : k >= n
    OBVIOUS
  <2> QED BY <2>1 DEF LastOf
<1>2. LastOf(S) <= m /\ m <= LastOf(S) /\ m \in Nat /\ LastOf(S) \in Nat
  BY <1>1
<1> QED BY <1>2

LEMMA LastPlace ==
    ASSUME NEW S \in SUBSET Nat, S # {}, NEW bound \in Nat, \A n \in S : n <= bound
    PROVE  LastOf(S) \in S /\ \A n \in S : n <= LastOf(S)
<1>1. PICK m \in S : \A n \in S : m >= n
  BY GreatestElement
<1>2. \A n \in S : n <= m
  BY <1>1
<1>3. LastOf(S) = m
  BY <1>2, LastPlaceIs
<1> QED BY <1>2, <1>3

\* Where the key of a field is found once the field is put behind.
LEMMA PositionsAppend ==
    ASSUME NEW K, NEW T, NEW fields \in Seq(FieldsOf(K, T)),
           NEW f \in FieldsOf(K, T), NEW key
    PROVE  /\ Positions(fields, key) \in SUBSET Nat
           /\ Positions(Append(fields, f), key) \in SUBSET Nat
           /\ \A n \in Positions(fields, key) : n <= Len(fields)
           /\ key # f.key => Positions(Append(fields, f), key) = Positions(fields, key)
           /\ key = f.key => Positions(Append(fields, f), key) = Positions(fields, key) \cup {Len(fields) + 1}
<1> DEFINE F == FieldsOf(K, T)
           longer == Append(fields, f)
<1>1. /\ longer \in Seq(F) /\ Len(longer) = Len(fields) + 1
      /\ \A i \in 1 .. Len(fields) : longer[i] = fields[i]
      /\ longer[Len(fields) + 1] = f
  BY AppendProperties
<1> HIDE DEF longer
<1>2. Len(fields) \in Nat /\ DOMAIN fields = 1 .. Len(fields) /\ DOMAIN longer = 1 .. Len(fields) + 1
  BY <1>1
<1>3. \A i : i \in 1 .. Len(fields) + 1 <=> i \in 1 .. Len(fields) \/ i = Len(fields) + 1
  BY <1>2
<1>4. \A i : i \in Positions(longer, key) <=>
               i \in Positions(fields, key) \/ (i = Len(fields) + 1 /\ f.key = key)
  BY <1>1, <1>2, <1>3 DEF Positions
<1>5. Positions(fields, key) \subseteq 1 .. Len(fields)
  BY <1>2 DEF Positions
<1>6. \A i \in 1 .. Len(fields) : i \in Nat /\ i <= Len(fields)
  OBVIOUS
<1>7. Len(fields) + 1 \in Nat
  BY <1>2
<1> QED BY <1>4, <1>5, <1>6, <1>7 DEF longer

IsReplaced(after, fields, f, p) ==
    /\ fields[p].key = f.key /\ Len(after) = Len(fields)
    /\ \A i \in 1 .. Len(fields) :
           /\ after[i].key = fields[i].key
           /\ after[i].value = IF i = p THEN f.value ELSE fields[i].value

LEMMA AppendOrReplaceTyped ==
    ASSUME NEW K, NEW T, NEW fields \in Seq(FieldsOf(K, T)), NEW f \in FieldsOf(K, T)
    PROVE  /\ AppendOrReplace(fields, f) \in Seq(FieldsOf(K, T))
           /\ Positions(fields, f.key) = {} =>
                  AppendOrReplace(fields, f) = Append(fields, f)
           /\ Positions(fields, f.key) # {} =>
                  \E p \in 1 .. Len(fields) :
                      IsReplaced(AppendOrReplace(fields, f), fields, f, p)
<1> DEFINE F == FieldsOf(K, T)
           P == Positions(fields, f.key)
           p == FirstOf(P)
           G == [fields EXCEPT ![p].value = f.value]
<1>1. CASE P = {}
  <2>1. AppendOrReplace(fields, f) = Append(fields, f)
    BY <1>1 DEF AppendOrReplace
  <2> QED BY <1>1, <2>1, AppendProperties
<1>2. CASE P # {}
  <2>1. AppendOrReplace(fields, f) = G
    BY <1>2 DEF AppendOrReplace
  <2>2. Len(fields) \in Nat /\ DOMAIN fields = 1 .. Len(fields)
    OBVIOUS
  <2>3. \A i : i \in P <=> i \in 1 .. Len(fields) /\ fields[i].key = f.key
    BY <2>2 DEF Positions
  <2>4. P \in SUBSET Nat
    <3>1. \A i \in 1 .. Len(fields) : i \in Nat
      OBVIOUS
    <3> HIDE DEF P
    <3> QED BY <2>3, <3>1
  <2>5. p \in P
    <3> HIDE DEF P
    <3> QED BY <1>2, <2>4, FirstPlace
  <2>6. p \in 1 .. Len(fields) /\ fields[p].key = f.key
    <3> HIDE DEF P, p
    <3> QED BY <2>3, <2>5
  <2> HIDE DEF P, p
  <2>7. ASSUME NEW i \in 1 .. Len(fields)
        PROVE  /\ G[i] = IF i = p THEN [fields[i] EXCEPT !.value = f.value] ELSE fields[i]
               /\ G[i] \in F /\ G[i].key = fields[i].key
               /\ G[i].value = IF i = p THEN f.value ELSE fields[i].value
    <3>1. fields[i] \in F
      BY ElementOfSeq
    <3>2. G[i] = IF i = p THEN [fields[i] EXCEPT !.value = f.value] ELSE fields[i]
      BY <2>2, <2>6
    <3>3. /\ [fields[i] EXCEPT !.value = f.value] \in F
          /\ [fields[i] EXCEPT !.value = f.value].key = fields[i].key
          /\ [fields[i] EXCEPT !.value = f.value].value = f.value
      BY <3>1 DEF FieldsOf
    <3> HIDE DEF G, F
    <3> QED BY <3>1, <3>2, <3>3
  <2>8. G \in Seq(F) /\ Len(G) = Len(fields)
    <3>1. G = [i \in 1 .. Len(fields) |-> G[i]]
      BY <2>2
    <3> HIDE DEF G, F
    <3>2. G \in [1 .. Len(fields) -> F]
      BY <2>7, <3>1
    <3> QED BY <2>2, <3>2, SeqDef
  <2> HIDE DEF G
  <2> QED BY <1>2, <2>1, <2>6, <2>7, <2>8 DEF P, IsReplaced
<1> QED BY <1>1, <1>2

\* A batch is merged one field after the other: what holds of the first fields,
\* and is kept by each, holds of the result.
LEMMA MergeInduction ==
    ASSUME NEW K, NEW T, NEW base \in Seq(FieldsOf(K, T)),
           NEW extras \in Seq(FieldsOf(K, T)), base # << >>,
           NEW R, <<0, base>> \in R,
           \A n \in 0 .. Len(extras), s \in Seq(FieldsOf(K, T)) :
               n < Len(extras) /\ <<n, s>> \in R
                   => <<n + 1, AppendOrReplace(s, extras[n + 1])>> \in R
    PROVE  /\ <<Len(extras), MergeFieldSets(base, extras)>> \in R
           /\ MergeFieldSets(base, extras) \in Seq(FieldsOf(K, T))
<1> DEFINE F == FieldsOf(K, T)
           X == Seq(F)
           N == Len(extras)
           step == [p \in (1 .. N) \X X |-> AppendOrReplace(p[2], extras[p[1]])]
           IsMerge(f) == f = [n \in 0 .. N |->
                                  IF n = 0 THEN base ELSE AppendOrReplace(f[n - 1], extras[n])]
           h == CHOOSE f : IsMerge(f)
<1>1. N \in Nat
  OBVIOUS
<1>2. ASSUME NEW i \in 1 .. N, NEW s \in X
      PROVE  AppendOrReplace(s, extras[i]) \in X /\ step[<<i, s>>] = AppendOrReplace(s, extras[i])
  <2>1. extras[i] \in F
    BY ElementOfSeq
  <2>2. AppendOrReplace(s, extras[i]) \in X
    BY <2>1, AppendOrReplaceTyped
  <2>3. <<i, s>> \in (1 .. N) \X X /\ <<i, s>>[1] = i /\ <<i, s>>[2] = s
    OBVIOUS
  <2> HIDE DEF N, X
  <2> QED BY <2>2, <2>3
<1>3. step \in [(1 .. N) \X X -> X]
  <2>1. ASSUME NEW p \in (1 .. N) \X X PROVE AppendOrReplace(p[2], extras[p[1]]) \in X
    <3>1. p[1] \in 1 .. N /\ p[2] \in X
      OBVIOUS
    <3> HIDE DEF N, X
    <3> QED BY <1>2, <3>1
  <2> HIDE DEF N, X
  <2> QED BY <2>1
<1> HIDE DEF step
<1>4. PICK f \in [0 .. N -> X] : Recursive(f, base, step, N)
  <2>1. base \in X
    OBVIOUS
  <2> HIDE DEF N, X
  <2> QED BY <1>1, <1>3, <2>1, Recursion
<1>5. IsMerge(f)
  <2>1. f = [n \in 0 .. N |-> f[n]]
    BY <1>4
  <2>2. ASSUME NEW n \in 0 .. N
        PROVE  f[n] = IF n = 0 THEN base ELSE AppendOrReplace(f[n - 1], extras[n])
    <3>1. f[n] = IF n = 0 THEN base ELSE step[<<n, f[n - 1]>>]
      BY <1>4 DEF Recursive
    <3>2. n # 0 => n \in 1 .. N /\ n - 1 \in 0 .. N
      BY <1>1
    <3>3. n # 0 => f[n - 1] \in X
      BY <1>4, <3>2
    <3> HIDE DEF N, X
    <3> QED BY <1>2, <3>1, <3>2, <3>3
  <2> HIDE DEF N, X
  <2> QED BY <2>1, <2>2
<1>6. IsMerge(h)
  BY <1>5, Zenon
<1>7. MergeFieldSets(base, extras) = h[N]
  BY Zenon DEF MergeFieldSets
<1> HIDE DEF h
<1>8. h[0] = base /\ \A n \in 1 .. N : h[n] = AppendOrReplace(h[n - 1], extras[n])
  <2>1. 0 \in 0 .. N /\ \A n \in 1 .. N : n \in 0 .. N /\ n # 0
    BY <1>1
  <2>2. \A n \in 0 .. N : h[n] = IF n = 0 THEN base ELSE AppendOrReplace(h[n - 1], extras[n])
    BY <1>6
  <2> HIDE DEF N, IsMerge
  <2> QED BY <2>1, <2>2
<1> DEFINE Q == {p \in R : p[2] \in X}
<1>9. \A n, s : <<n, s>> \in Q <=> <<n, s>> \in R /\ s \in X
  <2>1. \A n, s : <<n, s>>[2] = s
    OBVIOUS
  <2> HIDE DEF X
  <2> QED BY <2>1
<1> HIDE DEF Q, IsMerge
<1>10. <<0, h[0]>> \in Q
  BY <1>8, <1>9
<1>11. ASSUME NEW n \in 0 .. N, n < N, <<n, h[n]>> \in Q PROVE <<n + 1, h[n + 1]>> \in Q
  <2>1. <<n, h[n]>> \in R /\ h[n] \in X
    BY <1>9, <1>11
  <2>2. PICK m \in 1 .. N : m = n + 1 /\ m - 1 = n
    BY <1>1, <1>11
  <2>3. h[m] = AppendOrReplace(h[n], extras[m])
    BY <1>8, <2>2
  <2>4. AppendOrReplace(h[n], extras[m]) \in X
    <3> HIDE DEF N, X
    <3> QED BY <1>2, <2>1
  <2>5. <<n + 1, AppendOrReplace(h[n], extras[n + 1])>> \in R
    BY <1>11, <2>1
  <2> HIDE DEF N, X
  <2> QED BY <1>9, <2>2, <2>3, <2>4, <2>5
<1>12. <<N, h[N]>> \in Q
  <2>1. \A n \in 0 .. N : <<n, h[n]>> \in Q
    <3> HIDE DEF N, X
    <3> QED BY <1>1, <1>10, <1>11, RecursionInvariant
  <2>2. N \in 0 .. N
    BY <1>1
  <2> HIDE DEF N
  <2> QED BY <2>1, <2>2
<1> QED BY <1>7, <1>9, <1>12

LEMMA MergeTyped ==
    ASSUME NEW K, NEW T, NEW base \in Seq(FieldsOf(K, T)),
           NEW extras \in Seq(FieldsOf(K, T))
    PROVE  MergeFieldSets(base, extras) \in Seq(FieldsOf(K, T))
<1>1. CASE base = << >>
  <2>1. MergeFieldSets(base, extras) = extras
    BY <1>1 DEF MergeFieldSets
  <2> QED BY <2>1
<1>2. CASE base # << >>
  <2> DEFINE F == FieldsOf(K, T)
             R == Nat \X Seq(F)
  <2>1. \A n, s : <<n, s>> \in R <=> n \in Nat /\ s \in Seq(F)
    OBVIOUS
  <2>2. ASSUME NEW n \in 0 .. Len(extras), NEW s \in Seq(F), n < Len(extras), <<n, s>> \in R
        PROVE  <<n + 1, AppendOrReplace(s, extras[n + 1])>> \in R
    <3>1. n + 1 \in 1 .. Len(extras) /\ n + 1 \in Nat
      BY <2>2
    <3>2. extras[n + 1] \in F
      BY <3>1, ElementOfSeq
    <3>3. AppendOrReplace(s, extras[n + 1]) \in Seq(F)
      BY <3>2, AppendOrReplaceTyped
    <3> HIDE DEF R, F
    <3> QED BY <2>1, <3>1, <3>3
  <2>3. <<0, base>> \in R
    BY <2>1
  <2> HIDE DEF R
  <2> QED BY <1>2, <2>2, <2>3, MergeInduction
<1> QED BY <1>1, <1>2

-----------------------------------------------------------------------------
(* What the fields of a logger say of all it was given. *)

Represents(fields, all) ==
    /\ \A m, n \in DOMAIN fields : fields[m].key = fields[n].key => m = n
    /\ \A n \in DOMAIN fields :
           /\ Positions(all, fields[n].key) # {}
           /\ fields[n].value = all[LastOf(Positions(all, fields[n].key))].value
    /\ \A n \in DOMAIN all : Positions(fields, all[n].key) # {}
    /\ \A m, n \in DOMAIN fields :
           m < n => FirstOf(Positions(all, fields[m].key)) < FirstOf(Positions(all, fields[n].key))

\* How the places of a key change when a field is put behind.
LEMMA PlacesAppend ==
    ASSUME NEW K, NEW T, NEW all \in Seq(FieldsOf(K, T)),
           NEW f \in FieldsOf(K, T)
    PROVE  /\ Append(all, f) \in Seq(FieldsOf(K, T)) /\ Len(Append(all, f)) = Len(all) + 1
           /\ \A i \in 1 .. Len(all) : Append(all, f)[i] = all[i]
           /\ Append(all, f)[Len(all) + 1] = f
           /\ Positions(Append(all, f), f.key) # {} /\ LastOf(Positions(Append(all, f), f.key)) = Len(all) + 1
           /\ Positions(all, f.key) = {} => FirstOf(Positions(Append(all, f), f.key)) = Len(all) + 1
           /\ \A key : Positions(all, key) # {} =>
                  /\ Positions(Append(all, f), key) # {}
                  /\ FirstOf(Positions(Append(all, f), key)) = FirstOf(Positions(all, key))
                  /\ FirstOf(Positions(all, key)) \in 1 .. Len(all)
           /\ \A key : key # f.key => Positions(Append(all, f), key) = Positions(all, key)
           /\ \A key : Positions(all, key) # {} => LastOf(Positions(all, key)) \in 1 .. Len(all)
<1> DEFINE F == FieldsOf(K, T)
           longer == Append(all, f)
           P(key) == Positions(all, key)
           Q(key) == Positions(longer, key)
           N == Len(all)
<1>1. /\ longer \in Seq(F) /\ Len(longer) = N + 1
      /\ \A i \in 1 .. N : longer[i] = all[i]
      /\ longer[N + 1] = f
  BY AppendProperties
<1>2. ASSUME NEW key
      PROVE  /\ P(key) \in SUBSET Nat /\ Q(key) \in SUBSET Nat /\ \A n \in P(key) : n <= N
             /\ key # f.key => Q(key) = P(key)
             /\ key = f.key => Q(key) = P(key) \cup {N + 1}
             /\ P(key) \in SUBSET (1 .. N)
  <2>1. P(key) \in SUBSET (1 .. N)
    BY DEF Positions
  <2>2. Positions(all, key) \in SUBSET Nat /\ Positions(Append(all, f), key) \in SUBSET Nat
    BY PositionsAppend
  <2>3. \A n \in Positions(all, key) : n <= Len(all)
    BY PositionsAppend
  <2>4. key # f.key => Positions(Append(all, f), key) = Positions(all, key)
    BY PositionsAppend
  <2>5. key = f.key => Positions(Append(all, f), key) = Positions(all, key) \cup {Len(all) + 1}
    BY PositionsAppend
  <2> QED BY <2>1, <2>2, <2>3, <2>4, <2>5, Zenon
<1>3. N \in Nat /\ N + 1 \in Nat
  OBVIOUS
<1> HIDE DEF P, Q, N, F, longer
<1>4. Q(f.key) # {} /\ LastOf(Q(f.key)) = N + 1
  <2>1. Q(f.key) = P(f.key) \cup {N + 1} /\ Q(f.key) \in SUBSET Nat
    BY <1>2
  <2>2. ASSUME NEW n \in Q(f.key) PROVE n <= N + 1
    <3>1. n \in P(f.key) => n <= N /\ n \in Nat
      BY <1>2
    <3> QED BY <1>3, <2>1, <3>1
  <2>3. N + 1 \in Q(f.key)
    BY <2>1
  <2> QED BY <2>1, <2>2, <2>3, LastPlaceIs
<1>5. ASSUME P(f.key) = {} PROVE FirstOf(Q(f.key)) = N + 1
  <2>1. Q(f.key) = {N + 1} /\ N + 1 <= N + 1
    BY <1>2, <1>3, <1>5
  <2>2. Q(f.key) \in SUBSET Nat /\ N + 1 \in Q(f.key) /\ \A n \in Q(f.key) : N + 1 <= n
    BY <1>3, <2>1
  <2> QED BY <2>2, FirstPlaceIs
<1>6. ASSUME NEW key, P(key) # {}
      PROVE  /\ Q(key) # {} /\ FirstOf(Q(key)) = FirstOf(P(key)) /\ FirstOf(P(key)) \in 1 .. N
             /\ LastOf(P(key)) \in 1 .. N
  <2>1. /\ P(key) \in SUBSET Nat /\ Q(key) \in SUBSET Nat /\ P(key) \in SUBSET (1 .. N)
        /\ \A n \in P(key) : n <= N
        /\ Q(key) = P(key) \/ Q(key) = P(key) \cup {N + 1}
    BY <1>2
  <2> DEFINE first == FirstOf(P(key))
  <2>2. first \in P(key) /\ \A n \in P(key) : first <= n
    BY <1>6, <2>1, FirstPlace
  <2>3. LastOf(P(key)) \in P(key)
    BY <1>3, <1>6, <2>1, LastPlace
  <2> HIDE DEF first
  <2>4. first <= N + 1
    <3>1. first \in Nat /\ first <= N
      BY <2>1, <2>2
    <3> QED BY <1>3, <3>1
  <2>5. first \in Q(key) /\ \A n \in Q(key) : first <= n
    BY <2>1, <2>2, <2>4
  <2>6. FirstOf(Q(key)) = first
    BY <2>1, <2>5, FirstPlaceIs
  <2> QED BY <2>1, <2>2, <2>3, <2>5, <2>6 DEF first
<1> QED BY <1>1, <1>2, <1>4, <1>5, <1>6 DEF P, Q, N, F, longer

LEMMA RepresentsStep ==
    ASSUME NEW K, NEW T, NEW fields \in Seq(FieldsOf(K, T)),
           NEW all \in Seq(FieldsOf(K, T)), NEW f \in FieldsOf(K, T),
           Represents(fields, all)
    PROVE  Represents(AppendOrReplace(fields, f), Append(all, f))
<1> DEFINE F == FieldsOf(K, T)
           after == AppendOrReplace(fields, f)
           longer == Append(all, f)
           P(key) == Positions(all, key)
           Q(key) == Positions(longer, key)
           M == Len(fields)
           N == Len(all)
<1>1. /\ longer \in Seq(F) /\ Len(longer) = N + 1
      /\ \A i \in 1 .. N : longer[i] = all[i]
      /\ longer[N + 1] = f
      /\ Q(f.key) # {} /\ LastOf(Q(f.key)) = N + 1
      /\ P(f.key) = {} => FirstOf(Q(f.key)) = N + 1
      /\ \A key : P(key) # {} => /\ Q(key) # {} /\ FirstOf(Q(key)) = FirstOf(P(key))
                                 /\ FirstOf(P(key)) \in 1 .. N /\ LastOf(P(key)) \in 1 .. N
      /\ \A key : key # f.key => Q(key) = P(key)
  <2>2. /\ Append(all, f) \in Seq(FieldsOf(K, T)) /\ Len(Append(all, f)) = Len(all) + 1
        /\ \A i \in 1 .. Len(all) : Append(all, f)[i] = all[i]
        /\ Append(all, f)[Len(all) + 1] = f
    BY PlacesAppend
  <2>3. /\ Positions(Append(all, f), f.key) # {} /\ LastOf(Positions(Append(all, f), f.key)) = Len(all) + 1
        /\ Positions(all, f.key) = {} => FirstOf(Positions(Append(all, f), f.key)) = Len(all) + 1
    BY PlacesAppend
  <2>4. ASSUME NEW key, Positions(all, key) # {}
        PROVE  /\ Positions(Append(all, f), key) # {}
               /\ FirstOf(Positions(Append(all, f), key)) = FirstOf(Positions(all, key))
               /\ FirstOf(Positions(all, key)) \in 1 .. Len(all)
               /\ LastOf(Positions(all, key)) \in 1 .. Len(all)
    BY <2>4, PlacesAppend
  <2>5. \A key : key # f.key => Positions(Append(all, f), key) = Positions(all, key)
    BY PlacesAppend
  <2> QED BY <2>2, <2>3, <2>4, <2>5, Zenon
<1>2. /\ DOMAIN fields = 1 .. M /\ DOMAIN all = 1 .. N /\ DOMAIN longer = 1 .. N + 1
      /\ M \in Nat /\ N \in Nat
  BY <1>1
<1>3. /\ \A m, n \in 1 .. M : fields[m].key = fields[n].key => m = n
      /\ \A n \in 1 .. M : P(fields[n].key) # {} /\ fields[n].value = all[LastOf(P(fields[n].key))].value
      /\ \A n \in 1 .. N : Positions(fields, all[n].key) # {}
      /\ \A m, n \in 1 .. M :
             m < n => FirstOf(P(fields[m].key)) < FirstOf(P(fields[n].key))
  BY <1>2 DEF Represents
\* What a field already there, under another key, keeps.
<1>4. ASSUME NEW n \in 1 .. M, fields[n].key # f.key
      PROVE  /\ Q(fields[n].key) # {}
             /\ fields[n].value = longer[LastOf(Q(fields[n].key))].value
  <2>1. Q(fields[n].key) = P(fields[n].key) /\ LastOf(P(fields[n].key)) \in 1 .. N
    BY <1>1, <1>3, <1>4
  <2> HIDE DEF P, Q, longer, N, M
  <2> QED BY <1>1, <1>3, <2>1
<1>5. ASSUME NEW m \in 1 .. M, NEW n \in 1 .. M, m < n
      PROVE  FirstOf(Q(fields[m].key)) < FirstOf(Q(fields[n].key))
  <2> HIDE DEF P, Q, longer, N, M
  <2> QED BY <1>1, <1>3, <1>5
<1> DEFINE Found(key) == \E n \in DOMAIN after : after[n].key = key
<1>6. SUFFICES /\ \A m, n \in DOMAIN after : after[m].key = after[n].key => m = n
               /\ \A n \in DOMAIN after : /\ Q(after[n].key) # {}
                                          /\ after[n].value = longer[LastOf(Q(after[n].key))].value
               /\ \A n \in 1 .. N + 1 : Found(longer[n].key)
               /\ \A m, n \in DOMAIN after :
                      m < n => FirstOf(Q(after[m].key)) < FirstOf(Q(after[n].key))
  <2>1. \A key : Found(key) => Positions(after, key) # {}
    BY DEF Positions
  <2>2. Represents(after, longer)
    <3> HIDE DEF Found, after, longer, N
    <3> QED BY <1>2, <1>6, <2>1 DEF Represents, Q
  <2> QED BY <2>2
<1>7. \A n \in 1 .. N : \E m \in 1 .. M : fields[m].key = all[n].key
  BY <1>2, <1>3 DEF Positions
<1>8. CASE Positions(fields, f.key) = {}
  <2>1. after = Append(fields, f)
    BY <1>8, AppendOrReplaceTyped
  <2>2. /\ DOMAIN after = 1 .. M + 1 /\ after[M + 1] = f
        /\ \A i \in 1 .. M : after[i] = fields[i]
    BY <2>1, AppendProperties
  <2>3. \A n \in 1 .. M : fields[n].key # f.key
    BY <1>2, <1>8 DEF Positions
  <2>4. P(f.key) = {}
    <3>1. \A n \in 1 .. N : all[n].key # f.key
      BY <1>7, <2>3
    <3> QED BY <1>2, <3>1 DEF Positions
  <2>5. \A i : i \in 1 .. M + 1 <=> i \in 1 .. M \/ i = M + 1
    BY <1>2
  <2>6. \A i : i \in 1 .. N + 1 => i \in 1 .. N \/ i = N + 1
    BY <1>2
  <2> HIDE DEF P, Q, longer, N, M, after
  <2>7. \A m, n \in DOMAIN after : after[m].key = after[n].key => m = n
    BY <1>3, <2>2, <2>3, <2>5
  <2>8. ASSUME NEW n \in DOMAIN after
        PROVE  Q(after[n].key) # {} /\ after[n].value = longer[LastOf(Q(after[n].key))].value
    <3>1. CASE n \in 1 .. M
      BY <1>4, <2>2, <2>3, <3>1
    <3>2. CASE n = M + 1
      BY <1>1, <2>2, <3>2
    <3> QED BY <2>2, <2>5, <3>1, <3>2
  <2>9. ASSUME NEW n \in 1 .. N + 1 PROVE Found(longer[n].key)
    <3>1. CASE n \in 1 .. N
      BY <1>1, <1>7, <2>2, <2>5, <3>1
    <3>2. CASE n = N + 1
      BY <1>1, <2>2, <2>5, <3>2
    <3> QED BY <2>6, <3>1, <3>2
  <2>10. ASSUME NEW m \in DOMAIN after, NEW n \in DOMAIN after, m < n
         PROVE  FirstOf(Q(after[m].key)) < FirstOf(Q(after[n].key))
    <3>1. m \in 1 .. M
      BY <1>2, <2>2, <2>10
    <3>2. CASE n \in 1 .. M
      BY <1>5, <2>2, <2>10, <3>1, <3>2
    <3>3. CASE n = M + 1
      <4>1. FirstOf(Q(after[n].key)) = N + 1
        BY <1>1, <2>2, <2>4, <3>3
      <4>2. FirstOf(Q(after[m].key)) \in 1 .. N
        BY <1>1, <1>3, <2>2, <3>1
      <4> QED BY <1>2, <4>1, <4>2
    <3> QED BY <2>2, <2>5, <3>2, <3>3
  <2> HIDE DEF Found
  <2> QED BY <2>7, <2>8, <2>9, <2>10
<1>9. CASE Positions(fields, f.key) # {}
  <2>1. PICK p \in 1 .. M :
            /\ fields[p].key = f.key /\ Len(after) = M
            /\ \A i \in 1 .. M : /\ after[i].key = fields[i].key
                                 /\ after[i].value = IF i = p THEN f.value ELSE fields[i].value
    <3>1. PICK p \in 1 .. M : IsReplaced(after, fields, f, p)
      BY <1>9, AppendOrReplaceTyped
    <3> HIDE DEF after
    <3> QED BY <3>1 DEF IsReplaced
  <2>2. DOMAIN after = 1 .. M
    <3>1. after \in Seq(F)
      BY AppendOrReplaceTyped
    <3> HIDE DEF after
    <3> QED BY <2>1, <3>1
  <2>3. \A i : i \in 1 .. N + 1 => i \in 1 .. N \/ i = N + 1
    BY <1>2
  <2> HIDE DEF P, Q, longer, N, M, after, F
  <2>4. \A m, n \in DOMAIN after : after[m].key = after[n].key => m = n
    BY <1>3, <2>1, <2>2
  <2>5. ASSUME NEW n \in DOMAIN after
        PROVE  Q(after[n].key) # {} /\ after[n].value = longer[LastOf(Q(after[n].key))].value
    <3>1. CASE n = p
      BY <1>1, <2>1, <3>1
    <3>2. CASE n # p
      <4>1. n \in 1 .. M /\ fields[n].key # f.key
        BY <1>3, <2>1, <2>2, <3>2
      <4> QED BY <1>4, <2>1, <3>2, <4>1
    <3> QED BY <3>1, <3>2
  <2>6. ASSUME NEW n \in 1 .. N + 1 PROVE Found(longer[n].key)
    <3>1. CASE n \in 1 .. N
      BY <1>1, <1>7, <2>1, <2>2, <3>1
    <3>2. CASE n = N + 1
      BY <1>1, <2>1, <2>2, <3>2
    <3> QED BY <2>3, <3>1, <3>2
  <2>7. ASSUME NEW m \in DOMAIN after, NEW n \in DOMAIN after, m < n
        PROVE  FirstOf(Q(after[m].key)) < FirstOf(Q(after[n].key))
    BY <1>5, <2>1, <2>2, <2>7
  <2> HIDE DEF Found
  <2> QED BY <2>4, <2>5, <2>6, <2>7
<1> QED BY <1>8, <1>9

LEMMA RepresentsNothing == Represents(<< >>, << >>)
<1>1. DOMAIN << >> = {}
  OBVIOUS
<1> QED BY <1>1 DEF Represents

\* Only an empty list of fields represents nothing given, and the other way.
LEMMA RepresentedByNothing ==
    ASSUME NEW K, NEW T, NEW all \in Seq(FieldsOf(K, T)), Represents(<< >>, all)
    PROVE  all = << >>
<1>1. \A n \in DOMAIN all : FALSE
  BY DEF Represents, Positions
<1>2. all # << >> => 1 \in DOMAIN all
  BY EmptySeq
<1> QED BY <1>1, <1>2

\* A batch without a key twice represents itself.
LEMMA RepresentsItself ==
    ASSUME NEW K, NEW T, NEW batch \in Seq(FieldsOf(K, T)), ~RepeatsAKey(batch)
    PROVE  Represents(batch, batch)
<1> DEFINE keys == [n \in DOMAIN batch |-> batch[n].key]
<1>1. \A m, n \in DOMAIN batch : batch[m].key = batch[n].key => m = n
  <2>1. \A m, n \in DOMAIN keys : keys[m] = keys[n] => m = n
    BY DEF RepeatsAKey, IsInjective
  <2>2. DOMAIN keys = DOMAIN batch /\ \A n \in DOMAIN batch : keys[n] = batch[n].key
    OBVIOUS
  <2> HIDE DEF keys
  <2> QED BY <2>1, <2>2
<1>2. ASSUME NEW n \in DOMAIN batch
      PROVE  LET P == Positions(batch, batch[n].key) IN
             P # {} /\ n \in Nat /\ FirstOf(P) = n /\ LastOf(P) = n
  <2> DEFINE P == Positions(batch, batch[n].key)
  <2>1. P = {n}
    BY <1>1 DEF Positions
  <2>2. n \in Nat /\ n <= n
    OBVIOUS
  <2> HIDE DEF P
  <2>3. P \in SUBSET Nat /\ n \in P /\ \A k \in P : n <= k /\ k <= n
    BY <2>1, <2>2
  <2>4. FirstOf(P) = n /\ LastOf(P) = n
    BY <2>3, FirstPlaceIs, LastPlaceIs
  <2>5. P # {} /\ n \in Nat /\ FirstOf(P) = n /\ LastOf(P) = n
    BY <2>2, <2>3, <2>4
  <2> QED BY <2>5 DEF P
<1> QED BY <1>1, <1>2 DEF Represents

\* Merging a batch into what stands for all before stands for all.
LEMMA RepresentsMerged ==
    ASSUME NEW K, NEW T, NEW base \in Seq(FieldsOf(K, T)), NEW all \in Seq(FieldsOf(K, T)),
           NEW batch \in Seq(FieldsOf(K, T)), base # << >>, Represents(base, all)
    PROVE  Represents(MergeFieldSets(base, batch), all \o batch)
<1> DEFINE F == FieldsOf(K, T)
           N == Len(batch)
           upTo(n) == all \o SubSeq(batch, 1, n)
           R == {p \in (0 .. N) \X Seq(F) : Represents(p[2], upTo(p[1]))}
<1>1. \A n, s : <<n, s>> \in R <=> n \in 0 .. N /\ s \in Seq(F) /\ Represents(s, upTo(n))
  <2>1. \A n, s : <<n, s>>[1] = n /\ <<n, s>>[2] = s
    OBVIOUS
  <2> HIDE DEF upTo, F, N
  <2> QED BY <2>1
<1> HIDE DEF R
<1>2. N \in Nat
  OBVIOUS
<1>3. <<0, base>> \in R
  <2>1. SubSeq(batch, 1, 0) = << >>
    BY SubSeqEmpty
  <2>2. upTo(0) = all
    BY <2>1, ConcatEmptySeq
  <2>3. 0 \in 0 .. N
    BY <1>2
  <2> HIDE DEF upTo, N
  <2> QED BY <1>1, <2>2, <2>3
<1>4. ASSUME NEW n \in 0 .. N, NEW s \in Seq(F), n < N, <<n, s>> \in R
      PROVE  <<n + 1, AppendOrReplace(s, batch[n + 1])>> \in R
  <2>1. /\ n + 1 \in 1 .. N /\ n + 1 \in 0 .. N /\ n + 1 - 1 = n /\ 1 \in 1 .. N
        /\ n + 1 \in 1 .. n + 1 /\ n + 1 \in 1 .. N
    BY <1>2, <1>4
  <2>2. batch[n + 1] \in F
    BY <2>1, ElementOfSeq
  <2> DEFINE before == SubSeq(batch, 1, n)
             f == batch[n + 1]
  <2>3. before \in Seq(F) /\ all \o before \in Seq(F)
    <3>1. \A i \in 1 .. n : batch[i] \in F
      <4>1. \A i \in 1 .. n : i \in 1 .. N
        BY <1>2
      <4>2. \A i \in 1 .. N : batch[i] \in F
        BY ElementOfSeq
      <4> HIDE DEF F, N
      <4> QED BY <4>1, <4>2
    <3>2. before \in Seq(F)
      <4> HIDE DEF F
      <4> QED BY <1>2, <3>1, SubSeqProperties
    <3> HIDE DEF before
    <3> QED BY <3>2, ConcatProperties
  <2>4. SubSeq(batch, 1, n + 1) = before \o <<f>>
    BY <2>1, SubSeqRecursiveSecond
  <2>5. upTo(n + 1) = Append(all \o before, f)
    <3>1. <<f>> \in Seq(F)
      BY <2>2
    <3>2. all \o (before \o <<f>>) = (all \o before) \o <<f>>
      <4> HIDE DEF before, f
      <4> QED BY <2>3, <3>1, ConcatAssociative
    <3>3. Append(all \o before, f) = (all \o before) \o <<f>>
      <4> HIDE DEF before, f
      <4> QED BY <2>2, <2>3, AppendIsConcat DEF f
    <3> HIDE DEF before, f
    <3> QED BY <2>4, <3>2, <3>3
  <2>6. Represents(s, all \o before)
    <3>1. Represents(s, upTo(n))
      <4> HIDE DEF upTo
      <4> QED BY <1>1, <1>4
    <3> QED BY <3>1
  <2>7. Represents(AppendOrReplace(s, f), Append(all \o before, f)) /\ AppendOrReplace(s, f) \in Seq(F)
    <3>1. f \in F
      BY <2>2
    <3> HIDE DEF before, f
    <3> QED BY <2>3, <2>6, <3>1, RepresentsStep, AppendOrReplaceTyped
  <2> HIDE DEF upTo, before, N
  <2> QED BY <1>1, <2>1, <2>5, <2>7
<1>5. <<N, MergeFieldSets(base, batch)>> \in R
  BY <1>3, <1>4, MergeInduction
<1>6. upTo(N) = all \o batch
  BY SubSeqFull
<1> HIDE DEF upTo, N
<1> QED BY <1>1, <1>5, <1>6

\* Loggers of which nothing is promised: what they were given starts with a batch
\* that has a key twice.
Excused(all) == \E n \in DOMAIN all : /\ RepeatsAKey(SubSeq(all, 1, n))
                                      /\ SubSeq(all, 1, n) \in Batches

LEMMA ExcusedStays ==
    ASSUME NEW S, NEW all \in Seq(S), NEW more \in Seq(S), Excused(all)
    PROVE  Excused(all \o more)
<1>1. PICK n \in 1 .. Len(all) : RepeatsAKey(SubSeq(all, 1, n)) /\ SubSeq(all, 1, n) \in Batches
  BY DEF Excused
<1>2. 1 \in 1 .. Len(all)
  OBVIOUS
<1>3. SubSeq(all \o more, 1, n) = SubSeq(all, 1, n)
  BY <1>2, SubSeqOfConcat1
<1>4. n \in DOMAIN (all \o more)
  <2> DEFINE whole == all \o more
  <2>1. whole \in Seq(S) /\ n \in 1 .. Len(whole)
    <3>1. whole = all \o more
      OBVIOUS
    <3> HIDE DEF whole
    <3> QED BY <3>1, Concat
  <2> HIDE DEF whole
  <2>2. n \in DOMAIN whole
    BY <2>1
  <2> QED BY <2>2 DEF whole
<1> QED BY <1>1, <1>3, <1>4 DEF Excused

LEMMA ExcusedBatch ==
    ASSUME NEW S, NEW batch \in Seq(S), batch \in Batches, batch # << >>, RepeatsAKey(batch)
    PROVE  Excused(batch)
<1>1. SubSeq(batch, 1, Len(batch)) = batch
  BY SubSeqFull
<1>2. Len(batch) \in DOMAIN batch
  BY EmptySeq
<1> QED BY <1>1, <1>2 DEF Excused

\* What represents all that was given has the value given last, as the property
\* says it.
LEMMA RepresentsWins ==
    ASSUME NEW fields, NEW all, Represents(fields, all)
    PROVE  /\ ~RepeatsAKey(fields)
           /\ {f.key : f \in ToSet(fields)} = {f.key : f \in ToSet(all)}
           /\ \A f \in ToSet(fields) : f.value = all[LastOf(Positions(all, f.key))].value
           /\ \A m, n \in DOMAIN fields : m < n =>
                  FirstOf(Positions(all, fields[m].key)) < FirstOf(Positions(all, fields[n].key))
<1>1. ~RepeatsAKey(fields)
  <2> DEFINE keys == [n \in DOMAIN fields |-> fields[n].key]
  <2>1. \A m, n \in DOMAIN keys : keys[m] = keys[n] => m = n
    BY DEF Represents
  <2> HIDE DEF keys
  <2>2. IsInjective(keys)
    BY <2>1 DEF IsInjective
  <2> QED BY <2>2 DEF keys, RepeatsAKey
<1>2. \A f \in ToSet(fields) : \E g \in ToSet(all) : g.key = f.key
  <2>1. \A n \in DOMAIN fields : \E m \in DOMAIN all : all[m].key = fields[n].key
    BY DEF Represents, Positions
  <2> QED BY <2>1 DEF ToSet
<1>3. \A g \in ToSet(all) : \E f \in ToSet(fields) : f.key = g.key
  <2>1. \A m \in DOMAIN all : \E n \in DOMAIN fields : fields[n].key = all[m].key
    BY DEF Represents, Positions
  <2> QED BY <2>1 DEF ToSet
<1>4. {f.key : f \in ToSet(fields)} = {f.key : f \in ToSet(all)}
  BY <1>2, <1>3
<1>5. \A f \in ToSet(fields) : f.value = all[LastOf(Positions(all, f.key))].value
  BY DEF Represents, ToSet
<1> QED BY <1>1, <1>4, <1>5 DEF Represents

-----------------------------------------------------------------------------
(* The loggers. *)

LoggersOf(K, T) == [fields : Seq(FieldsOf(K, T)), ctx : Contexts \cup {<< >>}]

\* The type invariant, for keys of K and texts of T.
Typed(K, T) ==
    /\ loggers \in Seq(LoggersOf(K, T))
    /\ given \in Seq(Seq(FieldsOf(K, T))) /\ Len(given) = Len(loggers)

\* A logger is added behind the others, which stay as they are.
LEMMA DeriveAdds ==
    ASSUME NEW K, NEW T, Typed(K, T), NEW i \in DOMAIN loggers, NEW logger \in LoggersOf(K, T),
           NEW fields \in Seq(FieldsOf(K, T)), Derive(i, logger, fields)
    PROVE  /\ Typed(K, T)' /\ line' = NoLine
           /\ \A j \in DOMAIN loggers' :
                  \/ j \in DOMAIN loggers /\ loggers'[j] = loggers[j] /\ given'[j] = given[j]
                  \/ loggers'[j] = logger /\ given'[j] = given[i] \o fields
<1>1. /\ loggers \in Seq(LoggersOf(K, T)) /\ given \in Seq(Seq(FieldsOf(K, T)))
      /\ Len(given) = Len(loggers) /\ DOMAIN loggers = 1 .. Len(loggers) /\ Len(loggers) \in Nat
  BY DEF Typed
<1>2. /\ loggers' = Append(loggers, logger) /\ given' = Append(given, given[i] \o fields)
      /\ line' = NoLine
  BY DEF Derive
<1>3. given[i] \o fields \in Seq(FieldsOf(K, T))
  <2>1. given[i] \in Seq(FieldsOf(K, T))
    BY <1>1, ElementOfSeq
  <2> QED BY <2>1, ConcatProperties
<1>4. /\ loggers' \in Seq(LoggersOf(K, T)) /\ Len(loggers') = Len(loggers) + 1
      /\ \A j \in 1 .. Len(loggers) : loggers'[j] = loggers[j]
      /\ loggers'[Len(loggers) + 1] = logger
  BY <1>1, <1>2, AppendProperties
<1>5. /\ given' \in Seq(Seq(FieldsOf(K, T))) /\ Len(given') = Len(given) + 1
      /\ \A j \in 1 .. Len(given) : given'[j] = given[j]
      /\ given'[Len(given) + 1] = given[i] \o fields
  <2> DEFINE all == given[i] \o fields
             X == Seq(FieldsOf(K, T))
  <2>1. all \in X /\ given \in Seq(X) /\ given' = Append(given, all)
    BY <1>1, <1>2, <1>3
  <2> HIDE DEF all, X
  <2>2. /\ given' \in Seq(X) /\ Len(given') = Len(given) + 1
        /\ \A j \in 1 .. Len(given) : given'[j] = given[j]
        /\ given'[Len(given) + 1] = all
    BY <2>1, AppendProperties
  <2> QED BY <2>2 DEF all, X
<1>6. Typed(K, T)'
  BY <1>1, <1>4, <1>5 DEF Typed
<1>7. \A j \in DOMAIN loggers' : j \in 1 .. Len(loggers) \/ j = Len(loggers) + 1
  <2>1. DOMAIN loggers' = 1 .. Len(loggers) + 1
    BY <1>4
  <2> QED BY <1>1, <2>1
<1> QED BY <1>1, <1>2, <1>4, <1>5, <1>6, <1>7

\* What each action adds: a logger of the type, and which fields it has.
LEMMA NextDerives ==
    ASSUME NEW K, NEW T, Typed(K, T), InputsIn(K, T), Next
    PROVE  \/ \E i \in DOMAIN loggers, l \in LogLevels, m \in Messages : Log(i, l, m)
           \/ \E i \in DOMAIN loggers, logger \in LoggersOf(K, T) :
                  \E fields \in Seq(FieldsOf(K, T)) :
                      /\ Derive(i, logger, fields)
                      /\ \/ \E f \in FieldsOf(K, T) :
                                /\ fields = <<f>>
                                /\ logger.fields = AppendOrReplace(loggers[i].fields, f)
                         \/ /\ fields \in Batches /\ fields # << >>
                            /\ logger.fields = MergeFieldSets(loggers[i].fields, fields)
                         \/ fields = << >> /\ logger.fields = loggers[i].fields
<1> DEFINE F == FieldsOf(K, T)
<1>1. PICK i \in DOMAIN loggers :
          \/ \E k \in Keys, v \in Values : WithField(i, Field(k, v))
          \/ \E b \in Batches : WithFields(i, b)
          \/ \E c \in Contexts : WithContext(i, c)
          \/ \E l \in LogLevels, m \in Messages : Log(i, l, m)
  BY DEF Next
<1>2. loggers[i] \in LoggersOf(K, T) /\ loggers[i].fields \in Seq(F)
  <2>1. loggers[i] \in LoggersOf(K, T)
    BY ElementOfSeq DEF Typed
  <2> HIDE DEF F
  <2> QED BY <2>1 DEF LoggersOf, F
<1>3. ASSUME NEW fields \in Seq(F)
      PROVE  /\ [loggers[i] EXCEPT !.fields = fields] \in LoggersOf(K, T)
             /\ [loggers[i] EXCEPT !.fields = fields].fields = fields
  BY <1>2 DEF LoggersOf
<1>4. CASE \E k \in Keys, v \in Values : WithField(i, Field(k, v))
  <2>1. PICK k \in Keys, v \in Values : WithField(i, Field(k, v))
    BY <1>4
  <2> DEFINE f == Field(k, v)
             fields == AppendOrReplace(loggers[i].fields, f)
             logger == [loggers[i] EXCEPT !.fields = fields]
  <2>2. f \in F /\ <<f>> \in Seq(F)
    <3>1. f \in F
      BY DEF InputsIn, Field, FieldsOf
    <3> HIDE DEF f, F
    <3> QED BY <3>1
  <2>3. Derive(i, logger, <<f>>)
    BY <2>1 DEF WithField
  <2>4. fields \in Seq(F)
    <3> HIDE DEF f
    <3> QED BY <1>2, <2>2, AppendOrReplaceTyped
  <2>5. logger \in LoggersOf(K, T) /\ logger.fields = fields
    <3> HIDE DEF fields, f
    <3> QED BY <1>3, <2>4
  <2>6. logger.fields = AppendOrReplace(loggers[i].fields, f)
    <3> HIDE DEF logger, f
    <3> QED BY <2>5
  <2> HIDE DEF logger, f
  <2> QED BY <2>2, <2>3, <2>5, <2>6
<1>5. CASE \E b \in Batches : WithFields(i, b)
  <2>1. PICK b \in Batches : WithFields(i, b)
    BY <1>5
  <2> DEFINE fields == MergeFieldSets(loggers[i].fields, b)
             logger == [loggers[i] EXCEPT !.fields = fields]
  <2>2. b \in Seq(F)
    BY DEF InputsIn
  <2>3. b # << >> /\ Derive(i, logger, b)
    BY <2>1 DEF WithFields
  <2>4. fields \in Seq(F)
    BY <1>2, <2>2, MergeTyped
  <2>5. logger \in LoggersOf(K, T) /\ logger.fields = fields
    <3> HIDE DEF fields
    <3> QED BY <1>3, <2>4
  <2>6. logger.fields = MergeFieldSets(loggers[i].fields, b)
    <3> HIDE DEF logger
    <3> QED BY <2>5
  <2> HIDE DEF logger
  <2> QED BY <2>2, <2>3, <2>5, <2>6
<1>6. CASE \E c \in Contexts : WithContext(i, c)
  <2>1. PICK c \in Contexts : WithContext(i, c)
    BY <1>6
  <2> DEFINE logger == [loggers[i] EXCEPT !.ctx = c]
  <2>2. Derive(i, logger, << >>)
    BY <2>1 DEF WithContext
  <2>3. logger \in LoggersOf(K, T) /\ logger.fields = loggers[i].fields
    BY <1>2 DEF LoggersOf
  <2>4. << >> \in Seq(F)
    OBVIOUS
  <2> HIDE DEF logger
  <2> QED BY <2>2, <2>3, <2>4
<1> QED BY <1>1, <1>4, <1>5, <1>6

LEMMA TypedInit ==
    ASSUME NEW K, NEW T, Init
    PROVE  Typed(K, T)
<1> DEFINE F == FieldsOf(K, T)
           first == [fields |-> << >>, ctx |-> << >>]
<1>1. first \in LoggersOf(K, T)
  <2>1. << >> \in Seq(FieldsOf(K, T))
    OBVIOUS
  <2> QED BY <2>1 DEF LoggersOf
<1>2. loggers = <<first>> /\ given = << << >> >>
  BY DEF Init
<1> HIDE DEF first
<1>3. loggers \in Seq(LoggersOf(K, T)) /\ Len(loggers) = 1
  BY <1>1, <1>2
<1>4. given \in Seq(Seq(F)) /\ Len(given) = 1
  <2> DEFINE X == Seq(F)
  <2>1. << >> \in X
    OBVIOUS
  <2> HIDE DEF X
  <2>2. given \in Seq(X) /\ Len(given) = 1
    BY <1>2, <2>1
  <2> QED BY <2>2 DEF X
<1> QED BY <1>3, <1>4 DEF Typed

LEMMA TypedStep ==
    ASSUME NEW K, NEW T, InputsIn(K, T), Typed(K, T), [Next]_vars
    PROVE  Typed(K, T)'
<1>1. CASE Next
  <2>1. CASE \E i \in DOMAIN loggers, l \in LogLevels, m \in Messages : Log(i, l, m)
    BY <2>1 DEF Log, Typed
  <2>2. CASE \E i \in DOMAIN loggers, logger \in LoggersOf(K, T) :
                 \E fields \in Seq(FieldsOf(K, T)) : Derive(i, logger, fields)
    BY <2>2, DeriveAdds
  <2> QED BY <1>1, <2>1, <2>2, NextDerives
<1>2. CASE UNCHANGED vars
  BY <1>2 DEF vars, Typed
<1> QED BY <1>1, <1>2

\* The loggers, what each was given and its context stay in their types, whatever
\* keys and texts the program uses: WithField, WithFields, WithError, WithContext.
THEOREM LoggersTyped ==
    ASSUME NEW K, NEW T, InputsIn(K, T)
    PROVE  Spec => []Typed(K, T)
<1>1. Init => Typed(K, T)
  BY TypedInit
<1>2. Typed(K, T) /\ [Next]_vars => Typed(K, T)'
  BY TypedStep
<1> QED BY <1>1, <1>2, PTL DEF Spec

FieldsFollow ==
    \A i \in DOMAIN loggers : Excused(given[i]) \/ Represents(loggers[i].fields, given[i])

LEMMA FieldsFollowStep ==
    ASSUME NEW K, NEW T, InputsIn(K, T), Typed(K, T), FieldsFollow, [Next]_vars
    PROVE  FieldsFollow'
<1> DEFINE F == FieldsOf(K, T)
<1>1. ASSUME NEW i \in DOMAIN loggers, NEW logger \in LoggersOf(K, T), NEW fields \in Seq(F),
             Derive(i, logger, fields),
             \/ \E f \in F : fields = <<f>> /\ logger.fields = AppendOrReplace(loggers[i].fields, f)
             \/ /\ fields \in Batches /\ fields # << >>
                /\ logger.fields = MergeFieldSets(loggers[i].fields, fields)
             \/ fields = << >> /\ logger.fields = loggers[i].fields
      PROVE  FieldsFollow'
  <2> DEFINE base == loggers[i].fields
             all == given[i]
  <2>1. base \in Seq(F) /\ all \in Seq(F)
    <3>1. loggers[i] \in LoggersOf(K, T)
      BY ElementOfSeq DEF Typed
    <3>2. i \in 1 .. Len(given)
      BY DEF Typed
    <3>3. all \in Seq(F)
      BY <3>2, ElementOfSeq DEF Typed
    <3> HIDE DEF F
    <3> QED BY <3>1, <3>3 DEF LoggersOf, F
  <2>2. Excused(all) \/ Represents(base, all)
    BY DEF FieldsFollow
  <2> HIDE DEF base, all, F
  <2>3. Excused(all \o fields) \/ Represents(logger.fields, all \o fields)
    <3>1. CASE Excused(all)
      BY <2>1, <3>1, ExcusedStays
    <3>2. CASE Represents(base, all)
      <4>1. ASSUME NEW f \in F, fields = <<f>>, logger.fields = AppendOrReplace(base, f)
            PROVE  Represents(logger.fields, all \o fields)
        <5>1. all \o fields = Append(all, f)
          BY <2>1, <4>1, AppendIsConcat
        <5>2. Represents(AppendOrReplace(base, f), Append(all, f))
          BY <2>1, <3>2, RepresentsStep DEF F
        <5> QED BY <4>1, <5>1, <5>2
      <4>2. ASSUME fields \in Batches, fields # << >>,
                   logger.fields = MergeFieldSets(base, fields)
            PROVE  Excused(all \o fields) \/ Represents(logger.fields, all \o fields)
        <5>1. CASE base # << >>
          <6>1. Represents(MergeFieldSets(base, fields), all \o fields)
            BY <2>1, <3>2, <5>1, RepresentsMerged DEF F
          <6> QED BY <4>2, <6>1
        <5>2. CASE base = << >>
          <6>1. all = << >>
            BY <2>1, <3>2, <5>2, RepresentedByNothing DEF F
          <6>2. all \o fields = fields
            BY <6>1, ConcatEmptySeq
          <6>3. logger.fields = fields
            BY <4>2, <5>2 DEF MergeFieldSets
          <6>4. RepeatsAKey(fields) => Excused(fields)
            BY <4>2, ExcusedBatch
          <6>5. ~RepeatsAKey(fields) => Represents(fields, fields)
            BY RepresentsItself DEF F
          <6> QED BY <6>2, <6>3, <6>4, <6>5
        <5> QED BY <5>1, <5>2
      <4>3. ASSUME fields = << >>, logger.fields = base
            PROVE  Represents(logger.fields, all \o fields)
        <5>1. all \o fields = all
          BY <2>1, <4>3, ConcatEmptySeq
        <5> QED BY <3>2, <4>3, <5>1
      <4> QED BY <1>1, <4>1, <4>2, <4>3 DEF base
    <3> QED BY <2>2, <3>1, <3>2
  <2>4. \A j \in DOMAIN loggers' :
            \/ j \in DOMAIN loggers /\ loggers'[j] = loggers[j] /\ given'[j] = given[j]
            \/ loggers'[j] = logger /\ given'[j] = all \o fields
    BY <1>1, DeriveAdds DEF F, all
  <2> QED BY <2>3, <2>4 DEF FieldsFollow
<1>2. CASE Next
  <2>1. CASE \E i \in DOMAIN loggers, l \in LogLevels, m \in Messages : Log(i, l, m)
    BY <2>1 DEF Log, FieldsFollow
  <2> QED BY <1>1, <1>2, <2>1, NextDerives
<1>3. CASE UNCHANGED vars
  BY <1>3 DEF vars, FieldsFollow
<1> QED BY <1>2, <1>3

\* Whatever loggers a program derives from one another, each keeps every key it
\* was given once, in the order of their first use and with the value given last,
\* and no logger derived from it changes that (AppendOrReplace, MergeFieldSets).
THEOREM FieldsOfLoggers == Spec => []LastValueWins
<1> DEFINE IInv == Typed(Seq(Bytes), Seq(Runes)) /\ FieldsFollow
<1>1. Init => IInv
  <2> SUFFICES ASSUME Init PROVE FieldsFollow
    BY TypedInit
  <2>1. loggers = <<[fields |-> << >>, ctx |-> << >>]>> /\ given = << << >> >>
    BY DEF Init
  <2>2. DOMAIN loggers = {1} /\ loggers[1].fields = << >> /\ given[1] = << >>
    BY <2>1
  <2> QED BY <2>2, RepresentsNothing DEF FieldsFollow
<1>2. IInv /\ [Next]_vars => IInv'
  <2>1. InputsIn(Seq(Bytes), Seq(Runes))
    BY LineAssumption
  <2> QED BY <2>1, TypedStep, FieldsFollowStep
<1>3. IInv => LastValueWins
  <2> SUFFICES ASSUME FieldsFollow PROVE LastValueWins
    OBVIOUS
  <2>1. ASSUME NEW i \in DOMAIN loggers, Represents(loggers[i].fields, given[i])
        PROVE  LET fields == loggers[i].fields
                   LastGiven(key) == given[i][LastOf(Positions(given[i], key))].value
               IN /\ ~RepeatsAKey(fields)
                  /\ {f.key : f \in ToSet(fields)} = {f.key : f \in ToSet(given[i])}
                  /\ \A f \in ToSet(fields) : f.value = LastGiven(f.key)
                  /\ \A m, n \in DOMAIN fields : m < n =>
                         FirstOf(Positions(given[i], fields[m].key))
                             < FirstOf(Positions(given[i], fields[n].key))
    BY <2>1, RepresentsWins
  <2> QED BY <2>1 DEF FieldsFollow, Excused, LastValueWins
<1> QED BY <1>1, <1>2, <1>3, PTL DEF Spec

-----------------------------------------------------------------------------
(* What is read back. *)

Ascii == 0 .. 127
AsciiTexts == Seq({<<c>> : c \in Ascii})
PlainKeys == {key \in Seq(Bytes) : \A n \in DOMAIN key : key[n] >= 32 /\ key[n] \notin {34, 92}}

\* One element after the other is the sequence itself.
LEMMA OneByOne ==
    ASSUME NEW S, NEW s \in Seq(S), NEW seqs,
           seqs = [n \in 1 .. Len(s) |-> <<s[n]>>]
    PROVE  FlattenSeq(seqs) = s
<1>1. \A n \in 1 .. Len(s) : s[n] \in S /\ <<s[n]>> \in Seq(S) /\ Len(<<s[n]>>) = 1 /\ <<s[n]>>[1] = s[n]
  <2>1. \A n \in 1 .. Len(s) : s[n] \in S
    BY ElementOfSeq
  <2>2. \A e \in S : <<e>> \in Seq(S) /\ Len(<<e>>) = 1 /\ <<e>>[1] = e
    OBVIOUS
  <2> QED BY <2>1, <2>2
<1>2. seqs \in Seq(Seq(S)) /\ Len(seqs) = Len(s) /\ \A n \in 1 .. Len(s) : seqs[n] = <<s[n]>>
  <2> DEFINE X == Seq(S)
  <2>1. seqs \in [1 .. Len(s) -> X] /\ Len(s) \in Nat
    BY <1>1
  <2>2. \A n \in 1 .. Len(s) : seqs[n] = <<s[n]>>
    OBVIOUS
  <2> HIDE DEF X
  <2>3. seqs \in Seq(X) /\ Len(seqs) = Len(s)
    BY <2>1
  <2> QED BY <2>2, <2>3 DEF X
<1>3. /\ FlattenSeq(seqs) \in Seq(S) /\ Len(FlattenSeq(seqs)) = Len(s)
      /\ \A n \in 1 .. Len(s) : FlattenSeq(seqs)[n] = seqs[n][1]
  <2>1. \A n \in 1 .. Len(seqs) : Len(seqs[n]) = 1
    BY <1>1, <1>2
  <2>2. /\ FlattenSeq(seqs) \in Seq(S) /\ Len(FlattenSeq(seqs)) = Len(seqs)
        /\ \A n \in 1 .. Len(seqs) : FlattenSeq(seqs)[n] = seqs[n][1]
    BY <1>2, <2>1, FlattenSingletons
  <2> QED BY <1>2, <2>2
<1>4. \A n \in 1 .. Len(s) : FlattenSeq(seqs)[n] = s[n]
  BY <1>1, <1>2, <1>3
<1> DEFINE t == FlattenSeq(seqs)
<1>5. t \in Seq(S) /\ Len(t) = Len(s) /\ \A n \in 1 .. Len(s) : t[n] = s[n]
  BY <1>3, <1>4
<1> HIDE DEF t
<1>6. t = s
  BY <1>5
<1> QED BY <1>6 DEF t

\* Bytes written as they are, are read as they are.
LEMMA RawIsRead ==
    ASSUME NEW bytes \in Seq(Bytes)
    PROVE  Read(Raw(bytes)) = bytes
<1> DEFINE tokens == Raw(bytes)
           seqs == [n \in DOMAIN tokens |->
                        IF tokens[n][1] = "raw" THEN <<tokens[n][2]>> ELSE Utf8(tokens[n][2])]
<1>1. DOMAIN tokens = 1 .. Len(bytes) /\ \A n \in 1 .. Len(bytes) : tokens[n] = <<"raw", bytes[n]>>
  BY DEF Raw
<1>2. \A n \in 1 .. Len(bytes) : tokens[n][1] = "raw" /\ tokens[n][2] = bytes[n]
  BY <1>1
<1> HIDE DEF tokens
<1>3. seqs = [n \in 1 .. Len(bytes) |-> <<bytes[n]>>]
  BY <1>1, <1>2
<1>4. Read(tokens) = FlattenSeq(seqs)
  BY DEF Read
<1> HIDE DEF seqs
<1> QED BY <1>3, <1>4, OneByOne DEF tokens

\* In ASCII a rune is a byte.
LEMMA AsciiBytes ==
    ASSUME NEW text \in AsciiTexts
    PROVE  /\ \A n \in 1 .. Len(text) : text[n][1] \in Ascii /\ text[n] = <<text[n][1]>>
           /\ FlattenSeq(text) = [n \in 1 .. Len(text) |-> text[n][1]]
           /\ FlattenSeq(text) \in Seq(Bytes)
<1>1. \A n \in 1 .. Len(text) : \E c \in Ascii : text[n] = <<c>>
  <2>1. \A n \in 1 .. Len(text) : text[n] \in {<<c>> : c \in Ascii}
    BY ElementOfSeq DEF AsciiTexts
  <2> QED BY <2>1
<1>2. \A n \in 1 .. Len(text) : text[n][1] \in Ascii /\ text[n] = <<text[n][1]>>
  BY <1>1
<1> DEFINE s == [n \in 1 .. Len(text) |-> text[n][1]]
<1>3. Len(text) \in Nat /\ text = [n \in 1 .. Len(text) |-> text[n]]
  BY DEF AsciiTexts
<1>4. s \in Seq(Ascii) /\ Len(s) = Len(text) /\ \A n \in 1 .. Len(text) : s[n] = text[n][1]
  <2>1. s \in [1 .. Len(text) -> Ascii]
    BY <1>2
  <2>2. \A n \in 1 .. Len(text) : s[n] = text[n][1]
    OBVIOUS
  <2> HIDE DEF s
  <2> QED BY <1>3, <2>1, <2>2
<1> HIDE DEF s
<1>5. text = [n \in 1 .. Len(s) |-> <<s[n]>>]
  BY <1>2, <1>3, <1>4
<1>6. FlattenSeq(text) = s
  BY <1>4, <1>5, OneByOne
<1>7. Ascii \subseteq Bytes
  BY DEF Ascii, Bytes
<1>8. s \in Seq(Bytes)
  BY <1>4, <1>7, SeqMonotonic
<1> QED BY <1>2, <1>6, <1>8 DEF s

\* A text in ASCII is a JSON string once escaped, and is read back as it was.
LEMMA EscapedIsRead ==
    ASSUME NEW text \in AsciiTexts
    PROVE  /\ IsJSONString(JsonEscapeString(text))
           /\ Read(JsonEscapeString(text)) = FlattenSeq(text)
<1> DEFINE N == Len(text)
           s == [n \in 1 .. N |-> text[n][1]]
           token(c) == IF NeedsEscaping(c) THEN <<"escape", c>> ELSE <<"raw", c>>
           tokens == [n \in 1 .. N |-> token(s[n])]
<1>1. N \in Nat /\ DOMAIN text = 1 .. N
  BY DEF AsciiTexts
<1>2. ASSUME NEW n \in 1 .. N
      PROVE  s[n] \in Ascii /\ text[n] = <<s[n]>> /\ s[n] = text[n][1]
  BY AsciiBytes
<1> HIDE DEF s
<1>3. ASSUME NEW c \in Ascii PROVE JsonEscapeRune(<<c>>) = <<token(c)>>
  <2>1. Head(<<c>>) = c /\ Tail(<<c>>) = << >>
    OBVIOUS
  <2>2. Raw(<<c>>) = <<<<"raw", c>>>>
    BY DEF Raw
  <2>3. Raw(<< >>) = << >>
    BY DEF Raw
  <2>4. <<<<"escape", c>>>> \o << >> = <<<<"escape", c>>>>
    <3>1. <<<<"escape", c>>>> \in Seq({<<"escape", c>>})
      OBVIOUS
    <3> QED BY <3>1, ConcatEmptySeq
  <2> QED BY <2>1, <2>2, <2>3, <2>4 DEF JsonEscapeRune
<1> DEFINE parts == [n \in DOMAIN text |-> JsonEscapeRune(text[n])]
<1>4. \A n \in 1 .. N : tokens[n] = token(s[n])
  OBVIOUS
<1>5. tokens \in Seq({token(c) : c \in Ascii}) /\ Len(tokens) = N
  <2> DEFINE X == {token(c) : c \in Ascii}
  <2>1. tokens \in [1 .. N -> X]
    <3> HIDE DEF token, N
    <3> QED BY <1>2
  <2> HIDE DEF tokens, X, N
  <2>2. tokens \in Seq(X) /\ Len(tokens) = N
    BY <1>1, <2>1
  <2> QED BY <2>2 DEF X
<1> HIDE DEF tokens
<1>6. parts = [n \in 1 .. Len(tokens) |-> <<tokens[n]>>]
  <2>1. \A n \in 1 .. N : JsonEscapeRune(text[n]) = <<tokens[n]>>
    <3> HIDE DEF token, N
    <3> QED BY <1>2, <1>3, <1>4
  <2> QED BY <1>1, <1>5, <2>1
<1>7. JsonEscapeString(text) = tokens
  <2>1. JsonEscapeString(text) = FlattenSeq(parts)
    BY DEF JsonEscapeString
  <2> HIDE DEF parts, token
  <2> QED BY <1>5, <1>6, <2>1, OneByOne
<1>8. ASSUME NEW n \in 1 .. N
      PROVE  /\ tokens[n][1] = "raw" => tokens[n][2] \notin {34, 92} /\ tokens[n][2] >= 32
             /\ tokens[n][1] = "raw" => <<tokens[n][2]>> = <<s[n]>>
             /\ tokens[n][1] # "raw" => Utf8(tokens[n][2]) = <<s[n]>>
  <2>1. tokens[n] = token(s[n])
    BY <1>4
  <2> DEFINE c == s[n]
  <2>2. /\ c < 128 /\ c \in Int
        /\ ~NeedsEscaping(c) => c \notin {34, 92} /\ c >= 32
    <3>1. c \in Ascii
      BY <1>2
    <3> HIDE DEF c
    <3> QED BY <3>1 DEF NeedsEscaping, Ascii
  <2>3. CASE NeedsEscaping(s[n])
    <3>1. tokens[n][1] = "escape" /\ tokens[n][2] = s[n]
      BY <2>1, <2>3
    <3> QED BY <2>2, <3>1 DEF Utf8
  <2>4. CASE ~NeedsEscaping(s[n])
    <3>1. tokens[n][1] = "raw" /\ tokens[n][2] = s[n]
      BY <2>1, <2>4
    <3> QED BY <2>4, <2>2, <3>1
  <2> QED BY <2>3, <2>4
<1>9. DOMAIN tokens = 1 .. N
  BY <1>1, <1>5
<1>10. IsJSONString(tokens)
  BY <1>8, <1>9 DEF IsJSONString
<1>11. Read(tokens) = FlattenSeq(text)
  <2> DEFINE bytes == [n \in DOMAIN tokens |->
                          IF tokens[n][1] = "raw" THEN <<tokens[n][2]>> ELSE Utf8(tokens[n][2])]
  <2>1. bytes = [n \in 1 .. N |-> <<s[n]>>]
    BY <1>8, <1>9
  <2>2. text = [n \in 1 .. N |-> <<s[n]>>]
    <3>1. text = [n \in 1 .. N |-> text[n]]
      BY DEF AsciiTexts
    <3> QED BY <1>2, <3>1
  <2>3. Read(tokens) = FlattenSeq(bytes)
    BY DEF Read
  <2> HIDE DEF bytes
  <2> QED BY <2>1, <2>2, <2>3
<1> QED BY <1>7, <1>10, <1>11

-----------------------------------------------------------------------------
(* The line that is written. *)

\* The keys and the text that log itself puts in belong to the program's.
Closed(K, T) ==
    /\ InputsIn(K, T)
    /\ StackKey \in K /\ \A name \in ContextNames : ContextKey[name] \in K
    /\ Text(<<103, 10, 9, 40>>) \in T

LEMMA PairsOfContext ==
    /\ \A i \in 1 .. 4 : ContextKeyPairs[i] \in ContextNames
    /\ \A name \in ContextNames : \E i \in 1 .. 4 : ContextKeyPairs[i] = name
<1>1. /\ ContextKeyPairs[1] = "namespace" /\ ContextKeyPairs[2] = "service"
      /\ ContextKeyPairs[3] = "user" /\ ContextKeyPairs[4] = "trace_id"
  BY DEF ContextKeyPairs
<1>2. \A i \in 1 .. 4 : i = 1 \/ i = 2 \/ i = 3 \/ i = 4
  OBVIOUS
<1>3. 1 \in 1 .. 4 /\ 2 \in 1 .. 4 /\ 3 \in 1 .. 4 /\ 4 \in 1 .. 4
  OBVIOUS
<1> QED BY <1>1, <1>2, <1>3 DEF ContextNames

ContextField(ctx, name) == Field(ContextKey[name], StringValue(ctx[name]))

LEMMA StringIsValue ==
    ASSUME NEW T, NEW text \in T
    PROVE  /\ StringValue(text) \in ValuesOf(T)
           /\ StringValue(text).kind = "string" /\ JSONText(StringValue(text)) = text
<1>1. /\ StringValue(text) \in [kind : Kinds, text : T, error : T, plus : T]
      /\ StringValue(text).kind = "string" /\ StringValue(text).text = text
  BY DEF StringValue, Kinds
<1>2. JSONText(StringValue(text)) = text
  BY <1>1 DEF JSONText, BareKinds
<1> QED BY <1>1, <1>2 DEF ValuesOf

\* Each text of a context becomes a field.
LEMMA ContextExtracted ==
    ASSUME NEW K, NEW T, Closed(K, T), NEW ctx, IsContext(ctx, T)
    PROVE  /\ ExtractContextKeys(ctx) \in Seq(FieldsOf(K, T))
           /\ \A name \in DOMAIN ctx : ctx[name] # << >> =>
                  \E m \in 1 .. Len(ExtractContextKeys(ctx)) :
                      ExtractContextKeys(ctx)[m] = ContextField(ctx, name)
<1> DEFINE F == FieldsOf(K, T)
           Has(name) == name \in DOMAIN ctx /\ ctx[name] # << >>
           part(name) == IF Has(name) THEN <<ContextField(ctx, name)>> ELSE << >>
           parts == [i \in 1 .. 4 |-> part(ContextKeyPairs[i])]
<1>1. ExtractContextKeys(ctx) = FlattenSeq(parts)
  BY DEF ExtractContextKeys, ContextField
<1>2. ASSUME NEW name \in ContextNames PROVE part(name) \in Seq(F)
  <2>1. ASSUME Has(name) PROVE ContextField(ctx, name) \in F
    <3>1. ctx[name] \in T /\ ContextKey[name] \in K
      BY <2>1 DEF IsContext, Closed
    <3>2. StringValue(ctx[name]) \in ValuesOf(T)
      BY <3>1, StringIsValue
    <3> QED BY <3>1, <3>2 DEF ContextField, Field, FieldsOf
  <2>2. << >> \in Seq(F)
    OBVIOUS
  <2>3. \A e \in F : <<e>> \in Seq(F)
    OBVIOUS
  <2> HIDE DEF F, Has
  <2> QED BY <2>1, <2>2, <2>3
<1>3. parts \in Seq(Seq(F)) /\ Len(parts) = 4 /\ \A i \in 1 .. 4 : parts[i] = part(ContextKeyPairs[i])
  <2> DEFINE X == Seq(F)
  <2>1. \A i \in 1 .. 4 : part(ContextKeyPairs[i]) \in X
    BY <1>2, PairsOfContext
  <2> HIDE DEF X, part
  <2>2. parts \in [1 .. 4 -> X] /\ \A i \in 1 .. 4 : parts[i] = part(ContextKeyPairs[i])
    BY <2>1
  <2> HIDE DEF parts
  <2>3. parts \in Seq(X) /\ Len(parts) = 4
    <3> DEFINE four == 4
    <3>1. four \in Nat /\ parts \in [1 .. four -> X]
      BY <2>2
    <3> HIDE DEF four
    <3>2. parts \in Seq(X) /\ Len(parts) = four
      BY <3>1
    <3> QED BY <3>2 DEF four
  <2> QED BY <2>2, <2>3 DEF X
<1> HIDE DEF parts
<1>4. /\ FlattenSeq(parts) \in Seq(F)
      /\ \A i \in 1 .. 4 : \A j \in 1 .. Len(parts[i]) :
             \E m \in 1 .. Len(FlattenSeq(parts)) : FlattenSeq(parts)[m] = parts[i][j]
  <2>1. parts \in Seq(Seq(F)) /\ Len(parts) = 4
    BY <1>3
  <2>2. FlattenSeq(parts) \in Seq(F) /\ HasAll(FlattenSeq(parts), parts)
    <3> HIDE DEF F
    <3> QED BY <2>1, FlattenElements
  <2> QED BY <2>1, <2>2 DEF HasAll
<1>5. ASSUME NEW name \in DOMAIN ctx, ctx[name] # << >>
      PROVE  \E m \in 1 .. Len(FlattenSeq(parts)) : FlattenSeq(parts)[m] = ContextField(ctx, name)
  <2>1. PICK i \in 1 .. 4 : ContextKeyPairs[i] = name
    BY PairsOfContext DEF IsContext
  <2>2. parts[i] = <<ContextField(ctx, name)>>
    BY <1>3, <1>5, <2>1
  <2>3. 1 \in 1 .. Len(parts[i]) /\ parts[i][1] = ContextField(ctx, name)
    BY <2>2
  <2> QED BY <1>4, <2>3
<1> QED BY <1>1, <1>4, <1>5

\* The entry has the fields of the logger, then those of the context.
LEMMA EntryTyped ==
    ASSUME NEW K, NEW T, Closed(K, T), Typed(K, T), NEW i \in DOMAIN loggers,
           NEW level, NEW message
    PROVE  /\ Entry(i, level, message).fields \in Seq(FieldsOf(K, T))
           /\ \A name \in DOMAIN loggers[i].ctx : loggers[i].ctx[name] # << >> =>
                  \E n \in 1 .. Len(Entry(i, level, message).fields) :
                      Entry(i, level, message).fields[n] = ContextField(loggers[i].ctx, name)
<1> DEFINE F == FieldsOf(K, T)
           own == loggers[i].fields
           ctx == loggers[i].ctx
           extracted == ExtractContextKeys(ctx)
           stack == AttachStackTrace(level)
           front == own \o extracted
           whole == front \o stack
<1>1. own \in Seq(F) /\ IsContext(ctx, T)
  <2>1. loggers[i] \in LoggersOf(K, T)
    BY ElementOfSeq DEF Typed
  <2>2. own \in Seq(F) /\ ctx \in Contexts \cup {<< >>}
    <3> HIDE DEF F
    <3> QED BY <2>1 DEF LoggersOf, F
  <2>3. IsContext(<< >>, T)
    BY DEF IsContext
  <2> HIDE DEF F, ctx
  <2> QED BY <2>2, <2>3 DEF Closed, InputsIn
<1>2. stack \in Seq(F)
  <2>1. Field(StackKey, StringValue(Text(<<103, 10, 9, 40>>))) \in F
    <3>1. StringValue(Text(<<103, 10, 9, 40>>)) \in ValuesOf(T)
      BY StringIsValue DEF Closed
    <3> QED BY <3>1 DEF Closed, Field, FieldsOf
  <2>2. \A e \in F : <<e>> \in Seq(F)
    OBVIOUS
  <2>3. << >> \in Seq(F)
    OBVIOUS
  <2> HIDE DEF F
  <2> QED BY <2>1, <2>2, <2>3 DEF AttachStackTrace
<1>3. /\ extracted \in Seq(F)
      /\ \A name \in DOMAIN ctx : ctx[name] # << >> =>
             \E m \in 1 .. Len(extracted) : extracted[m] = ContextField(ctx, name)
  <2> HIDE DEF ctx
  <2> QED BY <1>1, ContextExtracted
<1>4. front = own \o extracted /\ whole = front \o stack
  OBVIOUS
<1>5. Entry(i, level, message).fields = whole
  BY DEF Entry
<1> HIDE DEF own, ctx, extracted, stack, front, whole, F
<1>6. /\ front \in Seq(F)
      /\ \A j \in 1 .. Len(extracted) : Len(own) + j \in 1 .. Len(front) /\ front[Len(own) + j] = extracted[j]
  BY <1>1, <1>3, <1>4, Concat
<1>7. /\ whole \in Seq(F)
      /\ \A j \in 1 .. Len(front) : j \in 1 .. Len(whole) /\ whole[j] = front[j]
  BY <1>2, <1>4, <1>6, Concat
<1>8. ASSUME NEW name \in DOMAIN ctx, ctx[name] # << >>
      PROVE  \E n \in 1 .. Len(whole) : whole[n] = ContextField(ctx, name)
  <2>1. PICK m \in 1 .. Len(extracted) : extracted[m] = ContextField(ctx, name)
    BY <1>3, <1>8
  <2>2. PICK k \in 1 .. Len(front) : front[k] = ContextField(ctx, name)
    BY <1>6, <2>1
  <2> QED BY <1>7, <2>2
<1> QED BY <1>5, <1>7, <1>8 DEF F, ctx

\* What the two encoders make of a line.
LEMMA LineEncoded ==
    ASSUME NEW i, NEW entry,
           NEW l, l = Encoded(i, entry)
    PROVE  /\ l.message = entry.message /\ l.fields = entry.fields /\ l.context = loggers[i].ctx
           /\ l.json.message = JsonEscapeString(entry.message)
           /\ DOMAIN l.json.members = DOMAIN entry.fields
           /\ DOMAIN l.console.members = DOMAIN entry.fields
           /\ \A n \in DOMAIN entry.fields :
                  /\ l.json.members[n].key = Raw(entry.fields[n].key)
                  /\ l.json.members[n].quoted = FormatJSONValue(entry.fields[n].value).quoted
                  /\ l.json.members[n].tokens = FormatJSONValue(entry.fields[n].value).tokens
                  /\ l.console.members[n].key = Raw(entry.fields[n].key)
                  /\ l.console.members[n].tokens = AsIs(FormatValue(entry.fields[n].value))
<1>1. /\ l.message = entry.message /\ l.fields = entry.fields /\ l.context = loggers[i].ctx
      /\ l.json = FormatJSONOutput(entry) /\ l.console = FormatConsoleOutput(entry)
  BY DEF Encoded
<1>2. /\ l.json.message = JsonEscapeString(entry.message)
      /\ l.json.members = [n \in DOMAIN entry.fields |-> Member(entry.fields[n])]
  BY <1>1 DEF FormatJSONOutput
<1>3. l.console.members = [n \in DOMAIN entry.fields |->
                              [key |-> Raw(entry.fields[n].key),
                               tokens |-> AsIs(FormatValue(entry.fields[n].value))]]
  BY <1>1 DEF FormatConsoleOutput
<1> QED BY <1>1, <1>2, <1>3 DEF Member

LEMMA LenOfFunction ==
    ASSUME NEW X, NEW n \in Nat, NEW f \in [1 .. n -> X]
    PROVE  f \in Seq(X) /\ Len(f) = n
OBVIOUS

\* The keys and the text of log itself are plain.
LEMMA OwnArePlain ==
    /\ StackKey \in PlainKeys /\ \A name \in ContextNames : ContextKey[name] \in PlainKeys
    /\ Text(<<103, 10, 9, 40>>) \in AsciiTexts
    /\ PlainKeys \subseteq Seq(Bytes)
<1>1. ASSUME NEW c \in {107, 110, 115, 116, 117} PROVE <<c>> \in PlainKeys
  <2>1. <<c>> \in Seq(Bytes)
    BY DEF Bytes
  <2>2. DOMAIN <<c>> = {1} /\ <<c>>[1] = c
    OBVIOUS
  <2>3. c >= 32 /\ c \notin {34, 92}
    OBVIOUS
  <2> QED BY <2>1, <2>2, <2>3 DEF PlainKeys
<1>2. \A name \in ContextNames : ContextKey[name] \in PlainKeys
  <2>1. ASSUME NEW name \in ContextNames
        PROVE  ContextKey[name] \in {<<110>>, <<115>>, <<117>>, <<116>>}
    BY DEF ContextNames, ContextKey
  <2> QED BY <1>1, <2>1
<1>3. Text(<<103, 10, 9, 40>>) \in AsciiTexts
  <2> DEFINE codes == <<103, 10, 9, 40>>
             X == {<<c>> : c \in Ascii}
  <2>1. codes \in Seq(Ascii)
    BY DEF Ascii
  <2> HIDE DEF codes
  <2>2. DOMAIN codes = 1 .. Len(codes) /\ Len(codes) \in Nat
    BY <2>1
  <2>3. \A n \in 1 .. Len(codes) : <<codes[n]>> \in X
    <3>1. \A n \in 1 .. Len(codes) : codes[n] \in Ascii
      BY <2>1, ElementOfSeq
    <3> QED BY <3>1
  <2> DEFINE text == [n \in 1 .. Len(codes) |-> <<codes[n]>>]
  <2>4. text \in [1 .. Len(codes) -> X]
    <3> HIDE DEF X
    <3> QED BY <2>3
  <2>5. Text(codes) = text
    BY <2>2 DEF Text
  <2>6. text \in Seq(X)
    <3> HIDE DEF text, X
    <3> QED BY <2>2, <2>4, LenOfFunction
  <2>7. Text(codes) \in Seq(X)
    BY <2>5, <2>6
  <2> QED BY <2>7 DEF codes, AsciiTexts
<1> QED BY <1>1, <1>2, <1>3 DEF StackKey, PlainKeys

\* Quoted is what is neither nil nor a bare number or bool.
LEMMA KindsOfValues ==
    ASSUME NEW v
    PROVE  /\ v.kind \in BareKinds \cup {"nil"} =>
                  ~FormatJSONValue(v).quoted /\ FormatJSONValue(v).tokens = AsIs(JSONText(v))
           /\ v.kind \notin BareKinds \cup {"nil"} =>
                  /\ FormatJSONValue(v).quoted
                  /\ FormatJSONValue(v).tokens = JsonEscapeString(JSONText(v))
BY DEF FormatJSONValue

\* The text of a value is one of the program's, and both encoders choose the same but
\* for the kinds that are printed apart.
LEMMA TextsOfValues ==
    ASSUME NEW T, NEW v \in ValuesOf(T)
    PROVE  /\ v.kind # "nil" => JSONText(v) \in T
           /\ v.kind \notin PrintedApart => JSONText(v) = FormatValue(v)
<1>1. /\ v.kind \in Kinds /\ v.text \in T /\ v.error \in T /\ v.plus \in T
      /\ v.kind = "stringer" => v.plus = v.text
  BY DEF ValuesOf
<1>2. v.kind # "nil" => JSONText(v) \in T
  BY <1>1 DEF JSONText
<1>3. ASSUME v.kind \notin PrintedApart PROVE JSONText(v) = FormatValue(v)
  <2>1. CASE v.kind \in {"nil", "error", "other"}
    BY <2>1 DEF JSONText, FormatValue, BareKinds
  <2>2. CASE v.kind \in {"int", "float", "bool", "string", "time"}
    BY <2>2 DEF JSONText, FormatValue, BareKinds
  <2>3. CASE v.kind = "stringer"
    BY <1>1, <2>3 DEF JSONText, FormatValue, BareKinds
  <2> QED BY <1>1, <1>3, <2>1, <2>2, <2>3 DEF Kinds, PrintedApart
<1> QED BY <1>2, <1>3

LEMMA LogIsJSON ==
    ASSUME InputsIn(PlainKeys, AsciiTexts), Typed(PlainKeys, AsciiTexts),
           NEW i \in DOMAIN loggers, NEW level, NEW message \in Messages, Log(i, level, message)
    PROVE  LineIsJSON'
<1> DEFINE F == FieldsOf(PlainKeys, AsciiTexts)
           entry == Entry(i, level, message)
           fields == entry.fields
           ctx == loggers[i].ctx
<1>1. Closed(PlainKeys, AsciiTexts)
  BY OwnArePlain DEF Closed
<1>2. /\ fields \in Seq(F)
      /\ \A name \in DOMAIN ctx : ctx[name] # << >> =>
             \E n \in 1 .. Len(fields) : fields[n] = ContextField(ctx, name)
  BY <1>1, EntryTyped
<1>3. entry.message = message /\ message \in AsciiTexts
  BY DEF Entry, InputsIn
<1>4. line' = Encoded(i, entry)
  BY DEF Log
<1> HIDE DEF entry
<1>5. /\ line'.message = message /\ line'.fields = fields /\ line'.context = ctx
      /\ line'.json.message = JsonEscapeString(message)
      /\ DOMAIN line'.json.members = DOMAIN fields
      /\ \A n \in DOMAIN fields :
             /\ line'.json.members[n].key = Raw(fields[n].key)
             /\ line'.json.members[n].quoted = FormatJSONValue(fields[n].value).quoted
             /\ line'.json.members[n].tokens = FormatJSONValue(fields[n].value).tokens
  BY <1>3, <1>4, LineEncoded
<1>6. DOMAIN fields = 1 .. Len(fields) /\ \A n \in DOMAIN fields : fields[n] \in F
  BY <1>2, ElementOfSeq
<1>7. ASSUME NEW n \in DOMAIN fields
      PROVE  /\ IsJSONString(line'.json.members[n].key)
             /\ line'.json.members[n].quoted =>
                    /\ IsJSONString(line'.json.members[n].tokens)
                    /\ Read(line'.json.members[n].tokens)
                           = FlattenSeq(JSONText(line'.fields[n].value))
  <2> DEFINE v == fields[n].value
  <2>1. fields[n].key \in PlainKeys /\ v \in ValuesOf(AsciiTexts)
    <3>1. fields[n] \in F
      BY <1>6
    <3> QED BY <3>1 DEF FieldsOf
  <2> HIDE DEF v
  <2>2. IsJSONString(Raw(fields[n].key))
    <3> DEFINE key == fields[n].key
    <3>1. DOMAIN Raw(key) = DOMAIN key /\ \A m \in DOMAIN key : Raw(key)[m][2] = key[m]
      BY DEF Raw
    <3>2. \A m \in DOMAIN key : key[m] >= 32 /\ key[m] \notin {34, 92}
      BY <2>1 DEF PlainKeys
    <3> HIDE DEF key
    <3>3. IsJSONString(Raw(key))
      BY <3>1, <3>2 DEF IsJSONString
    <3> QED BY <3>3 DEF key
  <2>3. ASSUME line'.json.members[n].quoted
        PROVE  /\ line'.json.members[n].tokens = JsonEscapeString(JSONText(v))
               /\ IsJSONString(JsonEscapeString(JSONText(v)))
               /\ Read(JsonEscapeString(JSONText(v))) = FlattenSeq(JSONText(v))
    <3>1. FormatJSONValue(v).quoted
      BY <1>5, <2>3 DEF v
    <3>2. FormatJSONValue(v).tokens = JsonEscapeString(JSONText(v)) /\ v.kind # "nil"
      BY <3>1, KindsOfValues
    <3>3. JSONText(v) \in AsciiTexts
      BY <2>1, <3>2, TextsOfValues
    <3>4. /\ IsJSONString(JsonEscapeString(JSONText(v)))
          /\ Read(JsonEscapeString(JSONText(v))) = FlattenSeq(JSONText(v))
      BY <3>3, EscapedIsRead
    <3>5. line'.json.members[n].tokens = FormatJSONValue(v).tokens
      BY <1>5 DEF v
    <3> QED BY <3>2, <3>4, <3>5
  <2>4. line'.fields[n].value = v /\ line'.json.members[n].key = Raw(fields[n].key)
    BY <1>5 DEF v
  <2> QED BY <2>2, <2>3, <2>4
<1>8. ASSUME NEW name \in DOMAIN ctx, ctx[name] # << >>
      PROVE  \E n \in DOMAIN line'.json.members :
                 Read(line'.json.members[n].tokens) = FlattenSeq(ctx[name])
  <2>1. PICK n \in 1 .. Len(fields) : fields[n] = ContextField(ctx, name)
    BY <1>2, <1>8
  <2> DEFINE v == fields[n].value
  <2>2. n \in DOMAIN fields
    BY <1>6
  <2>3. v = StringValue(ctx[name]) /\ ctx[name] \in AsciiTexts
    <3>1. v = StringValue(ctx[name]) /\ v \in ValuesOf(AsciiTexts)
      <4>1. fields[n] \in F
        BY <1>6, <2>2
      <4>2. v \in ValuesOf(AsciiTexts)
        BY <4>1 DEF FieldsOf
      <4> HIDE DEF ctx
      <4> QED BY <2>1, <4>2 DEF ContextField, Field
    <3>2. v.text \in AsciiTexts
      BY <3>1 DEF ValuesOf
    <3> HIDE DEF ctx, v
    <3> QED BY <3>1, <3>2 DEF StringValue
  <2> HIDE DEF v
  <2>4. FormatJSONValue(v).tokens = JsonEscapeString(ctx[name])
    <3>1. v.kind = "string" /\ JSONText(v) = ctx[name]
      BY <2>3, StringIsValue
    <3>2. v.kind \notin BareKinds \cup {"nil"}
      BY <3>1 DEF BareKinds
    <3> QED BY <3>1, <3>2, KindsOfValues
  <2>5. line'.json.members[n].tokens = JsonEscapeString(ctx[name])
    BY <1>5, <2>2, <2>4 DEF v
  <2>6. Read(JsonEscapeString(ctx[name])) = FlattenSeq(ctx[name])
    BY <2>3, EscapedIsRead
  <2> QED BY <1>5, <2>2, <2>5, <2>6
<1>9. IsJSONString(line'.json.message) /\ Read(line'.json.message) = FlattenSeq(line'.message)
  BY <1>3, <1>5, EscapedIsRead
<1> HIDE DEF fields, ctx
<1>10. \A text \in {line'.context[k] : k \in DOMAIN line'.context} \ {<< >>} :
           \E n \in DOMAIN line'.json.members :
               Read(line'.json.members[n].tokens) = FlattenSeq(text)
  BY <1>5, <1>8
<1> QED BY <1>5, <1>7, <1>9, <1>10 DEF LineIsJSON

\* Every line: nothing is logged by an action that derives a logger.
LEMMA LineOf ==
    ASSUME NEW K, NEW T, InputsIn(K, T), Typed(K, T), [Next]_vars
    PROVE  \/ \E i \in DOMAIN loggers, l \in LogLevels, m \in Messages : Log(i, l, m)
           \/ line' = NoLine
           \/ line' = line
<1>1. CASE Next
  <2>1. CASE \E i \in DOMAIN loggers, logger \in LoggersOf(K, T) :
                 \E fields \in Seq(FieldsOf(K, T)) : Derive(i, logger, fields)
    BY <2>1 DEF Derive
  <2> QED BY <1>1, <2>1, NextDerives
<1>2. CASE UNCHANGED vars
  BY <1>2 DEF vars
<1> QED BY <1>1, <1>2

\* Where the texts are ASCII and the keys need no escaping, whatever quotes,
\* backslashes or control characters the texts have, a JSON line is read back as
\* what was logged (JSONEncoder, jsonEscapeString).
THEOREM LinesAreJSON ==
    ASSUME InputsIn(PlainKeys, AsciiTexts)
    PROVE  Spec => []LineIsJSON
<1> DEFINE T == Typed(PlainKeys, AsciiTexts)
<1>1. Init => T /\ LineIsJSON
  <2>1. Init => LineIsJSON
    BY DEF Init, LineIsJSON, Logged
  <2> QED BY <2>1, TypedInit
<1>2. T /\ LineIsJSON /\ [Next]_vars => T' /\ LineIsJSON'
  <2> SUFFICES ASSUME T, LineIsJSON, [Next]_vars PROVE LineIsJSON'
    BY TypedStep
  <2>1. CASE \E i \in DOMAIN loggers, l \in LogLevels, m \in Messages : Log(i, l, m)
    BY <2>1, LogIsJSON
  <2>2. CASE line' = NoLine
    BY <2>2 DEF LineIsJSON, Logged
  <2>3. CASE line' = line
    BY <2>3 DEF LineIsJSON, Logged
  <2> QED BY <2>1, <2>2, <2>3, LineOf
<1> QED BY <1>1, <1>2, PTL DEF Spec

LEMMA LogAgrees ==
    ASSUME InputsIn(Seq(Bytes), AsciiTexts), Typed(Seq(Bytes), AsciiTexts),
           NEW i \in DOMAIN loggers, NEW level, NEW message \in Messages, Log(i, level, message)
    PROVE  FormatsAgree'
<1> DEFINE F == FieldsOf(Seq(Bytes), AsciiTexts)
           entry == Entry(i, level, message)
           fields == entry.fields
<1>1. Closed(Seq(Bytes), AsciiTexts)
  BY OwnArePlain DEF Closed
<1>2. fields \in Seq(F)
  BY <1>1, EntryTyped
<1>3. line' = Encoded(i, entry)
  BY DEF Log
<1> HIDE DEF entry
<1>4. /\ DOMAIN line'.json.members = DOMAIN fields
      /\ DOMAIN line'.console.members = DOMAIN fields
      /\ \A n \in DOMAIN fields :
             /\ line'.json.members[n].key = Raw(fields[n].key)
             /\ line'.json.members[n].tokens = FormatJSONValue(fields[n].value).tokens
             /\ line'.console.members[n].key = Raw(fields[n].key)
             /\ line'.console.members[n].tokens = AsIs(FormatValue(fields[n].value))
      /\ line'.fields = fields
  BY <1>3, LineEncoded
<1>5. DOMAIN fields = 1 .. Len(fields) /\ \A n \in DOMAIN fields : fields[n] \in F
  BY <1>2, ElementOfSeq
<1>6. ASSUME NEW n \in DOMAIN fields, fields[n].value.kind \notin PrintedApart
      PROVE  Read(line'.json.members[n].tokens) = Read(line'.console.members[n].tokens)
  <2> DEFINE v == fields[n].value
             text == JSONText(v)
  <2>1. v \in ValuesOf(AsciiTexts)
    <3>1. fields[n] \in F
      BY <1>5
    <3> QED BY <3>1 DEF FieldsOf
  <2>2. v.kind \notin PrintedApart
    BY <1>6
  <2>3. /\ line'.json.members[n].tokens = FormatJSONValue(v).tokens
        /\ line'.console.members[n].tokens = AsIs(FormatValue(v))
    BY <1>4
  <2> HIDE DEF v
  <2>4. text = FormatValue(v) /\ (v.kind # "nil" => text \in AsciiTexts)
    BY <2>1, <2>2, TextsOfValues
  <2> HIDE DEF text
  <2>5. ASSUME v.kind # "nil"
        PROVE  Read(AsIs(text)) = FlattenSeq(text) /\ Read(JsonEscapeString(text)) = FlattenSeq(text)
    <3>1. FlattenSeq(text) \in Seq(Bytes)
      BY <2>4, <2>5, AsciiBytes
    <3>2. Read(AsIs(text)) = FlattenSeq(text)
      BY <3>1, RawIsRead DEF AsIs
    <3> QED BY <2>4, <2>5, <3>2, EscapedIsRead
  <2>6. Read(FormatJSONValue(v).tokens) = Read(AsIs(FormatValue(v)))
    <3>1. CASE v.kind \in BareKinds \cup {"nil"}
      BY <2>4, <3>1, KindsOfValues DEF text
    <3>2. CASE v.kind \notin BareKinds \cup {"nil"}
      BY <2>4, <2>5, <3>2, KindsOfValues DEF text
    <3> QED BY <3>1, <3>2
  <2> QED BY <2>3, <2>6
<1>7. Len(line'.json.members) = Len(line'.console.members)
  BY <1>4 DEF Len
<1> HIDE DEF fields
<1> QED BY <1>4, <1>6, <1>7 DEF FormatsAgree

\* Where the texts are ASCII, the console shows what JSON carries: the same keys in
\* the same order and, but for the four kinds of value that are printed apart, the
\* same texts (ConsoleEncoder and JSONEncoder, formatValue and formatJSONValue).
THEOREM EncodersAgree ==
    ASSUME InputsIn(Seq(Bytes), AsciiTexts)
    PROVE  Spec => []FormatsAgree
<1> DEFINE T == Typed(Seq(Bytes), AsciiTexts)
<1>1. Init => T /\ FormatsAgree
  <2>1. Init => FormatsAgree
    BY DEF Init, FormatsAgree, Logged
  <2> QED BY <2>1, TypedInit
<1>2. T /\ FormatsAgree /\ [Next]_vars => T' /\ FormatsAgree'
  <2> SUFFICES ASSUME T, FormatsAgree, [Next]_vars PROVE FormatsAgree'
    BY TypedStep
  <2>1. CASE \E i \in DOMAIN loggers, l \in LogLevels, m \in Messages : Log(i, l, m)
    BY <2>1, LogAgrees
  <2>2. CASE line' = NoLine
    BY <2>2 DEF FormatsAgree, Logged
  <2>3. CASE line' = line
    BY <2>3 DEF FormatsAgree, Logged
  <2> QED BY <2>1, <2>2, <2>3, LineOf
<1> QED BY <1>1, <1>2, PTL DEF Spec

-----------------------------------------------------------------------------
(* The size of the buffer. *)

Bits == 0 .. TopBit

LEMMA PowersOfTwo ==
    /\ PowerOf2[0] = 1 /\ \A n \in 0 .. TopBit + 1 : PowerOf2[n] \in Nat
    /\ \A n \in Bits : PowerOf2[n + 1] = 2 * PowerOf2[n]
<1> DEFINE N == TopBit + 1
           step == [p \in (1 .. N) \X Nat |-> 2 * p[2]]
           IsPower(f) == f = [n \in 0 .. N |-> IF n = 0 THEN 1 ELSE 2 * f[n - 1]]
<1>1. N \in Nat /\ N = 31
  BY DEF TopBit
<1>2. /\ step \in [(1 .. N) \X Nat -> Nat]
      /\ \A i \in 1 .. N, x \in Nat : step[<<i, x>>] = 2 * x
  <2>1. \A p \in (1 .. N) \X Nat : 2 * p[2] \in Nat
    OBVIOUS
  <2>2. \A i \in 1 .. N, x \in Nat : <<i, x>> \in (1 .. N) \X Nat /\ <<i, x>>[2] = x
    OBVIOUS
  <2> HIDE DEF N
  <2> QED BY <2>1, <2>2
<1> HIDE DEF step, N
<1>3. PICK f \in [0 .. N -> Nat] : Recursive(f, 1, step, N)
  <2>1. 1 \in Nat
    OBVIOUS
  <2> QED BY <1>1, <1>2, <2>1, Recursion
<1>4. IsPower(f)
  <2>1. ASSUME NEW n \in 0 .. N PROVE f[n] = IF n = 0 THEN 1 ELSE 2 * f[n - 1]
    <3>1. f[n] = IF n = 0 THEN 1 ELSE step[<<n, f[n - 1]>>]
      BY <1>3 DEF Recursive
    <3>2. n # 0 => n \in 1 .. N /\ n - 1 \in 0 .. N
      BY <1>1
    <3>3. n # 0 => f[n - 1] \in Nat
      BY <1>3, <3>2
    <3> QED BY <1>2, <3>1, <3>2, <3>3
  <2>2. f = [n \in 0 .. N |-> f[n]]
    BY <1>3
  <2> QED BY <2>1, <2>2
<1>5. IsPower(PowerOf2)
  BY <1>4, Zenon DEF PowerOf2, N
<1>6. /\ PowerOf2[0] = 1
      /\ \A n \in 1 .. N : PowerOf2[n] = 2 * PowerOf2[n - 1]
  <2>1. \A n \in 0 .. N : PowerOf2[n] = IF n = 0 THEN 1 ELSE 2 * PowerOf2[n - 1]
    BY <1>5
  <2>2. 0 \in 0 .. N /\ \A n \in 1 .. N : n \in 0 .. N /\ n # 0
    BY <1>1
  <2> HIDE DEF IsPower
  <2> QED BY <2>1, <2>2
<1> DEFINE R == Nat \X Nat
<1>7. ASSUME NEW n \in 0 .. N, n < N PROVE PowerOf2[n + 1] = 2 * PowerOf2[n]
  <2>1. PICK m \in 1 .. N : m = n + 1 /\ m - 1 = n
    BY <1>1, <1>7
  <2> QED BY <1>6, <2>1
<1>8. \A n \in 0 .. N : <<n, PowerOf2[n]>> \in R
  <2>1. \A n, x : <<n, x>> \in R <=> n \in Nat /\ x \in Nat
    OBVIOUS
  <2> HIDE DEF R
  <2>2. <<0, PowerOf2[0]>> \in R
    BY <1>6, <2>1
  <2>3. ASSUME NEW n \in 0 .. N, n < N, <<n, PowerOf2[n]>> \in R
        PROVE  <<n + 1, PowerOf2[n + 1]>> \in R
    <3>1. PowerOf2[n + 1] = 2 * PowerOf2[n] /\ PowerOf2[n] \in Nat /\ n + 1 \in Nat
      BY <1>7, <2>1, <2>3
    <3> QED BY <2>1, <3>1
  <2> QED BY <1>1, <2>2, <2>3, RecursionInvariant
<1>9. \A n \in 0 .. N : PowerOf2[n] \in Nat
  <2>1. \A n, x : <<n, x>> \in R => x \in Nat
    OBVIOUS
  <2> HIDE DEF R
  <2> QED BY <1>8, <2>1
<1>10. \A n \in Bits : n \in 0 .. N /\ n < N
  BY <1>1 DEF Bits, TopBit
<1> QED BY <1>6, <1>7, <1>9, <1>10 DEF N

LEMMA PowersGrow ==
    ASSUME NEW i \in 0 .. TopBit + 1, NEW j \in 0 .. TopBit + 1, i <= j
    PROVE  1 <= PowerOf2[i] /\ PowerOf2[i] <= PowerOf2[j]
<1> DEFINE N == TopBit + 1
<1>1. N \in Nat /\ N = 31 /\ \A n \in 0 .. N : n < N => n \in Bits
  BY DEF TopBit, Bits
<1> HIDE DEF N
<1>2. PowerOf2[0] = 1 /\ (\A n \in 0 .. N : PowerOf2[n] \in Nat)
      /\ \A n \in 0 .. N : n < N => PowerOf2[n + 1] = 2 * PowerOf2[n]
  BY <1>1, PowersOfTwo DEF N
<1>3. ASSUME NEW m \in 0 .. N, NEW least \in Nat, m = 0 => PowerOf2[0] >= least,
             m # 0 => PowerOf2[m] >= least
      PROVE  \A n \in 0 .. N : n >= m => PowerOf2[n] >= least
  <2> DEFINE R == {p \in Nat \X Nat : p[1] >= m => p[2] >= least}
  <2>1. \A n, x : <<n, x>> \in R <=> n \in Nat /\ x \in Nat /\ (n >= m => x >= least)
    OBVIOUS
  <2> HIDE DEF R
  <2>2. <<0, PowerOf2[0]>> \in R
    <3>1. 0 >= m => m = 0
      BY <1>1
    <3> QED BY <1>2, <1>3, <2>1, <3>1
  <2>3. ASSUME NEW n \in 0 .. N, n < N, <<n, PowerOf2[n]>> \in R
        PROVE  <<n + 1, PowerOf2[n + 1]>> \in R
    <3>1. /\ PowerOf2[n + 1] = 2 * PowerOf2[n] /\ PowerOf2[n] \in Nat /\ n \in Nat
          /\ (n >= m => PowerOf2[n] >= least)
      BY <1>2, <2>1, <2>3
    <3>2. CASE n >= m
      <4>1. 2 * PowerOf2[n] >= least
        BY <3>1, <3>2
      <4> QED BY <2>1, <3>1, <4>1
    <3>3. CASE ~(n >= m) /\ n + 1 >= m
      <4>1. m = n + 1 /\ m # 0
        BY <1>1, <3>1, <3>3
      <4> QED BY <1>3, <2>1, <3>1, <4>1
    <3>4. CASE ~(n + 1 >= m)
      BY <2>1, <3>1, <3>4
    <3> QED BY <3>2, <3>3, <3>4
  <2>4. \A n \in 0 .. N : <<n, PowerOf2[n]>> \in R
    BY <1>1, <2>2, <2>3, RecursionInvariant
  <2> QED BY <2>1, <2>4
<1>4. i \in 0 .. N /\ j \in 0 .. N /\ i \in Int /\ j \in Int /\ 0 \in 0 .. N /\ i >= 0 /\ j >= i
  BY <1>1 DEF N
<1>5. PowerOf2[i] >= 1
  BY <1>2, <1>3, <1>4
<1>6. PowerOf2[j] >= PowerOf2[i]
  BY <1>2, <1>3, <1>4
<1>7. PowerOf2[i] \in Nat /\ PowerOf2[j] \in Nat
  BY <1>2, <1>4
<1> QED BY <1>5, <1>6, <1>7

\* A number has a highest bit.
LEMMA HighestBit ==
    ASSUME NEW m \in Nat, 1 <= m, m < PowerOf2[TopBit]
    PROVE  \E k \in 0 .. TopBit - 1 : PowerOf2[k] <= m /\ m < PowerOf2[k + 1]
<1> DEFINE S == {i \in Bits : PowerOf2[i] <= m}
<1>1. TopBit = 30 /\ TopBit \in Bits /\ 0 \in Bits /\ \A i \in Bits : i \in Nat /\ i <= TopBit
  BY DEF TopBit, Bits
<1>2. S \in SUBSET Nat /\ 0 \in S /\ \A i \in S : i <= TopBit
  BY <1>1, PowersOfTwo
<1>3. PICK k \in S : \A i \in S : k >= i
  <2> HIDE DEF S
  <2>1. TopBit \in Nat /\ S # {}
    BY <1>1, <1>2
  <2> QED BY <1>2, <2>1, GreatestElement
<1>4. k \in Bits /\ PowerOf2[k] <= m
  OBVIOUS
<1>5. k # TopBit
  <2>1. PowerOf2[TopBit] \in Nat
    BY PowersOfTwo DEF TopBit
  <2> QED BY <1>4, <2>1
<1>6. k \in 0 .. TopBit - 1 /\ k + 1 \in Bits /\ ~(k >= k + 1)
  BY <1>1, <1>4, <1>5 DEF Bits
<1>7. ~(PowerOf2[k + 1] <= m)
  BY <1>3, <1>6
<1>8. PowerOf2[k + 1] \in Nat
  <2>1. k + 1 \in 0 .. TopBit + 1
    BY <1>1, <1>6 DEF Bits
  <2> QED BY <2>1, PowersOfTwo
<1> QED BY <1>4, <1>6, <1>7, <1>8

LEMMA Quotients ==
    ASSUME NEW m \in Nat, NEW p \in Nat, 1 <= p
    PROVE  /\ m < p => m \div p = 0
           /\ p <= m /\ m < 2 * p => m \div p = 1
OBVIOUS

LEMMA BitsBelow ==
    ASSUME NEW m \in Nat, NEW k \in 0 .. TopBit - 1, PowerOf2[k] <= m, m < PowerOf2[k + 1]
    PROVE  k \in BitsOf(m) /\ BitsOf(m) \subseteq 0 .. k
<1>1. TopBit = 30 /\ k \in Bits /\ k \in Nat /\ k + 1 \in 0 .. TopBit + 1 /\ k \in 0 .. TopBit + 1
  BY DEF TopBit, Bits
<1>2. /\ PowerOf2[k] \in Nat /\ PowerOf2[k + 1] \in Nat /\ PowerOf2[k + 1] = 2 * PowerOf2[k]
      /\ 1 <= PowerOf2[k]
  BY <1>1, PowersOfTwo, PowersGrow
<1>3. m \div PowerOf2[k] = 1
  BY <1>2, Quotients
<1>4. k \in BitsOf(m)
  <2>1. (m \div PowerOf2[k]) % 2 = 1
    BY <1>3
  <2> QED BY <1>1, <2>1 DEF BitsOf, Bits
<1>5. ASSUME NEW i \in Bits, ~(i <= k) PROVE i \notin BitsOf(m)
  <2>1. i \in 0 .. TopBit + 1 /\ k + 1 <= i
    BY <1>1, <1>5 DEF Bits
  <2>2. PowerOf2[i] \in Nat /\ PowerOf2[k + 1] <= PowerOf2[i] /\ 1 <= PowerOf2[i]
    BY <1>1, <2>1, PowersOfTwo, PowersGrow
  <2>3. m < PowerOf2[i]
    BY <1>2, <2>2
  <2>4. m \div PowerOf2[i] = 0
    BY <2>2, <2>3, Quotients
  <2>5. (m \div PowerOf2[i]) % 2 # 1
    BY <2>4
  <2> QED BY <2>5 DEF BitsOf
<1>6. \A i \in BitsOf(m) : i \in Bits
  BY DEF BitsOf, Bits
<1>7. \A i \in Bits : i <= k => i \in 0 .. k
  BY <1>1 DEF Bits
<1> QED BY <1>4, <1>5, <1>6, <1>7

\* A shift by no more than their number doubles the run of bits at the top.
LEMMA SmearDoubles ==
    ASSUME NEW k \in Bits, NEW bits, bits \subseteq 0 .. k, NEW run \in Nat, NEW shift \in Nat,
           shift <= run, \A i \in 0 .. k : i > k - run => i \in bits
    PROVE  /\ Smear(bits, shift) \subseteq 0 .. k
           /\ \A i \in 0 .. k : i > k - (run + shift) => i \in Smear(bits, shift)
<1>1. k \in Nat /\ \A i \in 0 .. k : i \in 0 .. TopBit
  BY DEF Bits, TopBit
<1>2. ASSUME NEW i \in 0 .. TopBit, i + shift \in bits PROVE i \in 0 .. k
  <2>1. i + shift \in 0 .. k
    BY <1>2
  <2> QED BY <1>1, <2>1
<1>3. ASSUME NEW i \in 0 .. k, i > k - (run + shift) PROVE i \in bits \/ i + shift \in bits
  <2>1. CASE i > k - run
    BY <2>1
  <2>2. CASE ~(i > k - run)
    <3>1. i + shift \in 0 .. k /\ i + shift > k - run
      BY <1>1, <1>3, <2>2
    <3> QED BY <3>1
  <2> QED BY <2>1, <2>2
<1> QED BY <1>1, <1>2, <1>3 DEF Smear

\* Every bit below the highest is set.
LEMMA Smeared ==
    ASSUME NEW k \in Bits, NEW bits, bits \subseteq 0 .. k, k \in bits
    PROVE  SmearAll(bits) = 0 .. k
<1> DEFINE b1 == Smear(bits, 1)
           b2 == Smear(b1, 2)
           b3 == Smear(b2, 4)
           b4 == Smear(b3, 8)
           b5 == Smear(b4, 16)
           Top(b, run) == b \subseteq 0 .. k /\ \A i \in 0 .. k : i > k - run => i \in b
<1>1. k \in Nat /\ k <= 30
  BY DEF Bits, TopBit
<1>2. Top(bits, 1)
  <2>1. \A i \in 0 .. k : i > k - 1 => i = k
    BY <1>1
  <2> QED BY <2>1
<1>3. ASSUME NEW b, NEW run \in Nat, Top(b, run) PROVE Top(Smear(b, run), run + run)
  <2>1. run <= run
    OBVIOUS
  <2> QED BY <1>3, <2>1, SmearDoubles
<1> HIDE DEF Top
<1>4. Top(b1, 2)
  BY <1>2, <1>3
<1> HIDE DEF b1
<1>5. Top(b2, 4)
  BY <1>3, <1>4
<1> HIDE DEF b2
<1>6. Top(b3, 8)
  BY <1>3, <1>5
<1> HIDE DEF b3
<1>7. Top(b4, 16)
  BY <1>3, <1>6
<1> HIDE DEF b4
<1>8. Top(b5, 32)
  BY <1>3, <1>7
<1> HIDE DEF b5
<1>9. b5 = 0 .. k
  <2>1. \A i \in 0 .. k : i > k - 32
    BY <1>1
  <2> QED BY <1>8, <2>1 DEF Top
<1> QED BY <1>9 DEF SmearAll, b1, b2, b3, b4, b5

\* All bits up to one make one less than the next power.
LEMMA NumberOfRun ==
    ASSUME NEW k \in 0 .. TopBit - 1
    PROVE  NumberOf(0 .. k) = PowerOf2[k + 1] - 1
<1> DEFINE N == TopBit + 1
           bits == 0 .. k
           of(i) == IF i \in bits THEN PowerOf2[i] ELSE 0
           step == [p \in (1 .. N) \X Nat |-> p[2] + of(p[1] - 1)]
           IsLow(f) == f = [n \in 0 .. N |->
                               IF n = 0 THEN 0
                               ELSE f[n - 1] + (IF n - 1 \in bits THEN PowerOf2[n - 1] ELSE 0)]
           h == CHOOSE f : IsLow(f)
<1>1. N \in Nat /\ N = 31 /\ k \in Nat /\ k + 1 < N
  BY DEF TopBit
<1>2. ASSUME NEW i \in 0 .. N PROVE of(i) \in Nat
  BY PowersOfTwo
<1>3. step \in [(1 .. N) \X Nat -> Nat] /\ \A i \in 1 .. N, x \in Nat : step[<<i, x>>] = x + of(i - 1)
  <2>1. \A i \in 1 .. N : i - 1 \in 0 .. N
    BY <1>1
  <2> HIDE DEF N, of
  <2>2. \A p \in (1 .. N) \X Nat : p[2] + of(p[1] - 1) \in Nat
    <3> SUFFICES ASSUME NEW i \in 1 .. N, NEW x \in Nat PROVE x + of(i - 1) \in Nat
      OBVIOUS
    <3>1. of(i - 1) \in Nat
      BY <1>2, <2>1
    <3> QED BY <3>1
  <2>3. \A i \in 1 .. N, x \in Nat :
            <<i, x>> \in (1 .. N) \X Nat /\ <<i, x>>[2] = x /\ <<i, x>>[1] = i
    OBVIOUS
  <2> QED BY <2>2, <2>3
<1> HIDE DEF step, N
<1>4. PICK f \in [0 .. N -> Nat] : Recursive(f, 0, step, N)
  <2>1. 0 \in Nat
    OBVIOUS
  <2> QED BY <1>1, <1>3, <2>1, Recursion
<1>5. IsLow(f)
  <2>1. ASSUME NEW n \in 0 .. N PROVE f[n] = IF n = 0 THEN 0 ELSE f[n - 1] + of(n - 1)
    <3>1. f[n] = IF n = 0 THEN 0 ELSE step[<<n, f[n - 1]>>]
      BY <1>4 DEF Recursive
    <3>2. n # 0 => n \in 1 .. N /\ n - 1 \in 0 .. N
      BY <1>1
    <3>3. n # 0 => f[n - 1] \in Nat
      BY <1>4, <3>2
    <3> HIDE DEF of
    <3> QED BY <1>3, <3>1, <3>2, <3>3
  <2>2. f = [n \in 0 .. N |-> f[n]]
    BY <1>4
  <2> HIDE DEF bits
  <2> QED BY <2>1, <2>2
<1>6. IsLow(h)
  BY <1>5, Zenon
<1>7. NumberOf(bits) = h[N]
  BY Zenon DEF NumberOf, N
<1> HIDE DEF h
<1>8. h[0] = 0 /\ \A n \in 1 .. N : h[n] = h[n - 1] + of(n - 1)
  <2>1. \A n \in 0 .. N : h[n] = IF n = 0 THEN 0 ELSE h[n - 1] + of(n - 1)
    <3> HIDE DEF bits
    <3> QED BY <1>6
  <2>2. 0 \in 0 .. N /\ \A n \in 1 .. N : n \in 0 .. N /\ n # 0
    BY <1>1
  <2> HIDE DEF IsLow, of
  <2> QED BY <2>1, <2>2
<1> HIDE DEF IsLow
<1> DEFINE Want(n) == IF n <= k + 1 THEN PowerOf2[n] - 1 ELSE PowerOf2[k + 1] - 1
           R == {p \in Nat \X Int : p[2] = Want(p[1])}
<1>9. \A n, x : <<n, x>> \in R <=> n \in Nat /\ x \in Int /\ x = Want(n)
  <2>1. \A n, x : <<n, x>>[1] = n /\ <<n, x>>[2] = x
    OBVIOUS
  <2> HIDE DEF Want
  <2> QED BY <2>1
<1> HIDE DEF R
<1>10. \A n \in 0 .. N : PowerOf2[n] \in Nat
  BY PowersOfTwo DEF N
<1>11. <<0, h[0]>> \in R
  <2>1. Want(0) = 0
    BY <1>1, PowersOfTwo
  <2> QED BY <1>8, <1>9, <2>1
<1>12. ASSUME NEW n \in 0 .. N, n < N, <<n, h[n]>> \in R PROVE <<n + 1, h[n + 1]>> \in R
  <2>1. n \in Nat /\ n + 1 \in Nat /\ h[n] \in Int /\ h[n] = Want(n)
    <3> HIDE DEF Want
    <3> QED BY <1>9, <1>12
  <2>2. PICK m \in 1 .. N : m = n + 1 /\ m - 1 = n
    BY <1>1, <1>12
  <2>3. h[n + 1] = h[n] + of(n)
    <3> HIDE DEF of
    <3> QED BY <1>8, <2>2
  <2>4. PowerOf2[n] \in Nat /\ PowerOf2[n + 1] = 2 * PowerOf2[n]
    <3>1. n \in Bits
      BY <1>1, <1>12, <2>1 DEF Bits, TopBit
    <3> QED BY <1>10, <3>1, PowersOfTwo
  <2>5. PowerOf2[k + 1] \in Nat
    <3>1. k + 1 \in 0 .. N
      BY <1>1
    <3> QED BY <1>10, <3>1
  <2>6. CASE n <= k
    <3>1. of(n) = PowerOf2[n] /\ Want(n) = PowerOf2[n] - 1 /\ Want(n + 1) = PowerOf2[n + 1] - 1
      BY <1>1, <2>1, <2>6
    <3>2. h[n + 1] = Want(n + 1) /\ h[n + 1] \in Int
      <4> HIDE DEF Want, of
      <4> QED BY <2>1, <2>3, <2>4, <3>1
    <3> HIDE DEF Want
    <3> QED BY <1>9, <2>1, <3>2
  <2>7. CASE ~(n <= k)
    <3>1. of(n) = 0 /\ Want(n) = PowerOf2[k + 1] - 1 /\ Want(n + 1) = PowerOf2[k + 1] - 1
      <4>1. n <= k + 1 => n = k + 1
        BY <1>1, <2>1, <2>7
      <4>2. ~(n + 1 <= k + 1) /\ n \notin bits
        BY <1>1, <2>1, <2>7
      <4> QED BY <4>1, <4>2
    <3>2. h[n + 1] = Want(n + 1) /\ h[n + 1] \in Int
      <4> HIDE DEF Want, of
      <4> QED BY <2>1, <2>3, <2>5, <3>1
    <3> HIDE DEF Want
    <3> QED BY <1>9, <2>1, <3>2
  <2> QED BY <2>6, <2>7
<1>13. h[N] = Want(N)
  <2>1. \A n \in 0 .. N : <<n, h[n]>> \in R
    BY <1>1, <1>11, <1>12, RecursionInvariant
  <2>2. N \in 0 .. N
    BY <1>1
  <2> HIDE DEF Want
  <2> QED BY <1>9, <2>1, <2>2
<1>14. Want(N) = PowerOf2[k + 1] - 1
  BY <1>1
<1> QED BY <1>7, <1>13, <1>14

\* The least power of two that is not less.
LEMMA RoundedUp ==
    ASSUME NEW val \in Nat, 2 <= val, val <= PowerOf2[TopBit]
    PROVE  IsPowerOfTwo(NextPowerOfTwo(val)) /\ val <= NextPowerOfTwo(val)
           /\ NextPowerOfTwo(val) < 2 * val
<1>1. PowerOf2[TopBit] \in Nat /\ TopBit = 30
  BY PowersOfTwo DEF TopBit
<1>2. val - 1 \in Nat /\ 1 <= val - 1 /\ val - 1 < PowerOf2[TopBit]
  BY <1>1
<1>3. PICK k \in 0 .. TopBit - 1 : PowerOf2[k] <= val - 1 /\ val - 1 < PowerOf2[k + 1]
  BY <1>2, HighestBit
<1>4. k \in Bits /\ k + 1 \in 0 .. TopBit /\ k \in 0 .. TopBit + 1 /\ k + 1 \in 0 .. TopBit + 1
  BY <1>1 DEF Bits
<1>5. SmearAll(BitsOf(val - 1)) = 0 .. k
  <2>1. k \in BitsOf(val - 1) /\ BitsOf(val - 1) \subseteq 0 .. k
    BY <1>2, <1>3, BitsBelow
  <2> QED BY <1>4, <2>1, Smeared
<1>6. /\ PowerOf2[k] \in Nat /\ PowerOf2[k + 1] \in Nat
      /\ PowerOf2[k + 1] = 2 * PowerOf2[k]
  BY <1>4, PowersOfTwo
<1>7. NextPowerOfTwo(val) = PowerOf2[k + 1]
  <2>1. NextPowerOfTwo(val) = NumberOf(0 .. k) + 1
    BY <1>5 DEF NextPowerOfTwo
  <2>2. NumberOf(0 .. k) = PowerOf2[k + 1] - 1
    BY NumberOfRun
  <2> QED BY <1>6, <2>1, <2>2
<1>8. IsPowerOfTwo(PowerOf2[k + 1])
  BY <1>4 DEF IsPowerOfTwo
<1> QED BY <1>3, <1>6, <1>7, <1>8

LEMMA LogFits ==
    ASSUME Typed(Seq(Bytes), Seq(Runes)),
           NEW i \in DOMAIN loggers, NEW level, NEW message \in Messages, Log(i, level, message)
    PROVE  BufferFits'
<1> DEFINE entry == Entry(i, level, message)
<1>1. Closed(Seq(Bytes), Seq(Runes))
  <2>1. AsciiTexts \subseteq Seq(Runes)
    <3>1. \A c \in Ascii : <<c>> \in Runes
      <4>1. \A c \in Ascii : c \in Bytes
        BY DEF Ascii, Bytes
      <4>2. \A c \in Bytes : <<c>> \in Seq(Bytes) /\ <<c>> # << >>
        OBVIOUS
      <4> QED BY <4>1, <4>2 DEF Runes
    <3>2. {<<c>> : c \in Ascii} \subseteq Runes
      BY <3>1
    <3> QED BY <3>2, SeqMonotonic DEF AsciiTexts
  <2>2. InputsIn(Seq(Bytes), Seq(Runes))
    BY LineAssumption
  <2> QED BY <2>1, <2>2, OwnArePlain DEF Closed
<1>2. entry.fields \in Seq(FieldsOf(Seq(Bytes), Seq(Runes)))
  BY <1>1, EntryTyped
<1>3. entry.message = message /\ message \in Seq(Runes)
  BY LineAssumption DEF Entry, InputsIn
<1>4. line' = Encoded(i, entry)
  BY DEF Log
<1> HIDE DEF entry
<1>5. line'.message = message /\ line'.fields = entry.fields
  BY <1>3, <1>4, LineEncoded
<1>6. Len(FlattenSeq(line'.message)) \in Nat
  <2>1. message \in Seq(Seq(Bytes))
    <3>1. Runes \subseteq Seq(Bytes)
      BY DEF Runes
    <3> QED BY <1>3, <3>1, SeqMonotonic
  <2>2. FlattenSeq(message) \in Seq(Bytes)
    BY <2>1, FlattenElements
  <2> QED BY <1>5, <2>2
<1>7. Len(line'.fields) \in Nat
  BY <1>2, <1>5
<1>8. ASSUME NEW json \in BOOLEAN
      PROVE  LET size == PredictBufferSize(json, line')
                 guess == GuessedSize(json, line')
             IN guess <= PowerOf2[TopBit] =>
                    IsPowerOfTwo(size) /\ guess <= size /\ size < 2 * guess
  <2>1. GuessedSize(json, line') \in Nat /\ 2 <= GuessedSize(json, line')
    <3> DEFINE bytes == Len(FlattenSeq(line'.message))
               number == Len(line'.fields)
    <3>1. GuessedSize(json, line') = (IF json THEN 200 ELSE 100) + bytes
                                         + number * (IF json THEN 40 ELSE 25)
      BY DEF GuessedSize
    <3>2. bytes \in Nat /\ number \in Nat
      BY <1>6, <1>7
    <3> HIDE DEF bytes, number
    <3> QED BY <3>1, <3>2
  <2> QED BY <2>1, RoundedUp DEF PredictBufferSize
<1> QED BY <1>8 DEF BufferFits

\* However long the message and many the fields, up to a gigabyte, the buffer
\* asked for is the least power of two that holds the guess (nextPowerOfTwo).
THEOREM BuffersFit == Spec => []BufferFits
<1> DEFINE T == Typed(Seq(Bytes), Seq(Runes))
<1>1. Init => T /\ BufferFits
  <2>1. Init => BufferFits
    BY DEF Init, BufferFits, Logged
  <2> QED BY <2>1, TypedInit
<1>2. T /\ BufferFits /\ [Next]_vars => T' /\ BufferFits'
  <2> SUFFICES ASSUME T, BufferFits, [Next]_vars PROVE T' /\ BufferFits'
    OBVIOUS
  <2>1. InputsIn(Seq(Bytes), Seq(Runes))
    BY LineAssumption
  <2>2. T'
    BY <2>1, TypedStep
  <2>3. CASE \E i \in DOMAIN loggers, l \in LogLevels, m \in Messages : Log(i, l, m)
    BY <2>2, <2>3, LogFits
  <2>4. CASE line' = NoLine
    BY <2>2, <2>4 DEF BufferFits, Logged
  <2>5. CASE line' = line
    BY <2>2, <2>5 DEF BufferFits, Logged
  <2> QED BY <2>1, <2>3, <2>4, <2>5, LineOf
<1> QED BY <1>1, <1>2, PTL DEF Spec
=============================================================================
