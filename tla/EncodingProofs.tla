--------------------------- MODULE EncodingProofs ---------------------------
(***************************************************************************)
(* Theorems about Encoding, for every number of values of a byte, every    *)
(* byte order and every message: what is read is what was written.         *)
(***************************************************************************)
EXTENDS Encoding, TLAPS, WellFoundedInduction, SequenceTheorems, FiniteSetTheorems

-----------------------------------------------------------------------------
(* Induction and recursion, in terms of sets                               *)

\* A set of natural numbers with 0 and the successor of each of its elements
\* is Nat.
LEMMA NatIsInductive ==
  ASSUME NEW T, T \subseteq Nat, 0 \in T, \A n \in T : n + 1 \in T
  PROVE  T = Nat
<1> DEFINE U == Nat \ T
<1>1. SUFFICES ASSUME U # {} PROVE FALSE
  OBVIOUS
<1>2. PICK m \in U : \A y \in U : ~(<<y, m>> \in OpToRel(<, Nat))
  BY <1>1, WFMin, NatLessThanWellFounded
<1>3. m # 0 /\ m - 1 \in Nat
  OBVIOUS
<1>4. <<m - 1, m>> \in OpToRel(<, Nat)
  BY <1>3 DEF OpToRel
<1>5. m - 1 \in T
  BY <1>2, <1>3, <1>4
<1> QED BY <1>5

\* The functions that start with s0 and follow G up to n.
Iterates(S, s0, G, n) ==
  {g \in [0 .. n -> S] : g[0] = s0 /\ \A k \in 0 .. n - 1 : g[k + 1] = G[k][g[k]]}

LEMMA IterateOneMore ==
  ASSUME NEW S, NEW s0 \in S, NEW G \in [Nat -> [S -> S]], NEW n \in Nat,
         NEW g \in Iterates(S, s0, G, n)
  PROVE  \E h \in Iterates(S, s0, G, n + 1) : \A k \in 0 .. n : h[k] = g[k]
<1> DEFINE h == [k \in 0 .. n + 1 |-> IF k = n + 1 THEN G[n][g[n]] ELSE g[k]]
<1>1. g \in [0 .. n -> S] /\ g[0] = s0 /\ \A k \in 0 .. n - 1 : g[k + 1] = G[k][g[k]]
  BY DEF Iterates
<1>2. G[n][g[n]] \in S
  BY <1>1
<1>3. h \in [0 .. n + 1 -> S]
  BY <1>1, <1>2
<1>4. h[0] = s0
  BY <1>1
<1>5. ASSUME NEW k \in 0 .. (n + 1) - 1 PROVE h[k + 1] = G[k][h[k]]
  BY <1>1
<1>6. h \in Iterates(S, s0, G, n + 1)
  BY <1>3, <1>4, <1>5 DEF Iterates
<1>7. \A k \in 0 .. n : h[k] = g[k]
  OBVIOUS
<1> QED BY <1>6, <1>7

LEMMA IteratesExist ==
  ASSUME NEW S, NEW s0 \in S, NEW G \in [Nat -> [S -> S]]
  PROVE  \A n \in Nat : Iterates(S, s0, G, n) # {}
<1> DEFINE T == {n \in Nat : Iterates(S, s0, G, n) # {}}
<1>1. 0 \in T
  <2>1. [k \in 0 .. 0 |-> s0] \in Iterates(S, s0, G, 0)
    BY DEF Iterates
  <2> QED BY <2>1
<1>2. \A n \in T : n + 1 \in T
  BY IterateOneMore
<1> HIDE DEF T
<1>3. T \subseteq Nat
  BY DEF T
<1>4. T = Nat
  BY <1>1, <1>2, <1>3, NatIsInductive
<1> QED BY <1>4 DEF T

LEMMA IteratesAgree ==
  ASSUME NEW S, NEW s0 \in S, NEW G \in [Nat -> [S -> S]],
         NEW m \in Nat, NEW n \in Nat, m <= n,
         NEW g \in Iterates(S, s0, G, m), NEW h \in Iterates(S, s0, G, n)
  PROVE  g[m] = h[m]
<1> DEFINE T == {k \in Nat : k <= m => g[k] = h[k]}
<1>1. 0 \in T
  BY DEF Iterates
<1>2. ASSUME NEW k \in T PROVE k + 1 \in T
  BY DEF Iterates
<1> HIDE DEF T
<1>3. T \subseteq Nat
  BY DEF T
<1>4. T = Nat
  BY <1>1, <1>2, <1>3, NatIsInductive
<1> QED BY <1>4 DEF T

IsStep(S, G) == G \in [Nat -> [S -> S]]

Recurses(S, s0, G, f) ==
  f \in [Nat -> S] /\ f[0] = s0 /\ \A n \in Nat : f[n + 1] = G[n][f[n]]

\* Primitive recursion defines a function.
LEMMA Recursion ==
  ASSUME NEW S, NEW s0 \in S, NEW G, IsStep(S, G)
  PROVE  \E f : Recurses(S, s0, G, f)
<1>0. G \in [Nat -> [S -> S]]
  BY DEF IsStep
<1> DEFINE it == [n \in Nat |-> CHOOSE g : g \in Iterates(S, s0, G, n)]
           f == [n \in Nat |-> it[n][n]]
<1>1. \A n \in Nat : it[n] \in Iterates(S, s0, G, n)
  BY <1>0, IteratesExist
<1> HIDE DEF it
<1>2. f \in [Nat -> S]
  BY <1>1 DEF Iterates
<1>3. f[0] = s0
  BY <1>1 DEF Iterates
<1>4. ASSUME NEW n \in Nat PROVE f[n + 1] = G[n][f[n]]
  <2>1. it[n + 1][n + 1] = G[n][it[n + 1][n]]
    BY <1>1 DEF Iterates
  <2>2. it[n][n] = it[n + 1][n]
    BY <1>0, <1>1, IteratesAgree
  <2> QED BY <2>1, <2>2
<1> QED BY <1>2, <1>3, <1>4 DEF Recurses

-----------------------------------------------------------------------------
(* FlattenSeq                                                              *)

Lists(S) == Seq(Seq(S))

LEMMA ListProperties ==
  ASSUME NEW S, NEW a \in Lists(S)
  PROVE  /\ Len(a) \in Nat /\ DOMAIN a = 1 .. Len(a)
         /\ \A i \in 1 .. Len(a) : a[i] \in Seq(S)
BY DEF Lists

LEMMA ListConcat ==
  ASSUME NEW S, NEW a \in Lists(S), NEW b \in Lists(S)
  PROVE  /\ a \o b \in Lists(S)
         /\ Len(a \o b) = Len(a) + Len(b)
         /\ \A i \in 1 .. Len(a) : (a \o b)[i] = a[i]
         /\ \A i \in 1 .. Len(b) : (a \o b)[Len(a) + i] = b[i]
BY ConcatProperties DEF Lists

LEMMA ListOfOne ==
  ASSUME NEW S, NEW s \in Seq(S)
  PROVE  <<s>> \in Lists(S) /\ Len(<<s>>) = 1 /\ <<s>>[1] = s
BY DEF Lists

\* f[k] is the concatenation of the first k sequences.
Concatenates(S, seqs, f) ==
  /\ f \in [Nat -> Seq(S)] /\ f[0] = <<>>
  /\ \A k \in 0 .. Len(seqs) - 1 : f[k + 1] = f[k] \o seqs[k + 1]

LEMMA ConcatenationExists ==
  ASSUME NEW S, NEW seqs \in Lists(S)
  PROVE  \E f : Concatenates(S, seqs, f)
<1> DEFINE G == [k \in Nat |-> [s \in Seq(S) |->
                  IF k < Len(seqs) THEN s \o seqs[k + 1] ELSE s]]
<1>1. ASSUME NEW k \in Nat, NEW s \in Seq(S)
      PROVE  (IF k < Len(seqs) THEN s \o seqs[k + 1] ELSE s) \in Seq(S)
  <2>1. CASE k < Len(seqs)
    <3>1. seqs[k + 1] \in Seq(S)
      BY <2>1, ListProperties
    <3> QED BY <3>1, <2>1, ConcatProperties
  <2> QED BY <2>1
<1>2. IsStep(Seq(S), G)
  BY <1>1 DEF IsStep
<1>3. <<>> \in Seq(S) /\ Len(seqs) \in Nat
  BY ListProperties
<1> HIDE DEF G
<1>4. PICK f : Recurses(Seq(S), <<>>, G, f)
  BY <1>2, <1>3, Recursion
<1>5. f \in [Nat -> Seq(S)] /\ f[0] = <<>>
  BY <1>4 DEF Recurses
<1>6. \A n \in Nat : f[n + 1] = G[n][f[n]]
  BY <1>4 DEF Recurses
<1>7. ASSUME NEW k \in 0 .. Len(seqs) - 1 PROVE f[k + 1] = f[k] \o seqs[k + 1]
  <2>1. k \in Nat /\ k < Len(seqs)
    BY <1>3
  <2>2. f[k] \in Seq(S)
    BY <1>5, <2>1
  <2>3. f[k + 1] = G[k][f[k]]
    BY <1>6, <2>1, Zenon
  <2> QED BY <2>1, <2>2, <2>3 DEF G
<1> QED BY <1>5, <1>7, Zenon DEF Concatenates

LEMMA FlattenIsConcatenation ==
  ASSUME NEW S, NEW seqs \in Lists(S), NEW f, Concatenates(S, seqs, f)
  PROVE  FlattenSeq(seqs) = f[Len(seqs)]
<1> DEFINE n == Len(seqs)
           Body(g) == [i \in 1 .. n |-> IF i = 1 THEN seqs[i] ELSE g[i - 1] \o seqs[i]]
           flatten == CHOOSE g : g = Body(g)
<1>1. n \in Nat /\ f \in [Nat -> Seq(S)] /\ f[0] = <<>> /\ DOMAIN seqs = 1 .. n
  BY ListProperties DEF Concatenates
<1>2. \A k \in 0 .. n - 1 : f[k + 1] = f[k] \o seqs[k + 1]
  BY DEF Concatenates
<1>3. CASE n = 0
  <2>1. seqs = <<>>
    BY <1>3, EmptySeq DEF Lists
  <2> QED BY <1>1, <1>3, <2>1 DEF FlattenSeq
<1>4. CASE n # 0
  <2>1. f[1] = seqs[1]
    <3>1. 0 \in 0 .. n - 1 /\ 1 \in 1 .. n
      BY <1>1, <1>4
    <3>2. f[0 + 1] = f[0] \o seqs[0 + 1]
      BY <1>2, <3>1, Zenon
    <3>3. f[1] = <<>> \o seqs[1] /\ seqs[1] \in Seq(S)
      BY <1>1, <3>1, <3>2, ListProperties
    <3> QED BY <3>3, ConcatEmptySeq, Zenon
  <2> DEFINE g == [i \in 1 .. n |-> f[i]]
  <2>2. ASSUME NEW i \in 1 .. n
        PROVE  g[i] = IF i = 1 THEN seqs[i] ELSE g[i - 1] \o seqs[i]
    <3>1. CASE i = 1
      BY <3>1, <2>1
    <3>2. CASE i # 1
      <4> DEFINE j == i - 1
      <4>1. j \in 0 .. n - 1 /\ j \in 1 .. n /\ j + 1 = i
        BY <1>1, <3>2
      <4>2. f[j + 1] = f[j] \o seqs[j + 1] /\ g[j] = f[j]
        BY <1>2, <4>1, Zenon
      <4>3. g[i] = f[i]
        OBVIOUS
      <4> QED BY <4>1, <4>2, <4>3, <3>2, Zenon
    <3> QED BY <3>1, <3>2
  <2>3. g = Body(g)
    BY <2>2
  <2> HIDE DEF g
  <2>4. flatten = Body(flatten)
    BY <2>3
  <2> HIDE DEF flatten
  <2> DEFINE T == {k \in Nat : k + 1 <= n => flatten[k + 1] = f[k + 1]}
  <2>5. 0 \in T
    BY <2>1, <2>4, <1>1
  <2>6. ASSUME NEW k \in T PROVE k + 1 \in T
    <3>1. CASE k + 2 <= n
      <4> DEFINE j == k + 1
      <4>1. k \in Nat /\ flatten[j] = f[j]
        BY <3>1, <1>1
      <4>2. j \in 0 .. n - 1 /\ j + 1 \in 1 .. n /\ j + 1 # 1 /\ (j + 1) - 1 = j
        BY <3>1, <4>1, <1>1
      <4>3. flatten[j + 1] = flatten[j] \o seqs[j + 1]
        <5>1. flatten[j + 1] = IF j + 1 = 1 THEN seqs[j + 1]
                               ELSE flatten[(j + 1) - 1] \o seqs[j + 1]
          BY <2>4, <4>2, Zenon
        <5> QED BY <5>1, <4>2, Zenon
      <4>4. f[j + 1] = f[j] \o seqs[j + 1]
        BY <4>2, <1>2, Zenon
      <4>5. flatten[j + 1] = f[j + 1]
        BY <4>1, <4>3, <4>4, Zenon
      <4> QED BY <4>1, <4>5
    <3> QED BY <3>1, <1>1
  <2> HIDE DEF T
  <2>7. T \subseteq Nat
    BY DEF T
  <2>8. T = Nat
    BY <2>5, <2>6, <2>7, NatIsInductive
  <2>9. flatten[n] = f[n]
    <3>1. n - 1 \in T
      BY <2>8, <1>1, <1>4
    <3> QED BY <3>1, <1>1 DEF T
  <2>10. FlattenSeq(seqs) = flatten[n]
    BY <1>4 DEF FlattenSeq, flatten
  <2> QED BY <2>9, <2>10
<1> QED BY <1>3, <1>4

LEMMA FlattenType ==
  ASSUME NEW S, NEW seqs \in Lists(S)
  PROVE  FlattenSeq(seqs) \in Seq(S)
<1>1. PICK f : Concatenates(S, seqs, f)
  BY ConcatenationExists
<1>2. f \in [Nat -> Seq(S)] /\ Len(seqs) \in Nat
  BY <1>1, ListProperties DEF Concatenates
<1>3. FlattenSeq(seqs) = f[Len(seqs)]
  BY <1>1, FlattenIsConcatenation
<1> QED BY <1>2, <1>3

LEMMA FlattenEmpty == FlattenSeq(<<>>) = <<>>
BY DEF FlattenSeq

LEMMA FlattenConcat ==
  ASSUME NEW S, NEW a \in Lists(S), NEW b \in Lists(S)
  PROVE  FlattenSeq(a \o b) = FlattenSeq(a) \o FlattenSeq(b)
<1>1. PICK f : Concatenates(S, a, f)
  BY ConcatenationExists
<1>2. PICK g : Concatenates(S, b, g)
  BY ConcatenationExists
<1> DEFINE m == Len(a)
           n == Len(b)
           c == a \o b
           h == [k \in Nat |-> IF k <= m THEN f[k] ELSE f[m] \o g[k - m]]
<1>3. m \in Nat /\ n \in Nat /\ c \in Lists(S) /\ Len(c) = m + n
  BY ListProperties, ListConcat
<1>0. /\ \A i \in 1 .. m : c[i] = a[i]
      /\ \A i \in 1 .. n : c[m + i] = b[i] /\ b[i] \in Seq(S)
  BY ListProperties, ListConcat
<1>4. f \in [Nat -> Seq(S)] /\ f[0] = <<>> /\ g \in [Nat -> Seq(S)] /\ g[0] = <<>>
  BY <1>1, <1>2 DEF Concatenates
<1>5. /\ \A k \in 0 .. m - 1 : f[k + 1] = f[k] \o a[k + 1]
      /\ \A k \in 0 .. n - 1 : g[k + 1] = g[k] \o b[k + 1]
  BY <1>1, <1>2 DEF Concatenates
<1>6. FlattenSeq(a) = f[m] /\ FlattenSeq(b) = g[n]
  BY <1>1, <1>2, FlattenIsConcatenation
<1> HIDE DEF m, n, c
<1>7. h \in [Nat -> Seq(S)]
  <2>1. ASSUME NEW k \in Nat, ~(k <= m) PROVE f[m] \o g[k - m] \in Seq(S)
    <3>0. k - m \in Nat
      BY <1>3, <2>1
    <3>1. f[m] \in Seq(S) /\ g[k - m] \in Seq(S)
      BY <1>3, <1>4, <3>0, Zenon
    <3> QED BY <3>1, ConcatProperties
  <2> QED BY <2>1, <1>4
<1>8. h[0] = <<>>
  BY <1>3, <1>4
<1>9. ASSUME NEW k \in 0 .. m + n - 1 PROVE h[k + 1] = h[k] \o c[k + 1]
  <2>1. CASE k + 1 <= m
    <3>1. k \in 0 .. m - 1 /\ k + 1 \in 1 .. m /\ k <= m /\ k \in Nat
      BY <2>1, <1>3
    <3>2. f[k + 1] = f[k] \o a[k + 1] /\ c[k + 1] = a[k + 1]
      BY <1>0, <1>5, <3>1, Zenon
    <3>3. h[k] = f[k] /\ h[k + 1] = f[k + 1]
      BY <2>1, <3>1
    <3> QED BY <3>2, <3>3, Zenon
  <2>2. CASE k >= m
    <3> DEFINE j == k - m
    <3>1. j \in 0 .. n - 1 /\ j + 1 \in 1 .. n /\ j \in Nat /\ k = m + j /\ k - m = j /\ m + (j + 1) = k + 1
      BY <2>2, <1>3
    <3> HIDE DEF j
    <3>2. g[j + 1] = g[j] \o b[j + 1] /\ c[m + (j + 1)] = b[j + 1] /\ b[j + 1] \in Seq(S)
      BY <1>0, <1>5, <3>1, Zenon
    <3>3. f[m] \in Seq(S) /\ g[j] \in Seq(S)
      BY <1>3, <1>4, <3>1
    <3>4. f[m] \o g[j + 1] = (f[m] \o g[j]) \o b[j + 1]
      <4>1. (f[m] \o g[j]) \o b[j + 1] = f[m] \o (g[j] \o b[j + 1])
        <5> DEFINE x == f[m]
                   y == g[j]
                   z == b[j + 1]
        <5>1. x \in Seq(S) /\ y \in Seq(S) /\ z \in Seq(S)
          BY <3>2, <3>3, Zenon
        <5> HIDE DEF x, y, z
        <5>2. (x \o y) \o z = x \o (y \o z)
          BY <5>1, ConcatAssociative
        <5> QED BY <5>2 DEF x, y, z
      <4> QED BY <4>1, <3>2, Zenon
    <3>5. h[k] = f[m] \o g[j]
      <4>1. CASE j = 0
        <5>1. g[j] = <<>> /\ h[k] = f[m]
          BY <4>1, <3>1, <1>3, <1>4
        <5> QED BY <5>1, <3>3, ConcatEmptySeq, Zenon
      <4>2. CASE j # 0
        <5>1. ~(k <= m) /\ k \in Nat
          BY <4>2, <3>1, <1>3
        <5> QED BY <5>1, <3>1
      <4> QED BY <4>1, <4>2
    <3>6. h[k + 1] = f[m] \o g[j + 1]
      <4>1. ~(k + 1 <= m) /\ k + 1 \in Nat /\ (k + 1) - m = j + 1
        BY <3>1, <1>3
      <4> QED BY <4>1
    <3> QED BY <3>1, <3>2, <3>4, <3>5, <3>6, Zenon
  <2>3. k + 1 <= m \/ k >= m
    BY <1>3
  <2> QED BY <2>1, <2>2, <2>3, Zenon
<1>10. h[m + n] = f[m] \o g[n]
  <2>1. CASE n = 0
    <3>1. f[m] \in Seq(S) /\ g[n] = <<>> /\ h[m + n] = f[m]
      BY <2>1, <1>3, <1>4
    <3> QED BY <3>1, ConcatEmptySeq, Zenon
  <2>2. CASE n # 0
    <3>1. ~(m + n <= m) /\ m + n \in Nat /\ (m + n) - m = n
      BY <2>2, <1>3
    <3> QED BY <3>1
  <2> QED BY <2>1, <2>2
<1> HIDE DEF h
<1>11. Concatenates(S, c, h)
  <2>1. Len(c) = m + n
    BY <1>3
  <2>2. ASSUME NEW k \in 0 .. Len(c) - 1 PROVE h[k + 1] = h[k] \o c[k + 1]
    <3>1. k \in 0 .. m + n - 1
      BY <1>3, <2>1
    <3> QED BY <3>1, <1>9, Zenon
  <2> QED BY <1>7, <1>8, <2>2, Zenon DEF Concatenates
<1>12. FlattenSeq(c) = h[m + n]
  BY <1>3, <1>11, FlattenIsConcatenation
<1> QED BY <1>6, <1>10, <1>12 DEF c

LEMMA FlattenOne ==
  ASSUME NEW S, NEW s \in Seq(S)
  PROVE  FlattenSeq(<<s>>) = s
BY DEF FlattenSeq

LEMMA FlattenAppend ==
  ASSUME NEW S, NEW a \in Lists(S), NEW s \in Seq(S)
  PROVE  FlattenSeq(Append(a, s)) = FlattenSeq(a) \o s
<1>1. Append(a, s) = a \o <<s>>
  BY AppendIsConcat DEF Lists
<1>2. <<s>> \in Lists(S) /\ FlattenSeq(<<s>>) = s
  BY FlattenOne, ListOfOne, Zenon
<1> QED BY <1>1, <1>2, FlattenConcat, Zenon

-----------------------------------------------------------------------------
(* The bytes of a value                                                    *)

\* Power[n] is Base ^ n.
LEMMA PowerProperties ==
  /\ Power[0] = 1
  /\ \A n \in Nat : Power[n] \in Nat \ {0} /\ Power[n + 1] = Base * Power[n]
<1>1. Base \in Nat \ {0}
  BY EncodingAssumption
<1> DEFINE G == [n \in Nat |-> [x \in Nat |-> Base * x]]
<1>2. IsStep(Nat, G)
  BY <1>1 DEF IsStep
<1>3. PICK f : Recurses(Nat, 1, G, f)
  BY <1>2, Recursion
<1>4. f = [n \in Nat |-> IF n = 0 THEN 1 ELSE Base * f[n - 1]]
  <2>1. f \in [Nat -> Nat] /\ f[0] = 1 /\ \A n \in Nat : f[n + 1] = G[n][f[n]]
    BY <1>3 DEF Recurses
  <2>2. ASSUME NEW n \in Nat PROVE f[n] = IF n = 0 THEN 1 ELSE Base * f[n - 1]
    <3>1. CASE n # 0
      <4>1. n - 1 \in Nat /\ (n - 1) + 1 = n
        BY <3>1
      <4>2. f[(n - 1) + 1] = G[n - 1][f[n - 1]] /\ f[n - 1] \in Nat
        BY <4>1, <2>1, Zenon
      <4> QED BY <4>1, <4>2, <3>1
    <3> QED BY <3>1, <2>1
  <2> QED BY <2>1, <2>2
<1>5. Power = [n \in Nat |-> IF n = 0 THEN 1 ELSE Base * Power[n - 1]]
  BY <1>4 DEF Power
<1> DEFINE T == {n \in Nat : Power[n] \in Nat \ {0}}
<1>6. Power[0] = 1
  BY <1>5
<1>7. ASSUME NEW n \in Nat PROVE Power[n + 1] = Base * Power[n]
  BY <1>5
<1>8. 0 \in T
  BY <1>6
<1>9. ASSUME NEW n \in T PROVE n + 1 \in T
  <2>1. n \in Nat /\ Power[n] \in Nat \ {0} /\ Power[n + 1] = Base * Power[n]
    BY <1>7
  <2>2. \A x, y \in Nat \ {0} : x * y \in Nat \ {0}
    OBVIOUS
  <2>3. Power[n + 1] \in Nat \ {0}
    BY <2>1, <2>2, <1>1
  <2> QED BY <2>1, <2>3
<1> HIDE DEF T
<1>10. T \subseteq Nat
  BY DEF T
<1>11. T = Nat
  BY <1>8, <1>9, <1>10, NatIsInductive
<1> QED BY <1>6, <1>7, <1>11 DEF T

\* Dividing by p and then by b is dividing by both.
LEMMA DivideTwice ==
  ASSUME NEW v \in Nat, NEW p \in Nat \ {0}, NEW b \in Nat \ {0}
  PROVE  /\ v \div p \in Nat /\ v \div (b * p) \in Nat
         /\ v \div p = (v \div (b * p)) * b + ((v \div p) % b)
<1> DEFINE q == v \div p
           r == v % p
           q2 == q \div b
           r2 == q % b
<1>1. q \in Nat /\ r \in 0 .. p - 1 /\ v = q * p + r
  OBVIOUS
<1>2. q2 \in Nat /\ r2 \in 0 .. b - 1 /\ q = q2 * b + r2
  BY <1>1
<1> HIDE DEF q, r, q2, r2
<1>3. v = q2 * (b * p) + (r2 * p + r)
  BY <1>1, <1>2
<1>4. r2 * p + r \in 0 .. b * p - 1
  <2>1. r2 * p \in Nat /\ r2 * p <= (b - 1) * p /\ (b - 1) * p = b * p - p
    BY <1>2
  <2> QED BY <2>1, <1>1
<1>5. b * p \in Nat \ {0}
  OBVIOUS
<1>6. ASSUME NEW d \in Nat \ {0}, NEW x \in Nat, NEW s \in 0 .. d - 1, v = x * d + s
      PROVE  v \div d = x
  BY <1>6
<1>7. v \div (b * p) = q2
  BY <1>2, <1>3, <1>4, <1>5, <1>6
<1>8. v \div p = q /\ (v \div p) % b = r2
  BY Zenon DEF q, r2
<1>9. q \in Nat /\ q2 \in Nat /\ q = q2 * b + r2
  BY <1>1, <1>2
<1>10. v \div p \in Nat /\ v \div (b * p) \in Nat
  BY <1>7, <1>8, <1>9, Zenon
<1>11. (v \div (b * p)) * b + ((v \div p) % b) = q2 * b + r2
  <2> DEFINE y == v \div (b * p)
             z == (v \div p) % b
  <2>1. y = q2 /\ z = r2
    BY <1>7, <1>8, Zenon
  <2> HIDE DEF y, z
  <2>2. y * b + z = q2 * b + r2
    BY <2>1
  <2> QED BY <2>2, Zenon DEF y, z
<1>12. v \div p = (v \div (b * p)) * b + ((v \div p) % b)
  BY <1>8, <1>9, <1>11, Zenon
<1> QED BY <1>10, <1>12, Zenon

LEMMA DigitsProperties ==
  ASSUME NEW n \in Nat, NEW v \in 0 .. Power[n] - 1
  PROVE  /\ Digits(v, n) \in Seq(Bytes) /\ Len(Digits(v, n)) = n
         /\ \A k \in 1 .. n : Digits(v, n)[k] = (v \div Power[n - k]) % Base
<1>1. Base \in Nat \ {0} /\ v \in Nat
  BY EncodingAssumption, PowerProperties
<1>2. ASSUME NEW k \in 1 .. n PROVE (v \div Power[n - k]) % Base \in Bytes
  <2>1. n - k \in Nat
    OBVIOUS
  <2>2. Power[n - k] \in Nat \ {0}
    BY <2>1, PowerProperties
  <2>3. v \div Power[n - k] \in Nat
    BY <1>1, <2>2
  <2> QED BY <1>1, <2>3 DEF Bytes
<1>3. Digits(v, n) \in [1 .. n -> Bytes]
  BY <1>2 DEF Digits
<1> QED BY <1>3 DEF Digits

LEMMA OnHostTwice ==
  ASSUME NEW S, NEW s \in Seq(S), NEW host
  PROVE  /\ OnHost(host, s) \in Seq(S)
         /\ ConvertByteOrder(host, OnHost(host, s)) = s
         /\ OnHost(host, ConvertByteOrder(host, s)) = s
<1> DEFINE r == Reverse(s)
           n == Len(s)
<1>1. n \in Nat /\ r \in [1 .. n -> S] /\ \A i \in 1 .. n : r[i] = s[n - i + 1]
  BY DEF Reverse
<1>2. r \in Seq(S) /\ Len(r) = n
  BY <1>1
<1>3. \A i \in 1 .. n : Reverse(r)[i] = s[i]
  BY <1>1, <1>2 DEF Reverse
<1>4. Reverse(r) \in Seq(S) /\ Len(Reverse(r)) = n
  BY <1>1, <1>2 DEF Reverse
<1>5. Reverse(r) = s
  BY <1>3, <1>4, SeqEqual
<1> QED BY <1>2, <1>5 DEF OnHost, ConvertByteOrder

\* What FromMemory computes digit by digit.
LEMMA FromMemoryIs ==
  ASSUME NEW host, NEW bytes, NEW digits \in Seq(Bytes), OnHost(host, bytes) = digits,
         NEW value, value \in [0 .. Len(digits) -> Nat], value[0] = 0,
         \A k \in 1 .. Len(digits) : value[k] = value[k - 1] * Base + digits[k]
  PROVE  FromMemory(host, bytes) = value[Len(digits)]
<1> DEFINE n == Len(digits)
           Body(g) == [k \in 0 .. n |-> IF k = 0 THEN 0 ELSE g[k - 1] * Base + digits[k]]
           first == CHOOSE g : g = Body(g)
<1>1. n \in Nat
  OBVIOUS
<1>2. value = Body(value)
  OBVIOUS
<1>3. first = Body(first)
  BY <1>2
<1>4. FromMemory(host, bytes) = first[n]
  BY Zenon DEF FromMemory
<1> HIDE DEF first
<1> DEFINE T == {k \in Nat : k <= n => first[k] = value[k]}
<1>5. 0 \in T
  BY <1>3, <1>1
<1>6. ASSUME NEW k \in T PROVE k + 1 \in T
  <2>1. CASE k + 1 <= n
    <3>1. k \in Nat /\ first[k] = value[k]
      BY <2>1, <1>1
    <3>2. k + 1 \in 1 .. n /\ k + 1 \in 0 .. n /\ k + 1 # 0 /\ (k + 1) - 1 = k
      BY <3>1, <2>1, <1>1
    <3>3. first[k + 1] = IF k + 1 = 0 THEN 0
                         ELSE first[(k + 1) - 1] * Base + digits[k + 1]
      BY <1>3, <3>2, Zenon
    <3>4. first[k + 1] = first[k] * Base + digits[k + 1]
      BY <3>2, <3>3, Zenon
    <3>5. value[k + 1] = value[k] * Base + digits[k + 1]
      BY <3>2
    <3> QED BY <3>1, <3>4, <3>5
  <2> QED BY <2>1, <1>1
<1> HIDE DEF T
<1>7. T \subseteq Nat
  BY DEF T
<1>8. T = Nat
  BY <1>5, <1>6, <1>7, NatIsInductive
<1>9. first[n] = value[n]
  BY <1>1, <1>8 DEF T
<1> QED BY <1>4, <1>9

\* What is read are the bytes that were written, whatever the two hosts.
LEMMA DigitsAreTheValue ==
  ASSUME NEW n \in Nat, NEW v \in 0 .. Power[n] - 1, NEW host, NEW bytes,
         OnHost(host, bytes) = Digits(v, n)
  PROVE  FromMemory(host, bytes) = v
<1> DEFINE d == Digits(v, n)
           value == [k \in 0 .. n |-> v \div Power[n - k]]
<1>1. Base \in Nat \ {0} /\ v \in Nat /\ v < Power[n]
  BY EncodingAssumption, PowerProperties
<1>2. d \in Seq(Bytes) /\ Len(d) = n /\ \A k \in 1 .. n : d[k] = (v \div Power[n - k]) % Base
  BY DigitsProperties
<1> HIDE DEF d
<1>3. \A k \in 0 .. n : n - k \in Nat /\ Power[n - k] \in Nat \ {0}
  BY PowerProperties
<1>4. value \in [0 .. n -> Nat]
  BY <1>1, <1>3
<1>5. value[0] = 0 /\ \A k \in 0 .. n : value[k] = v \div Power[n - k]
  BY <1>1, <1>3
<1>9. value[n] = v
  BY <1>1, PowerProperties
<1> HIDE DEF value
<1>6. ASSUME NEW k \in 1 .. n PROVE value[k] = value[k - 1] * Base + d[k]
  <2> DEFINE p == Power[n - k]
  <2>1. n - k \in Nat /\ n - (k - 1) = (n - k) + 1 /\ k - 1 \in 0 .. n /\ k \in 0 .. n
    OBVIOUS
  <2>2. p \in Nat \ {0} /\ Power[(n - k) + 1] = Base * p
    BY <2>1, PowerProperties
  <2>3. value[k] = v \div p /\ value[k - 1] = v \div (Base * p) /\ d[k] = (v \div p) % Base
    BY <1>2, <1>5, <2>1, <2>2, Zenon
  <2>4. v \div p = (v \div (Base * p)) * Base + ((v \div p) % Base)
    BY <1>1, <2>2, DivideTwice, Zenon
  <2> QED BY <2>3, <2>4, Zenon
<1>8. FromMemory(host, bytes) = value[Len(d)]
  <2>1. OnHost(host, bytes) = d
    BY DEF d
  <2>2. \A k \in 1 .. Len(d) : value[k] = value[k - 1] * Base + d[k]
    BY <1>2, <1>6, Zenon
  <2>3. value \in [0 .. Len(d) -> Nat] /\ value[0] = 0 /\ d \in Seq(Bytes)
    BY <1>2, <1>4, <1>5, Zenon
  <2> QED BY <2>1, <2>2, <2>3, FromMemoryIs, Zenon
<1> QED BY <1>2, <1>8, <1>9, Zenon

\* What read_element returns is the value that send_element was given, for every size
\* of a field and every value: the byte orders of the two hosts cancel out
\* (convert_host_to_network_byte_order, convert_network_to_host_byte_order).
THEOREM ReadIsWritten ==
  ASSUME NEW writer, NEW reader, NEW e,
         SizeOf(e.field) \in Nat, e.value \in Value(e.field)
  PROVE  /\ Written(writer, e) = Digits(e.value, SizeOf(e.field))
         /\ Written(writer, e) \in Seq(Bytes)
         /\ Len(Written(writer, e)) = SizeOf(e.field)
         /\ ValueRead(reader, Written(writer, e)) = e.value
<1> DEFINE n == SizeOf(e.field)
           d == Digits(e.value, n)
<1>1. d \in Seq(Bytes) /\ Len(d) = n
  BY DigitsProperties DEF Value
<1>2. Written(writer, e) = d
  BY <1>1, OnHostTwice DEF Written, InMemory
<1>3. OnHost(reader, ConvertByteOrder(reader, d)) = d
  BY <1>1, OnHostTwice
<1>4. FromMemory(reader, ConvertByteOrder(reader, d)) = e.value
  BY <1>3, DigitsAreTheValue DEF Value
<1> QED BY <1>1, <1>2, <1>4 DEF ValueRead

-----------------------------------------------------------------------------
(* Elements and what is read of them                                       *)

Fields ==
  {"server_message", "client_message", "gui_message", "event", "string", "char",
   "player_id", "players_count", "direction", "size_xy", "game_length",
   "explosion_radius", "bomb_timer", "turn", "players", "positions", "scores",
   "events", "robots", "blocks", "bombs", "explosions", "bomb_id", "score"}

Element == {e \in [field : Fields, value : Nat] : e.value \in Value(e.field)}

LEMMA SizeOfType ==
  ASSUME NEW field \in Fields
  PROVE  SizeOf(field) \in {1, 2, 4}
BY DEF Fields, SizeOf

LEMMA ElementType ==
  ASSUME NEW e \in Element
  PROVE  /\ e.field \in Fields /\ e.value \in Value(e.field) /\ e.value \in Nat
         /\ e = [field |-> e.field, value |-> e.value]
BY DEF Element

\* A reader that is to read a next reads e and has then b to read.
Follows(a, e, b) ==
  /\ a \in Seq(Fields) /\ b \in Seq(Fields) /\ Then(e.field, e.value) \in Seq(Fields)
  /\ a # <<>> /\ Head(a) = e.field /\ ~Unknown(e.field, e.value)
  /\ b = Then(e.field, e.value) \o Tail(a)

\* stack[k] is what is left to be read after k elements.
IsStack(layout, elements, stack) ==
  /\ stack \in [0 .. Len(elements) -> Seq(Fields)]
  /\ stack[0] = layout /\ stack[Len(elements)] = <<>>
  /\ \A k \in 0 .. Len(elements) - 1 : Follows(stack[k], elements[k + 1], stack[k + 1])

\* A reader that is to read layout reads just these elements.
Reads(layout, elements) ==
  /\ layout \in Seq(Fields) /\ elements \in Seq(Element)
  /\ \E stack : IsStack(layout, elements, stack)

LEMMA ReadsNothing == Reads(<<>>, <<>>)
<1> DEFINE stack == [k \in 0 .. 0 |-> <<>>]
<1>1. stack \in [0 .. 0 -> Seq(Fields)] /\ stack[0] = <<>> /\ Len(<<>>) = 0
  OBVIOUS
<1> HIDE DEF stack
<1>2. IsStack(<<>>, <<>>, stack)
  BY <1>1 DEF IsStack
<1> QED BY <1>2 DEF Reads

LEMMA FollowsBefore ==
  ASSUME NEW a, NEW b, NEW e, Follows(a, e, b), NEW more \in Seq(Fields)
  PROVE  Follows(a \o more, e, b \o more)
<1> DEFINE then == Then(e.field, e.value)
<1>1. /\ a \in Seq(Fields) /\ b \in Seq(Fields) /\ then \in Seq(Fields)
      /\ a # <<>> /\ Head(a) = e.field /\ ~Unknown(e.field, e.value)
      /\ b = then \o Tail(a)
  BY DEF Follows
<1> HIDE DEF then
<1>2. Len(a) > 0 /\ Tail(a) \in Seq(Fields)
  BY <1>1
<1>3. a \o more \in Seq(Fields) /\ b \o more \in Seq(Fields)
  BY <1>1
<1>4. a \o more # <<>> /\ Head(a \o more) = Head(a) /\ Tail(a \o more) = Tail(a) \o more
  BY <1>1, <1>2
<1>5. b \o more = then \o (Tail(a) \o more)
  <2> DEFINE t == Tail(a)
  <2>1. t \in Seq(Fields) /\ then \in Seq(Fields) /\ b = then \o t
    BY <1>1, <1>2
  <2> HIDE DEF t
  <2>2. (then \o t) \o more = then \o (t \o more)
    BY <2>1, ConcatAssociative
  <2> QED BY <2>1, <2>2, Zenon DEF t
<1> QED BY <1>1, <1>3, <1>4, <1>5 DEF Follows, then

LEMMA ReadsConcat ==
  ASSUME NEW a, NEW b, NEW x, NEW y, Reads(a, x), Reads(b, y)
  PROVE  Reads(a \o b, x \o y)
<1> DEFINE m == Len(x)
           n == Len(y)
<1>1. PICK s : IsStack(a, x, s)
  BY DEF Reads
<1>2. PICK t : IsStack(b, y, t)
  BY DEF Reads
<1>3. /\ a \in Seq(Fields) /\ b \in Seq(Fields) /\ x \in Seq(Element) /\ y \in Seq(Element)
      /\ m \in Nat /\ n \in Nat
  BY DEF Reads
<1>4. /\ a \o b \in Seq(Fields) /\ x \o y \in Seq(Element) /\ Len(x \o y) = m + n
      /\ \A i \in 1 .. m : (x \o y)[i] = x[i]
      /\ \A i \in 1 .. n : (x \o y)[m + i] = y[i]
  BY <1>3, ConcatProperties
<1> DEFINE z == x \o y
           stack == [k \in 0 .. m + n |-> IF k <= m THEN s[k] \o b ELSE t[k - m]]
<1>5. s \in [0 .. m -> Seq(Fields)] /\ s[0] = a /\ s[m] = <<>>
  BY <1>1 DEF IsStack
<1>6. t \in [0 .. n -> Seq(Fields)] /\ t[0] = b /\ t[n] = <<>>
  BY <1>2 DEF IsStack
<1>7. /\ \A k \in 0 .. m - 1 : Follows(s[k], x[k + 1], s[k + 1])
      /\ \A k \in 0 .. n - 1 : Follows(t[k], y[k + 1], t[k + 1])
  BY <1>1, <1>2 DEF IsStack
<1> HIDE DEF m, n, z
<1>8. stack \in [0 .. m + n -> Seq(Fields)]
  <2>1. ASSUME NEW k \in 0 .. m + n
        PROVE  (IF k <= m THEN s[k] \o b ELSE t[k - m]) \in Seq(Fields)
    <3>1. CASE k <= m
      <4>1. s[k] \in Seq(Fields)
        BY <1>3, <1>5, <3>1
      <4> QED BY <1>3, <3>1, <4>1, ConcatProperties
    <3>2. CASE ~(k <= m)
      <4>1. k - m \in 0 .. n
        BY <1>3, <3>2
      <4>2. t[k - m] \in Seq(Fields)
        BY <1>6, <4>1, Zenon
      <4> QED BY <3>2, <4>2
    <3> QED BY <3>1, <3>2
  <2> QED BY <2>1
<1>9. \A k \in 0 .. m : stack[k] = s[k] \o b
  BY <1>3
<1>10. \A k \in 0 .. n : stack[m + k] = t[k]
  <2>1. ASSUME NEW k \in 0 .. n PROVE stack[m + k] = t[k]
    <3>1. CASE k = 0
      <4>1. stack[m] = s[m] \o b /\ m + k = m
        BY <1>3, <1>9, <3>1
      <4>2. <<>> \o b = b
        BY <1>3, ConcatEmptySeq
      <4> QED BY <4>1, <4>2, <3>1, <1>5, <1>6, Zenon
    <3>2. CASE k # 0
      <4>1. ~(m + k <= m) /\ m + k \in 0 .. m + n /\ (m + k) - m = k
        BY <1>3, <3>2
      <4> QED BY <4>1
    <3> QED BY <3>1, <3>2
  <2> QED BY <2>1
<1> HIDE DEF stack
<1>11. stack[0] = a \o b /\ stack[m + n] = <<>>
  <2>1. 0 \in 0 .. m /\ n \in 0 .. n
    BY <1>3
  <2> QED BY <2>1, <1>5, <1>6, <1>9, <1>10, Zenon
<1>12. ASSUME NEW k \in 0 .. m + n - 1 PROVE Follows(stack[k], z[k + 1], stack[k + 1])
  <2>1. CASE k < m
    <3>1. k \in 0 .. m - 1 /\ k \in 0 .. m /\ k + 1 \in 0 .. m /\ k + 1 \in 1 .. m
      BY <2>1, <1>3
    <3>2. Follows(s[k], x[k + 1], s[k + 1])
      BY <3>1, <1>7, Zenon
    <3>3. Follows(s[k] \o b, x[k + 1], s[k + 1] \o b)
      BY <3>2, <1>3, FollowsBefore, Zenon
    <3>4. z[k + 1] = x[k + 1] /\ stack[k] = s[k] \o b /\ stack[k + 1] = s[k + 1] \o b
      BY <3>1, <1>4, <1>9, Zenon DEF z
    <3> QED BY <3>3, <3>4, Zenon
  <2>2. CASE ~(k < m)
    <3> DEFINE j == k - m
    <3>1. /\ j \in 0 .. n - 1 /\ j \in 0 .. n /\ j + 1 \in 0 .. n /\ j + 1 \in 1 .. n
          /\ k = m + j /\ k + 1 = m + (j + 1)
      BY <2>2, <1>3
    <3> HIDE DEF j
    <3>2. Follows(t[j], y[j + 1], t[j + 1])
      BY <3>1, <1>7, Zenon
    <3>3. z[m + (j + 1)] = y[j + 1] /\ stack[m + j] = t[j] /\ stack[m + (j + 1)] = t[j + 1]
      BY <3>1, <1>4, <1>10, Zenon DEF z
    <3> QED BY <3>1, <3>2, <3>3, Zenon
  <2> QED BY <2>1, <2>2
<1>13. IsStack(a \o b, z, stack)
  <2>1. Len(z) = m + n
    BY <1>4 DEF z
  <2>2. ASSUME NEW k \in 0 .. Len(z) - 1 PROVE Follows(stack[k], z[k + 1], stack[k + 1])
    <3>1. k \in 0 .. m + n - 1
      BY <2>1, <1>3
    <3> QED BY <3>1, <1>12, Zenon
  <2> QED BY <2>1, <2>2, <1>8, <1>11, Zenon DEF IsStack
<1>14. Reads(a \o b, z)
  <2>1. z \in Seq(Element)
    BY <1>4 DEF z
  <2> QED BY <2>1, <1>4, <1>13, Zenon DEF Reads
<1> QED BY <1>14 DEF z

\* An element is read, and then what it calls for.
LEMMA ReadsMore ==
  ASSUME NEW e \in Element, ~Unknown(e.field, e.value), NEW x,
         Reads(Then(e.field, e.value), x)
  PROVE  Reads(<<e.field>>, <<e>> \o x)
<1> DEFINE then == Then(e.field, e.value)
           m == Len(x)
           z == <<e>> \o x
<1>1. PICK s : IsStack(then, x, s)
  BY DEF Reads
<1>2. /\ then \in Seq(Fields) /\ x \in Seq(Element) /\ m \in Nat
  BY DEF Reads
<1>3. z \in Seq(Element) /\ Len(z) = m + 1 /\ z[1] = e /\ \A i \in 1 .. m : z[i + 1] = x[i]
  BY <1>2
<1>4. s \in [0 .. m -> Seq(Fields)] /\ s[0] = then /\ s[m] = <<>>
  BY <1>1 DEF IsStack
<1>5. \A k \in 0 .. m - 1 : Follows(s[k], x[k + 1], s[k + 1])
  BY <1>1 DEF IsStack
<1>6. e.field \in Fields /\ <<e.field>> \in Seq(Fields)
  BY ElementType
<1> DEFINE stack == [k \in 0 .. m + 1 |-> IF k = 0 THEN <<e.field>> ELSE s[k - 1]]
<1> HIDE DEF m, z, then
<1>7. stack \in [0 .. m + 1 -> Seq(Fields)]
  <2>1. ASSUME NEW k \in 0 .. m + 1, k # 0 PROVE s[k - 1] \in Seq(Fields)
    BY <1>2, <1>4, <2>1
  <2> QED BY <1>6, <2>1
<1>8. stack[0] = <<e.field>> /\ \A k \in 0 .. m : stack[k + 1] = s[k]
  BY <1>2
<1> HIDE DEF stack
<1>9. stack[m + 1] = <<>>
  BY <1>2, <1>4, <1>8
<1>10. ASSUME NEW k \in 0 .. m PROVE Follows(stack[k], z[k + 1], stack[k + 1])
  <2>1. CASE k = 0
    <3>1. stack[k] = <<e.field>> /\ z[k + 1] = e /\ stack[k + 1] = then
      BY <1>2, <1>3, <1>4, <1>8, <2>1
    <3>2. /\ <<e.field>> # <<>> /\ Head(<<e.field>>) = e.field /\ Tail(<<e.field>>) = <<>>
      BY <1>6
    <3>3. then = then \o <<>>
      BY <1>2, ConcatEmptySeq
    <3>4. Follows(<<e.field>>, e, then)
      BY <1>2, <1>6, <3>2, <3>3, Zenon DEF Follows, then
    <3> QED BY <3>1, <3>4, Zenon
  <2>2. CASE k # 0
    <3> DEFINE j == k - 1
    <3>1. j \in 0 .. m - 1 /\ j \in 0 .. m /\ k = j + 1 /\ j + 1 \in 0 .. m /\ j + 1 \in 1 .. m
      BY <2>2, <1>2
    <3> HIDE DEF j
    <3>2. Follows(s[j], x[j + 1], s[j + 1])
      BY <3>1, <1>5, Zenon
    <3>3. stack[j + 1] = s[j] /\ stack[(j + 1) + 1] = s[j + 1] /\ z[(j + 1) + 1] = x[j + 1]
      BY <3>1, <1>3, <1>8, Zenon
    <3> QED BY <3>1, <3>2, <3>3, Zenon
  <2> QED BY <2>1, <2>2
<1>11. IsStack(<<e.field>>, z, stack)
  <2>1. Len(z) = m + 1
    BY <1>3
  <2>2. ASSUME NEW k \in 0 .. Len(z) - 1 PROVE Follows(stack[k], z[k + 1], stack[k + 1])
    BY <2>1, <1>2, <1>10
  <2> QED BY <2>1, <2>2, <1>7, <1>8, <1>9, Zenon DEF IsStack
<1>12. Reads(<<e.field>>, z)
  BY <1>3, <1>6, <1>11, Zenon DEF Reads
<1> QED BY <1>12 DEF z

\* What a reader knows when it awaits the first element.
LEMMA ReadsStep ==
  ASSUME NEW layout, NEW x, Reads(layout, x), layout # <<>>
  PROVE  /\ x \in Seq(Element) /\ x # <<>> /\ Head(layout) = Head(x).field
         /\ ~Unknown(Head(x).field, Head(x).value)
         /\ Reads(Then(Head(x).field, Head(x).value) \o Tail(layout), Tail(x))
<1> DEFINE n == Len(x)
           y == Tail(x)
<1>1. PICK s : IsStack(layout, x, s)
  BY DEF Reads
<1>2. x \in Seq(Element) /\ n \in Nat /\ layout \in Seq(Fields)
  BY DEF Reads
<1>3. s \in [0 .. n -> Seq(Fields)] /\ s[0] = layout /\ s[n] = <<>>
  BY <1>1 DEF IsStack
<1>4. \A k \in 0 .. n - 1 : Follows(s[k], x[k + 1], s[k + 1])
  BY <1>1 DEF IsStack
<1>5. n # 0
  BY <1>3
<1>6. x # <<>> /\ Head(x) = x[1] /\ y \in Seq(Element) /\ Len(y) = n - 1
      /\ \A i \in 1 .. n - 1 : y[i] = x[i + 1]
  BY <1>2, <1>5
<1>7. Follows(layout, x[1], s[1])
  <2>1. 0 \in 0 .. n - 1 /\ 0 + 1 = 1
    BY <1>2, <1>5
  <2> QED BY <2>1, <1>3, <1>4, Zenon
<1> DEFINE stack == [k \in 0 .. n - 1 |-> s[k + 1]]
<1> HIDE DEF n, y
<1>8. stack \in [0 .. n - 1 -> Seq(Fields)]
  BY <1>2, <1>3
<1>9. /\ stack[0] = s[1] /\ stack[n - 1] = <<>>
      /\ \A k \in 0 .. n - 1 : stack[k] = s[k + 1]
  BY <1>2, <1>3, <1>5
<1> HIDE DEF stack
<1>10. ASSUME NEW k \in 0 .. n - 2 PROVE Follows(stack[k], y[k + 1], stack[k + 1])
  <2>1. k \in 0 .. n - 1 /\ k + 1 \in 0 .. n - 1 /\ k + 1 \in 1 .. n - 1
    BY <1>2
  <2>2. Follows(s[k + 1], x[(k + 1) + 1], s[(k + 1) + 1])
    BY <2>1, <1>4, Zenon
  <2>3. stack[k] = s[k + 1] /\ stack[k + 1] = s[(k + 1) + 1] /\ y[k + 1] = x[(k + 1) + 1]
    BY <2>1, <1>6, <1>9, Zenon
  <2> QED BY <2>2, <2>3, Zenon
<1>11. IsStack(s[1], y, stack)
  <2>1. Len(y) = n - 1
    BY <1>6
  <2>2. ASSUME NEW k \in 0 .. Len(y) - 1 PROVE Follows(stack[k], y[k + 1], stack[k + 1])
    <3>1. k \in 0 .. n - 2
      BY <2>1, <1>2
    <3> QED BY <3>1, <1>10
  <2> QED BY <2>1, <2>2, <1>8, <1>9, Zenon DEF IsStack
<1>12. /\ Head(layout) = x[1].field /\ ~Unknown(x[1].field, x[1].value)
       /\ s[1] = Then(x[1].field, x[1].value) \o Tail(layout) /\ s[1] \in Seq(Fields)
  BY <1>7 DEF Follows
<1>13. Reads(s[1], y)
  BY <1>6, <1>11, <1>12, Zenon DEF Reads
<1>14. Reads(Then(x[1].field, x[1].value) \o Tail(layout), y)
  BY <1>12, <1>13, Zenon
<1> QED BY <1>2, <1>6, <1>12, <1>14, Zenon DEF y

\* The first n of a sequence.
Take(s, n) == [k \in 1 .. n |-> s[k]]

LEMMA TakeProperties ==
  ASSUME NEW S, NEW n \in Nat, NEW c \in Seq(S), Len(c) = n + 1
  PROVE  /\ Take(c, n) \in Seq(S) /\ Len(Take(c, n)) = n /\ c[n + 1] \in S
         /\ c = Append(Take(c, n), c[n + 1])
         /\ \A k \in 1 .. n : Take(c, n)[k] = c[k]
<1> DEFINE d == Take(c, n)
<1>1. d \in Seq(S) /\ Len(d) = n /\ \A k \in 1 .. n : d[k] = c[k]
  BY DEF Take
<1> HIDE DEF d
<1>2. c[n + 1] \in S
  OBVIOUS
<1>3. Append(d, c[n + 1]) \in Seq(S) /\ Len(Append(d, c[n + 1])) = n + 1
  BY <1>1, <1>2
<1>4. ASSUME NEW k \in 1 .. n + 1 PROVE Append(d, c[n + 1])[k] = c[k]
  BY <1>1, <1>2
<1>5. c = Append(d, c[n + 1])
  BY <1>3, <1>4, SeqEqual
<1> QED BY <1>1, <1>2, <1>5 DEF d

LEMMA FlattenSingletons ==
  ASSUME NEW S, NEW x \in Seq(S)
  PROVE  FlattenSeq([k \in 1 .. Len(x) |-> <<x[k]>>]) = x
<1> DEFINE Ones(y) == [k \in 1 .. Len(y) |-> <<y[k]>>]
           T == {n \in Nat : \A y \in Seq(S) : Len(y) = n => FlattenSeq(Ones(y)) = y}
<1>0. ASSUME NEW y \in Seq(S) PROVE Ones(y) \in Lists(S) /\ Len(Ones(y)) = Len(y)
  <2>1. \A k \in 1 .. Len(y) : <<y[k]>> \in Seq(S)
    OBVIOUS
  <2>2. Ones(y) \in [1 .. Len(y) -> Seq(S)] /\ Len(y) \in Nat
    BY <2>1
  <2> HIDE DEF Ones
  <2> QED BY <2>2 DEF Lists
<1>1. 0 \in T
  <2>1. ASSUME NEW y \in Seq(S), Len(y) = 0 PROVE FlattenSeq(Ones(y)) = y
    <3>1. y = <<>> /\ Ones(y) = <<>>
      BY <2>1
    <3> QED BY <3>1, FlattenEmpty, Zenon
  <2> QED BY <2>1
<1>2. ASSUME NEW n \in T PROVE n + 1 \in T
  <2>1. ASSUME NEW y \in Seq(S), Len(y) = n + 1 PROVE FlattenSeq(Ones(y)) = y
    <3>0. n \in Nat
      OBVIOUS
    <3> DEFINE a == y[n + 1]
               d == Take(y, n)
    <3>1. d \in Seq(S) /\ Len(d) = n /\ y = Append(d, a) /\ \A k \in 1 .. n : d[k] = y[k]
      BY <2>1, <3>0, TakeProperties
    <3>2. a \in S
      BY <2>1, <3>0
    <3> HIDE DEF d
    <3>3. FlattenSeq(Ones(d)) = d
      BY <3>1
    <3>4. Ones(y) = Append(Ones(d), <<a>>)
      <4>1. Ones(d) \in Seq(Seq(S)) /\ <<a>> \in Seq(S) /\ Len(Ones(d)) = n
            /\ \A k \in 1 .. n : Ones(d)[k] = <<y[k]>>
        BY <1>0, <3>1, <3>2 DEF Lists
      <4>2. Ones(y) \in Seq(Seq(S)) /\ Len(Ones(y)) = n + 1
            /\ \A k \in 1 .. n + 1 : Ones(y)[k] = <<y[k]>>
        BY <1>0, <2>1, <3>0 DEF Lists
      <4> HIDE DEF Ones
      <4>3. \A k \in 1 .. n + 1 : Append(Ones(d), <<a>>)[k] = <<y[k]>>
        BY <4>1, <3>0
      <4>4. Append(Ones(d), <<a>>) \in Seq(Seq(S)) /\ Len(Append(Ones(d), <<a>>)) = n + 1
        BY <4>1
      <4> QED BY <4>2, <4>3, <4>4, SeqEqual
    <3>5. Ones(d) \in Lists(S)
      BY <1>0, <3>1, Zenon
    <3>8. <<a>> \in Seq(S)
      BY <3>2
    <3> HIDE DEF Ones, a
    <3>6. FlattenSeq(Ones(y)) = d \o <<a>>
      BY <3>3, <3>4, <3>5, <3>8, FlattenAppend, Zenon
    <3>7. d \o <<a>> = Append(d, a)
      BY <3>2, AppendIsConcat
    <3> QED BY <3>1, <3>6, <3>7, Zenon DEF a
  <2> QED BY <2>1
<1> HIDE DEF T
<1>3. T \subseteq Nat
  BY DEF T
<1>4. T = Nat
  BY <1>1, <1>2, <1>3, NatIsInductive
<1>5. Len(x) \in T
  BY <1>4
<1> QED BY <1>5 DEF T

\* layout, n times.
Times(layout, n) == FlattenSeq([k \in 1 .. n |-> layout])

LEMMA ReadsRepeated ==
  ASSUME NEW layout \in Seq(Fields), NEW items \in Lists(Element),
         \A k \in 1 .. Len(items) : Reads(layout, items[k])
  PROVE  Reads(Times(layout, Len(items)), FlattenSeq(items))
<1> DEFINE T == {n \in Nat : \A c \in Lists(Element) :
                   (Len(c) = n /\ \A k \in 1 .. n : Reads(layout, c[k]))
                     => Reads(Times(layout, n), FlattenSeq(c))}
           Copies(n) == [k \in 1 .. n |-> layout]
<1>1. 0 \in T
  <2>1. ASSUME NEW c \in Lists(Element), Len(c) = 0
        PROVE  Reads(Times(layout, 0), FlattenSeq(c))
    <3>1. c = <<>>
      BY <2>1, EmptySeq DEF Lists
    <3>2. [k \in 1 .. 0 |-> layout] = <<>>
      OBVIOUS
    <3> QED BY <3>1, <3>2, FlattenEmpty, ReadsNothing, Zenon DEF Times
  <2> QED BY <2>1
<1>0. ASSUME NEW n \in Nat PROVE Copies(n) \in Lists(Fields) /\ Len(Copies(n)) = n
  BY DEF Lists
<1>2. ASSUME NEW n \in T PROVE n + 1 \in T
  <2>1. ASSUME NEW c \in Lists(Element), Len(c) = n + 1,
               \A k \in 1 .. n + 1 : Reads(layout, c[k])
        PROVE  Reads(Times(layout, n + 1), FlattenSeq(c))
    <3>0. n \in Nat
      OBVIOUS
    <3> DEFINE d == Take(c, n)
    <3>1. /\ d \in Lists(Element) /\ Len(d) = n /\ c = Append(d, c[n + 1])
          /\ \A k \in 1 .. n : d[k] = c[k]
      <4>1. c \in Seq(Seq(Element))
        BY DEF Lists
      <4>2. /\ d \in Seq(Seq(Element)) /\ Len(d) = n /\ c = Append(d, c[n + 1])
            /\ \A k \in 1 .. n : d[k] = c[k]
        BY <4>1, <2>1, <3>0, TakeProperties
      <4> QED BY <4>2 DEF Lists
    <3> HIDE DEF d
    <3>2. c[n + 1] \in Seq(Element)
      BY <2>1, <3>0, ListProperties
    <3>3. \A k \in 1 .. n : Reads(layout, d[k])
      BY <2>1, <3>0, <3>1
    <3>4. Reads(Times(layout, n), FlattenSeq(d))
      BY <3>1, <3>3
    <3>5. FlattenSeq(c) = FlattenSeq(d) \o c[n + 1]
      BY <3>1, <3>2, FlattenAppend, Zenon
    <3>6. Times(layout, n + 1) = Times(layout, n) \o layout
      <4>1. Copies(n + 1) = Append(Copies(n), layout)
        <5>1. Copies(n) \in Seq(Seq(Fields)) /\ Len(Copies(n)) = n
              /\ \A k \in 1 .. n : Copies(n)[k] = layout
          BY <1>0, <3>0 DEF Lists
        <5>2. Copies(n + 1) \in Seq(Seq(Fields)) /\ Len(Copies(n + 1)) = n + 1
              /\ \A k \in 1 .. n + 1 : Copies(n + 1)[k] = layout
          BY <1>0, <3>0 DEF Lists
        <5> HIDE DEF Copies
        <5>3. \A k \in 1 .. n + 1 : Append(Copies(n), layout)[k] = layout
          BY <5>1, <3>0
        <5>4. Append(Copies(n), layout) \in Seq(Seq(Fields))
              /\ Len(Append(Copies(n), layout)) = n + 1
          BY <5>1
        <5> QED BY <5>2, <5>3, <5>4, SeqEqual
      <4>2. Copies(n) \in Lists(Fields)
        BY <1>0, <3>0
      <4> HIDE DEF Copies
      <4>3. FlattenSeq(Copies(n + 1)) = FlattenSeq(Copies(n)) \o layout
        BY <4>1, <4>2, FlattenAppend, Zenon
      <4> QED BY <4>3 DEF Times, Copies
    <3>7. Reads(layout, c[n + 1])
      BY <2>1, <3>0
    <3>8. Reads(Times(layout, n) \o layout, FlattenSeq(d) \o c[n + 1])
      BY <3>4, <3>7, ReadsConcat, Zenon
    <3> QED BY <3>5, <3>6, <3>8, Zenon
  <2> QED BY <2>1
<1> HIDE DEF T
<1>3. T \subseteq Nat
  BY DEF T
<1>4. T = Nat
  BY <1>1, <1>2, <1>3, NatIsInductive
<1>5. Len(items) \in T
  BY <1>4, ListProperties
<1> QED BY <1>5 DEF T

-----------------------------------------------------------------------------
(* Fields                                                                  *)

LEMMA ValueIsNat ==
  ASSUME NEW field \in Fields
  PROVE  Value(field) \subseteq Nat /\ 0 \in Value(field)
<1>1. SizeOf(field) \in Nat
  BY SizeOfType
<1>2. Power[SizeOf(field)] \in Nat \ {0}
  BY <1>1, PowerProperties
<1> QED BY <1>2 DEF Value

LEMMA ElementIs ==
  ASSUME NEW field \in Fields, NEW v \in Value(field)
  PROVE  /\ [field |-> field, value |-> v] \in Element
         /\ E(field, v) \in Seq(Element)
BY ValueIsNat DEF Element, E

\* Fields that are not followed by what they announce.
Leaves == Fields \ {"server_message", "client_message", "event", "string", "players",
                    "scores", "events", "robots", "blocks"}

LEMMA ReadsLeaf ==
  ASSUME NEW field \in Leaves, NEW v \in Value(field)
  PROVE  Reads(<<field>>, E(field, v))
<1> DEFINE e == [field |-> field, value |-> v]
<1>1. e \in Element /\ e.field = field /\ e.value = v
  BY ElementIs DEF Leaves
<1>2. field \notin DOMAIN Cases /\ field \notin DOMAIN EntryLayout
  BY DEF Leaves, Cases, EntryLayout
<1>3. ~Unknown(field, v) /\ Then(field, v) = <<>>
  BY <1>2 DEF Unknown, Then
<1> HIDE DEF e
<1>4. Reads(<<e.field>>, <<e>> \o <<>>)
  BY <1>1, <1>3, ReadsNothing, ReadsMore, Zenon
<1>5. <<e>> \o <<>> = <<e>>
  BY <1>1
<1> QED BY <1>1, <1>4, <1>5, Zenon DEF E, e

Counts == {"string", "players", "scores", "events", "robots", "blocks"}

\* A vector is read entry by entry.
LEMMA ReadsVector ==
  ASSUME NEW field \in Counts, NEW items \in Lists(Element), Len(items) \in Value(field),
         \A k \in 1 .. Len(items) : Reads(EntryLayout[field], items[k])
  PROVE  Reads(<<field>>, Vector(field, items))
<1> DEFINE n == Len(items)
           e == [field |-> field, value |-> n]
<1>1. e \in Element /\ e.field = field /\ e.value = n
  BY ElementIs DEF Counts, Fields
<1>2. field \notin DOMAIN Cases /\ field \in DOMAIN EntryLayout
  BY DEF Counts, Cases, EntryLayout
<1>3. EntryLayout[field] \in Seq(Fields)
  <2>1. <<"player_id">> \o PlayerLayout \in Seq(Fields)
    BY DEF PlayerLayout, Fields
  <2>2. /\ <<"char">> \in Seq(Fields) /\ <<"player_id", "score">> \in Seq(Fields)
        /\ <<"event">> \in Seq(Fields) /\ <<"player_id">> \in Seq(Fields)
        /\ PositionLayout \in Seq(Fields)
    BY DEF PositionLayout, Fields
  <2>3. /\ EntryLayout["string"] = <<"char">>
        /\ EntryLayout["players"] = <<"player_id">> \o PlayerLayout
        /\ EntryLayout["scores"] = <<"player_id", "score">>
        /\ EntryLayout["events"] = <<"event">>
        /\ EntryLayout["robots"] = <<"player_id">>
        /\ EntryLayout["blocks"] = PositionLayout
    BY DEF EntryLayout
  <2> QED BY <2>1, <2>2, <2>3 DEF Counts
<1>4. ~Unknown(field, n) /\ Then(field, n) = Times(EntryLayout[field], n)
  BY <1>2, Zenon DEF Unknown, Then, Times
<1>5. Reads(Times(EntryLayout[field], n), FlattenSeq(items))
  BY <1>3, ReadsRepeated
<1> HIDE DEF e, n
<1>6. Reads(<<e.field>>, <<e>> \o FlattenSeq(items))
  BY <1>1, <1>4, <1>5, ReadsMore, Zenon
<1> QED BY <1>1, <1>6, Zenon DEF Vector, E, e, n

LEMMA ReadsKind ==
  ASSUME NEW field \in {"server_message", "client_message", "event"},
         NEW kind \in DOMAIN Cases[field], NEW x, Reads(Layout[kind], x)
  PROVE  Reads(<<field>>, E(field, Cases[field][kind]) \o x)
<1> DEFINE v == Cases[field][kind]
           e == [field |-> field, value |-> v]
<1>1. v \in 0 .. 4
  BY DEF Cases, ServerCodes, ClientCodes, EventCodes
<1>2. 0 .. 4 \subseteq Value(field)
  <2>1. SizeOf(field) = 1
    BY DEF SizeOf
  <2>2. Power[1] = Base
    <3>1. 0 \in Nat /\ 0 + 1 = 1
      OBVIOUS
    <3> QED BY <3>1, PowerProperties, EncodingAssumption
  <2> QED BY <2>1, <2>2, EncodingAssumption DEF Value
<1>3. e \in Element /\ e.field = field /\ e.value = v
  BY <1>1, <1>2, ElementIs DEF Fields
<1>4. \A other \in DOMAIN Cases[field] : Cases[field][other] = v => other = kind
  BY DEF Cases, ServerCodes, ClientCodes, EventCodes
<1>5. ~Unknown(field, v)
  BY DEF Unknown
<1>6. Then(field, v) = Layout[kind]
  <2>1. field \in DOMAIN Cases /\ field \notin DOMAIN EntryLayout
    BY DEF Cases, EntryLayout
  <2>2. (CHOOSE other \in DOMAIN Cases[field] : Cases[field][other] = v) = kind
    BY <1>4
  <2> QED BY <2>1, <2>2, Zenon DEF Then
<1> HIDE DEF v, e
<1>7. Reads(<<e.field>>, <<e>> \o x)
  BY <1>3, <1>5, <1>6, ReadsMore, Zenon
<1> QED BY <1>3, <1>7, Zenon DEF E, e, v

-----------------------------------------------------------------------------
(* Types of encodings                                                      *)

LEMMA Concat2 ==
  ASSUME NEW S, NEW a \in Seq(S), NEW b \in Seq(S)
  PROVE  a \o b \in Seq(S)
BY ConcatProperties

\* The values of n bytes are among those of n + k bytes.
LEMMA PowerGrows ==
  /\ Power[1] = Base
  /\ Power[4] > Base
<1>1. Base \in Nat /\ Base > 4 /\ Power[0] = 1
  BY EncodingAssumption, PowerProperties
<1>2. \A n \in Nat : Power[n] \in Nat \ {0} /\ Power[n + 1] = Base * Power[n]
  BY PowerProperties
<1>3. Power[0 + 1] = Base * Power[0] /\ Power[1 + 1] = Base * Power[1]
      /\ Power[2 + 1] = Base * Power[2] /\ Power[3 + 1] = Base * Power[3]
  BY <1>2
<1>4. Power[1] = Base
  BY <1>1, <1>3
<1>5. \A x \in Nat : x > 1 => Base * x > Base
  BY <1>1
<1>6. Power[1] \in Nat /\ Power[2] \in Nat /\ Power[3] \in Nat
  BY <1>2
<1>7. Power[2] > Base
  BY <1>1, <1>3, <1>4, <1>5
<1>8. Power[3] > Base
  BY <1>1, <1>3, <1>5, <1>6, <1>7
<1>9. Power[4] > Base
  BY <1>1, <1>3, <1>5, <1>6, <1>8
<1> QED BY <1>4, <1>9

HasOrder(ids, n) ==
  /\ IsFiniteSet(ids) /\ Cardinality(ids) \in 0 .. n
  /\ \E s \in [1 .. Cardinality(ids) -> ids] : \A i, j \in DOMAIN s : i < j => s[i] < s[j]

LEMMA OrderExists ==
  ASSUME NEW n \in Nat, NEW ids, ids \subseteq 0 .. n - 1
  PROVE  HasOrder(ids, n)
<1> DEFINE T == {m \in Nat : \A D \in SUBSET (0 .. m - 1) : HasOrder(D, m)}
<1>1. 0 \in T
  <2>1. ASSUME NEW D \in SUBSET (0 .. 0 - 1) PROVE HasOrder(D, 0)
    <3>1. D = {}
      OBVIOUS
    <3>2. IsFiniteSet({}) /\ Cardinality({}) = 0
      BY FS_EmptySet
    <3> DEFINE s == [i \in 1 .. 0 |-> 0]
    <3>3. s \in [1 .. 0 -> {}] /\ \A i, j \in DOMAIN s : i < j => s[i] < s[j]
      OBVIOUS
    <3> HIDE DEF s
    <3>4. \E r \in [1 .. Cardinality({}) -> {}] : \A i, j \in DOMAIN r : i < j => r[i] < r[j]
      BY <3>2, <3>3, Zenon
    <3>5. Cardinality({}) \in 0 .. 0
      BY <3>2
    <3>6. HasOrder({}, 0)
      BY <3>2, <3>4, <3>5, Zenon DEF HasOrder
    <3> QED BY <3>1, <3>6
  <2> QED BY <2>1
<1>2. ASSUME NEW m \in T PROVE m + 1 \in T
  <2>0. m \in Nat /\ \A D \in SUBSET (0 .. m - 1) : HasOrder(D, m)
    OBVIOUS
  <2>1. ASSUME NEW D \in SUBSET (0 .. m) PROVE HasOrder(D, m + 1)
    <3> DEFINE C == D \ {m}
               n0 == Cardinality(C)
    <3>1. C \in SUBSET (0 .. m - 1)
      BY <2>0
    <3>2. HasOrder(C, m)
      BY <2>0, <3>1, Zenon
    <3>3. IsFiniteSet(C) /\ n0 \in 0 .. m
      BY <3>2 DEF HasOrder
    <3>4. PICK s \in [1 .. n0 -> C] : \A i, j \in DOMAIN s : i < j => s[i] < s[j]
      BY <3>2 DEF HasOrder
    <3>5. CASE m \notin D
      <4>1. C = D
        BY <3>5
      <4> QED BY <4>1, <3>2, <3>3, <2>0 DEF HasOrder
    <3>6. CASE m \in D
      <4>1. D = C \cup {m} /\ m \notin C
        BY <3>6
      <4> HIDE DEF C
      <4>2. IsFiniteSet(D) /\ Cardinality(D) = n0 + 1
        <5>1. IsFiniteSet(C \cup {m}) /\ Cardinality(C \cup {m}) = n0 + 1
          BY <3>3, <4>1, FS_AddElement
        <5> QED BY <4>1, <5>1, Zenon
      <4>3. \A x \in C : x \in Nat /\ x < m
        BY <2>0 DEF C
      <4> DEFINE t == [i \in 1 .. n0 + 1 |-> IF i = n0 + 1 THEN m ELSE s[i]]
      <4> HIDE DEF n0
      <4>4. t \in [1 .. n0 + 1 -> D]
        BY <3>3, <3>4, <4>1
      <4>5. ASSUME NEW i \in 1 .. n0 + 1, NEW j \in 1 .. n0 + 1, i < j PROVE t[i] < t[j]
        <5>1. i \in 1 .. n0 /\ i # n0 + 1
          BY <4>5, <3>3
        <5>2. s[i] \in C /\ t[i] = s[i]
          BY <5>1, <3>4
        <5>3. CASE j = n0 + 1
          BY <5>2, <5>3, <4>3
        <5>4. CASE j # n0 + 1
          <6>1. j \in 1 .. n0 /\ t[j] = s[j]
            BY <5>4, <3>3
          <6> QED BY <6>1, <5>1, <5>2, <4>5, <3>4
        <5> QED BY <5>3, <5>4
      <4>6. DOMAIN t = 1 .. n0 + 1
        OBVIOUS
      <4> HIDE DEF t
      <4>7. \E r \in [1 .. n0 + 1 -> D] : \A i, j \in DOMAIN r : i < j => r[i] < r[j]
        BY <4>4, <4>5, <4>6
      <4>8. Cardinality(D) \in 0 .. m + 1
        BY <4>2, <3>3, <2>0
      <4> QED BY <4>2, <4>7, <4>8, Zenon DEF HasOrder
    <3> QED BY <3>5, <3>6
  <2>2. (m + 1) - 1 = m /\ m + 1 \in Nat
    BY <2>0
  <2> QED BY <2>1, <2>2
<1> HIDE DEF T
<1>3. T \subseteq Nat
  BY DEF T
<1>4. T = Nat
  BY <1>1, <1>2, <1>3, NatIsInductive
<1> QED BY <1>4 DEF T

LEMMA AscendingProperties ==
  ASSUME NEW ids, ids \subseteq Value("player_id")
  PROVE  /\ Ascending(ids) \in Seq(ids)
         /\ DOMAIN Ascending(ids) = 1 .. Len(Ascending(ids))
         /\ Len(Ascending(ids)) \in 0 .. Base
<1>1. Base \in Nat /\ Value("player_id") = 0 .. Base - 1
  BY EncodingAssumption, PowerGrows DEF Value, SizeOf
<1>2. HasOrder(ids, Base)
  BY <1>1, OrderExists
<1> DEFINE n == Cardinality(ids)
<1>3. n \in 0 .. Base /\ Ascending(ids) \in [1 .. n -> ids]
  BY <1>2 DEF HasOrder, Ascending
<1> HIDE DEF n
<1> QED BY <1>1, <1>3

Large == {"players", "positions", "scores", "events", "robots", "blocks", "bombs",
          "explosions"}

LEMMA MapItems ==
  ASSUME NEW field \in Large, NEW items, DOMAIN items \subseteq Value("player_id"),
         \A id \in DOMAIN items : items[id] \in Seq(Element)
  PROVE  LET ids == Ascending(DOMAIN items)
             entries == [k \in DOMAIN ids |-> E("player_id", ids[k]) \o items[ids[k]]]
         IN  /\ entries \in Lists(Element) /\ Len(entries) = Len(ids)
             /\ Len(entries) \in Value(field)
             /\ \A k \in 1 .. Len(ids) : ids[k] \in DOMAIN items
             /\ Map(field, items) = Vector(field, entries)
<1> DEFINE ids == Ascending(DOMAIN items)
           entries == [k \in DOMAIN ids |-> E("player_id", ids[k]) \o items[ids[k]]]
           n == Len(ids)
<1>1. ids \in Seq(DOMAIN items) /\ DOMAIN ids = 1 .. n /\ n \in 0 .. Base
  BY AscendingProperties
<1>2. Map(field, items) = Vector(field, entries)
  BY Zenon DEF Map
<1> HIDE DEF ids, n
<1>3. \A k \in 1 .. n : ids[k] \in DOMAIN items
  BY <1>1
<1>4. ASSUME NEW k \in 1 .. n PROVE E("player_id", ids[k]) \o items[ids[k]] \in Seq(Element)
  <2>1. ids[k] \in Value("player_id") /\ "player_id" \in Fields
    BY <1>3 DEF Fields
  <2>2. E("player_id", ids[k]) \in Seq(Element)
    BY <2>1, ElementIs
  <2>3. items[ids[k]] \in Seq(Element)
    BY <1>3
  <2> QED BY <2>2, <2>3, Concat2
<1>5. entries \in [1 .. n -> Seq(Element)] /\ n \in Nat
  BY <1>1, <1>4
<1>6. n \in Value(field)
  <2>1. SizeOf(field) = 4
    BY DEF SizeOf, Large
  <2>2. Power[4] > Base /\ Power[4] \in Nat /\ Base \in Nat
    BY PowerGrows, PowerProperties, EncodingAssumption
  <2> QED BY <2>1, <2>2, <1>1 DEF Value
<1> HIDE DEF entries
<1>7. entries \in Lists(Element) /\ Len(entries) = n
  BY <1>5 DEF Lists
<1> QED BY <1>2, <1>3, <1>6, <1>7 DEF ids, entries, n

LEMMA VectorType ==
  ASSUME NEW field \in Fields, NEW items \in Lists(Element), Len(items) \in Value(field)
  PROVE  Vector(field, items) \in Seq(Element)
BY ElementIs, FlattenType, Concat2 DEF Vector

LEMMA ReadsMap ==
  ASSUME NEW field \in {"players", "scores"}, NEW items, NEW layout,
         DOMAIN items \subseteq Value("player_id"),
         EntryLayout[field] = <<"player_id">> \o layout,
         \A id \in DOMAIN items : Reads(layout, items[id])
  PROVE  Reads(<<field>>, Map(field, items))
<1> DEFINE ids == Ascending(DOMAIN items)
           entries == [k \in DOMAIN ids |-> E("player_id", ids[k]) \o items[ids[k]]]
           n == Len(ids)
<1>1. \A id \in DOMAIN items : items[id] \in Seq(Element)
  BY DEF Reads
<1>2. field \in Large /\ field \in Counts
  BY DEF Large, Counts
<1>3. /\ entries \in Lists(Element) /\ Len(entries) = n /\ Len(entries) \in Value(field)
      /\ \A k \in 1 .. n : ids[k] \in DOMAIN items
      /\ Map(field, items) = Vector(field, entries)
  BY <1>1, <1>2, MapItems, Zenon
<1>4. DOMAIN ids = 1 .. n
  BY AscendingProperties
<1> HIDE DEF ids, n
<1>5. ASSUME NEW k \in 1 .. n PROVE Reads(EntryLayout[field], entries[k])
  <2>1. ids[k] \in Value("player_id") /\ "player_id" \in Leaves /\ ids[k] \in DOMAIN items
    BY <1>3 DEF Leaves, Fields
  <2>2. Reads(<<"player_id">>, E("player_id", ids[k]))
    BY <2>1, ReadsLeaf
  <2>3. Reads(layout, items[ids[k]])
    BY <2>1
  <2>4. entries[k] = E("player_id", ids[k]) \o items[ids[k]]
    BY <1>4
  <2> HIDE DEF entries
  <2>5. Reads(<<"player_id">> \o layout, E("player_id", ids[k]) \o items[ids[k]])
    BY <2>2, <2>3, ReadsConcat, Zenon
  <2> QED BY <2>4, <2>5, Zenon
<1> HIDE DEF entries
<1>6. Reads(<<field>>, Vector(field, entries))
  BY <1>2, <1>3, <1>5, ReadsVector
<1> QED BY <1>3, <1>6

-----------------------------------------------------------------------------
(* Messages are read as they are written                                   *)

LEMMA Pair ==
  ASSUME NEW a, NEW b
  PROVE  <<a>> \o <<b>> = <<a, b>>
<1> DEFINE S == {a, b}
<1>1. <<a>> \in Seq(S) /\ <<b>> \in Seq(S) /\ <<a, b>> \in Seq(S)
  OBVIOUS
<1> HIDE DEF S
<1>2. <<a>> \o <<b>> \in Seq(S) /\ Len(<<a>> \o <<b>>) = 2
  BY <1>1
<1>3. \A i \in 1 .. 2 : (<<a>> \o <<b>>)[i] = <<a, b>>[i]
  BY <1>1
<1> QED BY <1>1, <1>2, <1>3, SeqEqual

LEMMA Triple ==
  ASSUME NEW a, NEW b, NEW c
  PROVE  (<<a>> \o <<b>>) \o <<c>> = <<a, b, c>>
<1> DEFINE S == {a, b, c}
<1>1. <<c>> \in Seq(S) /\ <<a, b>> \in Seq(S) /\ <<a, b, c>> \in Seq(S)
  OBVIOUS
<1> HIDE DEF S
<1>2. <<a, b>> \o <<c>> \in Seq(S) /\ Len(<<a, b>> \o <<c>>) = 3
  BY <1>1
<1>3. \A i \in 1 .. 3 : (<<a, b>> \o <<c>>)[i] = <<a, b, c>>[i]
  BY <1>1
<1>4. <<a, b>> \o <<c>> = <<a, b, c>>
  BY <1>1, <1>2, <1>3, SeqEqual
<1> QED BY <1>4, Pair, Zenon

\* How long a string is on the wire.
Cut(s) == Min({Len(s), MaxString})

LEMMA CutType ==
  ASSUME NEW s \in AnyString
  PROVE  /\ Cut(s) \in Nat /\ Cut(s) <= Len(s) /\ Cut(s) <= MaxString /\ Cut(s) \in Value("string")
         /\ Cut(s) \in {Len(s), MaxString}
<1>1. Len(s) \in Nat /\ Base \in Nat /\ Base > 4
  BY EncodingAssumption DEF AnyString
<1>2. /\ Cut(s) \in {Len(s), MaxString}
      /\ \A y \in {Len(s), MaxString} : Cut(s) <= y
  <2> DEFINE S == {Len(s), MaxString}
  <2>1. \E x \in S : \A y \in S : x <= y
    BY <1>1 DEF MaxString
  <2> HIDE DEF S
  <2>2. Min(S) \in S /\ \A y \in S : Min(S) <= y
    BY <2>1 DEF Min
  <2> QED BY <2>2 DEF Cut, S
<1>3. Value("string") = 0 .. Base - 1
  BY PowerGrows DEF Value, SizeOf
<1> QED BY <1>1, <1>2, <1>3 DEF MaxString

LEMMA ReadsString ==
  ASSUME NEW s \in AnyString
  PROVE  Reads(<<"string">>, String(s))
<1> DEFINE n == Cut(s)
           chars == [k \in 1 .. n |-> [field |-> "char", value |-> s[k]]]
           items == [k \in 1 .. n |-> <<chars[k]>>]
<1>1. n \in Nat /\ n <= Len(s) /\ n \in Value("string") /\ s \in Seq(Bytes)
  BY CutType DEF AnyString
<1>2. String(s) = E("string", n) \o chars
  BY Zenon DEF String, Cut
<1>3. Value("char") = Bytes
  BY PowerGrows DEF Value, SizeOf, Bytes
<1> HIDE DEF n
<1>4. ASSUME NEW k \in 1 .. n
      PROVE  /\ chars[k] = [field |-> "char", value |-> s[k]] /\ chars[k] \in Element
             /\ Reads(<<"char">>, <<chars[k]>>)
  <2>1. s[k] \in Value("char") /\ "char" \in Leaves /\ "char" \in Fields
    BY <1>1, <1>3 DEF Leaves, Fields
  <2>2. chars[k] = [field |-> "char", value |-> s[k]]
    OBVIOUS
  <2> HIDE DEF chars
  <2>3. <<chars[k]>> = E("char", s[k])
    BY <2>2 DEF E
  <2> QED BY <2>1, <2>2, <2>3, ReadsLeaf, ElementIs
<1>5. chars \in Seq(Element) /\ Len(chars) = n
  <2>1. \A k \in 1 .. n : [field |-> "char", value |-> s[k]] \in Element
    BY <1>4, Zenon
  <2>2. chars \in [1 .. n -> Element]
    BY <2>1
  <2> HIDE DEF chars
  <2> QED BY <2>2, <1>1
<1>10. \A k \in 1 .. n : chars[k] \in Element
  BY <1>4, Zenon
<1> HIDE DEF chars
<1>6. items \in Lists(Element) /\ Len(items) = n /\ \A k \in 1 .. n : items[k] = <<chars[k]>>
  <2>0. \A k \in 1 .. n : <<chars[k]>> \in Seq(Element)
    BY <1>10
  <2>1. items \in [1 .. n -> Seq(Element)]
    BY <2>0
  <2> QED BY <2>1, <1>1 DEF Lists
<1>7. FlattenSeq(items) = chars
  BY <1>5, FlattenSingletons
<1> HIDE DEF items
<1>8. \A k \in 1 .. n : Reads(EntryLayout["string"], items[k])
  BY <1>4, <1>6 DEF EntryLayout
<1>9. Reads(<<"string">>, Vector("string", items))
  BY <1>1, <1>6, <1>8, ReadsVector DEF Counts
<1> QED BY <1>2, <1>6, <1>7, <1>9, Zenon DEF Vector

LEMMA ReadsPosition ==
  ASSUME NEW p \in AnyPosition
  PROVE  Reads(PositionLayout, Position(p))
<1>1. p[1] \in Value("size_xy") /\ p[2] \in Value("size_xy")
  BY DEF AnyPosition
<1>2. "size_xy" \in Leaves
  BY DEF Leaves, Fields
<1>3. Reads(<<"size_xy">>, E("size_xy", p[1])) /\ Reads(<<"size_xy">>, E("size_xy", p[2]))
  BY <1>1, <1>2, ReadsLeaf
<1>4. PositionLayout = <<"size_xy">> \o <<"size_xy">>
  BY Pair DEF PositionLayout
<1> QED BY <1>3, <1>4, ReadsConcat, Zenon DEF Position

LEMMA ReadsPlayer ==
  ASSUME NEW p \in AnyPlayer
  PROVE  Reads(PlayerLayout, Player(p))
<1>1. p.name \in AnyString /\ p.address \in AnyString
  BY DEF AnyPlayer
<1>2. PlayerLayout = <<"string">> \o <<"string">>
  BY Pair DEF PlayerLayout
<1> QED BY <1>1, <1>2, ReadsString, ReadsConcat, Zenon DEF Player

LEMMA ReadsPositions ==
  ASSUME NEW s \in Entries("blocks", AnyPosition)
  PROVE  Reads(<<"blocks">>, Positions("blocks", s))
<1> DEFINE items == [k \in DOMAIN s |-> Position(s[k])]
<1>1. s \in Seq(AnyPosition) /\ Len(s) \in Value("blocks") /\ DOMAIN s = 1 .. Len(s) /\ Len(s) \in Nat
  BY DEF Entries
<1>2. ASSUME NEW k \in 1 .. Len(s)
      PROVE  Reads(PositionLayout, Position(s[k])) /\ Position(s[k]) \in Seq(Element)
  <2>1. s[k] \in AnyPosition
    BY <1>1
  <2>2. Reads(PositionLayout, Position(s[k]))
    BY <2>1, ReadsPosition
  <2> QED BY <2>2 DEF Reads
<1>3. items \in [1 .. Len(s) -> Seq(Element)]
  BY <1>1, <1>2
<1>4. items \in Lists(Element) /\ Len(items) = Len(s)
  BY <1>1, <1>3 DEF Lists
<1>5. \A k \in 1 .. Len(s) : items[k] = Position(s[k])
  BY <1>1
<1> HIDE DEF items
<1>6. \A k \in 1 .. Len(items) : Reads(EntryLayout["blocks"], items[k])
  BY <1>2, <1>4, <1>5 DEF EntryLayout
<1>7. Reads(<<"blocks">>, Vector("blocks", items))
  BY <1>1, <1>4, <1>6, ReadsVector DEF Counts
<1> QED BY <1>7, Zenon DEF Positions, items

LEMMA ReadsRobots ==
  ASSUME NEW s \in Entries("robots", Value("player_id"))
  PROVE  Reads(<<"robots">>, Vector("robots", [k \in DOMAIN s |-> Id(s[k])]))
<1> DEFINE items == [k \in DOMAIN s |-> Id(s[k])]
<1>1. s \in Seq(Value("player_id")) /\ Len(s) \in Value("robots") /\ DOMAIN s = 1 .. Len(s)
      /\ Len(s) \in Nat
  BY DEF Entries
<1>2. ASSUME NEW k \in 1 .. Len(s)
      PROVE  Reads(<<"player_id">>, Id(s[k])) /\ Id(s[k]) \in Seq(Element)
  <2>1. s[k] \in Value("player_id") /\ "player_id" \in Leaves
    BY <1>1 DEF Leaves, Fields
  <2>2. Reads(<<"player_id">>, Id(s[k]))
    BY <2>1, ReadsLeaf DEF Id
  <2> QED BY <2>2 DEF Reads
<1>3. items \in [1 .. Len(s) -> Seq(Element)]
  BY <1>1, <1>2
<1>4. items \in Lists(Element) /\ Len(items) = Len(s)
  BY <1>1, <1>3 DEF Lists
<1>5. \A k \in 1 .. Len(s) : items[k] = Id(s[k])
  BY <1>1
<1> HIDE DEF items
<1>6. \A k \in 1 .. Len(items) : Reads(EntryLayout["robots"], items[k])
  BY <1>2, <1>4, <1>5 DEF EntryLayout
<1>7. Reads(<<"robots">>, Vector("robots", items))
  BY <1>1, <1>4, <1>6, ReadsVector DEF Counts
<1> QED BY <1>7 DEF items

LEMMA ReadsEvent ==
  ASSUME NEW e \in AnyEvent
  PROVE  Reads(<<"event">>, Event(e))
<1> DEFINE Is(kind, x) == Event(e) = E("event", Cases["event"][kind]) \o x
<1>0. Cases["event"] = EventCodes /\ DOMAIN EventCodes = {"BombPlaced", "BombExploded", "PlayerMoved", "BlockPlaced"}
  BY DEF Cases, EventCodes
<1>1. CASE e.type = "BombPlaced"
  <2>1. e.id \in Value("bomb_id") /\ e.position \in AnyPosition /\ "bomb_id" \in Leaves
    BY <1>1 DEF AnyEvent, Leaves, Fields
  <2>2. Reads(<<"bomb_id">>, E("bomb_id", e.id)) /\ Reads(PositionLayout, Position(e.position))
    BY <2>1, ReadsLeaf, ReadsPosition
  <2>3. Reads(<<"bomb_id">> \o PositionLayout, E("bomb_id", e.id) \o Position(e.position))
    BY <2>2, ReadsConcat, Zenon
  <2>4. Layout["BombPlaced"] = <<"bomb_id">> \o PositionLayout
    BY DEF Layout
  <2>5. Is("BombPlaced", E("bomb_id", e.id) \o Position(e.position))
    BY <1>0, <1>1, Zenon DEF Event
  <2>6. Reads(<<"event">>, E("event", Cases["event"]["BombPlaced"]) \o (E("bomb_id", e.id) \o Position(e.position)))
    BY <1>0, <2>3, <2>4, ReadsKind
  <2> QED BY <2>5, <2>6
<1>2. CASE e.type = "BombExploded"
  <2> DEFINE r == Vector("robots", [k \in DOMAIN e.robots |-> Id(e.robots[k])])
             b == Positions("blocks", e.blocks)
             i == E("bomb_id", e.id)
  <2>1. /\ e.id \in Value("bomb_id") /\ "bomb_id" \in Leaves
        /\ e.robots \in Entries("robots", Value("player_id"))
        /\ e.blocks \in Entries("blocks", AnyPosition)
    BY <1>2 DEF AnyEvent, Leaves, Fields
  <2>2. Reads(<<"bomb_id">>, i) /\ Reads(<<"robots">>, r) /\ Reads(<<"blocks">>, b)
    BY <2>1, ReadsLeaf, ReadsRobots, ReadsPositions
  <2>5. Event(e) = E("event", EventCodes[e.type]) \o (i \o r \o b)
    BY <1>2, Zenon DEF Event
  <2> HIDE DEF r, b, i
  <2>3. Reads((<<"bomb_id">> \o <<"robots">>) \o <<"blocks">>, (i \o r) \o b)
    BY <2>2, ReadsConcat, Zenon
  <2>4. Layout["BombExploded"] = (<<"bomb_id">> \o <<"robots">>) \o <<"blocks">>
    <3>1. Layout["BombExploded"] = <<"bomb_id", "robots", "blocks">>
      BY DEF Layout
    <3> QED BY <3>1, Triple, Zenon
  <2>6. Reads(<<"event">>, E("event", Cases["event"]["BombExploded"]) \o (i \o r \o b))
    BY <1>0, <2>3, <2>4, ReadsKind
  <2> QED BY <1>0, <1>2, <2>5, <2>6
<1>3. CASE e.type = "PlayerMoved"
  <2>1. e.id \in Value("player_id") /\ e.position \in AnyPosition /\ "player_id" \in Leaves
    BY <1>3 DEF AnyEvent, Leaves, Fields
  <2>2. Reads(<<"player_id">>, Id(e.id)) /\ Reads(PositionLayout, Position(e.position))
    BY <2>1, ReadsLeaf, ReadsPosition DEF Id
  <2>3. Reads(<<"player_id">> \o PositionLayout, Id(e.id) \o Position(e.position))
    BY <2>2, ReadsConcat, Zenon
  <2>4. Layout["PlayerMoved"] = <<"player_id">> \o PositionLayout
    BY DEF Layout
  <2>5. Is("PlayerMoved", Id(e.id) \o Position(e.position))
    BY <1>0, <1>3, Zenon DEF Event
  <2>6. Reads(<<"event">>, E("event", Cases["event"]["PlayerMoved"]) \o (Id(e.id) \o Position(e.position)))
    BY <1>0, <2>3, <2>4, ReadsKind
  <2> QED BY <2>5, <2>6
<1>4. CASE e.type = "BlockPlaced"
  <2>1. e.position \in AnyPosition
    BY <1>4 DEF AnyEvent
  <2>2. Reads(PositionLayout, Position(e.position))
    BY <2>1, ReadsPosition
  <2>4. Layout["BlockPlaced"] = PositionLayout
    BY DEF Layout
  <2>5. Is("BlockPlaced", Position(e.position))
    BY <1>0, <1>4, Zenon DEF Event
  <2>6. Reads(<<"event">>, E("event", Cases["event"]["BlockPlaced"]) \o Position(e.position))
    BY <1>0, <2>2, <2>4, ReadsKind
  <2> QED BY <2>5, <2>6
<1>5. e.type \in {"BombPlaced", "BombExploded", "PlayerMoved", "BlockPlaced"}
  BY DEF AnyEvent
<1> QED BY <1>1, <1>2, <1>3, <1>4, <1>5

LEMMA SettingsLayout ==
  Layout["Hello"] =
    <<"string">> \o <<"players_count">> \o <<"size_xy">> \o <<"size_xy">>
      \o <<"game_length">> \o <<"explosion_radius">> \o <<"bomb_timer">>
<1> DEFINE t3 == <<"string", "players_count", "size_xy">>
           t4 == <<"string", "players_count", "size_xy", "size_xy">>
           t5 == <<"string", "players_count", "size_xy", "size_xy", "game_length">>
           t6 == <<"string", "players_count", "size_xy", "size_xy", "game_length",
                   "explosion_radius">>
           t7 == <<"string", "players_count", "size_xy", "size_xy", "game_length",
                   "explosion_radius", "bomb_timer">>
<1>1. t3 \in Seq(Fields) /\ t4 \in Seq(Fields) /\ t5 \in Seq(Fields) /\ t6 \in Seq(Fields)
      /\ "size_xy" \in Fields /\ "game_length" \in Fields /\ "explosion_radius" \in Fields
      /\ "bomb_timer" \in Fields
  BY DEF Fields
<1>2. t7 \in Seq(Fields)
  BY DEF Fields
<1>3. Layout["Hello"] = t7
  BY DEF Layout
<1>4. <<"string">> \o <<"players_count">> \o <<"size_xy">> = t3
  BY Triple, Zenon
<1>5. t3 \o <<"size_xy">> = t4
  <2>1. <<"size_xy">> \in Seq(Fields) /\ Len(t3) = 3 /\ Len(t4) = 4
    BY <1>1
  <2>2. t3 \o <<"size_xy">> \in Seq(Fields) /\ Len(t3 \o <<"size_xy">>) = 4
    BY <1>1, <2>1, ConcatProperties
  <2>3. \A i \in 1 .. 4 : (t3 \o <<"size_xy">>)[i] = t4[i]
    BY <1>1
  <2> HIDE DEF t3, t4
  <2> QED BY <1>1, <1>2, <2>1, <2>2, <2>3, SeqEqual
<1>6. t4 \o <<"game_length">> = t5
  <2>1. <<"game_length">> \in Seq(Fields) /\ Len(t4) = 4 /\ Len(t5) = 5
    BY <1>1
  <2>2. t4 \o <<"game_length">> \in Seq(Fields) /\ Len(t4 \o <<"game_length">>) = 5
    BY <1>1, <2>1, ConcatProperties
  <2>3. \A i \in 1 .. 5 : (t4 \o <<"game_length">>)[i] = t5[i]
    BY <1>1
  <2> HIDE DEF t4, t5
  <2> QED BY <1>1, <1>2, <2>1, <2>2, <2>3, SeqEqual
<1>7. t5 \o <<"explosion_radius">> = t6
  <2>1. <<"explosion_radius">> \in Seq(Fields) /\ Len(t5) = 5 /\ Len(t6) = 6
    BY <1>1
  <2>2. t5 \o <<"explosion_radius">> \in Seq(Fields) /\ Len(t5 \o <<"explosion_radius">>) = 6
    BY <1>1, <2>1, ConcatProperties
  <2>3. \A i \in 1 .. 6 : (t5 \o <<"explosion_radius">>)[i] = t6[i]
    BY <1>1
  <2> HIDE DEF t5, t6
  <2> QED BY <1>1, <1>2, <2>1, <2>2, <2>3, SeqEqual
<1>8. t6 \o <<"bomb_timer">> = t7
  <2>1. <<"bomb_timer">> \in Seq(Fields) /\ Len(t6) = 6 /\ Len(t7) = 7
    BY <1>1
  <2>2. t6 \o <<"bomb_timer">> \in Seq(Fields) /\ Len(t6 \o <<"bomb_timer">>) = 7
    BY <1>1, <2>1, ConcatProperties
  <2>3. \A i \in 1 .. 7 : (t6 \o <<"bomb_timer">>)[i] = t7[i]
    BY <1>1
  <2> HIDE DEF t6, t7
  <2> QED BY <1>1, <1>2, <2>1, <2>2, <2>3, SeqEqual
<1> HIDE DEF t3, t4, t5, t6, t7
<1> QED BY <1>3, <1>4, <1>5, <1>6, <1>7, <1>8, Zenon

\* What Settings writes.
IsSettings(m) ==
  /\ m.server_name \in AnyString /\ m.size \in AnyPosition
  /\ m.players_count \in Value("players_count")
  /\ m.game_length \in Value("game_length")
  /\ m.explosion_radius \in Value("explosion_radius")
  /\ m.bomb_timer \in Value("bomb_timer")

LEMMA ReadsSettings ==
  ASSUME NEW m, IsSettings(m)
  PROVE  Reads(Layout["Hello"], Settings(m))
<1>1. /\ m.server_name \in AnyString /\ m.size \in AnyPosition
      /\ m.players_count \in Value("players_count")
      /\ m.game_length \in Value("game_length")
      /\ m.explosion_radius \in Value("explosion_radius")
      /\ m.bomb_timer \in Value("bomb_timer")
  BY DEF IsSettings
<1>2. m.size[1] \in Value("size_xy") /\ m.size[2] \in Value("size_xy")
  BY <1>1 DEF AnyPosition
<1>3. {"players_count", "size_xy", "game_length", "explosion_radius", "bomb_timer"}
        \subseteq Leaves
  BY DEF Leaves, Fields
<1>4. /\ Reads(<<"string">>, String(m.server_name))
      /\ Reads(<<"players_count">>, E("players_count", m.players_count))
      /\ Reads(<<"size_xy">>, E("size_xy", m.size[1]))
      /\ Reads(<<"size_xy">>, E("size_xy", m.size[2]))
      /\ Reads(<<"game_length">>, E("game_length", m.game_length))
      /\ Reads(<<"explosion_radius">>, E("explosion_radius", m.explosion_radius))
      /\ Reads(<<"bomb_timer">>, E("bomb_timer", m.bomb_timer))
  BY <1>1, <1>2, <1>3, ReadsString, ReadsLeaf
<1> DEFINE x1 == String(m.server_name)
           x2 == x1 \o E("players_count", m.players_count)
           x3 == x2 \o E("size_xy", m.size[1])
           x4 == x3 \o E("size_xy", m.size[2])
           x5 == x4 \o E("game_length", m.game_length)
           x6 == x5 \o E("explosion_radius", m.explosion_radius)
           x7 == x6 \o E("bomb_timer", m.bomb_timer)
           l2 == <<"string">> \o <<"players_count">>
           l3 == l2 \o <<"size_xy">>
           l4 == l3 \o <<"size_xy">>
           l5 == l4 \o <<"game_length">>
           l6 == l5 \o <<"explosion_radius">>
           l7 == l6 \o <<"bomb_timer">>
<1>5. Settings(m) = x7
  BY Zenon DEF Settings
<1>6. Layout["Hello"] = l7
  BY SettingsLayout, Zenon
<1>7. Reads(l2, x2)
  BY <1>4, ReadsConcat, Zenon
<1> HIDE DEF l2, x2
<1>8. Reads(l3, x3)
  BY <1>4, <1>7, ReadsConcat, Zenon
<1> HIDE DEF l3, x3
<1>9. Reads(l4, x4)
  BY <1>4, <1>8, ReadsConcat, Zenon
<1> HIDE DEF l4, x4
<1>10. Reads(l5, x5)
  BY <1>4, <1>9, ReadsConcat, Zenon
<1> HIDE DEF l5, x5
<1>11. Reads(l6, x6)
  BY <1>4, <1>10, ReadsConcat, Zenon
<1> HIDE DEF l6, x6
<1>12. Reads(l7, x7)
  BY <1>4, <1>11, ReadsConcat, Zenon
<1> HIDE DEF l7, x7
<1> QED BY <1>5, <1>6, <1>12, Zenon

LEMMA ReadsPlayers ==
  ASSUME NEW m, IsByPlayer(m, AnyPlayer)
  PROVE  Reads(<<"players">>, Players(m))
<1> DEFINE items == [id \in DOMAIN m |-> Player(m[id])]
<1>1. DOMAIN items = DOMAIN m /\ DOMAIN m \subseteq Value("player_id")
  BY DEF IsByPlayer
<1>2. ASSUME NEW id \in DOMAIN m PROVE Reads(PlayerLayout, items[id])
  BY ReadsPlayer DEF IsByPlayer
<1>3. EntryLayout["players"] = <<"player_id">> \o PlayerLayout
  BY DEF EntryLayout
<1> HIDE DEF items
<1>4. Reads(<<"players">>, Map("players", items))
  BY <1>1, <1>2, <1>3, ReadsMap
<1> QED BY <1>4 DEF Players, items

LEMMA ReadsScores ==
  ASSUME NEW m, IsByPlayer(m, Value("score"))
  PROVE  Reads(<<"scores">>, Scores(m))
<1> DEFINE items == [id \in DOMAIN m |-> Score(m[id])]
<1>1. DOMAIN items = DOMAIN m /\ DOMAIN m \subseteq Value("player_id")
  BY DEF IsByPlayer
<1>2. ASSUME NEW id \in DOMAIN m PROVE Reads(<<"score">>, items[id])
  <2>1. m[id] \in Value("score") /\ "score" \in Leaves
    BY DEF IsByPlayer, Leaves, Fields
  <2>2. Reads(<<"score">>, E("score", m[id]))
    BY <2>1, ReadsLeaf
  <2> QED BY <2>2 DEF Score
<1>3. EntryLayout["scores"] = <<"player_id">> \o <<"score">>
  <2>1. EntryLayout["scores"] = <<"player_id", "score">>
    BY DEF EntryLayout
  <2> QED BY <2>1, Pair, Zenon
<1> HIDE DEF items
<1>4. Reads(<<"scores">>, Map("scores", items))
  BY <1>1, <1>2, <1>3, ReadsMap
<1> QED BY <1>4 DEF Scores, items

LEMMA ReadsEvents ==
  ASSUME NEW s \in Entries("events", AnyEvent)
  PROVE  Reads(<<"events">>, Vector("events", [k \in DOMAIN s |-> Event(s[k])]))
<1> DEFINE items == [k \in DOMAIN s |-> Event(s[k])]
<1>1. s \in Seq(AnyEvent) /\ Len(s) \in Value("events") /\ DOMAIN s = 1 .. Len(s)
      /\ Len(s) \in Nat
  BY DEF Entries
<1>2. ASSUME NEW k \in 1 .. Len(s)
      PROVE  Reads(<<"event">>, Event(s[k])) /\ Event(s[k]) \in Seq(Element)
  <2>1. s[k] \in AnyEvent
    BY <1>1
  <2>2. Reads(<<"event">>, Event(s[k]))
    BY <2>1, ReadsEvent
  <2> QED BY <2>2 DEF Reads
<1>3. items \in [1 .. Len(s) -> Seq(Element)]
  BY <1>1, <1>2
<1>4. items \in Lists(Element) /\ Len(items) = Len(s)
  BY <1>1, <1>3 DEF Lists
<1>5. \A k \in 1 .. Len(s) : items[k] = Event(s[k])
  BY <1>1
<1> HIDE DEF items
<1>6. \A k \in 1 .. Len(items) : Reads(EntryLayout["events"], items[k])
  BY <1>2, <1>4, <1>5 DEF EntryLayout
<1>7. Reads(<<"events">>, Vector("events", items))
  BY <1>1, <1>4, <1>6, ReadsVector DEF Counts
<1> QED BY <1>7 DEF items

\* read_server_message takes the elements of a message that serialize has written one
\* by one, in the order and of the sizes in which they were written, meets no unknown
\* number on the way, and knows after the last one that the message has ended.
THEOREM ReadsServerMessage ==
  ASSUME NEW m, IsServerMessage(m)
  PROVE  /\ Reads(<<"server_message">>, ServerElements(m))
         /\ m.type \in DOMAIN ServerCodes
         /\ ServerElements(m)[1].value = ServerCodes[m.type]
<1>0. /\ Cases["server_message"] = ServerCodes
      /\ DOMAIN ServerCodes = {"Hello", "AcceptedPlayer", "GameStarted", "Turn", "GameEnded"}
  BY DEF Cases, ServerCodes
<1> DEFINE Written1(kind, x) ==
      /\ m.type = kind /\ kind \in DOMAIN ServerCodes /\ Reads(Layout[kind], x)
      /\ ServerElements(m) = E("server_message", ServerCodes[m.type]) \o x
<1>1. ASSUME NEW kind, NEW x, Written1(kind, x)
      PROVE  /\ Reads(<<"server_message">>, ServerElements(m))
             /\ m.type \in DOMAIN ServerCodes
             /\ ServerElements(m)[1].value = ServerCodes[m.type]
  <2>1. Reads(<<"server_message">>, E("server_message", Cases["server_message"][kind]) \o x)
    BY <1>0, <1>1, ReadsKind
  <2>2. x \in Seq(Element)
    BY <1>1 DEF Reads
  <2> DEFINE c == ServerCodes[m.type]
  <2>3. (E("server_message", c) \o x)[1].value = c
    <3> HIDE DEF c
    <3> QED BY <2>2 DEF E
  <2> QED BY <1>0, <1>1, <2>1, <2>3
<1>2. CASE m \in AnyHello
  <2>0. m.type = "Hello" /\ IsSettings(m)
    BY <1>2 DEF AnyHello, IsSettings
  <2>1. Reads(Layout["Hello"], Settings(m))
    BY <2>0, ReadsSettings
  <2>2. ServerElements(m) = E("server_message", ServerCodes[m.type]) \o Settings(m)
    BY <2>0, Zenon DEF ServerElements
  <2> QED BY <1>0, <1>1, <2>0, <2>1, <2>2
<1>3. CASE m.type = "AcceptedPlayer" /\ m.id \in Value("player_id") /\ m.player \in AnyPlayer
  <2>1. Reads(<<"player_id">>, Id(m.id)) /\ Reads(PlayerLayout, Player(m.player))
    BY <1>3, ReadsLeaf, ReadsPlayer DEF Id, Leaves, Fields
  <2>2. Reads(<<"player_id">> \o PlayerLayout, Id(m.id) \o Player(m.player))
    BY <2>1, ReadsConcat, Zenon
  <2>3. Layout["AcceptedPlayer"] = <<"player_id">> \o PlayerLayout
    BY DEF Layout
  <2>4. ServerElements(m) = E("server_message", ServerCodes[m.type]) \o (Id(m.id) \o Player(m.player))
    BY <1>3, Zenon DEF ServerElements
  <2> QED BY <1>0, <1>1, <1>3, <2>2, <2>3, <2>4
<1>4. CASE m.type = "GameStarted" /\ IsByPlayer(m.players, AnyPlayer)
  <2>1. Layout["GameStarted"] = <<"players">>
    BY DEF Layout
  <2>2. ServerElements(m) = E("server_message", ServerCodes[m.type]) \o Players(m.players)
    BY <1>4, Zenon DEF ServerElements
  <2> QED BY <1>0, <1>1, <1>4, <2>1, <2>2, ReadsPlayers
<1>5. CASE /\ m.type = "Turn" /\ m.turn \in Value("turn")
           /\ m.events \in Entries("events", AnyEvent)
  <2> DEFINE v == Vector("events", [k \in DOMAIN m.events |-> Event(m.events[k])])
  <2>1. Reads(<<"turn">>, E("turn", m.turn)) /\ Reads(<<"events">>, v)
    BY <1>5, ReadsLeaf, ReadsEvents DEF Leaves, Fields
  <2>4. ServerElements(m) = E("server_message", ServerCodes[m.type]) \o (E("turn", m.turn) \o v)
    BY <1>5, Zenon DEF ServerElements
  <2> HIDE DEF v
  <2>2. Reads(<<"turn">> \o <<"events">>, E("turn", m.turn) \o v)
    BY <2>1, ReadsConcat, Zenon
  <2>3. Layout["Turn"] = <<"turn">> \o <<"events">>
    <3>1. Layout["Turn"] = <<"turn", "events">>
      BY DEF Layout
    <3> QED BY <3>1, Pair, Zenon
  <2> QED BY <1>0, <1>1, <1>5, <2>2, <2>3, <2>4
<1>6. CASE m.type = "GameEnded" /\ IsByPlayer(m.scores, Value("score"))
  <2>1. Layout["GameEnded"] = <<"scores">>
    BY DEF Layout
  <2>2. ServerElements(m) = E("server_message", ServerCodes[m.type]) \o Scores(m.scores)
    BY <1>6, Zenon DEF ServerElements
  <2> QED BY <1>0, <1>1, <1>6, <2>1, <2>2, ReadsScores
<1> QED BY <1>2, <1>3, <1>4, <1>5, <1>6 DEF IsServerMessage

\* The same of a message from a client and read_client_message.
THEOREM ReadsClientMessage ==
  ASSUME NEW m, IsClientMessage(m)
  PROVE  Reads(<<"client_message">>, ClientElements(m))
<1>0. /\ Cases["client_message"] = ClientCodes
      /\ DOMAIN ClientCodes = {"Join", "PlaceBomb", "PlaceBlock", "Move"}
  BY DEF Cases, ClientCodes
<1>1. ASSUME NEW x, m.type \in DOMAIN ClientCodes, Reads(Layout[m.type], x),
             ClientElements(m) = E("client_message", ClientCodes[m.type]) \o x
      PROVE  Reads(<<"client_message">>, ClientElements(m))
  <2>1. Reads(<<"client_message">>, E("client_message", Cases["client_message"][m.type]) \o x)
    BY <1>0, <1>1, ReadsKind
  <2> QED BY <1>0, <1>1, <2>1
<1>2. CASE m.type = "Join" /\ m.name \in AnyString
  <2>1. ClientElements(m) = E("client_message", ClientCodes[m.type]) \o String(m.name)
    BY <1>2, Zenon DEF ClientElements
  <2>2. Layout["Join"] = <<"string">>
    BY DEF Layout
  <2> QED BY <1>0, <1>1, <1>2, <2>1, <2>2, ReadsString
<1>3. CASE m.type \in {"PlaceBomb", "PlaceBlock"}
  <2>1. ClientElements(m) = E("client_message", ClientCodes[m.type]) \o <<>>
    BY <1>3 DEF ClientElements
  <2>2. Layout["PlaceBomb"] = <<>> /\ Layout["PlaceBlock"] = <<>>
    BY DEF Layout
  <2> QED BY <1>0, <1>1, <1>3, <2>1, <2>2, ReadsNothing
<1>4. CASE m.type = "Move" /\ m.direction \in Value("direction")
  <2>1. ClientElements(m) = E("client_message", ClientCodes[m.type]) \o E("direction", m.direction)
    BY <1>4, Zenon DEF ClientElements
  <2>2. Layout["Move"] = <<"direction">> /\ "direction" \in Leaves
    BY DEF Layout, Leaves, Fields
  <2> QED BY <1>0, <1>1, <1>4, <2>1, <2>2, ReadsLeaf
<1> QED BY <1>2, <1>3, <1>4 DEF IsClientMessage

-----------------------------------------------------------------------------
(* What the client makes of a message                                      *)

\* A string, a player and the settings as they are after the wire.
CutString(s) == [k \in 1 .. Cut(s) |-> s[k]]
CutPlayer(p) == [name |-> CutString(p.name), address |-> CutString(p.address)]
CutHello(m) ==
  [server_name |-> CutString(m.server_name), players_count |-> m.players_count,
   size |-> <<m.size[1], m.size[2]>>, game_length |-> m.game_length,
   explosion_radius |-> m.explosion_radius, bomb_timer |-> m.bomb_timer]

\* Cutting a string once more changes nothing.
LEMMA CutTwice ==
  ASSUME NEW s \in AnyString
  PROVE  CutString(s) \in AnyString /\ String(CutString(s)) = String(s)
<1> DEFINE c == CutString(s)
           n == Cut(s)
<1>1. /\ n \in Nat /\ n <= Len(s) /\ n <= MaxString /\ n \in {Len(s), MaxString}
      /\ s \in Seq(Bytes)
  BY CutType DEF AnyString
<1>2. c = [k \in 1 .. n |-> s[k]]
  BY DEF CutString
<1>3. String(s) = E("string", n) \o [k \in 1 .. n |-> [field |-> "char", value |-> s[k]]]
  BY Zenon DEF String, Cut
<1>4. String(c) = E("string", Cut(c)) \o [k \in 1 .. Cut(c) |-> [field |-> "char", value |-> c[k]]]
  BY Zenon DEF String, Cut
<1> HIDE DEF c, n
<1>5. c \in Seq(Bytes) /\ Len(c) = n /\ \A k \in 1 .. n : c[k] = s[k]
  BY <1>1, <1>2
<1>6. Cut(c) = n
  <2>1. Cut(c) <= Len(c) /\ Cut(c) \in {Len(c), MaxString} /\ MaxString \in Nat
    BY <1>5, CutType, EncodingAssumption DEF AnyString, MaxString
  <2> QED BY <2>1, <1>1, <1>5
<1>7. [k \in 1 .. n |-> [field |-> "char", value |-> c[k]]]
        = [k \in 1 .. n |-> [field |-> "char", value |-> s[k]]]
  BY <1>5, Zenon
<1>8. String(c) = String(s)
  BY <1>3, <1>4, <1>6, <1>7, Zenon
<1> QED BY <1>5, <1>8 DEF AnyString, c

LEMMA ConcatParts ==
  ASSUME NEW S, NEW a \in Seq(S), NEW b \in Seq(S)
  PROVE  /\ a \o b \in Seq(S) /\ Len(a \o b) = Len(a) + Len(b)
         /\ Len(a) \in Nat /\ Len(b) \in Nat
         /\ \A i \in 1 .. Len(a) : (a \o b)[i] = a[i]
         /\ \A i \in 1 .. Len(b) : (a \o b)[Len(a) + i] = b[i]
BY ConcatProperties

LEMMA Regroup ==
  ASSUME NEW S, NEW a \in Seq(S), NEW b \in Seq(S), NEW c \in Seq(S)
  PROVE  (a \o b) \o c = a \o (b \o c)
BY ConcatAssociative

LEMMA StringParts ==
  ASSUME NEW s \in AnyString
  PROVE  /\ String(s) \in Seq(Element) /\ Len(String(s)) = Cut(s) + 1
         /\ String(s)[1].value = Cut(s)
         /\ \A i \in 1 .. Cut(s) : String(s)[i + 1].value = s[i]
<1> DEFINE n == Cut(s)
           chars == [k \in 1 .. n |-> [field |-> "char", value |-> s[k]]]
           head == [field |-> "string", value |-> n]
<1>1. n \in Nat
  BY CutType
<1>2. String(s) = <<head>> \o chars
  BY Zenon DEF String, Cut, E
<1>3. String(s) \in Seq(Element)
  BY ReadsString DEF Reads
<1> DEFINE A == {chars[k] : k \in 1 .. n} \union {head}
<1>4. head.value = n /\ \A k \in 1 .. n : chars[k].value = s[k]
  OBVIOUS
<1>5. chars \in [1 .. n -> A] /\ head \in A
  OBVIOUS
<1> HIDE DEF n, A, chars, head
<1>6. chars \in Seq(A) /\ Len(chars) = n
  BY <1>1, <1>5
<1>7. /\ Len(<<head>> \o chars) = n + 1 /\ (<<head>> \o chars)[1] = head
      /\ \A i \in 1 .. n : (<<head>> \o chars)[i + 1] = chars[i]
  BY <1>1, <1>5, <1>6
<1> QED BY <1>1, <1>2, <1>3, <1>4, <1>7 DEF n

\* A string is found where it was written.
LEMMA StringIsAt ==
  ASSUME NEW a \in Seq(Element), NEW s \in AnyString, NEW b \in Seq(Element),
         NEW k, k = Len(a) + 1
  PROVE  LET x == a \o (String(s) \o b)
         IN  /\ StringAt(x, k) = CutString(s)
             /\ AfterString(x, k) = k + Cut(s) + 1
             /\ \A i \in 1 .. Len(b) : x[AfterString(x, k) + (i - 1)] = b[i]
<1> DEFINE n == Cut(s)
           t == String(s)
           u == t \o b
           x == a \o u
<1>1. n \in Nat
  BY CutType
<1>2. /\ t \in Seq(Element) /\ Len(t) = n + 1 /\ t[1].value = n
      /\ \A i \in 1 .. n : t[i + 1].value = s[i]
  BY StringParts
<1>0. StringAt(x, k) = [i \in 1 .. x[k].value |-> x[k + i].value]
  BY DEF StringAt
<1>9. AfterString(x, k) = k + x[k].value + 1
  BY DEF AfterString
<1>10. CutString(s) = [i \in 1 .. n |-> s[i]]
  BY DEF CutString
<1> HIDE DEF n, t, x
<1>3. /\ u \in Seq(Element) /\ Len(u) = n + 1 + Len(b) /\ Len(b) \in Nat
      /\ \A i \in 1 .. n + 1 : u[i] = t[i]
      /\ \A i \in 1 .. Len(b) : u[n + 1 + i] = b[i]
  <2>1. /\ u \in Seq(Element) /\ Len(u) = Len(t) + Len(b) /\ Len(b) \in Nat
        /\ \A i \in 1 .. Len(t) : u[i] = t[i]
        /\ \A i \in 1 .. Len(b) : u[Len(t) + i] = b[i]
    <3>1. t \in Seq(Element)
      BY <1>2, Zenon
    <3> QED BY <3>1, ConcatParts
  <2> HIDE DEF u
  <2> QED BY <1>1, <1>2, <2>1
<1> HIDE DEF u
<1>4. /\ Len(a) \in Nat /\ \A i \in 1 .. n + 1 + Len(b) : x[Len(a) + i] = u[i]
  <2>1. Len(a) \in Nat /\ \A i \in 1 .. Len(u) : x[Len(a) + i] = u[i]
    <3>1. u \in Seq(Element)
      BY <1>3, Zenon
    <3>2. Len(a) \in Nat /\ \A i \in 1 .. Len(u) : (a \o u)[Len(a) + i] = u[i]
      BY <3>1, ConcatParts
    <3> QED BY <3>2 DEF x
  <2> QED BY <1>3, <2>1
<1>5. x[k].value = n
  <2>1. x[Len(a) + 1] = u[1] /\ u[1] = t[1]
    BY <1>1, <1>3, <1>4
  <2> QED BY <2>1, <1>2
<1>6. \A i \in 1 .. n : x[k + i].value = s[i]
  <2> SUFFICES ASSUME NEW i \in 1 .. n PROVE x[k + i].value = s[i]
    OBVIOUS
  <2>1. i + 1 \in 1 .. n + 1 /\ i + 1 \in 1 .. n + 1 + Len(b) /\ Len(a) + (i + 1) = k + i
    BY <1>1, <1>3, <1>4
  <2>2. x[k + i] = u[i + 1]
    BY <2>1, <1>4
  <2>3. u[i + 1] = t[i + 1]
    BY <2>1, <1>3
  <2> QED BY <2>2, <2>3, <1>2
<1>7. AfterString(x, k) = k + n + 1
  BY <1>5, <1>9
<1>8. ASSUME NEW i \in 1 .. Len(b) PROVE x[AfterString(x, k) + (i - 1)] = b[i]
  <2>1. /\ AfterString(x, k) + (i - 1) = Len(a) + (n + 1 + i)
        /\ n + 1 + i \in 1 .. n + 1 + Len(b)
    BY <1>1, <1>3, <1>4, <1>7
  <2>2. x[Len(a) + (n + 1 + i)] = u[n + 1 + i]
    BY <2>1, <1>4
  <2> QED BY <2>1, <2>2, <1>3
<1>12. StringAt(x, k) = CutString(s)
  BY <1>0, <1>5, <1>6, <1>10
<1> QED BY <1>7, <1>8, <1>12 DEF n, t, u, x

LEMMA OneMore ==
  ASSUME NEW s \in Seq(Element), NEW a \in Seq(Element), NEW field \in Fields,
         NEW v \in Value(field)
  PROVE  /\ a \o E(field, v) \in Seq(Element) /\ Len(a \o E(field, v)) = Len(a) + 1
         /\ (a \o E(field, v))[Len(a) + 1].value = v
         /\ \A i \in 1 .. Len(a) : (a \o E(field, v))[i] = a[i]
         /\ (s \o a) \o E(field, v) = s \o (a \o E(field, v))
<1> DEFINE e == [field |-> field, value |-> v]
<1>1. e \in Element /\ e.value = v
  BY ElementIs
<1>2. E(field, v) = <<e>>
  BY DEF E
<1> HIDE DEF e
<1>3. <<e>> \in Seq(Element)
  BY <1>1
<1>4. (s \o a) \o <<e>> = s \o (a \o <<e>>)
  BY <1>3, Regroup
<1>5. /\ a \o <<e>> \in Seq(Element) /\ Len(a \o <<e>>) = Len(a) + 1
      /\ (a \o <<e>>)[Len(a) + 1] = e
      /\ \A i \in 1 .. Len(a) : (a \o <<e>>)[i] = a[i]
  BY <1>1
<1> QED BY <1>1, <1>2, <1>4, <1>5

\* Hello is read as it is, up to the cut of the name.
LEMMA HelloIsRead ==
  ASSUME NEW m \in AnyHello
  PROVE  HelloRead(ServerElements(m)) = CutHello(m)
<1> DEFINE s == String(m.server_name)
           b1 == E("players_count", m.players_count)
           b2 == b1 \o E("size_xy", m.size[1])
           b3 == b2 \o E("size_xy", m.size[2])
           b4 == b3 \o E("game_length", m.game_length)
           b5 == b4 \o E("explosion_radius", m.explosion_radius)
           b6 == b5 \o E("bomb_timer", m.bomb_timer)
           a == E("server_message", ServerCodes["Hello"])
           x == ServerElements(m)
<1>1. /\ m.type = "Hello" /\ m.server_name \in AnyString
      /\ m.players_count \in Value("players_count")
      /\ m.size[1] \in Value("size_xy") /\ m.size[2] \in Value("size_xy")
      /\ m.game_length \in Value("game_length")
      /\ m.explosion_radius \in Value("explosion_radius")
      /\ m.bomb_timer \in Value("bomb_timer")
  BY DEF AnyHello, AnyPosition
<1>2. {"players_count", "size_xy", "game_length", "explosion_radius", "bomb_timer",
       "server_message"} \subseteq Fields
  BY DEF Fields
<1>3. s \in Seq(Element)
  BY <1>1, StringParts
<1>4. a \in Seq(Element) /\ Len(a) = 1
  <2>1. ServerCodes["Hello"] = 0 /\ 0 \in Value("server_message")
    BY <1>2, ValueIsNat DEF ServerCodes
  <2> QED BY <2>1, <1>2, ElementIs DEF E
<1>5. /\ E("players_count", m.players_count) \in Seq(Element)
      /\ E("size_xy", m.size[1]) \in Seq(Element)
      /\ E("size_xy", m.size[2]) \in Seq(Element)
      /\ E("game_length", m.game_length) \in Seq(Element)
      /\ E("explosion_radius", m.explosion_radius) \in Seq(Element)
      /\ E("bomb_timer", m.bomb_timer) \in Seq(Element)
  BY <1>1, <1>2, ElementIs
<1>6. b1 \in Seq(Element) /\ Len(b1) = 1 /\ b1[1].value = m.players_count
  BY <1>5 DEF E
<1>7. x = a \o Settings(m)
  BY <1>1, Zenon DEF ServerElements
<1>8. Settings(m) = ((((((s \o b1) \o E("size_xy", m.size[1])) \o E("size_xy", m.size[2]))
                       \o E("game_length", m.game_length))
                       \o E("explosion_radius", m.explosion_radius))
                       \o E("bomb_timer", m.bomb_timer))
  BY Zenon DEF Settings
<1> HIDE DEF a, s, b1, b2, b3, b4, b5, b6, x
<1>9. /\ b2 \in Seq(Element) /\ Len(b2) = 2 /\ b2[2].value = m.size[1]
      /\ \A i \in 1 .. 1 : b2[i] = b1[i]
      /\ (s \o b1) \o E("size_xy", m.size[1]) = s \o b2
  <2>1. b1 \in Seq(Element)
    BY <1>6
  <2>7. Len(b1) = 1
    BY <1>6
  <2>2. "size_xy" \in Fields /\ m.size[1] \in Value("size_xy")
    BY <1>1, <1>2
  <2> DEFINE e == E("size_xy", m.size[1])
  <2>0. s \in Seq(Element)
    BY <1>3
  <2>3. /\ b1 \o e \in Seq(Element) /\ Len(b1 \o e) = Len(b1) + 1
        /\ (b1 \o e)[Len(b1) + 1].value = m.size[1]
        /\ \A i \in 1 .. Len(b1) : (b1 \o e)[i] = b1[i]
        /\ (s \o b1) \o e = s \o (b1 \o e)
    BY <2>0, <2>1, <2>2, OneMore, SMTT(40)
  <2>4. b2 = b1 \o e
    BY DEF b2
  <2>5. (s \o b1) \o E("size_xy", m.size[1]) = s \o b2
    BY <2>3, <2>4, Zenon
  <2> HIDE DEF e
  <2>6. /\ b2 \in Seq(Element) /\ Len(b2) = 2 /\ b2[2].value = m.size[1]
        /\ \A i \in 1 .. 1 : b2[i] = b1[i]
    BY <2>3, <2>4, <2>7
  <2> QED BY <2>5, <2>6
<1>10. /\ b3 \in Seq(Element) /\ Len(b3) = 3 /\ b3[3].value = m.size[2]
      /\ \A i \in 1 .. 2 : b3[i] = b2[i]
      /\ (s \o b2) \o E("size_xy", m.size[2]) = s \o b3
  <2>1. b2 \in Seq(Element)
    BY <1>9
  <2>7. Len(b2) = 2
    BY <1>9
  <2>2. "size_xy" \in Fields /\ m.size[2] \in Value("size_xy")
    BY <1>1, <1>2
  <2> DEFINE e == E("size_xy", m.size[2])
  <2>0. s \in Seq(Element)
    BY <1>3
  <2>3. /\ b2 \o e \in Seq(Element) /\ Len(b2 \o e) = Len(b2) + 1
        /\ (b2 \o e)[Len(b2) + 1].value = m.size[2]
        /\ \A i \in 1 .. Len(b2) : (b2 \o e)[i] = b2[i]
        /\ (s \o b2) \o e = s \o (b2 \o e)
    BY <2>0, <2>1, <2>2, OneMore, SMTT(40)
  <2>4. b3 = b2 \o e
    BY DEF b3
  <2>5. (s \o b2) \o E("size_xy", m.size[2]) = s \o b3
    BY <2>3, <2>4, Zenon
  <2> HIDE DEF e
  <2>6. /\ b3 \in Seq(Element) /\ Len(b3) = 3 /\ b3[3].value = m.size[2]
        /\ \A i \in 1 .. 2 : b3[i] = b2[i]
    BY <2>3, <2>4, <2>7
  <2> QED BY <2>5, <2>6
<1>11. /\ b4 \in Seq(Element) /\ Len(b4) = 4 /\ b4[4].value = m.game_length
      /\ \A i \in 1 .. 3 : b4[i] = b3[i]
      /\ (s \o b3) \o E("game_length", m.game_length) = s \o b4
  <2>1. b3 \in Seq(Element)
    BY <1>10
  <2>7. Len(b3) = 3
    BY <1>10
  <2>2. "game_length" \in Fields /\ m.game_length \in Value("game_length")
    BY <1>1, <1>2
  <2> DEFINE e == E("game_length", m.game_length)
  <2>0. s \in Seq(Element)
    BY <1>3
  <2>3. /\ b3 \o e \in Seq(Element) /\ Len(b3 \o e) = Len(b3) + 1
        /\ (b3 \o e)[Len(b3) + 1].value = m.game_length
        /\ \A i \in 1 .. Len(b3) : (b3 \o e)[i] = b3[i]
        /\ (s \o b3) \o e = s \o (b3 \o e)
    BY <2>0, <2>1, <2>2, OneMore, SMTT(40)
  <2>4. b4 = b3 \o e
    BY DEF b4
  <2>5. (s \o b3) \o E("game_length", m.game_length) = s \o b4
    BY <2>3, <2>4, Zenon
  <2> HIDE DEF e
  <2>6. /\ b4 \in Seq(Element) /\ Len(b4) = 4 /\ b4[4].value = m.game_length
        /\ \A i \in 1 .. 3 : b4[i] = b3[i]
    BY <2>3, <2>4, <2>7
  <2> QED BY <2>5, <2>6
<1>12. /\ b5 \in Seq(Element) /\ Len(b5) = 5 /\ b5[5].value = m.explosion_radius
      /\ \A i \in 1 .. 4 : b5[i] = b4[i]
      /\ (s \o b4) \o E("explosion_radius", m.explosion_radius) = s \o b5
  <2>1. b4 \in Seq(Element)
    BY <1>11
  <2>7. Len(b4) = 4
    BY <1>11
  <2>2. "explosion_radius" \in Fields /\ m.explosion_radius \in Value("explosion_radius")
    BY <1>1, <1>2
  <2> DEFINE e == E("explosion_radius", m.explosion_radius)
  <2>0. s \in Seq(Element)
    BY <1>3
  <2>3. /\ b4 \o e \in Seq(Element) /\ Len(b4 \o e) = Len(b4) + 1
        /\ (b4 \o e)[Len(b4) + 1].value = m.explosion_radius
        /\ \A i \in 1 .. Len(b4) : (b4 \o e)[i] = b4[i]
        /\ (s \o b4) \o e = s \o (b4 \o e)
    BY <2>0, <2>1, <2>2, OneMore, SMTT(40)
  <2>4. b5 = b4 \o e
    BY DEF b5
  <2>5. (s \o b4) \o E("explosion_radius", m.explosion_radius) = s \o b5
    BY <2>3, <2>4, Zenon
  <2> HIDE DEF e
  <2>6. /\ b5 \in Seq(Element) /\ Len(b5) = 5 /\ b5[5].value = m.explosion_radius
        /\ \A i \in 1 .. 4 : b5[i] = b4[i]
    BY <2>3, <2>4, <2>7
  <2> QED BY <2>5, <2>6
<1>13. /\ b6 \in Seq(Element) /\ Len(b6) = 6 /\ b6[6].value = m.bomb_timer
      /\ \A i \in 1 .. 5 : b6[i] = b5[i]
      /\ (s \o b5) \o E("bomb_timer", m.bomb_timer) = s \o b6
  <2>1. b5 \in Seq(Element)
    BY <1>12
  <2>7. Len(b5) = 5
    BY <1>12
  <2>2. "bomb_timer" \in Fields /\ m.bomb_timer \in Value("bomb_timer")
    BY <1>1, <1>2
  <2> DEFINE e == E("bomb_timer", m.bomb_timer)
  <2>0. s \in Seq(Element)
    BY <1>3
  <2>3. /\ b5 \o e \in Seq(Element) /\ Len(b5 \o e) = Len(b5) + 1
        /\ (b5 \o e)[Len(b5) + 1].value = m.bomb_timer
        /\ \A i \in 1 .. Len(b5) : (b5 \o e)[i] = b5[i]
        /\ (s \o b5) \o e = s \o (b5 \o e)
    BY <2>0, <2>1, <2>2, OneMore, SMTT(40)
  <2>4. b6 = b5 \o e
    BY DEF b6
  <2>5. (s \o b5) \o E("bomb_timer", m.bomb_timer) = s \o b6
    BY <2>3, <2>4, Zenon
  <2> HIDE DEF e
  <2>6. /\ b6 \in Seq(Element) /\ Len(b6) = 6 /\ b6[6].value = m.bomb_timer
        /\ \A i \in 1 .. 5 : b6[i] = b5[i]
    BY <2>3, <2>4, <2>7
  <2> QED BY <2>5, <2>6
<1>14. Settings(m) = s \o b6
  <2>1. (s \o b1) \o E("size_xy", m.size[1]) = s \o b2
    BY <1>9, SMTT(40)
  <2>2. (s \o b2) \o E("size_xy", m.size[2]) = s \o b3
    BY <1>10, SMTT(40)
  <2>3. (s \o b3) \o E("game_length", m.game_length) = s \o b4
    BY <1>11, SMTT(40)
  <2>4. (s \o b4) \o E("explosion_radius", m.explosion_radius) = s \o b5
    BY <1>12, SMTT(40)
  <2>5. (s \o b5) \o E("bomb_timer", m.bomb_timer) = s \o b6
    BY <1>13, SMTT(40)
  <2> QED BY <1>8, <2>1, <2>2, <2>3, <2>4, <2>5, ZenonT(60)
<1>15. /\ b6[1].value = m.players_count /\ b6[2].value = m.size[1] /\ b6[3].value = m.size[2]
       /\ b6[4].value = m.game_length /\ b6[5].value = m.explosion_radius
       /\ b6[6].value = m.bomb_timer
  <2>1. /\ b1[1].value = m.players_count /\ b2[2].value = m.size[1] /\ b3[3].value = m.size[2]
        /\ b4[4].value = m.game_length /\ b5[5].value = m.explosion_radius
        /\ b6[6].value = m.bomb_timer
    BY <1>6, <1>9, <1>10, <1>11, <1>12, <1>13
  <2>2. b3[1] = b1[1] /\ b3[2] = b2[2]
    BY <1>9, <1>10
  <2>3. b4[1] = b3[1] /\ b4[2] = b3[2] /\ b4[3] = b3[3]
    BY <1>11
  <2>4. b6[1] = b4[1] /\ b6[2] = b4[2] /\ b6[3] = b4[3] /\ b6[4] = b4[4]
    BY <1>12, <1>13
  <2>5. b6[5] = b5[5]
    BY <1>13
  <2> QED BY <2>1, <2>2, <2>3, <2>4, <2>5
<1> DEFINE k == AfterString(x, 2)
<1>16. /\ StringAt(x, 2) = CutString(m.server_name)
       /\ k = 2 + Cut(m.server_name) + 1
       /\ \A i \in 1 .. 6 : x[k + (i - 1)] = b6[i]
  <2>1. x = a \o (String(m.server_name) \o b6) /\ 2 = Len(a) + 1
    BY <1>4, <1>7, <1>14 DEF s
  <2>2. a \in Seq(Element) /\ b6 \in Seq(Element) /\ Len(b6) = 6 /\ m.server_name \in AnyString
    BY <1>1, <1>4, <1>13
  <2> DEFINE y == a \o (String(m.server_name) \o b6)
  <2>5. /\ StringAt(y, 2) = CutString(m.server_name)
        /\ AfterString(y, 2) = 2 + Cut(m.server_name) + 1
        /\ \A i \in 1 .. Len(b6) : y[AfterString(y, 2) + (i - 1)] = b6[i]
    <3> DEFINE two == 2
    <3>1. two = Len(a) + 1
      BY <2>1
    <3>2. a \in Seq(Element) /\ b6 \in Seq(Element) /\ m.server_name \in AnyString
      BY <2>2
    <3> HIDE DEF two
    <3>3. StringAt(y, two) = CutString(m.server_name)
      BY <3>1, <3>2, StringIsAt
    <3>4. AfterString(y, two) = two + Cut(m.server_name) + 1
      BY <3>1, <3>2, StringIsAt
    <3>5. \A i \in 1 .. Len(b6) : y[AfterString(y, two) + (i - 1)] = b6[i]
      BY <3>1, <3>2, StringIsAt, ZenonT(40), SMTT(60)
    <3> QED BY <3>3, <3>4, <3>5 DEF two
  <2> HIDE DEF y
  <2>6. x = y
    BY <2>1 DEF y
  <2>3. \A i \in 1 .. Len(b6) : x[k + (i - 1)] = b6[i]
    <3> SUFFICES ASSUME NEW i \in 1 .. Len(b6) PROVE x[k + (i - 1)] = b6[i]
      OBVIOUS
    <3>1. y[AfterString(y, 2) + (i - 1)] = b6[i]
      BY <2>5
    <3> QED BY <3>1, <2>6
  <2>4. StringAt(x, 2) = CutString(m.server_name) /\ k = 2 + Cut(m.server_name) + 1
    BY <2>5, <2>6
  <2> QED BY <2>2, <2>3, <2>4
<1>17. HelloRead(x) =
         [server_name |-> StringAt(x, 2), players_count |-> x[k].value,
          size |-> <<x[k + 1].value, x[k + 2].value>>, game_length |-> x[k + 3].value,
          explosion_radius |-> x[k + 4].value, bomb_timer |-> x[k + 5].value]
  BY Zenon DEF HelloRead
<1>18. k \in Nat
  BY <1>1, <1>16, CutType
<1> HIDE DEF k
<1>19. /\ x[k] = b6[1] /\ x[k + 1] = b6[2] /\ x[k + 2] = b6[3] /\ x[k + 3] = b6[4]
       /\ x[k + 4] = b6[5] /\ x[k + 5] = b6[6]
  BY <1>16, <1>18
<1> QED BY <1>15, <1>16, <1>17, <1>19 DEF CutHello, x

\* The same of AcceptedPlayer and its player.
LEMMA AcceptedPlayerIsRead ==
  ASSUME NEW m, m.type = "AcceptedPlayer", m.id \in Value("player_id"), m.player \in AnyPlayer
  PROVE  /\ AcceptedPlayerRead(ServerElements(m)).id = m.id
         /\ AcceptedPlayerRead(ServerElements(m)).player = CutPlayer(m.player)
<1> DEFINE s == String(m.player.name)
           t == String(m.player.address)
           c == E("server_message", ServerCodes["AcceptedPlayer"])
           a == c \o Id(m.id)
           x == ServerElements(m)
<1>1. m.player.name \in AnyString /\ m.player.address \in AnyString
  BY DEF AnyPlayer
<1>2. s \in Seq(Element) /\ t \in Seq(Element) /\ Len(s) = Cut(m.player.name) + 1
      /\ Cut(m.player.name) \in Nat
  BY <1>1, StringParts, CutType
<1>3. c \in Seq(Element) /\ Len(c) = 1
  <2>1. ServerCodes["AcceptedPlayer"] = 1 /\ "server_message" \in Fields
    BY DEF ServerCodes, Fields
  <2>2. 1 \in Value("server_message")
    BY PowerGrows, EncodingAssumption DEF Value, SizeOf
  <2> QED BY <2>1, <2>2, ElementIs DEF E
<1>4. Id(m.id) \in Seq(Element) /\ Len(Id(m.id)) = 1
  <2>1. "player_id" \in Fields
    BY DEF Fields
  <2> QED BY <2>1, ElementIs DEF Id, E
<1>5. a \in Seq(Element) /\ Len(a) = 2 /\ a[2].value = m.id
  <2>1. "player_id" \in Fields /\ a = c \o E("player_id", m.id)
    BY DEF Fields, Id
  <2> HIDE DEF a, c
  <2>2. Len(c) = 1 /\ c \in Seq(Element)
    BY <1>3
  <2> QED BY <2>1, <2>2, OneMore
<1>6. x = c \o (Id(m.id) \o (s \o t))
  BY Zenon DEF ServerElements, Player
<1> HIDE DEF c, s, t, x
<1>20. s \in Seq(Element) /\ t \in Seq(Element)
  BY <1>2
<1>21. c \in Seq(Element) /\ Id(m.id) \in Seq(Element)
  BY <1>3, <1>4
<1>22. a \in Seq(Element)
  BY <1>5
<1>7. s \o t \in Seq(Element)
  BY <1>20, ConcatParts
<1>8. x = a \o (s \o t)
  <2>1. (c \o Id(m.id)) \o (s \o t) = c \o (Id(m.id) \o (s \o t))
    <3>1. c \in Seq(Element)
      BY <1>21
    <3>2. Id(m.id) \in Seq(Element)
      BY <1>21
    <3> DEFINE i == Id(m.id)
               r == s \o t
    <3>3. i \in Seq(Element) /\ r \in Seq(Element)
      BY <3>2, <1>7
    <3> HIDE DEF a, i, r
    <3>4. (c \o i) \o r = c \o (i \o r)
      BY <3>1, <3>3, Regroup
    <3> QED BY <3>4 DEF i, r
  <2>2. a = c \o Id(m.id)
    BY Zenon DEF a
  <2> HIDE DEF a
  <2>3. a \o (s \o t) = c \o (Id(m.id) \o (s \o t))
    BY <2>1, <2>2, Zenon
  <2> QED BY <2>3, <1>6, Zenon
<1> HIDE DEF a
<1>9. x[2].value = m.id
  <2>1. x[2] = a[2]
    <3>1. \A i \in 1 .. Len(a) : (a \o (s \o t))[i] = a[i]
      BY <1>22, <1>7, ConcatParts
    <3>2. 2 \in 1 .. Len(a)
      BY <1>5
    <3> QED BY <3>1, <3>2, <1>8, Zenon
  <2> QED BY <2>1, <1>5
<1>10. /\ StringAt(x, 3) = CutString(m.player.name)
       /\ AfterString(x, 3) = 3 + Cut(m.player.name) + 1
  <2>1. x = a \o (String(m.player.name) \o t) /\ 3 = Len(a) + 1
    BY <1>5, <1>8 DEF s
  <2> QED BY <2>1, <1>1, <1>20, <1>22, StringIsAt
<1>11. StringAt(x, AfterString(x, 3)) = CutString(m.player.address)
  <2> DEFINE d == a \o s
  <2>1. d \in Seq(Element) /\ Len(d) = 2 + (Cut(m.player.name) + 1)
    <3>1. d \in Seq(Element) /\ Len(d) = Len(a) + Len(s)
      BY <1>20, <1>22, ConcatParts
    <3> QED BY <3>1, <1>2, <1>5
  <2>2. x = d \o t
    <3>1. (a \o s) \o t = a \o (s \o t)
      BY <1>20, <1>22, Regroup
    <3> QED BY <3>1, <1>8
  <2>6. d \in Seq(Element)
    BY <2>1
  <2> HIDE DEF d
  <2> DEFINE z == <<>>
  <2>3. t \o z = t /\ z \in Seq(Element)
    BY <1>2
  <2> HIDE DEF z
  <2>4. x = d \o (String(m.player.address) \o z)
    BY <2>2, <2>3 DEF t
  <2>5. AfterString(x, 3) = Len(d) + 1
    BY <1>2, <1>10, <2>1
  <2> DEFINE k == AfterString(x, 3)
  <2>7. k = Len(d) + 1
    BY <2>5
  <2> HIDE DEF k
  <2>8. StringAt(x, k) = CutString(m.player.address)
    <3>1. z \in Seq(Element) /\ m.player.address \in AnyString
      BY <1>1, <2>3
    <3>2. StringAt(d \o (String(m.player.address) \o z), k) = CutString(m.player.address)
      BY <2>6, <2>7, <3>1, StringIsAt
    <3> QED BY <2>4, <3>2, Zenon
  <2> QED BY <2>8 DEF k
<1> QED BY <1>9, <1>10, <1>11 DEF AcceptedPlayerRead, CutPlayer, x

-----------------------------------------------------------------------------
(* The messages to the GUI                                                 *)

LEMMA GuiMessageType ==
  ASSUME NEW kind \in {"Lobby", "Game"}
  PROVE  E("gui_message", GuiCodes[kind]) \in Seq(Element)
<1>1. GuiCodes[kind] \in 0 .. 1 /\ "gui_message" \in Fields
  BY DEF GuiCodes, Fields
<1>2. 0 .. 1 \subseteq Value("gui_message")
  BY PowerGrows, EncodingAssumption DEF Value, SizeOf
<1> QED BY <1>1, <1>2, ElementIs

LEMMA LobbyType ==
  ASSUME NEW m, m.type = "Lobby", IsSettings(m), IsByPlayer(m.players, AnyPlayer)
  PROVE  /\ GuiElements(m)
              = E("gui_message", GuiCodes["Lobby"]) \o (Settings(m) \o Players(m.players))
         /\ GuiElements(m) \in Seq(Element)
<1>1. GuiElements(m)
        = E("gui_message", GuiCodes["Lobby"]) \o (Settings(m) \o Players(m.players))
  BY Zenon DEF GuiElements
<1>2. Settings(m) \in Seq(Element) /\ Players(m.players) \in Seq(Element)
  BY ReadsSettings, ReadsPlayers DEF Reads
<1>3. E("gui_message", GuiCodes["Lobby"]) \in Seq(Element)
  BY GuiMessageType
<1> QED BY <1>1, <1>2, <1>3, Concat2

LEMMA PositionsType ==
  ASSUME NEW field \in {"blocks", "explosions"}, NEW s \in Entries(field, AnyPosition)
  PROVE  Positions(field, s) \in Seq(Element)
<1> DEFINE items == [k \in DOMAIN s |-> Position(s[k])]
<1>1. /\ s \in Seq(AnyPosition) /\ Len(s) \in Value(field) /\ DOMAIN s = 1 .. Len(s)
      /\ Len(s) \in Nat
  BY DEF Entries
<1>2. \A k \in 1 .. Len(s) : Position(s[k]) \in Seq(Element)
  <2> SUFFICES ASSUME NEW k \in 1 .. Len(s) PROVE Position(s[k]) \in Seq(Element)
    OBVIOUS
  <2>1. s[k] \in AnyPosition
    BY <1>1
  <2> QED BY <2>1, ReadsPosition DEF Reads
<1>3. items \in [1 .. Len(s) -> Seq(Element)]
  BY <1>1, <1>2
<1>4. items \in Lists(Element) /\ Len(items) = Len(s)
  BY <1>1, <1>3 DEF Lists
<1>5. field \in Fields
  BY DEF Fields
<1> HIDE DEF items
<1>6. Vector(field, items) \in Seq(Element)
  BY <1>1, <1>4, <1>5, VectorType
<1> QED BY <1>6 DEF Positions, items

LEMMA BombsType ==
  ASSUME NEW s \in Entries("bombs", AnyBomb)
  PROVE  Vector("bombs", [k \in DOMAIN s |-> Bomb(s[k])]) \in Seq(Element)
<1> DEFINE items == [k \in DOMAIN s |-> Bomb(s[k])]
<1>1. /\ s \in Seq(AnyBomb) /\ Len(s) \in Value("bombs") /\ DOMAIN s = 1 .. Len(s)
      /\ Len(s) \in Nat
  BY DEF Entries
<1>2. \A k \in 1 .. Len(s) : Bomb(s[k]) \in Seq(Element)
  <2> SUFFICES ASSUME NEW k \in 1 .. Len(s) PROVE Bomb(s[k]) \in Seq(Element)
    OBVIOUS
  <2>1. s[k] \in AnyBomb
    BY <1>1
  <2>2. s[k].position \in AnyPosition /\ s[k].timer \in Value("bomb_timer")
    BY <2>1 DEF AnyBomb
  <2>3. Position(s[k].position) \in Seq(Element)
    BY <2>2, ReadsPosition DEF Reads
  <2>4. E("bomb_timer", s[k].timer) \in Seq(Element)
    BY <2>2, ElementIs DEF Fields
  <2> QED BY <2>3, <2>4, Concat2 DEF Bomb
<1>3. items \in [1 .. Len(s) -> Seq(Element)]
  BY <1>1, <1>2
<1>4. items \in Lists(Element) /\ Len(items) = Len(s)
  BY <1>1, <1>3 DEF Lists
<1>5. "bombs" \in Fields
  BY DEF Fields
<1> HIDE DEF items
<1>6. Vector("bombs", items) \in Seq(Element)
  BY <1>1, <1>4, <1>5, VectorType
<1> QED BY <1>6 DEF items

LEMMA PlayerPositionsType ==
  ASSUME NEW m, IsByPlayer(m, AnyPosition)
  PROVE  Map("positions", [id \in DOMAIN m |-> Position(m[id])]) \in Seq(Element)
<1> DEFINE items == [id \in DOMAIN m |-> Position(m[id])]
           ids == Ascending(DOMAIN items)
           entries == [k \in DOMAIN ids |-> E("player_id", ids[k]) \o items[ids[k]]]
<1>1. DOMAIN items = DOMAIN m /\ DOMAIN m \subseteq Value("player_id")
  BY DEF IsByPlayer
<1>2. ASSUME NEW id \in DOMAIN m PROVE items[id] \in Seq(Element)
  <2>1. m[id] \in AnyPosition
    BY DEF IsByPlayer
  <2>2. Position(m[id]) \in Seq(Element)
    BY <2>1, ReadsPosition DEF Reads
  <2> QED BY <2>2
<1>3. "positions" \in Large /\ "positions" \in Fields
  BY DEF Large, Fields
<1> HIDE DEF items
<1>4. \A id \in DOMAIN items : items[id] \in Seq(Element)
  BY <1>1, <1>2
<1>5. /\ entries \in Lists(Element) /\ Len(entries) \in Value("positions")
      /\ Map("positions", items) = Vector("positions", entries)
  BY <1>1, <1>3, <1>4, MapItems
<1> HIDE DEF entries
<1>6. Vector("positions", entries) \in Seq(Element)
  BY <1>3, <1>5, VectorType
<1> QED BY <1>5, <1>6 DEF items

LEMMA GameType ==
  ASSUME NEW m, IsGameMessage(m)
  PROVE  GuiElements(m) \in Seq(Element)
<1>1. /\ m.type = "Game" /\ m.server_name \in AnyString /\ m.size \in AnyPosition
      /\ m.game_length \in Value("game_length") /\ m.turn \in Value("turn")
      /\ IsByPlayer(m.players, AnyPlayer) /\ IsByPlayer(m.player_positions, AnyPosition)
      /\ m.blocks \in Entries("blocks", AnyPosition)
      /\ m.bombs \in Entries("bombs", AnyBomb)
      /\ m.explosions \in Entries("explosions", AnyPosition)
      /\ IsByPlayer(m.scores, Value("score"))
  BY DEF IsGameMessage
<1> DEFINE x1 == String(m.server_name)
           x2 == E("size_xy", m.size[1])
           x3 == E("size_xy", m.size[2])
           x4 == E("game_length", m.game_length)
           x5 == E("turn", m.turn)
           x6 == Players(m.players)
           x7 == Map("positions", [id \in DOMAIN m.player_positions |->
                                     Position(m.player_positions[id])])
           x8 == Positions("blocks", m.blocks)
           x9 == Vector("bombs", [k \in DOMAIN m.bombs |-> Bomb(m.bombs[k])])
           x10 == Positions("explosions", m.explosions)
           x11 == Scores(m.scores)
           x0 == E("gui_message", GuiCodes["Game"])
<1>2. x0 \in Seq(Element)
  BY GuiMessageType
<1>3. x1 \in Seq(Element)
  BY <1>1, ReadsString DEF Reads
<1>4. x2 \in Seq(Element) /\ x3 \in Seq(Element) /\ x4 \in Seq(Element) /\ x5 \in Seq(Element)
  <2>1. m.size[1] \in Value("size_xy") /\ m.size[2] \in Value("size_xy")
    BY <1>1 DEF AnyPosition
  <2>2. "size_xy" \in Fields /\ "game_length" \in Fields /\ "turn" \in Fields
    BY DEF Fields
  <2> QED BY <1>1, <2>1, <2>2, ElementIs
<1>5. x6 \in Seq(Element) /\ x11 \in Seq(Element)
  BY <1>1, ReadsPlayers, ReadsScores DEF Reads
<1>6. x7 \in Seq(Element)
  BY <1>1, PlayerPositionsType
<1>7. x8 \in Seq(Element) /\ x10 \in Seq(Element)
  BY <1>1, PositionsType
<1>8. x9 \in Seq(Element)
  BY <1>1, BombsType
<1>9. GuiElements(m) = x0 \o (((((((((((x1 \o x2) \o x3) \o x4) \o x5) \o x6) \o x7) \o x8)
                                 \o x9) \o x10) \o x11))
  <2> HIDE DEF x0, x1, x2, x3, x4, x5, x6, x7, x8, x9, x10, x11
  <2> QED BY <1>1, Zenon DEF GuiElements, x0, x1, x2, x3, x4, x5, x6, x7, x8, x9, x10, x11
<1> HIDE DEF x0, x1, x2, x3, x4, x5, x6, x7, x8, x9, x10, x11
<1>10. ((((x1 \o x2) \o x3) \o x4) \o x5) \in Seq(Element)
  BY <1>3, <1>4, Concat2
<1> DEFINE y == ((((x1 \o x2) \o x3) \o x4) \o x5)
<1>11. GuiElements(m) = x0 \o ((((((y \o x6) \o x7) \o x8) \o x9) \o x10) \o x11)
  BY <1>9
<1>12. y \in Seq(Element)
  BY <1>10
<1> HIDE DEF y
<1>13. ((y \o x6) \o x7) \o x8 \in Seq(Element)
  BY <1>5, <1>6, <1>7, <1>12, Concat2
<1> DEFINE z == ((y \o x6) \o x7) \o x8
<1>14. GuiElements(m) = x0 \o (((z \o x9) \o x10) \o x11) /\ z \in Seq(Element)
  BY <1>11, <1>13
<1> HIDE DEF z
<1>15. ((z \o x9) \o x10) \o x11 \in Seq(Element)
  BY <1>5, <1>7, <1>8, <1>14, Concat2
<1> QED BY <1>2, <1>14, <1>15, Concat2
=============================================================================
