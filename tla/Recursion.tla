----------------------------- MODULE Recursion ------------------------------
(***************************************************************************)
(* Induction over sets of numbers, and that a function defined by          *)
(* recursion is what its definition says.                                  *)
(*                                                                         *)
(* The theorems of the library about these take an operator as a           *)
(* parameter.  Here a predicate is the set of the numbers that have it,    *)
(* and the body of a recursive definition is a function from an argument   *)
(* and an approximation to the value.                                      *)
(***************************************************************************)
EXTENDS Naturals, SequencesExt, SequenceTheorems,
        FiniteSetTheorems, WellFoundedInduction, TLAPS

\* A set of natural numbers has a least one.
LEMMA LeastNumber ==
    ASSUME NEW I, I \subseteq Nat, I # {}
    PROVE  \E m \in I : \A k \in I : m <= k
<1> DEFINE R == OpToRel(<, Nat)
<1>1. IsWellFoundedOn(R, Nat)
  BY NatLessThanWellFounded
<1>2. \A x, y \in Nat : x < y => <<x, y>> \in R
  BY DEF OpToRel
<1> HIDE DEF R
<1>3. PICK x \in I : \A y \in I : ~(<<y, x>> \in R)
  BY <1>1, WFMin
<1>4. \A y \in I : x <= y
  <2>1. \A y \in I : ~(y < x)
    BY <1>2, <1>3, Zenon
  <2>2. x \in Nat /\ \A y \in I : y \in Nat
    OBVIOUS
  <2>3. QED
    BY <2>1, <2>2
<1>5. QED
  BY <1>3, <1>4

\* What has 0 and the successor of each of its numbers has them all.
LEMMA Induction ==
    ASSUME NEW S, 0 \in S, \A n \in Nat : n \in S => n + 1 \in S
    PROVE  Nat \subseteq S
<1> SUFFICES ASSUME Nat \ S # {} PROVE FALSE
  OBVIOUS
<1>1. PICK m \in Nat \ S : \A k \in Nat \ S : m <= k
  BY LeastNumber
<1>2. m # 0 /\ m - 1 \in Nat /\ (m - 1) + 1 = m
  BY <1>1
<1>3. m - 1 \in S
  BY <1>1, <1>2
<1>4. QED
  BY <1>1, <1>2, <1>3

\* The same up to a bound.
LEMMA InductionUpTo ==
    ASSUME NEW N \in Nat, NEW S, 0 \in S, \A n \in 0..N - 1 : n \in S => n + 1 \in S
    PROVE  0..N \subseteq S
<1> DEFINE T == {n \in Nat : n <= N => n \in S}
<1>1. 0 \in T
  OBVIOUS
<1>2. \A n \in Nat : n \in T => n + 1 \in T
  OBVIOUS
<1> HIDE DEF T
<1>3. Nat \subseteq T
  BY <1>1, <1>2, Induction
<1>4. QED
  BY <1>3 DEF T

\* What each element has as soon as the elements of a lower rank have it, they
\* all have.
LEMMA RankInduction ==
    ASSUME NEW D, NEW rank \in [D -> Nat], NEW T,
           \A x \in D : (\A y \in D : rank[y] < rank[x] => y \in T) => x \in T
    PROVE  D \subseteq T
<1> DEFINE I == {rank[x] : x \in D \ T}
<1> SUFFICES ASSUME D \ T # {} PROVE FALSE
  OBVIOUS
<1>1. I \subseteq Nat /\ I # {}
  OBVIOUS
<1>2. PICK m \in I : \A k \in I : m <= k
  <2> HIDE DEF I
  <2>1. QED
    BY <1>1, LeastNumber
<1>3. PICK x \in D \ T : rank[x] = m
  BY <1>2
<1>4. \A y \in D : rank[y] < rank[x] => y \in T
  <2> SUFFICES ASSUME NEW y \in D, y \notin T PROVE ~(rank[y] < rank[x])
    OBVIOUS
  <2>1. rank[x] <= rank[y]
    BY <1>2, <1>3
  <2>2. QED
    BY <2>1
<1>5. QED
  BY <1>3, <1>4

\* The value at each argument depends only on the values at arguments of a
\* lower rank, of which there are finitely many.
IsRecursion(D, V, rank, Body) ==
    /\ V # {}
    /\ \E N \in Nat : rank \in [D -> 0..N]
    /\ Body \in [D -> [[D -> V] -> V]]
    /\ \A x \in D : \A f, g \in [D -> V] :
           (\A y \in D : rank[y] < rank[x] => f[y] = g[y]) => Body[x][f] = Body[x][g]

\* Then there is a function that has all of them.
THEOREM RecursiveFunction ==
    ASSUME NEW D, NEW V, NEW rank, NEW Body, IsRecursion(D, V, rank, Body)
    PROVE  \E f \in [D -> V] : \A x \in D : f[x] = Body[x][f]
<1> PICK N \in Nat : rank \in [D -> 0..N]
  BY DEF IsRecursion
<1> PICK v0 \in V : TRUE
  BY DEF IsRecursion
<1> Body \in [D -> [[D -> V] -> V]]
  BY DEF IsRecursion
<1>0. ASSUME NEW x \in D, NEW f \in [D -> V], NEW g \in [D -> V],
             \A y \in D : rank[y] < rank[x] => f[y] = g[y]
      PROVE  Body[x][f] = Body[x][g]
  BY <1>0 DEF IsRecursion
<1> DEFINE Good(n, f) == \A x \in D : rank[x] < n => f[x] = Body[x][f]
           S == {n \in Nat : \E f \in [D -> V] : Good(n, f)}
<1>1. 0 \in S
  <2>1. [x \in D |-> v0] \in [D -> V] /\ Good(0, [x \in D |-> v0])
    OBVIOUS
  <2>2. QED
    BY <2>1
<1>2. ASSUME NEW n \in Nat, n \in S
      PROVE  n + 1 \in S
  <2>1. PICK f \in [D -> V] : Good(n, f)
    BY <1>2
  <2> DEFINE g == [x \in D |-> IF rank[x] = n THEN Body[x][f] ELSE f[x]]
  <2>2. g \in [D -> V] /\ \A x \in D : rank[x] < n => g[x] = f[x]
    OBVIOUS
  <2>3. ASSUME NEW x \in D, rank[x] <= n
        PROVE  Body[x][g] = Body[x][f]
    <3>1. \A y \in D : rank[y] < rank[x] => rank[y] < n
      BY <2>3
    <3>2. \A y \in D : rank[y] < rank[x] => g[y] = f[y]
      BY <2>2, <3>1
    <3> HIDE DEF g
    <3>3. QED
      BY <1>0, <2>2, <3>2
  <2>4. ASSUME NEW x \in D, rank[x] < n + 1
        PROVE  g[x] = Body[x][g]
    <3>1. CASE rank[x] = n
      BY <2>3, <3>1
    <3>2. CASE rank[x] < n
      BY <2>1, <2>3, <3>2
    <3>3. rank[x] \in Nat
      OBVIOUS
    <3> HIDE DEF g, Good
    <3>4. rank[x] = n \/ rank[x] < n
      <4>1. \A a, b \in Nat : a < b + 1 => a = b \/ a < b
        OBVIOUS
      <4>2. QED
        BY <2>4, <3>3, <4>1
    <3>5. QED
      BY <3>1, <3>2, <3>4
  <2> HIDE DEF g
  <2>5. QED
    BY <2>2, <2>4
<1> HIDE DEF S
<1>3. N + 1 \in S
  BY <1>1, <1>2, Induction
<1>4. PICK f \in [D -> V] : \A x \in D : rank[x] < N + 1 => f[x] = Body[x][f]
  BY <1>3 DEF S
<1>5. \A x \in D : f[x] = Body[x][f]
  BY <1>4
<1>6. QED
  BY <1>5

\* Every value of h follows from its values of a lower rank in the way of the
\* recursion.
Follows(h, D, V, rank, Body) ==
    \A x \in D : \A f \in [D -> V] :
        (\A y \in D : rank[y] < rank[x] => h[y] = f[y]) => h[x] = Body[x][f]

\* Then h is the recursive function.
LEMMA RecursiveValues ==
    ASSUME NEW D, NEW V, NEW rank, NEW Body, IsRecursion(D, V, rank, Body),
           NEW h, h = [x \in D |-> h[x]], Follows(h, D, V, rank, Body)
    PROVE  h \in [D -> V] /\ \A x \in D : h[x] = Body[x][h]
<1>1. PICK f \in [D -> V] : \A x \in D : f[x] = Body[x][f]
  BY RecursiveFunction
<1> DEFINE E == {x \in D : h[x] = f[x]}
<1>2. rank \in [D -> Nat]
  BY DEF IsRecursion
<1>3. ASSUME NEW x \in D, \A y \in D : rank[y] < rank[x] => y \in E
      PROVE  x \in E
  BY <1>1, <1>3 DEF Follows
<1> HIDE DEF E
<1>4. D \subseteq E
  BY <1>2, <1>3, RankInduction
<1>5. h = f
  BY <1>4 DEF E
<1>6. QED
  BY <1>1, <1>5

-----------------------------------------------------------------------------
(* Sequences. *)

\* FlattenSeq puts the parts one behind the other.
LEMMA FlattenIs ==
    ASSUME NEW S, NEW parts \in Seq(Seq(S)), Len(parts) > 0
    PROVE  \E f \in [1..Len(parts) -> Seq(S)] :
              /\ FlattenSeq(parts) = f[Len(parts)]
              /\ f[1] = parts[1]
              /\ \A i \in 2..Len(parts) : f[i] = f[i - 1] \o parts[i]
<1> DEFINE D == 1..Len(parts)
           body(f, i) == IF i = 1 THEN parts[i] ELSE f[i - 1] \o parts[i]
           Body == [i \in D |-> [f \in [D -> Seq(S)] |-> body(f, i)]]
           rank == [i \in D |-> i]
           Is(f) == f = [i \in D |-> body(f, i)]
<1>1. FlattenSeq(parts) = (CHOOSE f : Is(f))[Len(parts)]
  BY DEF FlattenSeq
<1>2. Len(parts) \in Nat /\ \A i \in D : parts[i] \in Seq(S)
  OBVIOUS
<1>3. \A i \in D : i # 1 => i - 1 \in D /\ i - 1 < i
  OBVIOUS
<1>4. \A i \in D : rank[i] = i
  OBVIOUS
<1>5. rank \in [D -> 0..Len(parts)] /\ rank \in [D -> Nat]
  BY <1>2
<1> HIDE DEF D, rank
<1>6. ASSUME NEW i \in D, NEW f, NEW g, \A j \in D : rank[j] < rank[i] => f[j] = g[j]
      PROVE  body(f, i) = body(g, i)
  <2>1. i # 1 => f[i - 1] = g[i - 1]
    BY <1>3, <1>4, <1>6
  <2>2. QED
    BY <2>1
<1>7. ASSUME NEW i \in D, NEW f \in [D -> Seq(S)]
      PROVE  body(f, i) \in Seq(S)
  <2>1. i # 1 => f[i - 1] \in Seq(S)
    BY <1>3
  <2>2. QED
    BY <1>2, <2>1
<1>8. \A f : Is(f) => \A i \in D : f[i] = body(f, i)
  OBVIOUS
<1> HIDE DEF body
<1>9. \A i \in D : \A f \in [D -> Seq(S)] : Body[i][f] = body(f, i)
  OBVIOUS
<1>10. IsRecursion(D, Seq(S), rank, Body)
  <2>1. Seq(S) # {} /\ Body \in [D -> [[D -> Seq(S)] -> Seq(S)]]
    BY <1>7
  <2> HIDE DEF Body
  <2>2. ASSUME NEW i \in D, NEW f \in [D -> Seq(S)], NEW g \in [D -> Seq(S)],
               \A j \in D : rank[j] < rank[i] => f[j] = g[j]
        PROVE  Body[i][f] = Body[i][g]
    <3>1. body(f, i) = body(g, i)
      BY <1>6, <2>2
    <3>2. QED
      BY <1>9, <3>1
  <2>3. QED
    BY <1>2, <1>5, <2>1, <2>2 DEF IsRecursion
<1> HIDE DEF Body
<1>11. \E f : Is(f)
  <2>1. PICK f \in [D -> Seq(S)] : \A i \in D : f[i] = Body[i][f]
    BY <1>10, RecursiveFunction
  <2>2. QED
    BY <1>9, <2>1
<1> DEFINE h == CHOOSE f : Is(f)
<1>12. Is(h)
  <2> HIDE DEF Is
  <2>1. QED
    BY <1>11
<1>13. h = [i \in D |-> h[i]] /\ \A i \in D : h[i] = body(h, i)
  <2> HIDE DEF h
  <2>1. QED
    BY <1>12
<1>14. FlattenSeq(parts) = h[Len(parts)]
  BY <1>1
<1> HIDE DEF h, Is
<1>15. Follows(h, D, Seq(S), rank, Body)
  <2>1. ASSUME NEW i \in D, NEW f \in [D -> Seq(S)],
               \A j \in D : rank[j] < rank[i] => h[j] = f[j]
        PROVE  h[i] = Body[i][f]
    <3>1. body(h, i) = body(f, i)
      BY <1>6, <2>1
    <3>2. QED
      BY <1>9, <1>13, <3>1
  <2>2. QED
    BY <2>1 DEF Follows
<1>16. h \in [D -> Seq(S)]
  BY <1>10, <1>13, <1>15, RecursiveValues
<1>17. h[1] = parts[1] /\ \A i \in 2..Len(parts) : h[i] = h[i - 1] \o parts[i]
  <2>1. 1 \in D /\ \A i \in 2..Len(parts) : i \in D /\ i # 1
    BY <1>2 DEF D
  <2>2. QED
    BY <1>13, <2>1 DEF body
<1>18. QED
  BY <1>14, <1>16, <1>17 DEF D

\* Part k of a flattened sequence stands between cut[k - 1] and cut[k].
IsCut(cut, flat, parts) ==
    /\ cut \in [0..Len(parts) -> Nat]
    /\ cut[0] = 0 /\ cut[Len(parts)] = Len(flat)
    /\ \A k \in 1..Len(parts) :
          /\ cut[k] = cut[k - 1] + Len(parts[k])
          /\ cut[k] <= Len(flat)
          /\ \A j \in 1..Len(parts[k]) : flat[cut[k - 1] + j] = parts[k][j]

THEOREM FlattenParts ==
    ASSUME NEW S, NEW parts \in Seq(Seq(S))
    PROVE  /\ FlattenSeq(parts) \in Seq(S)
           /\ \E cut : IsCut(cut, FlattenSeq(parts), parts)
<1> DEFINE n == Len(parts)
           flat == FlattenSeq(parts)
<1>1. n \in Nat /\ \A k \in 1..n : parts[k] \in Seq(S)
  OBVIOUS
<1>2. CASE n = 0
  <2>1. parts = <<>> /\ flat = <<>>
    BY <1>2 DEF FlattenSeq
  <2>2. IsCut([k \in 0..n |-> 0], <<>>, <<>>)
    BY <1>2 DEF IsCut
  <2>3. QED
    BY <2>1, <2>2
<1>3. CASE n > 0
  <2>1. PICK f \in [1..n -> Seq(S)] :
            /\ flat = f[n] /\ f[1] = parts[1]
            /\ \A i \in 2..n : f[i] = f[i - 1] \o parts[i]
    BY <1>3, FlattenIs
  <2> DEFINE cut == [k \in 0..n |-> IF k = 0 THEN 0 ELSE Len(f[k])]
             Placed(i, k) == /\ cut[k] <= Len(f[i])
                             /\ \A j \in 1..Len(parts[k]) : f[i][cut[k - 1] + j] = parts[k][j]
  <2> HIDE DEF n, flat, cut
  <2>2. \A i \in 1..n : f[i] \in Seq(S) /\ Len(f[i]) \in Nat
    <3>1. \A i \in 1..n : f[i] \in Seq(S)
      OBVIOUS
    <3>2. \A q \in Seq(S) : Len(q) \in Nat
      OBVIOUS
    <3>3. QED
      BY <3>1, <3>2
  <2> USE DEF cut
  <2>3. cut \in [0..n -> Nat] /\ cut[0] = 0 /\ \A i \in 1..n : cut[i] = Len(f[i])
    BY <1>1, <2>2
  <2> HIDE DEF cut
  \* One part is put behind the others.
  <2>4. ASSUME NEW i \in 1..n, i # 1
        PROVE  /\ i - 1 \in 1..n /\ cut[i] = cut[i - 1] + Len(parts[i])
               /\ Len(parts[i]) \in Nat
               /\ \A x \in 1..cut[i - 1] : f[i][x] = f[i - 1][x]
               /\ \A j \in 1..Len(parts[i]) : f[i][cut[i - 1] + j] = parts[i][j]
    <3>1. i \in 2..n /\ i - 1 \in 1..n
      BY <1>1, <2>4
    <3>2. f[i] = f[i - 1] \o parts[i] /\ cut[i - 1] = Len(f[i - 1]) /\ cut[i] = Len(f[i])
      BY <2>1, <2>3, <3>1
    <3>3. f[i - 1] \in Seq(S) /\ parts[i] \in Seq(S)
      BY <1>1, <2>2, <3>1
    <3>4. Len(f[i - 1]) \in Nat /\ Len(parts[i]) \in Nat
      BY <3>3
    <3> HIDE DEF cut
    <3>5. /\ Len(f[i]) = Len(f[i - 1]) + Len(parts[i])
          /\ \A x \in 1..Len(f[i - 1]) + Len(parts[i]) :
                f[i][x] = IF x <= Len(f[i - 1]) THEN f[i - 1][x]
                          ELSE parts[i][x - Len(f[i - 1])]
      <4> DEFINE a == f[i - 1]
                 b == parts[i]
      <4>1. a \in Seq(S) /\ b \in Seq(S) /\ f[i] = a \o b
        BY <3>2, <3>3
      <4> HIDE DEF a, b
      <4>2. /\ Len(a \o b) = Len(a) + Len(b)
            /\ \A x \in 1..Len(a) + Len(b) :
                  (a \o b)[x] = IF x <= Len(a) THEN a[x] ELSE b[x - Len(a)]
        BY <4>1, ConcatProperties
      <4>3. QED
        BY <4>1, <4>2 DEF a, b
    <3>6. \A l, m \in Nat : /\ \A x \in 1..l : x \in 1..l + m /\ x <= l
                            /\ \A j \in 1..m : /\ l + j \in 1..l + m /\ ~(l + j <= l)
                                               /\ (l + j) - l = j
      OBVIOUS
    <3>7. QED
      BY <3>1, <3>2, <3>4, <3>5, <3>6
  <2>5. ASSUME NEW k \in 1..n
        PROVE  cut[k] = cut[k - 1] + Len(parts[k]) /\ Placed(k, k)
    <3>1. cut[k] = Len(f[k]) /\ Len(f[k]) \in Nat
      BY <2>2, <2>3
    <3>2. CASE k = 1
      <4>1. f[1] = parts[1] /\ cut[1] = Len(f[1]) /\ Len(f[1]) \in Nat /\ cut[1 - 1] = 0
        BY <2>1, <2>3, <3>1, <3>2
      <4>2. \A j \in 1..Len(parts[1]) : 0 + j = j
        OBVIOUS
      <4>3. QED
        BY <3>2, <4>1, <4>2
    <3>3. CASE k # 1
      BY <2>4, <3>1, <3>3
    <3>4. QED
      BY <3>2, <3>3
  <2> DEFINE T == {i \in Nat : i \in 1..n => \A k \in 1..i : Placed(i, k)}
  <2>6. 0 \in T
    OBVIOUS
  <2>7. ASSUME NEW i \in Nat, i \in T PROVE i + 1 \in T
    <3> SUFFICES ASSUME i + 1 \in 1..n, NEW k \in 1..i + 1 PROVE Placed(i + 1, k)
      OBVIOUS
    <3>1. CASE k = i + 1
      BY <2>5, <3>1
    <3>2. CASE k \in 1..i
      <4>1. i \in 1..n /\ i + 1 # 1 /\ k \in 1..n /\ k - 1 \in 0..n /\ (i + 1) - 1 = i
        BY <1>1, <3>2
      <4>2. \A j \in 1..Len(parts[k]) : f[i][cut[k - 1] + j] = parts[k][j]
        BY <2>7, <3>2, <4>1
      <4>3. cut[i] = Len(f[i]) /\ cut[i + 1] = Len(f[i + 1]) /\ cut[i + 1] = cut[i] + Len(parts[i + 1])
        BY <2>3, <2>4, <4>1
      <4>4. /\ cut[k - 1] \in Nat /\ cut[k] \in Nat /\ cut[i] \in Nat /\ Len(parts[i + 1]) \in Nat
            /\ cut[k] = cut[k - 1] + Len(parts[k]) /\ Len(parts[k]) \in Nat
        <5>1. i + 1 \in 1..n /\ k \in 0..n /\ i \in 0..n
          BY <1>1, <4>1
        <5>2. parts[k] \in Seq(S) /\ parts[i + 1] \in Seq(S)
          BY <1>1, <4>1, <5>1
        <5>3. cut[k - 1] \in Nat /\ cut[k] \in Nat /\ cut[i] \in Nat
          BY <2>3, <4>1, <5>1
        <5>4. Len(parts[k]) \in Nat /\ Len(parts[i + 1]) \in Nat
          BY <5>2
        <5>5. QED
          BY <2>5, <4>1, <5>3, <5>4
      <4>5. cut[k] <= cut[i] /\ cut[k] <= Len(f[i + 1])
        <5>1. cut[k] <= cut[i]
          BY <2>7, <3>2, <4>1, <4>3
        <5>2. \A a, b, c \in Nat : a <= b => a <= b + c
          OBVIOUS
        <5>3. QED
          BY <4>3, <4>4, <5>1, <5>2
      <4>6. ASSUME NEW j \in 1..Len(parts[k])
            PROVE  f[i + 1][cut[k - 1] + j] = parts[k][j]
        <5>1. \A a, b, c \in Nat : a + b <= c => \A x \in 1..b : a + x \in 1..c
          OBVIOUS
        <5>2. cut[k - 1] + j \in 1..cut[i]
          BY <4>4, <4>5, <5>1
        <5>3. f[i + 1][cut[k - 1] + j] = f[i][cut[k - 1] + j]
          BY <2>4, <4>1, <5>2
        <5>4. QED
          BY <4>2, <5>3
      <4>7. QED
        BY <4>5, <4>6
    <3>3. QED
      BY <3>1, <3>2
  <2> HIDE DEF T
  <2>8. Nat \subseteq T
    BY <2>6, <2>7, Induction
  <2>9. n \in 1..n /\ n \in T
    BY <1>1, <1>3, <2>8
  <2>10. \A k \in 1..n : Placed(n, k)
    BY <2>9 DEF T
  <2>11. flat \in Seq(S) /\ cut[n] = Len(flat)
    BY <2>1, <2>2, <2>3, <2>9
  <2>12. IsCut(cut, flat, parts)
    BY <2>1, <2>3, <2>5, <2>10, <2>11 DEF IsCut, n
  <2>13. QED
    BY <2>11, <2>12 DEF flat
<1>4. QED
  BY <1>1, <1>2, <1>3

\* Every element of a flattened sequence is one of some part.
LEMMA CutCovers ==
    \A S : \A parts \in Seq(Seq(S)), flat \in Seq(S) : \A cut : IsCut(cut, flat, parts) =>
        \A x \in 1..Len(flat) : \E k \in 1..Len(parts) : \E j \in 1..Len(parts[k]) :
            x = cut[k - 1] + j /\ flat[x] = parts[k][j]
<1> SUFFICES ASSUME NEW S, NEW parts \in Seq(Seq(S)), NEW flat \in Seq(S), NEW cut,
                    IsCut(cut, flat, parts), NEW x \in 1..Len(flat)
             PROVE  \E k \in 1..Len(parts) : \E j \in 1..Len(parts[k]) :
                       x = cut[k - 1] + j /\ flat[x] = parts[k][j]
  OBVIOUS
<1> DEFINE n == Len(parts)
           I == {k \in 0..n : x <= cut[k]}
<1>1. /\ n \in Nat /\ cut \in [0..n -> Nat] /\ cut[0] = 0 /\ cut[n] = Len(flat)
      /\ Len(flat) \in Nat
  BY DEF IsCut
<1>2. \A k \in 1..n : /\ cut[k] = cut[k - 1] + Len(parts[k]) /\ parts[k] \in Seq(S)
                      /\ \A j \in 1..Len(parts[k]) : flat[cut[k - 1] + j] = parts[k][j]
  BY DEF IsCut
<1> HIDE DEF n
<1>3. I \subseteq Nat /\ n \in I
  BY <1>1
<1>4. PICK m \in I : \A k \in I : m <= k
  <2> HIDE DEF I
  <2>1. QED
    BY <1>3, LeastNumber
<1>5. m \in 1..n /\ m - 1 \in 0..n /\ m - 1 \notin I
  <2>1. m \in 0..n /\ x <= cut[m]
    BY <1>4
  <2>2. m # 0
    BY <1>1, <2>1
  <2>3. m \in 1..n /\ m - 1 \in 0..n /\ ~(m <= m - 1)
    BY <1>1, <2>1, <2>2
  <2> HIDE DEF I
  <2>4. QED
    BY <1>4, <2>3
<1> DEFINE j == x - cut[m - 1]
<1>6. j \in 1..Len(parts[m]) /\ x = cut[m - 1] + j
  <2>1. x <= cut[m] /\ ~(x <= cut[m - 1])
    BY <1>4, <1>5
  <2>2. cut[m] = cut[m - 1] + Len(parts[m]) /\ Len(parts[m]) \in Nat
    BY <1>2, <1>5
  <2>3. cut[m - 1] \in Nat /\ x \in Nat
    BY <1>1, <1>5
  <2>4. QED
    BY <2>1, <2>2, <2>3
<1> HIDE DEF j
<1>7. flat[x] = parts[m][j]
  BY <1>2, <1>5, <1>6
<1>8. QED
  BY <1>5, <1>6, <1>7 DEF n

\* A flattened sequence has the elements of its parts.
LEMMA FlattenElements ==
    ASSUME NEW S, NEW parts \in Seq(Seq(S)), NEW e
    PROVE  Contains(FlattenSeq(parts), e) <=> \E k \in 1..Len(parts) : Contains(parts[k], e)
<1> DEFINE flat == FlattenSeq(parts)
<1>1. flat \in Seq(S) /\ \E cut : IsCut(cut, flat, parts)
  BY FlattenParts
<1>2. PICK cut : IsCut(cut, flat, parts)
  BY <1>1
<1> HIDE DEF flat
<1>3. \A x \in 1..Len(flat) : \E k \in 1..Len(parts) : \E j \in 1..Len(parts[k]) :
          x = cut[k - 1] + j /\ flat[x] = parts[k][j]
  BY <1>1, <1>2, CutCovers
<1>4. ASSUME Contains(flat, e)
      PROVE  \E k \in 1..Len(parts) : Contains(parts[k], e)
  <2>1. PICK x \in 1..Len(flat) : flat[x] = e
    BY <1>4 DEF Contains
  <2>2. PICK k \in 1..Len(parts) : \E j \in 1..Len(parts[k]) :
            x = cut[k - 1] + j /\ flat[x] = parts[k][j]
    BY <1>3
  <2>3. QED
    BY <2>1, <2>2 DEF Contains
<1>5. ASSUME NEW k \in 1..Len(parts), NEW j \in 1..Len(parts[k]), parts[k][j] = e
      PROVE  Contains(flat, e)
  <2>1. /\ cut[k] = cut[k - 1] + Len(parts[k]) /\ cut[k] <= Len(flat)
        /\ flat[cut[k - 1] + j] = parts[k][j]
    BY <1>2 DEF IsCut
  <2>2. cut[k - 1] \in Nat /\ Len(flat) \in Nat /\ Len(parts[k]) \in Nat
    <3>1. Len(parts) \in Nat /\ parts[k] \in Seq(S)
      OBVIOUS
    <3>2. k - 1 \in 0..Len(parts) /\ cut \in [0..Len(parts) -> Nat]
      BY <1>2, <3>1 DEF IsCut
    <3>3. cut[k - 1] \in Nat
      BY <3>2
    <3>4. Len(flat) \in Nat
      BY <1>1
    <3>5. Len(parts[k]) \in Nat
      BY <3>1
    <3>6. QED
      BY <3>3, <3>4, <3>5
  <2>3. \A a, b, c \in Nat : a + b <= c => \A i \in 1..b : a + i \in 1..c
    OBVIOUS
  <2>4. cut[k - 1] + j \in 1..Len(flat)
    BY <2>1, <2>2, <2>3
  <2>5. QED
    BY <1>5, <2>1, <2>4 DEF Contains
<1>6. QED
  BY <1>4, <1>5 DEF Contains, flat

\* It has each of them once when no part has one twice and no two parts share one.
Disjoint(parts) ==
    \A k, l \in 1..Len(parts) : \A i \in 1..Len(parts[k]) : \A j \in 1..Len(parts[l]) :
        parts[k][i] = parts[l][j] => k = l /\ i = j

LEMMA FlattenInjective ==
    ASSUME NEW S, NEW parts \in Seq(Seq(S)), Disjoint(parts)
    PROVE  IsInjective(FlattenSeq(parts))
<1> DEFINE flat == FlattenSeq(parts)
<1>1. flat \in Seq(S) /\ \E cut : IsCut(cut, flat, parts)
  BY FlattenParts
<1>2. PICK cut : IsCut(cut, flat, parts)
  BY <1>1
<1> HIDE DEF flat
<1>3. \A x \in 1..Len(flat) : \E k \in 1..Len(parts) : \E j \in 1..Len(parts[k]) :
          x = cut[k - 1] + j /\ flat[x] = parts[k][j]
  BY <1>1, <1>2, CutCovers
<1>4. ASSUME NEW x \in 1..Len(flat), NEW y \in 1..Len(flat), flat[x] = flat[y]
      PROVE  x = y
  <2>1. PICK k \in 1..Len(parts) : \E i \in 1..Len(parts[k]) :
            x = cut[k - 1] + i /\ flat[x] = parts[k][i]
    BY <1>3
  <2>2. PICK l \in 1..Len(parts) : \E j \in 1..Len(parts[l]) :
            y = cut[l - 1] + j /\ flat[y] = parts[l][j]
    BY <1>3
  <2>3. PICK i \in 1..Len(parts[k]) : x = cut[k - 1] + i /\ flat[x] = parts[k][i]
    BY <2>1
  <2>4. PICK j \in 1..Len(parts[l]) : y = cut[l - 1] + j /\ flat[y] = parts[l][j]
    BY <2>2
  <2>5. k = l /\ i = j
    BY <1>4, <2>3, <2>4 DEF Disjoint
  <2>6. QED
    BY <2>3, <2>4, <2>5
<1>5. DOMAIN flat = 1..Len(flat)
  BY <1>1
<1>6. QED
  BY <1>4, <1>5 DEF IsInjective, flat

\* It is its only part that is not empty.
LEMMA FlattenSingle ==
    ASSUME NEW S, NEW parts \in Seq(Seq(S)), NEW k \in 1..Len(parts),
           \A l \in 1..Len(parts) : l # k => parts[l] = <<>>
    PROVE  FlattenSeq(parts) = parts[k]
<1> DEFINE flat == FlattenSeq(parts)
           n == Len(parts)
<1>1. flat \in Seq(S) /\ \E cut : IsCut(cut, flat, parts)
  BY FlattenParts
<1>2. PICK cut : IsCut(cut, flat, parts)
  BY <1>1
<1> HIDE DEF flat
<1>3. n \in Nat /\ parts[k] \in Seq(S) /\ Len(parts[k]) \in Nat
  OBVIOUS
<1>4. /\ cut \in [0..n -> Nat] /\ cut[0] = 0 /\ cut[n] = Len(flat)
      /\ \A l \in 1..n : cut[l] = cut[l - 1] + Len(parts[l])
      /\ \A j \in 1..Len(parts[k]) : flat[cut[k - 1] + j] = parts[k][j]
  BY <1>2 DEF IsCut
<1>5. \A l \in 1..n : l # k => cut[l] = cut[l - 1]
  <2>1. \A l \in 1..n : l # k => Len(parts[l]) = 0
    OBVIOUS
  <2>2. \A l \in 1..n : l - 1 \in 0..n
    BY <1>3
  <2>3. QED
    <3> SUFFICES ASSUME NEW l \in 1..n, l # k PROVE cut[l] = cut[l - 1]
      OBVIOUS
    <3>1. cut[l - 1] \in Nat
      BY <1>4, <2>2
    <3>2. cut[l] = cut[l - 1] + 0
      BY <1>4, <2>1
    <3>3. QED
      BY <3>1, <3>2
<1> DEFINE T == {l \in Nat : l \in 0..n => cut[l] = IF l < k THEN 0 ELSE Len(parts[k])}
<1> HIDE DEF n
<1>6. 0 \in T
  BY <1>4 DEF n
<1>7. ASSUME NEW l \in Nat, l \in T PROVE l + 1 \in T
  <2> SUFFICES ASSUME l + 1 \in 0..n
               PROVE  cut[l + 1] = IF l + 1 < k THEN 0 ELSE Len(parts[k])
    OBVIOUS
  <2>1. l + 1 \in 1..n /\ l \in 0..n /\ (l + 1) - 1 = l /\ k \in 1..n
    BY <1>3 DEF n
  <2>2. cut[l] = IF l < k THEN 0 ELSE Len(parts[k])
    BY <1>7, <2>1
  <2>3. CASE l + 1 = k
    <3>1. cut[l + 1] = cut[l] + Len(parts[k])
      BY <1>4, <2>1, <2>3
    <3>2. l < k /\ ~(l + 1 < k)
      BY <2>1, <2>3
    <3>3. QED
      BY <1>3, <2>2, <3>1, <3>2
  <2>4. CASE l + 1 # k
    <3>1. cut[l + 1] = cut[l]
      BY <1>5, <2>1, <2>4
    <3>2. l < k <=> l + 1 < k
      BY <2>1, <2>4
    <3>3. QED
      BY <2>2, <3>1, <3>2
  <2>5. QED
    BY <2>3, <2>4
<1> HIDE DEF T
<1>8. Nat \subseteq T
  BY <1>6, <1>7, Induction
<1>9. cut[n] = Len(parts[k]) /\ cut[k - 1] = 0
  <2>1. n \in 0..n /\ k - 1 \in 0..n /\ n \in T /\ k - 1 \in T /\ ~(n < k) /\ k - 1 < k
    BY <1>3, <1>8 DEF n
  <2>2. QED
    BY <2>1 DEF T
<1>10. Len(flat) = Len(parts[k]) /\ \A j \in 1..Len(parts[k]) : flat[j] = parts[k][j]
  <2>1. \A j \in 1..Len(parts[k]) : 0 + j = j
    OBVIOUS
  <2>2. QED
    BY <1>4, <1>9, <2>1
<1>11. flat = parts[k]
  <2> DEFINE q == parts[k]
  <2>1. q \in Seq(S) /\ Len(flat) = Len(q) /\ \A j \in 1..Len(q) : flat[j] = q[j]
    BY <1>3, <1>10
  <2> HIDE DEF q
  <2>2. flat = q
    BY <1>1, <2>1, SeqEqual
  <2>3. QED
    BY <2>2 DEF q
<1>12. QED
  BY <1>11 DEF flat

\* The elements of a finite set in some order, each once.
LEMMA SetToSeqIs ==
    ASSUME NEW T, IsFiniteSet(T)
    PROVE  /\ SetToSeq(T) \in Seq(T) /\ IsInjective(SetToSeq(T))
           /\ \A e : Contains(SetToSeq(T), e) <=> e \in T
<1> DEFINE n == Cardinality(T)
           f == SetToSeq(T)
<1>1. n \in Nat /\ ExistsBijection(1..n, T)
  BY FS_CardinalityType
<1>2. \E g \in [1..n -> T] : IsInjective(g)
  BY <1>1 DEF ExistsBijection, Bijection, Injection
<1>3. f \in [1..n -> T] /\ IsInjective(f)
  BY <1>2 DEF SetToSeq
<1> HIDE DEF f
<1>4. f \in Surjection(1..n, T)
  <2>1. f \in Injection(1..n, T)
    BY <1>3 DEF Injection
  <2>2. IsFiniteSet(1..n) /\ Cardinality(1..n) = n
    BY <1>1, FS_Interval
  <2>3. QED
    BY <2>1, <2>2, FS_Injection
<1>5. f \in Seq(T) /\ Len(f) = n
  BY <1>1, <1>3
<1>6. \A e : Contains(f, e) <=> e \in T
  BY <1>3, <1>4, <1>5 DEF Contains, Surjection
<1>7. QED
  BY <1>3, <1>5, <1>6 DEF f

\* A part more.
LEMMA FlattenAppend ==
    ASSUME NEW S, NEW parts \in Seq(Seq(S)), NEW x \in Seq(S)
    PROVE  FlattenSeq(Append(parts, x)) = FlattenSeq(parts) \o x
<1> DEFINE n == Len(parts)
           more == Append(parts, x)
<1>1. /\ n \in Nat /\ more \in Seq(Seq(S)) /\ Len(more) = n + 1 /\ more[n + 1] = x
      /\ \A k \in 1..n : more[k] = parts[k] /\ parts[k] \in Seq(S)
  OBVIOUS
<1> HIDE DEF more
<1>2. PICK g \in [1..n + 1 -> Seq(S)] :
             /\ FlattenSeq(more) = g[n + 1]
             /\ g[1] = more[1]
             /\ \A i \in 2..n + 1 : g[i] = g[i - 1] \o more[i]
  <2>1. Len(more) > 0 /\ more \in Seq(Seq(S))
    BY <1>1
  <2>2. \E f \in [1..Len(more) -> Seq(S)] :
              /\ FlattenSeq(more) = f[Len(more)]
              /\ f[1] = more[1]
              /\ \A i \in 2..Len(more) : f[i] = f[i - 1] \o more[i]
    BY <2>1, FlattenIs
  <2>3. QED
    BY <1>1, <2>2
<1>3. CASE n = 0
  <2>1. parts = <<>>
    BY <1>3
  <2>2. FlattenSeq(parts) = <<>>
    BY <2>1 DEF FlattenSeq
  <2>3. FlattenSeq(more) = x
    BY <1>1, <1>2, <1>3
  <2>4. QED
    BY <2>2, <2>3 DEF more
<1>4. CASE n # 0
  <2>1. PICK f \in [1..n -> Seq(S)] :
               /\ FlattenSeq(parts) = f[n]
               /\ f[1] = parts[1]
               /\ \A i \in 2..n : f[i] = f[i - 1] \o parts[i]
    <3>1. n > 0
      BY <1>1, <1>4
    <3>2. QED
      BY <3>1, FlattenIs
  <2> DEFINE T == {k \in Nat : k + 1 <= n => f[k + 1] = g[k + 1]}
  <2>2. 0 \in T
    BY <1>1, <1>2, <1>4, <2>1
  <2>3. ASSUME NEW k \in Nat, k \in T PROVE k + 1 \in T
    <3> SUFFICES ASSUME (k + 1) + 1 <= n PROVE f[(k + 1) + 1] = g[(k + 1) + 1]
      OBVIOUS
    <3>0. (k + 1) + 1 = k + 2
      OBVIOUS
    <3>1. k + 2 \in 2..n /\ k + 2 \in 2..n + 1 /\ k + 2 \in 1..n /\ (k + 2) - 1 = k + 1
          /\ k + 1 <= n
      BY <1>1
    <3>2. f[k + 2] = f[k + 1] \o parts[k + 2]
      BY <2>1, <3>1
    <3>3. g[k + 2] = g[k + 1] \o more[k + 2]
      BY <1>2, <3>1
    <3>4. f[k + 1] = g[k + 1]
      BY <2>3, <3>1
    <3>5. QED
      BY <1>1, <3>0, <3>1, <3>2, <3>3, <3>4
  <2> HIDE DEF T
  <2>4. Nat \subseteq T
    BY <2>2, <2>3, Induction
  <2>5. f[n] = g[n]
    <3>1. n - 1 \in Nat /\ (n - 1) + 1 = n
      BY <1>1, <1>4
    <3>2. n - 1 \in T
      BY <2>4, <3>1
    <3>3. QED
      BY <3>1, <3>2 DEF T
  <2>6. g[n + 1] = g[n] \o x
    <3>1. n + 1 \in 2..n + 1 /\ (n + 1) - 1 = n
      BY <1>1, <1>4
    <3>2. QED
      BY <1>1, <1>2, <3>1
  <2>7. QED
    BY <1>2, <2>1, <2>5, <2>6 DEF more
<1>5. QED
  BY <1>3, <1>4

-----------------------------------------------------------------------------
(* Folds. FoldLeft takes the places of its sequence from a set, the greatest   *)
(* first, and gives f[1..n], where f is one of these functions.                *)

\* The greatest element of a set of numbers up to n, which MapThenFoldSet takes.
LEMMA GreatestPlace ==
    ASSUME NEW n \in Nat, NEW A \in SUBSET (1..n), A # {}
    PROVE  /\ Max(A) \in A /\ \A x \in A : Max(A) >= x
           /\ A \ {Max(A)} \in SUBSET (1..n)
           /\ Cardinality(A) \in 0..n
           /\ Cardinality(A \ {Max(A)}) < Cardinality(A)
<1> DEFINE I == {n - x : x \in A}
<1>1. I \subseteq Nat /\ I # {} /\ (\A x \in A : n - x \in I) /\ \A i \in I : \E x \in A : i = n - x
  <2>1. \A x \in A : n - x \in Nat
    OBVIOUS
  <2>2. QED
    BY <2>1
<1> HIDE DEF I
<1>2. PICK m \in I : \A k \in I : m <= k
  BY <1>1, LeastNumber
<1>3. PICK x \in A : m = n - x
  BY <1>1
<1>4. \A y \in A : x >= y
  <2> SUFFICES ASSUME NEW y \in A PROVE x >= y
    OBVIOUS
  <2>1. n - x <= n - y
    BY <1>1, <1>2, <1>3
  <2>2. x \in Nat /\ y \in Nat
    OBVIOUS
  <2>3. QED
    BY <2>1, <2>2
<1>5. Max(A) \in A /\ \A y \in A : Max(A) >= y
  BY <1>4 DEF Max
<1>6. IsFiniteSet(1..n) /\ Cardinality(1..n) = n
  <2>1. 1 \in Int /\ n \in Int
    OBVIOUS
  <2>2. QED
    BY <2>1, FS_Interval
<1>7. IsFiniteSet(A) /\ Cardinality(A) <= n /\ Cardinality(A) \in Nat
  BY <1>6, FS_Subset, FS_CardinalityType
<1>8. Cardinality(A \ {Max(A)}) = Cardinality(A) - 1
  BY <1>5, <1>7, FS_RemoveElement
<1>9. Cardinality(A) \in 0..n /\ Cardinality(A) - 1 < Cardinality(A)
  BY <1>7
<1>10. QED
  BY <1>5, <1>8, <1>9

\* The places up to one, without the last.
LEMMA PlacesBefore ==
    ASSUME NEW n \in Nat, NEW k \in 1..n
    PROVE  /\ 1..k \in SUBSET (1..n) /\ 1..k # {}
           /\ 1..k \ {Max(1..k)} = 1..k - 1
<1>1. 1..k \in SUBSET (1..n) /\ k \in 1..k
  OBVIOUS
<1>2. Max(1..k) \in 1..k /\ \A x \in 1..k : Max(1..k) >= x
  BY <1>1, GreatestPlace
<1>3. Max(1..k) = k
  BY <1>1, <1>2
<1>4. QED
  BY <1>1, <1>3

\* N[i] is what the element at place i does to what was made of those before it.
FoldsAlong(f, n, base, N) ==
    \A A \in SUBSET (1..n) : f[A] = IF A = {} THEN base ELSE N[Max(A)][f[A \ {Max(A)}]]

LEMMA FoldExists ==
    ASSUME NEW n \in Nat, NEW V, NEW base \in V, NEW N \in [1..n -> [V -> V]]
    PROVE  \E f \in [SUBSET (1..n) -> V] : FoldsAlong(f, n, base, N)
<1> DEFINE D == SUBSET (1..n)
           body(f, A) == IF A = {} THEN base ELSE N[Max(A)][f[A \ {Max(A)}]]
           Body == [A \in D |-> [f \in [D -> V] |-> body(f, A)]]
           rank == [A \in D |-> Cardinality(A)]
<1>1. \A A \in D : A # {} => /\ A \ {Max(A)} \in D /\ Max(A) \in 1..n
                             /\ rank[A \ {Max(A)}] < rank[A]
  <2>1. \A A \in D : A # {} => /\ A \ {Max(A)} \in D /\ Max(A) \in A
                               /\ Cardinality(A \ {Max(A)}) < Cardinality(A)
    BY GreatestPlace
  <2>2. QED
    BY <2>1
<1>2. rank \in [D -> 0..n]
  <2>1. Cardinality({}) = 0
    BY FS_EmptySet
  <2>2. \A A \in D : Cardinality(A) \in 0..n
    <3> SUFFICES ASSUME NEW A \in D PROVE Cardinality(A) \in 0..n
      OBVIOUS
    <3>1. CASE A = {}
      BY <2>1, <3>1
    <3>2. CASE A # {}
      BY <3>2, GreatestPlace
    <3>3. QED
      BY <3>1, <3>2
  <2>3. QED
    BY <2>2
<1> HIDE DEF D, rank
<1>3. ASSUME NEW A \in D, NEW f \in [D -> V] PROVE body(f, A) \in V
  <2>1. CASE A = {}
    BY <2>1
  <2>2. CASE A # {}
    <3>1. N[Max(A)] \in [V -> V] /\ f[A \ {Max(A)}] \in V
      BY <1>1, <2>2
    <3>2. QED
      BY <2>2, <3>1
  <2>3. QED
    BY <2>1, <2>2
<1>4. ASSUME NEW A \in D, NEW f \in [D -> V], NEW g \in [D -> V],
             \A B \in D : rank[B] < rank[A] => f[B] = g[B]
      PROVE  body(f, A) = body(g, A)
  BY <1>1, <1>4
<1> HIDE DEF body
<1>5. \A A \in D : \A f \in [D -> V] : Body[A][f] = body(f, A)
  OBVIOUS
<1>6. Body \in [D -> [[D -> V] -> V]] /\ V # {}
  BY <1>3
<1> HIDE DEF Body
<1>7. IsRecursion(D, V, rank, Body)
  <2>1. ASSUME NEW A \in D, NEW f \in [D -> V], NEW g \in [D -> V],
               \A B \in D : rank[B] < rank[A] => f[B] = g[B]
        PROVE  Body[A][f] = Body[A][g]
    <3>1. body(f, A) = body(g, A)
      BY <1>4, <2>1
    <3>2. QED
      BY <1>5, <3>1
  <2>2. QED
    BY <1>2, <1>6, <2>1 DEF IsRecursion
<1>8. PICK f \in [D -> V] : \A A \in D : f[A] = Body[A][f]
  BY <1>7, RecursiveFunction
<1>9. \A A \in D : f[A] = body(f, A)
  BY <1>5, <1>8
<1>10. QED
  BY <1>9 DEF body, D, FoldsAlong

\* What each element keeps, the fold keeps.
LEMMA FoldKeeps ==
    ASSUME NEW n \in Nat, NEW V, NEW g, g[{}] \in V,
           \A A \in SUBSET (1..n) : A # {} /\ g[A \ {Max(A)}] \in V => g[A] \in V
    PROVE  g[1..n] \in V
<1> DEFINE T == {k \in Nat : k <= n => g[1..k] \in V}
<1>1. 0 \in T
  <2>1. 1..0 = {}
    OBVIOUS
  <2>2. QED
    BY <2>1
<1>2. ASSUME NEW k \in Nat, k \in T PROVE k + 1 \in T
  <2> SUFFICES ASSUME k + 1 <= n PROVE g[1..(k + 1)] \in V
    OBVIOUS
  <2>1. k + 1 \in 1..n /\ (k + 1) - 1 = k /\ k <= n
    OBVIOUS
  <2>2. 1..(k + 1) \in SUBSET (1..n) /\ 1..(k + 1) # {}
        /\ 1..(k + 1) \ {Max(1..(k + 1))} = 1..((k + 1) - 1)
    BY <2>1, PlacesBefore
  <2>3. g[1..k] \in V
    BY <1>2, <2>1
  <2>4. QED
    BY <2>1, <2>2, <2>3
<1> HIDE DEF T
<1>3. Nat \subseteq T
  BY <1>1, <1>2, Induction
<1>4. QED
  BY <1>3 DEF T

\* Where all elements do the same: f takes one step for each place.
StepsAlong(f, n, base, N) ==
    \A A \in SUBSET (1..n) : f[A] = IF A = {} THEN base ELSE N[f[A \ {Max(A)}]]

LEMMA StepsExist ==
    ASSUME NEW n \in Nat, NEW V, NEW base \in V, NEW N \in [V -> V]
    PROVE  \E f \in [SUBSET (1..n) -> V] : StepsAlong(f, n, base, N)
<1> DEFINE M == [i \in 1..n |-> N]
<1>1. M \in [1..n -> [V -> V]] /\ \A i \in 1..n : M[i] = N
  OBVIOUS
<1> HIDE DEF M
<1>2. PICK f \in [SUBSET (1..n) -> V] : FoldsAlong(f, n, base, M)
  BY <1>1, FoldExists
<1>3. \A A \in SUBSET (1..n) : A # {} => Max(A) \in 1..n
  BY GreatestPlace
<1>4. QED
  BY <1>1, <1>2, <1>3 DEF FoldsAlong, StepsAlong
=============================================================================
