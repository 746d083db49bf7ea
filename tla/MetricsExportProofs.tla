------------------------ MODULE MetricsExportProofs ------------------------
(***************************************************************************)
(* The export script writes what the server answered and advises what its  *)
(* figures support, for any answer: any number of methods and providers,   *)
(* any names, any figures.                                                 *)
(*                                                                         *)
(* Each algorithm of the script is a loop.  What a loop does is shown by   *)
(* the least round at which it would be otherwise (LeastNumber).           *)
(***************************************************************************)
EXTENDS MetricsExport, FiniteSetTheorems, WellFoundedInduction, TLAPS

LEMMA LeastNumber ==
  ASSUME NEW T \in SUBSET Nat, T # {}
  PROVE  \E x \in T : \A y \in T : x <= y
  <1>1. IsWellFoundedOn(OpToRel(<, Nat), Nat)
    BY NatLessThanWellFounded
  <1>2. PICK x \in T : \A y \in T : ~ (<<y, x>> \in OpToRel(<, Nat))
    BY <1>1, WFMin
  <1>3. \A y \in T : ~ (y < x)
    BY <1>2 DEF OpToRel
  <1> QED
    BY <1>3

(* A set of rounds that has the first and, with each round, the next one.  *)
LEMMA EveryRound ==
  ASSUME NEW n \in Nat, NEW T, 0 \in T,
         \A i \in 1..n : i - 1 \in T => i \in T
  PROVE  \A i \in 0..n : i \in T
  <1> DEFINE U == {i \in Nat : i <= n /\ i \notin T}
  <1> SUFFICES ASSUME U # {} PROVE FALSE
    OBVIOUS
  <1>1. PICK k \in U : \A y \in U : k <= y
    BY LeastNumber
  <1>2. k # 0 /\ k \in 1..n
    BY <1>1
  <1>3. k - 1 \in Nat /\ k - 1 <= n /\ ~ (k <= k - 1)
    BY <1>1, <1>2
  <1>4. k - 1 \in T
    BY <1>1, <1>3
  <1> QED
    BY <1>1, <1>2, <1>4

(* A loop of n rounds over values in S.                                    *)
Loop(f, S, n, b, step) ==
  /\ f \in [0..n -> S]
  /\ f[0] = b
  /\ \A i \in 1..n : f[i] = step[<<i, f[i - 1]>>]

LEMMA LoopExists ==
  ASSUME NEW S, NEW b \in S, NEW n \in Nat, NEW step \in [(1..n) \X S -> S]
  PROVE  \E f : Loop(f, S, n, b, step)
  <1> DEFINE Run(k, f) == /\ f \in [0..k -> S]
                          /\ f[0] = b
                          /\ \A i \in 1..k : f[i] = step[<<i, f[i - 1]>>]
             T == {k \in 0..n : \E f : Run(k, f)}
  <1>1. 0 \in T
    <2> DEFINE f == [i \in 0..0 |-> b]
    <2>1. Run(0, f)
      OBVIOUS
    <2> HIDE DEF Run, f
    <2>2. 0 \in 0..n /\ \E h : Run(0, h)
      BY <2>1
    <2> QED
      BY <2>2
  <1>2. ASSUME NEW k \in 1..n, k - 1 \in T PROVE k \in T
    <2>1. PICK f : Run(k - 1, f)
      BY <1>2
    <2> DEFINE next == step[<<k, f[k - 1]>>]
               g == [i \in 0..k |-> IF i = k THEN next ELSE f[i]]
    <2>2. k - 1 \in 0..(k - 1) /\ f[k - 1] \in S
      BY <2>1
    <2>3. next \in S
      BY <2>2
    <2> HIDE DEF next
    <2>4. \A i \in 0..(k - 1) : g[i] = f[i] /\ g[i] \in S
      BY <2>1
    <2>5. g[k] = next
      OBVIOUS
    <2>6. g \in [0..k -> S]
      BY <2>1, <2>3
    <2> HIDE DEF g
    <2>7. ASSUME NEW i \in 1..k PROVE g[i] = step[<<i, g[i - 1]>>]
      <3>1. CASE i = k
        BY <2>2, <2>4, <2>5, <3>1 DEF next
      <3>2. CASE i # k
        <4>1. i \in 1..(k - 1) /\ i - 1 \in 0..(k - 1) /\ i \in 0..(k - 1)
          BY <3>2
        <4>2. f[i] = step[<<i, f[i - 1]>>]
          BY <2>1, <4>1
        <4> QED
          BY <2>4, <4>1, <4>2
      <3> QED
        BY <3>1, <3>2
    <2>8. g[0] = b
      BY <2>1, <2>4
    <2>9. Run(k, g)
      BY <2>6, <2>7, <2>8
    <2> QED
      BY <2>9
  <1> HIDE DEF T
  <1>3. \A i \in 0..n : i \in T
    BY <1>1, <1>2, EveryRound
  <1>4. n \in T
    BY <1>3
  <1> QED
    BY <1>4 DEF Loop, T

-----------------------------------------------------------------------------
(* Sums                                                                    *)
LEMMA SumIsLoop ==
  ASSUME NEW s \in Seq(Nat)
  PROVE  \E f : /\ f \in [0..Len(s) -> Nat]
                /\ f[0] = 0
                /\ \A i \in 1..Len(s) : f[i] = f[i - 1] + s[i]
                /\ Sum(s) = f[Len(s)]
  <1> DEFINE n == Len(s)
             Sums(f) == f = [i \in 0..n |-> IF i = 0 THEN 0 ELSE f[i - 1] + s[i]]
             step == [p \in (1..n) \X Nat |-> p[2] + s[p[1]]]
  <1>1. n \in Nat /\ \A i \in 1..n : s[i] \in Nat
    OBVIOUS
  <1>2. step \in [(1..n) \X Nat -> Nat]
    BY <1>1
  <1>3. \A i \in 1..n, x \in Nat : step[<<i, x>>] = x + s[i]
    OBVIOUS
  <1> HIDE DEF n, step
  <1>4. PICK f : Loop(f, Nat, n, 0, step)
    BY <1>1, <1>2, LoopExists
  <1>5. Sums(f)
    <2>1. \A i \in 0..n : f[i] = IF i = 0 THEN 0 ELSE f[i - 1] + s[i]
      <3> TAKE i \in 0..n
      <3>1. CASE i = 0
        BY <1>4, <3>1 DEF Loop
      <3>2. CASE i # 0
        <4>1. i \in 1..n /\ i - 1 \in 0..n
          BY <1>1, <3>2
        <4>2. f[i - 1] \in Nat /\ f[i] = step[<<i, f[i - 1]>>]
          BY <1>4, <4>1 DEF Loop
        <4> QED
          BY <1>3, <3>2, <4>1, <4>2
      <3> QED
        BY <3>1, <3>2
    <2>2. f = [i \in 0..n |-> f[i]]
      BY <1>4 DEF Loop
    <2> QED
      BY <2>1, <2>2
  <1> DEFINE g == CHOOSE g : Sums(g)
  <1>6. Sums(g)
    <2> HIDE DEF Sums
    <2> QED
      BY <1>5
  <1>7. Sum(s) = g[n]
    BY DEF Sum, n
  <1> HIDE DEF g
  <1>8. g[0] = 0 /\ \A i \in 1..n : g[i] = g[i - 1] + s[i]
    <2>1. \A i \in 0..n : g[i] = IF i = 0 THEN 0 ELSE g[i - 1] + s[i]
      BY <1>6
    <2> QED
      BY <1>1, <2>1
  <1>9. \A i \in 0..n : g[i] \in Nat
    <2> DEFINE T == {i \in 0..n : g[i] \in Nat}
    <2>1. 0 \in T
      BY <1>1, <1>8
    <2>2. ASSUME NEW i \in 1..n, i - 1 \in T PROVE i \in T
      <3>1. g[i - 1] \in Nat
        BY <2>2
      <3>2. g[i] = g[i - 1] + s[i] /\ s[i] \in Nat
        BY <1>1, <1>8
      <3> QED
        BY <3>1, <3>2
    <2> HIDE DEF T
    <2>3. \A i \in 0..n : i \in T
      BY <1>1, <2>1, <2>2, EveryRound
    <2> QED
      BY <2>3 DEF T
  <1>10. g \in [0..n -> Nat]
    BY <1>6, <1>9
  <1> QED
    BY <1>7, <1>8, <1>10 DEF n

(* A sum of numbers is one, and at least each of them.                     *)
LEMMA SumIsNat ==
  ASSUME NEW s \in Seq(Nat)
  PROVE  Sum(s) \in Nat /\ \A i \in 1..Len(s) : s[i] <= Sum(s)
  <1>1. PICK f : /\ f \in [0..Len(s) -> Nat]
                 /\ f[0] = 0
                 /\ \A i \in 1..Len(s) : f[i] = f[i - 1] + s[i]
                 /\ Sum(s) = f[Len(s)]
    BY SumIsLoop
  <1> DEFINE n == Len(s)
             T == {i \in 0..n : \A j \in 1..i : s[j] <= f[i]}
  <1>2. n \in Nat /\ \A i \in 1..n : s[i] \in Nat
    OBVIOUS
  <1> HIDE DEF n
  <1>3. 0 \in T
    BY <1>2
  <1>4. ASSUME NEW i \in 1..n, i - 1 \in T PROVE i \in T
    <2>1. f[i - 1] \in Nat /\ f[i] = f[i - 1] + s[i]
      BY <1>1, <1>2 DEF n
    <2>2. \A j \in 1..(i - 1) : s[j] <= f[i - 1]
      BY <1>4
    <2>3. ASSUME NEW j \in 1..i PROVE s[j] <= f[i]
      <3>1. CASE j = i
        BY <1>2, <2>1, <3>1
      <3>2. CASE j # i
        <4>1. j \in 1..(i - 1) /\ j \in 1..n
          BY <1>2, <3>2
        <4>2. s[j] <= f[i - 1] /\ s[j] \in Nat /\ s[i] \in Nat
          BY <1>2, <2>2, <4>1
        <4> QED
          BY <2>1, <4>2
      <3> QED
        BY <3>1, <3>2
    <2> QED
      BY <1>2, <2>3
  <1>5. \A i \in 0..n : i \in T
    <2> HIDE DEF T
    <2> QED
      BY <1>2, <1>3, <1>4, EveryRound
  <1>6. n \in T
    BY <1>2, <1>5
  <1> QED
    BY <1>1, <1>2, <1>6 DEF n

-----------------------------------------------------------------------------
(* Sequences that are joined                                               *)
LEMMA Joining ==
  ASSUME NEW S, NEW u \in Seq(S), NEW v \in Seq(S)
  PROVE  /\ u \o v \in Seq(S)
         /\ Len(u \o v) = Len(u) + Len(v)
         /\ Len(u) \in Nat /\ Len(v) \in Nat
         /\ \A i \in 1..Len(u) : (u \o v)[i] = u[i]
         /\ \A i \in 1..Len(v) : (u \o v)[Len(u) + i] = v[i]
  OBVIOUS

LEMMA FlattenIsLoop ==
  ASSUME NEW S, NEW s \in Seq(Seq(S))
  PROVE  \E f : /\ f \in [0..Len(s) -> Seq(S)]
                /\ f[0] = <<>>
                /\ \A i \in 1..Len(s) : f[i] = f[i - 1] \o s[i]
                /\ FlattenSeq(s) = f[Len(s)]
  <1> DEFINE n == Len(s)
             Flattens(f) == f = [i \in 1..n |-> IF i = 1 THEN s[i] ELSE f[i - 1] \o s[i]]
             step == [p \in (1..n) \X Seq(S) |-> p[2] \o s[p[1]]]
  <1>1. n \in Nat /\ \A i \in 1..n : s[i] \in Seq(S)
    OBVIOUS
  <1>2. step \in [(1..n) \X Seq(S) -> Seq(S)]
    <2>1. \A p \in (1..n) \X Seq(S) : p[2] \o s[p[1]] \in Seq(S)
      BY <1>1, Joining
    <2> QED
      BY <2>1
  <1>3. \A i \in 1..n, x \in Seq(S) : step[<<i, x>>] = x \o s[i]
    OBVIOUS
  <1> HIDE DEF n, step
  <1>4. PICK f : Loop(f, Seq(S), n, <<>>, step)
    <2>1. <<>> \in Seq(S)
      OBVIOUS
    <2> QED
      BY <1>1, <1>2, <2>1, LoopExists
  <1>5. \A i \in 1..n : f[i - 1] \in Seq(S) /\ f[i] = f[i - 1] \o s[i]
    <2> TAKE i \in 1..n
    <2>1. i - 1 \in 0..n
      BY <1>1
    <2>2. f[i - 1] \in Seq(S) /\ f[i] = step[<<i, f[i - 1]>>]
      BY <1>4, <2>1 DEF Loop
    <2> QED
      BY <1>3, <2>2
  <1>6. n # 0 => f[1] = s[1]
    <2> SUFFICES ASSUME n # 0 PROVE f[1] = s[1]
      OBVIOUS
    <2>1. 1 \in 1..n /\ 1 - 1 = 0
      BY <1>1
    <2>2. f[0] = <<>> /\ s[1] \in Seq(S)
      BY <1>1, <1>4, <2>1 DEF Loop
    <2>3. f[1] = f[0] \o s[1]
      BY <1>5, <2>1
    <2> QED
      BY <2>2, <2>3
  <1>7. CASE n = 0
    <2>1. s = <<>>
      BY <1>7 DEF n
    <2>2. FlattenSeq(s) = <<>>
      BY <1>7, <2>1 DEF FlattenSeq, n
    <2> QED
      BY <1>4, <1>5, <1>7, <2>2 DEF Loop, n
  <1>8. CASE n # 0
    <2> DEFINE e == [i \in 1..n |-> f[i]]
    <2>1. Flattens(e)
      <3>1. \A i \in 1..n : f[i] = IF i = 1 THEN s[i] ELSE e[i - 1] \o s[i]
        <4> TAKE i \in 1..n
        <4>1. CASE i = 1
          BY <1>6, <4>1
        <4>2. CASE i # 1
          <5>1. i - 1 \in 1..n
            BY <1>1, <4>2
          <5>2. e[i - 1] = f[i - 1]
            BY <5>1
          <5> HIDE DEF e
          <5> QED
            BY <1>5, <4>2, <5>2
        <4> QED
          BY <4>1, <4>2
      <3> QED
        BY <3>1
    <2> DEFINE g == CHOOSE g : Flattens(g)
    <2>2. Flattens(g)
      <3> HIDE DEF Flattens, e
      <3> QED
        BY <2>1
    <2>3. FlattenSeq(s) = g[n]
      BY <1>8 DEF FlattenSeq, n
    <2> HIDE DEF g
    <2>4. \A i \in 1..n : g[i] = IF i = 1 THEN s[i] ELSE g[i - 1] \o s[i]
      BY <2>2
    <2> DEFINE T == {i \in 0..n : i = 0 \/ g[i] = f[i]}
    <2>5. 0 \in T
      BY <1>1
    <2>6. ASSUME NEW i \in 1..n, i - 1 \in T PROVE i \in T
      <3>1. CASE i = 1
        BY <1>6, <2>4, <3>1
      <3>2. CASE i # 1
        <4>1. g[i - 1] = f[i - 1]
          BY <1>1, <2>6, <3>2
        <4>2. g[i] = g[i - 1] \o s[i]
          BY <2>4, <3>2
        <4>3. g[i] = f[i]
          BY <1>5, <4>1, <4>2
        <4> QED
          BY <4>3
      <3> QED
        BY <3>1, <3>2
    <2> HIDE DEF T
    <2>7. \A i \in 0..n : i \in T
      BY <1>1, <2>5, <2>6, EveryRound
    <2>8. g[n] = f[n]
      BY <1>1, <1>8, <2>7 DEF T
    <2> QED
      BY <1>4, <1>5, <2>3, <2>8 DEF Loop, n
  <1> QED
    BY <1>7, <1>8

-----------------------------------------------------------------------------
(* Orders on the places 1..n: <<i, j>> \in W when j does not go before i.  *)
Preorder(W, n) ==
  /\ \A i, j \in 1..n : <<i, j>> \in W \/ <<j, i>> \in W
  /\ \A i, j, k \in 1..n : <<i, j>> \in W /\ <<j, k>> \in W => <<i, k>> \in W

(* The place of j is not behind that of i, when ties stay in order.        *)
Goes(W, j, i) == <<i, j>> \notin W \/ (j <= i /\ <<j, i>> \in W)
PlaceOf(W, n, i) == Cardinality({j \in 1..n : Goes(W, j, i)})

LEMMA GoesIsOrder ==
  ASSUME NEW n \in Nat, NEW W, Preorder(W, n)
  PROVE  /\ \A i \in 1..n : Goes(W, i, i)
         /\ \A i, j \in 1..n : Goes(W, i, j) \/ Goes(W, j, i)
         /\ \A i, j \in 1..n : Goes(W, i, j) /\ Goes(W, j, i) => i = j
         /\ \A i, j, k \in 1..n : Goes(W, i, j) /\ Goes(W, j, k) => Goes(W, i, k)
  <1>1. \A i, j \in 1..n : <<i, j>> \in W \/ <<j, i>> \in W
    BY DEF Preorder
  <1>2. \A i, j, k \in 1..n : <<i, j>> \in W /\ <<j, k>> \in W => <<i, k>> \in W
    BY DEF Preorder
  <1>3. \A i \in 1..n : Goes(W, i, i)
    BY <1>1 DEF Goes
  <1>4. \A i, j \in 1..n : Goes(W, i, j) \/ Goes(W, j, i)
    <2> TAKE i, j \in 1..n
    <2>1. <<i, j>> \in W \/ <<j, i>> \in W
      BY <1>1
    <2>2. i <= j \/ j <= i
      OBVIOUS
    <2> QED
      BY <2>1, <2>2 DEF Goes
  <1>5. \A i, j \in 1..n : Goes(W, i, j) /\ Goes(W, j, i) => i = j
    BY <1>1 DEF Goes
  <1>6. \A i, j, k \in 1..n : Goes(W, i, j) /\ Goes(W, j, k) => Goes(W, i, k)
    <2> TAKE i, j, k \in 1..n
    <2> HAVE Goes(W, i, j) /\ Goes(W, j, k)
    <2>1. <<i, j>> \in W /\ <<j, k>> \in W /\ <<i, k>> \in W
      BY <1>1, <1>2 DEF Goes
    <2>2. CASE <<k, i>> \notin W
      BY <2>2 DEF Goes
    <2>3. CASE <<k, i>> \in W
      <3>1. <<j, i>> \in W /\ <<k, j>> \in W
        BY <1>2, <2>1, <2>3
      <3>2. i <= j /\ j <= k
        BY <3>1 DEF Goes
      <3>3. i <= k
        BY <3>2
      <3> QED
        BY <2>1, <3>3 DEF Goes
    <2> QED
      BY <2>2, <2>3
  <1> QED
    BY <1>3, <1>4, <1>5, <1>6

(* Places are told apart and in order.                                     *)
LEMMA PlacesInOrder ==
  ASSUME NEW n \in Nat, NEW W, Preorder(W, n)
  PROVE  /\ \A i \in 1..n : PlaceOf(W, n, i) \in 1..n
         /\ \A i, j \in 1..n : i # j /\ Goes(W, i, j) => PlaceOf(W, n, i) < PlaceOf(W, n, j)
  <1> DEFINE upTo(i) == {j \in 1..n : Goes(W, j, i)}
  <1>1. IsFiniteSet(1..n) /\ Cardinality(1..n) = n
    BY FS_Interval
  <1>2. ASSUME NEW i \in 1..n
        PROVE  /\ IsFiniteSet(upTo(i)) /\ Cardinality(upTo(i)) \in Nat
               /\ Cardinality(upTo(i)) <= n /\ Cardinality(upTo(i)) # 0
    <2>1. upTo(i) \in SUBSET (1..n) /\ i \in upTo(i)
      BY GoesIsOrder
    <2> HIDE DEF upTo
    <2>2. IsFiniteSet(upTo(i)) /\ Cardinality(upTo(i)) <= n
      BY <1>1, <2>1, FS_Subset
    <2>3. Cardinality(upTo(i)) \in Nat
      BY <2>2, FS_CardinalityType
    <2>4. Cardinality(upTo(i)) # 0
      BY <2>1, <2>2, FS_EmptySet
    <2> QED
      BY <2>2, <2>3, <2>4
  <1>3. ASSUME NEW i \in 1..n, NEW j \in 1..n, i # j, Goes(W, i, j)
        PROVE  Cardinality(upTo(i)) < Cardinality(upTo(j))
    <2>1. upTo(i) \in SUBSET upTo(j) /\ j \in upTo(j) /\ j \notin upTo(i)
      BY <1>3, GoesIsOrder
    <2>2. /\ IsFiniteSet(upTo(j))
          /\ Cardinality(upTo(i)) \in Nat /\ Cardinality(upTo(j)) \in Nat
      BY <1>2
    <2> HIDE DEF upTo
    <2>3. Cardinality(upTo(i)) <= Cardinality(upTo(j))
          /\ Cardinality(upTo(i)) # Cardinality(upTo(j))
      BY <2>1, <2>2, FS_Subset
    <2> QED
      BY <2>2, <2>3
  <1>4. \A i \in 1..n : PlaceOf(W, n, i) = Cardinality(upTo(i))
    BY DEF PlaceOf
  <1> HIDE DEF upTo
  <1> QED
    BY <1>2, <1>3, <1>4

(* Every place is taken, once.                                             *)
LEMMA EveryPlaceIsTaken ==
  ASSUME NEW n \in Nat, NEW W, Preorder(W, n)
  PROVE  [i \in 1..n |-> PlaceOf(W, n, i)] \in Bijection(1..n, 1..n)
  <1> DEFINE p == [i \in 1..n |-> PlaceOf(W, n, i)]
  <1>1. p \in [1..n -> 1..n]
    BY PlacesInOrder
  <1>2. ASSUME NEW i \in 1..n, NEW j \in 1..n, p[i] = p[j] PROVE i = j
    <2> SUFFICES ASSUME i # j PROVE FALSE
      OBVIOUS
    <2>1. PlaceOf(W, n, i) = PlaceOf(W, n, j)
      BY <1>2
    <2>2. Goes(W, i, j) \/ Goes(W, j, i)
      BY GoesIsOrder
    <2>3. PlaceOf(W, n, i) < PlaceOf(W, n, j) \/ PlaceOf(W, n, j) < PlaceOf(W, n, i)
      BY <2>2, PlacesInOrder
    <2>4. PlaceOf(W, n, i) \in 1..n /\ PlaceOf(W, n, j) \in 1..n
      BY PlacesInOrder
    <2> QED
      BY <2>1, <2>3, <2>4
  <1> HIDE DEF p
  <1>3. p \in Injection(1..n, 1..n)
    BY <1>1, <1>2 DEF Injection, IsInjective
  <1>4. IsFiniteSet(1..n)
    BY FS_Interval
  <1>5. p \in Surjection(1..n, 1..n)
    BY <1>3, <1>4, FS_Injection
  <1>6. p \in Bijection(1..n, 1..n)
    BY <1>3, <1>5 DEF Bijection
  <1> QED
    BY <1>6 DEF p

(* The first of the least of some places.                                  *)
LEMMA FirstExists ==
  ASSUME NEW n \in Nat, NEW W, Preorder(W, n), NEW S \in SUBSET (1..n), S # {}
  PROVE  \E i \in S : \A j \in S : <<i, j>> \in W /\ (j < i => <<j, i>> \notin W)
  <1> DEFINE T == {PlaceOf(W, n, i) : i \in S}
  <1>1. T \in SUBSET Nat /\ T # {}
    <2>1. \A i \in S : PlaceOf(W, n, i) \in Nat
      BY PlacesInOrder
    <2> QED
      BY <2>1
  <1>2. PICK x \in T : \A y \in T : x <= y
    BY <1>1, LeastNumber
  <1>3. PICK i \in S : x = PlaceOf(W, n, i)
    BY <1>2
  <1>4. ASSUME NEW j \in S PROVE <<i, j>> \in W /\ (j < i => <<j, i>> \notin W)
    <2>1. PlaceOf(W, n, i) <= PlaceOf(W, n, j)
      BY <1>2, <1>3
    <2>2. PlaceOf(W, n, i) \in 1..n /\ PlaceOf(W, n, j) \in 1..n /\ i \in 1..n /\ j \in 1..n
      BY PlacesInOrder
    <2>3. i # j => ~ Goes(W, j, i)
      BY <2>1, <2>2, PlacesInOrder
    <2>4. i # j => <<i, j>> \in W /\ ~ (j <= i /\ <<j, i>> \in W)
      BY <2>3 DEF Goes
    <2>5. <<i, i>> \in W
      BY <2>2 DEF Preorder
    <2> QED
      BY <2>2, <2>4, <2>5
  <1> QED
    BY <1>4

-----------------------------------------------------------------------------
(* The order of texts is total.                                            *)

(* s and t agree up to d, where t goes on and s is lower or at its end.    *)
BeforeAt(s, t, d) ==
  /\ d <= Len(t) /\ d <= Len(s) + 1
  /\ \A k \in 1..(d - 1) : s[k] = t[k]
  /\ d = Len(s) + 1 \/ s[d] < t[d]

LEMMA PrefixesAgree ==
  ASSUME NEW s \in Texts, NEW t \in Texts, NEW n \in Nat, n <= Len(s), n <= Len(t)
  PROVE  SubSeq(s, 1, n) = SubSeq(t, 1, n) <=> \A k \in 1..n : s[k] = t[k]
  <1>1. Len(s) \in Nat /\ Len(t) \in Nat
    BY DEF Texts
  <1>2. SubSeq(s, 1, n) = [k \in 1..n |-> s[k]] /\ SubSeq(t, 1, n) = [k \in 1..n |-> t[k]]
    BY <1>1 DEF Texts
  <1> QED
    BY <1>2

LEMMA WholePrefix ==
  ASSUME NEW s \in Texts
  PROVE  SubSeq(s, 1, Len(s)) = s
  BY DEF Texts

LEMMA BeforeIs ==
  ASSUME NEW s \in Texts, NEW t \in Texts
  PROVE  Before(s, t) <=> \E d \in Nat : d # 0 /\ BeforeAt(s, t, d)
  <1>1. /\ Len(s) \in Nat /\ Len(t) \in Nat
        /\ \A i \in 1..Len(s) : s[i] \in Nat
        /\ \A i \in 1..Len(t) : t[i] \in Nat
    BY DEF Texts
  <1>2. ASSUME Len(s) < Len(t), s = SubSeq(t, 1, Len(s))
        PROVE  BeforeAt(s, t, Len(s) + 1)
    <2>1. SubSeq(s, 1, Len(s)) = SubSeq(t, 1, Len(s))
      BY <1>2, WholePrefix
    <2>2. \A k \in 1..Len(s) : s[k] = t[k]
      BY <1>1, <1>2, <2>1, PrefixesAgree
    <2> QED
      BY <1>1, <1>2, <2>2 DEF BeforeAt
  <1>3. ASSUME NEW i \in 1..Len(s), i <= Len(t), s[i] < t[i],
               SubSeq(s, 1, i - 1) = SubSeq(t, 1, i - 1)
        PROVE  BeforeAt(s, t, i)
    <2>1. i - 1 \in Nat /\ i - 1 <= Len(s) /\ i - 1 <= Len(t)
      BY <1>1, <1>3
    <2>2. \A k \in 1..(i - 1) : s[k] = t[k]
      BY <1>3, <2>1, PrefixesAgree
    <2> QED
      BY <1>1, <1>3, <2>2 DEF BeforeAt
  <1>4. Before(s, t) => \E d \in Nat : d # 0 /\ BeforeAt(s, t, d)
    <2> SUFFICES ASSUME Before(s, t)
                 PROVE  \E d \in Nat : d # 0 /\ BeforeAt(s, t, d)
      OBVIOUS
    <2>1. CASE Len(s) < Len(t) /\ s = SubSeq(t, 1, Len(s))
      <3>1. Len(s) + 1 \in Nat /\ Len(s) + 1 # 0
        BY <1>1
      <3> QED
        BY <1>2, <2>1, <3>1
    <2>2. CASE ~ (Len(s) < Len(t) /\ s = SubSeq(t, 1, Len(s)))
      <3>1. PICK i \in 1..Len(s) : /\ i <= Len(t) /\ s[i] < t[i]
                                   /\ SubSeq(s, 1, i - 1) = SubSeq(t, 1, i - 1)
        BY <2>2 DEF Before
      <3>2. i \in Nat /\ i # 0
        BY <1>1
      <3> QED
        BY <1>3, <3>1, <3>2
    <2> QED
      BY <2>1, <2>2
  <1>5. ASSUME NEW d \in Nat, d # 0, BeforeAt(s, t, d) PROVE Before(s, t)
    <2>1. d <= Len(t) /\ d <= Len(s) + 1 /\ (d = Len(s) + 1 \/ s[d] < t[d])
      BY <1>5 DEF BeforeAt
    <2>2. d - 1 \in Nat /\ d - 1 <= Len(s) /\ d - 1 <= Len(t)
      BY <1>1, <1>5, <2>1
    <2>3. SubSeq(s, 1, d - 1) = SubSeq(t, 1, d - 1)
      <3>1. \A k \in 1..(d - 1) : s[k] = t[k]
        BY <1>5 DEF BeforeAt
      <3> QED
        BY <2>2, <3>1, PrefixesAgree
    <2>4. CASE d = Len(s) + 1
      <3>1. d - 1 = Len(s) /\ Len(s) < Len(t)
        BY <1>1, <2>1, <2>4
      <3>2. s = SubSeq(t, 1, Len(s))
        BY <2>3, <3>1, WholePrefix
      <3> QED
        BY <3>1, <3>2 DEF Before
    <2>5. CASE d # Len(s) + 1
      <3>1. d \in 1..Len(s) /\ s[d] < t[d]
        BY <1>1, <1>5, <2>1, <2>5
      <3> QED
        BY <2>1, <2>3, <3>1 DEF Before
    <2> QED
      BY <2>4, <2>5
  <1> QED
    BY <1>4, <1>5

LEMMA TextsAreOrdered ==
  /\ \A s, t \in Texts : Before(s, t) \/ Before(t, s) \/ s = t
  /\ \A s, t \in Texts : ~ (Before(s, t) /\ Before(t, s))
  /\ \A s, t, u \in Texts : Before(s, t) /\ Before(t, u) => Before(s, u)
  <1>0. \A s \in Texts : Len(s) \in Nat /\ \A i \in 1..Len(s) : s[i] \in Nat
    BY DEF Texts
  <1>1. ASSUME NEW s \in Texts, NEW t \in Texts PROVE Before(s, t) \/ Before(t, s) \/ s = t
    <2> DEFINE T == {d \in Nat : d # 0 /\ (d > Len(s) \/ d > Len(t) \/ s[d] # t[d])}
    <2>1. Len(s) \in Nat /\ Len(t) \in Nat /\ Len(s) + 1 \in T
      BY <1>0
    <2>2. PICK d \in T : \A e \in T : d <= e
      BY <2>1, LeastNumber
    <2>3. d \in Nat /\ d # 0 /\ (d > Len(s) \/ d > Len(t) \/ s[d] # t[d])
      BY <2>2
    <2>4. \A k \in 1..(d - 1) : k <= Len(s) /\ k <= Len(t) /\ s[k] = t[k]
      <3> TAKE k \in 1..(d - 1)
      <3>1. k \in Nat /\ k # 0 /\ ~ (d <= k)
        BY <2>3
      <3>2. k \notin T
        BY <2>2, <3>1
      <3> QED
        BY <2>1, <3>1, <3>2
    <2> HIDE DEF T
    <2>5. d <= Len(s) + 1 /\ d <= Len(t) + 1
      <3>1. d - 1 = 0 \/ d - 1 \in 1..(d - 1)
        BY <2>3
      <3>2. d - 1 <= Len(s) /\ d - 1 <= Len(t)
        BY <2>1, <2>4, <3>1
      <3> QED
        BY <2>1, <2>3, <3>2
    <2>6. CASE d > Len(s) /\ d > Len(t)
      <3>1. Len(s) = Len(t) /\ d - 1 = Len(s)
        BY <2>1, <2>3, <2>5, <2>6
      <3>2. SubSeq(s, 1, Len(s)) = SubSeq(t, 1, Len(s))
        BY <2>1, <2>4, <3>1, PrefixesAgree
      <3> QED
        BY <3>1, <3>2, WholePrefix
    <2>7. CASE d > Len(s) /\ d <= Len(t)
      <3>1. BeforeAt(s, t, d)
        BY <2>1, <2>3, <2>4, <2>5, <2>7 DEF BeforeAt
      <3> QED
        BY <2>3, <3>1, BeforeIs
    <2>8. CASE d <= Len(s) /\ d > Len(t)
      <3>1. BeforeAt(t, s, d)
        BY <2>1, <2>3, <2>4, <2>5, <2>8 DEF BeforeAt
      <3> QED
        BY <2>3, <3>1, BeforeIs
    <2>9. CASE d <= Len(s) /\ d <= Len(t)
      <3>1. s[d] # t[d] /\ s[d] \in Nat /\ t[d] \in Nat
        BY <1>0, <2>1, <2>3, <2>9
      <3>2. CASE s[d] < t[d]
        <4>1. BeforeAt(s, t, d)
          BY <2>1, <2>3, <2>4, <2>5, <2>9, <3>2 DEF BeforeAt
        <4> QED
          BY <2>3, <4>1, BeforeIs
      <3>3. CASE t[d] < s[d]
        <4>1. BeforeAt(t, s, d)
          BY <2>1, <2>3, <2>4, <2>5, <2>9, <3>3 DEF BeforeAt
        <4> QED
          BY <2>3, <4>1, BeforeIs
      <3> QED
        BY <3>1, <3>2, <3>3
    <2> QED
      BY <2>1, <2>3, <2>6, <2>7, <2>8, <2>9
  <1>2. ASSUME NEW s \in Texts, NEW t \in Texts, Before(s, t), Before(t, s) PROVE FALSE
    <2>1. PICK d \in Nat : d # 0 /\ BeforeAt(s, t, d)
      BY <1>2, BeforeIs
    <2>2. PICK e \in Nat : e # 0 /\ BeforeAt(t, s, e)
      BY <1>2, BeforeIs
    <2>3. /\ Len(s) \in Nat /\ Len(t) \in Nat
          /\ \A i \in 1..Len(s) : s[i] \in Nat
          /\ \A i \in 1..Len(t) : t[i] \in Nat
      BY <1>0
    <2>4. CASE d < e
      <3>1. d \in 1..(e - 1)
        BY <2>1, <2>2, <2>4
      <3>2. s[d] = t[d] /\ d <= Len(t) /\ e <= Len(s)
        BY <2>1, <2>2, <3>1 DEF BeforeAt
      <3>3. s[d] < t[d]
        BY <2>1, <2>3, <2>4, <3>2 DEF BeforeAt
      <3> QED
        BY <2>1, <2>3, <3>2, <3>3
    <2>5. CASE e < d
      <3>1. e \in 1..(d - 1)
        BY <2>1, <2>2, <2>5
      <3>2. s[e] = t[e] /\ e <= Len(s) /\ d <= Len(t)
        BY <2>1, <2>2, <3>1 DEF BeforeAt
      <3>3. t[e] < s[e]
        BY <2>2, <2>3, <2>5, <3>2 DEF BeforeAt
      <3> QED
        BY <2>2, <2>3, <3>2, <3>3
    <2>6. CASE d = e
      <3>1. d <= Len(s) /\ d <= Len(t)
        BY <2>1, <2>2, <2>6 DEF BeforeAt
      <3>2. s[d] < t[d] /\ t[d] < s[d]
        BY <2>1, <2>2, <2>3, <2>6, <3>1 DEF BeforeAt
      <3> QED
        BY <2>1, <2>3, <3>1, <3>2
    <2> QED
      BY <2>4, <2>5, <2>6
  <1>3. ASSUME NEW s \in Texts, NEW t \in Texts, NEW u \in Texts, Before(s, t), Before(t, u)
        PROVE  Before(s, u)
    <2>1. PICK d \in Nat : d # 0 /\ BeforeAt(s, t, d)
      BY <1>3, BeforeIs
    <2>2. PICK e \in Nat : e # 0 /\ BeforeAt(t, u, e)
      BY <1>3, BeforeIs
    <2>3. /\ Len(s) \in Nat /\ Len(t) \in Nat /\ Len(u) \in Nat
          /\ \A i \in 1..Len(s) : s[i] \in Nat
          /\ \A i \in 1..Len(t) : t[i] \in Nat
          /\ \A i \in 1..Len(u) : u[i] \in Nat
      BY <1>0
    <2>4. /\ d <= Len(t) /\ d <= Len(s) + 1 /\ (d = Len(s) + 1 \/ s[d] < t[d])
          /\ e <= Len(u) /\ e <= Len(t) + 1 /\ (e = Len(t) + 1 \/ t[e] < u[e])
      BY <2>1, <2>2 DEF BeforeAt
    <2>5. (\A k \in 1..(d - 1) : s[k] = t[k]) /\ (\A k \in 1..(e - 1) : t[k] = u[k])
      BY <2>1, <2>2 DEF BeforeAt
    <2>6. CASE d < e
      <3>1. t[d] = u[d] /\ \A k \in 1..(d - 1) : s[k] = u[k]
        <4>1. d \in 1..(e - 1) /\ \A k \in 1..(d - 1) : k \in 1..(e - 1)
          BY <2>1, <2>2, <2>6
        <4> QED
          BY <2>5, <4>1
      <3>2. BeforeAt(s, u, d)
        <4>1. d <= Len(u)
          BY <2>3, <2>4, <2>6
        <4> QED
          BY <2>4, <3>1, <4>1 DEF BeforeAt
      <3> QED
        BY <2>1, <3>2, BeforeIs
    <2>7. CASE e < d
      <3>1. s[e] = t[e] /\ \A k \in 1..(e - 1) : s[k] = u[k]
        <4>1. e \in 1..(d - 1) /\ \A k \in 1..(e - 1) : k \in 1..(d - 1)
          BY <2>1, <2>2, <2>7
        <4> QED
          BY <2>5, <4>1
      <3>2. BeforeAt(s, u, e)
        <4>1. e <= Len(s) + 1 /\ e # Len(t) + 1
          BY <2>3, <2>4, <2>7
        <4> QED
          BY <2>4, <3>1, <4>1 DEF BeforeAt
      <3> QED
        BY <2>2, <3>2, BeforeIs
    <2>8. CASE d = e
      <3>1. \A k \in 1..(d - 1) : s[k] = u[k]
        BY <2>5, <2>8
      <3>2. d # Len(t) + 1 /\ t[d] < u[d]
        BY <2>3, <2>4, <2>8
      <3>3. d = Len(s) + 1 \/ s[d] < u[d]
        <4> SUFFICES ASSUME d # Len(s) + 1 PROVE s[d] < u[d]
          OBVIOUS
        <4>1. d \in 1..Len(s) /\ d \in 1..Len(t) /\ d \in 1..Len(u)
          BY <2>1, <2>3, <2>4, <2>8
        <4> QED
          BY <2>3, <2>4, <3>2, <4>1
      <3>4. BeforeAt(s, u, d)
        BY <2>4, <2>8, <3>1, <3>3 DEF BeforeAt
      <3> QED
        BY <2>1, <3>4, BeforeIs
    <2> QED
      BY <2>6, <2>7, <2>8
  <1> QED
    BY <1>1, <1>2, <1>3

-----------------------------------------------------------------------------
(* Rows and their order                                                    *)
RowRecord ==
  [method : Texts, transport : {"http", "ws", "unknown"}, name : Texts,
   calls : Nat \ {0}, latency : Nat, tail : Nat]

LEMMA RowsAreOrdered ==
  ASSUME NEW a \in RowRecord, NEW b \in RowRecord, NEW c \in RowRecord
  PROVE  /\ ~ (RowBefore(a, b) /\ RowBefore(b, a))
         /\ ~ RowBefore(b, a) /\ ~ RowBefore(c, b) => ~ RowBefore(c, a)
         /\ ~ RowBefore(a, b) /\ ~ RowBefore(b, a) =>
              a.method = b.method /\ a.transport = b.transport
         /\ ~ RowBefore(b, a) /\ a.method = b.method /\ a.transport = b.transport =>
              ~ Before(b.name, a.name)
         /\ ~ RowBefore(b, a) /\ ~ RowBefore(c, b) /\ a.method = c.method =>
              /\ b.method = a.method
              /\ a.transport = c.transport => b.transport = a.transport
  <1>1. /\ a.method \in Texts /\ b.method \in Texts /\ c.method \in Texts
        /\ a.name \in Texts /\ b.name \in Texts /\ c.name \in Texts
    BY DEF RowRecord
  <1> DEFINE o(r) == TransportOrder[r.transport]
  <1>2. /\ o(a) \in Nat /\ o(b) \in Nat /\ o(c) \in Nat
        /\ o(a) = o(b) => a.transport = b.transport
        /\ o(b) = o(c) => b.transport = c.transport
        /\ o(a) = o(c) => a.transport = c.transport
    BY DEF RowRecord, TransportOrder
  <1>3. /\ a.transport = b.transport => o(a) = o(b)
        /\ b.transport = c.transport => o(b) = o(c)
        /\ a.transport = c.transport => o(a) = o(c)
    OBVIOUS
  <1>4. \A r, q : RowBefore(r, q) <=>
          \/ r.method # q.method /\ Before(r.method, q.method)
          \/ r.method = q.method /\ r.transport # q.transport /\ o(r) < o(q)
          \/ r.method = q.method /\ r.transport = q.transport /\ Before(r.name, q.name)
    BY DEF RowBefore
  <1> HIDE DEF o
  <1>5. /\ \A s, t \in Texts : Before(s, t) \/ Before(t, s) \/ s = t
        /\ \A s, t \in Texts : ~ (Before(s, t) /\ Before(t, s))
        /\ \A s, t, u \in Texts : Before(s, t) /\ Before(t, u) => Before(s, u)
    BY TextsAreOrdered
  <1>6. ~ (RowBefore(a, b) /\ RowBefore(b, a))
    BY <1>1, <1>2, <1>3, <1>4, <1>5
  <1>7. ASSUME ~ RowBefore(a, b), ~ RowBefore(b, a)
        PROVE  a.method = b.method /\ a.transport = b.transport
    BY <1>1, <1>2, <1>4, <1>5, <1>7
  <1>8. ~ RowBefore(b, a) /\ a.method = b.method /\ a.transport = b.transport =>
          ~ Before(b.name, a.name)
    BY <1>4
  <1>9. ASSUME ~ RowBefore(b, a), ~ RowBefore(c, b), a.method = c.method
        PROVE  /\ b.method = a.method
               /\ a.transport = c.transport => b.transport = a.transport
    <2>1. b.method = a.method
      BY <1>1, <1>4, <1>5, <1>9
    <2>2. a.transport = c.transport => b.transport = a.transport
      BY <1>2, <1>3, <1>4, <1>9, <2>1
    <2> QED
      BY <2>1, <2>2
  <1>10. ASSUME ~ RowBefore(b, a), ~ RowBefore(c, b), RowBefore(c, a) PROVE FALSE
    <2>1. CASE c.method # a.method
      <3>1. Before(c.method, a.method)
        BY <1>4, <1>10, <2>1
      <3>2. /\ b.method # a.method => ~ Before(b.method, a.method)
            /\ c.method # b.method => ~ Before(c.method, b.method)
        BY <1>4, <1>10
      <3> QED
        BY <1>1, <1>5, <3>1, <3>2
    <2>2. CASE c.method = a.method /\ c.transport # a.transport
      <3>1. b.method = a.method
        BY <1>9, <1>10, <2>2
      <3>2. o(c) < o(a)
        BY <1>4, <1>10, <2>2
      <3>3. /\ b.transport # a.transport => ~ (o(b) < o(a))
            /\ c.transport # b.transport => ~ (o(c) < o(b))
        BY <1>4, <1>10, <2>2, <3>1
      <3> QED
        BY <1>2, <1>3, <3>2, <3>3
    <2>3. CASE c.method = a.method /\ c.transport = a.transport
      <3>1. b.method = a.method /\ b.transport = a.transport
        BY <1>9, <1>10, <2>3
      <3>2. Before(c.name, a.name) /\ ~ Before(b.name, a.name) /\ ~ Before(c.name, b.name)
        BY <1>4, <1>10, <2>3, <3>1
      <3> QED
        BY <1>1, <1>5, <3>2
    <2> QED
      BY <2>1, <2>2, <2>3
  <1> QED
    BY <1>6, <1>7, <1>8, <1>9, <1>10

(* Sorting rows moves each to a place of its own, none behind one that     *)
(* goes before it.                                                         *)
LEMMA RowsSorted ==
  ASSUME NEW s \in Seq(RowRecord)
  PROVE  \E q \in Bijection(1..Len(s), 1..Len(s)) :
           /\ Sorted(s, RowBefore) = [k \in 1..Len(s) |-> s[q[k]]]
           /\ \A k, l \in 1..Len(s) : k < l => ~ RowBefore(s[q[l]], s[q[k]])
  <1> DEFINE n == Len(s)
             W == {p \in (1..n) \X (1..n) : ~ RowBefore(s[p[2]], s[p[1]])}
             place == [i \in 1..n |-> PlaceOf(W, n, i)]
             q == [k \in 1..n |-> CHOOSE i \in 1..n : place[i] = k]
  <1>1. n \in Nat /\ DOMAIN s = 1..n /\ \A i \in 1..n : s[i] \in RowRecord
    OBVIOUS
  <1>2. \A i, j \in 1..n : <<i, j>> \in W <=> ~ RowBefore(s[j], s[i])
    OBVIOUS
  <1> HIDE DEF n, W
  <1>3. Preorder(W, n)
    <2>1. \A i, j \in 1..n : <<i, j>> \in W \/ <<j, i>> \in W
      BY <1>1, <1>2, RowsAreOrdered
    <2>2. ASSUME NEW i \in 1..n, NEW j \in 1..n, NEW k \in 1..n,
                 <<i, j>> \in W, <<j, k>> \in W
          PROVE  <<i, k>> \in W
      <3>1. ~ RowBefore(s[j], s[i]) /\ ~ RowBefore(s[k], s[j])
        BY <1>2, <2>2
      <3>2. ~ RowBefore(s[k], s[i])
        BY <1>1, <3>1, RowsAreOrdered
      <3> QED
        BY <1>2, <3>2
    <2> QED
      BY <2>1, <2>2 DEF Preorder
  <1>4. \A i \in 1..n :
          PlaceOf(W, n, i) = Cardinality({j \in DOMAIN s :
                               \/ RowBefore(s[j], s[i])
                               \/ j <= i /\ ~ RowBefore(s[i], s[j])})
    <2> TAKE i \in 1..n
    <2>1. \A j \in 1..n : Goes(W, j, i) <=> \/ RowBefore(s[j], s[i])
                                            \/ j <= i /\ ~ RowBefore(s[i], s[j])
      BY <1>2 DEF Goes
    <2>2. {j \in 1..n : Goes(W, j, i)}
            = {j \in DOMAIN s : \/ RowBefore(s[j], s[i])
                                \/ j <= i /\ ~ RowBefore(s[i], s[j])}
      BY <1>1, <2>1
    <2> QED
      BY <2>2 DEF PlaceOf
  <1>5. Sorted(s, RowBefore) = [k \in 1..n |-> s[q[k]]]
    <2> DEFINE P(i) == Cardinality({j \in DOMAIN s :
                               \/ RowBefore(s[j], s[i])
                               \/ j <= i /\ ~ RowBefore(s[i], s[j])})
    <2>1. Sorted(s, RowBefore) = [k \in DOMAIN s |-> s[CHOOSE i \in DOMAIN s : P(i) = k]]
      BY DEF Sorted
    <2>2. \A i \in 1..n : place[i] = P(i)
      BY <1>4
    <2> HIDE DEF P, place
    <2>3. \A k \in 1..n : (CHOOSE i \in DOMAIN s : P(i) = k) = q[k]
      <3> TAKE k \in 1..n
      <3>1. \A i : (i \in DOMAIN s /\ P(i) = k) <=> (i \in 1..n /\ place[i] = k)
        BY <1>1, <2>2
      <3>2. (CHOOSE i : i \in DOMAIN s /\ P(i) = k) = CHOOSE i : i \in 1..n /\ place[i] = k
        BY <3>1
      <3> QED
        BY <3>2
    <2> QED
      BY <1>1, <2>1, <2>3
  <1>6. place \in Bijection(1..n, 1..n)
    BY <1>1, <1>3, EveryPlaceIsTaken
  <1> HIDE DEF place
  <1>7. \A k \in 1..n : q[k] \in 1..n /\ place[q[k]] = k
    <2> TAKE k \in 1..n
    <2>1. \E i \in 1..n : place[i] = k
      BY <1>6 DEF Bijection, Surjection
    <2> QED
      BY <2>1
  <1>8. place \in [1..n -> 1..n] /\ \A i, j \in 1..n : place[i] = place[j] => i = j
    BY <1>6 DEF Bijection, Injection, IsInjective
  <1>9. q \in Bijection(1..n, 1..n)
    <2>1. q \in [1..n -> 1..n]
      BY <1>7
    <2> HIDE DEF q
    <2>2. q \in Injection(1..n, 1..n)
      BY <1>7, <2>1 DEF Injection, IsInjective
    <2>3. \A i \in 1..n : \E k \in 1..n : q[k] = i
      <3> TAKE i \in 1..n
      <3>1. place[i] \in 1..n
        BY <1>8
      <3>2. q[place[i]] = i
        BY <1>7, <1>8, <3>1
      <3> QED
        BY <3>1, <3>2
    <2>4. q \in Surjection(1..n, 1..n)
      BY <2>1, <2>3 DEF Surjection
    <2> QED
      BY <2>2, <2>4 DEF Bijection
  <1> HIDE DEF q
  <1>10. ASSUME NEW k \in 1..n, NEW l \in 1..n, k < l
         PROVE  ~ RowBefore(s[q[l]], s[q[k]])
    <2>1. q[k] \in 1..n /\ q[l] \in 1..n
      BY <1>7
    <2>2. PlaceOf(W, n, q[k]) = k /\ PlaceOf(W, n, q[l]) = l
      BY <1>7, <2>1 DEF place
    <2>3. ~ Goes(W, q[l], q[k])
      <3> SUFFICES ASSUME Goes(W, q[l], q[k]) PROVE FALSE
        OBVIOUS
      <3>1. q[l] # q[k]
        BY <1>7, <1>10
      <3>2. PlaceOf(W, n, q[l]) < PlaceOf(W, n, q[k])
        BY <1>1, <1>3, <2>1, <3>1, PlacesInOrder
      <3> QED
        BY <1>1, <1>10, <2>2, <3>2
    <2>4. <<q[k], q[l]>> \in W
      BY <2>3 DEF Goes
    <2> QED
      BY <1>2, <2>1, <2>4
  <1> QED
    BY <1>5, <1>9, <1>10 DEF n

-----------------------------------------------------------------------------
(* The rows of an answer                                                   *)
Sources(data) == UNION {{e} \X DOMAIN data[e].providers : e \in DOMAIN data}
SourceRow(data, s) == RowsOf(data[s[1]])[s[2]]

LEMMA RowsOfEntry ==
  ASSUME NEW entry \in Entries
  PROVE  /\ RowsOf(entry) \in Seq(RowRecord)
         /\ Len(entry.providers) \in Nat
         /\ DOMAIN entry.providers = 1..Len(entry.providers)
         /\ Len(RowsOf(entry)) = Len(entry.providers)
  <1> DEFINE p == entry.providers
             n == Len(p)
             row(i) == [method |-> entry.name, transport |-> Transport(entry),
                        name |-> p[i].name, calls |-> p[i].calls,
                        latency |-> p[i].latency, tail |-> p[i].tail]
  <1>1. p \in Seq(Figures) /\ entry.name \in Texts /\ entry.suffix \in Seq({"http", "ws"})
    BY DEF Entries
  <1>2. n \in Nat /\ DOMAIN p = 1..n /\ \A i \in 1..n : p[i] \in Figures
    BY <1>1
  <1>3. Transport(entry) \in {"http", "ws", "unknown"}
    BY <1>1 DEF Transport
  <1>4. RowsOf(entry) = [i \in 1..n |-> row(i)]
    BY <1>2 DEF RowsOf
  <1>5. \A i \in 1..n : row(i) \in RowRecord
    BY <1>1, <1>2, <1>3 DEF Figures, RowRecord
  <1> HIDE DEF n, p, row
  <1>6. [i \in 1..n |-> row(i)] \in [1..n -> RowRecord]
    BY <1>5
  <1>7. RowsOf(entry) \in Seq(RowRecord) /\ Len(RowsOf(entry)) = n
    BY <1>2, <1>4, <1>6
  <1> QED
    BY <1>2, <1>7 DEF n, p

LEMMA RowsExtracted ==
  ASSUME NEW data \in Seq(Entries)
  PROVE  /\ Extracted(data) \in Seq(RowRecord)
         /\ \E b \in Bijection(1..Len(Extracted(data)), Sources(data)) :
              \A i \in 1..Len(Extracted(data)) :
                Extracted(data)[i] = SourceRow(data, b[i])
  <1> DEFINE n == Len(data)
             s == [e \in DOMAIN data |-> RowsOf(data[e])]
             width(e) == Len(data[e].providers)
             upTo(e) == {x \in Sources(data) : x[1] <= e}
  <1>1. n \in Nat /\ DOMAIN data = 1..n /\ \A e \in 1..n : data[e] \in Entries
    OBVIOUS
  <1>2. \A e \in 1..n : /\ RowsOf(data[e]) \in Seq(RowRecord)
                        /\ width(e) \in Nat /\ DOMAIN data[e].providers = 1..width(e)
                        /\ Len(RowsOf(data[e])) = width(e)
    BY <1>1, RowsOfEntry
  <1>3. \A x : x \in Sources(data) <=> \E e \in 1..n : \E i \in 1..width(e) : x = <<e, i>>
    <2>1. \A x : x \in Sources(data) <=> \E e \in 1..n : x \in {e} \X (1..width(e))
      BY <1>1, <1>2 DEF Sources
    <2> QED
      BY <2>1
  <1>4. s \in Seq(Seq(RowRecord)) /\ Len(s) = n /\ \A e \in 1..n : s[e] = RowsOf(data[e])
    <2>1. s \in [1..n -> Seq(RowRecord)]
      BY <1>1, <1>2
    <2> HIDE DEF s, n
    <2>2. s \in Seq(Seq(RowRecord)) /\ Len(s) = n
      BY <1>1, <2>1
    <2> QED
      BY <1>1, <2>2 DEF s
  <1> HIDE DEF s
  <1>5. PICK f : /\ f \in [0..n -> Seq(RowRecord)]
                 /\ f[0] = <<>>
                 /\ \A e \in 1..n : f[e] = f[e - 1] \o s[e]
                 /\ FlattenSeq(s) = f[n]
    <2> HIDE DEF n
    <2>1. PICK f : /\ f \in [0..Len(s) -> Seq(RowRecord)]
                   /\ f[0] = <<>>
                   /\ \A e \in 1..Len(s) : f[e] = f[e - 1] \o s[e]
                   /\ FlattenSeq(s) = f[Len(s)]
      BY <1>4, FlattenIsLoop
    <2> QED
      BY <1>4, <2>1
  <1> HIDE DEF n, width
  <1> DEFINE Fits(e, b) == /\ b \in [1..Len(f[e]) -> upTo(e)]
                           /\ \A i, j \in 1..Len(f[e]) : b[i] = b[j] => i = j
                           /\ \A x \in upTo(e) : \E i \in 1..Len(f[e]) : b[i] = x
                           /\ \A i \in 1..Len(f[e]) : f[e][i] = SourceRow(data, b[i])
             T == {e \in 0..n : \E b : Fits(e, b)}
  <1>6. 0 \in T
    <2> DEFINE b == [i \in 1..0 |-> 0]
    <2>1. upTo(0) = {}
      BY <1>1, <1>3
    <2>2. Len(f[0]) = 0
      BY <1>5
    <2>3. Fits(0, b)
      BY <2>1, <2>2
    <2> HIDE DEF Fits, b
    <2>4. \E h : Fits(0, h)
      BY <2>3
    <2> QED
      BY <1>1, <2>4
  <1>7. ASSUME NEW e \in 1..n, e - 1 \in T PROVE e \in T
    <2> DEFINE u == f[e - 1]
               v == RowsOf(data[e])
               m == Len(u)
               w == width(e)
    <2>1. PICK b : Fits(e - 1, b)
      BY <1>7
    <2>2. e \in Nat /\ e - 1 \in 0..n /\ u \in Seq(RowRecord) /\ v \in Seq(RowRecord)
      <3>1. e \in Nat /\ e - 1 \in 0..n
        BY <1>1
      <3> QED
        BY <1>2, <1>5, <3>1
    <2>3. f[e] = u \o v
      BY <1>4, <1>5
    <2>4. /\ m \in Nat /\ w \in Nat /\ Len(f[e]) = m + w
          /\ \A i \in 1..m : f[e][i] = u[i]
          /\ \A i \in 1..w : f[e][m + i] = v[i]
      <3> HIDE DEF u, v
      <3>1. Len(v) = w
        BY <1>2 DEF v, w
      <3>2. m \in Nat /\ w \in Nat
        BY <1>2, <2>2
      <3> HIDE DEF w
      <3>3. /\ Len(u \o v) = m + w
            /\ \A i \in 1..m : (u \o v)[i] = u[i]
            /\ \A i \in 1..w : (u \o v)[m + i] = v[i]
        <4>1. u \in Seq(RowRecord) /\ v \in Seq(RowRecord)
          BY <2>2
        <4>2. /\ Len(u \o v) = Len(u) + Len(v)
              /\ \A i \in 1..Len(u) : (u \o v)[i] = u[i]
              /\ \A i \in 1..Len(v) : (u \o v)[Len(u) + i] = v[i]
          BY <4>1, Joining
        <4> QED
          BY <3>1, <4>2
      <3> QED
        BY <2>3, <3>2, <3>3
    <2>5. /\ b \in [1..m -> upTo(e - 1)]
          /\ \A i, j \in 1..m : b[i] = b[j] => i = j
          /\ \A x \in upTo(e - 1) : \E i \in 1..m : b[i] = x
          /\ \A i \in 1..m : u[i] = SourceRow(data, b[i])
      BY <2>1
    <2> DEFINE c == [i \in 1..(m + w) |-> IF i <= m THEN b[i] ELSE <<e, i - m>>]
    <2> HIDE DEF Fits, T, u, m, w
    <2>6. \A x : x \in upTo(e) <=> x \in upTo(e - 1) \/ \E i \in 1..w : x = <<e, i>>
      <3>1. ASSUME NEW x \in upTo(e), x \notin upTo(e - 1) PROVE \E i \in 1..w : x = <<e, i>>
        <4>1. PICK d \in 1..n : \E i \in 1..width(d) : x = <<d, i>>
          BY <1>3, <3>1
        <4>2. d = e
          BY <1>1, <2>2, <3>1, <4>1
        <4> QED
          BY <4>1, <4>2 DEF w
      <3>2. \A x \in upTo(e - 1) : x \in upTo(e)
        <4> TAKE x \in upTo(e - 1)
        <4>1. x \in Sources(data) /\ x[1] <= e - 1
          OBVIOUS
        <4>2. x[1] \in Nat
          BY <1>1, <1>3, <4>1
        <4>3. x[1] <= e
          BY <2>2, <4>1, <4>2
        <4> QED
          BY <4>1, <4>3
      <3>3. \A i \in 1..w : <<e, i>> \in upTo(e)
        BY <1>3, <2>2 DEF w
      <3> QED
        BY <3>1, <3>2, <3>3
    <2>7. \A i \in 1..w : <<e, i>> \notin upTo(e - 1)
      BY <2>2
    <2> HIDE DEF upTo
    <2>8. /\ \A i \in 1..m : i \in 1..(m + w) /\ c[i] = b[i] /\ b[i] \in upTo(e - 1)
          /\ \A i \in 1..w : m + i \in 1..(m + w) /\ c[m + i] = <<e, i>>
      <3>1. \A i \in 1..m : i \in 1..(m + w) /\ c[i] = b[i] /\ b[i] \in upTo(e - 1)
        BY <2>4, <2>5
      <3>2. ASSUME NEW i \in 1..w PROVE m + i \in 1..(m + w) /\ c[m + i] = <<e, i>>
        <4>1. m + i \in 1..(m + w) /\ ~ (m + i <= m) /\ (m + i) - m = i
          BY <2>4
        <4> HIDE DEF SourceRow
        <4> QED
          BY <4>1
      <3> QED
        BY <3>1, <3>2
    <2>9. \A i \in 1..(m + w) : i \in 1..m \/ \E j \in 1..w : i = m + j
      <3> TAKE i \in 1..(m + w)
      <3>1. i \notin 1..m => i - m \in 1..w /\ i = m + (i - m)
        BY <2>4
      <3> QED
        BY <3>1
    <2>10. c \in [1..(m + w) -> upTo(e)]
      <3>1. ASSUME NEW i \in 1..(m + w) PROVE c[i] \in upTo(e)
        <4>1. CASE i \in 1..m
          <5>1. c[i] \in upTo(e - 1)
            BY <2>8, <4>1
          <5> QED
            BY <2>6, <5>1
        <4>2. CASE i \notin 1..m
          <5>1. PICK j \in 1..w : i = m + j
            BY <2>9, <4>2
          <5>2. c[i] = <<e, j>>
            BY <2>8, <5>1
          <5> QED
            BY <2>6, <5>2
        <4> QED
          BY <4>1, <4>2
      <3> QED
        BY <3>1
    <2> HIDE DEF c
    <2>11. ASSUME NEW i \in 1..(m + w), NEW j \in 1..(m + w), c[i] = c[j] PROVE i = j
      <3>1. CASE i \in 1..m /\ j \in 1..m
        BY <2>5, <2>8, <2>11, <3>1
      <3>2. CASE i \in 1..m /\ j \notin 1..m
        <4>1. PICK l \in 1..w : j = m + l
          BY <2>9, <3>2
        <4>2. c[j] = <<e, l>> /\ c[i] \in upTo(e - 1)
          BY <2>8, <3>2, <4>1
        <4> QED
          BY <2>7, <2>11, <4>2
      <3>3. CASE i \notin 1..m /\ j \in 1..m
        <4>1. PICK l \in 1..w : i = m + l
          BY <2>9, <3>3
        <4>2. c[i] = <<e, l>> /\ c[j] \in upTo(e - 1)
          BY <2>8, <3>3, <4>1
        <4> QED
          BY <2>7, <2>11, <4>2
      <3>4. CASE i \notin 1..m /\ j \notin 1..m
        <4>1. PICK k \in 1..w : i = m + k
          BY <2>9, <3>4
        <4>2. PICK l \in 1..w : j = m + l
          BY <2>9, <3>4
        <4>3. <<e, k>> = <<e, l>>
          BY <2>8, <2>11, <4>1, <4>2
        <4> QED
          BY <4>1, <4>2, <4>3
      <3> QED
        BY <3>1, <3>2, <3>3, <3>4
    <2>12. \A x \in upTo(e) : \E i \in 1..(m + w) : c[i] = x
      <3> TAKE x \in upTo(e)
      <3>1. CASE x \in upTo(e - 1)
        BY <2>5, <2>8, <3>1
      <3>2. CASE \E i \in 1..w : x = <<e, i>>
        BY <2>8, <3>2
      <3> QED
        BY <2>6, <3>1, <3>2
    <2>13. \A i \in 1..(m + w) : f[e][i] = SourceRow(data, c[i])
      <3> TAKE i \in 1..(m + w)
      <3>1. CASE i \in 1..m
        BY <2>4, <2>5, <2>8, <3>1
      <3>2. CASE i \notin 1..m
        <4>1. PICK j \in 1..w : i = m + j
          BY <2>9, <3>2
        <4>2. f[e][i] = v[j] /\ c[i] = <<e, j>>
          BY <2>4, <2>8, <4>1
        <4> QED
          BY <4>2 DEF SourceRow
      <3> QED
        BY <3>1, <3>2
    <2>14. Fits(e, c)
      BY <2>4, <2>10, <2>11, <2>12, <2>13 DEF Fits
    <2> QED
      BY <2>14 DEF T
  <1> HIDE DEF T
  <1>8. \A e \in 0..n : e \in T
    BY <1>1, <1>6, <1>7, EveryRound
  <1>9. PICK b : Fits(n, b)
    <2>1. n \in T
      BY <1>1, <1>8
    <2> HIDE DEF Fits
    <2> QED
      BY <2>1 DEF T
  <1>10. upTo(n) = Sources(data)
    <2>1. \A x \in Sources(data) : x[1] <= n
      BY <1>1, <1>3
    <2> QED
      BY <2>1
  <1> HIDE DEF upTo
  <1>11. Extracted(data) = f[n] /\ f[n] \in Seq(RowRecord)
    BY <1>1, <1>5 DEF Extracted, s
  <1>12. b \in Bijection(1..Len(f[n]), Sources(data))
    <2> DEFINE D == 1..Len(f[n])
    <2>1. /\ b \in [D -> Sources(data)]
          /\ \A i, j \in D : b[i] = b[j] => i = j
          /\ \A x \in Sources(data) : \E i \in D : b[i] = x
      BY <1>9, <1>10
    <2> HIDE DEF D
    <2> QED
      BY <2>1 DEF Bijection, Injection, Surjection, IsInjective, D
  <1> QED
    BY <1>9, <1>11, <1>12

-----------------------------------------------------------------------------
(* The table                                                               *)
LEMMA TableOf ==
  ASSUME NEW data \in Seq(Entries)
  PROVE  LET t == TransformToRows(data)
         IN  /\ t \in Seq(RowRecord)
             /\ \A k, l \in 1..Len(t) : k < l => ~ RowBefore(t[l], t[k])
             /\ \E b \in Bijection(1..Len(t), Sources(data)) :
                  \A k \in 1..Len(t) : t[k] = SourceRow(data, b[k])
  <1> DEFINE s == Extracted(data)
             n == Len(s)
             t == TransformToRows(data)
  <1>1. s \in Seq(RowRecord)
    BY RowsExtracted
  <1>2. PICK b \in Bijection(1..n, Sources(data)) :
          \A i \in 1..n : s[i] = SourceRow(data, b[i])
    BY RowsExtracted
  <1> HIDE DEF s
  <1>3. PICK q \in Bijection(1..n, 1..n) :
          /\ Sorted(s, RowBefore) = [k \in 1..n |-> s[q[k]]]
          /\ \A k, l \in 1..n : k < l => ~ RowBefore(s[q[l]], s[q[k]])
    BY <1>1, RowsSorted
  <1>4. t = [k \in 1..n |-> s[q[k]]]
    BY <1>3 DEF TransformToRows, s
  <1>5. n \in Nat /\ \A i \in 1..n : s[i] \in RowRecord
    BY <1>1
  <1> HIDE DEF n, t
  <1>6. \A k \in 1..n : q[k] \in 1..n
    BY <1>3 DEF Bijection, Injection
  <1>7. t \in [1..n -> RowRecord]
    BY <1>4, <1>5, <1>6
  <1>8. t \in Seq(RowRecord) /\ Len(t) = n
    BY <1>5, <1>7
  <1>9. \A k \in 1..n : t[k] = s[q[k]]
    BY <1>4
  <1>10. \A k, l \in 1..n : k < l => ~ RowBefore(t[l], t[k])
    BY <1>3, <1>9
  <1> DEFINE c == [k \in 1..n |-> b[q[k]]]
  <1>11. c \in Bijection(1..n, Sources(data))
    <2>1. /\ q \in [1..n -> 1..n]
          /\ \A k, l \in 1..n : q[k] = q[l] => k = l
          /\ \A i \in 1..n : \E k \in 1..n : q[k] = i
      BY <1>3 DEF Bijection, Injection, Surjection, IsInjective
    <2>2. /\ b \in [1..n -> Sources(data)]
          /\ \A k, l \in 1..n : b[k] = b[l] => k = l
          /\ \A x \in Sources(data) : \E i \in 1..n : b[i] = x
      BY <1>2 DEF Bijection, Injection, Surjection, IsInjective
    <2>3. c \in [1..n -> Sources(data)]
      BY <2>1, <2>2
    <2>4. \A k \in 1..n : c[k] = b[q[k]]
      OBVIOUS
    <2> HIDE DEF c
    <2>5. ASSUME NEW k \in 1..n, NEW l \in 1..n, c[k] = c[l] PROVE k = l
      <3>1. q[k] \in 1..n /\ q[l] \in 1..n /\ b[q[k]] = b[q[l]]
        BY <1>6, <2>4, <2>5
      <3>2. q[k] = q[l]
        BY <2>2, <3>1
      <3> QED
        BY <2>1, <3>2
    <2>6. \A x \in Sources(data) : \E k \in 1..n : c[k] = x
      <3> TAKE x \in Sources(data)
      <3>1. PICK i \in 1..n : b[i] = x
        BY <2>2
      <3>2. PICK k \in 1..n : q[k] = i
        BY <2>1
      <3> QED
        BY <2>4, <3>1, <3>2
    <2> QED
      BY <2>3, <2>5, <2>6 DEF Bijection, Injection, Surjection, IsInjective
  <1>12. \A k \in 1..n : t[k] = SourceRow(data, c[k])
    BY <1>2, <1>6, <1>9
  <1> HIDE DEF c
  <1>13. /\ t \in Seq(RowRecord)
         /\ \A k, l \in 1..Len(t) : k < l => ~ RowBefore(t[l], t[k])
         /\ \E d \in Bijection(1..Len(t), Sources(data)) :
              \A k \in 1..Len(t) : t[k] = SourceRow(data, d[k])
    BY <1>8, <1>10, <1>11, <1>12
  <1> QED
    BY <1>13 DEF t

LEMMA SortedIsGrouped ==
  ASSUME NEW t \in Seq(RowRecord),
         \A k, l \in 1..Len(t) : k < l => ~ RowBefore(t[l], t[k])
  PROVE  Grouped(t)
  <1>1. DOMAIN t = 1..Len(t) /\ \A i \in 1..Len(t) : t[i] \in RowRecord
    OBVIOUS
  <1>2. ASSUME NEW i \in DOMAIN t, NEW j \in DOMAIN t, NEW k \in DOMAIN t,
               i < j, j < k, t[i].method = t[k].method
        PROVE  /\ t[j].method = t[i].method
               /\ t[i].transport = t[k].transport => t[j].transport = t[i].transport
    <2>1. ~ RowBefore(t[j], t[i]) /\ ~ RowBefore(t[k], t[j])
      BY <1>1, <1>2
    <2> QED
      BY <1>1, <1>2, <2>1, RowsAreOrdered
  <1>3. ASSUME NEW i \in DOMAIN t, NEW j \in DOMAIN t,
               i < j, t[i].method = t[j].method, t[i].transport = t[j].transport
        PROVE  ~ Before(t[j].name, t[i].name)
    <2>1. ~ RowBefore(t[j], t[i])
      BY <1>1, <1>3
    <2> QED
      BY <1>1, <1>3, <2>1, RowsAreOrdered
  <1> QED
    BY <1>2, <1>3 DEF Grouped

(* Things paired off are as many.                                          *)
LEMMA PairedOff ==
  ASSUME NEW S, NEW U, NEW b \in Bijection(S, U), IsFiniteSet(S),
         NEW A \in SUBSET S, NEW B \in SUBSET U,
         \A x \in S : x \in A <=> b[x] \in B
  PROVE  Cardinality(A) = Cardinality(B)
  <1> DEFINE c == [x \in A |-> b[x]]
  <1>1. /\ b \in [S -> U]
        /\ \A x, y \in S : b[x] = b[y] => x = y
        /\ \A u \in U : \E x \in S : b[x] = u
    BY DEF Bijection, Injection, Surjection, IsInjective
  <1>2. c \in [A -> B] /\ \A x \in A : c[x] = b[x]
    BY <1>1
  <1> HIDE DEF c
  <1>3. \A x, y \in A : c[x] = c[y] => x = y
    BY <1>1, <1>2
  <1>4. \A u \in B : \E x \in A : c[x] = u
    BY <1>1, <1>2
  <1>5. c \in Bijection(A, B)
    BY <1>2, <1>3, <1>4 DEF Bijection, Injection, Surjection, IsInjective
  <1>6. IsFiniteSet(A)
    BY FS_Subset
  <1>7. ExistsBijection(A, B)
    BY <1>5 DEF ExistsBijection
  <1> QED
    BY <1>6, <1>7, FS_Bijection

LEMMA TableIsExported ==
  ASSUME answer \in Seq(Entries), NEW t, t = TransformToRows(answer)
  PROVE  Exported(t)
  <1> DEFINE n == Len(t)
             S == Sources(answer)
  <1>1. t \in Seq(RowRecord)
    BY TableOf
  <1>2. PICK b \in Bijection(1..n, S) : \A k \in 1..n : t[k] = SourceRow(answer, b[k])
    BY TableOf
  <1>3. n \in Nat /\ DOMAIN t = 1..n
    BY <1>1
  <1> HIDE DEF n
  <1>4. IsFiniteSet(1..n)
    BY <1>3, FS_Interval
  <1>5. b \in [1..n -> S]
    BY <1>2 DEF Bijection, Injection
  <1>6. ASSUME NEW r
        PROVE  Cardinality({i \in DOMAIN t : t[i] = r})
                 = Cardinality({s \in S : SourceRow(answer, s) = r})
    <2> DEFINE A == {i \in 1..n : t[i] = r}
               B == {s \in S : SourceRow(answer, s) = r}
    <2>1. \A x \in 1..n : x \in A <=> b[x] \in B
      BY <1>2, <1>5
    <2>2. A \in SUBSET (1..n) /\ B \in SUBSET S
      OBVIOUS
    <2> HIDE DEF A, B, S
    <2>3. Cardinality(A) = Cardinality(B)
      <3> DEFINE D == 1..n
      <3>1. /\ b \in Bijection(D, S) /\ IsFiniteSet(D)
            /\ A \in SUBSET D /\ B \in SUBSET S
            /\ \A x \in D : x \in A <=> b[x] \in B
        BY <1>2, <1>4, <2>1, <2>2
      <3> HIDE DEF D
      <3> QED
        BY <3>1, PairedOff
    <2>4. A = {i \in DOMAIN t : t[i] = r}
      BY <1>3 DEF A
    <2> QED
      BY <2>3, <2>4 DEF B
  <1> QED
    BY <1>6 DEF Exported, Sources, SourceRow

-----------------------------------------------------------------------------
(* A reader of comma-separated values                                      *)
Readers ==
  [records : Seq(Seq(Texts)), fields : Seq(Texts), field : Texts,
   inside : BOOLEAN, closed : BOOLEAN]

(* Outside quotes, inside them, and behind a quote that may close them.    *)
Outside(records, fields, field) ==
  [records |-> records, fields |-> fields, field |-> field,
   inside |-> FALSE, closed |-> FALSE]
Within(records, fields, field) ==
  [records |-> records, fields |-> fields, field |-> field,
   inside |-> TRUE, closed |-> FALSE]
Closing(records, fields, field) ==
  [records |-> records, fields |-> fields, field |-> field,
   inside |-> FALSE, closed |-> TRUE]

With(s, x) == Append(s, x)

LEMMA WithIsSeq ==
  ASSUME NEW S, NEW s \in Seq(S), NEW x \in S
  PROVE  With(s, x) \in Seq(S)
  BY DEF With

LEMMA ReadersAre ==
  ASSUME NEW records \in Seq(Seq(Texts)), NEW fields \in Seq(Texts), NEW field \in Texts
  PROVE  /\ Outside(records, fields, field) \in Readers
         /\ Within(records, fields, field) \in Readers
         /\ Closing(records, fields, field) \in Readers
  BY DEF Outside, Within, Closing, Readers

LEMMA CharsDiffer ==
  /\ Quote # Comma /\ Quote # Newline /\ Comma # Newline
  /\ Quote \in Nat /\ Comma \in Nat /\ Newline \in Nat
  BY DEF Quote, Comma, Newline

(* What each kind of character does.                                       *)
LEMMA CharQuote ==
  ASSUME NEW records, NEW fields, NEW field
  PROVE  /\ ReadChar(Outside(records, fields, field), Quote) = Within(records, fields, field)
         /\ ReadChar(Within(records, fields, field), Quote) = Closing(records, fields, field)
         /\ ReadChar(Closing(records, fields, field), Quote)
              = Within(records, fields, With(field, Quote))
  BY DEF ReadChar, Outside, Within, Closing, With

LEMMA CharInside ==
  ASSUME NEW records, NEW fields, NEW field, NEW c, c # Quote
  PROVE  ReadChar(Within(records, fields, field), c) = Within(records, fields, With(field, c))
  BY DEF ReadChar, Within, With

LEMMA CharComma ==
  ASSUME NEW records, NEW fields, NEW field
  PROVE  /\ ReadChar(Outside(records, fields, field), Comma)
              = Outside(records, With(fields, field), <<>>)
         /\ ReadChar(Closing(records, fields, field), Comma)
              = Outside(records, With(fields, field), <<>>)
  <1> DEFINE o == Outside(records, fields, field)
             d == Closing(records, fields, field)
  <1>1. /\ ReadChar(o, Comma)
             = [o EXCEPT !.fields = Append(@, o.field), !.field = <<>>, !.closed = FALSE]
        /\ ReadChar(d, Comma)
             = [d EXCEPT !.fields = Append(@, d.field), !.field = <<>>, !.closed = FALSE]
    BY CharsDiffer DEF ReadChar, Outside, Closing
  <1> QED
    BY <1>1 DEF Outside, Closing, With

LEMMA CharNewline ==
  ASSUME NEW records, NEW fields, NEW field
  PROVE  /\ ReadChar(Outside(records, fields, field), Newline)
              = Outside(With(records, With(fields, field)), <<>>, <<>>)
         /\ ReadChar(Closing(records, fields, field), Newline)
              = Outside(With(records, With(fields, field)), <<>>, <<>>)
  <1> DEFINE o == Outside(records, fields, field)
             d == Closing(records, fields, field)
  <1>1. /\ ReadChar(o, Newline)
             = [o EXCEPT !.records = Append(@, Append(o.fields, o.field)), !.fields = <<>>,
                         !.field = <<>>, !.closed = FALSE]
        /\ ReadChar(d, Newline)
             = [d EXCEPT !.records = Append(@, Append(d.fields, d.field)), !.fields = <<>>,
                         !.field = <<>>, !.closed = FALSE]
    BY CharsDiffer DEF ReadChar, Outside, Closing
  <1> QED
    BY <1>1 DEF Outside, Closing, With

LEMMA CharPlain ==
  ASSUME NEW records, NEW fields, NEW field, NEW c, c \notin {Quote, Comma, Newline}
  PROVE  ReadChar(Outside(records, fields, field), c) = Outside(records, fields, With(field, c))
  BY DEF ReadChar, Outside, With

LEMMA ReadCharIsReader ==
  ASSUME NEW r \in Readers, NEW c \in Nat
  PROVE  ReadChar(r, c) \in Readers
  <1>1. /\ r.records \in Seq(Seq(Texts)) /\ r.fields \in Seq(Texts) /\ r.field \in Texts
        /\ r.inside \in BOOLEAN /\ r.closed \in BOOLEAN
    BY DEF Readers
  <1>2. Append(r.fields, r.field) \in Seq(Texts)
    BY <1>1
  <1>3. Append(r.records, Append(r.fields, r.field)) \in Seq(Seq(Texts))
    BY <1>1, <1>2
  <1>4. <<>> \in Texts /\ <<>> \in Seq(Texts)
    BY DEF Texts
  <1>5. Append(r.field, c) \in Texts /\ Append(r.field, Quote) \in Texts
    BY <1>1, CharsDiffer DEF Texts
  <1>6. CASE c = Quote
    <2> DEFINE f == IF ~r.inside /\ r.closed THEN Append(r.field, Quote) ELSE r.field
               q == [r EXCEPT !.inside = ~r.inside, !.closed = r.inside, !.field = f]
    <2>1. f \in Texts /\ (~r.inside) \in BOOLEAN
      BY <1>1, <1>5
    <2>2. ReadChar(r, c) = q
      BY <1>6 DEF ReadChar
    <2> HIDE DEF f
    <2>3. q \in Readers
      BY <1>1, <2>1 DEF Readers
    <2> QED
      BY <2>2, <2>3
  <1>7. CASE c # Quote
    <2>1. [r EXCEPT !.field = Append(@, c)] \in Readers
      BY <1>5 DEF Readers
    <2>2. [r EXCEPT !.fields = Append(@, r.field), !.field = <<>>, !.closed = FALSE]
            \in Readers
      BY <1>2, <1>4 DEF Readers
    <2>3. [r EXCEPT !.records = Append(@, Append(r.fields, r.field)), !.fields = <<>>,
                    !.field = <<>>, !.closed = FALSE] \in Readers
      BY <1>3, <1>4 DEF Readers
    <2>4. [r EXCEPT !.field = Append(@, c), !.closed = FALSE] \in Readers
      BY <1>5 DEF Readers
    <2> QED
      BY <1>7, <2>1, <2>2, <2>3, <2>4 DEF ReadChar
  <1> QED
    BY <1>6, <1>7

(* A reader at r is at q after the text s.                                 *)
Reading(r, s, f) ==
  /\ f \in [0..Len(s) -> Readers]
  /\ f[0] = r
  /\ \A i \in 1..Len(s) : f[i] = ReadChar(f[i - 1], s[i])
Reads(r, s, q) == \E f : Reading(r, s, f) /\ f[Len(s)] = q

LEMMA ReadsNothing ==
  ASSUME NEW r \in Readers
  PROVE  Reads(r, <<>>, r)
  <1> DEFINE f == [i \in 0..0 |-> r]
  <1>1. Reading(r, <<>>, f) /\ f[Len(<<>>)] = r
    BY DEF Reading
  <1> QED
    BY <1>1 DEF Reads

LEMMA ReadsOne ==
  ASSUME NEW r \in Readers, NEW c \in Nat
  PROVE  Reads(r, <<c>>, ReadChar(r, c))
  <1> DEFINE q == ReadChar(r, c)
             f == [i \in 0..1 |-> IF i = 0 THEN r ELSE q]
  <1>1. q \in Readers
    BY ReadCharIsReader
  <1>2. Len(<<c>>) = 1 /\ <<c>>[1] = c
    OBVIOUS
  <1>3. f \in [0..1 -> Readers] /\ f[0] = r /\ f[1] = q
    BY <1>1
  <1> HIDE DEF f
  <1>4. Reading(r, <<c>>, f)
    <2>1. \A i \in 1..1 : i = 1 /\ i - 1 = 0
      OBVIOUS
    <2> QED
      BY <1>2, <1>3, <2>1 DEF Reading
  <1> QED
    BY <1>2, <1>3, <1>4 DEF Reads

LEMMA ReadsOn ==
  ASSUME NEW r, NEW q, NEW p, NEW s \in Texts, NEW t \in Texts,
         Reads(r, s, q), Reads(q, t, p)
  PROVE  Reads(r, s \o t, p)
  <1> DEFINE m == Len(s)
             n == Len(t)
             st == s \o t
  <1>1. /\ m \in Nat /\ n \in Nat /\ Len(st) = m + n
        /\ \A i \in 1..m : st[i] = s[i]
        /\ \A i \in 1..n : st[m + i] = t[i]
    BY Joining DEF Texts
  <1>2. PICK f : Reading(r, s, f) /\ f[m] = q
    BY DEF Reads
  <1>3. PICK g : Reading(q, t, g) /\ g[n] = p
    BY DEF Reads
  <1>4. /\ f \in [0..m -> Readers] /\ f[0] = r /\ f[m] = q
        /\ \A i \in 1..m : f[i] = ReadChar(f[i - 1], s[i])
    BY <1>2 DEF Reading
  <1>5. /\ g \in [0..n -> Readers] /\ g[0] = q /\ g[n] = p
        /\ \A i \in 1..n : g[i] = ReadChar(g[i - 1], t[i])
    BY <1>3 DEF Reading
  <1> HIDE DEF m, n, st
  <1> DEFINE h == [i \in 0..(m + n) |-> IF i <= m THEN f[i] ELSE g[i - m]]
  <1>6. \A i \in 0..m : i \in 0..(m + n) /\ h[i] = f[i]
    BY <1>1
  <1>7. \A i \in 0..n : m + i \in 0..(m + n) /\ h[m + i] = g[i]
    <2> TAKE i \in 0..n
    <2>1. m + i \in 0..(m + n) /\ (m + i) - m = i /\ (m + i <= m => i = 0)
      BY <1>1
    <2>2. CASE i = 0
      BY <1>1, <1>4, <1>5, <2>1, <2>2
    <2>3. CASE i # 0
      <3>1. ~ (m + i <= m)
        BY <2>1, <2>3
      <3> QED
        BY <2>1, <3>1
    <2> QED
      BY <2>2, <2>3
  <1>8. h \in [0..(m + n) -> Readers]
    <2>1. ASSUME NEW i \in 0..(m + n) PROVE h[i] \in Readers
      <3>1. CASE i \in 0..m
        BY <1>4, <1>6, <3>1
      <3>2. CASE i \notin 0..m
        <4>1. i - m \in 0..n /\ i = m + (i - m)
          BY <1>1, <3>2
        <4>2. h[i] = g[i - m]
          BY <1>7, <4>1
        <4> QED
          BY <1>5, <4>1, <4>2
      <3> QED
        BY <3>1, <3>2
    <2> QED
      BY <2>1
  <1> HIDE DEF h
  <1>9. ASSUME NEW i \in 1..(m + n) PROVE h[i] = ReadChar(h[i - 1], st[i])
    <2>1. CASE i \in 1..m
      <3>1. i \in 0..m /\ i - 1 \in 0..m
        BY <1>1, <2>1
      <3>2. f[i] = ReadChar(f[i - 1], s[i]) /\ st[i] = s[i]
        BY <1>1, <1>4, <2>1
      <3> QED
        BY <1>6, <3>1, <3>2
    <2>2. CASE i \notin 1..m
      <3> DEFINE j == i - m
      <3>1. /\ j \in 1..n /\ j \in 0..n /\ j - 1 \in 0..n
            /\ i = m + j /\ i - 1 = m + (j - 1)
        BY <1>1, <2>2
      <3> HIDE DEF j
      <3>2. g[j] = ReadChar(g[j - 1], t[j]) /\ st[m + j] = t[j]
        BY <1>1, <1>5, <3>1
      <3>3. h[m + j] = g[j] /\ h[m + (j - 1)] = g[j - 1]
        BY <1>7, <3>1
      <3> QED
        BY <3>1, <3>2, <3>3
    <2> QED
      BY <2>1, <2>2
  <1>10. h[0] = r /\ h[m + n] = p
    <2>1. 0 \in 0..m /\ n \in 0..n
      BY <1>1
    <2> QED
      BY <1>4, <1>5, <1>6, <1>7, <2>1
  <1>11. Reading(r, st, h) /\ h[Len(st)] = p
    BY <1>1, <1>8, <1>9, <1>10 DEF Reading
  <1> QED
    BY <1>11 DEF Reads, st

LEMMA ReadIs ==
  ASSUME NEW text \in Texts, NEW q, Reads(Blank, text, q)
  PROVE  Read(text) = q.records
  <1> DEFINE n == Len(text)
             After(g) == g = [i \in 0..n |-> IF i = 0 THEN Blank
                                             ELSE ReadChar(g[i - 1], text[i])]
  <1>1. PICK f : Reading(Blank, text, f) /\ f[n] = q
    BY DEF Reads
  <1>2. /\ n \in Nat /\ f \in [0..n -> Readers] /\ f[0] = Blank
        /\ \A i \in 1..n : f[i] = ReadChar(f[i - 1], text[i])
    BY <1>1 DEF Reading, Texts
  <1> HIDE DEF n
  <1>3. After(f)
    <2>1. \A i \in 0..n : f[i] = IF i = 0 THEN Blank ELSE ReadChar(f[i - 1], text[i])
      BY <1>2
    <2>2. f = [i \in 0..n |-> f[i]]
      BY <1>2
    <2> QED
      BY <2>1, <2>2
  <1> DEFINE g == CHOOSE g : After(g)
  <1>4. After(g)
    <2> HIDE DEF After
    <2> QED
      BY <1>3
  <1>5. Read(text) = g[n].records
    BY DEF Read, n
  <1> HIDE DEF g
  <1>6. \A i \in 0..n : g[i] = IF i = 0 THEN Blank ELSE ReadChar(g[i - 1], text[i])
    BY <1>4
  <1> DEFINE T == {i \in 0..n : g[i] = f[i]}
  <1>7. 0 \in T
    BY <1>2, <1>6
  <1>8. ASSUME NEW i \in 1..n, i - 1 \in T PROVE i \in T
    <2>1. i \in 0..n /\ i # 0 /\ g[i - 1] = f[i - 1]
      BY <1>2, <1>8
    <2>2. g[i] = ReadChar(g[i - 1], text[i]) /\ f[i] = ReadChar(f[i - 1], text[i])
      BY <1>2, <1>6, <2>1
    <2> QED
      BY <2>1, <2>2
  <1> HIDE DEF T
  <1>9. \A i \in 0..n : i \in T
    BY <1>2, <1>7, <1>8, EveryRound
  <1>10. g[n] = f[n]
    BY <1>2, <1>9 DEF T
  <1> QED
    BY <1>1, <1>5, <1>10

(* Pieces that are read one after the other.                               *)
LEMMA FlattenReads ==
  ASSUME NEW s \in Seq(Texts), NEW g, g[0] \in Readers,
         \A i \in 1..Len(s) : Reads(g[i - 1], s[i], g[i])
  PROVE  /\ FlattenSeq(s) \in Texts
         /\ Reads(g[0], FlattenSeq(s), g[Len(s)])
  <1>1. PICK f : /\ f \in [0..Len(s) -> Texts]
                 /\ f[0] = <<>>
                 /\ \A i \in 1..Len(s) : f[i] = f[i - 1] \o s[i]
                 /\ FlattenSeq(s) = f[Len(s)]
    BY FlattenIsLoop DEF Texts
  <1> DEFINE n == Len(s)
             T == {i \in 0..n : Reads(g[0], f[i], g[i])}
  <1>2. n \in Nat /\ \A i \in 1..n : s[i] \in Texts
    OBVIOUS
  <1> HIDE DEF n
  <1>3. 0 \in T
    <2>1. Reads(g[0], <<>>, g[0])
      BY ReadsNothing
    <2> QED
      BY <1>1, <1>2, <2>1
  <1>4. ASSUME NEW i \in 1..n, i - 1 \in T PROVE i \in T
    <2>1. /\ i - 1 \in 0..n /\ i \in 0..n
          /\ Reads(g[0], f[i - 1], g[i - 1]) /\ Reads(g[i - 1], s[i], g[i])
      BY <1>2, <1>4 DEF n
    <2>2. f[i - 1] \in Texts /\ s[i] \in Texts /\ f[i] = f[i - 1] \o s[i]
      BY <1>1, <1>2, <2>1 DEF n
    <2>3. Reads(g[0], f[i - 1] \o s[i], g[i])
      BY <2>1, <2>2, ReadsOn
    <2> QED
      BY <2>1, <2>2, <2>3
  <1> HIDE DEF T
  <1>5. \A i \in 0..n : i \in T
    BY <1>2, <1>3, <1>4, EveryRound
  <1>6. n \in 0..n /\ Reads(g[0], f[n], g[n])
    BY <1>2, <1>5 DEF T
  <1> QED
    BY <1>1, <1>6 DEF n

LEMMA ReadsTwo ==
  ASSUME NEW r \in Readers, NEW c \in Nat, NEW d \in Nat
  PROVE  Reads(r, <<c, d>>, ReadChar(ReadChar(r, c), d))
  <1>1. ReadChar(r, c) \in Readers
    BY ReadCharIsReader
  <1>2. Reads(r, <<c>>, ReadChar(r, c))
    BY ReadsOne
  <1>3. Reads(ReadChar(r, c), <<d>>, ReadChar(ReadChar(r, c), d))
    BY <1>1, ReadsOne
  <1>4. <<c>> \in Texts /\ <<d>> \in Texts /\ <<c>> \o <<d>> = <<c, d>>
    <2>1. <<c>> \in Texts /\ <<d>> \in Texts
      BY DEF Texts
    <2>2. <<c>> \o <<d>> = <<c, d>>
      <3> DEFINE u == <<c>> \o <<d>>
      <3>1. <<c>> \in Seq(Nat) /\ <<d>> \in Seq(Nat) /\ Len(<<c>>) = 1 /\ Len(<<d>>) = 1
            /\ <<c>>[1] = c /\ <<d>>[1] = d
        OBVIOUS
      <3>2. u \in Seq(Nat) /\ Len(u) = 1 + 1 /\ u[1] = c /\ u[1 + 1] = d
        BY <3>1, Joining
      <3> HIDE DEF u
      <3>3. u \in [1..2 -> Nat] /\ u[1] = c /\ u[2] = d
        BY <3>2
      <3>4. u = <<c, d>>
        BY <3>2, <3>3
      <3> QED
        BY <3>4 DEF u
    <2> QED
      BY <2>1, <2>2
  <1>5. Reads(r, <<c>> \o <<d>>, ReadChar(ReadChar(r, c), d))
    BY <1>2, <1>3, <1>4, ReadsOn
  <1> QED
    BY <1>4, <1>5

LEMMA PrefixGrows ==
  ASSUME NEW S, NEW s \in Seq(S)
  PROVE  /\ SubSeq(s, 1, 0) = <<>>
         /\ SubSeq(s, 1, Len(s)) = s
         /\ \A i \in 0..Len(s) : SubSeq(s, 1, i) \in Seq(S)
         /\ \A i \in 1..Len(s) : With(SubSeq(s, 1, i - 1), s[i]) = SubSeq(s, 1, i)
  <1>1. SubSeq(s, 1, 0) = <<>>
    OBVIOUS
  <1>2. SubSeq(s, 1, Len(s)) = s
    OBVIOUS
  <1>3. \A i \in 0..Len(s) : SubSeq(s, 1, i) \in Seq(S) /\ Len(SubSeq(s, 1, i)) = i
    OBVIOUS
  <1>4. ASSUME NEW i \in 1..Len(s)
        PROVE  Append(SubSeq(s, 1, i - 1), s[i]) = SubSeq(s, 1, i)
    <2> DEFINE u == SubSeq(s, 1, i - 1)
               v == SubSeq(s, 1, i)
    <2>1. /\ u \in Seq(S) /\ Len(u) = i - 1 /\ \A j \in 1..(i - 1) : u[j] = s[j]
          /\ v \in Seq(S) /\ Len(v) = i /\ \A j \in 1..i : v[j] = s[j]
          /\ s[i] \in S
      BY <1>3
    <2> HIDE DEF u, v
    <2> QED
      BY <2>1
  <1> QED
    BY <1>1, <1>2, <1>3, <1>4 DEF With

-----------------------------------------------------------------------------
(* A field                                                                 *)
LEMMA PlainFieldReads ==
  ASSUME NEW R \in Seq(Seq(Texts)), NEW F \in Seq(Texts), NEW field \in Texts,
         \A i \in 1..Len(field) : field[i] \notin {Quote, Comma, Newline}
  PROVE  Reads(Outside(R, F, <<>>), field, Outside(R, F, field))
  <1> DEFINE n == Len(field)
             u(i) == SubSeq(field, 1, i)
             f == [i \in 0..n |-> Outside(R, F, u(i))]
  <1>1. /\ n \in Nat /\ u(0) = <<>> /\ u(n) = field
        /\ \A i \in 0..n : u(i) \in Texts
        /\ \A i \in 1..n : With(u(i - 1), field[i]) = u(i)
    BY PrefixGrows DEF Texts
  <1>2. \A i \in 1..n : field[i] \notin {Quote, Comma, Newline}
    OBVIOUS
  <1> HIDE DEF n, u
  <1>3. f \in [0..n -> Readers]
    BY <1>1, ReadersAre
  <1>4. f[0] = Outside(R, F, <<>>) /\ f[n] = Outside(R, F, field)
    BY <1>1
  <1>5. ASSUME NEW i \in 1..n PROVE f[i] = ReadChar(f[i - 1], field[i])
    <2>1. i \in 0..n /\ i - 1 \in 0..n
      BY <1>1
    <2>2. f[i] = Outside(R, F, u(i)) /\ f[i - 1] = Outside(R, F, u(i - 1))
      BY <2>1
    <2>3. ReadChar(Outside(R, F, u(i - 1)), field[i])
            = Outside(R, F, With(u(i - 1), field[i]))
      BY <1>2, CharPlain
    <2> QED
      BY <1>1, <2>2, <2>3
  <1> HIDE DEF f
  <1>6. Reading(Outside(R, F, <<>>), field, f) /\ f[Len(field)] = Outside(R, F, field)
    BY <1>3, <1>4, <1>5 DEF Reading, n
  <1> QED
    BY <1>6 DEF Reads

Doubled(field) ==
  [i \in DOMAIN field |-> IF field[i] = Quote THEN <<Quote, Quote>> ELSE <<field[i]>>]

LEMMA DoubledReads ==
  ASSUME NEW R \in Seq(Seq(Texts)), NEW F \in Seq(Texts), NEW field \in Texts
  PROVE  /\ FlattenSeq(Doubled(field)) \in Texts
         /\ Reads(Within(R, F, <<>>), FlattenSeq(Doubled(field)), Within(R, F, field))
  <1> DEFINE n == Len(field)
             u(i) == SubSeq(field, 1, i)
             p == Doubled(field)
             g == [i \in 0..n |-> Within(R, F, u(i))]
  <1>1. /\ n \in Nat /\ u(0) = <<>> /\ u(n) = field
        /\ \A i \in 0..n : u(i) \in Texts
        /\ \A i \in 1..n : With(u(i - 1), field[i]) = u(i)
    BY PrefixGrows DEF Texts
  <1>2. DOMAIN field = 1..n /\ \A i \in 1..n : field[i] \in Nat
    BY DEF Texts
  <1> HIDE DEF n, u
  <1>3. p \in [1..n -> Texts] /\ \A i \in 1..n :
          p[i] = IF field[i] = Quote THEN <<Quote, Quote>> ELSE <<field[i]>>
    BY <1>2, CharsDiffer DEF Doubled, Texts
  <1>4. p \in Seq(Texts) /\ Len(p) = n
    BY <1>1, <1>3
  <1>5. \A i \in 0..n : g[i] = Within(R, F, u(i)) /\ g[i] \in Readers
    BY <1>1, ReadersAre
  <1> HIDE DEF p, g
  <1>6. ASSUME NEW i \in 1..n PROVE Reads(g[i - 1], p[i], g[i])
    <2>1. i \in 0..n /\ i - 1 \in 0..n
      BY <1>1
    <2>2. /\ g[i] = Within(R, F, With(u(i - 1), field[i]))
          /\ g[i - 1] = Within(R, F, u(i - 1)) /\ g[i - 1] \in Readers
      BY <1>1, <1>5, <2>1
    <2>3. CASE field[i] = Quote
      <3>1. ReadChar(Within(R, F, u(i - 1)), Quote) = Closing(R, F, u(i - 1))
        BY CharQuote
      <3>2. ReadChar(Closing(R, F, u(i - 1)), Quote) = Within(R, F, With(u(i - 1), Quote))
        BY CharQuote
      <3>3. Reads(g[i - 1], <<Quote, Quote>>, ReadChar(ReadChar(g[i - 1], Quote), Quote))
        BY <2>2, CharsDiffer, ReadsTwo
      <3>4. ReadChar(ReadChar(g[i - 1], Quote), Quote) = g[i]
        BY <2>2, <2>3, <3>1, <3>2
      <3>5. p[i] = <<Quote, Quote>>
        BY <1>3, <2>3
      <3> QED
        BY <3>3, <3>4, <3>5
    <2>4. CASE field[i] # Quote
      <3>1. ReadChar(Within(R, F, u(i - 1)), field[i])
              = Within(R, F, With(u(i - 1), field[i]))
        BY <2>4, CharInside
      <3>2. Reads(g[i - 1], <<field[i]>>, ReadChar(g[i - 1], field[i]))
        BY <1>2, <2>2, ReadsOne
      <3>3. p[i] = <<field[i]>>
        BY <1>3, <2>4
      <3> QED
        BY <2>2, <3>1, <3>2, <3>3
    <2> QED
      BY <2>3, <2>4
  <1>7. 0 \in 0..n /\ n \in 0..n
    BY <1>1
  <1>8. g[0] \in Readers /\ \A i \in 1..Len(p) : Reads(g[i - 1], p[i], g[i])
    BY <1>4, <1>5, <1>6, <1>7
  <1>9. FlattenSeq(p) \in Texts /\ Reads(g[0], FlattenSeq(p), g[Len(p)])
    BY <1>4, <1>8, FlattenReads
  <1>10. g[0] = Within(R, F, <<>>) /\ g[Len(p)] = Within(R, F, field)
    BY <1>1, <1>4, <1>5, <1>7
  <1> QED
    BY <1>9, <1>10 DEF p

(* escapeCSVField: what is read back is the field.                         *)
LEMMA EscapedReads ==
  ASSUME NEW R \in Seq(Seq(Texts)), NEW F \in Seq(Texts), NEW field \in Texts
  PROVE  /\ EscapeCSVField(field) \in Texts
         /\ \E q \in {Outside(R, F, field), Closing(R, F, field)} :
              Reads(Outside(R, F, <<>>), EscapeCSVField(field), q)
  <1> DEFINE special == Contains(field, Comma) \/ Contains(field, Newline)
                          \/ Contains(field, Quote)
  <1>1. CASE ~special
    <2>1. EscapeCSVField(field) = field
      BY <1>1 DEF EscapeCSVField
    <2>2. \A i \in 1..Len(field) : field[i] \notin {Quote, Comma, Newline}
      BY <1>1 DEF Contains
    <2>3. Reads(Outside(R, F, <<>>), field, Outside(R, F, field))
      BY <2>2, PlainFieldReads
    <2> QED
      BY <2>1, <2>3
  <1>2. CASE special
    <2> DEFINE t == FlattenSeq(Doubled(field))
    <2>1. EscapeCSVField(field) = (<<Quote>> \o t) \o <<Quote>>
      BY <1>2 DEF EscapeCSVField, Doubled
    <2>2. t \in Texts /\ Reads(Within(R, F, <<>>), t, Within(R, F, field))
      BY DoubledReads
    <2> HIDE DEF t
    <2>3. <<Quote>> \in Texts /\ <<>> \in Texts
      BY CharsDiffer DEF Texts
    <2>4. <<Quote>> \o t \in Texts /\ (<<Quote>> \o t) \o <<Quote>> \in Texts
      <3>1. <<Quote>> \o t \in Seq(Nat)
        BY <2>2, <2>3, Joining DEF Texts
      <3>2. (<<Quote>> \o t) \o <<Quote>> \in Seq(Nat)
        BY <2>3, <3>1, Joining DEF Texts
      <3> QED
        BY <3>1, <3>2 DEF Texts
    <2>5. Reads(Outside(R, F, <<>>), <<Quote>>, Within(R, F, <<>>))
      <3>1. Outside(R, F, <<>>) \in Readers
        BY <2>3, ReadersAre
      <3>2. Reads(Outside(R, F, <<>>), <<Quote>>, ReadChar(Outside(R, F, <<>>), Quote))
        BY <3>1, CharsDiffer, ReadsOne
      <3>3. ReadChar(Outside(R, F, <<>>), Quote) = Within(R, F, <<>>)
        BY CharQuote
      <3> QED
        BY <3>2, <3>3
    <2>6. Reads(Within(R, F, field), <<Quote>>, Closing(R, F, field))
      <3>1. Within(R, F, field) \in Readers
        BY ReadersAre
      <3>2. Reads(Within(R, F, field), <<Quote>>, ReadChar(Within(R, F, field), Quote))
        BY <3>1, CharsDiffer, ReadsOne
      <3>3. ReadChar(Within(R, F, field), Quote) = Closing(R, F, field)
        BY CharQuote
      <3> QED
        BY <3>2, <3>3
    <2>7. Reads(Outside(R, F, <<>>), <<Quote>> \o t, Within(R, F, field))
      BY <2>2, <2>3, <2>5, ReadsOn
    <2>8. Reads(Outside(R, F, <<>>), (<<Quote>> \o t) \o <<Quote>>, Closing(R, F, field))
      BY <2>3, <2>4, <2>6, <2>7, ReadsOn
    <2> QED
      BY <2>1, <2>4, <2>8
  <1> QED
    BY <1>1, <1>2

-----------------------------------------------------------------------------
(* A line and the file                                                     *)
Ended(R, F, field) ==
  CHOOSE q \in {Outside(R, F, field), Closing(R, F, field)} :
    Reads(Outside(R, F, <<>>), EscapeCSVField(field), q)

LEMMA FieldEnds ==
  ASSUME NEW R \in Seq(Seq(Texts)), NEW F \in Seq(Texts), NEW field \in Texts
  PROVE  /\ EscapeCSVField(field) \in Texts
         /\ Ended(R, F, field) \in {Outside(R, F, field), Closing(R, F, field)}
         /\ Ended(R, F, field) \in Readers
         /\ Reads(Outside(R, F, <<>>), EscapeCSVField(field), Ended(R, F, field))
         /\ ReadChar(Ended(R, F, field), Comma) = Outside(R, With(F, field), <<>>)
         /\ ReadChar(Ended(R, F, field), Newline)
              = Outside(With(R, With(F, field)), <<>>, <<>>)
  <1> DEFINE e == Ended(R, F, field)
             o == Outside(R, F, field)
             d == Closing(R, F, field)
             Good(q) == Reads(Outside(R, F, <<>>), EscapeCSVField(field), q)
  <1>1. EscapeCSVField(field) \in Texts /\ \E q \in {o, d} : Good(q)
    BY EscapedReads
  <1>2. e = CHOOSE q \in {o, d} : Good(q)
    BY DEF Ended
  <1>3. o \in Readers /\ d \in Readers
    BY ReadersAre
  <1>4. /\ ReadChar(o, Comma) = Outside(R, With(F, field), <<>>)
        /\ ReadChar(d, Comma) = Outside(R, With(F, field), <<>>)
    BY CharComma
  <1>5. /\ ReadChar(o, Newline) = Outside(With(R, With(F, field)), <<>>, <<>>)
        /\ ReadChar(d, Newline) = Outside(With(R, With(F, field)), <<>>, <<>>)
    BY CharNewline
  <1>6. e \in {o, d} /\ Good(e)
    <2> HIDE DEF e, o, d, Good
    <2> QED
      BY <1>1, <1>2
  <1>7. Reads(Outside(R, F, <<>>), EscapeCSVField(field), e)
    BY <1>6
  <1>8. e = o \/ e = d
    BY <1>6
  <1> HIDE DEF o, d, Good, e
  <1>9. /\ e \in Readers
        /\ ReadChar(e, Comma) = Outside(R, With(F, field), <<>>)
        /\ ReadChar(e, Newline) = Outside(With(R, With(F, field)), <<>>, <<>>)
    BY <1>3, <1>4, <1>5, <1>8
  <1> QED
    BY <1>1, <1>6, <1>7, <1>9 DEF e, o, d

(* Every line of rowsToCSV is read as its fields.                          *)
LEMMA LineReads ==
  ASSUME NEW R \in Seq(Seq(Texts)), NEW fields \in Seq(Texts), fields # <<>>
  PROVE  /\ Line(fields) \o <<Newline>> \in Texts
         /\ Reads(Outside(R, <<>>, <<>>), Line(fields) \o <<Newline>>,
                  Outside(With(R, fields), <<>>, <<>>))
  <1> DEFINE n == Len(fields)
             u(i) == SubSeq(fields, 1, i)
             p == [i \in DOMAIN fields |->
                     (IF i > 1 THEN <<Comma>> ELSE <<>>) \o EscapeCSVField(fields[i])]
             g == [i \in 0..n |-> IF i = 0 THEN Outside(R, <<>>, <<>>)
                                  ELSE Ended(R, u(i - 1), fields[i])]
  <1>1. /\ n \in Nat /\ n # 0 /\ u(0) = <<>> /\ u(n) = fields
        /\ \A i \in 0..n : u(i) \in Seq(Texts)
        /\ \A i \in 1..n : With(u(i - 1), fields[i]) = u(i)
    BY PrefixGrows
  <1>2. DOMAIN fields = 1..n /\ \A i \in 1..n : fields[i] \in Texts
    OBVIOUS
  <1>3. Line(fields) = FlattenSeq(p)
    BY DEF Line
  <1>4. <<>> \in Texts /\ <<Comma>> \in Texts /\ <<Newline>> \in Texts /\ <<>> \in Seq(Texts)
    BY CharsDiffer DEF Texts
  <1> HIDE DEF n, u
  <1>5. \A i \in 1..n : EscapeCSVField(fields[i]) \in Texts
    BY <1>2, <1>4, FieldEnds
  <1>6. ASSUME NEW i \in 1..n
        PROVE  /\ p[i] \in Texts
               /\ i = 1 => p[i] = EscapeCSVField(fields[i])
               /\ i # 1 => p[i] = <<Comma>> \o EscapeCSVField(fields[i])
    <2>1. p[i] = (IF i > 1 THEN <<Comma>> ELSE <<>>) \o EscapeCSVField(fields[i])
      BY <1>2
    <2>2. EscapeCSVField(fields[i]) \in Seq(Nat)
      BY <1>5 DEF Texts
    <2>3. <<>> \o EscapeCSVField(fields[i]) = EscapeCSVField(fields[i])
      BY <2>2
    <2>4. <<Comma>> \o EscapeCSVField(fields[i]) \in Seq(Nat)
      BY <1>4, <2>2, Joining DEF Texts
    <2>5. i = 1 => p[i] = EscapeCSVField(fields[i])
      BY <2>1, <2>3
    <2>6. i # 1 => p[i] = <<Comma>> \o EscapeCSVField(fields[i])
      <3>1. i # 1 => i > 1
        BY <1>1
      <3> QED
        BY <2>1, <3>1
    <2> QED
      BY <2>2, <2>4, <2>5, <2>6 DEF Texts
  <1>7. DOMAIN p = 1..n
    BY <1>2
  <1>8. /\ g[0] = Outside(R, <<>>, <<>>)
        /\ \A i \in 1..n : g[i] = Ended(R, u(i - 1), fields[i])
    BY <1>1
  <1>9. p \in Seq(Texts) /\ Len(p) = n
    <2>1. p \in [1..n -> Texts]
      <3>1. \A i \in 1..n : p[i] \in Texts
        BY <1>6
      <3>2. p = [i \in 1..n |-> p[i]]
        BY <1>2
      <3> HIDE DEF p
      <3> QED
        BY <3>1, <3>2
    <2> HIDE DEF p
    <2> QED
      BY <1>1, <2>1
  <1> HIDE DEF p, g
  <1>10. ASSUME NEW i \in 1..n PROVE Reads(g[i - 1], p[i], g[i])
    <2>1. u(i - 1) \in Seq(Texts) /\ fields[i] \in Texts
      BY <1>1, <1>2
    <2>2. /\ g[i] = Ended(R, u(i - 1), fields[i])
          /\ Reads(Outside(R, u(i - 1), <<>>), EscapeCSVField(fields[i]), g[i])
          /\ EscapeCSVField(fields[i]) \in Texts
      BY <1>8, <2>1, FieldEnds
    <2>3. CASE i = 1
      <3>1. g[i - 1] = Outside(R, u(i - 1), <<>>) /\ p[i] = EscapeCSVField(fields[i])
        BY <1>1, <1>6, <1>8, <2>3
      <3> QED
        BY <2>2, <3>1
    <2>4. CASE i # 1
      <3> DEFINE k == i - 1
      <3>1. k \in 1..n /\ k - 1 \in 0..n /\ i - 1 = k
        BY <1>1, <2>4
      <3> HIDE DEF k
      <3>2. u(k - 1) \in Seq(Texts) /\ fields[k] \in Texts
        BY <1>1, <1>2, <3>1
      <3>3. /\ g[k] = Ended(R, u(k - 1), fields[k]) /\ g[k] \in Readers
            /\ ReadChar(g[k], Comma) = Outside(R, With(u(k - 1), fields[k]), <<>>)
        BY <1>8, <3>1, <3>2, FieldEnds
      <3>4. With(u(k - 1), fields[k]) = u(k)
        BY <1>1, <3>1
      <3>5. Reads(g[k], <<Comma>>, ReadChar(g[k], Comma))
        BY <3>3, CharsDiffer, ReadsOne
      <3>6. Reads(g[k], <<Comma>>, Outside(R, u(i - 1), <<>>))
        BY <3>1, <3>3, <3>4, <3>5
      <3>7. Reads(g[k], <<Comma>> \o EscapeCSVField(fields[i]), g[i])
        BY <1>4, <2>2, <3>6, ReadsOn
      <3>8. p[i] = <<Comma>> \o EscapeCSVField(fields[i])
        BY <1>6, <2>4
      <3> QED
        BY <3>1, <3>7, <3>8
    <2> QED
      BY <2>3, <2>4
  <1>11. g[0] \in Readers
    BY <1>4, <1>8, ReadersAre
  <1>12. FlattenSeq(p) \in Texts /\ Reads(g[0], FlattenSeq(p), g[Len(p)])
    BY <1>9, <1>10, <1>11, FlattenReads
  <1>13. Line(fields) \in Texts /\ Reads(Outside(R, <<>>, <<>>), Line(fields), g[n])
    BY <1>3, <1>8, <1>9, <1>12
  <1>14. /\ g[n] \in Readers
         /\ ReadChar(g[n], Newline) = Outside(With(R, fields), <<>>, <<>>)
    <2>1. n \in 1..n /\ u(n - 1) \in Seq(Texts) /\ fields[n] \in Texts
      BY <1>1, <1>2
    <2>2. /\ g[n] = Ended(R, u(n - 1), fields[n]) /\ g[n] \in Readers
          /\ ReadChar(g[n], Newline)
               = Outside(With(R, With(u(n - 1), fields[n])), <<>>, <<>>)
      BY <1>8, <2>1, FieldEnds
    <2>3. With(u(n - 1), fields[n]) = fields
      BY <1>1, <2>1
    <2> QED
      BY <2>2, <2>3
  <1>15. Reads(g[n], <<Newline>>, Outside(With(R, fields), <<>>, <<>>))
    <2>1. Reads(g[n], <<Newline>>, ReadChar(g[n], Newline))
      BY <1>14, CharsDiffer, ReadsOne
    <2> QED
      BY <1>14, <2>1
  <1>16. Line(fields) \o <<Newline>> \in Texts
    BY <1>4, <1>13, Joining DEF Texts
  <1>17. Reads(Outside(R, <<>>, <<>>), Line(fields) \o <<Newline>>,
               Outside(With(R, fields), <<>>, <<>>))
    BY <1>4, <1>13, <1>15, ReadsOn
  <1> QED
    BY <1>16, <1>17

LEMMA FieldsAreTexts ==
  ASSUME NEW row \in RowRecord
  PROVE  Fields(row) \in Seq(Texts) /\ Fields(row) # <<>>
  <1>1. row.method \in Texts /\ row.name \in Texts
    BY DEF RowRecord
  <1>2. TransportCode[row.transport] \in Texts
    <2>1. row.transport \in {"http", "ws", "unknown"}
      BY DEF RowRecord
    <2>2. /\ TransportCode["http"] = <<7>> /\ TransportCode["ws"] = <<8>>
          /\ TransportCode["unknown"] = <<9>>
      BY DEF TransportCode
    <2>3. <<7>> \in Texts /\ <<8>> \in Texts /\ <<9>> \in Texts
      BY DEF Texts
    <2> QED
      BY <2>1, <2>2, <2>3
  <1>3. <<Digits + row.calls>> \in Texts
    <2>1. Digits + row.calls \in Nat
      BY DEF RowRecord, Digits
    <2> QED
      BY <2>1 DEF Texts
  <1> QED
    BY <1>1, <1>2, <1>3 DEF Fields

LEMMA HeadersAreTexts == Headers \in Seq(Texts) /\ Headers # <<>>
  <1>1. <<10>> \in Texts /\ <<11>> \in Texts /\ <<12>> \in Texts /\ <<13>> \in Texts
    BY DEF Texts
  <1> QED
    BY <1>1 DEF Headers

(* rowsToCSV: what is read back is the header and the rows.                *)
LEMMA FileReads ==
  ASSUME NEW t \in Seq(RowRecord)
  PROVE  /\ RowsToCSV(t) # <<>>
         /\ Read(RowsToCSV(t)) = <<Headers>> \o [i \in DOMAIN t |-> Fields(t[i])]
  <1> DEFINE n == Len(t)
             m == n + 1
             F(i) == IF i = 1 THEN Headers ELSE Fields(t[i - 1])
             p == [i \in 1..(Len(t) + 1) |-> Line(F(i)) \o <<Newline>>]
             L == [i \in 1..m |-> F(i)]
             u(i) == SubSeq(L, 1, i)
             g == [i \in 0..m |-> Outside(u(i), <<>>, <<>>)]
  <1>1. n \in Nat /\ m \in Nat /\ DOMAIN t = 1..n /\ \A i \in 1..n : t[i] \in RowRecord
    OBVIOUS
  <1>2. ASSUME NEW i \in 1..m PROVE F(i) \in Seq(Texts) /\ F(i) # <<>>
    <2>1. CASE i = 1
      BY <2>1, HeadersAreTexts
    <2>2. CASE i # 1
      <3>1. i - 1 \in 1..n
        BY <1>1, <2>2
      <3>2. t[i - 1] \in RowRecord
        BY <1>1, <3>1
      <3>3. F(i) = Fields(t[i - 1])
        BY <2>2
      <3> QED
        BY <3>2, <3>3, FieldsAreTexts
    <2> QED
      BY <2>1, <2>2
  <1>3. RowsToCSV(t) = FlattenSeq(p) /\ DOMAIN p = 1..m
    BY DEF RowsToCSV
  <1>4. L = <<Headers>> \o [i \in DOMAIN t |-> Fields(t[i])]
    <2> DEFINE v == [i \in 1..n |-> Fields(t[i])]
    <2>1. v \in [1..n -> Seq(Texts)]
      BY <1>1, FieldsAreTexts
    <2>2. v \in Seq(Seq(Texts)) /\ Len(v) = n /\ <<Headers>> \in Seq(Seq(Texts))
          /\ Len(<<Headers>>) = 1
      BY <1>1, <2>1, HeadersAreTexts
    <2>3. \A i \in 1..n : v[i] = Fields(t[i])
      OBVIOUS
    <2> DEFINE w == <<Headers>> \o v
    <2> HIDE DEF v, n
    <2>4. /\ w \in Seq(Seq(Texts)) /\ Len(w) = 1 + n /\ w[1] = Headers
          /\ \A i \in 1..n : w[1 + i] = v[i]
      BY <2>2, Joining
    <2> HIDE DEF w
    <2>5. ASSUME NEW i \in 1..m PROVE w[i] = F(i)
      <3>1. CASE i = 1
        BY <2>4, <3>1
      <3>2. CASE i # 1
        <4>1. i - 1 \in 1..n /\ i = 1 + (i - 1)
          BY <1>1, <3>2
        <4>2. w[i] = v[i - 1]
          BY <2>4, <4>1
        <4> QED
          BY <2>3, <3>2, <4>1, <4>2
      <3> QED
        BY <3>1, <3>2
    <2> HIDE DEF F
    <2>6. w = [i \in 1..m |-> w[i]]
      <3>1. DOMAIN w = 1..m
        BY <1>1, <2>4
      <3>2. w = [i \in DOMAIN w |-> w[i]]
        BY <2>4
      <3> QED
        BY <3>1, <3>2
    <2>7. w = L
      BY <2>5, <2>6
    <2> QED
      BY <1>1, <2>7 DEF w, v
  <1>5. L \in Seq(Seq(Texts)) /\ Len(L) = m
    <2> HIDE DEF F
    <2>1. L \in [1..m -> Seq(Texts)]
      BY <1>2
    <2> HIDE DEF L
    <2> QED
      BY <1>1, <2>1
  <1>6. \A i \in 1..m : L[i] = F(i) /\ p[i] = Line(F(i)) \o <<Newline>>
    OBVIOUS
  <1> HIDE DEF F
  <1>7. ASSUME NEW i \in 1..m PROVE p[i] \in Texts
    <2>1. <<>> \in Seq(Seq(Texts))
      OBVIOUS
    <2>2. F(i) \in Seq(Texts) /\ F(i) # <<>>
      BY <1>2
    <2>3. Line(F(i)) \o <<Newline>> \in Texts
      BY <2>1, <2>2, LineReads
    <2> QED
      BY <1>6, <2>3
  <1> HIDE DEF L
  <1>8. /\ u(0) = <<>> /\ u(m) = L
        /\ \A i \in 0..m : u(i) \in Seq(Seq(Texts))
        /\ \A i \in 1..m : With(u(i - 1), L[i]) = u(i)
    BY <1>5, PrefixGrows
  <1> HIDE DEF u
  <1>9. \A i \in 0..m : g[i] = Outside(u(i), <<>>, <<>>)
    OBVIOUS
  <1>10. p \in Seq(Texts) /\ Len(p) = m
    <2>1. p = [i \in 1..m |-> p[i]]
      BY <1>3
    <2> HIDE DEF p
    <2>2. p \in [1..m -> Texts]
      BY <1>7, <2>1
    <2> QED
      BY <1>1, <2>2
  <1> HIDE DEF p, g, m, n
  <1>11. ASSUME NEW i \in 1..m PROVE Reads(g[i - 1], p[i], g[i])
    <2>1. /\ i - 1 \in 0..m /\ i \in 0..m
          /\ g[i - 1] = Outside(u(i - 1), <<>>, <<>>) /\ g[i] = Outside(u(i), <<>>, <<>>)
          /\ u(i - 1) \in Seq(Seq(Texts)) /\ With(u(i - 1), F(i)) = u(i)
      <3>1. i - 1 \in 0..m /\ i \in 0..m
        BY <1>1
      <3>2. L[i] = F(i) /\ With(u(i - 1), L[i]) = u(i)
        BY <1>6, <1>8
      <3>3. With(u(i - 1), F(i)) = u(i)
        BY <3>2
      <3> QED
        BY <1>8, <1>9, <3>1, <3>3
    <2>2. Reads(Outside(u(i - 1), <<>>, <<>>), Line(F(i)) \o <<Newline>>,
                Outside(With(u(i - 1), F(i)), <<>>, <<>>))
      BY <1>2, <2>1, LineReads
    <2> QED
      BY <1>6, <2>1, <2>2
  <1>12. g[0] = Blank /\ g[0] \in Readers
    <2>1. 0 \in 0..m /\ g[0] = Outside(<<>>, <<>>, <<>>)
      BY <1>1, <1>8, <1>9
    <2>2. g[0] = Blank
      BY <2>1 DEF Blank, Outside
    <2>3. <<>> \in Seq(Seq(Texts)) /\ <<>> \in Seq(Texts) /\ <<>> \in Texts
      BY DEF Texts
    <2> QED
      BY <2>1, <2>2, <2>3, ReadersAre
  <1>13. RowsToCSV(t) \in Texts /\ Reads(Blank, RowsToCSV(t), g[m])
    <2>1. FlattenSeq(p) \in Texts /\ Reads(g[0], FlattenSeq(p), g[Len(p)])
      BY <1>10, <1>11, <1>12, FlattenReads
    <2> QED
      BY <1>3, <1>10, <1>12, <2>1
  <1>14. g[m].records = L
    <2>1. m \in 0..m /\ g[m] = Outside(L, <<>>, <<>>)
      BY <1>1, <1>8, <1>9
    <2> QED
      BY <2>1 DEF Outside
  <1>15. Read(RowsToCSV(t)) = L
    BY <1>13, <1>14, ReadIs
  <1>16. RowsToCSV(t) # <<>>
    <2> SUFFICES ASSUME RowsToCSV(t) = <<>> PROVE FALSE
      OBVIOUS
    <2>1. Reads(Blank, <<>>, Blank)
      BY <1>12, ReadsNothing
    <2>2. <<>> \in Texts
      BY DEF Texts
    <2>3. Read(RowsToCSV(t)) = Blank.records
      BY <2>1, <2>2, ReadIs
    <2>4. L = <<>>
      BY <1>15, <2>3 DEF Blank
    <2> QED
      BY <1>1, <1>5, <2>4 DEF m
  <1> QED
    BY <1>4, <1>15, <1>16

-----------------------------------------------------------------------------
(* The report                                                              *)
LEMMA SumOver ==
  ASSUME NEW t \in Seq(RowRecord), NEW S, NEW f \in [1..Len(t) -> Nat]
  PROVE  /\ Sum([i \in DOMAIN t |-> IF i \in S THEN f[i] ELSE 0]) \in Nat
         /\ \A i \in S : i \in 1..Len(t) =>
              f[i] <= Sum([k \in DOMAIN t |-> IF k \in S THEN f[k] ELSE 0])
  <1> DEFINE n == Len(t)
             s == [i \in DOMAIN t |-> IF i \in S THEN f[i] ELSE 0]
  <1>1. n \in Nat /\ DOMAIN t = 1..n
    OBVIOUS
  <1>2. s \in [1..n -> Nat]
    BY <1>1
  <1>3. s \in Seq(Nat) /\ Len(s) = n
    <2> HIDE DEF s, n
    <2> QED
      BY <1>1, <1>2
  <1>4. \A i \in 1..n : i \in S => s[i] = f[i]
    BY <1>1
  <1> HIDE DEF s
  <1>5. Sum(s) \in Nat /\ \A i \in 1..n : s[i] <= Sum(s)
    BY <1>3, SumIsNat
  <1>6. \A i \in S : i \in 1..n => f[i] <= Sum(s)
    BY <1>4, <1>5
  <1> QED
    BY <1>5, <1>6 DEF s, n

(* A provider of the table has calls.                                      *)
LEMMA FiguresOfRows ==
  ASSUME NEW t \in Seq(RowRecord), NEW S
  PROVE  /\ Calls(t, S) \in Nat /\ Latency(t, S) \in Nat
         /\ \A i \in S : i \in 1..Len(t) => Calls(t, S) # 0
  <1> DEFINE n == Len(t)
             c == [i \in 1..n |-> t[i].calls]
             l == [i \in 1..n |-> t[i].latency * t[i].calls]
  <1>1. DOMAIN t = 1..n /\ \A i \in 1..n : t[i] \in RowRecord
    OBVIOUS
  <1>2. \A i \in 1..n : t[i].calls \in Nat /\ t[i].calls # 0 /\ t[i].latency \in Nat
    BY <1>1 DEF RowRecord
  <1>3. c \in [1..n -> Nat] /\ \A i \in 1..n : c[i] = t[i].calls /\ c[i] # 0
    BY <1>2
  <1>4. l \in [1..n -> Nat] /\ \A i \in 1..n : l[i] = t[i].latency * t[i].calls
    <2>1. \A x, y \in Nat : x * y \in Nat
      OBVIOUS
    <2> QED
      BY <1>2, <2>1
  <1> HIDE DEF c, l
  <1>5. Calls(t, S) = Sum([i \in DOMAIN t |-> IF i \in S THEN c[i] ELSE 0])
    <2>1. [i \in DOMAIN t |-> IF i \in S THEN t[i].calls ELSE 0]
            = [i \in DOMAIN t |-> IF i \in S THEN c[i] ELSE 0]
      BY <1>1, <1>3
    <2> QED
      BY <2>1 DEF Calls
  <1>6. Latency(t, S) = Sum([i \in DOMAIN t |-> IF i \in S THEN l[i] ELSE 0])
    <2>1. [i \in DOMAIN t |-> IF i \in S THEN t[i].latency * t[i].calls ELSE 0]
            = [i \in DOMAIN t |-> IF i \in S THEN l[i] ELSE 0]
      BY <1>1, <1>4
    <2> QED
      BY <2>1 DEF Latency
  <1>7. Calls(t, S) \in Nat /\ \A i \in S : i \in 1..n => c[i] <= Calls(t, S)
    BY <1>3, <1>5, SumOver
  <1>8. Latency(t, S) \in Nat
    BY <1>4, <1>6, SumOver
  <1>9. \A i \in 1..n : c[i] \in Nat
    BY <1>3
  <1> QED
    BY <1>3, <1>7, <1>8, <1>9

LEMMA ProductGrows ==
  ASSUME NEW a \in Nat, NEW b \in Nat, NEW c \in Nat, a <= b
  PROVE  c * a <= c * b
  <1> DEFINE d == b - a
  <1>1. d \in Nat /\ b = a + d
    OBVIOUS
  <1> HIDE DEF d
  <1>2. c * (a + d) = c * a + c * d /\ c * d \in Nat /\ c * a \in Nat
    BY <1>1
  <1> QED
    BY <1>1, <1>2

LEMMA ProductCancels ==
  ASSUME NEW a \in Nat, NEW b \in Nat, NEW c \in Nat, c # 0, c * a <= c * b
  PROVE  a <= b
  <1> SUFFICES ASSUME b + 1 <= a PROVE FALSE
    OBVIOUS
  <1>1. b + 1 \in Nat /\ c * (b + 1) <= c * a
    BY ProductGrows
  <1>2. c * (b + 1) = c * b + c /\ c * b \in Nat /\ c * a \in Nat
    OBVIOUS
  <1> QED
    BY <1>1, <1>2

(* From x/p <= y/q and y/q <= z/r to x/p <= z/r, in products.              *)
LEMMA RatiosAreOrdered ==
  ASSUME NEW x \in Nat, NEW y \in Nat, NEW z \in Nat,
         NEW p \in Nat, NEW q \in Nat, NEW r \in Nat, q # 0,
         x * q <= y * p, y * r <= z * q
  PROVE  x * r <= z * p
  <1>1. /\ x * q \in Nat /\ y * p \in Nat /\ y * r \in Nat /\ z * q \in Nat
        /\ x * r \in Nat /\ z * p \in Nat
    OBVIOUS
  <1>2. r * (x * q) <= r * (y * p)
    BY <1>1, ProductGrows
  <1>3. p * (y * r) <= p * (z * q)
    BY <1>1, ProductGrows
  <1>4. /\ r * (x * q) = q * (x * r) /\ r * (y * p) = p * (y * r)
        /\ p * (z * q) = q * (z * p)
    OBVIOUS
  <1>5. q * (x * r) \in Nat /\ p * (y * r) \in Nat /\ q * (z * p) \in Nat
    <2>1. \A u, v \in Nat : u * v \in Nat
      OBVIOUS
    <2> QED
      BY <1>1, <2>1
  <1>6. q * (x * r) <= q * (z * p)
    BY <1>2, <1>3, <1>4, <1>5
  <1> QED
    BY <1>1, <1>6, ProductCancels

LEMMA FasterIsOrder ==
  ASSUME NEW t \in Seq(RowRecord)
  PROVE  Preorder({w \in (1..Len(t)) \X (1..Len(t)) :
                     ~ Faster(t, t[w[2]].name, t[w[1]].name)}, Len(t))
  <1> DEFINE n == Len(t)
             C(i) == Calls(t, Of(t, t[i].name))
             L(i) == Latency(t, Of(t, t[i].name))
             W == {w \in (1..n) \X (1..n) : ~ Faster(t, t[w[2]].name, t[w[1]].name)}
  <1>1. n \in Nat /\ DOMAIN t = 1..n
    OBVIOUS
  <1>2. ASSUME NEW i \in 1..n PROVE C(i) \in Nat /\ L(i) \in Nat /\ C(i) # 0
    <2>1. i \in Of(t, t[i].name)
      BY <1>1 DEF Of
    <2> QED
      BY <2>1, FiguresOfRows
  <1>3. \A i, j \in 1..n : <<i, j>> \in W <=> ~ (L(j) * C(i) < L(i) * C(j))
    BY DEF Faster
  <1> HIDE DEF C, L, W
  <1>4. \A i, j \in 1..n : L(i) * C(j) \in Nat
    <2>1. \A u, v \in Nat : u * v \in Nat
      OBVIOUS
    <2> QED
      BY <1>2, <2>1
  <1>5. \A u, v \in Nat : (~ (v < u) <=> u <= v) /\ (u <= v \/ v <= u)
    OBVIOUS
  <1>6. ASSUME NEW i \in 1..n, NEW j \in 1..n
        PROVE  <<i, j>> \in W <=> L(i) * C(j) <= L(j) * C(i)
    <2>1. <<i, j>> \in W <=> ~ (L(j) * C(i) < L(i) * C(j))
      BY <1>3
    <2>2. L(i) * C(j) \in Nat /\ L(j) * C(i) \in Nat
      BY <1>4
    <2> QED
      BY <1>5, <2>1, <2>2
  <1>7. ASSUME NEW i \in 1..n, NEW j \in 1..n PROVE <<i, j>> \in W \/ <<j, i>> \in W
    <2>1. L(i) * C(j) \in Nat /\ L(j) * C(i) \in Nat
      BY <1>4
    <2>2. L(i) * C(j) <= L(j) * C(i) \/ L(j) * C(i) <= L(i) * C(j)
      BY <1>5, <2>1
    <2> QED
      BY <1>6, <2>2
  <1>8. ASSUME NEW i \in 1..n, NEW j \in 1..n, NEW k \in 1..n,
               <<i, j>> \in W, <<j, k>> \in W
        PROVE  <<i, k>> \in W
    <2>1. L(i) * C(j) <= L(j) * C(i) /\ L(j) * C(k) <= L(k) * C(j)
      BY <1>8, <1>6
    <2>2. L(i) * C(k) <= L(k) * C(i)
      BY <1>2, <2>1, RatiosAreOrdered
    <2> QED
      BY <1>6, <2>2
  <1>9. Preorder(W, n)
    BY <1>7, <1>8 DEF Preorder
  <1> QED
    BY <1>9 DEF W

(* The provider advised is one of the table, and none is faster.           *)
LEMMA FastestIs ==
  ASSUME NEW t \in Seq(RowRecord), t # <<>>
  PROVE  \E i \in 1..Len(t) :
           /\ Fastest(t) = t[i].name
           /\ \A j \in 1..Len(t) : ~ Faster(t, t[j].name, t[i].name)
  <1> DEFINE n == Len(t)
             W == {w \in (1..n) \X (1..n) : ~ Faster(t, t[w[2]].name, t[w[1]].name)}
             Good(i) == \A j \in 1..n :
                          /\ ~ Faster(t, t[j].name, t[i].name)
                          /\ j < i => Faster(t, t[i].name, t[j].name)
             c == CHOOSE i \in 1..n : Good(i)
  <1>1. n \in Nat /\ DOMAIN t = 1..n /\ 1..n # {}
    OBVIOUS
  <1>2. Preorder(W, n)
    BY FasterIsOrder
  <1>3. PICK i \in 1..n : \A j \in 1..n : <<i, j>> \in W /\ (j < i => <<j, i>> \notin W)
    <2> HIDE DEF W, n
    <2> QED
      BY <1>1, <1>2, FirstExists
  <1>4. Good(i)
    BY <1>3
  <1>5. c \in 1..n /\ Good(c)
    <2> HIDE DEF Good
    <2> QED
      BY <1>4
  <1>6. Fastest(t) = t[c].name
    BY <1>1 DEF Fastest, First
  <1> HIDE DEF c
  <1> QED
    BY <1>5, <1>6

(* The row a method is recommended for is of the method and of the least   *)
(* latency there.                                                          *)
LEMMA BestOfIs ==
  ASSUME NEW t \in Seq(RowRecord), NEW m \in Methods(t)
  PROVE  \E i \in OfMethod(t, m) :
           /\ BestOf(t, m) = t[i] /\ t[i].method = m
           /\ \A j \in OfMethod(t, m) : t[i].latency <= t[j].latency
  <1> DEFINE n == Len(t)
             S == OfMethod(t, m)
             W == {w \in (1..n) \X (1..n) : ~ (t[w[2]].latency < t[w[1]].latency)}
             Good(i) == \A j \in S : /\ ~ (t[j].latency < t[i].latency)
                                     /\ j < i => t[i].latency < t[j].latency
             c == CHOOSE i \in S : Good(i)
  <1>1. n \in Nat /\ DOMAIN t = 1..n
    OBVIOUS
  <1>2. \A i \in 1..n : t[i].latency \in Nat
    <2>1. \A i \in 1..n : t[i] \in RowRecord
      OBVIOUS
    <2> QED
      BY <2>1 DEF RowRecord
  <1>3. S \in SUBSET (1..n) /\ S # {} /\ \A i \in S : t[i].method = m
    BY <1>1 DEF Methods, OfMethod
  <1>4. Preorder(W, n)
    <2>1. \A i, j \in 1..n : <<i, j>> \in W <=> ~ (t[j].latency < t[i].latency)
      OBVIOUS
    <2> HIDE DEF W
    <2> DEFINE l(i) == t[i].latency
    <2>2. \A i \in 1..n : l(i) \in Nat
      BY <1>2
    <2>3. \A i, j \in 1..n : <<i, j>> \in W <=> ~ (l(j) < l(i))
      BY <2>1
    <2> HIDE DEF l
    <2>4. ASSUME NEW i \in 1..n, NEW j \in 1..n
          PROVE  <<i, j>> \in W <=> l(i) <= l(j)
      <3>1. l(i) \in Nat /\ l(j) \in Nat
        BY <2>2
      <3>2. <<i, j>> \in W <=> ~ (l(j) < l(i))
        BY <2>3
      <3> QED
        BY <3>1, <3>2
    <2>5. ASSUME NEW i \in 1..n, NEW j \in 1..n
          PROVE  <<i, j>> \in W \/ <<j, i>> \in W
      <3>1. l(i) \in Nat /\ l(j) \in Nat
        BY <2>2
      <3>2. l(i) <= l(j) \/ l(j) <= l(i)
        BY <3>1
      <3> QED
        BY <2>4, <3>2
    <2>6. ASSUME NEW i \in 1..n, NEW j \in 1..n, NEW k \in 1..n,
                 <<i, j>> \in W, <<j, k>> \in W
          PROVE  <<i, k>> \in W
      <3>1. l(i) \in Nat /\ l(j) \in Nat /\ l(k) \in Nat
        BY <2>2
      <3>2. l(i) <= l(j) /\ l(j) <= l(k)
        BY <2>4, <2>6
      <3>3. l(i) <= l(k)
        BY <3>1, <3>2
      <3> QED
        BY <2>4, <3>3
    <2> QED
      BY <2>5, <2>6 DEF Preorder
  <1>5. PICK i \in S : \A j \in S : <<i, j>> \in W /\ (j < i => <<j, i>> \notin W)
    <2> HIDE DEF W, S
    <2> QED
      BY <1>1, <1>3, <1>4, FirstExists
  <1>6. Good(i)
    <2> HIDE DEF S
    <2> QED
      BY <1>3, <1>5
  <1>7. c \in S /\ Good(c)
    <2> HIDE DEF Good, S
    <2> QED
      BY <1>6
  <1>8. BestOf(t, m) = t[c]
    BY DEF BestOf, First
  <1> HIDE DEF c, S
  <1>9. \A j \in S : t[c].latency <= t[j].latency
    BY <1>2, <1>3, <1>7
  <1> QED
    BY <1>3, <1>7, <1>8, <1>9 DEF S

(* 1, 2, 3, ...                                                            *)
Counts(s) == s \in Seq(Nat) /\ \A i \in 1..Len(s) : s[i] = i

LEMMA CountsOn ==
  ASSUME NEW s, Counts(s)
  PROVE  /\ Counts(s \o <<>>) /\ Len(s \o <<>>) = Len(s)
         /\ \A k \in Nat : k = Len(s) + 1 =>
              Counts(s \o <<k>>) /\ Len(s \o <<k>>) = Len(s) + 1
  <1>1. s \in Seq(Nat) /\ s \o <<>> = s
    BY DEF Counts
  <1>2. ASSUME NEW k \in Nat, k = Len(s) + 1
        PROVE  Counts(s \o <<k>>) /\ Len(s \o <<k>>) = Len(s) + 1
    <2> DEFINE u == s \o <<k>>
               n == Len(s)
    <2>1. <<k>> \in Seq(Nat) /\ Len(<<k>>) = 1 /\ <<k>>[1] = k
      OBVIOUS
    <2>2. /\ u \in Seq(Nat) /\ n \in Nat /\ Len(u) = n + 1
          /\ \A i \in 1..n : u[i] = s[i]
          /\ u[n + 1] = k
      BY <1>1, <2>1, Joining
    <2> HIDE DEF u
    <2>3. \A i \in 1..n : s[i] = i
      BY DEF Counts
    <2> HIDE DEF n
    <2>4. \A i \in 1..(n + 1) : u[i] = i
      <3> TAKE i \in 1..(n + 1)
      <3>1. i \in 1..n \/ i = n + 1
        BY <2>2
      <3> QED
        BY <1>2, <2>2, <2>3, <3>1 DEF n
    <2>5. Counts(u) /\ Len(u) = n + 1
      BY <2>2, <2>4 DEF Counts
    <2> QED
      BY <2>5 DEF u, n
  <1> QED
    BY <1>1, <1>2

LEMMA NumbersCount ==
  ASSUME NEW t, Busy(t) # {}
  PROVE  Numbers(t) = [i \in DOMAIN Numbers(t) |-> i]
  <1> DEFINE apart == IF Apart(t) THEN 1 ELSE 0
             best == IF Best(t) # {} THEN 1 ELSE 0
             a == IF Apart(t) /\ Busy(t) # {} THEN <<2>> ELSE <<>>
             b == IF Best(t) # {} THEN <<2 + apart>> ELSE <<>>
             d == IF Dominated(t) THEN <<2 + apart + best>> ELSE <<>>
  <1>1. Numbers(t) = ((<<1>> \o a) \o b) \o d
    BY DEF Numbers
  <1>2. Counts(<<1>>) /\ Len(<<1>>) = 1
    BY DEF Counts
  <1>3. Counts(<<1>> \o a) /\ Len(<<1>> \o a) = 1 + apart
    <2>1. CASE Apart(t)
      <3>1. a = <<2>> /\ apart = 1
        BY <2>1
      <3> HIDE DEF a, apart
      <3>2. 2 \in Nat /\ 2 = Len(<<1>>) + 1
        BY <1>2
      <3>3. Counts(<<1>> \o <<2>>) /\ Len(<<1>> \o <<2>>) = Len(<<1>>) + 1
        BY <1>2, <3>2, CountsOn
      <3> QED
        BY <1>2, <3>1, <3>3
    <2>2. CASE ~ Apart(t)
      <3>1. a = <<>> /\ apart = 0
        BY <2>2
      <3> HIDE DEF a, apart
      <3>2. Counts(<<1>> \o <<>>) /\ Len(<<1>> \o <<>>) = Len(<<1>>)
        BY <1>2, CountsOn
      <3> QED
        BY <1>2, <3>1, <3>2
    <2> QED
      BY <2>1, <2>2
  <1>4. apart \in Nat /\ best \in Nat
    OBVIOUS
  <1> HIDE DEF apart, a
  <1>5. Counts((<<1>> \o a) \o b) /\ Len((<<1>> \o a) \o b) = 1 + apart + best
    <2> DEFINE u == <<1>> \o a
    <2>0. Counts(u) /\ Len(u) = 1 + apart
      BY <1>3
    <2> HIDE DEF u
    <2>1. CASE Best(t) # {}
      <3>1. b = <<2 + apart>> /\ best = 1 /\ 2 + apart \in Nat /\ 2 + apart = Len(u) + 1
        BY <1>4, <2>0, <2>1
      <3>2. Counts(u \o <<2 + apart>>) /\ Len(u \o <<2 + apart>>) = Len(u) + 1
        BY <2>0, <3>1, CountsOn
      <3> HIDE DEF b, best
      <3> QED
        BY <1>4, <2>0, <3>1, <3>2 DEF u
    <2>2. CASE ~ (Best(t) # {})
      <3>1. b = <<>> /\ best = 0
        BY <2>2
      <3>2. Counts(u \o <<>>) /\ Len(u \o <<>>) = Len(u)
        BY <2>0, CountsOn
      <3> HIDE DEF b, best
      <3> QED
        BY <1>4, <2>0, <3>1, <3>2 DEF u
    <2> QED
      BY <2>1, <2>2
  <1> HIDE DEF best, b
  <1>6. Counts(((<<1>> \o a) \o b) \o d)
    <2> DEFINE u == (<<1>> \o a) \o b
    <2>0. Counts(u) /\ Len(u) = 1 + apart + best
      BY <1>5
    <2> HIDE DEF u
    <2>1. CASE Dominated(t)
      <3>1. /\ d = <<2 + apart + best>> /\ 2 + apart + best \in Nat
            /\ 2 + apart + best = Len(u) + 1
        BY <1>4, <2>0, <2>1
      <3>2. Counts(u \o <<2 + apart + best>>)
        BY <2>0, <3>1, CountsOn
      <3> QED
        BY <3>1, <3>2 DEF u
    <2>2. CASE ~ Dominated(t)
      <3>1. d = <<>>
        BY <2>2
      <3>2. Counts(u \o <<>>)
        BY <2>0, CountsOn
      <3> QED
        BY <3>1, <3>2 DEF u
    <2> QED
      BY <2>1, <2>2
  <1> HIDE DEF d
  <1>7. ASSUME NEW s, Counts(s) PROVE s = [i \in DOMAIN s |-> i]
    <2>1. s \in Seq(Nat) /\ DOMAIN s = 1..Len(s) /\ \A i \in 1..Len(s) : s[i] = i
      BY <1>7 DEF Counts
    <2> QED
      BY <2>1
  <1>8. Counts(Numbers(t))
    BY <1>1, <1>6
  <1> QED
    BY <1>7, <1>8

LEMMA AnalysisIsSound ==
  ASSUME NEW t \in Seq(RowRecord), t # <<>>
  PROVE  /\ \A i \in DOMAIN t :
              Latency(t, Of(t, Fastest(t))) * Calls(t, Of(t, t[i].name))
                <= Latency(t, Of(t, t[i].name)) * Calls(t, Of(t, Fastest(t)))
         /\ \A b \in Best(t) :
              /\ b.name # Fastest(t)
              /\ \A i \in OfMethod(t, b.method) : b.latency <= t[i].latency
         /\ Busy(t) # {} => Numbers(t) = [i \in DOMAIN Numbers(t) |-> i]
  <1>1. PICK k \in 1..Len(t) :
          /\ Fastest(t) = t[k].name
          /\ \A j \in 1..Len(t) : ~ Faster(t, t[j].name, t[k].name)
    BY FastestIs
  <1>2. ASSUME NEW i \in DOMAIN t
        PROVE  Latency(t, Of(t, Fastest(t))) * Calls(t, Of(t, t[i].name))
                 <= Latency(t, Of(t, t[i].name)) * Calls(t, Of(t, Fastest(t)))
    <2> DEFINE l == Latency(t, Of(t, Fastest(t)))
               c == Calls(t, Of(t, Fastest(t)))
               m == Latency(t, Of(t, t[i].name))
               d == Calls(t, Of(t, t[i].name))
    <2>1. l \in Nat /\ c \in Nat /\ m \in Nat /\ d \in Nat
      BY FiguresOfRows
    <2>2. ~ (m * c < l * d)
      <3>1. i \in 1..Len(t)
        OBVIOUS
      <3>2. ~ Faster(t, t[i].name, Fastest(t))
        BY <1>1, <3>1
      <3> QED
        BY <3>2 DEF Faster
    <2> HIDE DEF l, c, m, d
    <2>3. m * c \in Nat /\ l * d \in Nat
      BY <2>1
    <2>4. l * d <= m * c
      BY <2>2, <2>3
    <2> QED
      BY <2>4 DEF l, c, m, d
  <1>3. ASSUME NEW b \in Best(t)
        PROVE  /\ b.name # Fastest(t)
               /\ \A i \in OfMethod(t, b.method) : b.latency <= t[i].latency
    <2>1. b.name # Fastest(t) /\ \E m \in Methods(t) : b = BestOf(t, m)
      BY DEF Best
    <2>2. PICK m \in Methods(t) : b = BestOf(t, m)
      BY <2>1
    <2>3. PICK i \in OfMethod(t, m) :
            /\ BestOf(t, m) = t[i] /\ t[i].method = m
            /\ \A j \in OfMethod(t, m) : t[i].latency <= t[j].latency
      BY BestOfIs
    <2> QED
      BY <2>1, <2>2, <2>3
  <1> QED
    BY <1>2, <1>3, NumbersCount

-----------------------------------------------------------------------------
(* The steps of run()                                                      *)
Phases == {"connecting", "reading", "read", "saved", "exited"}
Content == IF format = "csv" THEN RowsToCSV(table) ELSE table

TypeOK ==
  /\ answer \in Answers /\ format \in Formats
  /\ phase \in Phases /\ exit \in {Running, 0, 1}

(* The table is the answer's from the body on, the file is the table's     *)
(* from saving on, the report is the table's; and a status says how far    *)
(* the script came.                                                        *)
TableIsAnswers == phase \in {"read", "saved"} \/ exit = 0 => table = TransformToRows(answer)
FileIsTables   == phase = "saved" \/ exit = 0 => table # <<>> /\ file = Content
NoFileYet      == phase \in {"connecting", "reading", "read"} \/ exit = 1 => file = NoFile
ReportIsTables == exit = 0 => report = Analysis(table)
StatusIsLast   == exit # Running <=> phase = "exited"

ExportInv ==
  /\ TypeOK /\ TableIsAnswers /\ FileIsTables /\ NoFileYet /\ ReportIsTables /\ StatusIsLast

LEMMA StartsWell == ExportInit => ExportInv
  BY DEF ExportInit, ExportInv, TypeOK, Phases, TableIsAnswers, FileIsTables, NoFileYet,
         ReportIsTables, StatusIsLast, Running

LEMMA StepsKeepInv == ExportInv /\ [ExportNext]_exportVars => ExportInv'
  <1> SUFFICES ASSUME ExportInv, [ExportNext]_exportVars PROVE ExportInv'
    OBVIOUS
  <1> USE DEF ExportInv, TypeOK, Phases, TableIsAnswers, FileIsTables, NoFileYet,
              ReportIsTables, StatusIsLast, Running
  <1>1. CASE Connected
    BY <1>1 DEF Connected, Content
  <1>2. CASE FetchFails
    BY <1>2 DEF FetchFails, Exits, Content
  <1>3. CASE TimesOut
    BY <1>3 DEF TimesOut, FetchFails, Exits, Content
  <1>4. CASE BodyRead
    BY <1>4 DEF BodyRead, Content
  <1>5. CASE NothingToExport
    BY <1>5 DEF NothingToExport, Exits, Content
  <1>6. CASE Save
    <2>1. CASE phase' = "saved" /\ file' = Content /\ UNCHANGED exit
      BY <1>6, <2>1 DEF Save, Content
    <2>2. CASE Exits(1) /\ UNCHANGED file
      BY <1>6, <2>2 DEF Save, Exits, Content
    <2> QED
      BY <1>6, <2>1, <2>2 DEF Save, Content
  <1>7. CASE Analyse
    BY <1>7 DEF Analyse, Exits, Content
  <1>8. CASE UNCHANGED exportVars
    BY <1>8 DEF exportVars, Content
  <1> QED
    BY <1>1, <1>2, <1>3, <1>4, <1>5, <1>6, <1>7, <1>8 DEF ExportNext

LEMMA InvSaysFile == ExportInv => FileReadsBack
  <1> SUFFICES ASSUME ExportInv PROVE FileReadsBack
    OBVIOUS
  <1>1. answer \in Seq(Entries) /\ format \in {"csv", "json"}
    BY ExportAssumption DEF ExportInv, TypeOK
  <1>2. exit = 1 => file = NoFile
    BY DEF ExportInv, NoFileYet
  <1>3. file # NoFile => phase = "saved" \/ exit = 0
    BY DEF ExportInv, NoFileYet, TypeOK, Phases, StatusIsLast, Running
  <1>4. ASSUME phase = "saved" \/ exit = 0
        PROVE  /\ table # <<>> /\ table = TransformToRows(answer) /\ file = Content
    BY <1>4 DEF ExportInv, TableIsAnswers, FileIsTables
  <1>5. ASSUME phase = "saved" \/ exit = 0 PROVE table \in Seq(RowRecord) /\ Grouped(table)
    <2>1. /\ table \in Seq(RowRecord)
          /\ \A k, l \in 1..Len(table) : k < l => ~ RowBefore(table[l], table[k])
      BY <1>1, <1>4, <1>5, TableOf
    <2> QED
      BY <2>1, SortedIsGrouped
  <1>6. ASSUME phase = "saved" \/ exit = 0 PROVE Exported(table)
    BY <1>1, <1>4, <1>6, TableIsExported
  <1>7. ASSUME phase = "saved" \/ exit = 0 PROVE file # NoFile
    <2>1. RowsToCSV(table) # <<>>
      BY <1>5, <1>7, FileReads
    <2> QED
      BY <1>4, <1>7, <2>1 DEF Content, NoFile
  <1>8. ASSUME phase = "saved" \/ exit = 0
        PROVE  /\ format = "csv" =>
                    Read(file) = <<Headers>> \o [i \in DOMAIN table |-> Fields(table[i])]
               /\ format = "json" => file = table
    <2>1. Read(RowsToCSV(table)) = <<Headers>> \o [i \in DOMAIN table |-> Fields(table[i])]
      BY <1>5, <1>8, FileReads
    <2>2. file = Content
      BY <1>4, <1>8
    <2>3. format = "csv" => file = RowsToCSV(table)
      BY <2>2 DEF Content
    <2>4. format = "json" => file = table
      BY <2>2 DEF Content
    <2> QED
      BY <2>1, <2>3, <2>4
  <1> QED
    BY <1>2, <1>3, <1>5, <1>6, <1>7, <1>8 DEF FileReadsBack

LEMMA InvSaysReport == ExportInv => ReportIsSound
  <1> SUFFICES ASSUME ExportInv, exit = 0 PROVE ReportIsSound
    BY DEF ReportIsSound
  <1>1. answer \in Seq(Entries)
    BY ExportAssumption DEF ExportInv, TypeOK
  <1>2. table # <<>> /\ table = TransformToRows(answer) /\ report = Analysis(table)
    BY DEF ExportInv, TableIsAnswers, FileIsTables, ReportIsTables
  <1>3. table \in Seq(RowRecord)
    BY <1>1, <1>2, TableOf
  <1>4. /\ report.fastest = Fastest(table) /\ report.best = Best(table)
        /\ report.numbers = Numbers(table)
    BY <1>2 DEF Analysis
  <1>5. /\ \A i \in DOMAIN table :
             Latency(table, Of(table, Fastest(table))) * Calls(table, Of(table, table[i].name))
               <= Latency(table, Of(table, table[i].name)) * Calls(table, Of(table, Fastest(table)))
        /\ \A b \in Best(table) :
             /\ b.name # Fastest(table)
             /\ \A i \in OfMethod(table, b.method) : b.latency <= table[i].latency
        /\ Busy(table) # {} => Numbers(table) = [i \in DOMAIN Numbers(table) |-> i]
    BY <1>2, <1>3, AnalysisIsSound
  <1> QED
    BY <1>4, <1>5 DEF ReportIsSound

(* Whatever the server answers, the file of scripts/export_metrics_csv.mjs *)
(* holds every figure once, grouped by method and transport, and reads     *)
(* back as the rows it was made of (transformToRows, escapeCSVField,       *)
(* rowsToCSV); and the exit status tells whether there is a file.          *)
THEOREM FileIsReadBack == ExportSpec => []FileReadsBack
  <1>1. ExportSpec => []ExportInv
    BY StartsWell, StepsKeepInv, PTL DEF ExportSpec
  <1> QED
    BY <1>1, InvSaysFile, PTL

(* Whatever the figures, no provider of the table has less latency per     *)
(* call than the one analyzeData advises, another one is recommended for a *)
(* method only with the least latency there, and the advice is numbered    *)
(* without a gap when there is a row with enough calls to compare.         *)
THEOREM AdviceIsSound == ExportSpec => []ReportIsSound
  <1>1. ExportSpec => []ExportInv
    BY StartsWell, StepsKeepInv, PTL DEF ExportSpec
  <1> QED
    BY <1>1, InvSaysReport, PTL
=============================================================================
