---------------------------- MODULE OrderingProofs ----------------------------
(***************************************************************************)
(* What the ordering operators return.  The minimum exists because < is    *)
(* well-founded on the naturals; everything else follows from that and     *)
(* from the cardinality of intervals.                                      *)
(*                                                                         *)
(* The first part is about increasing enumerations: Selected lists the     *)
(* values along any of them, and a set has only one.  It takes what it     *)
(* needs of finite sets as the hypothesis NumberFacts, which the second    *)
(* part proves.                                                            *)
(***************************************************************************)
EXTENDS Listing, TLAPS

USE Zenon

\* MIN of a set.
LEMMA MinOf ==
    ASSUME NumberFacts, NEW S \in SUBSET Nat, S # {}
    PROVE  Smallest(S) \in S /\ \A y \in S : Smallest(S) <= y
BY DEF NumberFacts, MinExists

\* MAX of a bounded set.
LEMMA MaxOf ==
    ASSUME NumberFacts, NEW S \in SUBSET Nat, S # {}, NEW n \in Nat, \A y \in S : y <= n
    PROVE  Largest(S) \in S /\ \A y \in S : y <= Largest(S)
BY DEF NumberFacts, MaxExists

\* ORDER BY over a set of numbers lists them in increasing order.
LEMMA ListedInOrder ==
    ASSUME NumberFacts, NEW n \in Nat, NEW S \in SUBSET (1..n)
    PROVE  /\ Cardinality(S) \in Nat
           /\ InOrder(S) \in Seq(S) /\ Len(InOrder(S)) = Cardinality(S)
           /\ \A i, j \in 1..Cardinality(S) : i < j => InOrder(S)[i] < InOrder(S)[j]
BY DEF NumberFacts, SetsInOrder

\* It leaves none of them out.
LEMMA AllInOrder ==
    ASSUME NumberFacts, NEW n \in Nat, NEW S \in SUBSET (1..n)
    PROVE  \A x \in S : \E i \in 1..Cardinality(S) : InOrder(S)[i] = x
BY DEF NumberFacts, SetsInOrder

\* An increasing enumeration has a last place up to p, and only one.
LEMMA CutAt ==
    ASSUME NumberFacts, NEW m \in Nat, NEW g \in [1..m -> Nat], NEW p \in Nat,
           \A i, j \in 1..m : i < j => g[i] < g[j]
    PROVE  \E k \in 0..m : IsCut(g, m, p, k)
<1> DEFINE K == {0} \cup {i \in 1..m : g[i] <= p}
<1>1. K \in SUBSET Nat /\ K # {} /\ \A y \in K : y <= m
  BY SMTT(30), SMTT(60)
<1>2. PICK k \in K : \A y \in K : y <= k
  <2> HIDE DEF K
  <2> QED
    BY <1>1, MaxOf
<1>3. ASSUME NEW i \in 1..k PROVE g[i] <= p
  <2>1. k \in 1..m /\ g[k] <= p /\ i \in 1..m
    BY <1>2, SMTT(30), SMTT(60)
  <2>2. i = k \/ g[i] < g[k]
    BY <2>1, SMTT(30), SMTT(60)
  <2>3. g[i] \in Nat /\ g[k] \in Nat
    BY <2>1
  <2> QED
    BY <2>1, <2>2, <2>3, SMTT(30), SMTT(60)
<1>4. ASSUME NEW i \in (k + 1)..m PROVE p < g[i]
  <2>1. i \in 1..m /\ i \notin K /\ g[i] \in Nat
    BY <1>2, SMTT(30), SMTT(60)
  <2> QED
    BY <2>1, SMTT(30), SMTT(60)
<1>5. k \in 0..m
  BY <1>1, SMTT(30), SMTT(60)
<1> HIDE DEF K
<1>6. IsCut(g, m, p, k)
  BY <1>3, <1>4 DEF IsCut
<1> QED
  BY <1>5, <1>6

\* A list is cut at p in one place only.
LEMMA CutUnique ==
    ASSUME NEW m \in Nat, NEW g \in [1..m -> Nat], NEW p \in Nat,
           NEW k \in 0..m, IsCut(g, m, p, k), NEW c \in 0..m, IsCut(g, m, p, c)
    PROVE  c = k
<1>1. ASSUME NEW a \in 0..m, NEW b \in 0..m, IsCut(g, m, p, a), IsCut(g, m, p, b), a < b PROVE FALSE
  <2>1. a + 1 \in 1..b /\ a + 1 \in (a + 1)..m /\ a + 1 \in 1..m
    BY <1>1, SMTT(30), SMTT(60)
  <2>2. g[a + 1] <= p /\ p < g[a + 1]
    BY <1>1, <2>1 DEF IsCut
  <2>3. g[a + 1] \in Nat
    BY <2>1
  <2> QED
    BY <2>2, <2>3, SMTT(30), SMTT(60)
<1>2. ~(c < k) /\ ~(k < c)
  BY <1>1
<1> QED
  BY <1>2, SMTT(30), SMTT(60)

\* Moving the bound up by one either leaves the cut where it is or adds the
\* place that holds the bound.
LEMMA CutMoves ==
    ASSUME NEW m \in Nat, NEW g \in [1..m -> Nat], NEW p \in Nat \ {0},
           \A i, j \in 1..m : i < j => g[i] < g[j],
           NEW k \in 0..m, IsCut(g, m, p - 1, k)
    PROVE  /\ (\A i \in 1..m : g[i] # p) => IsCut(g, m, p, k)
           /\ \A j \in 1..m : g[j] = p => j = k + 1 /\ IsCut(g, m, p, k + 1)
<1>1. ASSUME NEW i \in 1..m PROVE g[i] \in Nat
  OBVIOUS
<1>2. ASSUME NEW i \in 1..k PROVE i \in 1..m /\ g[i] <= p - 1
  BY SMTT(30), SMTT(60) DEF IsCut
<1>3. ASSUME NEW i \in (k + 1)..m PROVE i \in 1..m /\ p - 1 < g[i]
  BY SMTT(30), SMTT(60) DEF IsCut
<1>4. ASSUME \A i \in 1..m : g[i] # p PROVE IsCut(g, m, p, k)
  <2>1. ASSUME NEW i \in 1..k PROVE g[i] <= p
    BY <1>1, <1>2, SMTT(30), SMTT(60)
  <2>2. ASSUME NEW i \in (k + 1)..m PROVE p < g[i]
    BY <1>1, <1>3, <1>4, SMTT(30), SMTT(60)
  <2> QED
    BY <2>1, <2>2 DEF IsCut
<1>5. ASSUME NEW j \in 1..m, g[j] = p PROVE j = k + 1 /\ IsCut(g, m, p, k + 1)
  <2>1. j > k
    <3>1. ASSUME j <= k PROVE FALSE
      <4>1. j \in 1..k
        BY <3>1, SMTT(30), SMTT(60)
      <4> QED
        BY <1>2, <1>5, <4>1, SMTT(30), SMTT(60)
    <3> QED
      BY <3>1, SMTT(30), SMTT(60)
  <2>2. j = k + 1
    <3>1. ASSUME j > k + 1 PROVE FALSE
      <4>1. k + 1 \in (k + 1)..m /\ k + 1 \in 1..m
        BY <2>1, <3>1, SMTT(30), SMTT(60)
      <4>2. g[k + 1] < p /\ p - 1 < g[k + 1] /\ g[k + 1] \in Nat
        BY <1>1, <1>3, <1>5, <3>1, <4>1
      <4> QED
        BY <4>2, SMTT(30), SMTT(60)
    <3> QED
      BY <2>1, <3>1, SMTT(30), SMTT(60)
  <2>3. ASSUME NEW i \in 1..(k + 1) PROVE g[i] <= p
    <3>1. i = k + 1 \/ i \in 1..k
      BY SMTT(30), SMTT(60)
    <3>2. i \in 1..k => g[i] <= p
      BY <1>1, <1>2, SMTT(30), SMTT(60)
    <3>3. i = k + 1 => g[i] = p /\ p <= p
      BY <1>5, <2>2, SMTT(30), SMTT(60)
    <3> QED
      BY <3>1, <3>2, <3>3
  <2>4. ASSUME NEW i \in (k + 1 + 1)..m PROVE p < g[i]
    BY <1>5, <2>2, SMTT(30), SMTT(60)
  <2> QED
    BY <2>2, <2>3, <2>4 DEF IsCut
<1> QED
  BY <1>4, <1>5

\* Selected lists the values along any increasing enumeration of the set.
LEMMA SelectedAlong ==
    ASSUME NumberFacts, NEW n, NEW S, NEW m, NEW g, Enumerates(g, m, S, n), NEW f
    PROVE  Selected(S, n, f) = Along(f, g, m)
<1> USE DEF Along
<1>a. /\ n \in Nat /\ m \in Nat
      /\ S \in SUBSET (1..n)
      /\ g \in [1..m -> S]
      /\ \A i, j \in 1..m : i < j => g[i] < g[j]
      /\ \A x \in S : \E i \in 1..m : g[i] = x
  BY DEF Enumerates
<1> USE <1>a
<1>0. g \in [1..m -> Nat] /\ \A i \in 1..m : g[i] \in S /\ g[i] \in 1..n
  <2>1. \A i \in 1..m : g[i] \in S
    OBVIOUS
  <2>2. \A x \in S : x \in 1..n /\ x \in Nat
    BY SMTT(30), SMTT(60)
  <2> QED
    BY <2>1, <2>2
<1> DEFINE cut(p) == CHOOSE k \in 0..m : IsCut(g, m, p, k)
           row(k) == [i \in 1..k |-> f[g[i]]]
           list == [p \in 0..n |-> row(cut(p))]
           Eqn(u) == u = [p \in 0..n |-> IF p = 0 THEN <<>>
                                         ELSE IF p \in S THEN Append(u[p - 1], f[p]) ELSE u[p - 1]]
           upTo == CHOOSE u : Eqn(u)
<1>1. ASSUME NEW p \in 0..n PROVE cut(p) \in 0..m /\ IsCut(g, m, p, cut(p))
  <2>1. p \in Nat
    BY SMTT(30), SMTT(60)
  <2>2. \E k \in 0..m : IsCut(g, m, p, k)
    BY <1>0, <2>1, CutAt
  <2> QED
    BY <2>2
<1>2. ASSUME NEW p \in 0..n, NEW k \in 0..m, IsCut(g, m, p, k) PROVE cut(p) = k
  <2>1. p \in Nat
    BY SMTT(30), SMTT(60)
  <2>2. cut(p) \in 0..m /\ IsCut(g, m, p, cut(p))
    BY <1>1
  <2> HIDE DEF cut
  <2> QED
    BY <1>0, <1>2, <2>1, <2>2, CutUnique
<1> HIDE DEF cut
<1>3. cut(0) = 0 /\ cut(n) = m
  <2>1. \A i \in 1..m : g[i] \in 1..n
    BY <1>0
  <2>2. IsCut(g, m, 0, 0) /\ IsCut(g, m, n, m)
    BY <2>1, SMTT(30), SMTT(60) DEF IsCut
  <2> QED
    BY <1>2, <2>2, SMTT(30), SMTT(60)
<1>4. ASSUME NEW k \in 0..m, k + 1 \in 1..m PROVE row(k + 1) = Append(row(k), f[g[k + 1]])
  <2> DEFINE T == {f[g[i]] : i \in 1..(k + 1)}
  <2>1. row(k) \in Seq(T) /\ Len(row(k)) = k /\ f[g[k + 1]] \in T
    BY SMTT(30), SMTT(60)
  <2>2. \A i \in 1..k : row(k)[i] = f[g[i]]
    OBVIOUS
  <2> HIDE DEF row, T
  <2>3. Append(row(k), f[g[k + 1]]) = [i \in 1..(k + 1) |-> IF i \in 1..k THEN row(k)[i] ELSE f[g[k + 1]]]
    BY <2>1, SMTT(30), SMTT(60)
  <2>4. \A i \in 1..(k + 1) : (IF i \in 1..k THEN row(k)[i] ELSE f[g[k + 1]]) = f[g[i]]
    BY <2>2, SMTT(30), SMTT(60)
  <2> QED
    BY <2>3, <2>4 DEF row
<1>5. ASSUME NEW p \in 1..n
      PROVE  list[p] = IF p \in S THEN Append(list[p - 1], f[p]) ELSE list[p - 1]
  <2>0. p - 1 \in 0..n /\ p \in 0..n /\ p \in Nat \ {0}
    BY SMTT(30), SMTT(60)
  <2>1. PICK k \in 0..m : k = cut(p - 1) /\ IsCut(g, m, p - 1, k)
    BY <1>1, <2>0
  <2>2. /\ (\A i \in 1..m : g[i] # p) => IsCut(g, m, p, k)
        /\ \A j \in 1..m : g[j] = p => j = k + 1 /\ IsCut(g, m, p, k + 1)
    <3>1. g \in [1..m -> Nat] /\ p \in Nat \ {0} /\ k \in 0..m /\ IsCut(g, m, p - 1, k)
      BY <1>0, <2>0, <2>1
    <3> HIDE DEF row, list
    <3> QED
      BY <3>1, CutMoves, ZenonT(60)
  <2>3. list[p - 1] = row(k) /\ list[p] = row(cut(p))
    <3> HIDE DEF row
    <3> QED
      BY <2>0, <2>1
  <2> HIDE DEF row, list
  <2>4. CASE p \notin S
    <3>1. \A i \in 1..m : g[i] # p
      BY <1>0, <2>4
    <3>2. cut(p) = k
      BY <1>2, <2>0, <2>2, <3>1
    <3> QED
      BY <2>3, <2>4, <3>2
  <2>5. CASE p \in S
    <3>1. PICK j \in 1..m : g[j] = p
      BY <2>5
    <3>2. j = k + 1 /\ IsCut(g, m, p, k + 1)
      BY <2>2, <3>1
    <3>3. k + 1 \in 1..m /\ k + 1 \in 0..m /\ g[k + 1] = p
      BY <3>1, <3>2, SMTT(30), SMTT(60)
    <3>4. cut(p) = k + 1
      BY <1>2, <2>0, <3>2, <3>3
    <3> QED
      BY <1>4, <2>3, <2>5, <3>3, <3>4
  <2> QED
    BY <2>4, <2>5
<1>6. list[0] = <<>>
  <2>1. list[0] = row(0)
    BY <1>3, SMTT(30), SMTT(60)
  <2> QED
    BY <2>1, SMTT(30), SMTT(60)
<1>7. Eqn(list)
  <2>1. list = [p \in 0..n |-> list[p]]
    OBVIOUS
  <2> HIDE DEF list
  <2>2. ASSUME NEW p \in 0..n
        PROVE  list[p] = IF p = 0 THEN <<>> ELSE IF p \in S THEN Append(list[p - 1], f[p]) ELSE list[p - 1]
    <3>1. CASE p = 0
      BY <1>6, <3>1
    <3>2. CASE p # 0
      BY <1>5, <3>2, SMTT(30), SMTT(60)
    <3> QED
      BY <3>1, <3>2
  <2> QED
    BY <2>1, <2>2
<1>8. Eqn(upTo)
  <2> HIDE DEF Eqn, list
  <2> QED
    BY <1>7
<1>9. Selected(S, n, f) = upTo[n]
  BY DEF Selected
<1>10. list[n] = row(m)
  BY <1>3, SMTT(30), SMTT(60)
<1> HIDE DEF upTo, list
<1>11. ASSUME NEW p \in 0..n PROVE upTo[p] = list[p]
  <2> DEFINE Bad == {q \in 0..n : upTo[q] # list[q]}
  <2>1. ASSUME Bad # {} PROVE FALSE
    <3>1. PICK q \in Bad : \A y \in Bad : q <= y
      <4>1. Bad \in SUBSET Nat
        BY SMTT(30), SMTT(60)
      <4> HIDE DEF Bad
      <4> QED
        BY <2>1, <4>1, MinOf
    <3>2. CASE q = 0
      BY <1>6, <1>8, <3>1, <3>2
    <3>3. CASE q # 0
      <4>1. q - 1 \in 0..n /\ q - 1 \notin Bad /\ q \in 1..n
        BY <3>1, <3>3, SMTT(30), SMTT(60)
      <4>2. upTo[q - 1] = list[q - 1]
        BY <4>1
      <4>3. upTo[q] = IF q \in S THEN Append(upTo[q - 1], f[q]) ELSE upTo[q - 1]
        BY <1>8, <3>3, <4>1
      <4> QED
        BY <1>5, <3>1, <4>1, <4>2, <4>3, SMTT(30), SMTT(60)
    <3> QED
      BY <3>2, <3>3
  <2> QED
    BY <2>1
<1> QED
  BY <1>9, <1>10, <1>11, SMTT(30), SMTT(60)

\* What an enumeration gives.
LEMMA EnumerationFacts ==
    ASSUME NEW n, NEW S, NEW m, NEW g, Enumerates(g, m, S, n)
    PROVE  /\ m \in Nat /\ n \in Nat
           /\ \A x \in S : x \in Nat /\ \E i \in 1..m : g[i] = x
           /\ \A i \in 1..m : g[i] \in S /\ g[i] \in Nat
           /\ \A i, j \in 1..m : i < j => g[i] < g[j]
           /\ \A i, j \in 1..m : g[i] < g[j] => i < j
           /\ \A i, j \in 1..m : g[i] = g[j] => i = j
<1>1. /\ n \in Nat /\ m \in Nat
      /\ S \in SUBSET (1..n)
      /\ g \in [1..m -> S]
      /\ \A i, j \in 1..m : i < j => g[i] < g[j]
      /\ \A x \in S : \E i \in 1..m : g[i] = x
  BY DEF Enumerates
<1>2. \A x \in S : x \in Nat
  BY <1>1, SMTT(30), SMTT(60)
<1>3. \A i \in 1..m : g[i] \in S /\ g[i] \in Nat
  BY <1>1, <1>2
<1>4. ASSUME NEW i \in 1..m, NEW j \in 1..m
      PROVE  (g[i] < g[j] => i < j) /\ (g[i] = g[j] => i = j)
  <2>1. (i < j => g[i] < g[j]) /\ (j < i => g[j] < g[i]) /\ g[i] \in Nat /\ g[j] \in Nat
    BY <1>1, <1>3
  <2>2. i < j \/ i = j \/ j < i
    BY SMTT(30), SMTT(60)
  <2> QED
    BY <2>1, <2>2, SMTT(30), SMTT(60)
<1> QED
  BY <1>1, <1>2, <1>3, <1>4

\* Every bounded set of numbers can be listed.
LEMMA EnumerationExists ==
    ASSUME NumberFacts, NEW n \in Nat, NEW S \in SUBSET (1..n)
    PROVE  \E m \in Nat, g \in [1..Cardinality(S) -> S] : m = Cardinality(S) /\ Enumerates(g, m, S, n)
<1>1. S \in SUBSET Nat /\ \A y \in S : y <= n
  BY SMTT(30), SMTT(60)
<1>2. /\ Cardinality(S) \in Nat
      /\ InOrder(S) \in Seq(S) /\ Len(InOrder(S)) = Cardinality(S)
      /\ \A i, j \in 1..Cardinality(S) : i < j => InOrder(S)[i] < InOrder(S)[j]
  BY <1>1, ListedInOrder
<1>3. \A x \in S : \E i \in 1..Cardinality(S) : InOrder(S)[i] = x
  BY <1>1, AllInOrder
<1>4. InOrder(S) \in [1..Cardinality(S) -> S]
  BY <1>2, SMTT(30), SMTT(60)
<1>5. Enumerates(InOrder(S), Cardinality(S), S, n)
  BY <1>2, <1>3, <1>4 DEF Enumerates
<1> QED
  BY <1>2, <1>4, <1>5

\* What is selected from the elements up to p is a prefix of what is selected
\* from all of them.
LEMMA SelectedBelow ==
    ASSUME NumberFacts, NEW n, NEW S, NEW m, NEW g, NEW p, NEW k, NEW T, NEW f, NEW f2,
           Below(n, m, p, S, g, k, T), Agree(f, f2, T)
    PROVE  Selected(T, n, f2) = Along(f, g, k)
<1>0. /\ n \in Nat /\ m \in Nat /\ p \in Nat /\ S \in SUBSET (1..n)
      /\ Enumerates(g, m, S, n) /\ k \in 0..m /\ IsCut(g, m, p, k)
      /\ T = {x \in S : x <= p}
      /\ \A x \in T : f2[x] = f[x]
  BY DEF Below, Agree
<1> USE <1>0
<1> DEFINE g2 == [i \in 1..k |-> g[i]]
<1>1. \A i \in 1..m : g[i] \in S
  BY DEF Enumerates
<1>2. \A i \in 1..k : i \in 1..m /\ g[i] \in T
  BY <1>1, SMTT(30), SMTT(60) DEF IsCut
<1>3. g2 \in [1..k -> T]
  BY <1>2
<1>4. \A i, j \in 1..k : i < j => g2[i] < g2[j]
  BY <1>2 DEF Enumerates
<1>5. ASSUME NEW x \in T PROVE \E i \in 1..k : g2[i] = x
  <2>1. PICK i \in 1..m : g[i] = x
    BY DEF Enumerates
  <2>2. x \in Nat /\ x <= p
    <3>1. x \in S /\ x <= p
      OBVIOUS
    <3> QED
      BY <3>1, SMTT(30), SMTT(60)
  <2>3. i \in 1..k
    <3>1. ASSUME i \notin 1..k PROVE FALSE
      <4>1. i \in (k + 1)..m
        BY <3>1, SMTT(30), SMTT(60)
      <4>2. p < x
        BY <2>1, <4>1 DEF IsCut
      <4> QED
        BY <2>2, <4>2, SMTT(30), SMTT(60)
    <3> QED
      BY <3>1
  <2> QED
    BY <2>1, <2>3
<1>6. T \in SUBSET (1..n) /\ k \in Nat
  <2>1. T \in SUBSET (1..n)
    OBVIOUS
  <2> QED
    BY <2>1, SMTT(30), SMTT(60)
<1>7. Enumerates(g2, k, T, n)
  <2> HIDE DEF g2
  <2> QED
    BY <1>3, <1>4, <1>5, <1>6 DEF Enumerates
<1>8. Selected(T, n, f2) = Along(f2, g2, k)
  <2> HIDE DEF g2
  <2> QED
    BY <1>7, SelectedAlong, SMTT(30), SMTT(60)
<1>9. \A i \in 1..k : f2[g2[i]] = f[g[i]]
  BY <1>2
<1> QED
  BY <1>8, <1>9 DEF Along

\* a is a list of m entries.
IsList(a, m) == m \in Nat /\ a = [i \in 1..m |-> a[i]]

\* The right part of a concatenation.
LEMMA JoinedRight ==
    ASSUME NEW U, NEW a \in Seq(U), NEW b \in Seq(U)
    PROVE  \A v \in (Len(a) + 1)..(Len(a) + Len(b)) : (a \o b)[v] = b[v - Len(a)]
BY SMTT(30), SMTT(60)

\* The m entries of a and then the d entries of b.
Join(a, m, b, d) == [i \in 1..(m + d) |-> IF i <= m THEN a[i] ELSE b[i - m]]

\* Concatenation, place by place.
LEMMA Joined ==
    ASSUME NEW m, NEW d, NEW a, NEW b, IsList(a, m), IsList(b, d)
    PROVE  a \o b = Join(a, m, b, d)
<1> DEFINE U == {a[i] : i \in 1..m} \cup {b[i] : i \in 1..d}
<1>0. m \in Nat /\ d \in Nat
  BY DEF IsList
<1>1. a \in [1..m -> U] /\ b \in [1..d -> U]
  <2>1. \A i \in 1..m : a[i] \in U
    OBVIOUS
  <2>2. \A i \in 1..d : b[i] \in U
    OBVIOUS
  <2> HIDE DEF U
  <2> QED
    BY <2>1, <2>2 DEF IsList
<1> HIDE DEF U
<1>2. a \in Seq(U) /\ Len(a) = m
  BY <1>0, <1>1, SMTT(30), SMTT(60)
<1>3. b \in Seq(U) /\ Len(b) = d
  BY <1>0, <1>1, SMTT(30), SMTT(60)
<1>4. PICK c : c = a \o b
  OBVIOUS
<1>5. DOMAIN c = 1..(m + d) /\ c \in Seq(U)
  BY <1>2, <1>3, <1>4, SMTT(30), SMTT(60)
<1>6. ASSUME NEW i \in 1..(m + d) PROVE c[i] = IF i <= m THEN a[i] ELSE b[i - m]
  <2>1. CASE i <= m
    <3>1. c[i] = a[i]
      BY <1>0, <1>2, <1>3, <1>4, <2>1, SMTT(30), SMTT(60)
    <3> QED
      BY <2>1, <3>1
  <2>2. CASE ~(i <= m)
    <3>1. i \in (m + 1)..(m + d)
      BY <1>0, <2>2, SMTT(30), SMTT(60)
    <3>2. \A v \in (Len(a) + 1)..(Len(a) + Len(b)) : (a \o b)[v] = b[v - Len(a)]
      BY <1>2, <1>3, JoinedRight, ZenonT(60)
    <3>3. c[i] = b[i - m]
      BY <1>2, <1>3, <1>4, <3>1, <3>2
    <3> QED
      BY <2>2, <3>3
  <2> QED
    BY <2>1, <2>2
<1>7. c = [i \in 1..(m + d) |-> c[i]]
  BY <1>5, SMTT(30), SMTT(60)
<1> QED
  BY <1>4, <1>6, <1>7 DEF Join

\* Elements above all the others are selected behind them.
LEMMA SelectedMore ==
    ASSUME NumberFacts, NEW n, NEW S, NEW m, NEW g, Enumerates(g, m, S, n),
           NEW d, NEW q, ListsAbove(q, d, S, n),
           NEW f, NEW f2, Agree(f, f2, S)
    PROVE  Selected(S \cup {q[i] : i \in 1..d}, n, f2) = Selected(S, n, f) \o Along(f2, q, d)
<1>a. n \in Nat /\ S \in SUBSET (1..n) /\ m \in Nat
  BY DEF Enumerates
<1>b. /\ d \in Nat /\ q \in [1..d -> 1..n]
      /\ \A i, j \in 1..d : i < j => q[i] < q[j]
      /\ \A i \in 1..d : \A x \in S : x < q[i]
      /\ \A x \in S : f2[x] = f[x]
  BY DEF ListsAbove, Agree
<1>c. PICK T : T = S \cup {q[i] : i \in 1..d}
  OBVIOUS
<1> USE <1>a, <1>b, <1>c
<1> DEFINE g2 == [i \in 1..(m + d) |-> IF i <= m THEN g[i] ELSE q[i - m]]
<1>1. \A i \in 1..m : g[i] \in S /\ g[i] \in Nat
  <2>1. \A i \in 1..m : g[i] \in S
    BY DEF Enumerates
  <2>2. \A x \in S : x \in Nat
    BY SMTT(30), SMTT(60)
  <2> QED
    BY <2>1, <2>2
<1>2. \A i \in 1..d : q[i] \in T /\ q[i] \in Nat
  BY SMTT(30), SMTT(60)
<1>3. ASSUME NEW i \in 1..(m + d) PROVE g2[i] \in T
  <2>1. CASE i <= m
    BY <1>1, <2>1, SMTT(30), SMTT(60)
  <2>2. CASE ~(i <= m)
    <3>1. i - m \in 1..d
      BY <2>2, SMTT(30), SMTT(60)
    <3> QED
      BY <1>2, <2>2, <3>1
  <2> QED
    BY <2>1, <2>2
<1>4. ASSUME NEW i \in 1..(m + d), NEW j \in 1..(m + d), i < j PROVE g2[i] < g2[j]
  <2>1. CASE j <= m
    <3>1. i \in 1..m /\ j \in 1..m /\ g2[i] = g[i] /\ g2[j] = g[j]
      BY <1>4, <2>1, SMTT(30), SMTT(60)
    <3> QED
      BY <1>4, <3>1 DEF Enumerates
  <2>2. CASE i <= m /\ ~(j <= m)
    <3>1. i \in 1..m /\ j - m \in 1..d /\ g2[i] = g[i] /\ g2[j] = q[j - m]
      BY <2>2, SMTT(30), SMTT(60)
    <3>2. g[i] \in S
      BY <1>1, <3>1
    <3> QED
      BY <3>1, <3>2
  <2>3. CASE ~(i <= m)
    <3>1. i - m \in 1..d /\ j - m \in 1..d /\ i - m < j - m /\ g2[i] = q[i - m] /\ g2[j] = q[j - m]
      BY <1>4, <2>3, SMTT(30), SMTT(60)
    <3> QED
      BY <3>1
  <2> QED
    BY <2>1, <2>2, <2>3
<1>5. ASSUME NEW x \in T PROVE \E i \in 1..(m + d) : g2[i] = x
  <2>1. CASE x \in S
    <3>1. PICK i \in 1..m : g[i] = x
      BY <2>1 DEF Enumerates
    <3>2. i \in 1..(m + d) /\ g2[i] = x
      BY <3>1, SMTT(30), SMTT(60)
    <3> QED
      BY <3>2
  <2>2. CASE x \notin S
    <3>1. PICK i \in 1..d : q[i] = x
      BY <2>2
    <3>2. m + i \in 1..(m + d) /\ ~(m + i <= m) /\ m + i - m = i
      BY SMTT(30), SMTT(60)
    <3>3. g2[m + i] = x
      BY <3>1, <3>2, SMTT(30), SMTT(60)
    <3> QED
      BY <3>2, <3>3
  <2> QED
    BY <2>1, <2>2
<1>6. T \in SUBSET (1..n) /\ m + d \in Nat
  <2>1. \A i \in 1..d : q[i] \in 1..n
    OBVIOUS
  <2>2. T \in SUBSET (1..n)
    BY <2>1
  <2> QED
    BY <2>2, SMTT(30), SMTT(60)
<1>7. Enumerates(g2, m + d, T, n)
  <2>1. g2 \in [1..(m + d) -> T]
    BY <1>3
  <2> HIDE DEF g2
  <2> QED
    BY <1>4, <1>5, <1>6, <2>1 DEF Enumerates
<1>8. Selected(T, n, f2) = Along(f2, g2, m + d)
  <2> HIDE DEF g2
  <2> QED
    BY <1>7, SelectedAlong, SMTT(30), SMTT(60)
<1>9. Selected(S, n, f) = Along(f, g, m)
  BY SelectedAlong, SMTT(30), SMTT(60)
<1>10. ASSUME NEW i \in 1..(m + d)
       PROVE  f2[g2[i]] = IF i <= m THEN f[g[i]] ELSE f2[q[i - m]]
  <2>1. CASE i <= m
    <3>1. g2[i] = g[i] /\ g[i] \in S
      BY <1>1, <2>1, SMTT(30), SMTT(60)
    <3> QED
      BY <2>1, <3>1
  <2>2. CASE ~(i <= m)
    BY <2>2
  <2> QED
    BY <2>1, <2>2
<1>11. Along(f, g, m) \o Along(f2, q, d)
           = [i \in 1..(m + d) |-> IF i <= m THEN f[g[i]] ELSE f2[q[i - m]]]
  <2>1. PICK a, b : a = Along(f, g, m) /\ b = Along(f2, q, d)
    OBVIOUS
  <2>0. IsList(a, m) /\ IsList(b, d)
    BY <2>1 DEF Along, IsList, Enumerates
  <2>2. \A i \in 1..m : a[i] = f[g[i]]
    BY <2>1 DEF Along
  <2>3. \A i \in 1..d : b[i] = f2[q[i]]
    BY <2>1 DEF Along
  <2>4. a \o b = Join(a, m, b, d)
    BY <2>0, Joined
  <2>5. ASSUME NEW i \in 1..(m + d)
        PROVE  (IF i <= m THEN a[i] ELSE b[i - m]) = IF i <= m THEN f[g[i]] ELSE f2[q[i - m]]
    <3>1. i <= m => i \in 1..m
      BY SMTT(30), SMTT(60)
    <3>2. ~(i <= m) => i - m \in 1..d
      BY SMTT(30), SMTT(60)
    <3> QED
      BY <2>2, <2>3, <3>1, <3>2
  <2> QED
    BY <2>1, <2>4, <2>5 DEF Join
<1> HIDE DEF g2
<1> QED
  BY <1>8, <1>9, <1>10, <1>11, ZenonT(60) DEF Along

\* Listing fewer places gives a prefix.
LEMMA AlongPrefix ==
    ASSUME NEW f, NEW g, NEW m \in Nat, NEW k \in 0..m
    PROVE  /\ Len(Along(f, g, k)) = k /\ Len(Along(f, g, m)) = m
           /\ SubSeq(Along(f, g, m), 1, k) = Along(f, g, k)
<1>1. \A n \in Nat : Len(Along(f, g, n)) = n /\ DOMAIN Along(f, g, n) = 1..n
  BY SMTT(30), SMTT(60) DEF Along
<1>2. SubSeq(Along(f, g, m), 1, k) = [i \in 1..k |-> Along(f, g, m)[i]]
  <2>1. PICK l : l = Along(f, g, m) /\ l = [i \in 1..m |-> f[g[i]]]
    BY DEF Along
  <2> DEFINE U == {f[g[i]] : i \in 1..m}
  <2>2. l \in [1..m -> U]
    <3>1. \A i \in 1..m : f[g[i]] \in U
      OBVIOUS
    <3> HIDE DEF U
    <3> QED
      BY <2>1, <3>1
  <2> HIDE DEF U
  <2>3. l \in Seq(U) /\ Len(l) = m
    BY <2>2, SMTT(30), SMTT(60)
  <2>4. SubSeq(l, 1, k) = [i \in 1..k |-> l[i]]
    BY <2>3, SMTT(30), SMTT(60)
  <2> QED
    BY <2>1, <2>4
<1>3. \A i \in 1..k : Along(f, g, m)[i] = f[g[i]]
  BY SMTT(30), SMTT(60) DEF Along
<1> QED
  BY <1>1, <1>2, <1>3, SMTT(30), SMTT(60) DEF Along

\* An enumeration can be cut anywhere.
LEMMA EnumerationCut ==
    ASSUME NumberFacts, NEW n, NEW S, NEW m, NEW g, Enumerates(g, m, S, n), NEW p \in Nat
    PROVE  \E k \in 0..m : IsCut(g, m, p, k)
<1>1. m \in Nat /\ \A i, j \in 1..m : i < j => g[i] < g[j]
  BY DEF Enumerates
<1>2. g \in [1..m -> Nat]
  <2>1. g \in [1..m -> S] /\ \A i \in 1..m : g[i] \in Nat
    BY EnumerationFacts DEF Enumerates
  <2> QED
    BY <2>1
<1> QED
  BY <1>1, <1>2, CutAt

\* Only one increasing list has a given set of elements.
LEMMA OneEnumeration ==
    ASSUME NumberFacts, NEW S, NEW n, NEW m, NEW g, Enumerates(g, m, S, n), NEW k, NEW e, Enumerates(e, k, S, n)
    PROVE  m = k /\ \A i \in 1..m : g[i] = e[i]
<1> DEFINE id == [x \in S |-> x]
<1>1. Along(id, g, m) = Along(id, e, k)
  <2> HIDE DEF id
  <2>1. Selected(S, n, id) = Along(id, g, m)
    BY SelectedAlong, SMTT(30), SMTT(60)
  <2>2. Selected(S, n, id) = Along(id, e, k)
    BY SelectedAlong, SMTT(30), SMTT(60)
  <2> QED
    BY <2>1, <2>2
<1>2. m \in Nat /\ k \in Nat
  BY DEF Enumerates
<1>3. m = k
  <2>1. Len(Along(id, g, m)) = m /\ Len(Along(id, e, k)) = k
    <3> HIDE DEF id
    <3>1. m \in 0..m /\ k \in 0..k
      BY <1>2, SMTT(30), SMTT(60)
    <3> QED
      BY <1>2, <3>1, AlongPrefix, ZenonT(60)
  <2> QED
    BY <1>1, <2>1
<1>4. ASSUME NEW i \in 1..m PROVE g[i] = e[i]
  <2>1. Along(id, g, m)[i] = id[g[i]] /\ Along(id, e, k)[i] = id[e[i]]
    BY <1>3 DEF Along
  <2>2. g[i] \in S /\ e[i] \in S
    BY <1>3 DEF Enumerates
  <2> QED
    BY <1>1, <2>1, <2>2
<1> QED
  BY <1>3, <1>4

\* ORDER BY returns that list.
LEMMA InOrderIs ==
    ASSUME NumberFacts, NEW S, NEW n, NEW k, NEW e, Enumerates(e, k, S, n)
    PROVE  /\ Len(InOrder(S)) = k
           /\ DOMAIN InOrder(S) = 1..k
           /\ \A i \in 1..k : InOrder(S)[i] = e[i]
<1>1. n \in Nat /\ S \in SUBSET (1..n)
  BY DEF Enumerates
<1>2. S \in SUBSET Nat /\ \A y \in S : y <= n
  BY <1>1, SMTT(30), SMTT(60)
<1>3. /\ Cardinality(S) \in Nat
      /\ InOrder(S) \in Seq(S) /\ Len(InOrder(S)) = Cardinality(S)
      /\ \A i, j \in 1..Cardinality(S) : i < j => InOrder(S)[i] < InOrder(S)[j]
  BY <1>1, <1>2, ListedInOrder
<1>4. \A x \in S : \E i \in 1..Cardinality(S) : InOrder(S)[i] = x
  BY <1>1, <1>2, AllInOrder
<1>5. InOrder(S) \in [1..Cardinality(S) -> S] /\ DOMAIN InOrder(S) = 1..Cardinality(S)
  BY <1>3, SMTT(30), SMTT(60)
<1>6. Enumerates(InOrder(S), Cardinality(S), S, n)
  BY <1>1, <1>3, <1>4, <1>5 DEF Enumerates
<1>7. Cardinality(S) = k /\ \A i \in 1..Cardinality(S) : InOrder(S)[i] = e[i]
  BY <1>6, OneEnumeration, SMTT(30), SMTT(60)
<1> QED
  BY <1>3, <1>5, <1>7


\* The facts about enumerations follow from those about numbers.
LEMMA ListingFollows == NumberFacts => ListingFacts
<1> SUFFICES ASSUME NumberFacts PROVE ListingFacts
  OBVIOUS
<1>1. EnumerationsIncrease
  BY EnumerationFacts, SMTT(30), SMTT(60) DEF EnumerationsIncrease
<1>2. SetsEnumerate
  BY EnumerationExists DEF SetsEnumerate
<1>3. InOrderEnumerates
  BY InOrderIs DEF InOrderEnumerates
<1>4. EnumerationsCut
  BY EnumerationCut DEF EnumerationsCut
<1>5. SelectedIsAlong
  BY SelectedAlong, SMTT(30), SMTT(60) DEF SelectedIsAlong
<1>6. SelectedIsPrefix
  <2> SUFFICES ASSUME NEW n, NEW m, NEW p, NEW S, NEW g, NEW k, NEW T, NEW f, NEW f2,
                      Below(n, m, p, S, g, k, T), Agree(f, f2, T)
               PROVE  Selected(T, n, f2) = Along(f, g, k)
    BY SMTT(30), SMTT(60) DEF SelectedIsPrefix
  <2> QED
    BY SelectedBelow, SMTT(30), SMTT(60)
<1>7. SelectedIsBehind
  BY SelectedMore, SMTT(30), SMTT(60) DEF SelectedIsBehind
<1>8. AlongIsPrefix
  BY AlongPrefix DEF AlongIsPrefix
<1> QED
  BY <1>1, <1>2, <1>3, <1>4, <1>5, <1>6, <1>7, <1>8 DEF ListingFacts

-------------------------------------------------------------------------------
(* Numbers *)

INSTANCE FiniteSetTheorems
INSTANCE WellFoundedInduction

\* A non-empty set of numbers has a smallest element, and Smallest returns it
\* (the constraint operation Append executes next is well defined).
LEMMA SmallestIn ==
    ASSUME NEW S \in SUBSET Nat, S # {}
    PROVE  Smallest(S) \in S /\ \A y \in S : Smallest(S) <= y
<1>1. PICK x \in S : \A y \in S : ~ (<<y, x>> \in OpToRel(<, Nat))
  BY WFMin, NatLessThanWellFounded
<1>2. ASSUME NEW y \in S, y < x
      PROVE  <<y, x>> \in OpToRel(<, Nat)
  BY <1>2 DEF OpToRel
<1>3. \A y \in S : x <= y
  <2>1. \A y \in S : ~ (y < x)
    BY <1>1, <1>2
  <2> QED
    BY <2>1, SMTT(30), SMTT(60)
<1> QED
  BY <1>3 DEF Smallest

\* A non-empty bounded set of numbers has a largest element, and Largest
\* returns it (the last version Load folds, the last position of a page).
LEMMA LargestIn ==
    ASSUME NEW S \in SUBSET Nat, S # {}, NEW n \in Nat, \A y \in S : y <= n
    PROVE  Largest(S) \in S /\ \A y \in S : y <= Largest(S)
<1> DEFINE T == {m \in Nat : \E x \in S : x + m = n}
<1>1. T # {}
  <2>1. PICK x \in S : TRUE
    OBVIOUS
  <2>2. n - x \in Nat /\ x + (n - x) = n
    BY <2>1, SMTT(30), SMTT(60)
  <2> QED
    BY <2>1, <2>2
<1>2. Smallest(T) \in T /\ \A m \in T : Smallest(T) <= m
  <2>1. T \in SUBSET Nat
    OBVIOUS
  <2> HIDE DEF T
  <2> QED
    BY <1>1, <2>1, SmallestIn
<1>3. PICK x \in S : x + Smallest(T) = n
  BY <1>2
<1>4. ASSUME NEW y \in S
      PROVE  y <= x
  <2>1. n - y \in T
    BY <1>4, SMTT(30), SMTT(60)
  <2>2. Smallest(T) <= n - y /\ Smallest(T) \in Nat
    BY <1>2, <2>1
  <2> HIDE DEF T
  <2> QED
    BY <1>3, <2>2, SMTT(30), SMTT(60)
<1> QED
  BY <1>4 DEF Largest

\* The largest element of an interval is its upper end.
LEMMA LargestInterval ==
    ASSUME NEW a \in Nat, NEW b \in Nat, a <= b
    PROVE  Largest(a..b) = b
BY SMTT(30), SMTT(60) DEF Largest

\* In an interval the place of an element is its distance from the lower end.
LEMMA RankInterval ==
    ASSUME NEW a \in Nat, NEW b \in Nat, NEW x \in (a + 1)..b
    PROVE  Rank((a + 1)..b, x) = x - a
<1>1. {y \in (a + 1)..b : y <= x} = (a + 1)..x
  BY SMTT(30), SMTT(60)
<1>2. Cardinality((a + 1)..x) = x - a
  BY FS_Interval, SMTT(30), SMTT(60)
<1> QED
  BY <1>1, <1>2 DEF Rank

\* ORDER BY over an interval counts upwards from its lower end: the tail that
\* ReadStream returns is events[version+1], events[version+2], ...
LEMMA InOrderInterval ==
    ASSUME NEW a \in Nat, NEW b \in Nat, a <= b
    PROVE  /\ Cardinality((a + 1)..b) = b - a
           /\ InOrder((a + 1)..b) = [i \in 1..(b - a) |-> a + i]
<1>1. Cardinality((a + 1)..b) = b - a
  <2>1. Cardinality((a + 1)..b) = IF a + 1 > b THEN 0 ELSE b - (a + 1) + 1
    <3>1. a + 1 \in Int /\ b \in Int
      BY SMTT(30), SMTT(60)
    <3> QED
      BY <3>1, FS_Interval
  <2> QED
    BY <2>1, SMTT(30), SMTT(60)
<1>2. ASSUME NEW i \in 1..(b - a)
      PROVE  (CHOOSE x \in (a + 1)..b : Rank((a + 1)..b, x) = i) = a + i
  <2>1. a + i \in (a + 1)..b
    BY SMTT(30), SMTT(60)
  <2>2. \A x \in (a + 1)..b : Rank((a + 1)..b, x) = i <=> x = a + i
    BY RankInterval, SMTT(30), SMTT(60)
  <2> QED
    BY <2>1, <2>2
<1> QED
  BY <1>1, <1>2 DEF InOrder

\* LIMIT keeps a lower set: whatever precedes an element that made it into the
\* page is in the page too.
LEMMA FirstOfClosed ==
    ASSUME NEW S \in SUBSET Nat, IsFiniteSet(S), NEW n \in Nat,
           NEW x \in FirstOf(S, n), NEW y \in S, y <= x
    PROVE  y \in FirstOf(S, n)
<1> DEFINE A == {z \in S : z <= y}
           B == {z \in S : z <= x}
<1>1. IsFiniteSet(B) /\ IsFiniteSet(A)
  BY FS_Subset
<1>2. A \in SUBSET B
  <2>1. x \in Nat /\ y \in Nat /\ \A z \in S : z \in Nat
    BY DEF FirstOf
  <2>2. \A z \in S : z <= y => z <= x
    BY <2>1, SMTT(30), SMTT(60)
  <2> QED
    BY <2>2
<1>3. Cardinality(A) <= Cardinality(B) /\ Cardinality(A) \in Nat /\ Cardinality(B) \in Nat
  BY <1>1, <1>2, FS_Subset, FS_CardinalityType
<1>4. Cardinality(B) <= n
  BY DEF FirstOf, Rank
<1> QED
  BY <1>3, <1>4, SMTT(30), SMTT(60) DEF FirstOf, Rank

\* A rank is a number, at most that of the elements.
LEMMA RankType ==
    ASSUME NEW S \in SUBSET Nat, IsFiniteSet(S), NEW x
    PROVE  Rank(S, x) \in Nat /\ Rank(S, x) <= Cardinality(S)
<1>1. {y \in S : y <= x} \in SUBSET S
  OBVIOUS
<1> QED
  BY <1>1, FS_Subset, FS_CardinalityType DEF Rank

\* Ranks are in the order of the numbers.
LEMMA RankMonotone ==
    ASSUME NEW S \in SUBSET Nat, IsFiniteSet(S), NEW x \in Nat, NEW y \in Nat, y <= x
    PROVE  Rank(S, y) <= Rank(S, x)
<1> DEFINE A == {z \in S : z <= y}
           B == {z \in S : z <= x}
<1>1. IsFiniteSet(B)
  BY FS_Subset
<1>2. A \in SUBSET B
  <2>1. \A z \in S : z \in Nat
    OBVIOUS
  <2>2. \A z \in S : z <= y => z <= x
    BY <2>1, SMTT(30), SMTT(60)
  <2> QED
    BY <2>2
<1>3. Cardinality(A) <= Cardinality(B)
  BY <1>1, <1>2, FS_Subset
<1> QED
  BY <1>3 DEF Rank

\* Every place is taken: of the elements with rank i or more the smallest has rank i.
LEMMA RankTaken ==
    ASSUME NEW S \in SUBSET Nat, NEW n \in Nat, \A y \in S : y <= n,
           NEW i \in 1..Cardinality(S)
    PROVE  \E x \in S : Rank(S, x) = i
<1> DEFINE T == {x \in S : Rank(S, x) >= i}
<1>0. IsFiniteSet(S) /\ Cardinality(S) \in Nat /\ \A y \in S : y \in Nat
  BY FS_BoundedSetOfNaturals, FS_CardinalityType
<1>1. T # {}
  <2>1. S # {}
    BY <1>0, FS_EmptySet, SMTT(30), SMTT(60)
  <2>2. Largest(S) \in S /\ \A y \in S : y <= Largest(S)
    BY <2>1, LargestIn
  <2>3. {y \in S : y <= Largest(S)} = S
    BY <2>2
  <2>4. Rank(S, Largest(S)) = Cardinality(S)
    BY <2>3 DEF Rank
  <2> QED
    BY <1>0, <2>2, <2>4, SMTT(30), SMTT(60)
<1> DEFINE x == Smallest(T)
<1>2. x \in T /\ \A y \in T : x <= y
  <2>1. T \in SUBSET Nat
    OBVIOUS
  <2> HIDE DEF T
  <2> QED
    BY <1>1, <2>1, SmallestIn
<1>3. x \in S /\ x \in Nat /\ Rank(S, x) >= i
  BY <1>2
<1> HIDE DEF x
<1> DEFINE B == {y \in S : y < x}
<1>4. Rank(S, x) = Cardinality(B) + 1 /\ Cardinality(B) \in Nat /\ IsFiniteSet(B)
  <2>1. IsFiniteSet(B) /\ x \notin B
    BY <1>0, <1>3, FS_Subset, SMTT(30), SMTT(60)
  <2>2. {y \in S : y <= x} = B \cup {x}
    <3>1. \A y \in S : y <= x <=> y < x \/ y = x
      BY <1>0, <1>3, SMTT(30), SMTT(60)
    <3> QED
      BY <1>3, <3>1
  <2>3. Cardinality(B \cup {x}) = Cardinality(B) + 1
    BY <2>1, FS_AddElement
  <2> QED
    BY <2>1, <2>2, <2>3, FS_CardinalityType DEF Rank
<1>5. CASE B = {}
  <2>1. Rank(S, x) = 1
    BY <1>4, <1>5, FS_EmptySet, SMTT(30), SMTT(60)
  <2> QED
    BY <1>3, <2>1, SMTT(30), SMTT(60)
<1>6. CASE B # {}
  <2> DEFINE m == Largest(B)
  <2>1. m \in B /\ \A y \in B : y <= m
    <3>1. B \in SUBSET Nat
      OBVIOUS
    <3>2. \A y \in S : y < x => y <= x
      BY <1>0, <1>3, SMTT(30), SMTT(60)
    <3>3. \A y \in B : y <= x
      BY <3>2
    <3> HIDE DEF B
    <3> QED
      BY <1>3, <1>6, <3>1, <3>3, LargestIn
  <2>2. m \in S /\ m < x /\ m \in Nat
    BY <2>1
  <2>3. {y \in S : y <= m} = B
    <3> HIDE DEF m
    <3>1. \A y \in S : y < x => y <= m
      BY <2>1
    <3>2. \A y \in S : y <= m => y < x
      BY <1>0, <1>3, <2>2, SMTT(30), SMTT(60)
    <3> QED
      BY <3>1, <3>2
  <2>4. Rank(S, m) = Cardinality(B)
    BY <2>3 DEF Rank
  <2>5. ~ (Rank(S, m) >= i)
    <3> HIDE DEF m
    <3> QED
      BY <1>2, <1>3, <2>2, SMTT(30), SMTT(60)
  <2> QED
    BY <1>3, <1>4, <2>4, <2>5, SMTT(30), SMTT(60)
<1> QED
  BY <1>5, <1>6

\* ORDER BY lists the elements of a finite set, in increasing order.
LEMMA InOrderLists ==
    ASSUME NEW S \in SUBSET Nat, NEW n \in Nat, \A y \in S : y <= n
    PROVE  /\ Cardinality(S) \in Nat
           /\ InOrder(S) \in Seq(S) /\ Len(InOrder(S)) = Cardinality(S)
           /\ \A i, j \in 1..Cardinality(S) : i < j => InOrder(S)[i] < InOrder(S)[j]
<1>0. IsFiniteSet(S) /\ Cardinality(S) \in Nat
  BY FS_BoundedSetOfNaturals, FS_CardinalityType
<1>1. ASSUME NEW i \in 1..Cardinality(S)
      PROVE  InOrder(S)[i] \in S /\ Rank(S, InOrder(S)[i]) = i
  <2>1. \E x \in S : Rank(S, x) = i
    BY RankTaken
  <2> QED
    BY <2>1 DEF InOrder
<1>2. InOrder(S) \in [1..Cardinality(S) -> S]
  <2>1. InOrder(S) = [i \in 1..Cardinality(S) |-> InOrder(S)[i]]
    BY SMTT(30), SMTT(60) DEF InOrder
  <2> QED
    BY <1>1, <2>1
<1>3. ASSUME NEW i \in 1..Cardinality(S), NEW j \in 1..Cardinality(S), i < j
      PROVE  InOrder(S)[i] < InOrder(S)[j]
  <2>1. InOrder(S)[i] \in Nat /\ InOrder(S)[j] \in Nat
    BY <1>1
  <2>2. InOrder(S)[j] <= InOrder(S)[i] => j <= i
    BY <1>0, <1>1, <2>1, RankMonotone
  <2> QED
    BY <1>3, <2>1, <2>2, SMTT(30), SMTT(60)
<1> QED
  BY <1>0, <1>2, <1>3, SMTT(30), SMTT(60)

\* ORDER BY leaves nothing out.
LEMMA InOrderAll ==
    ASSUME NEW S \in SUBSET Nat, NEW n \in Nat, \A y \in S : y <= n, NEW x \in S
    PROVE  \E i \in 1..Cardinality(S) : InOrder(S)[i] = x
<1> DEFINE N == 1..Cardinality(S)
<1>0. IsFiniteSet(S) /\ Cardinality(S) \in Nat
  BY FS_BoundedSetOfNaturals, FS_CardinalityType
<1>1. /\ InOrder(S) \in [N -> S]
      /\ \A i, j \in N : i < j => InOrder(S)[i] < InOrder(S)[j]
  <2>1. /\ InOrder(S) \in Seq(S) /\ Len(InOrder(S)) = Cardinality(S)
        /\ \A i, j \in 1..Cardinality(S) : i < j => InOrder(S)[i] < InOrder(S)[j]
    BY InOrderLists
  <2>2. InOrder(S) \in [1..Len(InOrder(S)) -> S]
    BY <2>1, SMTT(30), SMTT(60)
  <2> QED
    BY <2>1, <2>2
<1>2. ASSUME NEW i \in N, NEW j \in N, InOrder(S)[i] = InOrder(S)[j]
      PROVE  i = j
  <2>1. InOrder(S)[i] \in Nat
    BY <1>1
  <2> QED
    BY <1>0, <1>1, <1>2, <2>1, SMTT(30), SMTT(60)
<1>3. IsFiniteSet(N) /\ Cardinality(N) = Cardinality(S)
  BY <1>0, FS_Interval, SMTT(30), SMTT(60)
<1>4. InOrder(S) \in Injection(N, S)
  BY <1>1, <1>2 DEF Injection, IsInjective
<1>5. InOrder(S) \in Surjection(N, S)
  BY <1>0, <1>3, <1>4, FS_Injection
<1> QED
  BY <1>5 DEF Surjection

\* The facts about MIN, MAX, LIMIT and ORDER BY hold.
LEMMA NumbersHold == NumberFacts
<1>1. MinExists
  BY SmallestIn DEF MinExists
<1>2. MaxExists
  BY LargestIn DEF MaxExists
<1>3. LimitIsLower
  <2>1. ASSUME NEW n \in Nat, NEW k \in Nat, NEW S \in SUBSET (1..n),
               NEW x \in FirstOf(S, k), NEW y \in S, y <= x
        PROVE  y \in FirstOf(S, k)
    <3>1. S \in SUBSET Nat /\ \A z \in S : z <= n
      BY SMTT(30), SMTT(60)
    <3>2. IsFiniteSet(S)
      BY <3>1, FS_BoundedSetOfNaturals
    <3> QED
      BY <2>1, <3>1, <3>2, FirstOfClosed
  <2> QED
    BY <2>1 DEF LimitIsLower
<1>4. IntervalsInOrder
  BY InOrderInterval DEF IntervalsInOrder
<1>5. SetsInOrder
  <2>1. ASSUME NEW n \in Nat, NEW S \in SUBSET (1..n)
        PROVE  /\ Cardinality(S) \in Nat
               /\ InOrder(S) \in Seq(S) /\ Len(InOrder(S)) = Cardinality(S)
               /\ \A i, j \in 1..Cardinality(S) : i < j => InOrder(S)[i] < InOrder(S)[j]
               /\ \A x \in S : \E i \in 1..Cardinality(S) : InOrder(S)[i] = x
    <3>1. S \in SUBSET Nat /\ \A y \in S : y <= n
      BY SMTT(30), SMTT(60)
    <3>2. /\ Cardinality(S) \in Nat
          /\ InOrder(S) \in Seq(S) /\ Len(InOrder(S)) = Cardinality(S)
          /\ \A i, j \in 1..Cardinality(S) : i < j => InOrder(S)[i] < InOrder(S)[j]
      BY <3>1, InOrderLists
    <3>3. \A x \in S : \E i \in 1..Cardinality(S) : InOrder(S)[i] = x
      BY <3>1, InOrderAll
    <3> QED
      BY <3>2, <3>3
  <2> QED
    BY <2>1 DEF SetsInOrder
<1> QED
  BY <1>1, <1>2, <1>3, <1>4, <1>5 DEF NumberFacts

\* What the other modules assume of the operators holds.
THEOREM OrderingHolds == OrderingFacts
BY NumbersHold, ListingFollows DEF OrderingFacts
===============================================================================
