------------------------------- MODULE Listing --------------------------------
(***************************************************************************)
(* What the proofs about queries use of MIN, MAX, LIMIT, ORDER BY and      *)
(* Selected.  OrderingProofs proves OrderingFacts from the library's       *)
(* theorems on finite sets; a module about a component takes it as a       *)
(* hypothesis and discharges it at its end.                                *)
(***************************************************************************)
EXTENDS Ordering, Integers

\* A set of numbers has a smallest one.
MinExists ==
    \A S \in SUBSET Nat : S # {} => Smallest(S) \in S /\ \A y \in S : Smallest(S) <= y

\* A bounded set of numbers has a largest one.
MaxExists ==
    \A S \in SUBSET Nat : \A n \in Nat : S # {} /\ (\A y \in S : y <= n) =>
        Largest(S) \in S /\ \A y \in S : y <= Largest(S)

\* A page of rows has no gap: LIMIT takes the lowest.
LimitIsLower ==
    \A n, k \in Nat : \A S \in SUBSET (1..n) : \A x \in FirstOf(S, k) : \A y \in S :
        y <= x => y \in FirstOf(S, k)

\* Consecutive numbers in order.
IntervalsInOrder ==
    \A a, b \in Nat : a <= b =>
        /\ Cardinality((a + 1)..b) = b - a
        /\ InOrder((a + 1)..b) = [i \in 1..(b - a) |-> a + i]

\* A set of numbers in order: all of them, each once, increasing.
SetsInOrder ==
    \A n \in Nat : \A S \in SUBSET (1..n) :
        /\ Cardinality(S) \in Nat
        /\ InOrder(S) \in Seq(S) /\ Len(InOrder(S)) = Cardinality(S)
        /\ \A i, j \in 1..Cardinality(S) : i < j => InOrder(S)[i] < InOrder(S)[j]
        /\ \A x \in S : \E i \in 1..Cardinality(S) : InOrder(S)[i] = x

\* The facts about sets of numbers.
NumberFacts == MinExists /\ MaxExists /\ LimitIsLower /\ IntervalsInOrder /\ SetsInOrder

\* The first k places of the enumeration g (of length m) are those up to p.
IsCut(g, m, p, k) == (\A i \in 1..k : g[i] <= p) /\ (\A i \in (k + 1)..m : p < g[i])

\* g, of length m, lists the elements of S, a set of numbers up to n, in
\* increasing order.
Enumerates(g, m, S, n) ==
    /\ n \in Nat /\ m \in Nat
    /\ S \in SUBSET (1..n)
    /\ g \in [1..m -> S]
    /\ \A i, j \in 1..m : i < j => g[i] < g[j]
    /\ \A x \in S : \E i \in 1..m : g[i] = x

\* The values of f in the order of g.
Along(f, g, m) == [i \in 1..m |-> f[g[i]]]

\* q, of length d, lists numbers up to n in increasing order, all above S.
ListsAbove(q, d, S, n) ==
    /\ d \in Nat
    /\ q \in [1..d -> 1..n]
    /\ \A i, j \in 1..d : i < j => q[i] < q[j]
    /\ \A i \in 1..d : \A x \in S : x < q[i]

\* f and f2 are the same on S.
Agree(f, f2, S) == \A x \in S : f2[x] = f[x]

\* T is what the set S has up to p: the first k places of its enumeration g.
Below(n, m, p, S, g, k, T) ==
    /\ n \in Nat /\ m \in Nat /\ p \in Nat /\ S \in SUBSET (1..n)
    /\ Enumerates(g, m, S, n) /\ k \in 0..m /\ IsCut(g, m, p, k)
    /\ T = {x \in S : x <= p}

\* What an enumeration gives.
EnumerationsIncrease ==
    \A g, m, S, n : Enumerates(g, m, S, n) =>
        /\ m \in Nat /\ n \in Nat
        /\ \A x \in S : x \in Nat /\ \E i \in 1..m : g[i] = x
        /\ \A i \in 1..m : g[i] \in S /\ g[i] \in Nat
        /\ \A i, j \in 1..m : i < j => g[i] < g[j]
        /\ \A i, j \in 1..m : g[i] < g[j] => i < j
        /\ \A i, j \in 1..m : g[i] = g[j] => i = j

\* Every bounded set of numbers can be listed, and ORDER BY lists it.
SetsEnumerate ==
    \A n \in Nat : \A S \in SUBSET (1..n) :
        \E m \in Nat, g \in [1..Cardinality(S) -> S] : m = Cardinality(S) /\ Enumerates(g, m, S, n)

\* InOrder is the enumeration of a set.
InOrderEnumerates ==
    \A e, k, S, n : Enumerates(e, k, S, n) =>
        /\ Len(InOrder(S)) = k
        /\ DOMAIN InOrder(S) = 1..k
        /\ \A i \in 1..k : InOrder(S)[i] = e[i]

\* An enumeration can be cut anywhere.
EnumerationsCut ==
    \A g, m, S, n : \A p \in Nat : Enumerates(g, m, S, n) => \E k \in 0..m : IsCut(g, m, p, k)

\* Selected lists the values along any increasing enumeration of the set.
SelectedIsAlong ==
    \A g, m, S, n, f : Enumerates(g, m, S, n) => Selected(S, n, f) = Along(f, g, m)

\* What is selected from the elements up to p is a prefix of what is selected
\* from all of them.
SelectedIsPrefix ==
    \A n, m, p, S, g, k, T, f, f2 :
        Below(n, m, p, S, g, k, T) /\ Agree(f, f2, T) => Selected(T, n, f2) = Along(f, g, k)

\* Elements above all the others are selected behind them.
SelectedIsBehind ==
    \A g, m, S, n, q, d, f, f2 :
        Enumerates(g, m, S, n) /\ ListsAbove(q, d, S, n) /\ Agree(f, f2, S) =>
            Selected(S \cup {q[i] : i \in 1..d}, n, f2) = Selected(S, n, f) \o Along(f2, q, d)

\* Listing fewer places gives a prefix.
AlongIsPrefix ==
    \A f, g : \A m \in Nat : \A k \in 0..m :
        /\ Len(Along(f, g, k)) = k /\ Len(Along(f, g, m)) = m
        /\ SubSeq(Along(f, g, m), 1, k) = Along(f, g, k)

\* The facts about lists along an enumeration.
ListingFacts ==
    /\ EnumerationsIncrease /\ SetsEnumerate /\ InOrderEnumerates /\ EnumerationsCut
    /\ SelectedIsAlong /\ SelectedIsPrefix /\ SelectedIsBehind /\ AlongIsPrefix

\* All of them.
OrderingFacts == NumberFacts /\ ListingFacts
===============================================================================
