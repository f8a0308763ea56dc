------------------------------- MODULE Ordering -------------------------------
(***************************************************************************)
(* ORDER BY, MAX, MIN and LIMIT over a finite set of numbers.              *)
(***************************************************************************)
EXTENDS Naturals, FiniteSets, Sequences

\* MAX and MIN.
Largest(S) == CHOOSE x \in S : \A y \in S : y <= x
Smallest(S) == CHOOSE x \in S : \A y \in S : x <= y

\* The number of elements up to x: the place of x in increasing order.
Rank(S, x) == Cardinality({y \in S : y <= x})

\* ORDER BY x: the elements as an increasing sequence.
InOrder(S) == [i \in 1..Cardinality(S) |-> CHOOSE x \in S : Rank(S, x) = i]

\* ORDER BY x LIMIT n.
FirstOf(S, n) == {x \in S : Rank(S, x) <= n}

\* The values of f at the elements of S, a subset of 1..n, in increasing order.
Selected(S, n, f) ==
    LET upTo[p \in 0..n] ==
            IF p = 0 THEN <<>>
            ELSE IF p \in S THEN Append(upTo[p - 1], f[p]) ELSE upTo[p - 1]
    IN  upTo[n]
===============================================================================
