------------------------------- MODULE EventLog -------------------------------
(***************************************************************************)
(* What the event store promises its users, with no transactions, locks,   *)
(* caches or positions: commands take effect one at a time, each decided   *)
(* on the current state of its stream; every event lands at the end of one *)
(* global log; a follower always holds a prefix of that log.               *)
(***************************************************************************)
EXTENDS Decider, Ordering

CONSTANT Followers

VARIABLES
    log,     \* the committed events, oldest first
    owner,   \* which stream holds each key
    view     \* what each follower has been handed so far

vars == <<log, owner, view>>

\* The events of stream s among the entries l, folded in order.
FoldOf(s, l) ==
    Selected({i \in DOMAIN l : l[i].stream = s}, Len(l), [i \in DOMAIN l |-> l[i].payload])

\* The current state of stream s.
StateOf(s) == FoldOf(s, log)

\* The operations on key k among the first n events of batch b.
OpsOn(b, n, k) == {i \in 1..n : IsConstraintOp(b[i]) /\ b[i].key = k}

\* The owner of k once stream s has applied the first n operations of b.
OwnerAfter(s, b, n, k) ==
    LET ops == OpsOn(b, n, k)
    IN  IF ops = {} THEN owner[k]
        ELSE LET last == CHOOSE i \in ops : \A j \in ops : j <= i
             IN  IF b[last].kind = "claim" THEN s ELSE None

Init ==
    /\ log = <<>>
    /\ owner = [k \in Keys |-> None]
    /\ view = [f \in Followers |-> <<>>]

\* A command on an open stream s commits batch b as one step.
Handle(s, b) ==
    /\ log' = log \o [i \in DOMAIN b |-> [stream |-> s, payload |-> b[i]]]
    /\ ~IsTerminal(StateOf(s))
    /\ b \in Decide(StateOf(s))
    /\ \A i \in DOMAIN b : b[i].kind = "claim" => OwnerAfter(s, b, i - 1, b[i].key) = None
    /\ owner' = [k \in Keys |-> OwnerAfter(s, b, Len(b), k)]
    /\ UNCHANGED view

\* A follower is handed the next page: whatever it misses of a longer prefix.
Follow(f) ==
    /\ \E n \in (Len(view[f]) + 1)..Len(log) : view' = [view EXCEPT ![f] = SubSeq(log, 1, n)]
    /\ UNCHANGED <<log, owner>>

Next ==
    \/ \E f \in Followers : Follow(f)
    \/ \E s \in Streams : \E b \in Batches : Handle(s, b)

Spec == Init /\ [][Next]_vars
===============================================================================
