---------------------------- MODULE MCEventStore ----------------------------
(* A small instance of EventStore for TLC. *)
EXTENDS EventStoreRefinement, TLC

CONSTANTS s1, s2, k1, w1, w2, f1

OneSchema == [w \in Writers |-> 1]

Perms == Permutations(Streams) \cup Permutations(Writers)

\* Claims and followers meet only in the events: a behaviour is about one of them.
UsesKeys ==
    \/ \E s \in Streams : \E v \in Versions(s) : IsConstraintOp(events[s][v].payload)
    \/ \E w \in Writers : h[w].ops # {}
KeysOrFollowers == UsesKeys => \A f \in Followers : cursor[f] = 0
=============================================================================
