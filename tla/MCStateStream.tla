----------------------------- MODULE MCStateStream -----------------------------
(* Small instances of StateStream for TLC. *)
EXTENDS StateStream, TLC

CONSTANTS x, y, d1, d2

StreamShards == x :> 0 @@ y :> 1
Versions == x :> 2 @@ y :> 1
DrainShards == d1 :> 0 @@ d2 :> 1

\* Two replicas without a lock; two behind the lock, with a stream whose deliveries
\* fail and a batch with room for the other, or none; and two shards.
Deployments ==
    {[loop |-> FALSE, locking |-> FALSE, sharded |-> FALSE, batch |-> 1, failing |-> {}],
     [loop |-> TRUE, locking |-> TRUE, sharded |-> FALSE, batch |-> 2, failing |-> {y}],
     [loop |-> TRUE, locking |-> TRUE, sharded |-> FALSE, batch |-> 1, failing |-> {y}],
     [loop |-> TRUE, locking |-> FALSE, sharded |-> TRUE, batch |-> 2, failing |-> {y}],
     [loop |-> TRUE, locking |-> FALSE, sharded |-> TRUE, batch |-> 1, failing |-> {}]}
===============================================================================
