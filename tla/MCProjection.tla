----------------------------- MODULE MCProjection -----------------------------
(* Small instances of Projection for TLC. *)
EXTENDS Projection, TLC

CONSTANTS x, y

MyStreams == {x}

\* The three handlers, with and without the lock and dead letters.
Deployments ==
    {[handler |-> "plain", locking |-> FALSE, dlq |-> FALSE, batch |-> 2],
     [handler |-> "plain", locking |-> TRUE, dlq |-> TRUE, batch |-> 1],
     [handler |-> "dedup", locking |-> TRUE, dlq |-> TRUE, batch |-> 2],
     [handler |-> "dedup", locking |-> TRUE, dlq |-> FALSE, batch |-> 1],
     [handler |-> "linked", locking |-> FALSE, dlq |-> TRUE, batch |-> 1],
     [handler |-> "linked", locking |-> FALSE, dlq |-> FALSE, batch |-> 2]}

\* A read model kept by one locked runner, dead letters on.
ReadModel == {[handler |-> "plain", locking |-> TRUE, dlq |-> TRUE, batch |-> 2]}
===============================================================================
