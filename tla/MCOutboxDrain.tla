---------------------------- MODULE MCOutboxDrain ----------------------------
(* Small instances of OutboxDrain for TLC. *)
EXTENDS OutboxDrain, TLC

CONSTANTS x, y, d1, d2

\* Two shards, one drain each.
ShardPerStream == x :> 0 @@ y :> 1
ShardPerDrain == d1 :> 0 @@ d2 :> 1

Locked ==
    [locking |-> TRUE, sharded |-> FALSE, autoResume |-> FALSE, backoff |-> FALSE,
     batch |-> 2, faults |-> {}, events |-> 2]

\* Two replicas behind the lock, with operators and all faults, with a backoff, and
\* with batches of one row, which a quarantined stream fills; two replicas that skip
\* dead rows; and two shards.
Deployments ==
    {[Locked EXCEPT !.faults = {"crash", "error", "cancel", "operator"}],
     [Locked EXCEPT !.backoff = TRUE, !.faults = {"crash", "error", "cancel"}],
     [Locked EXCEPT !.batch = 1, !.faults = {"crash"}, !.events = 3],
     [Locked EXCEPT !.autoResume = TRUE, !.batch = 1, !.faults = {"operator"}],
     [Locked EXCEPT !.locking = FALSE, !.sharded = TRUE, !.batch = 1, !.events = 3]}
===============================================================================
