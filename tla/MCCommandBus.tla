----------------------------- MODULE MCCommandBus -----------------------------
(* Small instances of CommandBus for TLC. *)
EXTENDS CommandBus, TLC

SubOrder == <<"first", "second">>
Placed == <<"placed", "priced">>
Undone == <<"undone">>

Unregistered == [mode |-> "sync", policy |-> "drop", retries |-> 0, types |-> {}]
Saga == [mode |-> "sync", policy |-> "compensate", retries |-> 0, types |-> {"placed"}]
Index == [mode |-> "sync", policy |-> "dlq", retries |-> 1, types |-> {"priced", "undone"}]
Audit == [mode |-> "async", policy |-> "dlq", retries |-> 1, types |-> {"placed", "undone"}]
Cheap == [mode |-> "async", policy |-> "drop", retries |-> 0, types |-> {"undone"}]

Bus(d, a, s, t) ==
    [durable |-> d, asyncSend |-> a, sub |-> "first" :> s @@ "second" :> t]

\* A saga with a dead-lettering or an Async subscriber, durable; and inproc.
Buses ==
    {Bus(TRUE, TRUE, Saga, Index),
     Bus(TRUE, TRUE, Audit, Saga),
     Bus(TRUE, FALSE, Cheap, Saga),
     Bus(FALSE, FALSE, Index, [Index EXCEPT !.policy = "drop"]),
     Bus(FALSE, FALSE, Audit, Unregistered)}
===============================================================================
