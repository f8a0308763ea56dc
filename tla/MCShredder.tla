------------------------------ MODULE MCShredder ------------------------------
(* Small instances of Shredder for TLC. *)
EXTENDS Shredder, TLC

CONSTANTS t1, t2, p1, p2

\* One thread in each of two processes, or two threads of one process.
OneThreadEach == [t \in Threads |-> IF t = t1 THEN p1 ELSE p2]
OneProcess == [t \in Threads |-> p1]

\* All there is to call, with one retention worker; the calls that make keys; and
\* what an operator runs beside them.
OneWorker == t1 :> OpKinds @@ t2 :> OpKinds \ {"sweep"}
KeyUses == [t \in Threads |-> {"encrypt", "decrypt"}]
Operations == [t \in Threads |-> {"encrypt", "decrypt", "forget", "rewrap"}]
===============================================================================
