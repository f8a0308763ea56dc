------------------------------- MODULE Decider -------------------------------
(***************************************************************************)
(* The application's decider as aggregate.Runtime uses it: Decide turns a  *)
(* state into events and constraint operations, Evolve folds an event into *)
(* a state, IsTerminal closes a stream.  The repository calls these and    *)
(* does not define them, so they are modelled as freely as possible:       *)
(*                                                                         *)
(*   - a state IS the sequence of payloads folded into it, so two states   *)
(*     are equal only if the same events were folded in the same order;    *)
(*   - Decide may return any batch that is legal in the state it is given. *)
(*                                                                         *)
(* A payload is plain data, the event that closes the stream, or an event  *)
(* that comes with one constraint operation (a claim or a release).        *)
(***************************************************************************)
EXTENDS Naturals, Sequences

CONSTANTS
    Streams,   \* (tenant, stream) pairs
    Keys,      \* (tenant, scope, value) triples that can be claimed
    MaxBatch,  \* bound on the events of one command
    None       \* the absent stream or key

ASSUME DeciderAssumption ==
    /\ MaxBatch \in Nat \ {0}
    /\ None \notin Streams
    /\ None \notin Keys

Payload ==
    [kind : {"data", "close"}, key : {None}]
        \cup [kind : {"claim", "release"}, key : Keys]

\* es.ConstraintOp: the payloads that carry an operation on a key.
IsConstraintOp(p) == p.kind \in {"claim", "release"}

\* The result of Evolve over a sequence of events, starting from state st.
Evolve(st, evs) == st \o evs

\* IsTerminal: the stream has been closed.
IsTerminal(st) == \E i \in DOMAIN st : st[i].kind = "close"

\* In state st the stream holds key k: it claimed k and has not released it since.
Holds(st, k) ==
    \E i \in DOMAIN st :
        /\ st[i] = [kind |-> "claim", key |-> k]
        /\ \A j \in DOMAIN st : j > i => st[j] # [kind |-> "release", key |-> k]

Batches == UNION {[1..n -> Payload] : n \in 1..MaxBatch}

(***************************************************************************)
(* The batches Decide may return in state st.  A well-behaved decider      *)
(* releases only keys its stream holds, because ReleaseUnique deletes the  *)
(* claim whoever owns it, and emits nothing after the closing event.       *)
(***************************************************************************)
Decide(st) ==
    {b \in Batches :
        \A i \in DOMAIN b :
            /\ b[i].kind = "release" => Holds(Evolve(st, SubSeq(b, 1, i - 1)), b[i].key)
            /\ b[i].kind = "close" => i = Len(b)}
===============================================================================
