------------------------------ MODULE HashChain ------------------------------
(***************************************************************************)
(* Adopting the tamper-evident chain on a stream that already has events   *)
(* (es/chain.go): rows written before the migration have no hash, Append   *)
(* goes on writing, and RebuildStreamChain fills the missing hashes in,    *)
(* one UPDATE per row, from a copy of the stream it read at its start.     *)
(* Rebuilders, appends and each other's updates interleave.                *)
(***************************************************************************)
EXTENDS Naturals, Sequences

CONSTANTS
    Rebuilders,   \* concurrent RebuildStreamChain calls on the stream
    Data,         \* event contents
    Legacy,       \* number of rows written before the migration
    MaxRows,      \* bound on the length of the stream
    Null          \* the NULL hash column

ASSUME HashChainAssumption ==
    /\ Legacy \in Nat
    /\ MaxRows \in Nat
    /\ Legacy <= MaxRows
    /\ Null \notin Seq(Data)

VARIABLES
    rows, \* the stream: row v has version v
    rb    \* local variables of each RebuildStreamChain call

vars == <<rows, rb>>

\* ComputeChainHash, collision-free: a hash stands for the contents it covers.
Hash == Seq(Data)
ZeroHash == <<>>
ComputeChainHash(prev, data) == Append(prev, data)

Row == [data : Data, hash : Hash \cup {Null}]

Idle == [pc |-> "idle", envs |-> <<>>, next |-> 1, prev |-> ZeroHash]

Init ==
    /\ rows \in [1..Legacy -> [data : Data, hash : {Null}]]
    /\ rb = [r \in Rebuilders |-> Idle]

\* The chain part of Append: len(prevHash) == 0 covers both a new stream and a
\* predecessor whose hash is still NULL.
FirstHash ==  \* mutant: ORDER BY version without DESC
    IF rows = <<>> \/ rows[1].hash = Null THEN ZeroHash ELSE rows[1].hash
PrevHash ==
    IF rows = <<>> \/ rows[Len(rows)].hash = Null THEN ZeroHash ELSE rows[Len(rows)].hash

AppendEvent(data) ==
    /\ Len(rows) < MaxRows
    /\ rows' = Append(rows, [data |-> data, hash |-> ComputeChainHash(PrevHash, data)])
    /\ UNCHANGED rb

\* ReadStream: the call works on this copy from here on.
ReadStream(r) ==
    /\ rb[r].pc # "walk"
    /\ rb' = [rb EXCEPT ![r] = [Idle EXCEPT !.pc = "walk", !.envs = rows]]
    /\ UNCHANGED rows

Env(r) == rb[r].envs[rb[r].next]
Expected(r) == ComputeChainHash(rb[r].prev, Env(r).data)
WalkingShort(r) == rb[r].pc = "walk" /\ rb[r].next < Len(rb[r].envs)  \* mutant: < for <=
Walking(r) == rb[r].pc = "walk" /\ rb[r].next <= Len(rb[r].envs)
Stepped(r) == [rb[r] EXCEPT !.next = @ + 1, !.prev = Expected(r)]

\* BackfillEventHash updates the row only while its hash is NULL and fails if
\* it no longer is.
Backfill(r) ==
    /\ Walking(r)
    /\ Env(r).hash = Null
    /\ IF rows[rb[r].next].hash = Null
       THEN /\ rows' = [rows EXCEPT ![rb[r].next].hash = Expected(r)]
            /\ rb' = [rb EXCEPT ![r] = Stepped(r)]
       ELSE /\ rb' = [rb EXCEPT ![r].pc = "raced"]
            /\ UNCHANGED rows

\* equalHash.
AlwaysEqual(r) == TRUE  \* mutant: the comparison is missing
EqualHash(r) == Env(r).hash = Expected(r)

Verify(r) ==
    /\ Walking(r)
    /\ Env(r).hash # Null
    /\ rb' = [rb EXCEPT ![r] = IF EqualHash(r) THEN Stepped(r)
                                ELSE [@ EXCEPT !.pc = "broken"]]
    /\ UNCHANGED rows

Done(r) ==
    /\ rb[r].pc = "walk"
    /\ rb[r].next > Len(rb[r].envs)
    /\ rb' = [rb EXCEPT ![r].pc = "ok"]
    /\ UNCHANGED rows

\* The call is interrupted between two updates.
Interrupt(r) ==
    /\ rb[r].pc = "walk"
    /\ rb' = [rb EXCEPT ![r] = Idle]
    /\ UNCHANGED rows

RebuildStep(r) == ReadStream(r) \/ Backfill(r) \/ Verify(r) \/ Done(r)

Next ==
    \/ \E data \in Data : AppendEvent(data)
    \/ \E r \in Rebuilders : RebuildStep(r) \/ Interrupt(r)

Spec == Init /\ [][Next]_vars

\* Operators repeat an interrupted or raced rebuild; interruptions cease.
FairSpec ==
    /\ Spec
    /\ \A r \in Rebuilders : WF_vars(RebuildStep(r))
    /\ <>[][\A r \in Rebuilders : ~Interrupt(r)]_vars

-------------------------------------------------------------------------------
(* Properties *)

\* VerifyStreamChain on the first n rows.
Intact(n) ==
    \A v \in 1..n : rows[v].hash = ComputeChainHash(IF v = 1 THEN ZeroHash ELSE rows[v - 1].hash,
                                                    rows[v].data)

\* Type invariant.
TypeOK ==
    /\ rows \in Seq(Row)
    /\ rb \in [Rebuilders -> [pc : {"idle", "walk", "ok", "raced", "broken"}, envs : Seq(Row),
                              next : Nat, prev : Hash]]

\* A rebuild that returns without error leaves every row it read chained,
\* whatever was appended or backfilled by others meanwhile.
OkMeansIntact ==
    \A r \in Rebuilders : rb[r].pc = "ok" => Len(rb[r].envs) <= Len(rows) /\ Intact(Len(rb[r].envs))

\* "rows that already carry a non-NULL hash are NEVER overwritten".
HashesImmutable ==
    [][\A v \in DOMAIN rows : rows[v].hash # Null => v \in DOMAIN rows' /\ rows'[v] = rows[v]]_vars

\* Some row was appended behind one without a hash and starts a chain of its own.
Forked == \E v \in DOMAIN rows : v > 1 /\ rows[v].hash = ComputeChainHash(ZeroHash, rows[v].data)

\* Nothing here tampers with a row, so RebuildStreamChain reports ErrChainBroken
\* only if Append really left a second chain in the stream: neither a racing
\* rebuild nor one that was interrupted ever makes it look broken.
BrokenOnlyIfForked == \A r \in Rebuilders : rb[r].pc = "broken" => Forked

\* Unless an append forked the chain, repeated rebuilds end with the whole stream
\* chained, although concurrent rebuilds make each other fail.
ChainGetsRebuilt == <>[](Intact(Len(rows)) \/ Forked)
===============================================================================
