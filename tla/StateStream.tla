------------------------------ MODULE StateStream ------------------------------
(***************************************************************************)
(* state_stream.Drain: several drains deliver the current state of each    *)
(* stream, out of state_cache, to one subscriber of one tenant, and keep a *)
(* position per stream.  Writers append, RebuildStateCache wipes and        *)
(* refills state_cache, an operator resets positions, drains crash and     *)
(* publishers fail.                                                        *)
(*                                                                         *)
(* A state is told apart by its version.                                   *)
(***************************************************************************)
EXTENDS Naturals, Sequences, FiniteSets, Ordering

CONSTANTS
    Streams,
    Drains,
    ShardOf,      \* the shard of each stream, if the drains are sharded
    DrainShard,   \* the Shard of each drain
    Configs,      \* the configurations to consider
    MaxVersion,   \* bound on the version of each stream
    MaxBatch,     \* bound on BatchSize
    Faults,       \* which faults happen, out of FaultKinds
    None

FaultKinds == {"crash", "error", "cancel", "rebuild", "reset"}

\* loop: Run rather than RunOnce; locking: LockKey is set and the store implements
\* ProjectionLocker; batch: BatchSize; failing: streams whose PublishState always
\* fails (a property of the subscriber, not a field of the Drain).
Config ==
    [loop : BOOLEAN, locking : BOOLEAN, sharded : BOOLEAN, batch : 1..MaxBatch,
     failing : SUBSET Streams]

ASSUME StateStreamAssumption ==
    /\ Configs \subseteq Config
    /\ MaxVersion \in [Streams -> Nat]
    /\ MaxBatch \in Nat
    /\ Faults \subseteq FaultKinds
    /\ None \notin Drains

VARIABLES
    conf,      \* the fields of the Drain, fixed when it is built
    head,      \* the version of each stream in the log
    cache,     \* the version in each stream's row of state_cache, 0 for no row
    order,     \* the streams with a row, by updated_at
    pos,       \* state_stream_subscribers.last_delivered_version, 0 for no row
    lock,      \* which drain's session holds the lock, or None
    leaked,    \* the lock is held by a session although Run returned
    drain,     \* the local variables of each drain's Run
    stored,    \* the version of each stream that the subscriber has
    rebuild    \* the local variables of RebuildStateCache

rows == <<head, cache, order>>
vars == <<conf, rows, pos, lock, leaked, drain, stored, rebuild>>

\* folded: the version of each stream that a rebuild has read; todo: rows to write.
Nowhere == [s \in Streams |-> 0]
NoRebuild == [pc |-> "off", folded |-> Nowhere, todo |-> {}]

Idle == [pc |-> "idle", batch |-> <<>>, progress |-> FALSE]

Init ==
    /\ conf \in Configs
    /\ head = Nowhere
    /\ cache = Nowhere
    /\ order = <<>>
    /\ pos = Nowhere
    /\ lock = None
    /\ leaked = FALSE
    /\ drain = [d \in Drains |-> Idle]
    /\ stored = Nowhere
    /\ rebuild = NoRebuild

\* UpsertStateCache: the row is the newest by updated_at.
Touched(s) ==
    LET others == InOrder({i \in DOMAIN order : order[i] # s})
    IN  order' = Append([i \in DOMAIN others |-> order[others[i]]], s)

\* Append, with the state cache on.
AppendEvent(s) ==
    /\ head[s] < MaxVersion[s]
    /\ head' = [head EXCEPT ![s] = @ + 1]
    /\ cache' = [cache EXCEPT ![s] = head[s] + 1]
    /\ Touched(s)
    /\ UNCHANGED <<conf, pos, lock, leaked, drain, stored, rebuild>>

-------------------------------------------------------------------------------
(* Run and RunOnce *)

\* acquireLock: one lock key for the subscriber and tenant, whatever the shard.
Start(d) ==
    /\ drain[d].pc = "idle"
    /\ \/ ~conf.locking /\ UNCHANGED lock
       \/ conf.locking /\ (lock = None \/ (lock = d /\ leaked)) /\ lock' = d
    /\ drain' = [drain EXCEPT ![d].pc = "list"]
    /\ UNCHANGED <<conf, rows, pos, leaked, stored, rebuild>>

\* ReleaseProjectionLock, deferred.
Return(d) ==
    /\ drain' = [drain EXCEPT ![d] = Idle]
    /\ lock' = IF lock = d /\ ~leaked THEN None ELSE lock

Behind(s) == cache[s] > pos[s]

InEveryShard(d, s) == TRUE  \* mutant: Shard is ignored
InShard(d, s) == ~conf.sharded \/ ShardOf[s] = DrainShard[d]

\* ListStreamsBehind: LIMIT comes before inShard.
Listed ==
    LET page == InOrder(FirstOf({i \in DOMAIN order : Behind(order[i])}, conf.batch))
    IN  [i \in DOMAIN page |-> [stream |-> order[page[i]], version |-> cache[order[page[i]]]]]

ListStreamsBehind(d) ==
    /\ drain[d].pc = "list"
    /\ Listed # <<>>
    /\ drain' = [drain EXCEPT ![d] = [pc |-> "publish", batch |-> Listed, progress |-> FALSE]]
    /\ UNCHANGED <<conf, rows, pos, lock, leaked, stored, rebuild>>

NothingBehind(d) ==
    /\ drain[d].pc = "list"
    /\ Listed = <<>>
    /\ Return(d)
    /\ UNCHANGED <<conf, rows, pos, leaked, stored, rebuild>>

Env(d) == Head(drain[d].batch)

AtEnv(d) == drain[d].pc = "publish" /\ drain[d].batch # <<>>

SkipOtherShard(d) ==
    /\ AtEnv(d)
    /\ ~InShard(d, Env(d).stream)
    /\ drain' = [drain EXCEPT ![d].batch = Tail(@)]
    /\ UNCHANGED <<conf, rows, pos, lock, leaked, stored, rebuild>>

\* result.Failed++ or result.Delivered++, and continue.
Counted(d) == [pc |-> "publish", batch |-> Tail(drain[d].batch), progress |-> TRUE]

\* The subscriber: "upsert if incoming.Version > stored.Version, else ignore".
Accept(env) ==
    stored' = [stored EXCEPT ![env.stream] = IF env.version > @ THEN env.version ELSE @]

\* PublishState of a subscriber that accepts the state.
PublishState(d) ==
    /\ AtEnv(d)
    /\ InShard(d, Env(d).stream)
    /\ Env(d).stream \notin conf.failing
    /\ Accept(Env(d))
    /\ drain' = [drain EXCEPT ![d].pc = "advance"]
    /\ UNCHANGED <<conf, rows, pos, lock, leaked, rebuild>>

AbortsBatch(d) ==  \* mutant: a failed delivery ends the batch
    /\ AtEnv(d)
    /\ InShard(d, Env(d).stream)
    /\ Env(d).stream \in conf.failing
    /\ drain' = [drain EXCEPT ![d].batch = <<>>, ![d].progress = TRUE]
    /\ UNCHANGED <<conf, rows, pos, lock, leaked, stored, rebuild>>

AdvancesAnyway(d) ==  \* mutant: the error of PublishState is dropped
    /\ AtEnv(d)
    /\ InShard(d, Env(d).stream)
    /\ Env(d).stream \in conf.failing
    /\ drain' = [drain EXCEPT ![d].pc = "advance"]
    /\ UNCHANGED <<conf, rows, pos, lock, leaked, stored, rebuild>>

\* A delivery that fails is counted, and the rest of the batch goes on.
DeliveryFails(d) ==
    /\ AtEnv(d)
    /\ InShard(d, Env(d).stream)
    /\ Env(d).stream \in conf.failing
    /\ drain' = [drain EXCEPT ![d] = Counted(d)]
    /\ UNCHANGED <<conf, rows, pos, lock, leaked, stored, rebuild>>

UpsertStateStreamPosition(s, v) == IF v > pos[s] THEN v ELSE pos[s]

AdvanceStateStreamPosition(d) ==
    /\ drain[d].pc = "advance"
    /\ pos' = [pos EXCEPT ![Env(d).stream] = UpsertStateStreamPosition(Env(d).stream, Env(d).version)]
    /\ drain' = [drain EXCEPT ![d] = Counted(d)]
    /\ UNCHANGED <<conf, rows, lock, leaked, stored, rebuild>>

\* The end of runBatch: Run lists again if a delivery was tried, RunOnce returns.
Again(d) == conf.loop /\ drain[d].progress

NextBatch(d) ==
    /\ drain[d].pc = "publish"
    /\ drain[d].batch = <<>>
    /\ Again(d)
    /\ drain' = [drain EXCEPT ![d] = [pc |-> "list", batch |-> <<>>, progress |-> FALSE]]
    /\ UNCHANGED <<conf, rows, pos, lock, leaked, stored, rebuild>>

EndRun(d) ==
    /\ drain[d].pc = "publish"
    /\ drain[d].batch = <<>>
    /\ ~Again(d)
    /\ Return(d)
    /\ UNCHANGED <<conf, rows, pos, leaked, stored, rebuild>>

-------------------------------------------------------------------------------
(* Faults and operators *)

\* The process dies; its database session ends and frees the lock.
Crash(d) ==
    /\ "crash" \in Faults
    /\ drain[d].pc # "idle"
    /\ drain' = [drain EXCEPT ![d] = Idle]
    /\ lock' = IF lock = d THEN None ELSE lock
    /\ leaked' = (leaked /\ lock # d)
    /\ UNCHANGED <<conf, rows, pos, stored, rebuild>>

\* ListStreamsBehind fails: Run returns the error.
ListFails(d) ==
    /\ "error" \in Faults
    /\ drain[d].pc = "list"
    /\ Return(d)
    /\ UNCHANGED <<conf, rows, pos, leaked, stored, rebuild>>

\* PublishState fails once, the subscriber may have taken the state or not.
PublishFails(d) ==
    /\ "error" \in Faults
    /\ AtEnv(d)
    /\ InShard(d, Env(d).stream)
    /\ \/ UNCHANGED stored
       \/ Accept(Env(d))
    /\ drain' = [drain EXCEPT ![d] = Counted(d)]
    /\ UNCHANGED <<conf, rows, pos, lock, leaked, rebuild>>

\* AdvanceStateStreamPosition fails, after the delivery.
AdvanceFails(d) ==
    /\ "error" \in Faults
    /\ drain[d].pc = "advance"
    /\ drain' = [drain EXCEPT ![d] = Counted(d)]
    /\ UNCHANGED <<conf, rows, pos, lock, leaked, stored, rebuild>>

\* The context is cancelled: the deferred unlock fails with it, and the pooled
\* session keeps the lock.
Cancel(d) ==
    /\ "cancel" \in Faults
    /\ drain[d].pc # "idle"
    /\ drain' = [drain EXCEPT ![d] = Idle]
    /\ leaked' = (leaked \/ lock = d)
    /\ UNCHANGED <<conf, rows, pos, lock, stored, rebuild>>

\* The pool recycles an idle session that still holds the lock.
SessionEnds ==
    /\ lock # None
    /\ drain[lock].pc = "idle"
    /\ lock' = None
    /\ leaked' = FALSE
    /\ UNCHANGED <<conf, rows, pos, drain, stored, rebuild>>

\* RebuildStateCache: wipe the rows of the type ...
WipeStateCacheForType ==
    /\ "rebuild" \in Faults
    /\ rebuild.pc = "off"
    /\ cache' = Nowhere
    /\ order' = <<>>
    /\ rebuild' = [pc |-> "read", folded |-> Nowhere, todo |-> {}]
    /\ UNCHANGED <<conf, head, pos, lock, leaked, drain, stored>>

\* ... read pages up to the empty one and fold them in memory ...
ReadAll ==
    /\ rebuild.pc = "read"
    /\ rebuild' = [pc |-> "write", folded |-> head, todo |-> {s \in Streams : head[s] > 0}]
    /\ UNCHANGED <<conf, rows, pos, lock, leaked, drain, stored>>

\* ... and write the rows, in the order of a map, whatever was appended meanwhile.
UpsertCachedState(s) ==
    /\ s \in rebuild.todo
    /\ cache' = [cache EXCEPT ![s] = rebuild.folded[s]]
    /\ Touched(s)
    /\ rebuild' = [rebuild EXCEPT !.todo = @ \ {s}]
    /\ UNCHANGED <<conf, head, pos, lock, leaked, drain, stored>>

\* The rebuild is done, or fails on the way with rows missing.
RebuildEnds ==
    /\ rebuild.pc # "off"
    /\ rebuild' = NoRebuild
    /\ UNCHANGED <<conf, rows, pos, lock, leaked, drain, stored>>

\* One stream, or the whole subscriber, is to be delivered again.
ResetStateStreamSubscriberForStream(s) ==
    /\ "reset" \in Faults
    /\ pos' = [pos EXCEPT ![s] = 0]
    /\ UNCHANGED <<conf, rows, lock, leaked, drain, stored, rebuild>>

ResetStateStreamSubscriber ==
    /\ "reset" \in Faults
    /\ pos' = Nowhere
    /\ UNCHANGED <<conf, rows, lock, leaked, drain, stored, rebuild>>

-------------------------------------------------------------------------------

DrainStep(d) ==
    \/ Start(d)
    \/ ListStreamsBehind(d)
    \/ NothingBehind(d)
    \/ SkipOtherShard(d)
    \/ PublishState(d)
    \/ DeliveryFails(d)
    \/ AdvanceStateStreamPosition(d)
    \/ NextBatch(d)
    \/ EndRun(d)

NormalStep ==
    \/ \E s \in Streams : AppendEvent(s)
    \/ \E d \in Drains : DrainStep(d)
    \/ SessionEnds

DrainFault(d) == Crash(d) \/ ListFails(d) \/ PublishFails(d) \/ AdvanceFails(d) \/ Cancel(d)

Operator ==
    \/ WipeStateCacheForType
    \/ ReadAll
    \/ \E s \in Streams : UpsertCachedState(s) \/ ResetStateStreamSubscriberForStream(s)
    \/ RebuildEnds
    \/ ResetStateStreamSubscriber

Next == NormalStep \/ (\E d \in Drains : DrainFault(d)) \/ Operator

Spec == Init /\ [][Next]_vars

(***************************************************************************)
(* Fairness.  A scheduler calls each drain's Run (or RunOnce) again and    *)
(* again and a Run that is not stopped makes its next step; the pool       *)
(* recycles idle sessions; faults and operators cease at some point.       *)
(***************************************************************************)
FairSpec ==
    /\ Spec
    /\ \A d \in Drains : WF_vars(DrainStep(d))
    /\ WF_vars(SessionEnds)
    /\ <>[][NormalStep]_vars

-------------------------------------------------------------------------------
(* Properties *)

Envelope == [stream : Streams, version : Nat]
DrainType ==
    [pc : {"idle", "list", "publish", "advance"}, batch : Seq(Envelope), progress : BOOLEAN]
RebuildType == [pc : {"off", "read", "write"}, folded : [Streams -> Nat], todo : SUBSET Streams]

\* Type invariant.
TypeOK ==
    /\ conf \in Config
    /\ head \in [Streams -> Nat]
    /\ cache \in [Streams -> Nat]
    /\ order \in Seq(Streams)
    /\ \A i, j \in DOMAIN order : order[i] = order[j] => i = j
    /\ \A s \in Streams : cache[s] > 0 <=> \E i \in DOMAIN order : order[i] = s
    /\ pos \in [Streams -> Nat]
    /\ lock \in Drains \cup {None}
    /\ leaked \in BOOLEAN
    /\ drain \in [Drains -> DrainType]
    /\ \A d \in Drains : drain[d].pc = "advance" => drain[d].batch # <<>>
    /\ stored \in [Streams -> Nat]
    /\ rebuild \in RebuildType
    /\ \A s \in rebuild.todo : rebuild.folded[s] > 0

\* StateStreamStatus.StreamsBehind, what an operator watches.
StreamsBehind == Cardinality({s \in Streams : Behind(s)})

\* Positions and what the subscriber has: a stream that StateStreamStatus does not
\* count as behind was delivered in the version that state_cache has now, or a later
\* one, whatever a lagging drain, a failed delivery, a reset or a rebuild that
\* overlaps them did.
CaughtUpIsDelivered == \A s \in Streams : ~Behind(s) => stored[s] >= cache[s]

\* "Streams always go to the same shard": while every drain of the subscriber is
\* locked out or sharded, no two of them hold a state of one stream.
OneDrainPerStream ==
    conf.locking \/ (conf.sharded /\ \A d, e \in Drains : DrainShard[d] = DrainShard[e] => d = e) =>
        \A d, e \in Drains : \A s \in Streams :
            /\ drain[d].pc = "advance" /\ Env(d).stream = s
            /\ drain[e].pc = "advance" /\ Env(e).stream = s
            => d = e

\* "Last-delivered-version is monotonically non-decreasing": a drain that lags
\* behind another never moves a position back; only resets do, and to nothing.
OnlyResetsRewind ==
    [][\A s \in Streams : pos'[s] < pos[s] => pos'[s] = 0 /\ UNCHANGED drain]_vars

\* As many failing streams as a batch takes come before s in every list.
Crowded(s) ==
    \E i \in DOMAIN order :
        /\ order[i] = s
        /\ Cardinality({j \in 1..i - 1 : order[j] \in conf.failing /\ Behind(order[j])}) >= conf.batch

\* "A single failing stream doesn't block other streams' delivery", as far as that
\* goes: once writers and operators are done, a stream whose deliveries succeed ends
\* up delivered, unless failing streams that are older fill the batch.
Converges ==
    \A s \in Streams : <>[](s \in conf.failing \/ ~Behind(s) \/ Crowded(s))
===============================================================================
