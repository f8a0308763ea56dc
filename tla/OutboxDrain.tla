----------------------------- MODULE OutboxDrain -----------------------------
(***************************************************************************)
(* outbox.Drain: the loop that publishes committed events, with several    *)
(* drains, the session-level drain lock, retries, the dead-letter state,   *)
(* operators and crashes.                                                  *)
(*                                                                         *)
(* The write path is reduced to what EventStore establishes: events become *)
(* visible in position order, each with one outbox row, so position p is   *)
(* an event of stream log[p] and orders the events of a stream.            *)
(***************************************************************************)
EXTENDS Integers, Sequences, Ordering

CONSTANTS
    Streams,
    Drains,      \* processes that run Drain.Run
    Shards,      \* shard numbers, 0 among them
    ShardOf,     \* streamShard: the shard of each stream
    DrainShard,  \* Drain.Shard of each drain
    Configs,     \* the configurations to consider
    MaxAttempts, \* the dead-letter threshold
    MaxEvents,   \* bound on the number of events
    None

FaultKinds == {"crash", "error", "cancel", "operator"}

\* locking: LockKey is set and the store implements DrainLocker; sharded:
\* TotalShards > 0; autoResume: AutoResumeAfterDLQ; backoff: BackoffBase > 0, so a
\* failed row waits before its next attempt; batch: BatchSize; faults: which faults
\* happen; events: how many events there will be.
Config ==
    [locking : BOOLEAN, sharded : BOOLEAN, autoResume : BOOLEAN, backoff : BOOLEAN,
     batch : Nat \ {0}, faults : SUBSET FaultKinds, events : 0..MaxEvents]

ASSUME OutboxAssumption ==
    /\ 0 \in Shards
    /\ ShardOf \in [Streams -> Shards]
    /\ DrainShard \in [Drains -> Shards]
    /\ Configs \subseteq Config
    /\ MaxAttempts \in Nat \ {0}
    /\ MaxEvents \in Nat
    /\ None \notin Drains

VARIABLES
    conf,      \* the fields of the Drain, fixed when it is built
    log,       \* the stream of each event, by position
    outbox,    \* the outbox row of each position
    lock,      \* which drain's session holds each shard's lock, or None
    leaked,    \* locks still held by a session although their Run returned
    run,       \* the local variables of each drain's Run
    delivered, \* positions the publisher has handed to subscribers
    abandoned, \* positions an operator closed without publishing
    alerted    \* positions OnDLQ was called for

vars == <<conf, log, outbox, lock, leaked, run, delivered, abandoned, alerted>>

Positions == 1..Len(log)

\* published covers published_at being set; a deleted row is published too.
RowType == [published : BOOLEAN, deleted : BOOLEAN, attempts : Nat, cooling : BOOLEAN]
NewRow == [published |-> FALSE, deleted |-> FALSE, attempts |-> 0, cooling |-> FALSE]

Idle == [pc |-> "idle", halted |-> {}, batch |-> <<>>, any |-> FALSE]

Pending(p) == ~outbox[p].published
InDLQ(p) == Pending(p) /\ outbox[p].attempts >= MaxAttempts

Earlier(p) == {q \in 1..(p - 1) : log[q] = log[p]}

\* With TotalShards = 0 everything is one shard.
StreamShard(s) == IF conf.sharded THEN ShardOf[s] ELSE 0
Shard(d) == IF conf.sharded THEN DrainShard[d] ELSE 0

Init ==
    /\ conf \in Configs
    /\ log = <<>>
    /\ outbox = <<>>
    /\ lock = [sh \in Shards |-> None]
    /\ leaked = {}
    /\ run = [d \in Drains |-> Idle]
    /\ delivered = {}
    /\ abandoned = {}
    /\ alerted = {}

-------------------------------------------------------------------------------
(* The store's queries *)

\* PendingOutboxWithEnvelope: due, not dead, and no earlier row of the stream
\* still waiting (the head rule); the first of them by position.
Eligible ==
    {p \in Positions :
        /\ Pending(p) /\ ~InDLQ(p) /\ ~outbox[p].cooling
        /\ \A q \in Earlier(p) : Pending(q) => InDLQ(q)}

PendingOutbox == FirstOf(Eligible, conf.batch)

NoneQuarantined == {}  \* mutant: dead rows do not quarantine their stream
QuarantinedStreams == {log[p] : p \in {q \in Positions : InDLQ(q)}}

\* An event is committed with its outbox row.
AppendEvent(s) ==
    /\ Len(log) < conf.events
    /\ log' = Append(log, s)
    /\ outbox' = Append(outbox, NewRow)
    /\ UNCHANGED <<conf, lock, leaked, run, delivered, abandoned, alerted>>

\* next_attempt_at passes.
BackoffExpires(p) ==
    /\ outbox[p].cooling
    /\ outbox' = [outbox EXCEPT ![p].cooling = FALSE]
    /\ UNCHANGED <<conf, log, lock, leaked, run, delivered, abandoned, alerted>>

-------------------------------------------------------------------------------
(* Drain.Run.  RunOnce is the part of it up to the end of the first batch.  *)

\* pg_try_advisory_lock: a pooled session that still holds the lock gets it again.
AlwaysAvailable(d) == TRUE  \* mutant: the result of the try is ignored
Available(d) ==
    LET sh == Shard(d)
    IN  lock[sh] = None \/ (lock[sh] = d /\ sh \in leaked)

\* acquireLock; a Run that does not get the lock returns at once.
Start(d) ==
    /\ run[d].pc = "idle"
    /\ \/ ~conf.locking /\ UNCHANGED lock
       \/ conf.locking /\ Available(d) /\ lock' = [lock EXCEPT ![Shard(d)] = d]
    /\ run' = [run EXCEPT ![d].pc = "start"]
    /\ UNCHANGED <<conf, log, outbox, leaked, delivered, abandoned, alerted>>

\* ReleaseDrainLock: one unlock, which does not undo an earlier leaked lock.
Release(d) ==
    LET sh == Shard(d)
    IN  lock' = IF lock[sh] = d /\ sh \notin leaked THEN [lock EXCEPT ![sh] = None] ELSE lock

\* Read once per Run; halted and quarantined are one set, always tested together.
ReadQuarantined(d) ==
    /\ run[d].pc = "start"
    /\ run' = [run EXCEPT ![d].pc = "fetch",
                          ![d].halted = IF conf.autoResume THEN {} ELSE QuarantinedStreams]
    /\ UNCHANGED <<conf, log, outbox, lock, leaked, delivered, abandoned, alerted>>

\* A batch in position order, each row with the attempts it had when read.
Batch ==
    LET order == InOrder(PendingOutbox)
    IN  [i \in DOMAIN order |-> [pos |-> order[i], attempts |-> outbox[order[i]].attempts]]

Fetch(d) ==
    /\ run[d].pc = "fetch"
    /\ run' = [run EXCEPT ![d].batch = Batch, ![d].any = FALSE,
                          ![d].pc = IF PendingOutbox = {} THEN "cleanup" ELSE "row"]
    /\ UNCHANGED <<conf, log, outbox, lock, leaked, delivered, abandoned, alerted>>

Current(d) == Head(run[d].batch)
StreamAt(d) == log[Current(d).pos]
Skipped(d) == StreamShard(StreamAt(d)) # Shard(d) \/ StreamAt(d) \in run[d].halted

AtRow(d) == run[d].pc = "row" /\ run[d].batch # <<>>

Skip(d) ==
    /\ AtRow(d)
    /\ Skipped(d)
    /\ run' = [run EXCEPT ![d].batch = Tail(@)]
    /\ UNCHANGED <<conf, log, outbox, lock, leaked, delivered, abandoned, alerted>>

PublishSucceeds(d) ==
    /\ AtRow(d)
    /\ ~Skipped(d)
    /\ delivered' = delivered \cup {Current(d).pos}
    /\ run' = [run EXCEPT ![d].pc = "published"]
    /\ UNCHANGED <<conf, log, outbox, lock, leaked, abandoned, alerted>>

\* Publish returned an error; the event may have reached subscribers all the same.
PublishFails(d) ==
    /\ AtRow(d)
    /\ ~Skipped(d)
    /\ delivered' \in {delivered, delivered \cup {Current(d).pos}}
    /\ run' = [run EXCEPT ![d].pc = "failed"]
    /\ UNCHANGED <<conf, log, outbox, lock, leaked, abandoned, alerted>>

NextRow(d) == [run[d] EXCEPT !.pc = "row", !.batch = Tail(@), !.any = TRUE]

MarkOutboxPublished(d) ==
    /\ run[d].pc = "published"
    /\ outbox' = [outbox EXCEPT ![Current(d).pos].published = TRUE]
    /\ run' = [run EXCEPT ![d] = NextRow(d)]
    /\ UNCHANGED <<conf, log, lock, leaked, delivered, abandoned, alerted>>

\* The database increments the stored attempts; the drain judges the DLQ
\* crossing by the attempts it read.
CrossedOneLate(d) == Current(d).attempts + 1 > MaxAttempts  \* mutant: > for >=
CrossedDLQ(d) == Current(d).attempts + 1 >= MaxAttempts

FailedUncounted(row) == [row EXCEPT !.cooling = conf.backoff]  \* mutant: attempts stay
FailedRow(row) == [row EXCEPT !.attempts = @ + 1, !.cooling = conf.backoff]

MarkOutboxFailed(d) ==
    /\ run[d].pc = "failed"
    /\ outbox' = [outbox EXCEPT ![Current(d).pos] = FailedRow(@)]
    /\ run' = [run EXCEPT ![d].pc = "marked"]
    /\ UNCHANGED <<conf, log, lock, leaked, delivered, abandoned, alerted>>

\* OnDLQ if the row crossed.  The stream is halted for the rest of the Run,
\* except when a dead row is to be skipped (AutoResumeAfterDLQ).
AfterFailure(d) ==
    LET halts == ~(CrossedDLQ(d) /\ conf.autoResume)
    IN  /\ run[d].pc = "marked"
        /\ alerted' = IF CrossedDLQ(d) THEN alerted \cup {Current(d).pos} ELSE alerted
        /\ run' = [run EXCEPT ![d] = [NextRow(d) EXCEPT
                       !.halted = IF halts THEN @ \cup {StreamAt(d)} ELSE @]]
        /\ UNCHANGED <<conf, log, outbox, lock, leaked, delivered, abandoned>>

EndBatch(d) ==
    /\ run[d].pc = "row"
    /\ run[d].batch = <<>>
    /\ run' = [run EXCEPT ![d].pc = IF run[d].any THEN "fetch" ELSE "cleanup"]
    /\ UNCHANGED <<conf, log, outbox, lock, leaked, delivered, abandoned, alerted>>

\* published_at IS NOT NULL.
AnyRow(p) == TRUE  \* mutant: the predicate is missing
Cleanable(p) == outbox[p].published

\* CleanupPublished deletes the published rows if their retention has expired
\* (all or none of them here: nothing reads a published row); Run returns.
CleanupAndReturn(d) ==
    /\ run[d].pc = "cleanup"
    /\ \E expired \in BOOLEAN :
           outbox' = [p \in Positions |->
                         [outbox[p] EXCEPT !.deleted = @ \/ (expired /\ Cleanable(p))]]
    /\ Release(d)
    /\ run' = [run EXCEPT ![d] = Idle]
    /\ UNCHANGED <<conf, log, leaked, delivered, abandoned, alerted>>

-------------------------------------------------------------------------------
(* Faults and operators *)

\* The process dies; its database session ends and frees the lock.
Crash(d) ==
    LET sh == Shard(d)
    IN  /\ "crash" \in conf.faults
        /\ run[d].pc # "idle"
        /\ run' = [run EXCEPT ![d] = Idle]
        /\ lock' = IF lock[sh] = d THEN [lock EXCEPT ![sh] = None] ELSE lock
        /\ leaked' = IF lock[sh] = d THEN leaked \ {sh} ELSE leaked
        /\ UNCHANGED <<conf, log, outbox, delivered, abandoned, alerted>>

\* A store call fails, before or after it took effect: Run returns the error and
\* releases its lock.
ReturnsError(d) ==
    /\ "error" \in conf.faults
    /\ run[d].pc # "idle"
    /\ Release(d)
    /\ run' = [run EXCEPT ![d] = Idle]
    /\ UNCHANGED <<conf, log, outbox, leaked, delivered, abandoned, alerted>>

\* The context is cancelled.  Run returns, but its deferred ReleaseDrainLock
\* uses the cancelled context: the unlock statement is not sent and the
\* session goes back to the pool with the lock.
Cancel(d) ==
    /\ "cancel" \in conf.faults
    /\ run[d].pc # "idle"
    /\ run' = [run EXCEPT ![d] = Idle]
    /\ leaked' = IF lock[Shard(d)] = d THEN leaked \cup {Shard(d)} ELSE leaked
    /\ UNCHANGED <<conf, log, outbox, lock, delivered, abandoned, alerted>>

\* The pool recycles an idle session that still holds a lock.
SessionEnds(sh) ==
    /\ lock[sh] # None
    /\ run[lock[sh]].pc = "idle"
    /\ lock' = [lock EXCEPT ![sh] = None]
    /\ leaked' = leaked \ {sh}
    /\ UNCHANGED <<conf, log, outbox, run, delivered, abandoned, alerted>>

Replayed(row) == [row EXCEPT !.attempts = 0, !.cooling = FALSE]

\* Operators pick a position from a ListDLQ page that may be out of date; the
\* UPDATE does not ask whether the row is still (or ever was) dead.
ReplayDLQ(p) ==
    /\ "operator" \in conf.faults
    /\ ~outbox[p].deleted
    /\ outbox' = [outbox EXCEPT ![p] = Replayed(@)]
    /\ UNCHANGED <<conf, log, lock, leaked, run, delivered, abandoned, alerted>>

ReplayAllDLQ ==
    /\ "operator" \in conf.faults
    /\ \E p \in Positions : InDLQ(p)
    /\ outbox' = [p \in Positions |-> IF InDLQ(p) THEN Replayed(outbox[p]) ELSE outbox[p]]
    /\ UNCHANGED <<conf, log, lock, leaked, run, delivered, abandoned, alerted>>

\* Likewise, except that the row must still be unpublished.
AbandonDLQ(p) ==
    /\ "operator" \in conf.faults
    /\ Pending(p)
    /\ outbox' = [outbox EXCEPT ![p].published = TRUE]
    /\ abandoned' = abandoned \cup {p}
    /\ UNCHANGED <<conf, log, lock, leaked, run, delivered, alerted>>

-------------------------------------------------------------------------------

DrainStep(d) ==
    \/ Start(d)
    \/ ReadQuarantined(d)
    \/ Fetch(d)
    \/ Skip(d)
    \/ PublishSucceeds(d)
    \/ PublishFails(d)
    \/ MarkOutboxPublished(d)
    \/ MarkOutboxFailed(d)
    \/ AfterFailure(d)
    \/ EndBatch(d)
    \/ CleanupAndReturn(d)

Operator == (\E p \in Positions : ReplayDLQ(p) \/ AbandonDLQ(p)) \/ ReplayAllDLQ

NormalStep ==
    \/ \E s \in Streams : AppendEvent(s)
    \/ \E p \in Positions : BackoffExpires(p)
    \/ \E d \in Drains : DrainStep(d)
    \/ \E sh \in Shards : SessionEnds(sh)

Fault == (\E d \in Drains : Crash(d) \/ ReturnsError(d) \/ Cancel(d)) \/ Operator

Next == NormalStep \/ Fault

Spec == Init /\ [][Next]_vars

(***************************************************************************)
(* Fairness.  A scheduler runs the drain again and again and a Run that is *)
(* not stopped makes its next step; backoffs expire; the pool recycles     *)
(* idle sessions; crashes, cancellations and operators cease at some       *)
(* point.  Nothing makes the publisher succeed.                            *)
(***************************************************************************)
FairSpec ==
    /\ Spec
    /\ \A d \in Drains : WF_vars(DrainStep(d))
    /\ \A p \in 1..MaxEvents : WF_vars(p \in Positions /\ BackoffExpires(p))
    /\ \A sh \in Shards : WF_vars(SessionEnds(sh))
    /\ <>[][NormalStep]_vars

-------------------------------------------------------------------------------
(* Properties *)

RunType ==
    [pc : {"idle", "start", "fetch", "row", "published", "failed", "marked", "cleanup"},
     halted : SUBSET Streams, batch : Seq([pos : 1..MaxEvents, attempts : Nat]), any : BOOLEAN]

\* Type invariant.
TypeOK ==
    /\ conf \in Config
    /\ log \in Seq(Streams) /\ Len(log) <= MaxEvents
    /\ outbox \in Seq(RowType) /\ Len(outbox) = Len(log)
    /\ lock \in [Shards -> Drains \cup {None}]
    /\ leaked \subseteq Shards
    /\ run \in [Drains -> RunType]
    /\ delivered \subseteq Positions
    /\ abandoned \subseteq Positions
    /\ alerted \subseteq Positions

\* Per-stream order and quarantine (Delivery contract of Drain): an event is
\* delivered only after every earlier event of its stream was delivered, or
\* was closed by an operator.
DeliveredInOrder ==
    ~conf.autoResume => \A p \in delivered : Earlier(p) \subseteq delivered \cup abandoned

\* Skip mode (AutoResumeAfterDLQ): subscribers miss an event only if OnDLQ was
\* called for it.
GapsAreAlerted ==
    conf.autoResume => \A p \in delivered : Earlier(p) \subseteq delivered \cup abandoned \cup alerted

\* At-least-once: a row leaves the outbox's pending set, and may be deleted,
\* only if its event was delivered or an operator abandoned it.
NothingLost ==
    \A p \in Positions : outbox[p].published \/ outbox[p].deleted => p \in delivered \cup abandoned

\* The drain lock makes drains of a shard exclusive: a row a drain is about to
\* publish is unpublished or was abandoned since it was read, so duplicates
\* come only from a failure between Publish and MarkOutboxPublished.
NoStaleRows ==
    \A d \in Drains : AtRow(d) /\ ~Skipped(d) =>
        Pending(Current(d).pos) \/ Current(d).pos \in abandoned

\* The rows of quarantined streams that are read before p, and skipped, fill a batch.
Crowded(p) ==
    /\ ~conf.autoResume
    /\ Cardinality({q \in Eligible : q < p /\ log[q] \in QuarantinedStreams}) >= conf.batch

\* "stream Y's events don't wait for stream X's failures", as far as that goes: each
\* event ends up delivered or closed, dead-lettered or behind a dead-lettered event of
\* its own stream, unless quarantined streams fill the batches for good.
Settles ==
    \A p \in 1..MaxEvents :
        <>[](p \in Positions => \/ p \in delivered \cup abandoned
                                \/ \E q \in Earlier(p) \cup {p} : InDLQ(q)
                                \/ Crowded(p))
===============================================================================
