------------------------------ MODULE Projection ------------------------------
(***************************************************************************)
(* projection.Runtime: RunOnce called again and again by several runners   *)
(* of one projection (one shard of it), with the checkpoint, the session   *)
(* lock, dead letters, operators, crashes and cancelled contexts.          *)
(*                                                                         *)
(* Three kinds of Handler are told apart.  "plain" writes a read model;    *)
(* "dedup" is WithDedup around a handler with an outside effect; "linked"  *)
(* is a linked projection, whose effect is an Append with a claim on the   *)
(* source event.                                                           *)
(*                                                                         *)
(* As EventStore establishes, events become visible in position order:     *)
(* position p is an event of stream log[p].                                *)
(***************************************************************************)
EXTENDS Sequences, Ordering

CONSTANTS
    Streams,
    Mine,       \* the streams inShard accepts
    Runners,    \* processes that call RunOnce
    Configs,    \* the configurations to consider
    MaxBatch,   \* bound on BatchSize
    StopFirst,  \* operators stop the runners before they move the checkpoint
    MaxEvents,  \* bound on the number of events
    Faults,     \* which faults happen, out of FaultKinds
    None

FaultKinds == {"crash", "error", "cancel", "reset", "abandon", "cleanup"}

\* locking: LockKey is set and the store implements ProjectionLocker; dlq:
\* DLQOnFailure; batch: BatchSize.
Config ==
    [handler : {"plain", "dedup", "linked"}, locking : BOOLEAN, dlq : BOOLEAN, batch : 1..MaxBatch]

ASSUME ProjectionAssumption ==
    /\ Mine \subseteq Streams
    /\ Configs \subseteq Config
    /\ MaxBatch \in Nat
    /\ StopFirst \in BOOLEAN
    /\ MaxEvents \in Nat
    /\ Faults \subseteq FaultKinds
    /\ None \notin Runners

VARIABLES
    conf,      \* the fields of the Runtime, fixed when it is built
    log,       \* the stream of each event, by position
    cursor,    \* the row of projection_checkpoint
    lock,      \* which runner's session holds the projection lock, or None
    leaked,    \* the lock is held by a session although RunOnce returned
    run,       \* the local variables of each runner's RunOnce
    applied,   \* positions the read model (or the outside) shows
    effects,   \* effects of each position: none, one, or more than one (2)
    marks,     \* processed_events rows, or claims of a linked projection
    unmarked,  \* positions that had an effect and then no mark, at some time
    dlq,       \* projection_dlq rows
    abandoned  \* positions whose projection_dlq row an operator deleted

outside == <<applied, effects, marks, unmarked, dlq, abandoned>>
vars == <<conf, log, cursor, lock, leaked, run, outside>>

Positions == 1..Len(log)
InShard(p) == log[p] \in Mine

\* Positions the projection is done with.
Settled == applied \cup dlq \cup abandoned

\* The loop over the batch: env is next, up to end; last as in the code.
Idle == [pc |-> "idle", cursor |-> 0, next |-> 0, end |-> 0, last |-> 0]

Init ==
    /\ conf \in Configs
    /\ log = <<>>
    /\ cursor = 0
    /\ lock = None
    /\ leaked = FALSE
    /\ run = [r \in Runners |-> Idle]
    /\ applied = {}
    /\ effects = [p \in 1..MaxEvents |-> 0]
    /\ marks = {}
    /\ unmarked = {}
    /\ dlq = {}
    /\ abandoned = {}

AppendEvent(s) ==
    /\ Len(log) < MaxEvents
    /\ log' = Append(log, s)
    /\ UNCHANGED <<conf, cursor, lock, leaked, run, outside>>

-------------------------------------------------------------------------------
(* RunOnce *)

\* pg_try_advisory_lock: a pooled session that still holds the lock gets it again.
AlwaysAvailable(r) == TRUE  \* mutant: the result of the try is ignored
Available(r) == lock = None \/ (lock = r /\ leaked)

\* acquireLock; a RunOnce that does not get the lock returns at once.
Start(r) ==
    /\ run[r].pc = "idle"
    /\ \/ ~conf.locking /\ UNCHANGED lock
       \/ conf.locking /\ Available(r) /\ lock' = r
    /\ run' = [run EXCEPT ![r].pc = "load"]
    /\ UNCHANGED <<conf, log, cursor, leaked, outside>>

\* ReleaseProjectionLock: one unlock, which does not undo an earlier leaked lock.
Release(r) == lock' = IF lock = r /\ ~leaked THEN None ELSE lock

Load(r) ==
    /\ run[r].pc = "load"
    /\ run' = [run EXCEPT ![r].pc = "read", ![r].cursor = cursor]
    /\ UNCHANGED <<conf, log, cursor, lock, leaked, outside>>

\* ReadAll: the first BatchSize events after the loaded cursor.
Read(r) ==
    /\ run[r].pc = "read"
    /\ run[r].cursor < Len(log)
    /\ run' = [run EXCEPT ![r].pc = "event",
                          ![r].next = run[r].cursor + 1,
                          ![r].end = Smallest({run[r].cursor + conf.batch, Len(log)})]
    /\ UNCHANGED <<conf, log, cursor, lock, leaked, outside>>

ReturnIdle(r) ==
    /\ run[r].pc = "read"
    /\ run[r].cursor >= Len(log)
    /\ run' = [run EXCEPT ![r] = Idle]
    /\ Release(r)
    /\ UNCHANGED <<conf, log, cursor, leaked, outside>>

Current(r) == run[r].next

\* continue, with last = env.GlobalPosition.
Advanced(r) == [run[r] EXCEPT !.pc = "event", !.next = @ + 1, !.last = Current(r)]

AtEvent(r) == run[r].pc = "event" /\ run[r].next <= run[r].end

SkipsWithoutLast(r) ==  \* mutant: last does not move past skipped events
    /\ AtEvent(r)
    /\ ~InShard(Current(r))
    /\ run' = [run EXCEPT ![r].next = @ + 1]
    /\ UNCHANGED <<conf, log, cursor, lock, leaked, outside>>

SkipOtherShard(r) ==
    /\ AtEvent(r)
    /\ ~InShard(Current(r))
    /\ run' = [run EXCEPT ![r] = Advanced(r)]
    /\ UNCHANGED <<conf, log, cursor, lock, leaked, outside>>

EndBatch(r) ==
    /\ run[r].pc = "event"
    /\ run[r].next > run[r].end
    /\ run' = [run EXCEPT ![r].pc = "save"]
    /\ UNCHANGED <<conf, log, cursor, lock, leaked, outside>>

Saved(r) == run[r].last

\* Save, unconditional, unless nothing was passed; RunOnce returns.
SaveAndReturn(r) ==
    /\ run[r].pc = "save"
    /\ cursor' = IF run[r].last > 0 THEN Saved(r) ELSE cursor
    /\ run' = [run EXCEPT ![r] = Idle]
    /\ Release(r)
    /\ UNCHANGED <<conf, log, leaked, outside>>

-------------------------------------------------------------------------------
(* The handlers *)

AtHandler(r) == AtEvent(r) /\ InShard(Current(r))

Affected(p) ==
    /\ applied' = applied \cup {p}
    /\ effects' = [effects EXCEPT ![p] = IF @ = 0 THEN 1 ELSE 2]

Unaffected == UNCHANGED <<applied, effects>>

\* A plain handler succeeds, or fails before or after its write took effect
\* (Chain stops at the first handler that fails, after earlier ones succeeded).
PlainHandler(r) ==
    /\ AtHandler(r)
    /\ conf.handler = "plain"
    /\ \/ Affected(Current(r)) /\ run' = [run EXCEPT ![r] = Advanced(r)]
       \/ Affected(Current(r)) /\ run' = [run EXCEPT ![r].pc = "failed"]
       \/ Unaffected /\ run' = [run EXCEPT ![r].pc = "failed"]
    /\ UNCHANGED <<conf, log, cursor, lock, leaked, marks, unmarked, dlq, abandoned>>

HasProcessedEvent(p) == p \in marks

\* WithDedup: the lookup.
DedupLookup(r) ==
    /\ AtHandler(r)
    /\ conf.handler = "dedup"
    /\ run' = IF HasProcessedEvent(Current(r))
              THEN [run EXCEPT ![r] = Advanced(r)]
              ELSE [run EXCEPT ![r].pc = "inner"]
    /\ UNCHANGED <<conf, log, cursor, lock, leaked, outside>>

\* WithDedup: the inner handler; its outside effect may happen although it fails.
DedupInner(r) ==
    /\ run[r].pc = "inner"
    /\ \/ /\ Affected(Current(r))
          /\ run' = [run EXCEPT ![r].pc = "mark"]
          /\ UNCHANGED unmarked
       \/ /\ Affected(Current(r))
          /\ run' = [run EXCEPT ![r].pc = "failed"]
          /\ unmarked' = unmarked \cup {Current(r)}
       \/ /\ Unaffected
          /\ run' = [run EXCEPT ![r].pc = "failed"]
          /\ UNCHANGED unmarked
    /\ UNCHANGED <<conf, log, cursor, lock, leaked, marks, dlq, abandoned>>

\* WithDedup: MarkProcessedEvent.
DedupMark(r) ==
    /\ run[r].pc = "mark"
    /\ marks' = marks \cup {Current(r)}
    /\ run' = [run EXCEPT ![r] = Advanced(r)]
    /\ UNCHANGED <<conf, log, cursor, lock, leaked, applied, effects, unmarked, dlq, abandoned>>

\* Append of the derived event and its claim, one transaction; a claim already
\* there is ErrConstraintViolated, which the handler swallows.
AppendsWithoutClaim(p) ==  \* mutant: IdempotentEmit off
    Affected(p) /\ UNCHANGED marks
AppendDerived(p) ==
    IF p \in marks
    THEN Unaffected /\ UNCHANGED marks
    ELSE Affected(p) /\ marks' = marks \cup {p}

\* linked.Handler: SourceTypeURLs or the route may leave the event out, which
\* handles it without an effect; Route and Append (ErrConflict) may fail, and an
\* error may hide a commit.
LinkedHandler(r) ==
    LET p == Current(r)
    IN  /\ AtHandler(r)
        /\ conf.handler = "linked"
        /\ \/ AppendDerived(p) /\ run' = [run EXCEPT ![r] = Advanced(r)]
           \/ /\ applied' = applied \cup {p}
              /\ run' = [run EXCEPT ![r] = Advanced(r)]
              /\ UNCHANGED <<effects, marks>>
           \/ AppendDerived(p) /\ run' = [run EXCEPT ![r].pc = "failed"]
           \/ /\ Unaffected /\ UNCHANGED marks
              /\ run' = [run EXCEPT ![r].pc = "failed"]
        /\ UNCHANGED <<conf, log, cursor, lock, leaked, unmarked, dlq, abandoned>>

\* The handler returned an error: fail-stop without DLQOnFailure ...
FailsPast(r) ==  \* mutant: last moves to the failed event
    /\ run[r].pc = "failed"
    /\ ~conf.dlq
    /\ run' = [run EXCEPT ![r].pc = "save", ![r].last = Current(r)]
    /\ UNCHANGED <<conf, log, cursor, lock, leaked, outside>>

FailStop(r) ==
    /\ run[r].pc = "failed"
    /\ ~conf.dlq
    /\ run' = [run EXCEPT ![r].pc = "save"]
    /\ UNCHANGED <<conf, log, cursor, lock, leaked, outside>>

FailsOn(r) ==  \* mutant: continue although the dead letter was not written
    /\ run[r].pc = "failed"
    /\ conf.dlq
    /\ run' = [run EXCEPT ![r] = Advanced(r)]
    /\ UNCHANGED <<conf, log, cursor, lock, leaked, outside>>

\* ... and InsertProjectionDLQ with it.
DeadLetter(r) ==
    /\ run[r].pc = "failed"
    /\ conf.dlq
    /\ dlq' = dlq \cup {Current(r)}
    /\ run' = [run EXCEPT ![r] = Advanced(r)]
    /\ UNCHANGED <<conf, log, cursor, lock, leaked, applied, effects, marks, unmarked, abandoned>>

-------------------------------------------------------------------------------
(* Faults and operators *)

\* A run that ends between the effect and its mark leaves none.
Interrupted(r) ==
    unmarked' = IF run[r].pc = "mark" THEN unmarked \cup {Current(r)} ELSE unmarked

\* The process dies; its database session ends and frees the lock.
Crash(r) ==
    /\ "crash" \in Faults
    /\ run[r].pc # "idle"
    /\ run' = [run EXCEPT ![r] = Idle]
    /\ lock' = IF lock = r THEN None ELSE lock
    /\ leaked' = (leaked /\ lock # r)
    /\ Interrupted(r)
    /\ UNCHANGED <<conf, log, cursor, applied, effects, marks, dlq, abandoned>>

\* Load, ReadAll or Save fails: RunOnce returns the error and releases its lock.
ReturnsError(r) ==
    /\ "error" \in Faults
    /\ run[r].pc \in {"load", "read", "save"}
    /\ run' = [run EXCEPT ![r] = Idle]
    /\ Release(r)
    /\ UNCHANGED <<conf, log, cursor, leaked, outside>>

\* HasProcessedEvent or MarkProcessedEvent fails, which is an error of the handler.
DedupFails(r) ==
    /\ "error" \in Faults
    /\ run[r].pc = "mark" \/ (AtHandler(r) /\ conf.handler = "dedup")
    /\ run' = [run EXCEPT ![r].pc = "failed"]
    /\ Interrupted(r)
    /\ UNCHANGED <<conf, log, cursor, lock, leaked, applied, effects, marks, dlq, abandoned>>

\* InsertProjectionDLQ fails, which stops the batch; what came before is saved.
DeadLetterFails(r) ==
    /\ "error" \in Faults
    /\ run[r].pc = "failed"
    /\ conf.dlq
    /\ run' = [run EXCEPT ![r].pc = "save"]
    /\ UNCHANGED <<conf, log, cursor, lock, leaked, outside>>

\* The context is cancelled: what follows fails, the unlock of the deferred
\* ReleaseProjectionLock included, and the session keeps the lock in the pool.
Cancel(r) ==
    /\ "cancel" \in Faults
    /\ run[r].pc # "idle"
    /\ run' = [run EXCEPT ![r] = Idle]
    /\ leaked' = (leaked \/ lock = r)
    /\ Interrupted(r)
    /\ UNCHANGED <<conf, log, cursor, lock, applied, effects, marks, dlq, abandoned>>

\* The pool recycles an idle session that still holds the lock.
SessionEnds ==
    /\ lock # None
    /\ run[lock].pc = "idle"
    /\ lock' = None
    /\ leaked' = FALSE
    /\ UNCHANGED <<conf, log, cursor, run, outside>>

Stopped == \A r \in Runners : run[r].pc = "idle"

\* Truncate-and-replay: the application clears a read model (not what other
\* handlers did outside), then Reset.
Rebuild ==
    /\ "reset" \in Faults
    /\ StopFirst => Stopped
    /\ cursor' = 0
    /\ applied' = IF conf.handler = "plain" THEN {} ELSE applied
    /\ UNCHANGED <<conf, log, lock, leaked, run, effects, marks, unmarked, dlq, abandoned>>

\* ResetTo a known-good point.
ResetTo(p) ==
    /\ "reset" \in Faults
    /\ StopFirst => Stopped
    /\ p < cursor
    /\ cursor' = p
    /\ UNCHANGED <<conf, log, lock, leaked, run, outside>>

AbandonProjectionDLQ(p) ==
    /\ "abandon" \in Faults
    /\ p \in dlq
    /\ dlq' = dlq \ {p}
    /\ abandoned' = abandoned \cup {p}
    /\ UNCHANGED <<conf, log, cursor, lock, leaked, run, applied, effects, marks, unmarked>>

AbandonAllProjectionDLQ ==
    /\ "abandon" \in Faults
    /\ dlq # {}
    /\ dlq' = {}
    /\ abandoned' = abandoned \cup dlq
    /\ UNCHANGED <<conf, log, cursor, lock, leaked, run, applied, effects, marks, unmarked>>

\* Retention of processed_events: marks up to some age go.
CleanupProcessedEvents(p) ==
    /\ "cleanup" \in Faults
    /\ conf.handler = "dedup"
    /\ \E q \in marks : q <= p
    /\ marks' = {q \in marks : q > p}
    /\ unmarked' = unmarked \cup {q \in marks : q <= p}
    /\ UNCHANGED <<conf, log, cursor, lock, leaked, run, applied, effects, dlq, abandoned>>

-------------------------------------------------------------------------------

RunnerStep(r) ==
    \/ Start(r)
    \/ Load(r)
    \/ Read(r)
    \/ ReturnIdle(r)
    \/ SkipOtherShard(r)
    \/ PlainHandler(r)
    \/ DedupLookup(r)
    \/ DedupInner(r)
    \/ DedupMark(r)
    \/ LinkedHandler(r)
    \/ FailStop(r)
    \/ DeadLetter(r)
    \/ EndBatch(r)
    \/ SaveAndReturn(r)

Operator ==
    \/ Rebuild
    \/ AbandonAllProjectionDLQ
    \/ \E p \in Positions : ResetTo(p) \/ AbandonProjectionDLQ(p) \/ CleanupProcessedEvents(p)

NormalStep ==
    \/ \E s \in Streams : AppendEvent(s)
    \/ \E r \in Runners : RunnerStep(r)
    \/ SessionEnds

RunnerFault(r) ==
    \/ Crash(r)
    \/ ReturnsError(r)
    \/ DedupFails(r)
    \/ DeadLetterFails(r)
    \/ Cancel(r)

Fault == (\E r \in Runners : RunnerFault(r)) \/ Operator

Next == NormalStep \/ Fault

Spec == Init /\ [][Next]_vars

(***************************************************************************)
(* Fairness.  Run, or a scheduler, calls RunOnce again and again and a     *)
(* RunOnce that is not stopped makes its next step; the pool recycles idle *)
(* sessions; faults and operators cease at some point.  Nothing makes a    *)
(* handler succeed.                                                        *)
(***************************************************************************)
FairSpec ==
    /\ Spec
    /\ \A r \in Runners : WF_vars(RunnerStep(r))
    /\ WF_vars(SessionEnds)
    /\ <>[][NormalStep]_vars

-------------------------------------------------------------------------------
(* Properties *)

RunType ==
    [pc : {"idle", "load", "read", "event", "inner", "mark", "failed", "save"},
     cursor : 0..MaxEvents, next : 0..(MaxEvents + 1), end : 0..MaxEvents, last : 0..MaxEvents]

\* Type invariant.
TypeOK ==
    /\ conf \in Config
    /\ log \in Seq(Streams) /\ Len(log) <= MaxEvents
    /\ cursor \in 0..Len(log)
    /\ lock \in Runners \cup {None}
    /\ leaked \in BOOLEAN
    /\ run \in [Runners -> RunType]
    /\ effects \in [1..MaxEvents -> 0..2]
    /\ applied \subseteq Positions
    /\ marks \subseteq Positions
    /\ unmarked \subseteq Positions
    /\ dlq \subseteq Positions
    /\ abandoned \subseteq Positions

\* The checkpoint never passes an event of the shard that was not handled: up to
\* it, each one shows in the read model, is a dead letter, or was one an operator
\* closed.  With and without the lock, whatever fails, is replayed or reset.
NothingSkipped == \A p \in 1..cursor : InShard(p) => p \in Settled

\* Handlers see the events of the shard in order: what an event did shows only
\* after all earlier events were handled (or dead-lettered).
AppliedInOrder == \A p \in applied : \A q \in 1..(p - 1) : InShard(q) => q \in Settled

\* No duplicate effects.  A linked projection emits one event per source event
\* even if runners overlap, crash or replay; WithDedup under the lock repeats an
\* effect only if the run ended between the effect and its mark, or the mark was
\* cleaned up.
EffectsOnce ==
    \A p \in Positions :
        effects[p] = 2 =>
            \/ conf.handler = "plain"
            \/ conf.handler = "dedup" /\ (~conf.locking \/ p \in unmarked)

\* The lock keeps a slow runner from moving the checkpoint back: only an operator
\* does, while the runners are stopped.
OnlyResetsMoveBack == [][cursor' < cursor /\ conf.locking => Stopped]_vars

\* With DLQOnFailure no event waits for ever, even if its handler always fails.
CatchesUp ==
    \A p \in 1..MaxEvents :
        p \in Positions /\ InShard(p) /\ conf.dlq ~> p \in Settled /\ p <= cursor
===============================================================================
