------------------------------ MODULE CommandBus ------------------------------
(***************************************************************************)
(* cmdworkflow.Workflow: HandleCmd appends the events of a command and     *)
(* fans them out to the registered subscribers, as a workflow whose steps  *)
(* a durable runtime (dbos, restate) journals and replays after a crash,   *)
(* or without a journal (inproc).  All commands are for one stream, and    *)
(* other writers append to it too.                                         *)
(*                                                                         *)
(* A compensation is a nested HandleCmd, invocation <<c, s>> of command c  *)
(* and subscriber s.  A state is told apart by its version.                *)
(***************************************************************************)
EXTENDS Integers, Sequences, FiniteSets, Functions

CONSTANTS
    Commands,    \* calls of HandleCmd
    Subs,        \* names of subscribers
    Order,       \* Subs in the order of Register
    Configs,     \* the configurations to consider
    Batch,       \* types of the events a command appends
    Undo,        \* types of the events a compensating command appends
    MaxEvents,   \* bound on the length of the stream
    MaxRetries,  \* bound on Subscriber.MaxRetries
    Faults,      \* which faults happen, out of FaultKinds
    None

FaultKinds == {"crash", "error"}

\* Mode, OnExhausted, MaxRetries and Filter; a name without types is not registered.
Subscriber ==
    [mode : {"sync", "async"}, policy : {"dlq", "compensate", "drop"},
     retries : 0..MaxRetries, types : SUBSET (Range(Batch) \cup Range(Undo))]

\* durable: the runtime journals; asyncSend: SetAsyncSend was called.
Config == [durable : BOOLEAN, asyncSend : BOOLEAN, sub : [Subs -> Subscriber]]

Nested == Commands \X Subs
Invocations == Commands \cup Nested

\* Register refuses Async with Compensate.  A subscriber that compensates is
\* assumed to leave compensating events out: HandleCmd would nest without end.
ASSUME CommandBusAssumption ==
    /\ Order \in Seq(Subs) /\ Range(Order) = Subs /\ IsInjective(Order)
    /\ Configs \subseteq Config
    /\ \A c \in Configs : \A s \in Subs :
          c.sub[s].policy = "compensate" =>
              c.sub[s].mode = "sync" /\ c.sub[s].types \cap Range(Undo) = {}
    /\ MaxEvents \in Nat /\ MaxRetries \in Nat
    /\ Faults \subseteq FaultKinds
    /\ Batch # <<>> /\ Batch \in Seq(Range(Batch))
    /\ Undo # <<>> /\ Undo \in Seq(Range(Undo))
    /\ Commands \cap Nested = {} /\ None \notin Invocations

VARIABLES
    conf,        \* the bus, fixed when it is built
    log,         \* the stream: invocation (None: another writer) and type
    journal,     \* the recorded steps of each invocation
    inv,         \* the local variables of each invocation's HandleCmd
    child,       \* the child workflow or goroutine of an Async subscriber
    outcome,     \* what became of the batch of an invocation, by subscriber
    given,       \* versions of the states handed to Sync subscribers
    torn,        \* invocations with a commit that its journal entry does not follow
    hidden       \* Sync subscribers that ended between Handle and its journal entry

vars == <<conf, log, journal, inv, child, outcome, given, torn, hidden>>

TypesOf(i) == IF i \in Commands THEN Batch ELSE Undo

NoJournal == [append |-> <<>>, envs |-> {}, state |-> 0, task |-> [s \in Subs |-> "none"]]

NoInv ==
    [pc |-> "none", start |-> 0, end |-> 0, envs |-> {}, state |-> 0, next |-> 1,
     task |-> [s \in Subs |-> "none"], tries |-> [s \in Subs |-> 0], mutated |-> FALSE]

Init ==
    /\ conf \in Configs
    /\ log = <<>>
    /\ journal = [i \in Invocations |-> NoJournal]
    /\ inv = [i \in Invocations |-> NoInv]
    /\ child = [k \in Invocations \X Subs |-> [st |-> "none", tries |-> 0]]
    /\ outcome = [k \in Invocations \X Subs |-> {}]
    /\ given = [i \in Invocations |-> {}]
    /\ torn = {} /\ hidden = {}

Goto(i, pc) == inv' = [inv EXCEPT ![i].pc = pc]

\* An entry of the journal, for a runtime that has one.
Journal(i, entry) == journal' = IF conf.durable THEN [journal EXCEPT ![i] = entry] ELSE journal

Settle(i, s, what) == outcome' = [outcome EXCEPT ![<<i, s>>] = @ \cup {what}]

-------------------------------------------------------------------------------
(* Append, read back the events, load the state *)

Call(c) ==
    /\ inv[c].pc = "none"
    /\ Goto(c, "append")
    /\ UNCHANGED <<conf, log, journal, child, outcome, given, torn, hidden>>

OtherWriter ==
    /\ Len(log) < MaxEvents
    /\ log' = Append(log, [inv |-> None, type |-> Head(Batch)])
    /\ UNCHANGED <<conf, journal, inv, child, outcome, given, torn, hidden>>

\* appendStep: the step runs, and the decider accepts, does nothing or rejects.
Handle(i) ==
    /\ inv[i].pc = "append"
    /\ journal[i].append = <<>>
    /\ \/ /\ Len(log) + Len(TypesOf(i)) <= MaxEvents
          /\ log' = log \o [k \in 1..Len(TypesOf(i)) |-> [inv |-> i, type |-> TypesOf(i)[k]]]
          /\ inv' = [inv EXCEPT ![i].pc = "appended",
                                ![i].start = Len(log) + 1,
                                ![i].end = Len(log) + Len(TypesOf(i))]
       \/ Goto(i, "appended") /\ UNCHANGED log
       \/ Goto(i, "failed") /\ UNCHANGED log
    /\ UNCHANGED <<conf, journal, child, outcome, given, torn, hidden>>

NotRecorded(i) == UNCHANGED journal  \* mutant: the append is no step of its own
RecordAppend(i) == Journal(i, [journal[i] EXCEPT !.append = <<inv[i].start, inv[i].end>>])

AfterAppend(start) == IF start = 0 THEN "noop" ELSE "envs"

HandleRecorded(i) ==
    /\ inv[i].pc = "appended"
    /\ RecordAppend(i)
    /\ Goto(i, AfterAppend(inv[i].start))
    /\ UNCHANGED <<conf, log, child, outcome, given, torn, hidden>>

\* appendStep: the result comes from the journal.
HandleReplayed(i) ==
    /\ inv[i].pc = "append"
    /\ journal[i].append # <<>>
    /\ inv' = [inv EXCEPT ![i].pc = AfterAppend(journal[i].append[1]),
                          ![i].start = journal[i].append[1],
                          ![i].end = journal[i].append[2]]
    /\ UNCHANGED <<conf, log, journal, child, outcome, given, torn, hidden>>

\* No events: Load and return.
ReturnNoOp(i) ==
    /\ inv[i].pc = "noop"
    /\ inv' = [inv EXCEPT ![i].pc = "returned", ![i].state = Len(log)]
    /\ UNCHANGED <<conf, log, journal, child, outcome, given, torn, hidden>>

ReadToEnd(i) == inv[i].start..Len(log)  \* mutant: what others appended is not cut off
ReadStream(i) == inv[i].start..inv[i].end

ReadEnvelopes(i) ==
    LET envs == IF journal[i].envs # {} THEN journal[i].envs ELSE ReadStream(i)
    IN  /\ inv[i].pc = "envs"
        /\ inv' = [inv EXCEPT ![i].pc = "state", ![i].envs = envs]
        /\ Journal(i, [journal[i] EXCEPT !.envs = envs])
        /\ UNCHANGED <<conf, log, child, outcome, given, torn, hidden>>

LoadedAnew(i) == Len(log)  \* mutant: the state is loaded, not journaled
PostDecideState(i) == IF journal[i].state # 0 THEN journal[i].state ELSE Len(log)

ReadState(i) ==
    /\ inv[i].pc = "state"
    /\ inv' = [inv EXCEPT ![i].pc = "fanout", ![i].state = PostDecideState(i)]
    /\ Journal(i, [journal[i] EXCEPT !.state = PostDecideState(i)])
    /\ UNCHANGED <<conf, log, child, outcome, given, torn, hidden>>

-------------------------------------------------------------------------------
(* Fan-out *)

Sub(s) == conf.sub[s]
Matches(i, s) == \E v \in inv[i].envs : log[v].type \in Sub(s).types

Current(i) == Order[inv[i].next]
More(i) == inv[i].next <= Len(Order)

SkipFiltered(i) ==
    /\ inv[i].pc = "fanout"
    /\ More(i)
    /\ ~Matches(i, Current(i))
    /\ inv' = [inv EXCEPT ![i].next = @ + 1]
    /\ UNCHANGED <<conf, log, journal, child, outcome, given, torn, hidden>>

\* spawnAsync: asyncSend starts one child per workflowID; Spawn starts a goroutine
\* on every replay.
SpawnAsync(i) ==
    /\ inv[i].pc = "fanout"
    /\ More(i)
    /\ Matches(i, Current(i))
    /\ Sub(Current(i)).mode = "async"
    /\ inv' = [inv EXCEPT ![i].next = @ + 1]
    /\ child' = IF conf.asyncSend /\ child[<<i, Current(i)>>].st # "none" THEN child
                ELSE [child EXCEPT ![<<i, Current(i)>>] = [st |-> "run", tries |-> 0]]
    /\ UNCHANGED <<conf, log, journal, outcome, given, torn, hidden>>

\* runSyncSubscriber: RunAsync, which takes the result from the journal.
RunAsync(i) ==
    /\ inv[i].pc = "fanout"
    /\ More(i)
    /\ Matches(i, Current(i))
    /\ Sub(Current(i)).mode = "sync"
    /\ inv' = [inv EXCEPT ![i].next = @ + 1,
                          ![i].task[Current(i)] = IF journal[i].task[Current(i)] # "none"
                                                  THEN journal[i].task[Current(i)] ELSE "run"]
    /\ UNCHANGED <<conf, log, journal, child, outcome, given, torn, hidden>>

EndFanOut(i) ==
    /\ inv[i].pc = "fanout"
    /\ ~More(i)
    /\ Goto(i, "wait")
    /\ UNCHANGED <<conf, log, journal, child, outcome, given, torn, hidden>>

OneTooMany(s) == Sub(s).retries + 1  \* mutant: <= for <
Budget(s) == Sub(s).retries

\* runRetries of a Sync subscriber: one call of Handle.
SyncAttempt(i, s) ==
    /\ inv[i].task[s] = "run"
    /\ given' = [given EXCEPT ![i] = @ \cup {inv[i].state}]
    /\ \/ /\ inv' = [inv EXCEPT ![i].task[s] = "succeeded"]
          /\ Settle(i, s, "handled")
       \/ /\ inv' = [inv EXCEPT ![i].task[s] = IF inv[i].tries[s] < Budget(s) THEN "run" ELSE "gave up",
                                ![i].tries[s] = IF @ < Budget(s) THEN @ + 1 ELSE @]
          /\ UNCHANGED outcome
    /\ UNCHANGED <<conf, log, journal, child, torn, hidden>>

LastError(i, s) ==  \* mutant: lastErr outlives the retry that succeeded
    IF inv[i].task[s] = "succeeded" /\ inv[i].tries[s] = 0 THEN "ok" ELSE "exhausted"
\* What runSyncSubscriber returns as bytes: nil, or the last error.
Result(i, s) == IF inv[i].task[s] = "succeeded" THEN "ok" ELSE "exhausted"

\* The step of the subscriber is journaled.
RecordSync(i, s) ==
    /\ inv[i].task[s] \in {"succeeded", "gave up"}
    /\ inv' = [inv EXCEPT ![i].task[s] = Result(i, s)]
    /\ Journal(i, [journal[i] EXCEPT !.task[s] = Result(i, s)])
    /\ UNCHANGED <<conf, log, child, outcome, given, torn, hidden>>

WaitsForOne(i) ==  \* mutant: HandleCmd goes on after the first future
    \/ \A s \in Subs : inv[i].task[s] = "none"
    \/ \E s \in Subs : inv[i].task[s] \in {"ok", "exhausted"}
AllSettled(i) == \A s \in Subs : inv[i].task[s] \in {"none", "ok", "exhausted"}

WaitAll(i) ==
    /\ inv[i].pc = "wait"
    /\ AllSettled(i)
    /\ inv' = [inv EXCEPT ![i].pc = "apply", ![i].next = 1]
    /\ UNCHANGED <<conf, log, journal, child, outcome, given, torn, hidden>>

-------------------------------------------------------------------------------
(* Policies *)

Exhausted(i, policy) ==
    /\ inv[i].pc = "apply"
    /\ More(i)
    /\ inv[i].task[Current(i)] = "exhausted"
    /\ Sub(Current(i)).policy = policy

NothingToApply(i) ==
    /\ inv[i].pc = "apply"
    /\ More(i)
    /\ inv[i].task[Current(i)] # "exhausted"
    /\ inv' = [inv EXCEPT ![i].next = @ + 1]
    /\ UNCHANGED <<conf, log, journal, child, outcome, given, torn, hidden>>

Drop(i) ==
    /\ Exhausted(i, "drop")
    /\ Settle(i, Current(i), "dropped")
    /\ inv' = [inv EXCEPT ![i].next = @ + 1]
    /\ UNCHANGED <<conf, log, journal, child, given, torn, hidden>>

\* InsertSubscriberDLQ, an upsert that a replay may repeat.
DeadLetter(i) ==
    /\ Exhausted(i, "dlq")
    /\ Settle(i, Current(i), "dlq")
    /\ inv' = [inv EXCEPT ![i].next = @ + 1]
    /\ UNCHANGED <<conf, log, journal, child, given, torn, hidden>>

\* The nested HandleCmd, on a context the caller cannot cancel; Compensate fails.
StartCompensation(i) ==
    /\ i \in Commands
    /\ Exhausted(i, "compensate")
    /\ \/ inv' = [inv EXCEPT ![i].pc = "nested", ![<<i, Current(i)>>].pc = "append"]
       \/ Goto(i, "failed")
    /\ UNCHANGED <<conf, log, journal, child, outcome, given, torn, hidden>>

ForgetsMutated(i) == FALSE  \* mutant: the state of step 3 is returned
Mutated(i) == TRUE

EndCompensation(i) ==
    LET n == <<i, Current(i)>>
    IN  /\ i \in Commands
        /\ inv[i].pc = "nested"
        /\ \/ /\ inv[n].pc = "returned"
              /\ inv' = [inv EXCEPT ![i].pc = "apply", ![i].next = @ + 1, ![i].mutated = Mutated(i)]
              /\ Settle(i, Current(i), "compensated")
           \/ /\ inv[n].pc = "failed"
              /\ Goto(i, "failed")
              /\ UNCHANGED outcome
        /\ UNCHANGED <<conf, log, journal, child, given, torn, hidden>>

\* The journaled state, or the current one after a compensation.
Return(i) ==
    /\ inv[i].pc = "apply"
    /\ ~More(i)
    /\ inv' = [inv EXCEPT ![i].pc = "returned",
                          ![i].state = IF inv[i].mutated THEN Len(log) ELSE @]
    /\ UNCHANGED <<conf, log, journal, child, outcome, given, torn, hidden>>

-------------------------------------------------------------------------------
(* Async subscribers: DispatchAsync, or the goroutine of Spawn *)

AsyncAttempt(i, s) ==
    LET k == <<i, s>>
    IN  /\ child[k].st = "run"
        /\ \/ /\ child' = [child EXCEPT ![k].st = "done"]
              /\ Settle(i, s, "handled")
           \/ /\ child[k].tries < Budget(s)
              /\ child' = [child EXCEPT ![k].tries = @ + 1]
              /\ UNCHANGED outcome
           \/ /\ child[k].tries = Budget(s)
              /\ child' = [child EXCEPT ![k].st = "done"]
              /\ Settle(i, s, IF Sub(s).policy = "dlq" THEN "dlq" ELSE "dropped")
        /\ UNCHANGED <<conf, log, journal, inv, given, torn, hidden>>

-------------------------------------------------------------------------------
(* Faults *)

Running(i) == inv[i].pc \notin {"none", "returned", "failed", "lost"}

\* The process dies and what was running there starts over, if it is durable.
AfterCrash(i) ==
    IF i \in Nested \/ ~Running(i)
    THEN IF i \in Nested THEN NoInv ELSE inv[i]
    ELSE [NoInv EXCEPT !.pc = IF conf.durable THEN "append" ELSE "lost"]

ChildLost(k) ==  \* mutant: the child is a goroutine after all
    IF child[k].st # "run" THEN child[k] ELSE [st |-> "lost", tries |-> 0]

ChildAfterCrash(k) ==
    IF child[k].st # "run" THEN child[k]
    ELSE [st |-> IF conf.durable /\ conf.asyncSend THEN "run" ELSE "lost", tries |-> 0]

Crash ==
    /\ "crash" \in Faults
    /\ (\E i \in Commands : Running(i)) \/ (\E k \in DOMAIN child : child[k].st = "run")
    /\ inv' = [i \in Invocations |-> AfterCrash(i)]
    /\ child' = [k \in DOMAIN child |-> ChildAfterCrash(k)]
    /\ torn' = torn \cup {i \in Invocations : inv[i].pc = "appended" /\ inv[i].start > 0}
    /\ hidden' = hidden \cup {k \in Invocations \X Subs : inv[k[1]].task[k[2]] = "succeeded"}
    /\ UNCHANGED <<conf, log, journal, outcome, given>>

\* The answer to a commit is lost, or a read, decoding, an insert, the start of a
\* child, the wait for a step or the last Load fails: HandleCmd returns the error.
StepFails(i) ==
    /\ "error" \in Faults
    /\ \/ inv[i].pc \in {"appended", "noop", "envs", "state", "wait"}
       \/ inv[i].pc = "fanout" /\ inv[i].next = 1
       \/ inv[i].pc = "fanout" /\ More(i) /\ Matches(i, Current(i)) /\ Sub(Current(i)).mode = "async"
       \/ Exhausted(i, "dlq")
       \/ inv[i].pc = "apply" /\ ~More(i) /\ inv[i].mutated
    /\ Goto(i, "failed")
    /\ torn' = IF inv[i].pc = "appended" /\ inv[i].start > 0 THEN torn \cup {i} ELSE torn
    /\ UNCHANGED <<conf, log, journal, child, outcome, given, hidden>>

\* An error ends a dbos workflow; restate runs the invocation again.
Retried(c) ==
    LET mine == {c} \cup ({c} \X Subs)
    IN  /\ "error" \in Faults
        /\ conf.durable
        /\ inv[c].pc = "failed"
        /\ inv' = [i \in Invocations |-> IF i = c THEN [NoInv EXCEPT !.pc = "append"]
                                         ELSE IF i \in mine THEN NoInv ELSE inv[i]]
        /\ hidden' = hidden \cup {k \in mine \X Subs : inv[k[1]].task[k[2]] = "succeeded"}
        /\ UNCHANGED <<conf, log, journal, child, outcome, given, torn>>

\* DispatchAsync cannot load the state, or write the dead letter.
ChildFails(k) ==
    /\ "error" \in Faults
    /\ child[k].st = "run"
    /\ child' = [child EXCEPT ![k].st = "failed"]
    /\ UNCHANGED <<conf, log, journal, inv, outcome, given, torn, hidden>>

-------------------------------------------------------------------------------

InvStep(i) ==
    \/ Handle(i)
    \/ HandleRecorded(i)
    \/ HandleReplayed(i)
    \/ ReturnNoOp(i)
    \/ ReadEnvelopes(i)
    \/ ReadState(i)
    \/ SkipFiltered(i)
    \/ SpawnAsync(i)
    \/ RunAsync(i)
    \/ EndFanOut(i)
    \/ \E s \in Subs : SyncAttempt(i, s) \/ RecordSync(i, s)
    \/ WaitAll(i)
    \/ NothingToApply(i)
    \/ Drop(i)
    \/ DeadLetter(i)
    \/ StartCompensation(i)
    \/ EndCompensation(i)
    \/ Return(i)

AsyncStep(i) == \E s \in Subs : AsyncAttempt(i, s)

NormalStep ==
    \/ \E c \in Commands : Call(c)
    \/ OtherWriter
    \/ \E i \in Invocations : InvStep(i) \/ AsyncStep(i)

Fault ==
    \/ Crash
    \/ \E i \in Invocations : StepFails(i)
    \/ \E c \in Commands : Retried(c)
    \/ \E k \in DOMAIN child : ChildFails(k)

Next == NormalStep \/ Fault

Spec == Init /\ [][Next]_vars

(***************************************************************************)
(* Fairness.  A workflow and a goroutine that can take a step take one,    *)
(* since MaxRetries is not -1 here; faults cease at some point.            *)
(***************************************************************************)
FairSpec ==
    /\ Spec
    /\ \A i \in Invocations : WF_vars(InvStep(i)) /\ WF_vars(AsyncStep(i))
    /\ <>[][NormalStep]_vars

-------------------------------------------------------------------------------
(* Properties *)

Pcs == {"none", "append", "appended", "noop", "envs", "state", "fanout", "wait", "apply",
        "nested", "returned", "failed", "lost"}
Tasks == {"none", "run", "succeeded", "gave up", "ok", "exhausted"}
Versions == 0..MaxEvents

\* Type invariant.
TypeOK ==
    /\ conf \in Configs
    /\ log \in Seq([inv : Invocations \cup {None}, type : Range(Batch) \cup Range(Undo)])
    /\ Len(log) <= MaxEvents
    /\ inv \in [Invocations -> [pc : Pcs, start : Versions, end : Versions, envs : SUBSET Versions,
                                state : Versions, next : 1..(Len(Order) + 1), task : [Subs -> Tasks],
                                tries : [Subs -> 0..MaxRetries], mutated : BOOLEAN]]
    /\ \A i \in Invocations :
          /\ journal[i].append \in {<<>>} \cup (Versions \X Versions)
          /\ journal[i].task \in [Subs -> {"none", "ok", "exhausted"}]
          /\ journal[i].state \in Versions /\ journal[i].envs \subseteq Versions
    /\ child \in [Invocations \X Subs -> [st : {"none", "run", "done", "failed", "lost"}, tries : 0..MaxRetries]]
    /\ outcome \in [Invocations \X Subs -> SUBSET {"handled", "dlq", "dropped", "compensated"}]
    /\ given \in [Invocations -> SUBSET Versions]

Written(i) == {v \in 1..Len(log) : log[v].inv = i}

\* "No second commit happens": a replayed command appends again only if a crash, or
\* the error of a commit that succeeded, came between the commit and its journal entry.
CommitsOnce ==
    \A i \in Invocations : Cardinality(Written(i)) > Len(TypesOf(i)) => i \in torn

\* Subscribers get the events of the command, and no other writer's, in one batch.
BatchIsOwn ==
    \A i \in Invocations : inv[i].envs # {} =>
        inv[i].envs \subseteq Written(i) /\ Cardinality(inv[i].envs) = Len(TypesOf(i))

\* "Subscribers must observe a fixed value, not whatever the state_cache happens to
\* hold at replay time": all Sync subscribers of a command, in all replays, get one and
\* the same state, and it includes the command's events.
OneState ==
    \A i \in Invocations :
        /\ Cardinality(given[i]) <= 1
        /\ \A v \in given[i] : \A w \in Written(i) : w <= v

\* "Subscribers must see the value at the version this command produced, not whatever's
\* current": readStateStep gives Sync subscribers a state at the command's own version.
OwnState == \A i \in Invocations : given[i] \subseteq Written(i)

\* HandleCmd returns after every matching subscriber is settled: handled, or its
\* policy done, even if a sibling failed; an Async one at least has its child.
SettledOnReturn ==
    \A i \in Invocations : \A s \in Subs :
        inv[i].pc = "returned" /\ Matches(i, s) =>
            IF Sub(s).mode = "sync" THEN outcome[<<i, s>>] # {} ELSE child[<<i, s>>].st # "none"

\* A command is compensated, or goes to the dead letters, only if the subscriber
\* did not handle it, unless the crash hid that it had.
NotBoth ==
    \A i \in Invocations : \A s \in Subs :
        "handled" \in outcome[<<i, s>>] /\ outcome[<<i, s>>] # {"handled"} /\ Sub(s).mode = "sync" =>
            <<i, s>> \in hidden

\* After a compensation the caller gets a state that includes it.
ReturnsCompensated ==
    \A c \in Commands : \A s \in Subs :
        inv[c].pc = "returned" /\ "compensated" \in outcome[<<c, s>>] =>
            \A v \in Written(<<c, s>>) : v <= inv[c].state

\* No subscriber outcome yet for what i appended, and no error that explains it.
Undelivered(i, s) ==
    /\ \E v \in Written(i) : log[v].type \in Sub(s).types
    /\ outcome[<<i, s>>] = {}
    /\ inv[i].pc # "failed" /\ (i \in Nested => inv[i[1]].pc # "failed")
    /\ child[<<i, s>>].st # "failed"
    /\ i \notin torn

\* "At-least-once delivery is the framework's contract": with a durable runtime and
\* asyncSend, what a command appended reaches each subscriber or its policy in the
\* end, unless HandleCmd returned an error or the commit was torn from its journal
\* entry.
Delivered ==
    <>[](conf.durable /\ conf.asyncSend => \A i \in Invocations : \A s \in Subs : ~Undelivered(i, s))
===============================================================================
