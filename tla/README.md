# Verification of the event store

TLA+ specifications of the event store in `src/`, the TLC models that check
them on small instances, and TLAPS proofs of the central safety properties for
every instance.

## 1. The system

| Part | State | Operations | What is hard about it |
|---|---|---|---|
| Aggregate runtime (`aggregate/runtime.go`) | one `Handle` call's locals | Load (cache row, then tail), Decide, Append | two reads and one write in three transactions; any of them may fail |
| PostgreSQL store (`adapters/storage/postgres`) | `events`, `outbox`, `unique_claims`, `state_cache`, position sequence, advisory lock | Append, ReadStream, ReadAll, GetState | optimistic concurrency, a sequence that is not transactional, crashes inside the transaction |
| State cache rebuild (`aggregate/rebuild.go`) | in-memory fold, cursor | wipe, page, upsert | runs beside writers without their lock |
| Hash chain (`es/chain.go`) | `hash`, `prev_hash` columns | chaining at append, RebuildStreamChain, VerifyStreamChain | old rows without hashes, concurrent rebuilds |
| Outbox drain (`outbox/drain.go`) | outbox rows, drain lock, a Run's halted set and batch | Run, dead letters, cleanup; replay and abandon by operators | several drains, crashes between publish and mark, stale batches, lost locks |
| State stream (`state_stream/`) | position per subscriber and stream, drain lock | Run, RunOnce, resets by operators | redelivery, conflation, resets and rebuilds beside drains, progress with a failing subscriber |
| Projections (`projection/`, `linked/`) | checkpoint, dead letters, dedup marks, lock | RunOnce, Reset, ResetTo, abandon, cleanup | two runners, crash between handler and checkpoint, a reset beside a runner |
| Command bus (`cmdworkflow/` and its adapters) | workflow journal, subscriber dead letters | HandleCmd, DispatchAsync, retries, compensation | crash between a commit and its journal entry, replay |
| Crypto-shredding (`shred/`, `kms/`) | subject keys, key caches, KEK versions | Ensure, Encrypt, Decrypt, Forget, Rewrap, rotation, retention sweep | races between creating, forgetting, rewrapping and caches |
| SQLite store, publishers, tenancy, code generation, operator tools, edge | | | see section 7 |

The parts meet in three places.  The runtime appends through the store, whose
transaction also writes the outbox row, the claims and the cache row.  Drains,
projections and followers read what was committed, by global position.  The
rebuilders rewrite derived data while all of that goes on.  The command bus
wraps the runtime in a journaled workflow; the shredder is called by the runtime
for payload fields and by operators.

What has to be right:

- a stream is a gap-free sequence of events that never change;
- events become visible in position order, so a reader that remembers one
  position misses nothing;
- whatever a command decides on is a state the stream really had, and no event
  follows the one that closed the stream;
- a claimed key belongs to the stream whose events say so;
- cached states and hashes agree with the events, during rebuilds too;
- an event is delivered after its predecessors, is not lost, and does not wait
  for ever, whether it goes to subscribers of the outbox or to a projection;
- a state subscriber ends up with the latest version of every stream;
- a command commits once, its subscribers are settled before it returns, and a
  failed one is compensated instead of handled;
- what was encrypted stays readable until its subject is forgotten, and not
  after.

## 2. Modules

| Module | Models |
|---|---|
| `Decider` | the application's Decide, Evolve and IsTerminal, as freely as the runtime allows |
| `Ordering` | ORDER BY, LIMIT, MIN and MAX over sets of numbers |
| `EventStore` | Handle, every statement of the Append transaction, ReadAll followers |
| `EventLog` | what the store promises: one log, commands one at a time, followers with prefixes |
| `EventStoreRefinement` | the refinement mapping from `EventStore` to `EventLog` |
| `StateCacheRebuild` | `EventStore` composed with RebuildStateCache |
| `OutboxDrain` | drains, drain lock, dead letters, operators, faults |
| `HashChain` | RebuildStreamChain beside appends and other rebuilds |
| `Projection` | runners of a projection, its lock, checkpoint, handlers (plain, WithDedup, linked), operators |
| `StateStream` | drains of one state subscriber, positions, resets, RebuildStateCache |
| `Shredder` | subject keys, DEK caches, rotation, rewrapping, the retention sweep |
| `CommandBus` | HandleCmd over a journal, its subscribers, compensation, asynchronous children |
| `MC...` | model values, deployments and symmetry for TLC, one per specification |
| `Listing` | what the proofs use of `Ordering`, as one definition (`OrderingFacts`) |
| `OrderingProofs` | the proof of `OrderingFacts` |
| `EventStoreProofs` | the proofs about `EventStore`, its refinement of `EventLog`, and `StateCacheRebuild` |
| `HashChainProofs`, `OutboxDrainProofs`, `ProjectionProofs`, `StateStreamProofs`, `ShredderProofs`, `CommandBusProofs` | the proofs about one component each |

### How state and actions correspond to the code

`EventStore`.  `events`, `claims` and `cache` are the committed tables,
`sequence` the `global_position` sequence, `lock` the advisory transaction lock
of `queries/append.sql`, `h[w]` one Handle call with the uncommitted writes of
its transaction.  GetState and ReadStream are Load, Decided is the terminal
check and Decide; AdvisoryLock, ClaimUnique, ReleaseUnique, LastStreamHash,
InsertEvent and Commit are the transaction; Fail is any error return or crash.
Every event gets one outbox row in the same statement group, so an event stands
for its row.  Transactions are READ COMMITTED.

A state is the sequence of payloads folded into it and a hash is the sequence
of contents it covers: two of them are equal only if the code could not tell
them apart.  `Decide` may return any batch that is legal in the state it is
given.  It is assumed to release only keys its stream holds, since
ReleaseUnique deletes a claim whoever owns it.

`StateCacheRebuild` adds Wipe, ReadPage, UpsertCachedState and RebuildReturns,
each a transaction of its own.  A cache row carries both the schema column and
the schema its bytes were really encoded with; a runtime takes the row by the
column and decodes the bytes (`Decoded`), which yields something else than the
state when the two differ.

`OutboxDrain` starts from what `EventStore` establishes (positions become
visible in order, with their outbox rows) and models Run line by line: Start
(the lock), ReadQuarantined, Fetch, Skip, PublishSucceeds or PublishFails,
MarkOutboxPublished or MarkOutboxFailed, AfterFailure (OnDLQ and halting),
EndBatch, CleanupAndReturn.  A publish that fails may have delivered.  Faults
are chosen per run: crash, store error, cancelled context, operators working
from an outdated listing.

A failed row is due at once, or `cooling` until its backoff has expired, at any
later time: whatever `computeNextAttemptAt` returns, an overflowed delay
included, is one of these cases.

`HashChain` keeps one stream; Legacy rows have no hash.  Each UPDATE of a
rebuild is a step, from the copy of the stream it read at its start.

`Projection`.  `log` is the committed events in position order (what
`EventStore` establishes), `cursor` the row of `projection_checkpoint`, `lock`
the session lock, `run[r]` the local variables of RunOnce.  Start, Load, Read,
SkipOtherShard, the handler, FailStop or DeadLetter, EndBatch and SaveAndReturn
are its statements.  A handler is one of three: plain (an effect that may also
happen when an error is returned), WithDedup (DedupLookup, DedupInner,
DedupMark) and linked (LinkedHandler, which appends a derived event together
with its claim).  `effects`, `applied`, `marks`, `unmarked` record what the read
model shows, what is marked and where a run ended between effect and mark;
`dlq` and `abandoned` are the dead letters.  Rebuild empties the read model and
calls Reset; `StopFirst` says whether the operator stops the runners before.

`StateStream`.  `head` is the version of each stream in the log, `cache` that of
its `state_cache` row, `order` the order of `updated_at`, `pos` the subscriber's
positions, `stored` the versions the subscriber has.  ListStreamsBehind,
SkipOtherShard, PublishState, DeliveryFails, AdvanceStateStreamPosition,
NextBatch and EndRun are runBatch and its loop.  The receiver ignores a version
it has, as the repository asks of receivers and its example does.
RebuildStateCache runs beside all of it: WipeStateCacheForType, ReadAll (the
pages up to the last, as one read), UpsertCachedState per stream, possibly with
an older version than an append has written since, RebuildEnds.  Resets happen
at any time.

`Shredder`.  `row` is `subject_keys`, `cache[p]` the DEK cache of a process,
`sealed` the ciphertexts (subject and DEK), `kek` the current KEK version,
`th[t]` one call.  Each call to the store or the key store is a step of its own:
EncryptField and DecryptField are GetSubjectKey, WrapDEK, UpsertSubjectKey,
CacheAndUse; ForgetSubject is the update and then Evict; RewrapDEKs and the sweep
go page by page, and a sweep may find its context cancelled between two pages.
`OneCreator` says whether the first encryptions of a subject are kept apart, as
an application does that encrypts a subject's fields only from its own stream;
nothing else is.

`CommandBus`.  `log` is the stream, `inv[i]` one HandleCmd, `journal[i]` its
durable steps, `child` the asynchronous deliveries, `outcome` what became of
each subscriber, `given` the states handed out.  `torn` and `hidden` record
where a run ended between an effect and its journal entry: `torn` the
invocations whose append, `hidden` the subscribers whose Handle, was done and
not journaled.  HandleRecorded and HandleReplayed, ReadEnvelopes,
ReadState, the fan-out, WaitAll, and Drop, DeadLetter or StartCompensation are
its steps; a compensation is a nested HandleCmd.  The three runtimes differ in
`durable` (is there a journal) and `asyncSend` (is a spawned child journaled).
A crash resets a durable invocation to its start, with its journal, and ends
another one.  StepFails is the error of any step, among them an append whose
commit took effect although an error came back, and the last Load after a
compensation.

A definition that stands directly before the one it imitates and is commented
as a mutant is not part of the model: put in its place, it breaks the
property it was written for, which shows that the property depends on that
piece of code.

## 3. Runs

Passing:

| Run | Checks |
|---|---|
| `store` | the inductive invariant of the proofs (sequences, positions, cache), followers that skip nothing, the chain, closed streams, claims that agree with the history, and that `EventStore` implements `EventLog` |
| `rebuild` | the rebuild folds exactly what lies below its cursor, every row is a fold nobody misreads, and Load stays correct, beside writers of two schemas and a foreign stream |
| `drain` | five deployments (locked with operators and faults, with backoff, with batches of one, skipping dead rows, sharded): order of delivery, nothing lost, exclusive work, a gap is always alerted, every event settles |
| `chain` | success means intact, a false alarm only after a fork, the chain gets rebuilt |
| `projection` | six deployments (three handlers, with and without lock and dead letters): nothing skipped, in order, effects once, the checkpoint moves back only by a reset, every event is reached |
| `shred` | ciphertexts keep their key, caches agree with the table, a sweep is complete unless cancelled, repeated rewraps get every row off the old KEKs |
| `state_stream` | five deployments: a stream that is not behind is delivered in its version, one drain per stream, convergence beside a failing stream |
| `bus` | five buses (durable or not, asyncSend or not): one commit, own events, one state, all settled on return, handled or compensated, the caller sees the compensation, asynchronous deliveries happen |

Two liveness properties carry an exception, because the code does not do without
it.  Settles excepts an event while as many rows of quarantined streams as a
batch takes come before it, and Converges a stream while as many failing streams
do (`Crowded`).  Both runs have a deployment with batches of one in which that
happens; without the exceptions TLC finds the event that waits for ever.

Disagreements between the code and what the repository says of it; each run
ends with TLC's counterexample:

| Run | Statement | What happens |
|---|---|---|
| `projection_reset` | stopping the runner before Reset is optional (`es/projection_admin.go:66`); the inconsistency is "transient" (ADR 0020) | the runner saves the checkpoint it had loaded before the Reset, and the replay never happens |
| `shred_race` | "safe for concurrent use" (`shred/shred.go:61`), "DEKs themselves do not rotate" (ADR 0010) | two first encryptions of a subject: the second key overwrites the first, and what the first call encrypted is lost |
| `shred_forget` | ForgetSubject "destroys the DEK" (`shred/shred.go:170`), "safe for concurrent use" (`:61`) | RewrapDEKs has read the row before; its upsert (`:228`) writes the wrapped DEK back and the tombstone keeps it |
| `bus_own_state` | subscribers see "the value at the version this command produced, not whatever's current" (`cmdworkflow/bus.go:489`, ADR 0029) | another writer appends between commit and Load (`:502`), and its events are in the state handed out |

### Bounds

In `store`, two streams, two writers, one follower and three positions are enough
for the interleavings the properties are about: two transactions on one stream
or on two, a failed insert that burns a position, a follower between two
commits, a batch of two with a claim and a release.  Claims and followers have
nothing in common but the events, and the constraint `KeysOrFollowers` leaves out
the behaviours in which a key is used and a follower reads.  A page size of one
makes every ReadAll return part of what is there.  `rebuild` has no keys and no
followers, but two writers of different schemas.

In `drain`, two streams, two drains and up to three events give a head and a
successor in one stream while the other has work of its own; `MaxAttempts = 2`
lets a failure be transient before a row is dead-lettered.  With batches of one
a quarantined row takes the place of every other, with batches of two it does
not.

In `projection` two runners and two events make one runner save behind the
other; batches of one and two make a batch end before, at and after the failing
event.  One of two streams belongs to the runner's shard.  In `state_stream` a
stream changes twice, so that a drain or a rebuild can hold an old version while
another delivers the new one.  In `shred` two processes with one thread each, two
subjects, two DEKs and two KEK versions let a wrap under the first version be
stored after a rewrap to the second has listed the stale rows; pages of one row
make every loop go round.  In `bus` one command of two events with its
compensating command, a second writer, two subscribers and one retry give each
policy a sibling that succeeds or fails before it.

`MaxPosition`, `MaxEvents`, `MaxRows`, `MaxKeys`, `MaxKEK` and `MaxVersion` bound
the histories; they are guards of the actions, and in the proofs they are
arbitrary, like every other constant.  Deployments are records chosen in Init,
so that one run covers several.  Streams and writers are symmetric in `store`,
whose properties are all safety properties; no run with a liveness property uses
symmetry.  The runs of the bus do not check for deadlock, since all commands end.

### Fairness

- `OutboxDrain`, `StateStream`, `Projection`: a scheduler calls Run (or RunOnce)
  again and again and a Run takes its next step, backoffs expire, the pool
  recycles idle sessions (pgx closes connections after their maximum lifetime),
  and from some time on every step is a normal one: crashes, errors,
  cancellations and operators cease.  (Saying instead that no step is a fault
  would also forbid a normal return, which is the same step as an error return
  with nothing to clean up.)  A publisher, a subscriber or a handler may fail
  for ever.
- `Shredder`: calls come to their end, and RewrapDEKs is started again and again
  however busy the threads are ("Run after every KEK rotation, then once a
  quarter as a defensive sweep", cookbook 11); restarts and errors cease.  Traffic
  never does.
- `HashChain`: operators repeat a rebuild that was interrupted or raced, and
  interruptions cease.
- `CommandBus`: a running invocation or child takes its next step, and crashes
  and failures of steps cease.  A durable runtime restarts what a crash stopped.

## 4. Proofs

All proofs are for any sets of streams, writers, drains, runners, processes and
subjects and for any bounds.  The assumptions are the named ASSUMEs of the
modules (bounds are numbers, `None` is not a member of the sets it is used
beside, deployments are records of their type, a bus lists each subscriber once,
a command and its compensation have events and different names) and those
stated here.

The queries of the store are finite sets put in order.  What the proofs need of
MIN, MAX, LIMIT and ORDER BY is the definition `OrderingFacts` in `Listing`,
proved as `OrderingHolds`.  The modules that read pages take it, or the part they
need, as a hypothesis of their lemmas, so that the provers do not see the library
on finite sets at every step.  Each discharges it in its last section, and no
theorem has it as a hypothesis.

`EventStoreProofs`: `StoreInvariant`, and from it `TypeCorrect`,
`StreamsStaySequences`, `PositionsStayUnique`, `FollowersNeverSkip`,
`CacheStaysFold`, `LoadReturnsHistory`, `ClosedStaysFinal`, and the action
properties `EventsAppendOnly` and `EventsAppearInOrder`.  None of them is
inductive by itself.  NoSkip, for instance, needs to
know that a row about to be committed has a larger position than all committed
ones, which holds because its writer drew it while holding the lock and nobody
else has committed since.  `StoreInv` adds this as `CallOK`: a writer is inside
its transaction exactly when it holds the lock; its state is the fold of a true
prefix of the stream; if it has staged a row, that prefix is the whole stream;
staged positions lie above everything committed.  With it:

- steps that change one call only keep the invariant if they keep that call in
  order (`LocalStep`); this covers all but two actions;
- Commit extends a stream from 1..n to 1..n+k (`CommitAppends`), keeps every
  prefix another call works on (`CommitKeepsHistories`), and its new positions
  are above all others (`CommitPositions`);
- ReadAll hands out a lower set of what is behind the cursor (`FirstOfClosed` in
  `OrderingProofs`), and a cursor always rests on a committed position, so
  nothing can appear behind it.

Four more layers rest on `StoreInv`:

- `ChainsStayIntact`: `ChainInv` says that committed rows are linked and that the
  rows a transaction has staged link to the head of the stream they will extend;
- `ClaimsAreHistory`: `ClaimsInv` says that a committed key belongs to the stream
  whose last operation on it was a claim, and that what a writer has claimed and
  released so far is the effect of the first operations of its batch;
- `StoreImplementsLog`: every step of `EventStore` is a step of `EventLog` or
  leaves it unchanged.  Commit is the append of the whole batch and ReadAll the
  follower's read; all others stutter.  `SeenInv` (a follower has been handed
  exactly what is committed up to its cursor) makes what a follower has seen a
  prefix of the log;
- `RebuildFoldsAPrefix` and `RebuildKeepsHistory`: `RebuildInv` says that the
  rebuild's folds are those of what is committed below its cursor, and the
  invariant of the store holds with the rebuild's writes to the cache.  Both are
  for applications without encrypted payloads (`PIIKinds = {}`), since the
  rebuild folds those without decryption, and whose rebuilds run with schema 1 or
  whose runtimes all have another (`Recognised`), since the rows are stamped 1
  (section 6).

`HashChainProofs`: `RebuildLeavesChain`, `HashesNeverOverwritten` and
`BrokenMeansForked`.  The invariant says that a rebuild's copy is a prefix of the stream whose rows have
changed at most from no hash to a hash, and that the part it has walked is
chained up to `prev`.  For the last, `LinkInv` adds that as long as no row starts
a chain in the middle of the stream, every row with a hash continues the one
before it.

`OutboxDrainProofs`: `DrainLosesNothing` without further assumptions;
`DrainDeliversInOrder` and `DrainRowsNotStale` if a shard has one drain or the
drains lock (`OneDrainPerShard`); `DrainAlertsGaps` if, besides, only operators
disturb a deployment that skips dead rows.  The invariant relates each row of a
batch to the outbox: until the drain gets to it, nobody but an operator has
touched it, and every earlier row of its stream is closed, or comes first in the
batch, or is dead and holds the stream.

`ProjectionProofs`, for operators who stop the runners before a reset
(`StopFirst`): `ProjectionSkipsNothing`, `ProjectionAppliesInOrder`,
`ProjectionEffectsOnce`, `ProjectionMovesForward`.  The invariant says that
everything a run has passed is settled, that with the lock its cursor is the
stored one, and that an effect that happened is marked, about to be marked by
the one running handler, or recorded as unmarked.

`StateStreamProofs`, with resets and rebuilds at any time:
`CaughtUpMeansDelivered`, `StreamsHaveOneDrain`, `OnlyResetsMoveBack`.  The
invariant bounds positions by what was delivered; a drain about to advance has
delivered at least the version it will write.

`ShredderProofs`: `SweepForgetsAll` without further assumptions; `KeysOpenAll` and
`CachedKeysOpenAll` if first encryptions of a subject are kept apart.  The central
part is `OneKey`: row, caches, ciphertexts and the locals of every call agree on
one DEK per subject, also where a rewrap writes back the key of a subject
forgotten meanwhile.  The run `shred_race` shows that the condition is needed.

`CommandBusProofs`, for every mixture of buses, commands and subscribers and
under crashes, failing steps and other writers: `BusTypes`,
`CommandsCommitOnce`, `BatchesAreOwn`, `SubscribersShareState`,
`SubscribersSettled`, `HandledIsNotGivenUp`, `CallersSeeCompensation`.  The
inductive invariant `BusInv` is built in layers; each is kept with the help of
those before it:

| Layer | Says |
|---|---|
| `Typed` | types; only a command whose turn is at a subscriber waits for a compensation |
| `NestInv` | which compensations of a command can run, and that before the fan-out no task has begun |
| `AppendInv` | the versions an invocation or its journal remembers are those of its own events |
| `OnceInv` | an invocation that is not `torn` has appended one batch or none, and none if it may still append |
| `PlaceInv` | what the program counter says of the other variables |
| `JournalInv` | a journal agrees with the invocation it belongs to |
| `StateInv` | the state handed out is the journaled one and covers the command's events |
| `ChildInv`, `TaskInv` | how far the asynchronous and the synchronous subscribers have come |
| `OutcomeInv` | what became of the batch at each subscriber |
| `ReturnsCompensated` | a state returned after a compensation includes it |

The steps are sorted by what they do to one invocation (it rests, begins,
restarts, or acts), so that a layer has a few cases and not one per action.

## 5. Model-checked only

- The liveness properties (Settles, ChainGetsRebuilt, CatchesUp, OldKEKsFallOut,
  Converges, Delivered) stay with TLC: the prover handles neither fairness nor
  ENABLED.

Every other property of the passing runs is a theorem.  Type invariants other
than the bus's are proved and not repeated in the runs.

## 6. Limits of the code that the models show

These follow from the code as modelled and have no run of their own.  The
properties are stated so that they hold with them, and say where they end.

- Rebuild: rows are stored as schema 1 whatever the runtime's version
  (`aggregate/rebuild.go:148`): a rebuild by a runtime of schema 2 beside one of
  schema 1 makes the latter decode bytes that are not its own, and with
  `RebuildSchema = 2` TLC finds LoadedIsHistory violated.  Encrypted payloads are
  folded without decryption (`:100`), and a newer cache row may be overwritten by
  an older one.  Load repairs only the last, by reading the tail.
- Chain: an append behind a row without a hash starts a chain of its own
  (`postgres/append.go:115`), and RebuildStreamChain then reports an untouched
  stream as broken.
- Drain: a cancelled Run leaves the lock with a pooled session until the pool
  closes it (`outbox/drain.go:123`).  As many rows of quarantined streams as the
  batch size hide every later stream (`:227`), against "stream Y's events don't
  wait for stream X's failures" (`:27`); rows of other shards hide it until their
  own drain has worked them off (`:222`).  Without `BackoffMax` the two caps
  (`:300`, `:306`) are off and the doubling overflows after some sixty failures;
  the row is then retried at once.  With `BackoffMax` alone there is no delay
  (`:293`), where cookbook 06 has a fixed one.  Two drains without lock or shards
  do not keep the order of a stream.  A crash, or a mark that took effect but
  returned an error, loses the OnDLQ call (`:242`).
- State stream: the runbook for redactions (cookbook 13) rebuilds the cache and
  resets positions so that subscribers get the redacted state.  It has the same
  version, and a receiver that ignores versions it has (`es/state_envelope.go:35`,
  cookbook 13, `examples/statestream/index.go:72`) ignores it.  A reset while
  drains run, which the runbook does not exclude, may also be undone by the drain
  that then advances.  Between a rebuild's wipe and its upsert a stream is not
  listed; an upsert of an older version hides the newer one until the next
  append.  All shards share one lock key, so a looping shard with a failing
  stream keeps the others out.  As many failing streams as the batch size hide
  the rest (`state_stream/drain.go:146`), although ADR 0024 and cookbook 13 say
  that a failing stream blocks no other, and Run does not return while a delivery
  fails (`:105`).
- Command bus: a crash between the commit and the journal entry runs the command
  again (`cmdworkflow/bus.go:444`; the set `torn` names these).  A crash between
  a subscriber's Handle and its journal entry calls it again, and if it then
  gives up, the batch is both handled and compensated or dead-lettered
  (`hidden`).  The state given
  to subscribers may be later than the command's version (`bus_own_state`).  An
  error that hides a commit (`:444`) leaves the invocation `torn` as well if it is
  run again; an error after the commit is returned without fan-out, unless the
  runtime runs the invocation again, and Delivered excepts these.  Without asyncSend a child does not survive the process
  (`:563`).  With `MaxRetries = -1` the loop does not look at its context
  (`:630`).  A compensating subscriber that matches its own compensating events
  nests without end; the constant assumption excludes it.
- Shredder: ForgetSubject evicts only the cache of its own process, and not even
  that if the update took effect but returned an error (`shred/shred.go:175`);
  other processes go on opening the subject's data from their caches, although
  cookbook 11 says that encryption and decryption fail from then on.  A first
  encryption that wraps its DEK under the old KEK and stores it after RewrapDEKs
  has listed the stale rows keeps the old KEK in use: one rewrap after a rotation
  is not enough to retire it, and a later one is (OldKEKsFallOut).  A retention
  sweep whose context is cancelled returns without an error and with subjects
  left (`shred/retention.go:153`, `:219`).
  OnShredded is lost in a crash behind the destruction
  (`shred/retention.go:235`).

## 7. Not modelled

- Subject export (`shred/dsar.go`) reads the log and writes records.  It changes
  no state.
- SQLite's append runs as one transaction of a single writer, a special case of
  `EventStore`; of its other parts only the missing drain lock appears.
- Drains for one tenant, and with `MaxAttempts = 0`, which retry for ever.
  Tenants are part of every key and isolated by PostgreSQL policies.
- Queue routing of the workflow runtimes, and DBOS and Restate themselves.
- The administration of subscriber dead letters, which the bus does not read.
- Ciphers, codecs, transports and key stores, which are environment.
- Code generation, the generated packages (most of the lines of the repository),
  operator tools, authorization and the HTTP edge keep no protocol state.
