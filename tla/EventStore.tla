------------------------------ MODULE EventStore ------------------------------
(***************************************************************************)
(* The write path of the event store and the reads that race with it.      *)
(*                                                                         *)
(* Each writer runs aggregate.Runtime.Handle: GetState and ReadStream (two *)
(* separate transactions), Decide, then one Append transaction made of the *)
(* statements of adapters/storage/postgres/append.go.  Followers page      *)
(* through ReadAll by global position.  Writers and followers interleave   *)
(* at every statement; a writer may fail at any of them.                   *)
(*                                                                         *)
(* Transactions run at READ COMMITTED: a statement reads what is committed *)
(* plus its own writes, which stay in h[w] until Commit.                   *)
(***************************************************************************)
EXTENDS Decider, Ordering

CONSTANTS
    Writers,      \* concurrent Handle calls
    Followers,    \* consumers of ReadAll
    CodecWriters, \* the writers whose runtime has a StateCodec
    Schema,       \* the StateSchemaVersion of each writer's runtime
    PageSize,     \* the limit passed to ReadAll
    MaxPosition   \* bound on the global_position sequence

ASSUME EventStoreAssumption ==
    /\ CodecWriters \subseteq Writers
    /\ Schema \in [Writers -> Nat \ {0}]
    /\ PageSize \in Nat \ {0}
    /\ MaxPosition \in Nat
    /\ None \notin Writers

VARIABLES
    events,   \* committed rows of table events: stream -> version -> row
    sequence, \* last value handed out by the global_position sequence
    claims,   \* table unique_claims: key -> owning stream, or None
    cache,    \* table state_cache: stream -> row, or NoRow
    lock,     \* holder of the store-wide advisory transaction lock, or None
    h,        \* each writer's Handle call: local variables and uncommitted writes
    cursor,   \* each follower's position
    seen      \* positions each follower has been handed

vars == <<events, sequence, claims, cache, lock, h, cursor, seen>>

-------------------------------------------------------------------------------
(* Rows and helpers *)

(***************************************************************************)
(* es.ComputeChainHash digests the predecessor's hash and the event.  With *)
(* a collision-free digest a hash stands for everything it covers, so it   *)
(* is modelled as the sequence of (version, payload) pairs of the chain.   *)
(***************************************************************************)
Hash == Seq([version : Nat, payload : Payload])
ZeroHash == <<>>
ComputeChainHash(prev, v, p) == Append(prev, [version |-> v, payload |-> p])

Row == [pos : 1..MaxPosition, payload : Payload, prev : Hash, hash : Hash]

\* schema is the column, enc the schema the bytes of state were encoded with.
NoRow == [version |-> 0, state |-> <<>>, terminal |-> FALSE, schema |-> 0, enc |-> 0]
CacheRow == [version : Nat, state : Seq(Payload), terminal : BOOLEAN, schema : Nat, enc : Nat]

Versions(s) == DOMAIN events[s]

\* Positions of the rows a reader can see.
Committed ==
    {p \in 1..MaxPosition : \E s \in Streams : \E v \in Versions(s) : events[s][v].pos = p}

Idle ==
    [pc |-> "idle", stream |-> None, version |-> 0, state |-> <<>>, events |-> <<>>,
     ops |-> {}, claims |-> <<>>, prev |-> ZeroHash, rows |-> <<>>]

Init ==
    /\ events = [s \in Streams |-> <<>>]
    /\ sequence = 0
    /\ claims = [k \in Keys |-> None]
    /\ cache = [s \in Streams |-> NoRow]
    /\ lock = None
    /\ h = [w \in Writers |-> Idle]
    /\ cursor = [f \in Followers |-> 0]
    /\ seen = [f \in Followers |-> {}]

-------------------------------------------------------------------------------
(* aggregate.Runtime.Load and Decide *)

\* Load uses a cached row only if its schema column is the runtime's own.
Usable(w, row) == w \in CodecWriters /\ row.version > 0 /\ row.schema = Schema[w]

\* StateCodec.Decode: bytes of another schema that happen to decode are misread.
Decoded(w, row) ==
    IF row.enc = Schema[w] THEN row.state
    ELSE [i \in DOMAIN row.state |-> [kind |-> "misread", key |-> None]]

\* Load, first read: the state_cache row.  A row that fails to decode is ignored.
GetState(w, s) ==
    /\ h[w].pc = "idle"
    /\ \/ /\ Usable(w, cache[s])
          /\ h' = [h EXCEPT ![w] = [Idle EXCEPT !.pc = "load", !.stream = s,
                                        !.version = cache[s].version,
                                        !.state = Decoded(w, cache[s])]]
       \/ h' = [h EXCEPT ![w] = [Idle EXCEPT !.pc = "load", !.stream = s]]
    /\ UNCHANGED <<events, sequence, claims, cache, lock, cursor, seen>>

\* WHERE version > @after_version.
TailVersions(w) == {v \in Versions(h[w].stream) : v > h[w].version}

\* Load, second read: the tail of the stream, ordered by version, folded in.
ReadStream(w) ==
    LET s == h[w].stream
        tail == TailVersions(w)
        order == InOrder(tail)
    IN  /\ h[w].pc = "load"
        /\ h' = [h EXCEPT ![w].pc = "decide",
                    ![w].version = IF tail = {} THEN @ ELSE Largest(tail),
                    ![w].state = Evolve(@, [i \in 1..Cardinality(tail) |-> events[s][order[i]].payload])]
        /\ UNCHANGED <<events, sequence, claims, cache, lock, cursor, seen>>

\* Mutant: the IsTerminal check is missing.
DecidedOnClosed(w) ==
    /\ h[w].pc = "decide"
    /\ \E b \in Decide(h[w].state) :
           h' = [h EXCEPT ![w].pc = "begin", ![w].events = b,
                    ![w].ops = {i \in DOMAIN b : IsConstraintOp(b[i])}]
    /\ UNCHANGED <<events, sequence, claims, cache, lock, cursor, seen>>

\* Handle: a closed stream answers ErrTerminal; otherwise Decide yields a batch.
\* (A Decide error and an empty batch also end the call: see Fail.)
Decided(w) ==
    /\ h[w].pc = "decide"
    /\ ~IsTerminal(h[w].state)
    /\ \E b \in Decide(h[w].state) :
           h' = [h EXCEPT ![w].pc = "begin", ![w].events = b,
                    ![w].ops = {i \in DOMAIN b : IsConstraintOp(b[i])}]
    /\ UNCHANGED <<events, sequence, claims, cache, lock, cursor, seen>>

-------------------------------------------------------------------------------
(* Adapter.Append: the statements of one transaction *)

\* Mutant: a session-level lock, which a rollback does not free.
RollbackKeepsLock(w) == h' = [h EXCEPT ![w] = Idle] /\ UNCHANGED lock

\* The transaction ends without effect: its writes are dropped, the lock freed.
Rollback(w) ==
    /\ h' = [h EXCEPT ![w] = Idle]
    /\ lock' = IF lock = w THEN None ELSE lock

\* Mutant: Append does not take the lock.
AdvisoryLockMissing(w) ==
    /\ h[w].pc = "begin"
    /\ h' = [h EXCEPT ![w].pc = "constrain"]
    /\ UNCHANGED <<events, sequence, claims, cache, lock, cursor, seen>>

AdvisoryLock(w) ==
    /\ h[w].pc = "begin"
    /\ lock = None
    /\ lock' = w
    /\ h' = [h EXCEPT ![w].pc = "constrain"]
    /\ UNCHANGED <<events, sequence, claims, cache, cursor, seen>>

\* unique_claims as the transaction of w sees it.
ClaimOf(w, k) == IF k \in DOMAIN h[w].claims THEN h[w].claims[k] ELSE claims[k]

\* The constraint operation whose turn it is.
NextOp(w) == h[w].events[Smallest(h[w].ops)]

WriteClaim(w, k, owner) ==
    h' = [h EXCEPT ![w].ops = @ \ {Smallest(@)},
             ![w].claims = [x \in DOMAIN @ \cup {k} |-> IF x = k THEN owner ELSE @[x]]]

\* The insert into unique_claims succeeds.
KeyUpserted(w, k) == TRUE  \* mutant: ON CONFLICT DO UPDATE
KeyFree(w, k) == ClaimOf(w, k) = None

ClaimUnique(w) ==
    /\ h[w].pc = "constrain"
    /\ h[w].ops # {}
    /\ NextOp(w).kind = "claim"
    /\ LET k == NextOp(w).key
       IN  /\ \A x \in Writers \ {w} : k \notin DOMAIN h[x].claims  \* the index waits
           /\ IF KeyFree(w, k)
              THEN WriteClaim(w, k, h[w].stream) /\ UNCHANGED lock
              ELSE Rollback(w)                    \* ErrConstraintViolated
    /\ UNCHANGED <<events, sequence, claims, cache, cursor, seen>>

\* ReleaseUnique deletes by key, whichever stream owns the row.
ReleaseUnique(w) ==
    /\ h[w].pc = "constrain"
    /\ h[w].ops # {}
    /\ NextOp(w).kind = "release"
    /\ WriteClaim(w, NextOp(w).key, None)
    /\ UNCHANGED <<events, sequence, claims, cache, lock, cursor, seen>>

\* The hash of the stream's last row.
NoPredecessor(s) == ZeroHash  \* mutant: every batch starts a new chain
PredecessorHash(s) ==
    IF Versions(s) = {} THEN ZeroHash ELSE events[s][Largest(Versions(s))].hash

LastStreamHash(w) ==
    /\ h[w].pc = "constrain"
    /\ h[w].ops = {}
    /\ h' = [h EXCEPT ![w].pc = "insert", ![w].prev = PredecessorHash(h[w].stream)]
    /\ UNCHANGED <<events, sequence, claims, cache, lock, cursor, seen>>

\* The version the next insert of w uses: ExpectedVersion + i + 1.
NextVersion(w) == h[w].version + Len(h[w].rows) + 1

\* The unique index makes an insert wait for another transaction's pending row.
KeyPending(w, v) ==
    \E x \in Writers \ {w} :
        h[x].stream = h[w].stream /\ v \in (h[x].version + 1)..(h[x].version + Len(h[x].rows))

\* The primary key (tenant, stream, version) rejects the insert.
Taken(w, v) == v \in Versions(h[w].stream)

\* DEFAULT nextval of global_position.
NextValue == sequence + 1

(***************************************************************************)
(* InsertEvent and InsertOutbox for one event.  The sequence value is      *)
(* consumed even when the insert hits the primary key and rolls back.      *)
(* Every event gets exactly one outbox row, keyed by its position, so the  *)
(* rows themselves stand for the outbox.                                   *)
(***************************************************************************)
InsertEvent(w) ==
    LET v == NextVersion(w)
        p == h[w].events[Len(h[w].rows) + 1]
        hash == ComputeChainHash(h[w].prev, v, p)
    IN  /\ h[w].pc = "insert"
        /\ Len(h[w].rows) < Len(h[w].events)
        /\ sequence < MaxPosition
        /\ ~KeyPending(w, v)
        /\ sequence' = sequence + 1
        /\ IF Taken(w, v)
           THEN Rollback(w)                       \* ErrConflict
           ELSE /\ h' = [h EXCEPT ![w].prev = hash,
                            ![w].rows = Append(@, [pos |-> NextValue, payload |-> p,
                                                   prev |-> h[w].prev, hash |-> hash])]
                /\ UNCHANGED lock
        /\ UNCHANGED <<events, claims, cache, cursor, seen>>

\* UpsertStateCache: the state Handle folded from the batch, at the version it ends at.
NewCacheRow(w) ==
    LET st == Evolve(h[w].state, h[w].events)
    IN  [version |-> h[w].version + Len(h[w].events), state |-> st,
         terminal |-> IsTerminal(st), schema |-> Schema[w], enc |-> Schema[w]]

Commit(w) ==
    LET s == h[w].stream
        base == h[w].version
        n == Len(h[w].rows)
    IN  /\ h[w].pc = "insert"
        /\ n = Len(h[w].events)
        /\ events' = [events EXCEPT ![s] =
               [v \in DOMAIN @ \cup (base + 1)..(base + n) |->
                    IF v \in (base + 1)..(base + n) THEN h[w].rows[v - base] ELSE @[v]]]
        /\ claims' = [k \in Keys |-> ClaimOf(w, k)]
        /\ cache' = IF w \in CodecWriters THEN [cache EXCEPT ![s] = NewCacheRow(w)] ELSE cache
        /\ lock' = None
        /\ h' = [h EXCEPT ![w] = Idle]
        /\ UNCHANGED <<sequence, cursor, seen>>

\* Any step of Handle may return early: ErrTerminal, a Decide error or empty
\* batch, a failed read, a cancelled context, a lost connection or a crash.
Fail(w) ==
    /\ h[w].pc # "idle"
    /\ Rollback(w)
    /\ UNCHANGED <<events, sequence, claims, cache, cursor, seen>>

-------------------------------------------------------------------------------
(* Adapter.ReadAll, called again and again from the last position returned *)

\* The first PageSize committed positions after c.
Page(c) == FirstOf({p \in Committed : p > c}, PageSize)

ReadAll(f) ==
    /\ Page(cursor[f]) # {}
    /\ cursor' = [cursor EXCEPT ![f] = Largest(Page(@))]
    /\ seen' = [seen EXCEPT ![f] = @ \cup Page(cursor[f])]
    /\ UNCHANGED <<events, sequence, claims, cache, lock, h>>

-------------------------------------------------------------------------------

AppendStep(w) ==
    \/ AdvisoryLock(w)
    \/ ClaimUnique(w)
    \/ ReleaseUnique(w)
    \/ LastStreamHash(w)
    \/ InsertEvent(w)
    \/ Commit(w)

HandleStep(w) ==
    \/ \E s \in Streams : GetState(w, s)
    \/ ReadStream(w)
    \/ Decided(w)
    \/ AppendStep(w)
    \/ Fail(w)

Next ==
    \/ \E w \in Writers : HandleStep(w)
    \/ \E f \in Followers : ReadAll(f)

Spec == Init /\ [][Next]_vars

-------------------------------------------------------------------------------
(* Properties *)

\* The payloads of stream s, by version.
Contents(s) == [v \in Versions(s) |-> events[s][v].payload]

\* st is the fold of exactly the first v events of stream s.
IsHistory(s, v, st) ==
    /\ Len(st) = v
    /\ \A u \in 1..v : u \in Versions(s) /\ events[s][u].payload = st[u]

HandleRecord ==
    [pc : {"idle", "load", "decide", "begin", "constrain", "insert"},
     stream : Streams \cup {None}, version : Nat, state : Seq(Payload),
     events : Seq(Payload), ops : SUBSET Nat,
     claims : UNION {[K -> Streams \cup {None}] : K \in SUBSET Keys},
     prev : Hash, rows : Seq(Row)]

\* Type invariant: every table, cursor and local variable has the shape the
\* schema and the Go types give it.
TypeOK ==
    /\ events = [s \in Streams |-> events[s]]
    /\ \A s \in Streams : Versions(s) \subseteq Nat /\ events[s] \in [Versions(s) -> Row]
    /\ sequence \in 0..MaxPosition
    /\ claims \in [Keys -> Streams \cup {None}]
    /\ cache \in [Streams -> CacheRow]
    /\ lock \in Writers \cup {None}
    /\ h \in [Writers -> HandleRecord]
    /\ cursor \in [Followers -> 0..MaxPosition]
    /\ seen \in [Followers -> SUBSET (1..MaxPosition)]

\* What a Handle call may rely on between any two of its statements: only the
\* holder of the advisory lock is in its transaction; the call works on a true
\* prefix of its stream, and once a row is staged on the whole of it; staged
\* rows carry the batch at positions above everything committed.
CallOK(w) ==
    LET c == h[w]
    IN  /\ lock = w <=> c.pc \in {"constrain", "insert"}
        /\ c.pc # "idle" => c.stream \in Streams /\ IsHistory(c.stream, c.version, c.state)
        /\ c.pc \in {"begin", "constrain", "insert"} =>
               /\ ~IsTerminal(c.state)
               /\ c.events \in Decide(c.state)
               /\ c.ops \subseteq DOMAIN c.events
        /\ c.pc # "insert" => c.rows = <<>>
        /\ c.rows # <<>> => Versions(c.stream) = 1..c.version
        /\ Len(c.rows) <= Len(c.events)
        /\ \A i \in DOMAIN c.rows :
               /\ c.rows[i].payload = c.events[i]
               /\ c.rows[i].pos <= sequence
               /\ \A p \in Committed : p < c.rows[i].pos
               /\ \A j \in DOMAIN c.rows : j < i => c.rows[j].pos < c.rows[i].pos

\* Append writes ExpectedVersion+1, +2, ...: although writers load stale
\* versions and fail half-way, a stream never has a missing version, and its
\* global positions increase with its versions.
StreamsAreSequences ==
    \A s \in Streams : \A v \in Versions(s) :
        /\ \A u \in 1..v : u \in Versions(s)
        /\ \A u \in Versions(s) : u < v => events[s][u].pos < events[s][v].pos

\* No two events of the store share a global position.
PositionsUnique ==
    \A s, t \in Streams : \A u \in Versions(s), v \in Versions(t) :
        events[s][u].pos = events[t][v].pos => s = t /\ u = v

\* A follower that only remembers the last position ReadAll returned never
\* skips an event: whatever is committed at or below its cursor, it was handed.
\* (The sequence leaves holes and is not transactional; the advisory lock is
\* what makes this true.)
NoSkip ==
    \A f \in Followers : \A p \in Committed : p <= cursor[f] => p \in seen[f]

\* es.VerifyStreamChain succeeds on every stream at every moment: each stored
\* hash is the digest of the stored hash before it and the event itself.
ChainIntact ==
    \A s \in Streams : \A v \in Versions(s) :
        LET before == {u \in Versions(s) : u < v}
            prev == IF before = {} THEN ZeroHash ELSE events[s][Largest(before)].hash
        IN  /\ events[s][v].hash = ComputeChainHash(prev, v, events[s][v].payload)
            /\ events[s][v].prev = prev

\* A runtime that takes the row's bytes for its own schema's is right to do so.
StampedRight(row) == \A w \in CodecWriters : row.schema = Schema[w] => row.enc = Schema[w]

\* A state_cache row is the fold of exactly the events up to its version, and a
\* runtime that takes its bytes for its own schema's is right to do so, for every
\* mix of runtimes with and without a StateCodec and of schema versions.
CacheIsFold ==
    \A s \in Streams : cache[s] # NoRow =>
        /\ IsHistory(s, cache[s].version, cache[s].state)
        /\ cache[s].terminal = IsTerminal(cache[s].state)
        /\ StampedRight(cache[s])

\* Whatever Handle decides on is a state the stream really had: Load never
\* mixes a cached row with a tail that does not continue it.
LoadedIsHistory ==
    \A w \in Writers : h[w].pc # "idle" => IsHistory(h[w].stream, h[w].version, h[w].state)

\* unique_claims agrees with the event history: a key belongs to a stream
\* exactly when the stream's own events say it claimed and kept it, so no two
\* streams ever both believe they hold it.
ClaimsMatchHistory ==
    \A k \in Keys : \A s \in Streams : claims[k] = s <=> Holds(Contents(s), k)

\* Nothing is ever appended behind the event that made a stream terminal,
\* although the terminal check and the insert are in different transactions.
ClosedIsFinal ==
    \A s \in Streams : \A v \in Versions(s) :
        events[s][v].payload.kind = "close" => \A u \in Versions(s) : u <= v

\* The inductive invariant behind the safety properties above (the hash chain
\* and the claims apart): every call is in order, streams are intervals of
\* versions, positions stay below the sequence, and a follower rests on a
\* position it was really handed.
StoreInv ==
    /\ TypeOK
    /\ \A w \in Writers : CallOK(w)
    /\ \A s \in Streams : \E n \in {0} \cup Versions(s) : Versions(s) = 1..n
    /\ StreamsAreSequences
    /\ PositionsUnique
    /\ \A p \in Committed : p <= sequence
    /\ CacheIsFold
    /\ ClosedIsFinal
    /\ NoSkip
    /\ \A f \in Followers : cursor[f] = 0 \/ cursor[f] \in Committed

\* Committed events are immutable: no step changes or removes one.
AppendOnly ==
    [][\A s \in Streams : \A v \in Versions(s) :
           v \in DOMAIN events'[s] /\ events'[s][v] = events[s][v]]_vars

\* The gap-free guarantee of queries/append.sql: of two committed rows, the one
\* with the smaller position became visible no later than the other.
VisibleInOrder == [][\A p \in Committed' \ Committed : \A q \in Committed : q < p]_vars
===============================================================================
