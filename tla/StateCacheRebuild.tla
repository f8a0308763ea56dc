-------------------------- MODULE StateCacheRebuild --------------------------
(***************************************************************************)
(* aggregate.RebuildStateCache running beside the write path: wipe the     *)
(* state_cache, page through all events folding them in memory, then       *)
(* upsert one row per stream.  Every store call is its own transaction and *)
(* none takes the append lock, so Handle calls interleave with all of it.  *)
(***************************************************************************)
EXTENDS EventStore

CONSTANTS
    RebuildSchema, \* StateSchemaVersion of the runtime passed to the rebuild
    PIIKinds,      \* payload kinds stored encrypted (events with PII fields)
    Foreign        \* streams of other aggregate types, unknown to the runtime's codec

ASSUME RebuildAssumption == RebuildSchema \in Nat \ {0} /\ Foreign \subseteq Streams

VARIABLE rb  \* the rebuild's local variables

allVars == <<vars, rb>>

\* The entry of a stream no event of which was folded yet.
Unfolded == [version |-> 0, state |-> <<>>]

RebuildIdle ==
    [pc |-> "idle", cursor |-> 0, streams |-> [s \in Streams |-> Unfolded], todo |-> {}]

RebuildInit == Init /\ rb = RebuildIdle

\* WipeStateCacheForType deletes by type_url: rows of other types stay.
Wipe ==
    /\ rb.pc = "idle"
    /\ cache' = [s \in Streams |-> IF s \in Foreign THEN cache[s] ELSE NoRow]
    /\ rb' = [RebuildIdle EXCEPT !.pc = "read"]
    /\ UNCHANGED <<events, sequence, claims, lock, h, cursor, seen>>

\* Codec.Decode without DecryptPII: a PII payload is folded as its ciphertext.
Decode(p) == IF p.kind \in PIIKinds THEN [p EXCEPT !.kind = "ciphertext"] ELSE p

\* Mutant: the fold starts anew on every page.
FoldedAnew(s, page) ==
    LET vs == {v \in Versions(s) : events[s][v].pos \in page}
    IN  IF vs = {} THEN rb.streams[s]
        ELSE [version |-> Largest(vs), state |-> <<events[s][Largest(vs)].payload>>]

\* One page folded into the entry of stream s, in position order.  Events the
\* codec cannot decode are skipped; they still move the cursor (ReadPage).
Folded(s, page) ==
    LET vs == {v \in Versions(s) : s \notin Foreign /\ events[s][v].pos \in page}
        order == InOrder({events[s][v].pos : v \in vs})
        at(p) == CHOOSE v \in vs : events[s][v].pos = p
    IN  IF vs = {} THEN rb.streams[s]
        ELSE [version |-> at(order[Len(order)]),
              state |-> Evolve(rb.streams[s].state,
                               [i \in DOMAIN order |-> Decode(events[s][at(order[i])].payload)])]

ReadPage ==
    LET page == Page(rb.cursor)
    IN  /\ rb.pc = "read"
        /\ IF page # {}
           THEN rb' = [rb EXCEPT !.cursor = Largest(page),
                                 !.streams = [s \in Streams |-> Folded(s, page)]]
           ELSE rb' = [rb EXCEPT !.pc = "write",
                                 !.todo = {s \in Streams : rb.streams[s] # Unfolded}]
        /\ UNCHANGED vars

\* Mutant: the row is stamped with the stream's current version.
RowAtHead(s) ==
    LET st == rb.streams[s].state
    IN  [version |-> Largest(Versions(s)), state |-> st, terminal |-> IsTerminal(st),
         schema |-> 1, enc |-> RebuildSchema]

\* UpsertCachedState overwrites whatever row is there.  The row carries no
\* StateSchemaVersion, and the adapter turns the missing value into 1.
RebuiltRow(s) ==
    LET st == rb.streams[s].state
    IN  [version |-> rb.streams[s].version, state |-> st, terminal |-> IsTerminal(st),
         schema |-> 1, enc |-> RebuildSchema]

\* The streams are a Go map: any order.
UpsertCachedState(s) ==
    /\ rb.pc = "write"
    /\ s \in rb.todo
    /\ cache' = [cache EXCEPT ![s] = RebuiltRow(s)]
    /\ rb' = [rb EXCEPT !.todo = @ \ {s}]
    /\ UNCHANGED <<events, sequence, claims, lock, h, cursor, seen>>

\* The rebuild returns: all rows written, or an error or a crash part-way.
RebuildReturns ==
    /\ rb.pc # "idle"
    /\ rb' = RebuildIdle
    /\ UNCHANGED vars

RebuildStep ==
    \/ Wipe
    \/ ReadPage
    \/ \E s \in Streams : UpsertCachedState(s)
    \/ RebuildReturns

RebuildNext == (Next /\ UNCHANGED rb) \/ RebuildStep

RebuildSpec == RebuildInit /\ [][RebuildNext]_allVars

-------------------------------------------------------------------------------
(* Properties.  LoadedIsHistory of EventStore must survive the rebuild; the   *)
(* one below is about it.                                                     *)

\* The stamp 1 the rebuilt rows get is the schema they are encoded with, or one
\* that no runtime that reads them has.
Recognised == RebuildSchema = 1 \/ \A w \in CodecWriters : Schema[w] # 1

\* The rebuild's in-memory fold of each stream of its type is exactly the events
\* of the stream at or below its cursor, whatever commits while it pages and
\* whatever it skips.
RebuildFoldsPrefix ==
    rb.pc # "idle" => \A s \in Streams \ Foreign :
        /\ IsHistory(s, rb.streams[s].version, rb.streams[s].state)
        /\ \A v \in Versions(s) : events[s][v].pos <= rb.cursor <=> v <= rb.streams[s].version
===============================================================================
