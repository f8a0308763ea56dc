--------------------------- MODULE EventStoreProofs ---------------------------
(***************************************************************************)
(* StoreInv is an inductive invariant of EventStore, for any number of     *)
(* streams, writers, followers and events.                                 *)
(*                                                                         *)
(* Most steps change one writer's local record and nothing that is         *)
(* committed: for those LocalStep reduces the proof to CallOK of that      *)
(* writer.  Commit and ReadAll are the two steps that change what others   *)
(* see.                                                                    *)
(*                                                                         *)
(* On top of it: ChainInv (the hash chains of committed and staged rows),  *)
(* ClaimsInv (unique_claims and what a writer holds of it agree with the   *)
(* history), SeenInv (a follower holds a prefix of the log), the step by   *)
(* step refinement of EventLog, and RebuildInv (RebuildStateCache running  *)
(* beside the writers).                                                    *)
(*                                                                         *)
(* The lemmas about steps take what they use of MIN, MAX, LIMIT and        *)
(* ORDER BY as the hypothesis OrderingFacts; the last section proves it    *)
(* and states the theorems without it.                                     *)
(***************************************************************************)
EXTENDS EventStoreRefinement, StateCacheRebuild, Listing, TLAPS

USE Zenon

(* MIN, MAX, LIMIT and ORDER BY *)

\* MIN of the constraint operations that are left.
LEMMA SmallestFact ==
    ASSUME OrderingFacts, NEW S \in SUBSET Nat, S # {}
    PROVE  Smallest(S) \in S /\ \A y \in S : Smallest(S) <= y
BY DEF OrderingFacts, NumberFacts, MinExists

\* MAX of the versions or positions read.
LEMMA LargestFact ==
    ASSUME OrderingFacts, NEW S \in SUBSET Nat, S # {}, NEW n \in Nat, \A y \in S : y <= n
    PROVE  Largest(S) \in S /\ \A y \in S : y <= Largest(S)
BY DEF OrderingFacts, NumberFacts, MaxExists

\* LIMIT of a page.
LEMMA FirstOfFact ==
    ASSUME OrderingFacts, NEW n \in Nat, NEW S \in SUBSET (1..n), NEW k \in Nat,
           NEW x \in FirstOf(S, k), NEW y \in S, y <= x
    PROVE  y \in FirstOf(S, k)
BY DEF OrderingFacts, NumberFacts, LimitIsLower

\* ORDER BY position over a set of rows lists them by position.
LEMMA InOrderListed ==
    ASSUME OrderingFacts, NEW n \in Nat, NEW S \in SUBSET (1..n)
    PROVE  /\ Cardinality(S) \in Nat
           /\ InOrder(S) \in Seq(S) /\ Len(InOrder(S)) = Cardinality(S)
           /\ \A i, j \in 1..Cardinality(S) : i < j => InOrder(S)[i] < InOrder(S)[j]
BY DEF OrderingFacts, NumberFacts, SetsInOrder

\* It leaves none of them out.
LEMMA InOrderComplete ==
    ASSUME OrderingFacts, NEW n \in Nat, NEW S \in SUBSET (1..n)
    PROVE  \A x \in S : \E i \in 1..Cardinality(S) : InOrder(S)[i] = x
BY DEF OrderingFacts, NumberFacts, SetsInOrder

\* The largest element of an interval is its upper end.
LEMMA LastOfInterval ==
    ASSUME NEW a \in Nat, NEW b \in Nat, a <= b
    PROVE  Largest(a..b) = b
BY SMTT(30), SMTT(60) DEF Largest

-------------------------------------------------------------------------------
(* The invariant of the store *)

\* The parts of StoreInv that speak of committed data only.
DataInv ==
    /\ \A s \in Streams : \E n \in {0} \cup Versions(s) : Versions(s) = 1..n
    /\ StreamsAreSequences
    /\ PositionsUnique
    /\ CacheIsFold
    /\ ClosedIsFinal
    /\ NoSkip
    /\ \A f \in Followers : cursor[f] = 0 \/ cursor[f] \in Committed

\* The idle record is a well-typed record.
LEMMA IdleType == Idle \in HandleRecord
<1>1. <<>> \in UNION {[K -> Streams \cup {None}] : K \in SUBSET Keys}
  <2>1. <<>> \in [{} -> Streams \cup {None}]
    BY SMTT(30), SMTT(60)
  <2> QED
    BY <2>1
<1>2. <<>> \in Seq(Payload) /\ <<>> \in Hash /\ <<>> \in Seq(Row)
  BY SMTT(30), SMTT(60) DEF Hash
<1> QED
  BY <1>1, <1>2 DEF Idle, HandleRecord, ZeroHash

\* The fields of a writer's record have the types HandleRecord gives them.
LEMMA CallType ==
    ASSUME TypeOK, NEW w \in Writers
    PROVE  /\ h[w] \in HandleRecord
           /\ h[w].version \in Nat
           /\ h[w].state \in Seq(Payload)
           /\ h[w].events \in Seq(Payload)
           /\ h[w].ops \in SUBSET Nat
           /\ h[w].prev \in Hash
           /\ h[w].rows \in Seq(Row)
           /\ \A i \in DOMAIN h[w].rows : h[w].rows[i] \in Row /\ h[w].rows[i].pos \in Nat
<1>1. h[w] \in HandleRecord
  BY DEF TypeOK
<1>2. h[w].rows \in Seq(Row)
  BY <1>1 DEF HandleRecord
<1>3. \A i \in DOMAIN h[w].rows : h[w].rows[i] \in Row
  BY <1>2, SMTT(30), SMTT(60)
<1>4. \A r \in Row : r.pos \in Nat
  BY EventStoreAssumption, SMTT(30), SMTT(60) DEF Row
<1> QED
  BY <1>1, <1>2, <1>3, <1>4 DEF HandleRecord

\* Folding a batch into a state appends it.
LEMMA EvolveFacts ==
    ASSUME NEW st \in Seq(Payload), NEW evs \in Seq(Payload)
    PROVE  /\ Evolve(st, evs) \in Seq(Payload)
           /\ Len(Evolve(st, evs)) = Len(st) + Len(evs)
           /\ \A i \in 1..Len(st) : Evolve(st, evs)[i] = st[i]
           /\ \A i \in 1..Len(evs) : Evolve(st, evs)[Len(st) + i] = evs[i]
BY SMTT(30), SMTT(60) DEF Evolve

\* A history followed by the events that come next is a history.
LEMMA HistoryExtends ==
    ASSUME NEW s \in Streams, NEW v \in Nat, NEW n \in Nat, v <= n,
           NEW st \in Seq(Payload), IsHistory(s, v, st),
           NEW page \in Seq(Payload), Len(page) = n - v,
           \A i \in 1..(n - v) : v + i \in Versions(s) /\ events[s][v + i].payload = page[i]
    PROVE  Evolve(st, page) \in Seq(Payload) /\ IsHistory(s, n, Evolve(st, page))
<1>1. Evolve(st, page) \in Seq(Payload)
  BY SMTT(30), SMTT(60) DEF Evolve
<1>2. Len(st) = v
  BY DEF IsHistory
<1>3. Len(Evolve(st, page)) = n
  <2>1. Len(Evolve(st, page)) = Len(st) + Len(page)
    BY EvolveFacts
  <2> QED
    BY <1>2, <2>1, SMTT(30), SMTT(60)
<1>4. ASSUME NEW u \in 1..n
      PROVE  u \in Versions(s) /\ events[s][u].payload = Evolve(st, page)[u]
  <2>1. CASE u <= v
    <3>1. Evolve(st, page)[u] = st[u]
      BY <1>2, <2>1, SMTT(30), SMTT(60) DEF Evolve
    <3> QED
      BY <2>1, <3>1, SMTT(30), SMTT(60) DEF IsHistory
  <2>2. CASE u > v
    <3>1. Evolve(st, page)[u] = page[u - v]
      BY <1>2, <2>2, SMTT(30), SMTT(60) DEF Evolve
    <3>2. u - v \in 1..(n - v) /\ v + (u - v) = u
      BY <2>2, SMTT(30), SMTT(60)
    <3> QED
      BY <3>1, <3>2
  <2> QED
    BY <2>1, <2>2, SMTT(30), SMTT(60)
<1> QED
  BY <1>1, <1>3, <1>4 DEF IsHistory

\* What Decide returns is a non-empty sequence of payloads.
LEMMA BatchType ==
    ASSUME NEW st, NEW b \in Decide(st)
    PROVE  b \in Seq(Payload) /\ Len(b) \in Nat \ {0} /\ DOMAIN b = 1..Len(b)
<1>1. PICK n \in 1..MaxBatch : b \in [1..n -> Payload]
  BY DEF Decide, Batches
<1> QED
  BY <1>1, DeciderAssumption, SMTT(30), SMTT(60)

\* What Commit does to the tables: it appends the staged rows, in order, to a
\* stream that still ends where the call loaded it, and touches no other row.
LEMMA CommitAppends ==
    ASSUME StoreInv, NEW w \in Writers, Commit(w), NEW c \in HandleRecord, c = h[w]
    PROVE  /\ c.stream \in Streams /\ c.version \in Nat /\ c.rows \in Seq(Row)
           /\ Len(c.rows) \in Nat \ {0} /\ Len(c.rows) = Len(c.events)
           /\ Versions(c.stream) = 1..c.version
           /\ events' = [t \in Streams |-> IF t = c.stream THEN events'[c.stream] ELSE events[t]]
           /\ DOMAIN events'[c.stream] = 1..(c.version + Len(c.rows))
           /\ \A v \in 1..c.version : events'[c.stream][v] = events[c.stream][v]
           /\ \A i \in 1..Len(c.rows) : events'[c.stream][c.version + i] = c.rows[i]
<1>1. c = h[w]
  OBVIOUS
<1>2. CallOK(w) /\ c.pc = "insert" /\ c.stream \in Streams
  BY <1>1 DEF Commit, StoreInv, CallOK
<1>3. c.version \in Nat /\ c.rows \in Seq(Row)
  BY <1>1, CallType DEF StoreInv
<1>4. PICK n \in Nat \ {0} : n = Len(c.rows) /\ n = Len(c.events)
  <2>1. Len(c.rows) = Len(c.events) /\ c.events \in Decide(c.state)
    BY <1>1, <1>2 DEF Commit, CallOK
  <2> QED
    BY <2>1, BatchType
<1>5. Versions(c.stream) = 1..c.version
  <2>1. c.rows # <<>>
    BY <1>3, <1>4
  <2> QED
    BY <1>1, <1>2, <2>1 DEF CallOK
<1> DEFINE new == [v \in DOMAIN events[c.stream] \cup (c.version + 1)..(c.version + n) |->
                      IF v \in (c.version + 1)..(c.version + n) THEN c.rows[v - c.version]
                      ELSE events[c.stream][v]]
<1>6. events' = [events EXCEPT ![c.stream] = new]
  BY <1>1, <1>4 DEF Commit
<1>7. events = [t \in Streams |-> events[t]]
  BY DEF StoreInv, TypeOK
<1>8. events' = [t \in Streams |-> IF t = c.stream THEN new ELSE events[t]]
  <2> HIDE DEF new
  <2> QED
    BY <1>6, <1>7
<1>9. events'[c.stream] = new
  BY <1>2, <1>8
<1>10. DOMAIN new = 1..(c.version + n)
  <2>1. DOMAIN new = 1..c.version \cup (c.version + 1)..(c.version + n)
    BY <1>5 DEF Versions
  <2> QED
    BY <1>3, <1>4, <2>1, SMTT(30), SMTT(60)
<1>11. \A v \in 1..c.version : new[v] = events[c.stream][v]
  <2>1. ASSUME NEW v \in 1..c.version
        PROVE  v \in DOMAIN events[c.stream] /\ v \notin (c.version + 1)..(c.version + n)
    BY <1>3, <1>4, <1>5, SMTT(30), SMTT(60) DEF Versions
  <2> QED
    BY <2>1
<1>12. \A i \in 1..n : new[c.version + i] = c.rows[i]
  <2>1. ASSUME NEW i \in 1..n
        PROVE  c.version + i \in (c.version + 1)..(c.version + n) /\ (c.version + i) - c.version = i
    BY <1>3, <1>4, SMTT(30), SMTT(60)
  <2> QED
    BY <2>1
<1> HIDE DEF new
<1> QED
  BY <1>2, <1>3, <1>4, <1>5, <1>8, <1>9, <1>10, <1>11, <1>12

\* The rows a commit adds: each one is visible from now on, nothing else is,
\* and all of them lie above everything that was visible before.
LEMMA CommitPositions ==
    ASSUME StoreInv, NEW w \in Writers, Commit(w)
    PROVE  /\ Committed \subseteq Committed'
           /\ \A p \in Committed' \ Committed :
                  p <= sequence /\ p \in Nat /\ \A q \in Committed : q < p
<1>1. PICK c \in HandleRecord : c = h[w]
  BY CallType DEF StoreInv
<1> DEFINE s == c.stream  base == c.version  rows == c.rows  n == Len(c.rows)
<1>2. /\ s \in Streams /\ base \in Nat /\ rows \in Seq(Row) /\ n \in Nat \ {0}
      /\ Versions(s) = 1..base
      /\ events' = [t \in Streams |-> IF t = s THEN events'[s] ELSE events[t]]
      /\ DOMAIN events'[s] = 1..(base + n)
      /\ \A v \in 1..base : events'[s][v] = events[s][v]
      /\ \A i \in 1..n : events'[s][base + i] = rows[i]
  BY <1>1, CommitAppends, ZenonT(60)
<1>3. \A i \in 1..n : /\ rows[i].pos \in Nat
                      /\ rows[i].pos <= sequence
                      /\ \A q \in Committed : q < rows[i].pos
  <2>1. CallOK(w)
    BY DEF StoreInv
  <2>2. DOMAIN rows = 1..n
    BY <1>2, SMTT(30), SMTT(60)
  <2>3. \A i \in DOMAIN rows : rows[i].pos \in Nat
    BY <1>1, CallType DEF StoreInv
  <2> QED
    BY <1>1, <2>1, <2>2, <2>3 DEF CallOK
<1> HIDE DEF s, base, rows, n
<1>4. \A t \in Streams : t # s => events'[t] = events[t]
  BY <1>2
<1>5. Committed \subseteq Committed'
  <2>1. ASSUME NEW t \in Streams, NEW v \in Versions(t)
        PROVE  v \in DOMAIN events'[t] /\ events'[t][v] = events[t][v]
    <3>1. CASE t = s
      BY <1>2, <3>1, SMTT(30), SMTT(60)
    <3>2. CASE t # s
      BY <1>4, <3>2 DEF Versions
    <3> QED
      BY <3>1, <3>2
  <2> QED
    BY <2>1, ZenonT(60) DEF Committed, Versions
<1>6. ASSUME NEW p \in Committed', p \notin Committed
      PROVE  \E i \in 1..n : p = rows[i].pos
  <2>1. PICK t \in Streams : \E v \in DOMAIN events'[t] : events'[t][v].pos = p
    BY DEF Committed, Versions
  <2>2. PICK v \in DOMAIN events'[t] : events'[t][v].pos = p
    BY <2>1
  <2>3. p \in 1..MaxPosition
    BY DEF Committed
  <2>4. t = s /\ v \notin 1..base
    <3>1. CASE t # s
      BY <1>4, <1>6, <2>2, <2>3, <3>1 DEF Committed, Versions
    <3>2. CASE t = s /\ v \in 1..base
      BY <1>2, <1>6, <2>2, <2>3, <3>2 DEF Committed
    <3> QED
      BY <3>1, <3>2
  <2>5. v - base \in 1..n /\ base + (v - base) = v
    BY <1>2, <2>4, SMTT(30), SMTT(60)
  <2> QED
    BY <1>2, <2>2, <2>4, <2>5
<1> QED
  BY <1>3, <1>5, <1>6, ZenonT(60)

\* Committed rows survive every commit.
LEMMA CommitKeepsRows ==
    ASSUME StoreInv, NEW w \in Writers, Commit(w), NEW t \in Streams, NEW v \in Versions(t)
    PROVE  v \in Versions(t)' /\ events'[t][v] = events[t][v]
<1>1. PICK c \in HandleRecord : c = h[w]
  BY CallType DEF StoreInv
<1>2. /\ c.stream \in Streams /\ c.version \in Nat /\ Len(c.rows) \in Nat
      /\ Versions(c.stream) = 1..c.version
      /\ events' = [u \in Streams |-> IF u = c.stream THEN events'[c.stream] ELSE events[u]]
      /\ DOMAIN events'[c.stream] = 1..(c.version + Len(c.rows))
      /\ \A u \in 1..c.version : events'[c.stream][u] = events[c.stream][u]
  BY <1>1, CommitAppends
<1>3. CASE t = c.stream
  <2>1. v \in 1..c.version
    BY <1>2, <1>3
  <2>2. v \in 1..(c.version + Len(c.rows))
    BY <1>2, <2>1, SMTT(30), SMTT(60)
  <2> QED
    BY <1>2, <1>3, <2>1, <2>2 DEF Versions
<1>4. CASE t # c.stream
  <2>1. events'[t] = events[t]
    BY <1>2, <1>4
  <2> QED
    BY <2>1 DEF Versions
<1> QED
  BY <1>3, <1>4

\* Hence what was a history stays one.
LEMMA CommitKeepsHistories ==
    ASSUME StoreInv, NEW w \in Writers, Commit(w),
           NEW t \in Streams, NEW v \in Nat, NEW st, IsHistory(t, v, st)
    PROVE  IsHistory(t, v, st)'
BY CommitKeepsRows DEF IsHistory

\* The state_cache row a commit writes is the fold of the stream it leaves.
LEMMA CommitCaches ==
    ASSUME StoreInv, NEW w \in Writers, Commit(w)
    PROVE  \E s \in Streams, v \in Nat, st \in Seq(Payload) :
               /\ s = h[w].stream
               /\ NewCacheRow(w) = [version |-> v, state |-> st, terminal |-> IsTerminal(st),
                                    schema |-> Schema[w], enc |-> Schema[w]]
               /\ IsHistory(s, v, st)'
<1>1. PICK c \in HandleRecord : c = h[w]
  BY CallType DEF StoreInv
<1>2. /\ c.stream \in Streams /\ c.version \in Nat /\ c.rows \in Seq(Row) /\ Len(c.rows) \in Nat
      /\ Len(c.rows) = Len(c.events)
      /\ DOMAIN events'[c.stream] = 1..(c.version + Len(c.rows))
      /\ \A i \in 1..Len(c.rows) : events'[c.stream][c.version + i] = c.rows[i]
  BY <1>1, CommitAppends
<1>3. c.state \in Seq(Payload) /\ c.events \in Seq(Payload)
  BY <1>1, CallType DEF StoreInv
<1>4. PICK v \in Nat : v = c.version + Len(c.events)
  BY <1>2, SMTT(30), SMTT(60)
<1>5. PICK st : st = Evolve(c.state, c.events)
  OBVIOUS
<1>6. /\ st \in Seq(Payload)
      /\ Len(st) = Len(c.state) + Len(c.events)
      /\ \A i \in 1..Len(c.state) : st[i] = c.state[i]
      /\ \A i \in 1..Len(c.events) : st[Len(c.state) + i] = c.events[i]
  BY <1>3, <1>5, EvolveFacts, ZenonT(60)
<1>7. Len(c.state) = c.version /\ \A u \in 1..c.version :
          u \in Versions(c.stream)' /\ events'[c.stream][u].payload = c.state[u]
  <2>1. IsHistory(c.stream, c.version, c.state) /\ c.pc = "insert"
    BY <1>1 DEF Commit, StoreInv, CallOK
  <2>2. IsHistory(c.stream, c.version, c.state)'
    BY <1>2, <2>1, CommitKeepsHistories
  <2> QED
    BY <2>2 DEF IsHistory
<1>8. \A i \in 1..Len(c.rows) : c.rows[i].payload = c.events[i]
  <2>1. DOMAIN c.rows = 1..Len(c.rows)
    BY <1>2, SMTT(30), SMTT(60)
  <2> QED
    BY <1>1, <2>1 DEF StoreInv, CallOK
<1>9. Len(st) = v
  BY <1>4, <1>6, <1>7
<1>10. ASSUME NEW u \in 1..v
       PROVE  u \in Versions(c.stream)' /\ events'[c.stream][u].payload = st[u]
  <2>1. CASE u <= c.version
    <3>1. st[u] = c.state[u]
      BY <1>2, <1>6, <1>7, <2>1, SMTT(30), SMTT(60)
    <3> QED
      BY <1>2, <1>7, <2>1, <3>1, SMTT(30), SMTT(60)
  <2>2. CASE u > c.version
    <3>1. PICK k \in 1..Len(c.rows) : c.version + k = u
      <4>1. u - c.version \in 1..Len(c.rows) /\ c.version + (u - c.version) = u
        BY <1>2, <1>4, <2>2, SMTT(30), SMTT(60)
      <4> QED
        BY <4>1
    <3>2. st[u] = c.events[k]
      <4>1. Len(c.state) + k = u /\ k \in 1..Len(c.events)
        BY <1>2, <1>7, <3>1
      <4>2. st[Len(c.state) + k] = c.events[k]
        BY <1>6, <4>1
      <4> QED
        BY <4>1, <4>2
    <3>3. events'[c.stream][u].payload = c.events[k]
      BY <1>2, <1>8, <3>1
    <3> QED
      BY <1>2, <1>4, <3>2, <3>3 DEF Versions
  <2> QED
    BY <1>2, <1>4, <2>1, <2>2, SMTT(30), SMTT(60)
<1>11. IsHistory(c.stream, v, st)'
  BY <1>9, <1>10 DEF IsHistory
<1>12. NewCacheRow(w) = [version |-> v, state |-> st, terminal |-> IsTerminal(st),
                         schema |-> Schema[w], enc |-> Schema[w]]
  BY <1>1, <1>4, <1>5 DEF NewCacheRow
<1> QED
  BY <1>1, <1>2, <1>4, <1>6, <1>11, <1>12

\* A commit keeps every table well typed.
LEMMA CommitType ==
    ASSUME StoreInv, NEW w \in Writers, Commit(w)
    PROVE  TypeOK'
<1>1. PICK c \in HandleRecord : c = h[w]
  BY CallType DEF StoreInv
<1>2. /\ c.stream \in Streams /\ c.version \in Nat /\ c.rows \in Seq(Row) /\ Len(c.rows) \in Nat
      /\ Versions(c.stream) = 1..c.version
      /\ events' = [t \in Streams |-> IF t = c.stream THEN events'[c.stream] ELSE events[t]]
      /\ DOMAIN events'[c.stream] = 1..(c.version + Len(c.rows))
      /\ \A v \in 1..c.version : events'[c.stream][v] = events[c.stream][v]
      /\ \A i \in 1..Len(c.rows) : events'[c.stream][c.version + i] = c.rows[i]
  BY <1>1, CommitAppends, ZenonT(60)
<1>3. \A v \in 1..(c.version + Len(c.rows)) : events'[c.stream][v] \in Row
  <2>1. \A v \in 1..c.version : events[c.stream][v] \in Row
    BY <1>2, ZenonT(60) DEF StoreInv, TypeOK
  <2>2. \A i \in 1..Len(c.rows) : c.rows[i] \in Row
    BY <1>2, SMTT(30), SMTT(60)
  <2>3. ASSUME NEW v \in 1..(c.version + Len(c.rows)), v > c.version
        PROVE  v - c.version \in 1..Len(c.rows) /\ c.version + (v - c.version) = v
    BY <1>2, <2>3, SMTT(30), SMTT(60)
  <2>4. ASSUME NEW v \in 1..(c.version + Len(c.rows)), ~(v > c.version)
        PROVE  v \in 1..c.version
    BY <1>2, <2>4, SMTT(30), SMTT(60)
  <2>5. ASSUME NEW v \in 1..(c.version + Len(c.rows)), v > c.version
        PROVE  events'[c.stream][v] \in Row
    <3>1. PICK i \in 1..Len(c.rows) : c.version + i = v
      BY <2>3, <2>5
    <3> QED
      BY <1>2, <2>2, <3>1
  <2>6. ASSUME NEW v \in 1..(c.version + Len(c.rows)), ~(v > c.version)
        PROVE  events'[c.stream][v] \in Row
    BY <1>2, <2>1, <2>4, <2>6
  <2> QED
    BY <2>5, <2>6
<1>4. events'[c.stream] = [v \in DOMAIN events'[c.stream] |-> events'[c.stream][v]]
  <2>1. events = [t \in Streams |-> events[t]]
    BY DEF StoreInv, TypeOK
  <2> QED
    BY <1>1, <1>2, <2>1 DEF Commit
<1>5. \A t \in Streams : Versions(t)' \subseteq Nat /\ events'[t] \in [Versions(t)' -> Row]
  <2>1. SUFFICES ASSUME NEW t \in Streams
                 PROVE  DOMAIN events'[t] \subseteq Nat /\ events'[t] \in [DOMAIN events'[t] -> Row]
    BY DEF Versions
  <2>2. CASE t = c.stream
    <3>1. DOMAIN events'[t] \subseteq Nat
      BY <1>2, <2>2, SMTT(30), SMTT(60)
    <3>2. \A v \in DOMAIN events'[t] : events'[t][v] \in Row
      BY <1>2, <1>3, <2>2
    <3> QED
      BY <1>4, <2>2, <3>1, <3>2
  <2>3. CASE t # c.stream
    <3>1. events'[t] = events[t]
      BY <1>2, <2>3
    <3> QED
      BY <3>1 DEF StoreInv, TypeOK, Versions
  <2> QED
    BY <2>2, <2>3
<1>6. claims' \in [Keys -> Streams \cup {None}]
  <2>1. PICK K \in SUBSET Keys : c.claims \in [K -> Streams \cup {None}]
    BY DEF HandleRecord
  <2>2. \A k \in Keys : ClaimOf(w, k) \in Streams \cup {None}
    BY <1>1, <2>1 DEF ClaimOf, StoreInv, TypeOK
  <2> QED
    BY <2>2 DEF Commit
<1>7. cache' \in [Streams -> CacheRow]
  <2>1. NewCacheRow(w) \in CacheRow
    <3>1. Schema[w] \in Nat
      BY EventStoreAssumption
    <3>2. \A st : IsTerminal(st) \in BOOLEAN
      BY DEF IsTerminal
    <3> QED
      BY <3>1, <3>2, CommitCaches, SMTT(30), SMTT(60) DEF CacheRow
  <2>2. cache \in [Streams -> CacheRow]
    BY DEF StoreInv, TypeOK
  <2> QED
    BY <1>1, <1>2, <2>1, <2>2, ZenonT(60) DEF Commit
<1>8. h' \in [Writers -> HandleRecord]
  BY IdleType DEF Commit, StoreInv, TypeOK
<1>9. events' = [t \in Streams |-> events'[t]]
  BY <1>2
<1>10. UNCHANGED <<sequence, cursor, seen>> /\ lock' = None
  BY DEF Commit
<1> QED
  BY <1>5, <1>6, <1>7, <1>8, <1>9, <1>10 DEF StoreInv, TypeOK

\* A commit keeps every call in order: the other writers are outside their
\* transactions, and what they loaded is still a history.
LEMMA CommitCalls ==
    ASSUME StoreInv, NEW w \in Writers, Commit(w), NEW x \in Writers
    PROVE  CallOK(x)'
<1>1. lock' = None /\ h' = [h EXCEPT ![w] = Idle] /\ lock' # x
  BY EventStoreAssumption DEF Commit
<1>2. CASE x = w
  <2>1. h'[x] = Idle
    BY <1>1, <1>2, ZenonT(60) DEF StoreInv, TypeOK
  <2> QED
    BY <1>1, <2>1, SMTT(30), SMTT(60) DEF CallOK, Idle
<1>3. CASE x # w
  <2>1. PICK c \in HandleRecord : c = h[x] /\ c.version \in Nat
    BY CallType DEF StoreInv
  <2>2. h'[x] = c
    BY <1>1, <1>3, <2>1 DEF StoreInv, TypeOK
  <2>3. CallOK(x)
    BY DEF StoreInv
  <2>4. lock = w
    BY DEF Commit, StoreInv, CallOK
  <2>5. c.pc \notin {"constrain", "insert"} /\ c.rows = <<>>
    BY <1>3, <2>1, <2>3, <2>4 DEF CallOK
  <2>6. c.pc # "idle" => c.stream \in Streams /\ IsHistory(c.stream, c.version, c.state)'
    BY <2>1, <2>3, CommitKeepsHistories DEF CallOK
  <2> QED
    BY <1>1, <2>1, <2>2, <2>3, <2>5, <2>6, SMTT(30), SMTT(60) DEF CallOK
<1> QED
  BY <1>2, <1>3

\* A commit extends its stream by the staged rows: no hole, growing positions.
LEMMA CommitStreams ==
    ASSUME StoreInv, NEW w \in Writers, Commit(w)
    PROVE  /\ (\A s \in Streams : \E n \in {0} \cup Versions(s) : Versions(s) = 1..n)'
           /\ StreamsAreSequences'
           /\ ClosedIsFinal'
<1>1. PICK c \in HandleRecord : c = h[w]
  BY CallType DEF StoreInv
<1> DEFINE n == Len(c.rows)
<1>2. /\ c.stream \in Streams /\ c.version \in Nat /\ c.rows \in Seq(Row) /\ n \in Nat \ {0}
      /\ n = Len(c.events)
      /\ Versions(c.stream) = 1..c.version
      /\ events' = [t \in Streams |-> IF t = c.stream THEN events'[c.stream] ELSE events[t]]
      /\ DOMAIN events'[c.stream] = 1..(c.version + n)
      /\ \A v \in 1..c.version : events'[c.stream][v] = events[c.stream][v]
      /\ \A i \in 1..n : events'[c.stream][c.version + i] = c.rows[i]
  BY <1>1, CommitAppends, ZenonT(60)
<1>3. /\ CallOK(w) /\ c.pc = "insert" /\ DOMAIN c.rows = 1..n
      /\ \A i \in 1..n : c.rows[i].pos \in Nat
  <2>1. CallOK(w) /\ c.pc = "insert"
    BY <1>1 DEF Commit, StoreInv
  <2>2. DOMAIN c.rows = 1..n
    BY <1>2, SMTT(30), SMTT(60)
  <2>3. \A i \in DOMAIN c.rows : c.rows[i].pos \in Nat
    BY <1>1, CallType DEF StoreInv
  <2> QED
    BY <2>1, <2>2, <2>3
<1> HIDE DEF n
<1>4. ASSUME NEW t \in Streams, t # c.stream
      PROVE  events'[t] = events[t]
  BY <1>2, <1>4
<1>5. ASSUME NEW v \in DOMAIN events'[c.stream], v \notin 1..c.version
      PROVE  \E i \in 1..n : v = c.version + i
  <2>1. v - c.version \in 1..n /\ v = c.version + (v - c.version)
    BY <1>2, <1>5, SMTT(30), SMTT(60)
  <2> QED
    BY <2>1
<1>6. (\A s \in Streams : \E m \in {0} \cup Versions(s) : Versions(s) = 1..m)'
  <2>1. SUFFICES ASSUME NEW t \in Streams
                 PROVE  \E m \in {0} \cup DOMAIN events'[t] : DOMAIN events'[t] = 1..m
    BY DEF Versions
  <2>2. CASE t = c.stream
    <3>1. c.version + n \in DOMAIN events'[c.stream]
      BY <1>2, SMTT(30), SMTT(60)
    <3> QED
      BY <1>2, <2>2, <3>1
  <2>3. CASE t # c.stream
    BY <1>4, <2>3 DEF StoreInv, Versions
  <2> QED
    BY <2>2, <2>3
<1>7. StreamsAreSequences'
  <2>1. SUFFICES ASSUME NEW t \in Streams, NEW v \in DOMAIN events'[t]
                 PROVE  /\ \A u \in 1..v : u \in DOMAIN events'[t]
                        /\ \A u \in DOMAIN events'[t] : u < v => events'[t][u].pos < events'[t][v].pos
    BY DEF StreamsAreSequences, Versions
  <2>2. CASE t # c.stream
    BY <1>4, <2>2 DEF StoreInv, StreamsAreSequences, Versions
  <2>3. CASE t = c.stream
    <3>1. \A u \in 1..v : u \in DOMAIN events'[t]
      BY <1>2, <2>3, SMTT(30), SMTT(60)
    <3>2. ASSUME NEW u \in DOMAIN events'[t], u < v
          PROVE  events'[t][u].pos < events'[t][v].pos
      <4>1. CASE v \in 1..c.version
        <5>1. u \in 1..c.version
          BY <1>2, <2>3, <3>2, <4>1, SMTT(30), SMTT(60)
        <5> QED
          BY <1>2, <2>3, <3>2, <4>1, <5>1, ZenonT(60) DEF StoreInv, StreamsAreSequences
      <4>2. CASE v \notin 1..c.version
        <5>1. PICK j \in 1..n : v = c.version + j
          BY <1>5, <2>3, <4>2
        <5>2. CASE u \in 1..c.version
          <6>1. events[t][u].pos \in Committed
            <7>1. events[t][u].pos \in 1..MaxPosition
              BY <1>2, <2>3, <5>2, ZenonT(60) DEF StoreInv, TypeOK, Row
            <7> QED
              BY <1>2, <2>3, <5>2, <7>1 DEF Committed
          <6>2. events[t][u].pos < c.rows[j].pos
            BY <1>1, <1>3, <6>1 DEF CallOK
          <6> QED
            BY <1>2, <2>3, <5>1, <5>2, <6>2
        <5>3. CASE u \notin 1..c.version
          <6>1. PICK i \in 1..n : u = c.version + i
            BY <1>5, <2>3, <5>3
          <6>2. i < j
            BY <1>2, <3>2, <5>1, <6>1, SMTT(30), SMTT(60)
          <6>3. c.rows[i].pos < c.rows[j].pos
            BY <1>1, <1>3, <6>2 DEF CallOK
          <6> QED
            BY <1>2, <2>3, <5>1, <6>1, <6>3, ZenonT(60)
        <5> QED
          BY <5>2, <5>3
      <4> QED
        BY <4>1, <4>2
    <3> QED
      BY <3>1, <3>2
  <2> QED
    BY <2>2, <2>3
<1>8. ClosedIsFinal'
  <2>1. SUFFICES ASSUME NEW t \in Streams, NEW v \in DOMAIN events'[t],
                        events'[t][v].payload.kind = "close", NEW u \in DOMAIN events'[t]
                 PROVE  u <= v
    BY DEF ClosedIsFinal, Versions
  <2>2. CASE t # c.stream
    BY <1>4, <2>1, <2>2 DEF StoreInv, ClosedIsFinal, Versions
  <2>3. CASE t = c.stream /\ v \in 1..c.version
    <3>1. ~IsTerminal(c.state) /\ IsHistory(c.stream, c.version, c.state) /\ c.state \in Seq(Payload)
      BY <1>1, <1>3, CallType, ZenonT(60) DEF StoreInv, CallOK
    <3>2. c.state[v].kind = "close" /\ v \in DOMAIN c.state
      BY <1>2, <2>1, <2>3, <3>1, SMTT(30), SMTT(60) DEF IsHistory
    <3> QED
      BY <3>1, <3>2 DEF IsTerminal
  <2>4. CASE t = c.stream /\ v \notin 1..c.version
    <3>1. PICK i \in 1..n : v = c.version + i
      BY <1>5, <2>4
    <3>2. c.events[i].kind = "close" /\ c.events \in Decide(c.state)
      <4>1. c.rows[i].payload.kind = "close"
        BY <1>2, <2>1, <2>4, <3>1
      <4>2. c.rows[i].payload = c.events[i] /\ c.events \in Decide(c.state)
        BY <1>1, <1>3 DEF CallOK
      <4> QED
        BY <4>1, <4>2
    <3>3. i = n
      BY <1>2, <3>2, BatchType, SMTT(30), SMTT(60) DEF Decide
    <3> QED
      BY <1>2, <2>4, <3>1, <3>3, SMTT(30), SMTT(60)
  <2> QED
    BY <2>2, <2>3, <2>4
<1> QED
  BY <1>6, <1>7, <1>8

\* No committed row gets a position that another one has.
LEMMA CommitUnique ==
    ASSUME StoreInv, NEW w \in Writers, Commit(w)
    PROVE  PositionsUnique'
<1>1. PICK c \in HandleRecord : c = h[w]
  BY CallType DEF StoreInv
<1>2. /\ c.stream \in Streams /\ c.version \in Nat /\ Len(c.rows) \in Nat \ {0} /\ c.rows \in Seq(Row)
      /\ Versions(c.stream) = 1..c.version
      /\ events' = [t \in Streams |-> IF t = c.stream THEN events'[c.stream] ELSE events[t]]
      /\ DOMAIN events'[c.stream] = 1..(c.version + Len(c.rows))
      /\ \A v \in 1..c.version : events'[c.stream][v] = events[c.stream][v]
      /\ \A i \in 1..Len(c.rows) : events'[c.stream][c.version + i] = c.rows[i]
  BY <1>1, CommitAppends, ZenonT(60)
<1>3. ASSUME NEW t \in Streams, NEW v \in Versions(t)
      PROVE  events[t][v].pos \in Committed /\ events[t][v].pos \in Nat
  <2>1. events[t][v].pos \in 1..MaxPosition
    BY DEF StoreInv, TypeOK, Row
  <2> QED
    BY <2>1, EventStoreAssumption, SMTT(30), SMTT(60) DEF Committed
<1>4. ASSUME NEW t \in Streams, t # c.stream
      PROVE  events'[t] = events[t]
  BY <1>2, <1>4
<1>5. ASSUME NEW u \in DOMAIN events'[c.stream], NEW t \in Streams, t # c.stream, NEW v \in Versions(t)
      PROVE  events'[c.stream][u].pos # events[t][v].pos
  <2>1. CASE u \in 1..c.version
    <3>1. events[c.stream][u].pos # events[t][v].pos
      BY <1>2, <1>5, <2>1, SMTT(30), SMTT(60) DEF StoreInv, PositionsUnique
    <3> QED
      BY <1>2, <2>1, <3>1
  <2>2. CASE u \notin 1..c.version
    <3>1. PICK i \in 1..Len(c.rows) : u = c.version + i
      <4>1. u - c.version \in 1..Len(c.rows) /\ u = c.version + (u - c.version)
        BY <1>2, <2>2, SMTT(30), SMTT(60)
      <4> QED
        BY <4>1
    <3>2. i \in DOMAIN c.rows /\ c.rows[i].pos \in Nat
      BY <1>1, <1>2, CallType, SMTT(30), SMTT(60) DEF StoreInv
    <3>3. events[t][v].pos < c.rows[i].pos
      BY <1>1, <1>3, <3>2 DEF StoreInv, CallOK
    <3> QED
      BY <1>2, <1>3, <3>1, <3>2, <3>3, SMTT(30), SMTT(60)
  <2> QED
    BY <2>1, <2>2
<1>6. SUFFICES ASSUME NEW s \in Streams, NEW t \in Streams,
                      NEW u \in DOMAIN events'[s], NEW v \in DOMAIN events'[t],
                      events'[s][u].pos = events'[t][v].pos
               PROVE  s = t /\ u = v
  BY DEF PositionsUnique, Versions
<1>7. CASE s = t
  <2>1. u \in Nat /\ v \in Nat /\ events'[s][u].pos \in Nat /\ events'[s][v].pos \in Nat
    <3>1. TypeOK'
      BY CommitType
    <3> QED
      BY <1>7, <3>1, EventStoreAssumption, SMTT(30), SMTT(60) DEF TypeOK, Versions, Row
  <2>2. StreamsAreSequences'
    BY CommitStreams
  <2>3. (u < v => events'[s][u].pos < events'[s][v].pos) /\ (v < u => events'[s][v].pos < events'[s][u].pos)
    BY <1>7, <2>2 DEF StreamsAreSequences, Versions
  <2> QED
    BY <1>6, <1>7, <2>1, <2>3, SMTT(30), SMTT(60)
<1>8. CASE s # t /\ s # c.stream /\ t # c.stream
  BY <1>4, <1>6, <1>8, SMTT(30), SMTT(60) DEF StoreInv, PositionsUnique, Versions
<1>9. CASE s # t /\ s = c.stream
  BY <1>4, <1>5, <1>6, <1>9, SMTT(30), SMTT(60) DEF Versions
<1>10. CASE s # t /\ t = c.stream
  BY <1>4, <1>5, <1>6, <1>10, SMTT(30), SMTT(60) DEF Versions
<1> QED
  BY <1>7, <1>8, <1>9, <1>10

\* Commit preserves the invariant.
LEMMA CommitInv ==
    ASSUME StoreInv, NEW w \in Writers, Commit(w)
    PROVE  StoreInv'
<1>1. TypeOK'
  BY CommitType
<1>2. \A x \in Writers : CallOK(x)'
  BY CommitCalls
<1>3. UNCHANGED <<sequence, cursor, seen>>
  BY DEF Commit
<1>4. /\ \A f \in Followers : cursor[f] \in Nat
      /\ \A p \in Committed : p <= sequence /\ p \in Nat
      /\ \A f \in Followers : cursor[f] = 0 \/ cursor[f] \in Committed
  BY SMTT(30), SMTT(60) DEF StoreInv, TypeOK, Committed
<1>5. \A p \in Committed' : p \in 1..MaxPosition
  BY DEF Committed
<1>6. \A p \in Committed' : p <= sequence'
  BY <1>3, <1>4, CommitPositions
<1>7. CacheIsFold'
  <2>1. SUFFICES ASSUME NEW s \in Streams, cache'[s] # NoRow
                 PROVE  (/\ IsHistory(s, cache[s].version, cache[s].state)
                         /\ cache[s].terminal = IsTerminal(cache[s].state)
                         /\ StampedRight(cache[s]))'
    BY DEF CacheIsFold
  <2>2. CASE cache'[s] = cache[s]
    <3>1. PICK r \in CacheRow : r = cache[s]
      BY DEF StoreInv, TypeOK
    <3>2. /\ IsHistory(s, r.version, r.state) /\ r.terminal = IsTerminal(r.state)
          /\ r.version \in Nat /\ StampedRight(r)
      BY <2>1, <2>2, <3>1 DEF StoreInv, CacheIsFold, CacheRow
    <3>3. IsHistory(s, r.version, r.state)'
      BY <3>2, CommitKeepsHistories
    <3> QED
      BY <2>2, <3>1, <3>2, <3>3 DEF IsHistory, StampedRight
  <2>3. CASE cache'[s] # cache[s]
    <3>1. s = h[w].stream /\ cache'[s] = NewCacheRow(w)
      BY <2>3 DEF Commit, StoreInv, TypeOK
    <3>2. PICK v \in Nat, st \in Seq(Payload) :
              /\ NewCacheRow(w) = [version |-> v, state |-> st, terminal |-> IsTerminal(st),
                                   schema |-> Schema[w], enc |-> Schema[w]]
              /\ IsHistory(s, v, st)'
      BY <3>1, CommitCaches
    <3>3. cache'[s].version = v /\ cache'[s].state = st /\ cache'[s].terminal = IsTerminal(st)
      BY <3>1, <3>2, SMTT(30), SMTT(60)
    <3>4. cache'[s].schema = Schema[w] /\ cache'[s].enc = Schema[w]
      BY <3>1, <3>2, SMTT(30), SMTT(60)
    <3> QED
      BY <3>2, <3>3, <3>4 DEF IsHistory, StampedRight
  <2> QED
    BY <2>2, <2>3
<1>8. NoSkip' /\ \A f \in Followers : cursor'[f] = 0 \/ cursor'[f] \in Committed'
  <2>1. ASSUME NEW f \in Followers, NEW p \in Committed', p <= cursor[f]
        PROVE  p \in seen[f]
    <3>1. CASE p \in Committed
      BY <2>1, <3>1 DEF StoreInv, NoSkip
    <3>2. CASE p \notin Committed
      <4>1. p \in Nat \ {0} /\ \A q \in Committed : q < p
        BY <1>5, <3>2, CommitPositions, SMTT(30), SMTT(60)
      <4>2. cursor[f] < p
        BY <1>4, <4>1, SMTT(30), SMTT(60)
      <4> QED
        BY <1>4, <2>1, <4>1, <4>2, SMTT(30), SMTT(60)
    <3> QED
      BY <3>1, <3>2
  <2>2. Committed \subseteq Committed'
    BY CommitPositions
  <2> QED
    BY <1>3, <1>4, <2>1, <2>2 DEF NoSkip
<1> QED
  BY <1>1, <1>2, <1>6, <1>7, <1>8, CommitStreams, CommitUnique DEF StoreInv

\* Positions are numbers.
LEMMA CommittedNat == Committed \in SUBSET (1..MaxPosition) /\ \A p \in Committed : p \in Nat
BY EventStoreAssumption, SMTT(30), SMTT(60) DEF Committed

\* A page is what is committed above the cursor up to the page's last position.
LEMMA PageFacts ==
    ASSUME OrderingFacts, NEW c \in Nat, Page(c) # {}
    PROVE  /\ Page(c) \subseteq Committed
           /\ Largest(Page(c)) \in Page(c)
           /\ \A p \in Page(c) : c < p /\ p <= Largest(Page(c))
           /\ \A p \in Committed : c < p /\ p <= Largest(Page(c)) => p \in Page(c)
<1> DEFINE after == {p \in Committed : p > c}
<1>1. PICK page : page = Page(c)
  OBVIOUS
<1>2. page \subseteq Committed /\ \A p \in page : p > c
  BY <1>1 DEF Page, FirstOf
<1>3. page \in SUBSET Nat /\ \A p \in page : p <= MaxPosition
  <2>1. \A p \in Committed : p \in Nat /\ p <= MaxPosition
    <3>1. \A p \in 1..MaxPosition : p \in Nat /\ p <= MaxPosition
      BY EventStoreAssumption, SMTT(30), SMTT(60)
    <3> QED
      BY <3>1, CommittedNat
  <2> QED
    BY <1>2, <2>1
<1>4. Largest(page) \in page /\ \A p \in page : p <= Largest(page)
  <2>1. MaxPosition \in Nat
    BY EventStoreAssumption
  <2>2. page # {}
    BY <1>1
  <2> QED
    BY <1>3, <2>1, <2>2, LargestFact, ZenonT(60)
<1>5. \A p \in page : c < p
  BY <1>2, <1>3
<1>6. ASSUME NEW p \in Committed, c < p, p <= Largest(page) PROVE p \in page
  <2>1. p \in after
    BY <1>6, CommittedNat
  <2>2. MaxPosition \in Nat /\ after \in SUBSET (1..MaxPosition)
    BY EventStoreAssumption, CommittedNat
  <2>3. page = FirstOf(after, PageSize) /\ PageSize \in Nat
    BY <1>1, EventStoreAssumption DEF Page
  <2> HIDE DEF after
  <2>4. Largest(page) \in FirstOf(after, PageSize)
    BY <1>4, <2>3
  <2> QED
    BY <1>6, <2>1, <2>2, <2>3, <2>4, FirstOfFact, ZenonT(60)
<1> QED
  BY <1>1, <1>2, <1>4, <1>5, <1>6

\* Reading a page: the page is a lower set of what lies above the cursor, so
\* moving to its last position skips nothing.
LEMMA ReadAllInv ==
    ASSUME OrderingFacts, StoreInv, NEW g \in Followers, ReadAll(g)
    PROVE  StoreInv'
<1>1. PICK page, d : page = Page(cursor[g]) /\ d = Largest(page)
  OBVIOUS
<1>2. /\ page # {}
      /\ cursor' = [cursor EXCEPT ![g] = d]
      /\ seen' = [seen EXCEPT ![g] = @ \cup page]
      /\ UNCHANGED <<events, sequence, claims, cache, lock, h>>
  BY <1>1 DEF ReadAll
<1>3. /\ cursor \in [Followers -> 0..MaxPosition]
      /\ seen \in [Followers -> SUBSET (1..MaxPosition)]
      /\ MaxPosition \in Nat
  BY EventStoreAssumption DEF StoreInv, TypeOK
<1>4. Committed \subseteq 1..MaxPosition /\ Committed' = Committed
  BY <1>2, CommittedNat DEF Committed, Versions
<1>5. cursor[g] \in Nat
  BY <1>3, SMTT(30), SMTT(60)
<1>6. /\ page \subseteq Committed /\ d \in page
      /\ \A p \in Committed : cursor[g] < p /\ p <= d => p \in page
  BY <1>1, <1>2, <1>5, PageFacts
<1>7. /\ cursor'[g] = d /\ seen'[g] = seen[g] \cup page
      /\ \A f \in Followers : f # g => cursor'[f] = cursor[f] /\ seen'[f] = seen[f]
  BY <1>2, <1>3
<1>8. TypeOK'
  <2>1. d \in 0..MaxPosition /\ page \in SUBSET (1..MaxPosition)
    BY <1>3, <1>4, <1>6, SMTT(30), SMTT(60)
  <2>2. cursor' \in [Followers -> 0..MaxPosition] /\ seen' \in [Followers -> SUBSET (1..MaxPosition)]
    BY <1>2, <1>3, <2>1
  <2> QED
    BY <1>2, <2>2 DEF StoreInv, TypeOK, Versions
<1>9. \A x \in Writers : CallOK(x)'
  BY <1>2, <1>4, ZenonT(60) DEF StoreInv, CallOK, IsHistory, Versions
<1>10. NoSkip'
  <2>1. SUFFICES ASSUME NEW f \in Followers, NEW p \in Committed, p <= cursor'[f]
                 PROVE  p \in seen'[f]
    BY <1>4 DEF NoSkip
  <2>2. CASE f # g
    BY <1>7, <2>1, <2>2 DEF StoreInv, NoSkip
  <2>3. CASE f = g
    <3>1. CASE p <= cursor[g]
      BY <1>7, <2>3, <3>1 DEF StoreInv, NoSkip
    <3>2. CASE ~(p <= cursor[g])
      <4>1. p \in Nat
        BY CommittedNat
      <4>2. cursor[g] < p
        BY <1>5, <3>2, <4>1, SMTT(30), SMTT(60)
      <4>3. p \in page
        BY <1>6, <1>7, <2>1, <2>3, <4>2
      <4> QED
        BY <1>7, <2>3, <4>3
    <3> QED
      BY <3>1, <3>2
  <2> QED
    BY <2>2, <2>3
<1>11. \A f \in Followers : cursor'[f] = 0 \/ cursor'[f] \in Committed'
  BY <1>4, <1>6, <1>7 DEF StoreInv
<1>12. /\ (\A s \in Streams : \E n \in {0} \cup Versions(s) : Versions(s) = 1..n)'
       /\ StreamsAreSequences' /\ PositionsUnique' /\ CacheIsFold' /\ ClosedIsFinal'
       /\ \A p \in Committed' : p <= sequence'
  <2>1. /\ (\A s \in Streams : \E n \in {0} \cup Versions(s) : Versions(s) = 1..n)'
        /\ StreamsAreSequences'
    BY <1>2 DEF StoreInv, StreamsAreSequences, Versions
  <2>2. PositionsUnique' /\ ClosedIsFinal'
    BY <1>2, SMTT(30), SMTT(60) DEF StoreInv, PositionsUnique, ClosedIsFinal, Versions
  <2>3. CacheIsFold'
    BY <1>2 DEF StoreInv, CacheIsFold, IsHistory, Versions
  <2>4. \A p \in Committed' : p <= sequence'
    BY <1>2, <1>4 DEF StoreInv
  <2> QED
    BY <2>1, <2>2, <2>3, <2>4
<1> QED
  BY <1>8, <1>9, <1>10, <1>11, <1>12 DEF StoreInv

\* The empty store satisfies the invariant.
LEMMA InitInv == Init => StoreInv
<1> SUFFICES ASSUME Init PROVE StoreInv
  OBVIOUS
<1>1. /\ \A s \in Streams : Versions(s) = {} /\ events[s] \in [{} -> Row]
      /\ Committed = {}
  BY SMTT(30), SMTT(60) DEF Init, Versions, Committed
<1>2. TypeOK
  <2>1. NoRow \in CacheRow
    BY SMTT(30), SMTT(60) DEF NoRow, CacheRow
  <2>2. events = [s \in Streams |-> events[s]]
    BY DEF Init
  <2> QED
    BY <1>1, <2>1, <2>2, IdleType, EventStoreAssumption, SMTT(30), SMTT(60) DEF Init, TypeOK
<1>3. \A w \in Writers : CallOK(w)
  <2>1. ASSUME NEW w \in Writers PROVE h[w] = Idle /\ lock # w
    BY EventStoreAssumption DEF Init
  <2> QED
    BY <2>1, SMTT(30), SMTT(60) DEF CallOK, Idle
<1>4. \A s \in Streams : \E n \in {0} \cup Versions(s) : Versions(s) = 1..n
  <2>1. 1..0 = {}
    BY SMTT(30), SMTT(60)
  <2> QED
    BY <1>1, <2>1
<1> QED
  BY <1>1, <1>2, <1>3, <1>4 DEF Init, StoreInv, StreamsAreSequences, PositionsUnique,
     CacheIsFold, ClosedIsFinal, NoSkip

\* Every step preserves the invariant: one case per action.
LEMMA NextInv == OrderingFacts /\ StoreInv /\ [Next]_vars => StoreInv'
\* ORDER BY version over the tail of a stream.
<1>IntervalFact.
      ASSUME OrderingFacts, NEW a \in Nat, NEW b \in Nat, a <= b
      PROVE  /\ Cardinality((a + 1)..b) = b - a
             /\ InOrder((a + 1)..b) = [i \in 1..(b - a) |-> a + i]
  BY <1>IntervalFact DEF OrderingFacts, NumberFacts, IntervalsInOrder
\* A step that leaves everything committed alone and changes only writer w's
\* record keeps the invariant if it leaves w's own call in order.
<1>LocalStep.
      ASSUME StoreInv, NEW w \in Writers, NEW rec \in HandleRecord,
             h' = [h EXCEPT ![w] = rec],
             UNCHANGED <<events, claims, cache, cursor, seen>>,
             sequence' \in sequence..MaxPosition,
             lock' \in Writers \cup {None},
             \A x \in Writers \ {w} : lock' = x <=> lock = x,
             CallOK(w)'
      PROVE  StoreInv'
  <2> USE <1>LocalStep
  <2>1. TypeOK'
    BY EventStoreAssumption, SMTT(30), SMTT(60) DEF StoreInv, TypeOK, Versions
  <2>2. Committed' = Committed
    BY DEF Committed, Versions
  <2>3. \A x \in Writers : CallOK(x)'
    <3>1. SUFFICES ASSUME NEW x \in Writers, x # w PROVE CallOK(x)'
      OBVIOUS
    <3>2. h'[x] = h[x]
      BY <3>1 DEF StoreInv, TypeOK
    <3>3. CallOK(x)
      BY DEF StoreInv
    <3>4. lock' = x <=> lock = x
      BY <3>1
    <3>5. sequence \in Nat /\ sequence' \in Nat /\ sequence <= sequence'
      BY EventStoreAssumption, SMTT(30), SMTT(60) DEF StoreInv, TypeOK
    <3>6. \A i \in DOMAIN h[x].rows : h[x].rows[i].pos \in Nat
      BY CallType DEF StoreInv
    <3> QED
      BY <2>2, <3>2, <3>3, <3>4, <3>5, <3>6, SMTT(30), SMTT(60) DEF CallOK, IsHistory, Versions
  <2>4. DataInv'
    BY <2>2, SMTT(30), SMTT(60) DEF StoreInv, DataInv, StreamsAreSequences, PositionsUnique,
       CacheIsFold, ClosedIsFinal, NoSkip, IsHistory, Versions
  <2>5. \A p \in Committed' : p <= sequence'
    <3>1. \A p \in Committed : p \in Nat /\ p <= sequence
      BY SMTT(30), SMTT(60) DEF StoreInv, Committed
    <3>2. sequence \in Nat /\ sequence' \in Nat /\ sequence <= sequence'
      BY EventStoreAssumption, SMTT(30), SMTT(60) DEF StoreInv, TypeOK
    <3> QED
      BY <2>2, <3>1, <3>2, SMTT(30), SMTT(60)
  <2> QED
    BY <2>1, <2>3, <2>4, <2>5 DEF StoreInv, DataInv
\* The same for a step that changes nothing but writer w's record.
<1>QuietStep.
      ASSUME StoreInv, NEW w \in Writers, NEW rec \in HandleRecord,
             h' = [h EXCEPT ![w] = rec],
             UNCHANGED <<events, sequence, claims, cache, lock, cursor, seen>>,
             CallOK(w)'
      PROVE  StoreInv'
  <2> USE <1>QuietStep
  <2>1. sequence' \in sequence..MaxPosition /\ lock' \in Writers \cup {None}
    BY EventStoreAssumption, SMTT(30), SMTT(60) DEF StoreInv, TypeOK
  <2> QED
    BY <2>1, <1>LocalStep
\* Load's first read: with or without a cached row, the call starts from a true
\* prefix of the stream.
<1>GetStateInv.
      ASSUME StoreInv, NEW w \in Writers, NEW s \in Streams, GetState(w, s)
      PROVE  StoreInv'
  <2> USE <1>GetStateInv
  <2> DEFINE cached == [Idle EXCEPT !.pc = "load", !.stream = s,
                                    !.version = cache[s].version,
                                    !.state = Decoded(w, cache[s])]
             empty == [Idle EXCEPT !.pc = "load", !.stream = s]
  <2>1. /\ empty \in HandleRecord
        /\ Usable(w, cache[s]) => /\ cached \in HandleRecord
                                  /\ Decoded(w, cache[s]) = cache[s].state
                                  /\ cache[s] # NoRow
    <3>1. cache[s].version \in Nat /\ cache[s].state \in Seq(Payload)
      BY DEF StoreInv, TypeOK, CacheRow
    <3>2. Usable(w, cache[s]) => cache[s] # NoRow
      BY SMTT(30), SMTT(60) DEF Usable, NoRow
    <3>3. Usable(w, cache[s]) => Decoded(w, cache[s]) = cache[s].state
      BY <3>2 DEF Usable, Decoded, StoreInv, CacheIsFold, StampedRight
    <3> QED
      BY <3>1, <3>2, <3>3, IdleType DEF HandleRecord
  <2>0. UNCHANGED <<events, sequence, claims, cache, lock, cursor, seen>>
    BY DEF GetState
  <2>2. CASE Usable(w, cache[s]) /\ h' = [h EXCEPT ![w] = cached]
    <3>0. h'[w] = cached
      BY <2>2 DEF StoreInv, TypeOK
    <3>1. h'[w] = [Idle EXCEPT !.pc = "load", !.stream = s,
                               !.version = cache[s].version, !.state = cache[s].state]
      BY <2>1, <2>2, <3>0
    <3>2. IsHistory(s, cache[s].version, cache[s].state)'
      BY <2>1, <2>2 DEF StoreInv, CacheIsFold, IsHistory, Versions, GetState
    <3>3. lock # w
      BY DEF GetState, StoreInv, CallOK
    <3>4. CallOK(w)'
      BY <3>1, <3>2, <3>3, SMTT(30), SMTT(60) DEF CallOK, Idle, GetState, ZeroHash
    <3> QED
      BY <2>0, <2>1, <2>2, <3>4, <1>QuietStep
  <2>3. CASE h' = [h EXCEPT ![w] = empty]
    <3>1. h'[w] = empty
      BY <2>3 DEF StoreInv, TypeOK
    <3>2. IsHistory(s, 0, <<>>)'
      BY SMTT(30), SMTT(60) DEF IsHistory
    <3>3. lock # w
      BY DEF GetState, StoreInv, CallOK
    <3>4. CallOK(w)'
      BY <3>1, <3>2, <3>3, SMTT(30), SMTT(60) DEF CallOK, Idle, GetState, ZeroHash
    <3> QED
      BY <2>0, <2>1, <2>3, <3>4, <1>QuietStep
  <2> QED
    BY <2>2, <2>3 DEF GetState
\* A call that ends without committing leaves no trace but sequence values.
<1>RollbackInv.
      ASSUME StoreInv, NEW w \in Writers, Rollback(w),
             UNCHANGED <<events, claims, cache, cursor, seen>>,
             sequence' \in sequence..MaxPosition
      PROVE  StoreInv'
  <2> USE <1>RollbackInv
  <2>1. h'[w] = Idle
    BY DEF Rollback, StoreInv, TypeOK
  <2>2. lock' \in Writers \cup {None} /\ lock' # w
    BY EventStoreAssumption DEF Rollback, StoreInv, TypeOK
  <2>3. \A x \in Writers \ {w} : lock' = x <=> lock = x
    BY EventStoreAssumption DEF Rollback
  <2>4. CallOK(w)'
    BY <2>1, <2>2, SMTT(30), SMTT(60) DEF CallOK, Idle
  <2> QED
    BY <2>2, <2>3, <2>4, IdleType, <1>LocalStep DEF Rollback
\* Handle may fail between any two statements.
<1>FailInv.
      ASSUME StoreInv, NEW w \in Writers, Fail(w)
      PROVE  StoreInv'
  BY <1>FailInv, <1>RollbackInv, EventStoreAssumption, SMTT(30), SMTT(60) DEF Fail, StoreInv, TypeOK
\* Load's second read continues the cached prefix without a seam, because the
\* versions above it form an interval that ORDER BY version returns in order.
<1>ReadStreamInv.
      ASSUME OrderingFacts, StoreInv, NEW w \in Writers, ReadStream(w)
      PROVE  StoreInv'
  <2> USE <1>ReadStreamInv
  <2>1. PICK c \in HandleRecord : c = h[w]
    BY CallType DEF StoreInv
  <2> DEFINE s == c.stream
             a == c.version
             tail == {v \in Versions(s) : v > a}
             order == InOrder(tail)
             page == [i \in 1..Cardinality(tail) |-> events[s][order[i]].payload]
  <2>2. /\ s \in Streams
        /\ c.pc = "load"
        /\ IsHistory(s, a, c.state)
        /\ c.rows = <<>>
        /\ lock # w
    BY <2>1 DEF ReadStream, StoreInv, CallOK
  <2>3. a \in Nat /\ c.state \in Seq(Payload) /\ c.events \in Seq(Payload)
    BY <2>1, CallType DEF StoreInv
  <2>4. PICK n \in {0} \cup Versions(s) : Versions(s) = 1..n
    BY <2>2 DEF StoreInv
  <2>5. n \in Nat /\ a <= n
    <3>1. n \in Nat
      BY <2>2, <2>4, SMTT(30), SMTT(60) DEF StoreInv, TypeOK
    <3>2. a = 0 \/ a \in Versions(s)
      BY <2>2, <2>3, SMTT(30), SMTT(60) DEF IsHistory
    <3> QED
      BY <2>3, <2>4, <3>1, <3>2, SMTT(30), SMTT(60)
  <2>6. tail = (a + 1)..n
    BY <2>3, <2>4, <2>5, SMTT(30), SMTT(60)
  <2>7. /\ Cardinality(tail) = n - a
        /\ order = [i \in 1..(n - a) |-> a + i]
    BY <2>3, <2>5, <2>6, <1>IntervalFact
  <2>8. (IF tail = {} THEN a ELSE Largest(tail)) = n
    <3>1. CASE a = n
      <4>1. tail = {}
        BY <2>5, <2>6, <3>1, SMTT(30), SMTT(60)
      <4> QED
        BY <3>1, <4>1
    <3>2. CASE a # n
      <4>1. a + 1 \in Nat /\ a + 1 <= n
        BY <2>3, <2>5, <3>2, SMTT(30), SMTT(60)
      <4>2. Largest((a + 1)..n) = n
        BY <2>5, <4>1, LastOfInterval
      <4>3. tail # {}
        BY <2>5, <2>6, <4>1, SMTT(30), SMTT(60)
      <4> QED
        BY <2>6, <4>2, <4>3
    <3> QED
      BY <3>1, <3>2
  <2>9. page = [i \in 1..(n - a) |-> events[s][a + i].payload]
    BY <2>7
  <2>10. \A i \in 1..(n - a) : a + i \in Versions(s) /\ events[s][a + i].payload \in Payload
    <3>1. \A v \in Versions(s) : events[s][v].payload \in Payload
      BY <2>2 DEF StoreInv, TypeOK, Row
    <3> QED
      BY <2>3, <2>4, <2>5, <3>1, SMTT(30), SMTT(60)
  <2> HIDE DEF tail, page, order
  <2>11. page \in Seq(Payload) /\ Len(page) = n - a
    <3>1. n - a \in Nat
      BY <2>3, <2>5, SMTT(30), SMTT(60)
    <3> QED
      BY <2>9, <2>10, <3>1, SMTT(30), SMTT(60)
  <2>12. PICK st \in Seq(Payload) : st = Evolve(c.state, page) /\ IsHistory(s, n, st)
    <3>1. \A i \in 1..(n - a) : a + i \in Versions(s) /\ events[s][a + i].payload = page[i]
      BY <2>9, <2>10
    <3>2. Evolve(c.state, page) \in Seq(Payload) /\ IsHistory(s, n, Evolve(c.state, page))
      <4> HIDE DEF s, a
      <4> QED
        BY <2>2, <2>3, <2>5, <2>11, <3>1, HistoryExtends
    <3> QED
      BY <3>2
  <2>13. PICK rec : rec = [c EXCEPT !.pc = "decide", !.version = n, !.state = st]
    OBVIOUS
  <2>14. /\ rec \in HandleRecord
         /\ rec.stream = s /\ rec.version = n /\ rec.state = st /\ rec.pc = "decide"
         /\ rec.rows = <<>> /\ rec.events = c.events
    BY <2>2, <2>5, <2>12, <2>13 DEF HandleRecord
  <2>15. h' = [h EXCEPT ![w] = rec]
    BY <2>1, <2>8, <2>12, <2>13, ZenonT(60) DEF ReadStream, TailVersions, tail, page, order
  <2>16. UNCHANGED <<events, sequence, claims, cache, lock, cursor, seen>>
    BY DEF ReadStream
  <2>17. CallOK(w)'
    <3>1. h'[w] = rec
      BY <2>15 DEF StoreInv, TypeOK
    <3>2. IsHistory(s, n, st)'
      BY <2>12, <2>16, ZenonT(60) DEF IsHistory, Versions
    <3> QED
      BY <2>2, <2>3, <2>14, <2>16, <3>1, <3>2, SMTT(30), SMTT(60) DEF CallOK
  <2> QED
    BY <2>14, <2>15, <2>16, <2>17, <1>QuietStep
\* Decide: a closed stream is never decided on.
<1>DecidedInv.
      ASSUME StoreInv, NEW w \in Writers, Decided(w)
      PROVE  StoreInv'
  <2> USE <1>DecidedInv
  <2>1. PICK c \in HandleRecord : c = h[w]
    BY CallType DEF StoreInv
  <2>2. PICK b \in Decide(c.state) :
            h' = [h EXCEPT ![w].pc = "begin", ![w].events = b,
                           ![w].ops = {i \in DOMAIN b : IsConstraintOp(b[i])}]
    BY <2>1 DEF Decided
  <2>3. PICK rec : rec = [c EXCEPT !.pc = "begin", !.events = b,
                                   !.ops = {i \in DOMAIN b : IsConstraintOp(b[i])}]
    OBVIOUS
  <2>4. h' = [h EXCEPT ![w] = rec]
    BY <2>1, <2>2, <2>3
  <2>5. b \in Seq(Payload) /\ Len(b) \in Nat /\ DOMAIN b \in SUBSET Nat
    BY BatchType, SMTT(30), SMTT(60)
  <2>6. /\ rec \in HandleRecord
        /\ rec.stream = c.stream /\ rec.version = c.version /\ rec.state = c.state
        /\ rec.pc = "begin" /\ rec.rows = c.rows /\ rec.events = b
        /\ rec.ops \subseteq DOMAIN b
    <3>1. {i \in DOMAIN b : IsConstraintOp(b[i])} \in SUBSET Nat
      BY <2>5
    <3> QED
      BY <2>3, <2>5, <3>1 DEF HandleRecord
  <2>7. UNCHANGED <<events, sequence, claims, cache, lock, cursor, seen>>
    BY DEF Decided
  <2>8. CallOK(w)'
    <3>1. h'[w] = rec
      BY <2>4 DEF StoreInv, TypeOK
    <3>2. /\ c.pc = "decide" /\ ~IsTerminal(c.state) /\ lock # w /\ c.rows = <<>>
          /\ c.stream \in Streams /\ IsHistory(c.stream, c.version, c.state)
      BY <2>1 DEF Decided, StoreInv, CallOK
    <3>3. IsHistory(c.stream, c.version, c.state)'
      BY <2>7, <3>2 DEF IsHistory, Versions
    <3>4. rec.rows = <<>> /\ Len(rec.rows) <= Len(rec.events) /\ DOMAIN rec.rows = {}
      BY <2>5, <2>6, <3>2, SMTT(30), SMTT(60)
    <3>5. rec.events \in Decide(rec.state) /\ ~IsTerminal(rec.state) /\ rec.ops \subseteq DOMAIN rec.events
      BY <2>2, <2>6, <3>2
    <3> QED
      BY <2>6, <2>7, <3>1, <3>2, <3>3, <3>4, <3>5 DEF CallOK
  <2> QED
    BY <2>4, <2>6, <2>7, <2>8, <1>QuietStep, ZenonT(60)
\* Taking the advisory lock: no one else is in its transaction.
<1>AdvisoryLockInv.
      ASSUME StoreInv, NEW w \in Writers, AdvisoryLock(w)
      PROVE  StoreInv'
  <2> USE <1>AdvisoryLockInv
  <2>1. PICK c \in HandleRecord : c = h[w]
    BY CallType DEF StoreInv
  <2>2. PICK rec : rec = [c EXCEPT !.pc = "constrain"]
    OBVIOUS
  <2>3. h' = [h EXCEPT ![w] = rec]
    BY <2>1, <2>2 DEF AdvisoryLock
  <2>4. /\ UNCHANGED <<events, claims, cache, cursor, seen>>
        /\ sequence' \in sequence..MaxPosition
        /\ lock' \in Writers \cup {None}
        /\ \A x \in Writers \ {w} : lock' = x <=> lock = x
        /\ lock' = w
    <3>1. UNCHANGED <<events, sequence, claims, cache, cursor, seen>> /\ lock = None /\ lock' = w
      BY ZenonT(60) DEF AdvisoryLock
    <3> QED
      BY <3>1, EventStoreAssumption, SMTT(30), SMTT(60) DEF StoreInv, TypeOK
  <2>5. CallOK(w)'
    <3>1. h'[w] = rec
      BY <2>3 DEF StoreInv, TypeOK
    <3>2. CallOK(w) /\ c.pc = "begin"
      BY <2>1 DEF AdvisoryLock, StoreInv
    <3>3. IsHistory(c.stream, c.version, c.state)'
      BY <2>1, <2>4, <3>2 DEF CallOK, IsHistory, Versions
    <3> QED
      BY <2>1, <2>2, <2>4, <3>1, <3>2, <3>3, SMTT(30), SMTT(60) DEF CallOK, HandleRecord
  <2>6. rec \in HandleRecord
    BY <2>2 DEF HandleRecord
  <2> QED
    BY <2>3, <2>4, <2>5, <2>6, <1>LocalStep
\* The next constraint operation is one of the batch's.
<1>NextOpType.
      ASSUME OrderingFacts, StoreInv, NEW w \in Writers, h[w].pc = "constrain", h[w].ops # {}
      PROVE  NextOp(w) \in Payload
  <2> USE <1>NextOpType
  <2>1. h[w].ops \in SUBSET Nat /\ h[w].events \in Seq(Payload)
    BY CallType DEF StoreInv
  <2>2. h[w].ops \subseteq DOMAIN h[w].events
    BY DEF StoreInv, CallOK
  <2>3. Smallest(h[w].ops) \in DOMAIN h[w].events
    BY <2>1, <2>2, SmallestFact
  <2> QED
    BY <2>1, <2>3, SMTT(30), SMTT(60) DEF NextOp
\* Writing a claim or a release touches only the transaction's own overlay.
<1>WriteClaimInv.
      ASSUME StoreInv, NEW w \in Writers, NEW k \in Keys, NEW owner \in Streams \cup {None},
             h[w].pc = "constrain", WriteClaim(w, k, owner),
             UNCHANGED <<events, sequence, claims, cache, lock, cursor, seen>>
      PROVE  StoreInv'
  <2> USE <1>WriteClaimInv
  <2>1. PICK c \in HandleRecord : c = h[w]
    BY CallType DEF StoreInv
  <2>2. PICK over : over = [x \in DOMAIN c.claims \cup {k} |-> IF x = k THEN owner ELSE c.claims[x]]
    OBVIOUS
  <2>3. PICK rec : rec = [c EXCEPT !.ops = @ \ {Smallest(@)}, !.claims = over]
    OBVIOUS
  <2>4. h' = [h EXCEPT ![w] = rec]
    BY <2>1, <2>2, <2>3 DEF WriteClaim
  <2>5. over \in UNION {[K -> Streams \cup {None}] : K \in SUBSET Keys}
    <3>1. PICK K \in SUBSET Keys : c.claims \in [K -> Streams \cup {None}]
      BY DEF HandleRecord
    <3>2. over \in [K \cup {k} -> Streams \cup {None}] /\ K \cup {k} \in SUBSET Keys
      BY <2>2, <3>1
    <3> QED
      BY <3>2
  <2>6. /\ rec \in HandleRecord
        /\ rec.stream = c.stream /\ rec.version = c.version /\ rec.state = c.state
        /\ rec.pc = c.pc /\ rec.rows = c.rows /\ rec.events = c.events
        /\ rec.ops \subseteq c.ops
    BY <2>3, <2>5, ZenonT(60) DEF HandleRecord
  <2>7. CallOK(w)'
    <3>1. h'[w] = rec
      BY <2>4 DEF StoreInv, TypeOK
    <3>2. CallOK(w) /\ Committed' = Committed
      BY DEF StoreInv, Committed, Versions
    <3> QED
      BY <2>1, <2>6, <3>1, <3>2, ZenonT(60) DEF CallOK, IsHistory, Versions
  <2> QED
    BY <2>4, <2>6, <2>7, <1>QuietStep
\* Claiming: either the key is free and is staged, or the transaction ends.
<1>ClaimUniqueInv.
      ASSUME OrderingFacts, StoreInv, NEW w \in Writers, ClaimUnique(w)
      PROVE  StoreInv'
  <2> USE <1>ClaimUniqueInv
  <2>1. h[w].pc = "constrain" /\ h[w].ops # {} /\ NextOp(w).kind = "claim"
    BY DEF ClaimUnique
  <2>2. NextOp(w).key \in Keys
    BY <2>1, <1>NextOpType DEF Payload
  <2>3. UNCHANGED <<events, sequence, claims, cache, cursor, seen>>
    BY DEF ClaimUnique
  <2>4. CASE WriteClaim(w, NextOp(w).key, h[w].stream) /\ UNCHANGED lock
    <3>1. h[w].stream \in Streams \cup {None}
      BY CallType DEF StoreInv, HandleRecord
    <3> QED
      BY <2>1, <2>2, <2>3, <2>4, <3>1, <1>WriteClaimInv
  <2>5. CASE Rollback(w)
    <3>1. sequence' \in sequence..MaxPosition
      BY <2>3, EventStoreAssumption, SMTT(30), SMTT(60) DEF StoreInv, TypeOK
    <3> QED
      BY <2>3, <2>5, <3>1, <1>RollbackInv
  <2> QED
    BY <2>4, <2>5 DEF ClaimUnique
\* Releasing deletes the claim in the overlay.
<1>ReleaseUniqueInv.
      ASSUME OrderingFacts, StoreInv, NEW w \in Writers, ReleaseUnique(w)
      PROVE  StoreInv'
  <2> USE <1>ReleaseUniqueInv
  <2>1. h[w].pc = "constrain" /\ h[w].ops # {} /\ NextOp(w).kind = "release"
    BY DEF ReleaseUnique
  <2>2. NextOp(w).key \in Keys
    BY <2>1, <1>NextOpType DEF Payload
  <2> QED
    BY <2>1, <2>2, <1>WriteClaimInv DEF ReleaseUnique
\* Reading the predecessor's hash.
<1>LastStreamHashInv.
      ASSUME StoreInv, NEW w \in Writers, LastStreamHash(w)
      PROVE  StoreInv'
  <2> USE <1>LastStreamHashInv
  <2>1. PICK c \in HandleRecord : c = h[w]
    BY CallType DEF StoreInv
  <2>2. CallOK(w) /\ c.pc = "constrain" /\ c.stream \in Streams
    BY <2>1 DEF LastStreamHash, StoreInv, CallOK
  <2>3. PICK prev : prev = IF Versions(c.stream) = {} THEN ZeroHash
                           ELSE events[c.stream][Largest(Versions(c.stream))].hash
    OBVIOUS
  <2>4. prev \in Hash
    <3>1. PICK n \in {0} \cup Versions(c.stream) : Versions(c.stream) = 1..n
      BY <2>2 DEF StoreInv
    <3>2. n \in Nat
      BY <2>2, <3>1, SMTT(30), SMTT(60) DEF StoreInv, TypeOK
    <3>3. CASE Versions(c.stream) = {}
      BY <2>3, <3>3, SMTT(30), SMTT(60) DEF ZeroHash, Hash
    <3>4. CASE Versions(c.stream) # {}
      <4>1. 1 <= n
        BY <3>1, <3>2, <3>4, SMTT(30), SMTT(60)
      <4>2. Largest(Versions(c.stream)) \in Versions(c.stream)
        BY <3>1, <3>2, <4>1, LastOfInterval, SMTT(30), SMTT(60)
      <4>3. events[c.stream][Largest(Versions(c.stream))] \in Row
        BY <2>2, <4>2 DEF StoreInv, TypeOK
      <4> QED
        BY <2>3, <3>4, <4>3 DEF Row
    <3> QED
      BY <3>3, <3>4
  <2>5. PICK rec : rec = [c EXCEPT !.pc = "insert", !.prev = prev]
    OBVIOUS
  <2>6. h' = [h EXCEPT ![w] = rec]
    BY <2>1, <2>3, <2>5 DEF LastStreamHash, PredecessorHash
  <2>7. UNCHANGED <<events, sequence, claims, cache, lock, cursor, seen>>
    BY DEF LastStreamHash
  <2>8. /\ rec \in HandleRecord
        /\ rec.stream = c.stream /\ rec.version = c.version /\ rec.state = c.state
        /\ rec.pc = "insert" /\ rec.rows = c.rows /\ rec.events = c.events /\ rec.ops = c.ops
    BY <2>4, <2>5, ZenonT(60) DEF HandleRecord
  <2>9. CallOK(w)'
    <3>1. h'[w] = rec
      BY <2>6 DEF StoreInv, TypeOK
    <3>2. Committed' = Committed
      BY <2>7 DEF Committed, Versions
    <3> QED
      BY <2>1, <2>2, <2>7, <2>8, <3>1, <3>2, ZenonT(60) DEF CallOK, IsHistory, Versions
  <2> QED
    BY <2>6, <2>7, <2>8, <2>9, <1>QuietStep
\* Inserting one event: a version that is taken ends the transaction; otherwise
\* the stream ends exactly at the version the call loaded, and the new row's
\* position is above every committed and every staged one.
<1>InsertEventInv.
      ASSUME StoreInv, NEW w \in Writers, InsertEvent(w)
      PROVE  StoreInv'
  <2> USE <1>InsertEventInv
  <2>1. PICK c \in HandleRecord : c = h[w]
    BY CallType DEF StoreInv
  <2>2. CallOK(w) /\ c.pc = "insert" /\ c.stream \in Streams
    BY <2>1 DEF InsertEvent, StoreInv, CallOK
  <2>3. /\ c.version \in Nat /\ c.rows \in Seq(Row) /\ c.events \in Seq(Payload) /\ c.prev \in Hash
        /\ \A i \in DOMAIN c.rows : c.rows[i] \in Row /\ c.rows[i].pos \in Nat
    BY <2>1, CallType DEF StoreInv
  <2>4. PICK n \in Nat : n = Len(c.rows)
    BY <2>3, SMTT(30), SMTT(60)
  <2>5. n < Len(c.events) /\ sequence < MaxPosition /\ sequence' = sequence + 1
    BY <2>1, <2>4 DEF InsertEvent
  <2>6. sequence \in Nat /\ sequence' \in sequence..MaxPosition /\ sequence + 1 \in 1..MaxPosition
    BY <2>5, EventStoreAssumption, SMTT(30), SMTT(60) DEF StoreInv, TypeOK
  <2>7. UNCHANGED <<events, claims, cache, cursor, seen>>
    BY DEF InsertEvent
  <2>8. CASE Rollback(w)
    BY <2>6, <2>7, <2>8, <1>RollbackInv
  <2>9. CASE ~Rollback(w)
    <3>1. PICK p \in Payload : p = c.events[n + 1]
      BY <2>3, <2>4, <2>5, SMTT(30), SMTT(60)
    <3>2. PICK row : row = [pos |-> sequence + 1, payload |-> p, prev |-> c.prev,
                            hash |-> ComputeChainHash(c.prev, c.version + n + 1, p)]
      OBVIOUS
    <3>3. ComputeChainHash(c.prev, c.version + n + 1, p) \in Hash
      <4>1. [version |-> c.version + n + 1, payload |-> p] \in [version : Nat, payload : Payload]
        BY <2>3, SMTT(30), SMTT(60)
      <4> QED
        BY <2>3, <4>1, SMTT(30), SMTT(60) DEF Hash, ComputeChainHash
    <3>4. row \in Row /\ row.pos = sequence + 1 /\ row.payload = p
      BY <2>3, <2>6, <3>2, <3>3 DEF Row
    <3>5. PICK rec : rec = [c EXCEPT !.prev = row.hash, !.rows = Append(c.rows, row)]
      OBVIOUS
    <3>6. /\ c.version + n + 1 \notin Versions(c.stream)
          /\ h' = [h EXCEPT ![w] = rec]
          /\ UNCHANGED lock
      <4>1. NextVersion(w) = c.version + n + 1
        BY <2>1, <2>4 DEF NextVersion
      <4>2. /\ NextVersion(w) \notin Versions(c.stream)
            /\ UNCHANGED lock
            /\ h' = [h EXCEPT ![w].prev = ComputeChainHash(c.prev, NextVersion(w), c.events[n + 1]),
                   ![w].rows = Append(@, [pos |-> sequence + 1, payload |-> c.events[n + 1],
                                          prev |-> c.prev,
                                          hash |-> ComputeChainHash(c.prev, NextVersion(w), c.events[n + 1])])]
        BY <2>1, <2>4, <2>9 DEF InsertEvent, Taken, NextValue
      <4>3. row.hash = ComputeChainHash(c.prev, NextVersion(w), c.events[n + 1])
        BY <3>1, <3>2, <4>1
      <4>4. row = [pos |-> sequence + 1, payload |-> c.events[n + 1], prev |-> c.prev,
                   hash |-> ComputeChainHash(c.prev, NextVersion(w), c.events[n + 1])]
        BY <3>1, <3>2, <4>1
      <4>5. h' = [h EXCEPT ![w].prev = row.hash, ![w].rows = Append(@, row)]
        BY <4>2, <4>3, <4>4
      <4>6. h' = [h EXCEPT ![w] = rec]
        BY <2>1, <3>5, <4>5
      <4> QED
        BY <4>1, <4>2, <4>6
    <3>7. PICK rows \in Seq(Row) : rows = Append(c.rows, row)
      <4>1. Append(c.rows, row) \in Seq(Row)
        BY <2>3, <3>4, SMTT(30), SMTT(60)
      <4> QED
        BY <4>1
    <3>8. /\ rec \in HandleRecord
          /\ rec.stream = c.stream /\ rec.version = c.version /\ rec.state = c.state
          /\ rec.pc = "insert" /\ rec.rows = rows /\ rec.events = c.events /\ rec.ops = c.ops
      BY <2>2, <3>2, <3>3, <3>5, <3>7 DEF HandleRecord
    <3>9. /\ DOMAIN rows = 1..(n + 1) /\ Len(rows) = n + 1 /\ rows[n + 1] = row
          /\ \A i \in 1..n : rows[i] = c.rows[i] /\ i \in DOMAIN c.rows
      BY <2>3, <2>4, <3>4, <3>7, SMTT(30), SMTT(60)
    <3>10. Versions(c.stream) = 1..c.version
      <4>1. CASE n = 0
        <5>1. PICK m \in {0} \cup Versions(c.stream) : Versions(c.stream) = 1..m
          BY <2>2 DEF StoreInv
        <5>2. m \in Nat
          BY <2>2, <5>1, SMTT(30), SMTT(60) DEF StoreInv, TypeOK
        <5>3. c.version = 0 \/ c.version \in Versions(c.stream)
          BY <2>1, <2>2, <2>3, SMTT(30), SMTT(60) DEF CallOK, IsHistory
        <5> QED
          BY <2>3, <3>6, <4>1, <5>1, <5>2, <5>3, SMTT(30), SMTT(60)
      <4>2. CASE n # 0
        BY <2>1, <2>2, <2>3, <2>4, <4>2 DEF CallOK
      <4> QED
        BY <4>1, <4>2
    <3>11. Committed' = Committed /\ \A q \in Committed : q \in Nat /\ q <= sequence
      BY <2>7, SMTT(30), SMTT(60) DEF StoreInv, Committed, Versions
    <3>12. ASSUME NEW i \in DOMAIN rows
           PROVE  /\ rows[i].payload = c.events[i]
                  /\ rows[i].pos <= sequence + 1
                  /\ \A q \in Committed : q < rows[i].pos
                  /\ \A j \in DOMAIN rows : j < i => rows[j].pos < rows[i].pos
      <4>1. \A j \in 1..n : rows[j].pos \in Nat /\ rows[j].pos <= sequence
        BY <2>1, <2>2, <2>3, <3>9 DEF CallOK
      <4>2. CASE i = n + 1
        <5>1. rows[i].payload = c.events[i] /\ rows[i].pos = sequence + 1
          BY <3>1, <3>4, <3>9, <4>2
        <5>2. \A j \in DOMAIN rows : j < i => j \in 1..n
          BY <2>4, <3>9, <4>2, SMTT(30), SMTT(60)
        <5>3. \A j \in DOMAIN rows : j < i => rows[j].pos < sequence + 1
          BY <2>6, <4>1, <5>2, SMTT(30), SMTT(60)
        <5>4. \A q \in Committed : q < sequence + 1
          BY <2>6, <3>11, SMTT(30), SMTT(60)
        <5> QED
          BY <2>6, <5>1, <5>3, <5>4, SMTT(30), SMTT(60)
      <4>3. CASE i \in 1..n
        <5>1. rows[i] = c.rows[i] /\ i \in DOMAIN c.rows
          BY <3>9, <4>3
        <5>2. /\ c.rows[i].payload = c.events[i]
              /\ \A q \in Committed : q < c.rows[i].pos
              /\ \A j \in DOMAIN c.rows : j < i => c.rows[j].pos < c.rows[i].pos
          BY <2>1, <2>2, <5>1 DEF CallOK
        <5>3. \A j \in DOMAIN rows : j < i => rows[j] = c.rows[j] /\ j \in DOMAIN c.rows
          BY <2>4, <3>9, <4>3, SMTT(30), SMTT(60)
        <5>4. rows[i].pos <= sequence + 1
          BY <2>6, <4>1, <4>3, SMTT(30), SMTT(60)
        <5> QED
          BY <5>1, <5>2, <5>3, <5>4
      <4> QED
        BY <2>4, <3>9, <4>2, <4>3, SMTT(30), SMTT(60)
    <3>13. CallOK(w)'
      <4>1. h'[w] = rec
        BY <3>6 DEF StoreInv, TypeOK
      <4>2. IsHistory(c.stream, c.version, c.state)' /\ Versions(c.stream)' = 1..c.version
        BY <2>1, <2>2, <2>7, <3>10 DEF CallOK, IsHistory, Versions
      <4>3. n + 1 <= Len(c.events)
        BY <2>3, <2>4, <2>5, SMTT(30), SMTT(60)
      <4>4. lock' = w /\ ~IsTerminal(c.state) /\ c.events \in Decide(c.state) /\ c.ops \subseteq DOMAIN c.events
        BY <2>1, <2>2, <3>6 DEF CallOK
      <4> QED
        BY <2>2, <2>5, <3>8, <3>9, <3>11, <3>12, <4>1, <4>2, <4>3, <4>4, ZenonT(60) DEF CallOK
    <3>14. lock' \in Writers \cup {None} /\ \A x \in Writers \ {w} : lock' = x <=> lock = x
      BY <3>6 DEF StoreInv, TypeOK
    <3> QED
      BY <2>6, <2>7, <3>6, <3>8, <3>13, <3>14, <1>LocalStep
  <2> QED
    BY <2>8, <2>9
\* The step itself.
<1> SUFFICES ASSUME OrderingFacts, StoreInv, [Next]_vars PROVE StoreInv'
  OBVIOUS
<1>1. ASSUME NEW w \in Writers, HandleStep(w)
      PROVE  StoreInv'
  <2>1. ASSUME NEW s \in Streams, GetState(w, s) PROVE StoreInv'
    BY <2>1, <1>GetStateInv
  <2>2. CASE ReadStream(w)
    BY <2>2, <1>ReadStreamInv
  <2>3. CASE Decided(w)
    BY <2>3, <1>DecidedInv
  <2>4. CASE AdvisoryLock(w)
    BY <2>4, <1>AdvisoryLockInv
  <2>5. CASE ClaimUnique(w)
    BY <2>5, <1>ClaimUniqueInv
  <2>6. CASE ReleaseUnique(w)
    BY <2>6, <1>ReleaseUniqueInv
  <2>7. CASE LastStreamHash(w)
    BY <2>7, <1>LastStreamHashInv
  <2>8. CASE InsertEvent(w)
    BY <2>8, <1>InsertEventInv
  <2>9. CASE Commit(w)
    BY <2>9, CommitInv
  <2>10. CASE Fail(w)
    BY <2>10, <1>FailInv
  <2> QED
    BY <1>1, <2>1, <2>2, <2>3, <2>4, <2>5, <2>6, <2>7, <2>8, <2>9, <2>10 DEF HandleStep,
       AppendStep
<1>2. ASSUME NEW f \in Followers, ReadAll(f)
      PROVE  StoreInv'
  BY <1>2, ReadAllInv
<1>3. CASE UNCHANGED vars
  <2>1. TypeOK'
    BY <1>3 DEF vars, StoreInv, TypeOK, Versions
  <2>2. Committed' = Committed
    BY <1>3 DEF vars, Committed, Versions
  <2>3. ASSUME NEW w \in Writers PROVE CallOK(w)'
    <3>1. CallOK(w)
      BY DEF StoreInv
    <3> QED
      BY <1>3, <2>2, <3>1, ZenonT(60) DEF vars, CallOK, IsHistory, Versions
  <2>4. DataInv'
    BY <1>3, <2>2, SMTT(30), SMTT(60) DEF vars, StoreInv, DataInv, StreamsAreSequences, PositionsUnique,
              CacheIsFold, ClosedIsFinal, NoSkip, IsHistory, Versions
  <2>5. \A p \in Committed' : p <= sequence'
    BY <1>3, <2>2 DEF vars, StoreInv
  <2> QED
    BY <2>1, <2>3, <2>4, <2>5, ZenonT(60) DEF StoreInv, DataInv
<1> QED
  BY <1>1, <1>2, <1>3 DEF Next

\* Only Commit changes the table of events.
LEMMA OnlyCommitWrites ==
    ASSUME [Next]_vars, \A w \in Writers : ~Commit(w)
    PROVE  events' = events
BY ZenonT(60) DEF Next, vars, HandleStep, AppendStep, GetState, ReadStream, Decided, AdvisoryLock,
       ClaimUnique, ReleaseUnique, LastStreamHash, InsertEvent, Fail, ReadAll

-------------------------------------------------------------------------------
(* What one step of the store may do *)

\* No step changes or removes a committed event.
LEMMA StepKeepsEvents ==
    ASSUME StoreInv, [Next]_vars
    PROVE  \A s \in Streams : \A v \in Versions(s) :
               v \in DOMAIN events'[s] /\ events'[s][v] = events[s][v]
<1>1. ASSUME NEW w \in Writers, Commit(w)
      PROVE  \A s \in Streams : \A v \in Versions(s) :
                 v \in DOMAIN events'[s] /\ events'[s][v] = events[s][v]
  BY <1>1, CommitKeepsRows DEF Versions
<1>2. CASE \A w \in Writers : ~Commit(w)
  BY <1>2, OnlyCommitWrites DEF Versions
<1> QED
  BY <1>1, <1>2

\* What a step makes visible lies above all that was visible.
LEMMA StepAppearsAbove ==
    ASSUME StoreInv, [Next]_vars
    PROVE  \A p \in Committed' \ Committed : \A q \in Committed : q < p
<1>1. ASSUME NEW w \in Writers, Commit(w)
      PROVE  \A p \in Committed' \ Committed : \A q \in Committed : q < p
  BY <1>1, CommitPositions
<1>2. CASE \A w \in Writers : ~Commit(w)
  <2>1. Committed' = Committed
    BY <1>2, OnlyCommitWrites DEF Committed, Versions
  <2> QED
    BY <2>1
<1> QED
  BY <1>1, <1>2

-------------------------------------------------------------------------------
(* The hash chain *)

\* Every row of stream s digests the hash of the row one version below it.
Linked(s) ==
    \A v \in Versions(s) :
        /\ events[s][v].prev = IF v = 1 THEN ZeroHash ELSE events[s][v - 1].hash
        /\ events[s][v].hash = ComputeChainHash(events[s][v].prev, v, events[s][v].payload)

\* The rows writer w has staged continue the chain from the stream's last row,
\* and the hash it carries to the next insert is that of the last one.
StagedLinked(w) ==
    LET c == h[w]
        head == PredecessorHash(c.stream)
    IN  c.pc = "insert" =>
            /\ c.prev = IF c.rows = <<>> THEN head ELSE c.rows[Len(c.rows)].hash
            /\ \A i \in DOMAIN c.rows :
                   /\ c.rows[i].prev = IF i = 1 THEN head ELSE c.rows[i - 1].hash
                   /\ c.rows[i].hash = ComputeChainHash(c.rows[i].prev, c.version + i, c.rows[i].payload)

\* Every stream is linked, and so is what a transaction has staged on top of it.
ChainInv ==
    /\ \A s \in Streams : Linked(s)
    /\ \A w \in Writers : StagedLinked(w)

\* The rows below version v of a stream without holes end at v - 1.
LEMMA LinkedIntact ==
    ASSUME StoreInv, ChainInv
    PROVE  ChainIntact
<1> SUFFICES ASSUME NEW s \in Streams, NEW v \in Versions(s)
             PROVE  LET before == {u \in Versions(s) : u < v}
                        prev == IF before = {} THEN ZeroHash ELSE events[s][Largest(before)].hash
                    IN  /\ events[s][v].hash = ComputeChainHash(prev, v, events[s][v].payload)
                        /\ events[s][v].prev = prev
  BY DEF ChainIntact
<1> DEFINE before == {u \in Versions(s) : u < v}
<1>1. PICK n \in Nat : Versions(s) = 1..n
  BY DEF StoreInv, TypeOK
<1>2. v \in 1..n /\ before = 1..(v - 1)
  BY <1>1, SMTT(30), SMTT(60)
<1>3. (IF before = {} THEN ZeroHash ELSE events[s][Largest(before)].hash)
          = IF v = 1 THEN ZeroHash ELSE events[s][v - 1].hash
  <2>1. CASE v = 1
    <3>1. before = {}
      BY <1>2, <2>1, SMTT(30), SMTT(60)
    <3> QED
      BY <2>1, <3>1
  <2>2. CASE v # 1
    <3>1. Largest(1..(v - 1)) = v - 1 /\ 1..(v - 1) # {}
      BY <1>2, <2>2, LastOfInterval, SMTT(30), SMTT(60)
    <3> QED
      BY <1>2, <2>2, <3>1
  <2> QED
    BY <2>1, <2>2
<1>4. Linked(s)
  BY DEF ChainInv
<1> QED
  BY <1>3, <1>4 DEF Linked

\* The store starts with no chain at all.
LEMMA InitChain == ASSUME Init PROVE ChainInv
<1>1. ASSUME NEW s \in Streams PROVE Linked(s)
  BY SMTT(30), SMTT(60) DEF Init, Linked, Versions
<1>2. ASSUME NEW w \in Writers PROVE StagedLinked(w)
  BY DEF Init, Idle, StagedLinked
<1> QED
  BY <1>1, <1>2 DEF ChainInv

\* Every step keeps the chains linked.
LEMMA NextChain == StoreInv /\ ChainInv /\ [Next]_vars => ChainInv'
\* LastStreamHash reads the hash of the row at the stream's version.
<1>PredecessorIs.
      ASSUME NEW s, NEW n \in Nat, Versions(s) = 1..n
      PROVE  PredecessorHash(s) = IF n = 0 THEN ZeroHash ELSE events[s][n].hash
  <2> USE <1>PredecessorIs
  <2>1. CASE n = 0
    BY <2>1, SMTT(30), SMTT(60) DEF PredecessorHash
  <2>2. CASE n # 0
    <3>1. Largest(1..n) = n
      BY <2>2, LastOfInterval, SMTT(30), SMTT(60)
    <3>2. Versions(s) # {}
      BY <2>2, SMTT(30), SMTT(60)
    <3> QED
      BY <2>2, <3>1, <3>2 DEF PredecessorHash
  <2> QED
    BY <2>1, <2>2
\* A step that commits nothing and leaves the staged rows of every writer that
\* is still inserting alone keeps the chain.
<1>ChainStays.
      ASSUME ChainInv, events' = events,
             \A x \in Writers : StagedLinked(x)' \/ h'[x] = h[x] \/ h'[x].pc # "insert"
      PROVE  ChainInv'
  <2> USE <1>ChainStays
  <2>1. \A s : PredecessorHash(s)' = PredecessorHash(s)
    BY DEF PredecessorHash, Versions
  <2>2. \A s \in Streams : Linked(s)'
    BY ZenonT(60) DEF ChainInv, Linked, Versions
  <2>3. ASSUME NEW x \in Writers PROVE StagedLinked(x)'
    <3>1. CASE h'[x] = h[x]
      BY <2>1, <3>1, SMTT(30), SMTT(60) DEF ChainInv, StagedLinked
    <3>2. CASE h'[x].pc # "insert"
      BY <3>2 DEF StagedLinked
    <3> QED
      BY <3>1, <3>2
  <2> QED
    BY <2>2, <2>3 DEF ChainInv
\* Steps outside the inserts: no writer that is inserting afterwards was touched.
<1>QuietSteps.
      ASSUME StoreInv, [Next]_vars,
             \A w \in Writers : ~LastStreamHash(w) /\ ~InsertEvent(w) /\ ~Commit(w)
      PROVE  events' = events /\ \A x \in Writers : h'[x] = h[x] \/ h'[x].pc # "insert"
  <2> USE <1>QuietSteps
  <2>0. h \in [Writers -> HandleRecord] /\ Idle.pc = "idle"
    BY DEF StoreInv, TypeOK, Idle
  <2>1. events' = events
    BY OnlyCommitWrites
  <2>2. ASSUME NEW w \in Writers, HandleStep(w), NEW x \in Writers
        PROVE  h'[x] = h[x] \/ h'[x].pc # "insert"
    <3>0. PICK c \in HandleRecord : c = h[w]
      BY <2>0
    <3>1. ASSUME NEW rec, rec.pc # "insert", h' = [h EXCEPT ![w] = rec]
          PROVE  h'[x] = h[x] \/ h'[x].pc # "insert"
      BY <2>0, <3>1
    <3>2. ASSUME NEW s \in Streams, GetState(w, s)
          PROVE  h'[x] = h[x] \/ h'[x].pc # "insert"
      <4>1. \A v, st : [Idle EXCEPT !.pc = "load", !.stream = s, !.version = v, !.state = st].pc = "load"
        BY DEF Idle
      <4>2. [Idle EXCEPT !.pc = "load", !.stream = s].pc = "load"
        BY DEF Idle
      <4> QED
        BY <3>1, <3>2, <4>1, <4>2 DEF GetState
    <3>3. CASE ReadStream(w)
      <4>1. PICK v, st : h' = [h EXCEPT ![w].pc = "decide", ![w].version = v, ![w].state = st]
        BY <3>3 DEF ReadStream
      <4>2. h' = [h EXCEPT ![w] = [c EXCEPT !.pc = "decide", !.version = v, !.state = st]]
        BY <3>0, <4>1
      <4>3. [c EXCEPT !.pc = "decide", !.version = v, !.state = st].pc = "decide"
        BY DEF HandleRecord
      <4> QED
        BY <3>1, <4>2, <4>3
    <3>4. CASE Decided(w)
      <4>1. PICK b, o : h' = [h EXCEPT ![w].pc = "begin", ![w].events = b, ![w].ops = o]
        BY <3>4 DEF Decided
      <4>2. h' = [h EXCEPT ![w] = [c EXCEPT !.pc = "begin", !.events = b, !.ops = o]]
        BY <3>0, <4>1
      <4>3. [c EXCEPT !.pc = "begin", !.events = b, !.ops = o].pc = "begin"
        BY DEF HandleRecord
      <4> QED
        BY <3>1, <4>2, <4>3
    <3>5. CASE AdvisoryLock(w)
      <4>1. h' = [h EXCEPT ![w] = [c EXCEPT !.pc = "constrain"]]
        BY <3>0, <3>5 DEF AdvisoryLock
      <4>2. [c EXCEPT !.pc = "constrain"].pc = "constrain"
        BY DEF HandleRecord
      <4> QED
        BY <3>1, <4>1, <4>2
    <3>6. ASSUME NEW k, NEW owner, c.pc = "constrain", WriteClaim(w, k, owner)
          PROVE  h'[x] = h[x] \/ h'[x].pc # "insert"
      <4>1. PICK o, m : h' = [h EXCEPT ![w].ops = o, ![w].claims = m]
        BY <3>6 DEF WriteClaim
      <4>2. h' = [h EXCEPT ![w] = [c EXCEPT !.ops = o, !.claims = m]]
        BY <3>0, <4>1
      <4>3. [c EXCEPT !.ops = o, !.claims = m].pc = "constrain"
        BY <3>6 DEF HandleRecord
      <4> QED
        BY <3>1, <4>2, <4>3
    <3>7. CASE Rollback(w)
      BY <2>0, <3>1, <3>7 DEF Rollback
    <3>8. CASE ClaimUnique(w)
      BY <3>0, <3>6, <3>7, <3>8 DEF ClaimUnique
    <3>9. CASE ReleaseUnique(w)
      BY <3>0, <3>6, <3>9 DEF ReleaseUnique
    <3>10. CASE Fail(w)
      BY <3>7, <3>10 DEF Fail
    <3> QED
      BY <2>2, <3>2, <3>3, <3>4, <3>5, <3>8, <3>9, <3>10 DEF HandleStep, AppendStep
  <2>3. ASSUME NEW f \in Followers, ReadAll(f) PROVE h' = h
    BY <2>3 DEF ReadAll
  <2>4. CASE UNCHANGED vars
    BY <2>1, <2>4 DEF vars
  <2> QED
    BY <2>1, <2>2, <2>3, <2>4 DEF Next
\* LastStreamHash starts the staged chain at the stream's last row.
<1>LastStreamHashLinks.
      ASSUME StoreInv, ChainInv, NEW w \in Writers, LastStreamHash(w)
      PROVE  ChainInv'
  <2> USE <1>LastStreamHashLinks
  <2>1. PICK c \in HandleRecord : c = h[w]
    BY CallType DEF StoreInv
  <2>2. c.rows = <<>> /\ events' = events
    BY <2>1 DEF LastStreamHash, StoreInv, CallOK
  <2>3. h' = [h EXCEPT ![w] = [c EXCEPT !.pc = "insert", !.prev = PredecessorHash(c.stream)]]
    BY <2>1 DEF LastStreamHash
  <2>4. PICK rec : rec = [c EXCEPT !.pc = "insert", !.prev = PredecessorHash(c.stream)]
    OBVIOUS
  <2>8. rec.stream = c.stream /\ rec.rows = <<>> /\ rec.prev = PredecessorHash(c.stream)
    BY <2>2, <2>4 DEF HandleRecord
  <2>5. h'[w] = rec /\ \A x \in Writers : x # w => h'[x] = h[x]
    BY <2>3, <2>4 DEF StoreInv, TypeOK
  <2>6. PredecessorHash(c.stream)' = PredecessorHash(c.stream)
    BY <2>2 DEF PredecessorHash, Versions
  <2>7. StagedLinked(w)'
    BY <2>5, <2>6, <2>8, SMTT(30), SMTT(60) DEF StagedLinked
  <2> QED
    BY <2>2, <2>5, <2>7, <1>ChainStays
\* InsertEvent stages a row on top of the last one, or ends the call.
<1>InsertEventLinks.
      ASSUME StoreInv, ChainInv, NEW w \in Writers, InsertEvent(w)
      PROVE  ChainInv'
  <2> USE <1>InsertEventLinks
  <2>1. PICK c \in HandleRecord : c = h[w]
    BY CallType DEF StoreInv
  <2>2. events' = events /\ c.pc = "insert" /\ c.rows \in Seq(Row) /\ c.version \in Nat
    BY <2>1, CallType DEF InsertEvent, StoreInv
  <2>3. CASE Rollback(w)
    <3>1. \A x \in Writers : h'[x] = h[x] \/ h'[x].pc # "insert"
      BY <2>3 DEF Rollback, Idle, StoreInv, TypeOK
    <3> QED
      BY <2>2, <3>1, <1>ChainStays
  <2>4. CASE ~Rollback(w)
    <3>1. PICK n \in Nat : n = Len(c.rows)
      BY <2>2, SMTT(30), SMTT(60)
    <3>2. PICK p, hash, row :
              /\ hash = ComputeChainHash(c.prev, c.version + n + 1, p)
              /\ row = [pos |-> sequence + 1, payload |-> p, prev |-> c.prev, hash |-> hash]
              /\ h' = [h EXCEPT ![w].prev = hash, ![w].rows = Append(@, row)]
      BY <2>1, <2>4, <3>1 DEF InsertEvent, NextVersion, NextValue
    <3>3. h' = [h EXCEPT ![w] = [c EXCEPT !.prev = hash, !.rows = Append(c.rows, row)]]
      BY <2>1, <3>2
    <3>0. PICK rec : rec = [c EXCEPT !.prev = hash, !.rows = Append(c.rows, row)]
      OBVIOUS
    <3>4. /\ rec.stream = c.stream /\ rec.version = c.version
          /\ rec.rows = Append(c.rows, row) /\ rec.prev = hash
      BY <3>0 DEF HandleRecord
    <3>5. h'[w] = rec /\ \A x \in Writers : x # w => h'[x] = h[x]
      BY <3>0, <3>3 DEF StoreInv, TypeOK
    <3>6. /\ DOMAIN rec.rows = 1..(n + 1) /\ Len(rec.rows) = n + 1 /\ rec.rows # <<>>
          /\ rec.rows[n + 1] = row
          /\ \A i \in 1..n : rec.rows[i] = c.rows[i] /\ i \in DOMAIN c.rows
      <4>1. c.rows \in Seq(Row \cup {row})
        BY <2>2, SMTT(30), SMTT(60)
      <4> QED
        BY <3>1, <3>4, <4>1, SMTT(30), SMTT(60)
    <3>7. PICK head : head = PredecessorHash(c.stream) /\ head = PredecessorHash(c.stream)'
      BY <2>2 DEF PredecessorHash, Versions
    <3>8. /\ c.prev = IF n = 0 THEN head ELSE c.rows[n].hash
          /\ \A i \in 1..n :
                 /\ c.rows[i].prev = IF i = 1 THEN head ELSE c.rows[i - 1].hash
                 /\ c.rows[i].hash = ComputeChainHash(c.rows[i].prev, c.version + i, c.rows[i].payload)
      <4>1. (c.rows = <<>> <=> n = 0) /\ DOMAIN c.rows = 1..n
        BY <2>2, <3>1, SMTT(30), SMTT(60)
      <4>2. StagedLinked(w)
        BY ZenonT(60) DEF ChainInv
      <4> QED
        BY <2>1, <2>2, <3>1, <3>7, <4>1, <4>2 DEF StagedLinked
    <3>9. ASSUME NEW i \in 1..(n + 1)
          PROVE  /\ rec.rows[i].prev = IF i = 1 THEN head ELSE rec.rows[i - 1].hash
                 /\ rec.rows[i].hash = ComputeChainHash(rec.rows[i].prev, c.version + i, rec.rows[i].payload)
      <4>1. CASE i = n + 1
        <5>1. row.prev = c.prev /\ row.hash = ComputeChainHash(c.prev, c.version + i, row.payload)
          BY <2>2, <3>1, <3>2, <4>1, SMTT(30), SMTT(60)
        <5>2. c.prev = IF i = 1 THEN head ELSE rec.rows[i - 1].hash
          <6>1. i - 1 = n /\ (i = 1 <=> n = 0) /\ (n # 0 => n \in 1..n)
            BY <3>1, <4>1, SMTT(30), SMTT(60)
          <6> QED
            BY <3>6, <3>8, <6>1
        <5> QED
          BY <3>6, <4>1, <5>1, <5>2
      <4>2. CASE i \in 1..n
        <5>1. rec.rows[i] = c.rows[i] /\ (i # 1 => rec.rows[i - 1] = c.rows[i - 1])
          BY <3>1, <3>6, <4>2, SMTT(30), SMTT(60)
        <5> QED
          BY <3>8, <4>2, <5>1, ZenonT(60)
      <4> QED
        BY <3>1, <4>1, <4>2, SMTT(30), SMTT(60)
    <3>10. rec.prev = rec.rows[Len(rec.rows)].hash
      BY <3>2, <3>4, <3>6, SMTT(30), SMTT(60)
    <3>11. StagedLinked(w)'
      <4>1. ASSUME NEW i \in DOMAIN rec.rows
            PROVE  /\ rec.rows[i].prev = IF i = 1 THEN PredecessorHash(rec.stream)' ELSE rec.rows[i - 1].hash
                   /\ rec.rows[i].hash = ComputeChainHash(rec.rows[i].prev, rec.version + i, rec.rows[i].payload)
        BY <3>4, <3>6, <3>7, <3>9, ZenonT(60)
      <4>2. rec.prev = IF rec.rows = <<>> THEN PredecessorHash(rec.stream)' ELSE rec.rows[Len(rec.rows)].hash
        BY <3>6, <3>10
      <4> QED
        BY <3>5, <4>1, <4>2, ZenonT(60) DEF StagedLinked
    <3> QED
      BY <2>2, <3>5, <3>11, <1>ChainStays
  <2> QED
    BY <2>3, <2>4
\* Commit moves the staged chain behind the stream's last row; nobody else is
\* inserting, because the committing writer holds the lock.
<1>CommitLinks.
      ASSUME StoreInv, ChainInv, NEW w \in Writers, Commit(w)
      PROVE  ChainInv'
  <2> USE <1>CommitLinks
  <2>1. PICK c \in HandleRecord : c = h[w]
    BY CallType DEF StoreInv
  <2>2. PICK s \in Streams, b \in Nat, n \in Nat :
            /\ s = c.stream /\ b = c.version /\ n = Len(c.rows)
            /\ c.rows \in Seq(Row)
            /\ Versions(s) = 1..b
            /\ events' = [t \in Streams |-> IF t = s THEN events'[s] ELSE events[t]]
            /\ DOMAIN events'[s] = 1..(b + n)
            /\ \A v \in 1..b : events'[s][v] = events[s][v]
            /\ \A i \in 1..n : events'[s][b + i] = c.rows[i]
    <3>1. /\ c.stream \in Streams /\ c.version \in Nat /\ Len(c.rows) \in Nat
          /\ c.rows \in Seq(Row)
          /\ Versions(c.stream) = 1..c.version
          /\ events' = [t \in Streams |-> IF t = c.stream THEN events'[c.stream] ELSE events[t]]
          /\ DOMAIN events'[c.stream] = 1..(c.version + Len(c.rows))
          /\ \A v \in 1..c.version : events'[c.stream][v] = events[c.stream][v]
          /\ \A i \in 1..Len(c.rows) : events'[c.stream][c.version + i] = c.rows[i]
      BY <2>1, CommitAppends, ZenonT(60)
    <3> QED
      BY <3>1, ZenonT(60)
  <2>3. \A t \in Streams : t # s => events'[t] = events[t]
    BY <2>2, ZenonT(60)
  <2>0. b \in Nat /\ n \in Nat
    OBVIOUS
  <2>a. ASSUME NEW v \in 1..b PROVE events'[s][v] = events[s][v]
    BY <2>2
  <2>b. ASSUME NEW i \in 1..n PROVE events'[s][b + i] = c.rows[i]
    BY <2>2
  <2>c. PICK head : head = IF b = 0 THEN ZeroHash ELSE events[s][b].hash
    OBVIOUS
  <2>4. ASSUME NEW i \in 1..n
        PROVE  /\ c.rows[i].prev = IF i = 1 THEN head ELSE c.rows[i - 1].hash
               /\ c.rows[i].hash = ComputeChainHash(c.rows[i].prev, b + i, c.rows[i].payload)
    <3>1. PredecessorHash(s) = head
      <4>1. Versions(s) = 1..b
        BY <2>2
      <4> QED
        BY <2>c, <4>1, <1>PredecessorIs
    <3>2. StagedLinked(w) /\ c.pc = "insert"
      BY <2>1 DEF ChainInv, Commit
    <3>3. i \in DOMAIN c.rows /\ s = c.stream /\ b = c.version
      BY <2>2, SMTT(30), SMTT(60)
    <3> QED
      BY <2>1, <3>1, <3>2, <3>3 DEF StagedLinked
  <2>5. ASSUME NEW v \in 1..(b + n)
        PROVE  /\ events'[s][v].prev = IF v = 1 THEN ZeroHash ELSE events'[s][v - 1].hash
               /\ events'[s][v].hash = ComputeChainHash(events'[s][v].prev, v, events'[s][v].payload)
    <3>1. CASE v <= b
      <4>0. v \in 1..b /\ (v # 1 => v - 1 \in 1..b)
        BY <3>1, SMTT(30), SMTT(60)
      <4>1. events'[s][v] = events[s][v] /\ (v # 1 => events'[s][v - 1] = events[s][v - 1])
        BY <2>a, <4>0
      <4>2. v \in Versions(s) /\ Linked(s)
        BY <2>2, <3>1, SMTT(30), SMTT(60) DEF ChainInv
      <4> QED
        BY <4>1, <4>2 DEF Linked
    <3>2. CASE v > b
      <4>1. PICK i \in 1..n : v = b + i
        <5>1. v - b \in 1..n /\ v = b + (v - b)
          BY <2>0, <3>2, SMTT(30), SMTT(60)
        <5> QED
          BY <5>1
      <4>2. events'[s][v] = c.rows[i]
        BY <2>b, <4>1
      <4>3. c.rows[i].prev = IF v = 1 THEN ZeroHash ELSE events'[s][v - 1].hash
        <5>1. CASE i = 1
          <6>1. v - 1 = b /\ (v = 1 <=> b = 0) /\ (b # 0 => b \in 1..b)
            BY <2>0, <4>1, <5>1, SMTT(30), SMTT(60)
          <6>2. c.rows[i].prev = head
            BY <2>4, <5>1
          <6>3. b # 0 => events'[s][v - 1] = events[s][b]
            BY <2>a, <6>1
          <6> QED
            BY <2>c, <6>1, <6>2, <6>3
        <5>2. CASE i # 1
          <6>1. v - 1 = b + (i - 1) /\ i - 1 \in 1..n /\ v # 1
            BY <2>0, <4>1, <5>2, SMTT(30), SMTT(60)
          <6>2. events'[s][v - 1] = c.rows[i - 1]
            BY <2>b, <6>1
          <6> QED
            BY <2>4, <5>2, <6>1, <6>2
        <5> QED
          BY <5>1, <5>2
      <4> QED
        BY <2>4, <4>1, <4>2, <4>3
    <3> QED
      BY <2>0, <3>1, <3>2, SMTT(30), SMTT(60)
  <2>6. ASSUME NEW t \in Streams PROVE Linked(t)'
    <3>1. CASE t = s
      BY <2>2, <2>5, <3>1, ZenonT(60) DEF Linked, Versions
    <3>2. CASE t # s
      BY <2>3, <3>2, SMTT(30), SMTT(60) DEF ChainInv, Linked, Versions
    <3> QED
      BY <3>1, <3>2
  <2>7. ASSUME NEW x \in Writers PROVE StagedLinked(x)'
    <3>1. CallOK(x)' /\ lock' # x
      BY CommitCalls, EventStoreAssumption DEF Commit
    <3>2. h'[x].pc # "insert"
      BY <3>1 DEF CallOK
    <3> QED
      BY <3>2 DEF StagedLinked
  <2> QED
    BY <2>6, <2>7 DEF ChainInv
\* The step itself.
<1> SUFFICES ASSUME StoreInv, ChainInv, [Next]_vars PROVE ChainInv'
  OBVIOUS
<1>1. ASSUME NEW w \in Writers, LastStreamHash(w) PROVE ChainInv'
  BY <1>1, <1>LastStreamHashLinks
<1>2. ASSUME NEW w \in Writers, InsertEvent(w) PROVE ChainInv'
  BY <1>2, <1>InsertEventLinks
<1>3. ASSUME NEW w \in Writers, Commit(w) PROVE ChainInv'
  BY <1>3, <1>CommitLinks
<1>4. CASE \A w \in Writers : ~LastStreamHash(w) /\ ~InsertEvent(w) /\ ~Commit(w)
  BY <1>4, <1>QuietSteps, <1>ChainStays
<1> QED
  BY <1>1, <1>2, <1>3, <1>4

-------------------------------------------------------------------------------
(* The claims *)

\* Among the first n events of st, key k is claimed and not released since.
HeldIn(st, n, k) ==
    \E i \in 1..n :
        /\ st[i] = [kind |-> "claim", key |-> k]
        /\ \A j \in 1..n : j > i => st[j] # [kind |-> "release", key |-> k]

\* Writer w has carried out the constraint operations of the first m events of
\* its batch.  unique_claims as its transaction sees it is what the abstract log
\* would own after them; and if the stream still ends where the call loaded it,
\* that is what the stream's history and those events say.
OpsDone(w, m) ==
    LET c == h[w]
    IN  /\ c.ops = {i \in DOMAIN c.events : i > m /\ IsConstraintOp(c.events[i])}
        /\ \A k \in Keys : ClaimOf(w, k) = Log!OwnerAfter(c.stream, c.events, m, k)
        /\ \A i \in 1..m : c.events[i].kind = "claim" =>
               Log!OwnerAfter(c.stream, c.events, i - 1, c.events[i].key) = None
        /\ Versions(c.stream) = 1..c.version => \A k \in Keys :
               /\ ClaimOf(w, k) = c.stream
                      <=> HeldIn(Evolve(c.state, c.events), c.version + m, k)
               /\ \A t \in Streams \ {c.stream} : ClaimOf(w, k) = t <=> claims[k] = t

\* The claims of a call of Append are those of the constraint operations it has done.
ClaimCall(w) ==
    LET c == h[w]
    IN  /\ c.pc \notin {"constrain", "insert"} => c.claims = <<>>
        /\ c.pc = "begin" => c.ops = {i \in DOMAIN c.events : IsConstraintOp(c.events[i])}
        /\ c.pc = "constrain" => \E m \in 0..Len(c.events) : OpsDone(w, m)
        /\ c.pc = "insert" => OpsDone(w, Len(c.events))

\* The inductive invariant of ClaimsMatchHistory: the committed claims, and those
\* staged.
ClaimsInv == ClaimsMatchHistory /\ \A w \in Writers : ClaimCall(w)

\* Every step keeps the claims: one case per action.
LEMMA NextClaims == OrderingFacts /\ StoreInv /\ ClaimsInv /\ [Next]_vars => ClaimsInv'
\* An event that carries an operation is that operation.
<1>OpPayload.
      ASSUME NEW p \in Payload, IsConstraintOp(p)
      PROVE  /\ p.key \in Keys
             /\ p.kind \in {"claim", "release"}
             /\ p = [kind |-> p.kind, key |-> p.key]
  BY <1>OpPayload DEF Payload, IsConstraintOp
\* Events that do not touch a key leave its owner alone.
<1>HeldSkips.
      ASSUME NEW st, NEW n \in Nat, NEW p \in Nat, n <= p, NEW k,
             \A j \in (n + 1)..p : /\ st[j] # [kind |-> "claim", key |-> k]
                                   /\ st[j] # [kind |-> "release", key |-> k]
      PROVE  HeldIn(st, p, k) <=> HeldIn(st, n, k)
  BY <1>HeldSkips, SMTT(30), SMTT(60) DEF HeldIn
\* The last event decides.
<1>HeldLast.
      ASSUME NEW st, NEW p \in Nat \ {0}, NEW k
      PROVE  /\ st[p] = [kind |-> "claim", key |-> k] => HeldIn(st, p, k)
             /\ st[p] = [kind |-> "release", key |-> k] => ~HeldIn(st, p, k)
  <2>1. ASSUME st[p] = [kind |-> "claim", key |-> k] PROVE HeldIn(st, p, k)
    BY <2>1, SMTT(30), SMTT(60) DEF HeldIn
  <2>2. ASSUME st[p] = [kind |-> "release", key |-> k], HeldIn(st, p, k) PROVE FALSE
    <3>1. PICK i \in 1..p : /\ st[i] = [kind |-> "claim", key |-> k]
                            /\ \A j \in 1..p : j > i => st[j] # [kind |-> "release", key |-> k]
      BY <2>2 DEF HeldIn
    <3>2. i # p
      BY <2>2, <3>1, SMTT(30), SMTT(60)
    <3> QED
      BY <2>2, <3>1, <3>2, SMTT(30), SMTT(60)
  <2> QED
    BY <2>1, <2>2
\* Holding a key in a whole sequence.
<1>HeldInAll.
      ASSUME NEW n \in Nat, NEW st, DOMAIN st = 1..n, NEW k
      PROVE  Holds(st, k) <=> HeldIn(st, n, k)
  BY <1>HeldInAll DEF Holds, HeldIn
\* Two sequences that agree up to n hold the same keys there.
<1>HeldAgrees.
      ASSUME NEW n \in Nat, NEW st, NEW su, \A i \in 1..n : st[i] = su[i], NEW k
      PROVE  HeldIn(st, n, k) <=> HeldIn(su, n, k)
  BY <1>HeldAgrees, ZenonT(60) DEF HeldIn
\* What Decide looks at when it releases a key: the state and the batch so far.
<1>HeldBefore.
      ASSUME NEW st \in Seq(Payload), NEW b \in Seq(Payload), NEW m \in Nat, m <= Len(b), NEW k
      PROVE  Holds(Evolve(st, SubSeq(b, 1, m)), k) <=> HeldIn(Evolve(st, b), Len(st) + m, k)
  <2> USE <1>HeldBefore
  <2> DEFINE c == SubSeq(b, 1, m)
             f == Evolve(st, b)
             g == Evolve(st, c)
  <2>0. Len(st) \in Nat /\ Len(b) \in Nat
    BY SMTT(30), SMTT(60)
  <2>1. c \in Seq(Payload) /\ Len(c) = m /\ \A i \in 1..m : c[i] = b[i]
    <3>1. c = [i \in 1..m |-> b[i]]
      BY <2>0, SMTT(30), SMTT(60)
    <3>2. \A i \in 1..m : b[i] \in Payload
      BY <2>0, SMTT(30), SMTT(60)
    <3> QED
      BY <3>1, <3>2, SMTT(30), SMTT(60)
  <2> HIDE DEF c
  <2>2. /\ \A i \in 1..Len(st) : f[i] = st[i]
        /\ \A i \in 1..Len(b) : f[Len(st) + i] = b[i]
    BY EvolveFacts
  <2>3. /\ g \in Seq(Payload) /\ Len(g) = Len(st) + m
        /\ \A i \in 1..Len(st) : g[i] = st[i]
        /\ \A i \in 1..m : g[Len(st) + i] = c[i]
    BY <2>1, EvolveFacts, ZenonT(60)
  <2> HIDE DEF f, g
  <2>4. \A i \in 1..(Len(st) + m) : f[i] = g[i]
    <3>1. SUFFICES ASSUME NEW i \in 1..(Len(st) + m) PROVE f[i] = g[i]
      OBVIOUS
    <3>2. CASE i <= Len(st)
      BY <2>0, <2>2, <2>3, <3>2, SMTT(30), SMTT(60)
    <3>3. CASE i > Len(st)
      <4>1. PICK j \in 1..m : i = Len(st) + j
        <5>1. i - Len(st) \in 1..m /\ i = Len(st) + (i - Len(st))
          BY <2>0, <3>3, SMTT(30), SMTT(60)
        <5> QED
          BY <5>1
      <4>2. j \in 1..Len(b)
        BY <2>0, SMTT(30), SMTT(60)
      <4> QED
        BY <2>1, <2>2, <2>3, <4>1, <4>2
    <3> QED
      BY <2>0, <3>2, <3>3, SMTT(30), SMTT(60)
  <2>5. Len(st) + m \in Nat /\ DOMAIN g = 1..(Len(st) + m)
    BY <2>3, SMTT(30), SMTT(60)
  <2>6. Holds(g, k) <=> HeldIn(g, Len(st) + m, k)
    BY <2>5, <1>HeldInAll
  <2>7. HeldIn(f, Len(st) + m, k) <=> HeldIn(g, Len(st) + m, k)
    BY <2>4, <2>5, <1>HeldAgrees
  <2> QED
    BY <2>6, <2>7 DEF c, f, g
\* The owner of a key in the abstract log: events without an operation on it
\* leave it alone, an operation settles it.
<1>OwnerSkips.
      ASSUME NEW s, NEW b, NEW m \in Nat, NEW n \in Nat, m <= n, NEW k,
             \A i \in (m + 1)..n : ~(IsConstraintOp(b[i]) /\ b[i].key = k)
      PROVE  Log!OwnerAfter(s, b, n, k) = Log!OwnerAfter(s, b, m, k)
  <2> USE <1>OwnerSkips
  <2>1. Log!OpsOn(b, n, k) = Log!OpsOn(b, m, k)
    BY SMTT(30), SMTT(60) DEF Log!OpsOn, Log!IsConstraintOp, IsConstraintOp
  <2> QED
    BY <2>1 DEF Log!OwnerAfter
\* The last operation on a key settles its owner.
<1>OwnerSettled.
      ASSUME NEW s, NEW b, NEW n \in Nat \ {0}, NEW k, IsConstraintOp(b[n]), b[n].key = k
      PROVE  Log!OwnerAfter(s, b, n, k) = IF b[n].kind = "claim" THEN s ELSE None
  <2> USE <1>OwnerSettled
  <2> DEFINE ops == Log!OpsOn(b, n, k)
  <2>1. n \in ops /\ ops \subseteq 1..n
    BY SMTT(30), SMTT(60) DEF Log!OpsOn, Log!IsConstraintOp, IsConstraintOp
  <2> DEFINE last == CHOOSE i \in ops : \A j \in ops : j <= i
  <2>2. last = n
    <3>1. \A j \in ops : j <= n
      BY <2>1, SMTT(30), SMTT(60)
    <3>2. last \in ops /\ \A j \in ops : j <= last
      <4> HIDE DEF ops
      <4> QED
        BY <2>1, <3>1, ZenonT(60)
    <3> HIDE DEF ops, last
    <3> QED
      BY <2>1, <3>2, SMTT(30), SMTT(60)
  <2> QED
    BY <2>1, <2>2 DEF Log!OwnerAfter
\* What a step that touches neither tables nor the fields OpsDone reads leaves alone.
<1>OpsDoneKept.
      ASSUME NEW w, NEW m, OpsDone(w, m), events' = events, claims' = claims,
             h'[w].ops = h[w].ops, h'[w].claims = h[w].claims, h'[w].events = h[w].events,
             h'[w].stream = h[w].stream, h'[w].version = h[w].version, h'[w].state = h[w].state
      PROVE  OpsDone(w, m)'
  <2> USE <1>OpsDoneKept
  <2>1. \A k : ClaimOf(w, k)' = ClaimOf(w, k)
    BY DEF ClaimOf
  <2>2. \A s, b, n, k : Log!OwnerAfter(s, b, n, k)' = Log!OwnerAfter(s, b, n, k)
    BY ZenonT(60) DEF Log!OwnerAfter
  <2>3. Versions(h[w].stream)' = Versions(h[w].stream)
    BY DEF Versions
  <2> QED
    BY <2>1, <2>2, <2>3, SMTT(30), SMTT(60) DEF OpsDone
\* A step that commits nothing keeps the claims if it keeps every writer's part.
<1>ClaimsStay.
      ASSUME ClaimsInv, events' = events, claims' = claims,
             \A x \in Writers : ClaimCall(x)' \/ h'[x] = h[x]
      PROVE  ClaimsInv'
  <2> USE <1>ClaimsStay
  <2>1. ClaimsMatchHistory'
    BY DEF ClaimsInv, ClaimsMatchHistory, Contents, Versions
  <2>2. ASSUME NEW x \in Writers, h'[x] = h[x] PROVE ClaimCall(x)'
    <3>1. ASSUME NEW m, OpsDone(x, m) PROVE OpsDone(x, m)'
      BY <2>2, <3>1, <1>OpsDoneKept
    <3> QED
      BY <2>2, <3>1 DEF ClaimsInv, ClaimCall
  <2> QED
    BY <2>1, <2>2 DEF ClaimsInv
\* A place up to the i-th is the i-th or before it.
<1>LastOrBefore.
      ASSUME NEW v \in Nat, NEW m \in Nat, NEW i \in Nat, NEW q \in (v + m + 1)..(v + i)
      PROVE  q = v + i \/ q \in (v + m + 1)..(v + (i - 1))
  BY SMTT(30), SMTT(60)
\* A place up to n lies before i if n does.
<1>StillBefore.
      ASSUME NEW m \in Nat, NEW i \in Nat, NEW n \in m..(i - 1), NEW j \in (m + 1)..n
      PROVE  j \in (m + 1)..(i - 1)
  BY SMTT(30), SMTT(60)
\* The first operation of the batch not yet carried out, and what lies before it.
<1>NextOpIs.
      ASSUME OrderingFacts, StoreInv, NEW w \in Writers, h[w].pc = "constrain", h[w].ops # {},
             NEW m \in 0..Len(h[w].events), OpsDone(w, m)
      PROVE  \E i \in (m + 1)..Len(h[w].events) :
                 /\ NextOp(w) = h[w].events[i]
                 /\ IsConstraintOp(h[w].events[i])
                 /\ h[w].events[i] \in Payload
                 /\ \A j \in (m + 1)..(i - 1) : ~IsConstraintOp(h[w].events[j])
                 /\ h[w].ops \ {Smallest(h[w].ops)}
                        = {j \in DOMAIN h[w].events : j > i /\ IsConstraintOp(h[w].events[j])}
  <2> USE <1>NextOpIs
  <2>1. h[w].ops \in SUBSET Nat /\ h[w].events \in Seq(Payload)
    BY CallType DEF StoreInv
  <2>2. PICK b, ops, i : b = h[w].events /\ ops = h[w].ops /\ i = Smallest(ops)
    BY ZenonT(60)
  <2>3. ops = {j \in 1..Len(b) : j > m /\ IsConstraintOp(b[j])}
    <3>1. DOMAIN b = 1..Len(b)
      BY <2>1, <2>2, SMTT(30), SMTT(60)
    <3> QED
      BY <2>2, <3>1 DEF OpsDone
  <2>4. i \in ops /\ \A y \in ops : i <= y
    BY <2>1, <2>2, SmallestFact
  <2>5. /\ Len(b) \in Nat /\ DOMAIN b = 1..Len(b) /\ m \in Nat
        /\ \A j \in 1..Len(b) : b[j] \in Payload
    BY <2>1, <2>2, SMTT(30), SMTT(60)
  <2>6. i \in (m + 1)..Len(b) /\ IsConstraintOp(b[i])
    BY <2>3, <2>4, <2>5, SMTT(30), SMTT(60)
  <2>7. \A j \in (m + 1)..(i - 1) : ~IsConstraintOp(b[j])
    BY <2>3, <2>4, <2>5, <2>6, SMTT(30), SMTT(60)
  <2>8. ops \ {i} = {j \in 1..Len(b) : j > i /\ IsConstraintOp(b[j])}
    BY <2>3, <2>4, <2>5, <2>6, SMTT(30), SMTT(60)
  <2>9. NextOp(w) = b[i] /\ b[i] \in Payload
    BY <2>2, <2>5, <2>6, SMTT(30), SMTT(60) DEF NextOp
  <2> QED
    BY <2>2, <2>5, <2>6, <2>7, <2>8, <2>9, ZenonT(60)
\* Carrying out one operation: a claim of a key that is free, or a release,
\* which Decide orders only for a key the stream holds.
<1>OpStep.
      ASSUME OrderingFacts, StoreInv, ClaimsInv, NEW w \in Writers, NEW owner,
             h[w].pc = "constrain", h[w].ops # {},
             \/ NextOp(w).kind = "claim" /\ KeyFree(w, NextOp(w).key) /\ owner = h[w].stream
             \/ NextOp(w).kind = "release" /\ owner = None,
             WriteClaim(w, NextOp(w).key, owner), events' = events, claims' = claims
      PROVE  ClaimsInv'
  <2> USE <1>OpStep
  <2>1. PICK c \in HandleRecord : c = h[w]
    BY CallType DEF StoreInv
  <2>2. PICK s \in Streams, v \in Nat, st \in Seq(Payload), b \in Seq(Payload) :
            /\ s = c.stream /\ v = c.version /\ st = c.state /\ b = c.events
            /\ Len(st) = v /\ b \in Decide(st)
    BY <2>1, CallType, ZenonT(60) DEF StoreInv, CallOK, IsHistory
  <2>3. PICK m \in 0..Len(b) : OpsDone(w, m)
    BY <2>1, <2>2 DEF ClaimsInv, ClaimCall
  <2>4. PICK i \in (m + 1)..Len(b) :
            /\ NextOp(w) = b[i]
            /\ IsConstraintOp(b[i])
            /\ b[i] \in Payload
            /\ \A j \in (m + 1)..(i - 1) : ~IsConstraintOp(b[j])
            /\ c.ops \ {Smallest(c.ops)} = {j \in DOMAIN b : j > i /\ IsConstraintOp(b[j])}
    <3>1. h[w].events = b /\ h[w].ops = c.ops
      BY <2>1, <2>2
    <3>2. m \in 0..Len(h[w].events)
      BY <3>1
    <3>3. \E i \in (m + 1)..Len(h[w].events) :
               /\ NextOp(w) = h[w].events[i]
               /\ IsConstraintOp(h[w].events[i])
               /\ h[w].events[i] \in Payload
               /\ \A j \in (m + 1)..(i - 1) : ~IsConstraintOp(h[w].events[j])
               /\ h[w].ops \ {Smallest(h[w].ops)}
                      = {j \in DOMAIN h[w].events : j > i /\ IsConstraintOp(h[w].events[j])}
      BY <2>3, <3>2, <1>NextOpIs
    <3> QED
      BY <3>1, <3>3
  <2>5. PICK k \in Keys : k = b[i].key /\ b[i] = [kind |-> b[i].kind, key |-> k]
                          /\ b[i].kind \in {"claim", "release"}
    BY <2>4, <1>OpPayload
  <2>6. Len(b) \in Nat /\ m \in Nat /\ i \in Nat \ {0} /\ m + 1 <= i /\ i <= Len(b) /\ i - 1 \in Nat
    BY <2>2, SMTT(30), SMTT(60)
  <2>7. PICK over : over = [x \in DOMAIN c.claims \cup {k} |-> IF x = k THEN owner ELSE c.claims[x]]
    OBVIOUS
  <2>8. PICK rec : rec = [c EXCEPT !.ops = @ \ {Smallest(@)}, !.claims = over]
    OBVIOUS
  <2>9. h' = [h EXCEPT ![w] = rec]
    BY <2>1, <2>4, <2>5, <2>7, <2>8, ZenonT(60) DEF WriteClaim
  <2>10. /\ rec.stream = s /\ rec.version = v /\ rec.state = st /\ rec.events = b
         /\ rec.pc = "constrain" /\ rec.claims = over
         /\ rec.ops = {j \in DOMAIN b : j > i /\ IsConstraintOp(b[j])}
    <3>1. rec.ops = c.ops \ {Smallest(c.ops)}
      BY <2>8 DEF HandleRecord
    <3>2. /\ rec.stream = s /\ rec.version = v /\ rec.state = st /\ rec.events = b
          /\ rec.pc = "constrain" /\ rec.claims = over
      BY <2>1, <2>2, <2>8, ZenonT(60) DEF HandleRecord
    <3> QED
      BY <2>4, <3>1, <3>2
  <2>11. h'[w] = rec /\ \A x \in Writers : x # w => h'[x] = h[x]
    BY <2>9 DEF StoreInv, TypeOK
  <2>12. ASSUME NEW x \in Keys
         PROVE  ClaimOf(w, x)' = IF x = k THEN owner ELSE ClaimOf(w, x)
    <3>1. ClaimOf(w, x)' = IF x \in DOMAIN over THEN over[x] ELSE claims[x]
      BY <2>10, <2>11 DEF ClaimOf
    <3> QED
      BY <2>1, <2>7, <3>1 DEF ClaimOf
  <2>13. ASSUME NEW x \in Keys
         PROVE  ClaimOf(w, x) = Log!OwnerAfter(s, b, m, x)
    BY <2>1, <2>2, <2>3 DEF OpsDone
  <2>14. ASSUME NEW x, NEW n \in m..(i - 1)
         PROVE  Log!OwnerAfter(s, b, n, x) = Log!OwnerAfter(s, b, m, x)
    <3>1. \A j \in (m + 1)..n : ~IsConstraintOp(b[j])
      BY <2>4, <2>6, <1>StillBefore
    <3>2. n \in Nat /\ m <= n
      BY <2>6, SMTT(30), SMTT(60)
    <3>3. \A j \in (m + 1)..n : ~(IsConstraintOp(b[j]) /\ b[j].key = x)
      BY <3>1
    <3> QED
      BY <2>6, <3>2, <3>3, <1>OwnerSkips, SMTT(30), SMTT(60)
  <2>15. ASSUME NEW x \in Keys
         PROVE  ClaimOf(w, x)' = Log!OwnerAfter(s, b, i, x)
    <3>1. CASE x = k
      <4>1. owner = IF b[i].kind = "claim" THEN s ELSE None
        BY <2>1, <2>2, <2>4
      <4>2. Log!OwnerAfter(s, b, i, k) = IF b[i].kind = "claim" THEN s ELSE None
        BY <2>4, <2>5, <2>6, <1>OwnerSettled
      <4> QED
        BY <2>12, <3>1, <4>1, <4>2
    <3>2. CASE x # k
      <4>1. \A j \in (m + 1)..i : ~(IsConstraintOp(b[j]) /\ b[j].key = x)
        <5>1. \A j \in (m + 1)..i : j = i \/ j \in (m + 1)..(i - 1)
          BY <2>6, SMTT(30), SMTT(60)
        <5> QED
          BY <2>4, <2>5, <3>2, <5>1
      <4>2. Log!OwnerAfter(s, b, i, x) = Log!OwnerAfter(s, b, m, x)
        BY <2>6, <4>1, <1>OwnerSkips, SMTT(30), SMTT(60)
      <4> QED
        BY <2>12, <2>13, <3>2, <4>2
    <3> QED
      BY <3>1, <3>2
  <2>16. ASSUME NEW j \in 1..i, b[j].kind = "claim"
         PROVE  Log!OwnerAfter(s, b, j - 1, b[j].key) = None
    <3>1. CASE j \in 1..m
      BY <2>1, <2>2, <2>3, <2>16, <3>1 DEF OpsDone
    <3>2. CASE j \in (m + 1)..(i - 1)
      BY <2>4, <2>16, <3>2 DEF IsConstraintOp
    <3>3. CASE j = i
      <4>1. owner = s /\ ClaimOf(w, k) = None
        BY <2>1, <2>2, <2>4, <2>5, <2>16, <3>3, ZenonT(60) DEF KeyFree
      <4>2. i - 1 \in m..(i - 1)
        BY <2>6, SMTT(30), SMTT(60)
      <4>3. Log!OwnerAfter(s, b, i - 1, k) = Log!OwnerAfter(s, b, m, k)
        BY <2>14, <4>2
      <4> QED
        BY <2>5, <2>13, <3>3, <4>1, <4>3
    <3> QED
      BY <2>6, <3>1, <3>2, <3>3, SMTT(30), SMTT(60)

  <2>17. ASSUME Versions(s) = 1..v, NEW x \in Keys
         PROVE  /\ ClaimOf(w, x)' = s <=> HeldIn(Evolve(st, b), v + i, x)
                /\ \A t \in Streams \ {s} : ClaimOf(w, x)' = t <=> claims[x] = t
    <3> DEFINE f == Evolve(st, b)
    <3>1. /\ ClaimOf(w, x) = s <=> HeldIn(f, v + m, x)
          /\ \A t \in Streams \ {s} : ClaimOf(w, x) = t <=> claims[x] = t
      BY <2>1, <2>2, <2>3, <2>17 DEF OpsDone
    <3>2. ASSUME NEW j \in 1..Len(b) PROVE f[v + j] = b[j]
      <4>1. f[Len(st) + j] = b[j]
        BY EvolveFacts
      <4> QED
        BY <2>2, <4>1
    <3> HIDE DEF f
    <3>3. v + m \in Nat /\ v + i \in Nat \ {0} /\ v + (i - 1) \in Nat /\ v + m <= v + (i - 1)
          /\ v + m <= v + i
      BY <2>6, SMTT(30), SMTT(60)
    <3>4. ASSUME NEW q \in (v + m + 1)..(v + i)
          PROVE  \E j \in (m + 1)..i : j \in 1..Len(b) /\ q = v + j
      <4>1. q - v \in (m + 1)..i /\ q - v \in 1..Len(b) /\ q = v + (q - v)
        BY <2>6, SMTT(30), SMTT(60)
      <4> QED
        BY <4>1
    <3>5. ASSUME NEW q \in (v + m + 1)..(v + (i - 1)), NEW y
          PROVE  f[q] # [kind |-> "claim", key |-> y] /\ f[q] # [kind |-> "release", key |-> y]
      <4>1. PICK j \in (m + 1)..(i - 1) : j \in 1..Len(b) /\ q = v + j
        <5>1. q - v \in (m + 1)..(i - 1) /\ q - v \in 1..Len(b) /\ q = v + (q - v)
          BY <2>6, SMTT(30), SMTT(60)
        <5> QED
          BY <5>1
      <4>2. f[q] = b[j] /\ ~IsConstraintOp(b[j])
        BY <2>4, <3>2, <4>1
      <4> QED
        BY <4>2, SMTT(30), SMTT(60) DEF IsConstraintOp
    <3>6. f[v + i] = [kind |-> b[i].kind, key |-> k]
      BY <2>5, <2>6, <3>2, SMTT(30), SMTT(60)
    <3>7. CASE x # k
      <4>1. HeldIn(f, v + i, x) <=> HeldIn(f, v + m, x)
        <5>1. ASSUME NEW q \in (v + m + 1)..(v + i)
              PROVE  f[q] # [kind |-> "claim", key |-> x] /\ f[q] # [kind |-> "release", key |-> x]
          <6>1. q = v + i \/ q \in (v + m + 1)..(v + (i - 1))
            BY <2>6, <1>LastOrBefore
          <6>2. CASE q = v + i
            BY <3>6, <3>7, <6>2, SMTT(30), SMTT(60)
          <6> QED
            BY <3>5, <6>1, <6>2
        <5> QED
          BY <3>3, <5>1, <1>HeldSkips
      <4> QED
        BY <2>12, <3>1, <3>7, <4>1 DEF f
    <3>8. CASE x = k
      <4>1. ClaimOf(w, x)' = owner
        BY <2>12, <3>8
      <4>2. None # s /\ s \notin Streams \ {s} /\ None \notin Streams
        BY DeciderAssumption
      <4>3. CASE b[i].kind = "claim"
        <5>1. owner = s /\ ClaimOf(w, x) = None
          BY <2>1, <2>2, <2>4, <2>5, <3>8, <4>3, ZenonT(60) DEF KeyFree
        <5>2. HeldIn(f, v + i, x)
          BY <3>3, <3>6, <3>8, <4>3, <1>HeldLast, ZenonT(60)
        <5>3. \A t \in Streams \ {s} : claims[x] # t
          BY <3>1, <4>2, <5>1
        <5> QED
          BY <4>1, <4>2, <5>1, <5>2, <5>3, ZenonT(60) DEF f
      <4>4. CASE b[i].kind = "release"
        <5>1. owner = None
          BY <2>1, <2>4, <4>4
        <5>2. ~HeldIn(f, v + i, x)
          BY <3>3, <3>6, <3>8, <4>4, <1>HeldLast, ZenonT(60)
        <5>3. Holds(Evolve(st, SubSeq(b, 1, i - 1)), k)
          BY <2>2, <2>5, <2>6, <4>4, SMTT(30), SMTT(60) DEF Decide
        <5>4. HeldIn(f, v + (i - 1), k)
          <6>1. i - 1 <= Len(b)
            BY <2>6, SMTT(30), SMTT(60)
          <6>2. HeldIn(f, Len(st) + (i - 1), k)
            BY <2>6, <5>3, <6>1, <1>HeldBefore DEF f
          <6> QED
            BY <2>2, <6>2
        <5>5. HeldIn(f, v + m, k)
          <6>0. \A q \in (v + m + 1)..(v + (i - 1)) :
                    f[q] # [kind |-> "claim", key |-> k] /\ f[q] # [kind |-> "release", key |-> k]
            BY <3>5
          <6>1. HeldIn(f, v + (i - 1), k) <=> HeldIn(f, v + m, k)
            BY <3>3, <6>0, <1>HeldSkips, ZenonT(60)
          <6> QED
            BY <5>4, <6>1
        <5>6. ClaimOf(w, x) = s
          BY <3>1, <3>8, <5>5
        <5>7. \A t \in Streams \ {s} : claims[x] # t
          BY <3>1, <5>6
        <5> QED
          BY <4>1, <4>2, <5>1, <5>2, <5>7, ZenonT(60) DEF f
      <4> QED
        BY <2>5, <4>3, <4>4
    <3> QED
      BY <3>7, <3>8
  <2>18. \A x, n, y, d : Log!OwnerAfter(x, d, n, y)' = Log!OwnerAfter(x, d, n, y)
    BY ZenonT(60) DEF Log!OwnerAfter
  <2>19. OpsDone(w, i)'
    <3>1. Versions(s)' = Versions(s)
      BY DEF Versions
    <3>2. (\A x \in Keys : ClaimOf(w, x) = Log!OwnerAfter(h[w].stream, h[w].events, i, x))'
      BY <2>10, <2>11, <2>15, <2>18
    <3>3. (\A j \in 1..i : h[w].events[j].kind = "claim" =>
               Log!OwnerAfter(h[w].stream, h[w].events, j - 1, h[w].events[j].key) = None)'
      BY <2>10, <2>11, <2>16, <2>18, ZenonT(60)
    <3>4. (Versions(h[w].stream) = 1..h[w].version => \A x \in Keys :
               /\ ClaimOf(w, x) = h[w].stream
                      <=> HeldIn(Evolve(h[w].state, h[w].events), h[w].version + i, x)
               /\ \A t \in Streams \ {h[w].stream} : ClaimOf(w, x) = t <=> claims[x] = t)'
      BY <2>10, <2>11, <2>17, <3>1, ZenonT(60)
    <3> QED
      BY <2>10, <2>11, <3>2, <3>3, <3>4 DEF OpsDone
  <2>20. ClaimCall(w)'
    BY <2>6, <2>10, <2>11, <2>19, SMTT(30), SMTT(60) DEF ClaimCall
  <2> QED
    BY <2>11, <2>20, <1>ClaimsStay
\* What a stream holds, told from a state that is its whole history.
<1>HistoryHolds.
      ASSUME NEW s, NEW v \in Nat, NEW st, IsHistory(s, v, st), Versions(s) = 1..v, NEW k
      PROVE  Holds(Contents(s), k) <=> HeldIn(st, v, k)
  <2> USE <1>HistoryHolds
  <2>1. DOMAIN Contents(s) = 1..v /\ \A i \in 1..v : Contents(s)[i] = st[i]
    BY DEF Contents, IsHistory
  <2>2. Holds(Contents(s), k) <=> HeldIn(Contents(s), v, k)
    BY <2>1, <1>HeldInAll
  <2> QED
    BY <2>1, <2>2, <1>HeldAgrees
\* The transaction starts with the claims as they are committed.
<1>AdvisoryLockClaims.
      ASSUME StoreInv, ClaimsInv, NEW w \in Writers, AdvisoryLock(w)
      PROVE  ClaimsInv'
  <2> USE <1>AdvisoryLockClaims
  <2>1. PICK c \in HandleRecord : c = h[w]
    BY CallType DEF StoreInv
  <2>2. PICK s \in Streams, v \in Nat, st \in Seq(Payload), b \in Seq(Payload) :
            /\ s = c.stream /\ v = c.version /\ st = c.state /\ b = c.events
            /\ IsHistory(s, v, st)
    BY <2>1, CallType DEF StoreInv, CallOK, AdvisoryLock
  <2>3. /\ c.claims = <<>> /\ c.ops = {i \in DOMAIN b : IsConstraintOp(b[i])}
        /\ events' = events /\ claims' = claims
    BY <2>1, <2>2 DEF AdvisoryLock, ClaimsInv, ClaimCall
  <2>4. PICK rec : rec = [c EXCEPT !.pc = "constrain"]
    OBVIOUS
  <2>5. /\ rec.stream = s /\ rec.version = v /\ rec.state = st /\ rec.events = b
        /\ rec.pc = "constrain" /\ rec.claims = <<>> /\ rec.ops = c.ops
    BY <2>2, <2>3, <2>4, ZenonT(60) DEF HandleRecord
  <2>6. h' = [h EXCEPT ![w] = rec]
    BY <2>1, <2>4 DEF AdvisoryLock
  <2>7. h'[w] = rec /\ \A x \in Writers : x # w => h'[x] = h[x]
    BY <2>6 DEF StoreInv, TypeOK
  <2>8. ASSUME NEW k PROVE ClaimOf(w, k)' = claims[k] /\ Log!OwnerAfter(s, b, 0, k)' = claims[k]
    <3>1. ClaimOf(w, k)' = claims[k]
      BY <2>3, <2>5, <2>7, SMTT(30), SMTT(60) DEF ClaimOf
    <3>2. Log!OpsOn(b, 0, k) = {}
      BY SMTT(30), SMTT(60) DEF Log!OpsOn
    <3> QED
      BY <2>3, <3>1, <3>2 DEF Log!OwnerAfter
  <2>9. ASSUME Versions(s) = 1..v, NEW k \in Keys
        PROVE  claims[k] = s <=> HeldIn(Evolve(st, b), v + 0, k)
    <3>1. claims[k] = s <=> HeldIn(st, v, k)
      BY <2>2, <2>9, <1>HistoryHolds DEF ClaimsInv, ClaimsMatchHistory
    <3>2. \A i \in 1..v : Evolve(st, b)[i] = st[i]
      <4>1. Len(st) = v
        BY <2>2 DEF IsHistory
      <4> QED
        BY <4>1, EvolveFacts
    <3>3. HeldIn(Evolve(st, b), v, k) <=> HeldIn(st, v, k)
      BY <3>2, <1>HeldAgrees
    <3>4. v + 0 = v
      BY SMTT(30), SMTT(60)
    <3> QED
      BY <3>1, <3>3, <3>4
  <2>10. OpsDone(w, 0)'
    <3>1. Versions(s)' = Versions(s)
      BY <2>3 DEF Versions
    <3>2. rec.ops = {i \in DOMAIN b : i > 0 /\ IsConstraintOp(b[i])}
      BY <2>3, <2>5, SMTT(30), SMTT(60)
    <3>3. (\A k \in Keys : ClaimOf(w, k) = Log!OwnerAfter(h[w].stream, h[w].events, 0, k))'
      BY <2>5, <2>7, <2>8
    <3>4. (Versions(h[w].stream) = 1..h[w].version => \A x \in Keys :
               /\ ClaimOf(w, x) = h[w].stream
                      <=> HeldIn(Evolve(h[w].state, h[w].events), h[w].version + 0, x)
               /\ \A t \in Streams \ {h[w].stream} : ClaimOf(w, x) = t <=> claims[x] = t)'
      BY <2>3, <2>5, <2>7, <2>8, <2>9, <3>1, SMTT(30), SMTT(60)
    <3> QED
      BY <2>5, <2>7, <3>2, <3>3, <3>4, SMTT(30), SMTT(60) DEF OpsDone
  <2>11. 0 \in 0..Len(b)
    BY SMTT(30), SMTT(60)
  <2>12. ClaimCall(w)'
    BY <2>5, <2>7, <2>10, <2>11 DEF ClaimCall
  <2> QED
    BY <2>3, <2>7, <2>12, <1>ClaimsStay
\* With no operation left, the whole batch is accounted for.
<1>OpsAllDone.
      ASSUME StoreInv, NEW w \in Writers, h[w].pc = "constrain", h[w].ops = {},
             NEW m \in 0..Len(h[w].events), OpsDone(w, m)
      PROVE  OpsDone(w, Len(h[w].events))
  <2> USE <1>OpsAllDone
  <2>1. PICK c \in HandleRecord : c = h[w]
    BY CallType DEF StoreInv
  <2>2. PICK s \in Streams, v \in Nat, st \in Seq(Payload), b \in Seq(Payload) :
            /\ s = c.stream /\ v = c.version /\ st = c.state /\ b = c.events
            /\ Len(st) = v
    <3>1. CallOK(w) /\ c.pc = "constrain"
      BY <2>1 DEF StoreInv
    <3>2. c.stream \in Streams /\ Len(c.state) = c.version
      BY <2>1, <3>1 DEF CallOK, IsHistory
    <3>3. c.version \in Nat /\ c.state \in Seq(Payload) /\ c.events \in Seq(Payload)
      BY <2>1, CallType DEF StoreInv
    <3> QED
      BY <3>2, <3>3
  <2>3. PICK n \in Nat : n = Len(b) /\ DOMAIN b = 1..n /\ m \in 0..n
    BY <2>1, <2>2, SMTT(30), SMTT(60)
  <2>4. \A j \in (m + 1)..n : ~IsConstraintOp(b[j])
    <3>1. {j \in DOMAIN b : j > m /\ IsConstraintOp(b[j])} = {}
      BY <2>1, <2>2 DEF OpsDone
    <3> QED
      BY <2>3, <3>1, SMTT(30), SMTT(60)
  <2>5. ASSUME NEW j \in m..n, NEW k
        PROVE  Log!OwnerAfter(s, b, j, k) = Log!OwnerAfter(s, b, m, k)
    <3>1. m \in Nat /\ j \in Nat /\ m <= j /\ \A i \in (m + 1)..j : ~IsConstraintOp(b[i])
      BY <2>3, <2>4, SMTT(30), SMTT(60)
    <3> QED
      BY <3>1, <1>OwnerSkips, SMTT(30), SMTT(60)
  <2>6. ASSUME NEW k
        PROVE  HeldIn(Evolve(st, b), v + n, k) <=> HeldIn(Evolve(st, b), v + m, k)
    <3>1. ASSUME NEW q \in (v + m + 1)..(v + n)
          PROVE  /\ Evolve(st, b)[q] # [kind |-> "claim", key |-> k]
                 /\ Evolve(st, b)[q] # [kind |-> "release", key |-> k]
      <4>1. PICK j \in (m + 1)..n : j \in 1..n /\ q = v + j
        <5>1. q - v \in (m + 1)..n /\ q - v \in 1..n /\ q = v + (q - v)
          BY <2>3, SMTT(30), SMTT(60)
        <5> QED
          BY <5>1
      <4>2. Evolve(st, b)[Len(st) + j] = b[j] /\ j \in 1..Len(b)
        BY <2>3, <4>1, EvolveFacts, ZenonT(60)
      <4>3. Evolve(st, b)[q] = b[j] /\ ~IsConstraintOp(b[j])
        BY <2>2, <2>4, <4>1, <4>2
      <4> QED
        BY <4>3, SMTT(30), SMTT(60) DEF IsConstraintOp
    <3>2. v + m \in Nat /\ v + n \in Nat /\ v + m <= v + n
      BY <2>3, SMTT(30), SMTT(60)
    <3> QED
      BY <3>1, <3>2, <1>HeldSkips
  <2>7. /\ \A k \in Keys : ClaimOf(w, k) = Log!OwnerAfter(s, b, m, k)
        /\ \A i \in 1..m : b[i].kind = "claim" => Log!OwnerAfter(s, b, i - 1, b[i].key) = None
        /\ Versions(s) = 1..v => \A k \in Keys :
               /\ ClaimOf(w, k) = s <=> HeldIn(Evolve(st, b), v + m, k)
               /\ \A t \in Streams \ {s} : ClaimOf(w, k) = t <=> claims[k] = t
    BY <2>1, <2>2 DEF OpsDone
  <2>8. \A i \in 1..n : b[i].kind = "claim" => Log!OwnerAfter(s, b, i - 1, b[i].key) = None
    <3>1. \A i \in 1..n : i \in 1..m \/ i \in (m + 1)..n
      BY <2>3, SMTT(30), SMTT(60)
    <3> QED
      BY <2>4, <2>7, <3>1 DEF IsConstraintOp
  <2>9. n \in m..n
    BY <2>3, SMTT(30), SMTT(60)
  <2>10. c.ops = {j \in DOMAIN b : j > n /\ IsConstraintOp(b[j])}
    BY <2>1, <2>3, SMTT(30), SMTT(60)
  <2>11. /\ \A k \in Keys : ClaimOf(w, k) = Log!OwnerAfter(s, b, n, k)
         /\ Versions(s) = 1..v => \A k \in Keys :
               /\ ClaimOf(w, k) = s <=> HeldIn(Evolve(st, b), v + n, k)
               /\ \A t \in Streams \ {s} : ClaimOf(w, k) = t <=> claims[k] = t
    BY <2>5, <2>6, <2>7, <2>9
  <2> QED
    BY <2>1, <2>2, <2>3, <2>8, <2>10, <2>11 DEF OpsDone
\* LastStreamHash closes the constraint phase, InsertEvent leaves it behind.
<1>LastStreamHashClaims.
      ASSUME StoreInv, ClaimsInv, NEW w \in Writers, LastStreamHash(w)
      PROVE  ClaimsInv'
  <2> USE <1>LastStreamHashClaims
  <2>1. PICK c \in HandleRecord : c = h[w]
    BY CallType DEF StoreInv
  <2>2. /\ c.pc = "constrain" /\ c.ops = {} /\ events' = events /\ claims' = claims
        /\ h' = [h EXCEPT ![w] = [c EXCEPT !.pc = "insert", !.prev = PredecessorHash(c.stream)]]
    BY <2>1 DEF LastStreamHash
  <2>3. PICK rec : rec = [c EXCEPT !.pc = "insert", !.prev = PredecessorHash(c.stream)]
    OBVIOUS
  <2>4. /\ rec.stream = c.stream /\ rec.version = c.version /\ rec.state = c.state
        /\ rec.events = c.events /\ rec.pc = "insert" /\ rec.claims = c.claims /\ rec.ops = c.ops
    BY <2>3, ZenonT(60) DEF HandleRecord
  <2>5. h'[w] = rec /\ \A x \in Writers : x # w => h'[x] = h[x]
    BY <2>2, <2>3 DEF StoreInv, TypeOK
  <2>6. OpsDone(w, Len(h[w].events))
    <3>1. PICK m \in 0..Len(h[w].events) : OpsDone(w, m)
      BY <2>1, <2>2 DEF ClaimsInv, ClaimCall
    <3> QED
      BY <2>1, <2>2, <3>1, <1>OpsAllDone
  <2>7. OpsDone(w, Len(c.events))'
    BY <2>1, <2>2, <2>4, <2>5, <2>6, <1>OpsDoneKept, SMTT(30), SMTT(60)
  <2>8. ClaimCall(w)'
    <3>1. h'[w].pc = "insert" /\ h'[w].events = c.events
      BY <2>4, <2>5
    <3> QED
      BY <2>7, <3>1 DEF ClaimCall
  <2> QED
    BY <2>2, <2>5, <2>8, <1>ClaimsStay
\* A call that ends forgets its overlay.
<1>RollbackClaims.
      ASSUME StoreInv, ClaimsInv, NEW w \in Writers, Rollback(w), events' = events, claims' = claims
      PROVE  ClaimsInv'
  <2> USE <1>RollbackClaims
  <2>1. h'[w] = Idle /\ \A x \in Writers : x # w => h'[x] = h[x]
    BY DEF Rollback, StoreInv, TypeOK
  <2>2. ClaimCall(w)'
    BY <2>1, SMTT(30), SMTT(60) DEF ClaimCall, Idle
  <2> QED
    BY <2>1, <2>2, <1>ClaimsStay
\* The insert that commits the call turns its staged claims into history.
<1>InsertEventClaims.
      ASSUME StoreInv, ClaimsInv, NEW w \in Writers, InsertEvent(w)
      PROVE  ClaimsInv'
  <2> USE <1>InsertEventClaims
  <2>1. PICK c \in HandleRecord : c = h[w]
    BY CallType DEF StoreInv
  <2>2. c.pc = "insert" /\ events' = events /\ claims' = claims
    BY <2>1 DEF InsertEvent
  <2>3. CASE Rollback(w)
    BY <2>2, <2>3, <1>RollbackClaims
  <2>4. CASE ~Rollback(w)
    <3>1. PICK prev, rows : h' = [h EXCEPT ![w].prev = prev, ![w].rows = rows]
      BY <2>4 DEF InsertEvent
    <3>2. h' = [h EXCEPT ![w] = [c EXCEPT !.prev = prev, !.rows = rows]]
      BY <2>1, <3>1
    <3>3. PICK rec : rec = [c EXCEPT !.prev = prev, !.rows = rows]
      OBVIOUS
    <3>4. /\ rec.stream = c.stream /\ rec.version = c.version /\ rec.state = c.state
          /\ rec.events = c.events /\ rec.pc = c.pc /\ rec.claims = c.claims /\ rec.ops = c.ops
      BY <3>3, ZenonT(60) DEF HandleRecord
    <3>5. h'[w] = rec /\ \A x \in Writers : x # w => h'[x] = h[x]
      BY <3>2, <3>3 DEF StoreInv, TypeOK
    <3>6. OpsDone(w, Len(c.events))
      BY <2>1, <2>2 DEF ClaimsInv, ClaimCall
    <3>7. OpsDone(w, Len(c.events))'
      BY <2>1, <2>2, <3>4, <3>5, <3>6, <1>OpsDoneKept
    <3>8. h'[w].pc = "insert" /\ h'[w].events = c.events
      BY <2>2, <3>4, <3>5
    <3>9. ClaimCall(w)'
      BY <3>7, <3>8 DEF ClaimCall
    <3> QED
      BY <2>2, <3>5, <3>9, <1>ClaimsStay
  <2> QED
    BY <2>3, <2>4
\* The steps before the transaction.
<1>LoadClaims.
      ASSUME StoreInv, ClaimsInv, NEW w \in Writers,
             (\E s \in Streams : GetState(w, s)) \/ ReadStream(w) \/ Decided(w)
      PROVE  ClaimsInv'
  <2> USE <1>LoadClaims
  <2>1. PICK c \in HandleRecord : c = h[w]
    BY CallType DEF StoreInv
  <2>2. events' = events /\ claims' = claims
    BY DEF GetState, ReadStream, Decided
  <2>3. ASSUME NEW rec, h' = [h EXCEPT ![w] = rec], rec.claims = <<>>,
               \/ rec.pc \in {"load", "decide"}
               \/ rec.pc = "begin" /\ rec.ops = {i \in DOMAIN rec.events : IsConstraintOp(rec.events[i])}
        PROVE  ClaimsInv'
    <3>1. h'[w] = rec /\ \A x \in Writers : x # w => h'[x] = h[x]
      BY <2>3 DEF StoreInv, TypeOK
    <3>2. ClaimCall(w)'
      BY <2>3, <3>1 DEF ClaimCall
    <3> QED
      BY <2>2, <3>1, <3>2, <1>ClaimsStay
  <2>4. ASSUME NEW s \in Streams, GetState(w, s) PROVE ClaimsInv'
    <3>1. PICK rec : /\ h' = [h EXCEPT ![w] = rec]
                     /\ \/ rec = [Idle EXCEPT !.pc = "load", !.stream = s,
                                    !.version = cache[s].version,
                                    !.state = Decoded(w, cache[s])]
                        \/ rec = [Idle EXCEPT !.pc = "load", !.stream = s]
      BY <2>4 DEF GetState
    <3>2. rec.pc = "load" /\ rec.claims = <<>>
      BY <3>1 DEF Idle
    <3> QED
      BY <2>3, <3>1, <3>2
  <2>5. CASE ReadStream(w)
    <3>1. PICK v, st : h' = [h EXCEPT ![w].pc = "decide", ![w].version = v, ![w].state = st]
      BY <2>5 DEF ReadStream
    <3>2. h' = [h EXCEPT ![w] = [c EXCEPT !.pc = "decide", !.version = v, !.state = st]]
      BY <2>1, <3>1
    <3>3. PICK rec : rec = [c EXCEPT !.pc = "decide", !.version = v, !.state = st]
      OBVIOUS
    <3>4. c.claims = <<>>
      <4>1. ClaimCall(w) /\ c.pc = "load"
        BY <2>1, <2>5 DEF ClaimsInv, ReadStream
      <4> QED
        BY <2>1, <4>1 DEF ClaimCall
    <3>5. rec.pc = "decide" /\ rec.claims = <<>>
      BY <3>3, <3>4 DEF HandleRecord
    <3> QED
      BY <2>3, <3>2, <3>3, <3>5
  <2>6. CASE Decided(w)
    <3>1. PICK b : h' = [h EXCEPT ![w].pc = "begin", ![w].events = b,
                            ![w].ops = {i \in DOMAIN b : IsConstraintOp(b[i])}]
      BY <2>6 DEF Decided
    <3>2. PICK o : o = {i \in DOMAIN b : IsConstraintOp(b[i])}
      OBVIOUS
    <3>3. h' = [h EXCEPT ![w] = [c EXCEPT !.pc = "begin", !.events = b, !.ops = o]]
      BY <2>1, <3>1, <3>2
    <3>4. PICK rec : rec = [c EXCEPT !.pc = "begin", !.events = b, !.ops = o]
      OBVIOUS
    <3>5. c.claims = <<>>
      <4>1. ClaimCall(w) /\ c.pc = "decide"
        BY <2>1, <2>6 DEF ClaimsInv, Decided
      <4> QED
        BY <2>1, <4>1 DEF ClaimCall
    <3>6. rec.pc = "begin" /\ rec.events = b /\ rec.ops = o /\ rec.claims = <<>>
      BY <3>4, <3>5 DEF HandleRecord
    <3> QED
      BY <2>3, <3>2, <3>3, <3>4, <3>6
  <2> QED
    BY <2>4, <2>5, <2>6
\* Commit publishes the overlay together with the events it stands for.
<1>CommitClaims.
      ASSUME StoreInv, ClaimsInv, NEW w \in Writers, Commit(w)
      PROVE  ClaimsInv'
  <2> USE <1>CommitClaims
  <2>1. PICK c \in HandleRecord : c = h[w]
    BY CallType DEF StoreInv
  <2>2. /\ c.stream \in Streams /\ c.version \in Nat /\ Len(c.rows) \in Nat
        /\ Len(c.rows) = Len(c.events)
        /\ Versions(c.stream) = 1..c.version
        /\ events' = [t \in Streams |-> IF t = c.stream THEN events'[c.stream] ELSE events[t]]
        /\ DOMAIN events'[c.stream] = 1..(c.version + Len(c.rows))
    BY <2>1, CommitAppends
  <2>3. PICK s \in Streams, n \in Nat, st \in Seq(Payload) :
            /\ s = c.stream /\ n = c.version + Len(c.events) /\ st = Evolve(c.state, c.events)
            /\ IsHistory(s, n, st)'
    <3>1. PICK n \in Nat, st \in Seq(Payload) :
              /\ NewCacheRow(w) = [version |-> n, state |-> st, terminal |-> IsTerminal(st),
                                   schema |-> Schema[w], enc |-> Schema[w]]
              /\ IsHistory(c.stream, n, st)'
      BY <2>1, CommitCaches
    <3>2. n = c.version + Len(c.events) /\ st = Evolve(c.state, c.events)
      BY <2>1, <3>1 DEF NewCacheRow
    <3> QED
      BY <2>2, <3>1, <3>2
  <2>4. /\ Versions(s)' = 1..n
        /\ \A t \in Streams : t # s => events'[t] = events[t]
    BY <2>2, <2>3 DEF Versions
  <2>5. ASSUME NEW k PROVE Holds(Contents(s), k)' <=> HeldIn(st, n, k)
    <3> DEFINE f == Contents(s)'
    <3>1. DOMAIN f = 1..n /\ \A i \in 1..n : f[i] = st[i]
      BY <2>3, <2>4 DEF Contents, IsHistory
    <3>2. Holds(f, k) <=> HeldIn(f, n, k)
      <4> HIDE DEF f
      <4> QED
        BY <3>1, <1>HeldInAll
    <3>3. HeldIn(f, n, k) <=> HeldIn(st, n, k)
      <4> HIDE DEF f
      <4> QED
        BY <3>1, <1>HeldAgrees
    <3>4. Holds(Contents(s), k)' <=> Holds(f, k)
      BY DEF Holds
    <3> QED
      BY <3>2, <3>3, <3>4
  <2>6. OpsDone(w, Len(c.events)) /\ claims' = [k \in Keys |-> ClaimOf(w, k)]
    BY <2>1 DEF Commit, ClaimsInv, ClaimCall
  <2>7. ASSUME NEW k \in Keys
        PROVE  /\ claims'[k] = s <=> HeldIn(st, n, k)
               /\ \A t \in Streams \ {s} : claims'[k] = t <=> claims[k] = t
    BY <2>1, <2>2, <2>3, <2>6, ZenonT(60) DEF OpsDone
  <2>8. ClaimsMatchHistory'
    <3>1. SUFFICES ASSUME NEW k \in Keys, NEW t \in Streams
                   PROVE  claims'[k] = t <=> Holds(Contents(t), k)'
      BY DEF ClaimsMatchHistory
    <3>2. CASE t = s
      BY <2>5, <2>7, <3>2
    <3>3. CASE t # s
      <4>1. Holds(Contents(t), k)' <=> Holds(Contents(t), k)
        <5>1. Contents(t)' = Contents(t)
          BY <2>4, <3>3 DEF Contents, Versions
        <5> QED
          BY <5>1 DEF Holds
      <4>2. claims[k] = t <=> Holds(Contents(t), k)
        BY DEF ClaimsInv, ClaimsMatchHistory
      <4> QED
        BY <2>7, <3>3, <4>1, <4>2
    <3> QED
      BY <3>2, <3>3
  <2>9. ASSUME NEW x \in Writers PROVE ClaimCall(x)'
    <3>1. h' = [h EXCEPT ![w] = Idle] /\ lock = w
      BY DEF Commit, StoreInv, CallOK
    <3>2. CASE x = w
      <4>1. h'[x] = Idle
        BY <3>1, <3>2 DEF StoreInv, TypeOK
      <4> QED
        BY <4>1, SMTT(30), SMTT(60) DEF ClaimCall, Idle
    <3>3. CASE x # w
      <4>1. h'[x] = h[x]
        BY <3>1, <3>3 DEF StoreInv, TypeOK
      <4>2. h[x].pc \notin {"constrain", "insert"}
        BY <3>1, <3>3 DEF StoreInv, CallOK
      <4> QED
        BY <4>1, <4>2 DEF ClaimsInv, ClaimCall
    <3> QED
      BY <3>2, <3>3
  <2> QED
    BY <2>8, <2>9 DEF ClaimsInv
\* The step itself.
<1> SUFFICES ASSUME OrderingFacts, StoreInv, ClaimsInv, [Next]_vars PROVE ClaimsInv'
  OBVIOUS
<1>1. ASSUME NEW w \in Writers, HandleStep(w) PROVE ClaimsInv'
  <2>1. CASE (\E s \in Streams : GetState(w, s)) \/ ReadStream(w) \/ Decided(w)
    BY <2>1, <1>LoadClaims
  <2>2. CASE AdvisoryLock(w)
    BY <2>2, <1>AdvisoryLockClaims
  <2>3. CASE ClaimUnique(w)
    <3>1. CASE Rollback(w)
      BY <2>3, <3>1, <1>RollbackClaims DEF ClaimUnique
    <3>2. CASE ~Rollback(w)
      BY <2>3, <3>2, <1>OpStep DEF ClaimUnique
    <3> QED
      BY <3>1, <3>2
  <2>4. CASE ReleaseUnique(w)
    BY <2>4, <1>OpStep, ZenonT(60) DEF ReleaseUnique
  <2>5. CASE LastStreamHash(w)
    BY <2>5, <1>LastStreamHashClaims
  <2>6. CASE InsertEvent(w)
    BY <2>6, <1>InsertEventClaims
  <2>7. CASE Commit(w)
    BY <2>7, <1>CommitClaims
  <2>8. CASE Fail(w)
    BY <2>8, <1>RollbackClaims DEF Fail
  <2> QED
    BY <1>1, <2>1, <2>2, <2>3, <2>4, <2>5, <2>6, <2>7, <2>8, ZenonT(60) DEF HandleStep, AppendStep
<1>2. ASSUME NEW f \in Followers, ReadAll(f) PROVE ClaimsInv'
  BY <1>2, <1>ClaimsStay DEF ReadAll
<1>3. CASE UNCHANGED vars
  BY <1>3, <1>ClaimsStay DEF vars
<1> QED
  BY <1>1, <1>2, <1>3 DEF Next

\* In the empty store no key is owned and none is held.
LEMMA InitClaims == Init => ClaimsInv
<1> SUFFICES ASSUME Init PROVE ClaimsInv
  OBVIOUS
<1>1. ClaimsMatchHistory
  <2>1. SUFFICES ASSUME NEW k \in Keys, NEW s \in Streams
                 PROVE  claims[k] = s <=> Holds(Contents(s), k)
    BY DEF ClaimsMatchHistory
  <2>2. claims[k] # s
    BY DeciderAssumption DEF Init
  <2>3. DOMAIN Contents(s) = {}
    BY SMTT(30), SMTT(60) DEF Init, Contents, Versions
  <2> QED
    BY <2>2, <2>3 DEF Holds
<1>2. ASSUME NEW w \in Writers PROVE ClaimCall(w)
  BY DEF Init, ClaimCall, Idle
<1> QED
  BY <1>1, <1>2 DEF ClaimsInv


-------------------------------------------------------------------------------
(* The store implements the log *)

\* The values of f at the elements of S are those along an enumeration of it.
LEMMA SelectedAlongFact ==
    ASSUME OrderingFacts, NEW n, NEW S, NEW m, NEW g, Enumerates(g, m, S, n), NEW f
    PROVE  Selected(S, n, f) = Along(f, g, m)
BY ZenonT(60) DEF OrderingFacts, ListingFacts, SelectedIsAlong

\* A follower has been handed exactly what is committed up to its cursor.
SeenInv == \A f \in Followers : seen[f] = {p \in Committed : p <= cursor[f]}

\* Of all steps only a commit and a page touch what the log maps to.
LEMMA QuietForLog ==
    ASSUME [Next]_vars
    PROVE  \/ UNCHANGED <<events, claims, cursor, seen>>
           \/ \E w \in Writers : Commit(w)
           \/ \E f \in Followers : ReadAll(f)
<1>1. ASSUME NEW w \in Writers, HandleStep(w), ~Commit(w)
      PROVE  UNCHANGED <<events, claims, cursor, seen>>
  <2>1. CASE \E s \in Streams : GetState(w, s)
    BY <2>1 DEF GetState
  <2>2. CASE ReadStream(w) \/ Decided(w)
    BY <2>2 DEF ReadStream, Decided
  <2>3. CASE AdvisoryLock(w) \/ ClaimUnique(w) \/ ReleaseUnique(w)
    BY <2>3 DEF AdvisoryLock, ClaimUnique, ReleaseUnique
  <2>4. CASE LastStreamHash(w) \/ InsertEvent(w) \/ Fail(w)
    BY <2>4 DEF LastStreamHash, InsertEvent, Fail
  <2> QED
    BY <1>1, <2>1, <2>2, <2>3, <2>4 DEF HandleStep, AppendStep
<1>2. CASE UNCHANGED vars
  BY <1>2 DEF vars
<1> QED
  BY <1>1, <1>2 DEF Next

\* A page brings the follower exactly up to its new cursor.
LEMMA ReadAllSeen ==
    ASSUME OrderingFacts, StoreInv, SeenInv, NEW f \in Followers, ReadAll(f)
    PROVE  SeenInv'
<1>0. cursor[f] \in Nat
  BY SMTT(30), SMTT(60) DEF StoreInv, TypeOK
<1>1. PICK page, c, d : page = Page(c) /\ c = cursor[f] /\ d = Largest(page)
  OBVIOUS
<1>2. /\ page # {} /\ events' = events
      /\ cursor' = [cursor EXCEPT ![f] = d]
      /\ seen' = [seen EXCEPT ![f] = @ \cup page]
  BY <1>1 DEF ReadAll
<1>3. page \subseteq Committed /\ d \in page /\ \A p \in page : c < p /\ p <= d
  BY <1>0, <1>1, <1>2, PageFacts
<1>4. Committed' = Committed
  BY <1>2 DEF Committed, Versions
<1>5. cursor \in [Followers -> 0..MaxPosition] /\ seen \in [Followers -> SUBSET (1..MaxPosition)]
  BY DEF StoreInv, TypeOK
<1>6. ASSUME NEW x \in Followers PROVE seen'[x] = {p \in Committed : p <= cursor'[x]}
  <2>1. CASE x # f
    <3>1. seen'[x] = seen[x] /\ cursor'[x] = cursor[x]
      BY <1>2, <1>5, <2>1
    <3> QED
      BY <3>1 DEF SeenInv
  <2>2. CASE x = f
    <3>1. seen'[x] = seen[f] \cup page /\ cursor'[x] = d
      BY <1>2, <1>5, <2>2
    <3>2. seen[f] = {p \in Committed : p <= c}
      BY <1>1 DEF SeenInv
    <3>3. d \in Nat /\ c < d
      BY <1>3, CommittedNat
    <3>4. \A p \in seen'[x] : p \in Committed /\ p <= d
      <4>1. \A p \in Committed : p <= c => p <= d
        BY <1>0, <1>1, <3>3, CommittedNat, SMTT(30), SMTT(60)
      <4> QED
        BY <1>3, <3>1, <3>2, <4>1
    <3>5. \A p \in Committed : p <= d => p \in seen'[x]
      <4>1. NoSkip'
        BY ReadAllInv DEF StoreInv
      <4> QED
        BY <1>4, <2>2, <3>1, <4>1 DEF NoSkip
    <3> QED
      BY <3>1, <3>4, <3>5
  <2> QED
    BY <2>1, <2>2
<1> QED
  BY <1>4, <1>6 DEF SeenInv

\* Nobody has followed anything yet.
LEMMA InitSeen == ASSUME Init PROVE SeenInv
<1>1. Committed = {}
  BY SMTT(30), SMTT(60) DEF Init, Committed, Versions
<1> QED
  BY <1>1 DEF Init, SeenInv

\* Every step keeps a follower exact.
LEMMA NextSeen == OrderingFacts /\ StoreInv /\ SeenInv /\ [Next]_vars => SeenInv'
\* What a commit adds lies above every cursor.
<1>CommitSeen.
      ASSUME StoreInv, SeenInv, NEW w \in Writers, Commit(w)
      PROVE  SeenInv'
  <2> USE <1>CommitSeen
  <2>1. cursor' = cursor /\ seen' = seen
    BY DEF Commit
  <2>2. /\ Committed \subseteq Committed'
        /\ \A p \in Committed' \ Committed : p \in Nat /\ \A q \in Committed : q < p
    BY CommitPositions
  <2>3. \A p \in Committed' : p \in 1..MaxPosition
    BY DEF Committed
  <2>4. ASSUME NEW f \in Followers PROVE seen'[f] = {p \in Committed' : p <= cursor'[f]}
    <3>1. PICK c \in Nat : c = cursor[f] /\ (c = 0 \/ c \in Committed)
      BY SMTT(30), SMTT(60) DEF StoreInv, TypeOK
    <3>2. ASSUME NEW p \in Committed', p \notin Committed PROVE ~(p <= c)
      <4>1. p \in Nat /\ p > 0
        BY <2>3, SMTT(30), SMTT(60)
      <4>2. c \in Committed => c < p
        BY <2>2, <3>2
      <4> QED
        BY <3>1, <4>1, <4>2, SMTT(30), SMTT(60)
    <3>3. {p \in Committed' : p <= c} = {p \in Committed : p <= c}
      BY <2>2, <3>2
    <3>4. seen[f] = {p \in Committed : p <= c}
      BY <3>1 DEF SeenInv
    <3> QED
      BY <2>1, <3>1, <3>3, <3>4, ZenonT(60)
  <2> QED
    BY <2>4 DEF SeenInv
\* The step itself.
<1> SUFFICES ASSUME OrderingFacts, StoreInv, SeenInv, [Next]_vars PROVE SeenInv'
  OBVIOUS
<1>1. CASE UNCHANGED <<events, claims, cursor, seen>>
  <2>1. Committed' = Committed
    BY <1>1 DEF Committed, Versions
  <2> QED
    BY <1>1, <2>1 DEF SeenInv
<1> QED
  BY <1>1, QuietForLog, <1>CommitSeen, ReadAllSeen

\* Every step of the store is a step of the log or changes nothing of it.
LEMMA StepImplements ==
    OrderingFacts /\ StoreInv /\ ClaimsInv /\ SeenInv /\ [Next]_vars
    => UNCHANGED Log!vars \/ Log!Next
\* What an enumeration gives.
<1>EnumerationFact.
      ASSUME OrderingFacts, NEW n, NEW S, NEW m, NEW g, Enumerates(g, m, S, n)
      PROVE  /\ m \in Nat /\ n \in Nat
             /\ \A x \in S : x \in Nat /\ \E i \in 1..m : g[i] = x
             /\ \A i \in 1..m : g[i] \in S /\ g[i] \in Nat
             /\ \A i, j \in 1..m : i < j => g[i] < g[j]
             /\ \A i, j \in 1..m : g[i] < g[j] => i < j
             /\ \A i, j \in 1..m : g[i] = g[j] => i = j
  <2> USE <1>EnumerationFact
  <2>1. EnumerationsIncrease
    BY DEF OrderingFacts, ListingFacts
  <2> QED
    BY <2>1 DEF EnumerationsIncrease
\* Every bounded set of positions can be listed.
<1>EnumerationExistsFact.
      ASSUME OrderingFacts, NEW n \in Nat, NEW S \in SUBSET (1..n)
      PROVE  \E m \in Nat, g \in [1..Cardinality(S) -> S] : m = Cardinality(S) /\ Enumerates(g, m, S, n)
  BY <1>EnumerationExistsFact DEF OrderingFacts, ListingFacts, SetsEnumerate
\* What is selected up to a position is a prefix.
<1>SelectedBelowFact.
      ASSUME OrderingFacts, NEW n \in Nat, NEW S \in SUBSET (1..n), NEW m \in Nat, NEW g, Enumerates(g, m, S, n),
             NEW p \in Nat, NEW k \in 0..m, IsCut(g, m, p, k), NEW f, NEW f2,
             NEW T, T = {x \in S : x <= p}, \A x \in T : f2[x] = f[x]
      PROVE  Selected(T, n, f2) = Along(f, g, k)
  <2> USE <1>SelectedBelowFact
  <2>1. SelectedIsPrefix
    BY DEF OrderingFacts, ListingFacts
  <2>2. Below(n, m, p, S, g, k, T) /\ Agree(f, f2, T)
    BY DEF Below, Agree
  <2> QED
    BY <2>1, <2>2, SMTT(30), SMTT(60) DEF SelectedIsPrefix
\* New positions, above all the others, are selected behind them.
<1>SelectedMoreFact.
      ASSUME OrderingFacts, NEW n, NEW S, NEW m, NEW g, Enumerates(g, m, S, n),
             NEW d, NEW q, ListsAbove(q, d, S, n),
             NEW f, NEW f2, Agree(f, f2, S)
      PROVE  Selected(S \cup {q[i] : i \in 1..d}, n, f2) = Selected(S, n, f) \o Along(f2, q, d)
  <2> USE <1>SelectedMoreFact
  <2>1. SelectedIsBehind
    BY SMTT(30), SMTT(60) DEF OrderingFacts, ListingFacts
  <2> QED
    BY <2>1, SMTT(30), SMTT(60) DEF SelectedIsBehind
\* Listing fewer places gives a prefix.
<1>AlongPrefixFact.
      ASSUME OrderingFacts, NEW f, NEW g, NEW m \in Nat, NEW k \in 0..m
      PROVE  /\ Len(Along(f, g, k)) = k /\ Len(Along(f, g, m)) = m
             /\ SubSeq(Along(f, g, m), 1, k) = Along(f, g, k)
  BY <1>AlongPrefixFact, ZenonT(60) DEF OrderingFacts, ListingFacts, AlongIsPrefix
\* An enumeration can be cut anywhere.
<1>EnumerationCutFact.
      ASSUME OrderingFacts, NEW n, NEW S, NEW m, NEW g, Enumerates(g, m, S, n), NEW p \in Nat
      PROVE  \E k \in 0..m : IsCut(g, m, p, k)
  BY <1>EnumerationCutFact DEF OrderingFacts, ListingFacts, EnumerationsCut
\* The elements of a sequence.
<1>SeqElements.
      ASSUME NEW S, NEW r \in Seq(S), NEW n, n = Len(r)
      PROVE  n \in Nat /\ DOMAIN r = 1..n /\ \A i \in 1..n : r[i] \in S
  BY <1>SeqElements, SMTT(30), SMTT(60)
\* At most one row stands at a position, so looking a position up finds it.
<1>LookUp.
      ASSUME NEW ev, NEW s \in Streams, NEW v \in DOMAIN ev[s],
             \A x, y \in Streams : \A u \in DOMAIN ev[x], z \in DOMAIN ev[y] :
                 ev[x][u].pos = ev[y][z].pos => x = y /\ u = z
      PROVE  /\ (CHOOSE t \in Streams : \E u \in DOMAIN ev[t] : ev[t][u].pos = ev[s][v].pos) = s
             /\ (CHOOSE u \in DOMAIN ev[s] : ev[s][u].pos = ev[s][v].pos) = v
  <2> USE <1>LookUp
  <2>1. \A t \in Streams : (\E u \in DOMAIN ev[t] : ev[t][u].pos = ev[s][v].pos) => t = s
    OBVIOUS
  <2>2. \A u \in DOMAIN ev[s] : ev[s][u].pos = ev[s][v].pos => u = v
    OBVIOUS
  <2> QED
    BY <2>1, <2>2
\* The entry of the log at the position of a row is that row.
<1>EntryIs.
      ASSUME PositionsUnique, NEW s \in Streams, NEW v \in Versions(s)
      PROVE  EntryAt(events[s][v].pos) = [stream |-> s, payload |-> events[s][v].payload]
  <2> USE <1>EntryIs
  <2>1. /\ (CHOOSE t \in Streams : \E u \in DOMAIN events[t] : events[t][u].pos = events[s][v].pos) = s
        /\ (CHOOSE u \in DOMAIN events[s] : events[s][u].pos = events[s][v].pos) = v
    BY <1>LookUp DEF PositionsUnique, Versions
  <2> QED
    BY <2>1 DEF EntryAt, Versions
\* EntryIs in the next state.
<1>EntryIsNext.
      ASSUME PositionsUnique', NEW s \in Streams, NEW v \in DOMAIN events'[s],
             NEW p, p = events'[s][v].pos
      PROVE  EntryAt(p)' = [stream |-> s, payload |-> events'[s][v].payload]
  <2> USE <1>EntryIsNext
  <2>1. /\ (CHOOSE t \in Streams : \E u \in DOMAIN events'[t] : events'[t][u].pos = p) = s
        /\ (CHOOSE u \in DOMAIN events'[s] : events'[s][u].pos = p) = v
    BY <1>LookUp, SMTT(30), SMTT(60) DEF PositionsUnique, Versions
  <2> QED
    BY <2>1 DEF EntryAt, Versions
\* The committed rows have an enumeration by position, and the log lists them
\* along it.
<1>LogIs.
      ASSUME OrderingFacts, NEW g, NEW m, Enumerates(g, m, Committed, MaxPosition)
      PROVE  /\ EntriesAt(Committed) = [i \in 1..m |-> EntryAt(g[i])]
             /\ Len(EntriesAt(Committed)) = m
             /\ DOMAIN EntriesAt(Committed) = 1..m
  <2> USE <1>LogIs
  <2> DEFINE f == [p \in Committed |-> EntryAt(p)]
  <2>1. Selected(Committed, MaxPosition, f) = Along(f, g, m)
    <3> HIDE DEF f
    <3> QED
      BY SelectedAlongFact, SMTT(30), SMTT(60)
  <2>2. \A i \in 1..m : g[i] \in Committed
    BY DEF Enumerates
  <2>3. \A i \in 1..m : f[g[i]] = EntryAt(g[i])
    BY <2>2
  <2>4. EntriesAt(Committed) = [i \in 1..m |-> EntryAt(g[i])]
    BY <2>1, <2>3 DEF EntriesAt, Along
  <2>5. m \in Nat
    BY DEF Enumerates
  <2> QED
    BY <2>4, <2>5, SMTT(30), SMTT(60)
\* The committed positions can be listed in order.
<1>CommittedListed.
      ASSUME OrderingFacts
      PROVE  \E m \in Nat, g \in [1..Cardinality(Committed) -> Committed] :
                 m = Cardinality(Committed) /\ Enumerates(g, m, Committed, MaxPosition)
  <2> USE <1>CommittedListed
  <2>1. MaxPosition \in Nat
    BY EventStoreAssumption
  <2> QED
    BY <2>1, CommittedNat, <1>EnumerationExistsFact
\* The abstract state of a stream is the sequence of its events by version.
<1>StreamStateIs.
      ASSUME OrderingFacts, StoreInv, NEW s \in Streams, NEW n \in Nat, NEW st \in Seq(Payload),
             Versions(s) = 1..n, IsHistory(s, n, st)
      PROVE  Log!StateOf(s) = st
  <2> USE <1>StreamStateIs
  <2>1. PICK m \in Nat, g \in [1..Cardinality(Committed) -> Committed] :
            Enumerates(g, m, Committed, MaxPosition)
    BY <1>CommittedListed
  <2>2. PICK l : l = EntriesAt(Committed)
    OBVIOUS
  <2>3. l = [i \in 1..m |-> EntryAt(g[i])] /\ Len(l) = m /\ DOMAIN l = 1..m
    BY <2>1, <2>2, <1>LogIs
  <2>4. /\ m \in Nat /\ MaxPosition \in Nat
        /\ \A x \in Committed : x \in Nat /\ \E i \in 1..m : g[i] = x
        /\ \A i \in 1..m : g[i] \in Committed /\ g[i] \in Nat
        /\ \A i, j \in 1..m : i < j => g[i] < g[j]
        /\ \A i, j \in 1..m : g[i] < g[j] => i < j
        /\ \A i, j \in 1..m : g[i] = g[j] => i = j
    <3>1. \A x \in Committed : x \in Nat /\ \E i \in 1..m : g[i] = x
      BY <2>1, CommittedNat DEF Enumerates
    <3>2. \A i \in 1..m : g[i] \in Committed /\ g[i] \in Nat
      BY <2>1, <1>EnumerationFact
    <3>3. \A i, j \in 1..m : i < j => g[i] < g[j]
      BY <2>1, <1>EnumerationFact
    <3>4. \A i, j \in 1..m : g[i] < g[j] => i < j
      BY <2>1, <1>EnumerationFact
    <3>5. ASSUME NEW i \in 1..m, NEW j \in 1..m, g[i] = g[j] PROVE i = j
      <4>1. ~(i < j) /\ ~(j < i)
        BY <3>2, <3>3, <3>5, SMTT(30), SMTT(60)
      <4> QED
        BY <4>1, SMTT(30), SMTT(60)
    <3>6. MaxPosition \in Nat
      BY EventStoreAssumption
    <3> QED
      BY <3>1, <3>2, <3>3, <3>4, <3>5, <3>6
  <2>5. \A v \in 1..n : events[s][v].pos \in Committed /\ events[s][v].pos \in Nat
    <3>1. \A v \in 1..n : events[s][v] \in Row
      BY DEF StoreInv, TypeOK
    <3>2. \A r \in Row : r.pos \in 1..MaxPosition
      BY DEF Row
    <3>3. \A v \in 1..n : events[s][v].pos \in Committed
      BY <3>1, <3>2 DEF Committed
    <3> QED
      BY <3>3, CommittedNat
  <2> DEFINE I == {i \in DOMAIN l : l[i].stream = s}
             e == [v \in 1..n |-> CHOOSE i \in 1..m : g[i] = events[s][v].pos]
             f == [i \in DOMAIN l |-> l[i].payload]
  <2>6. ASSUME NEW v \in 1..n PROVE e[v] \in 1..m /\ g[e[v]] = events[s][v].pos
    BY <2>4, <2>5
  <2>7. ASSUME NEW v \in 1..n PROVE e[v] \in I /\ f[e[v]] = st[v]
    <3>1. PICK i \in 1..m : i = e[v] /\ g[i] = events[s][v].pos
      BY <2>6
    <3>2. l[i] = [stream |-> s, payload |-> events[s][v].payload]
      <4>1. EntryAt(events[s][v].pos) = [stream |-> s, payload |-> events[s][v].payload]
        BY <1>EntryIs, ZenonT(60) DEF StoreInv
      <4> QED
        BY <2>3, <3>1, <4>1
    <3>3. l[i].stream = s /\ l[i].payload = st[v]
      BY <3>2, SMTT(30), SMTT(60) DEF IsHistory
    <3> QED
      BY <2>3, <3>1, <3>3
  <2>8. ASSUME NEW u \in 1..n, NEW v \in 1..n, u < v PROVE e[u] < e[v]
    <3>1. events[s][u].pos < events[s][v].pos
      BY <2>8 DEF StoreInv, StreamsAreSequences
    <3>2. PICK i \in 1..m, j \in 1..m :
              i = e[u] /\ j = e[v] /\ g[i] = events[s][u].pos /\ g[j] = events[s][v].pos
      <4> HIDE DEF e
      <4> QED
        BY <2>6
    <3>3. g[i] < g[j]
      BY <3>1, <3>2
    <3> QED
      BY <2>4, <3>2, <3>3
  <2>9. ASSUME NEW i \in I PROVE \E v \in 1..n : e[v] = i
    <3>1. i \in 1..m /\ l[i].stream = s /\ l[i] = EntryAt(g[i])
      BY <2>3
    <3>2. PICK t \in Streams : \E v \in Versions(t) : events[t][v].pos = g[i]
      BY <2>4, <3>1 DEF Committed
    <3>3. PICK v \in Versions(t) : events[t][v].pos = g[i]
      BY <3>2
    <3>4. EntryAt(g[i]) = [stream |-> t, payload |-> events[t][v].payload]
      <4>1. EntryAt(events[t][v].pos) = [stream |-> t, payload |-> events[t][v].payload]
        BY <1>EntryIs, ZenonT(60) DEF StoreInv
      <4> QED
        BY <3>3, <4>1
    <3>5. t = s /\ v \in 1..n
      BY <3>1, <3>4, SMTT(30), SMTT(60)
    <3>6. PICK j \in 1..m : j = e[v] /\ g[j] = g[i]
      BY <2>6, <3>3, <3>5
    <3>7. j = i
      BY <2>4, <3>1, <3>6, ZenonT(60)
    <3> QED
      BY <3>5, <3>6, <3>7
  <2>10. Enumerates(e, n, I, m)
    <3>1. I \in SUBSET (1..m)
      BY <2>3
    <3>2. e \in [1..n -> I]
      BY <2>7
    <3> HIDE DEF e, I
    <3> QED
      BY <2>8, <2>9, <3>1, <3>2 DEF Enumerates
  <2>11. Selected(I, m, f) = Along(f, e, n)
    <3> HIDE DEF e, I, f
    <3> QED
      BY <2>10, SelectedAlongFact, SMTT(30), SMTT(60)
  <2>12. Along(f, e, n) = st
    <3>1. st = [v \in 1..n |-> st[v]]
      BY SMTT(30), SMTT(60) DEF IsHistory
    <3>2. \A v \in 1..n : f[e[v]] = st[v]
      BY <2>7
    <3> HIDE DEF f, e
    <3> QED
      BY <3>1, <3>2 DEF Along
  <2>13. Log!StateOf(s) = Selected(I, m, f)
    <3>1. Log!StateOf(s) = Log!FoldOf(s, l)
      BY <2>2 DEF Log!StateOf
    <3>2. Log!FoldOf(s, l) = Selected(I, m, f)
      BY <2>3 DEF Log!FoldOf, Log!Selected, Selected
    <3> QED
      BY <3>1, <3>2
  <2> QED
    BY <2>11, <2>12, <2>13
\* A commit adds the positions of its rows and no other.
<1>CommitAdds.
      ASSUME StoreInv, NEW w \in Writers, Commit(w), NEW c \in HandleRecord, c = h[w]
      PROVE  Committed' = Committed \cup {c.rows[i].pos : i \in 1..Len(c.rows)}
  <2> USE <1>CommitAdds
  <2> DEFINE s == c.stream  base == c.version  rows == c.rows  n == Len(c.rows)
  <2>2. /\ s \in Streams /\ base \in Nat /\ rows \in Seq(Row) /\ n \in Nat \ {0}
        /\ Versions(s) = 1..base
        /\ events' = [t \in Streams |-> IF t = s THEN events'[s] ELSE events[t]]
        /\ DOMAIN events'[s] = 1..(base + n)
        /\ \A v \in 1..base : events'[s][v] = events[s][v]
        /\ \A i \in 1..n : events'[s][base + i] = rows[i]
    BY CommitAppends, ZenonT(60)
  <2>3. \A i \in 1..n : rows[i].pos \in 1..MaxPosition
    <3>1. \A i \in 1..n : rows[i] \in Row
      BY <2>2, SMTT(30), SMTT(60)
    <3> QED
      BY <3>1 DEF Row
  <2>4. \A t \in Streams : t # s => events'[t] = events[t]
    BY <2>2
  <2> HIDE DEF s, base, rows, n
  <2>5. ASSUME NEW p \in Committed', p \notin Committed
        PROVE  \E i \in 1..n : p = rows[i].pos
    <3>1. PICK t \in Streams : \E v \in DOMAIN events'[t] : events'[t][v].pos = p
      BY DEF Committed, Versions
    <3>2. PICK v \in DOMAIN events'[t] : events'[t][v].pos = p
      BY <3>1
    <3>3. p \in 1..MaxPosition
      BY DEF Committed
    <3>4. t = s /\ v \notin 1..base
      <4>1. CASE t # s
        BY <2>4, <2>5, <3>2, <3>3, <4>1 DEF Committed, Versions
      <4>2. CASE t = s /\ v \in 1..base
        BY <2>2, <2>5, <3>2, <3>3, <4>2 DEF Committed
      <4> QED
        BY <4>1, <4>2
    <3>5. v - base \in 1..n /\ base + (v - base) = v
      BY <2>2, <3>4, SMTT(30), SMTT(60)
    <3>6. events'[s][base + (v - base)] = rows[v - base]
      BY <2>2, <3>5
    <3> QED
      BY <3>2, <3>4, <3>5, <3>6
  <2>6. ASSUME NEW i \in 1..n PROVE rows[i].pos \in Committed'
    <3>1. base + i \in DOMAIN events'[s]
      BY <2>2, SMTT(30), SMTT(60)
    <3>2. events'[s][base + i].pos = rows[i].pos
      BY <2>2
    <3> QED
      BY <2>2, <2>3, <3>1, <3>2 DEF Committed, Versions
  <2>7. Committed \subseteq Committed'
    BY CommitPositions
  <2>8. \A p : p \in Committed' <=> p \in Committed \/ \E i \in 1..n : p = rows[i].pos
    BY <2>5, <2>6, <2>7
  <2>9. Committed' = Committed \cup {rows[i].pos : i \in 1..n}
    BY <2>8
  <2> QED
    BY <2>9 DEF n, rows
\* A commit leaves the entries of the log where they are.
<1>CommitKeepsEntries.
      ASSUME StoreInv, NEW w \in Writers, Commit(w), NEW p \in Committed
      PROVE  EntryAt(p)' = EntryAt(p)
  <2> USE <1>CommitKeepsEntries
  <2>1. PICK s \in Streams : \E v \in Versions(s) : events[s][v].pos = p
    BY DEF Committed
  <2>2. PICK v \in Versions(s) : events[s][v].pos = p
    BY <2>1
  <2>3. v \in DOMAIN events'[s] /\ events'[s][v] = events[s][v]
    BY CommitKeepsRows DEF Versions
  <2>4. PositionsUnique /\ PositionsUnique'
    BY CommitUnique DEF StoreInv
  <2>5. EntryAt(events[s][v].pos) = [stream |-> s, payload |-> events[s][v].payload]
    BY <2>4, <1>EntryIs
  <2>6. p = events'[s][v].pos
    BY <2>2, <2>3
  <2>7. EntryAt(p)' = [stream |-> s, payload |-> events'[s][v].payload]
    BY <2>3, <2>4, <2>6, <1>EntryIsNext
  <2> QED
    BY <2>2, <2>3, <2>5, <2>7
\* A commit joins its batch to the end of the log.
<1>CommitLog.
      ASSUME OrderingFacts, StoreInv, NEW w \in Writers, Commit(w), NEW c \in HandleRecord, c = h[w]
      PROVE  EntriesAt(Committed)' = EntriesAt(Committed) \o
                 [i \in 1..Len(c.events) |-> [stream |-> c.stream, payload |-> c.events[i]]]
  <2> USE <1>CommitLog
  <2>1. PICK m \in Nat, g \in [1..Cardinality(Committed) -> Committed] :
            Enumerates(g, m, Committed, MaxPosition)
    BY <1>CommittedListed
  <2>2. PICK d \in Nat : d = Len(c.rows) /\ d = Len(c.events)
    BY CommitAppends
  <2> DEFINE q == [i \in 1..d |-> c.rows[i].pos]
             f == [p \in Committed |-> EntryAt(p)]
             f2 == [p \in Committed' |-> EntryAt(p)']
  <2>3. /\ c.rows \in Seq(Row) /\ c.stream \in Streams /\ c.version \in Nat
        /\ DOMAIN events'[c.stream] = 1..(c.version + d)
        /\ \A i \in 1..d : events'[c.stream][c.version + i] = c.rows[i]
    BY <2>2, CommitAppends, ZenonT(60)
  <2>4. \A i \in 1..d : c.rows[i] \in Row /\ c.rows[i].pos \in 1..MaxPosition
    <3>1. \A i \in 1..d : c.rows[i] \in Row
      BY <2>2, <2>3, <1>SeqElements
    <3> QED
      BY <3>1 DEF Row
  <2>5. ASSUME NEW i \in 1..d
        PROVE  /\ c.rows[i].payload = c.events[i]
               /\ \A p \in Committed : p < c.rows[i].pos
               /\ \A j \in 1..d : j < i => c.rows[j].pos < c.rows[i].pos
    <3>1. CallOK(w)
      BY DEF StoreInv
    <3>2. DOMAIN c.rows = 1..d
      <4>1. PICK r \in Seq(Row) : r = c.rows
        BY <2>3
      <4>2. DOMAIN r = 1..Len(r)
        BY SMTT(30), SMTT(60)
      <4> QED
        BY <2>2, <4>1, <4>2
    <3> QED
      BY <3>1, <3>2 DEF CallOK
  <2>6. ASSUME NEW i \in 1..d
        PROVE  f2[q[i]] = [stream |-> c.stream, payload |-> c.events[i]]
    <3>1. PICK p : p = c.rows[i].pos
      OBVIOUS
    <3>2. p \in Committed'
      BY <2>2, <3>1, <1>CommitAdds
    <3>3. EntryAt(p)' = [stream |-> c.stream, payload |-> c.events[i]]
      <4>1. PICK v : v = c.version + i
        OBVIOUS
      <4>2. v \in DOMAIN events'[c.stream] /\ events'[c.stream][v] = c.rows[i]
        BY <2>3, <4>1, SMTT(30), SMTT(60)
      <4>3. PositionsUnique'
        BY CommitUnique
      <4>4. p = events'[c.stream][v].pos
        BY <3>1, <4>2
      <4>5. EntryAt(p)' = [stream |-> c.stream, payload |-> events'[c.stream][v].payload]
        BY <2>3, <4>2, <4>3, <4>4, <1>EntryIsNext, ZenonT(60)
      <4> QED
        BY <2>5, <4>2, <4>5
    <3>4. q[i] = p
      BY <3>1
    <3> HIDE DEF q
    <3> QED
      BY <3>2, <3>3, <3>4
  <2>7. \A p \in Committed : f2[p] = f[p]
    <3>1. Committed \subseteq Committed'
      BY CommitPositions
    <3> QED
      BY <3>1, <1>CommitKeepsEntries
  <2>8. /\ ListsAbove(q, d, Committed, MaxPosition)
        /\ Committed' = Committed \cup {q[i] : i \in 1..d}
    <3>1. q \in [1..d -> 1..MaxPosition] /\ \A i \in 1..d : q[i] = c.rows[i].pos
      BY <2>4
    <3>2. Committed' = Committed \cup {c.rows[i].pos : i \in 1..d}
      BY <2>2, <1>CommitAdds
    <3> HIDE DEF q
    <3>3. Committed' = Committed \cup {q[i] : i \in 1..d}
      BY <3>1, <3>2
    <3>4. \A i, j \in 1..d : i < j => q[i] < q[j]
      BY <2>5, <3>1
    <3>5. \A i \in 1..d : \A x \in Committed : x < q[i]
      BY <2>5, <3>1
    <3> QED
      BY <3>1, <3>3, <3>4, <3>5 DEF ListsAbove
  <2> HIDE DEF q, f, f2
  <2>9. Selected(Committed', MaxPosition, f2) = Selected(Committed, MaxPosition, f) \o Along(f2, q, d)
    <3>1. Agree(f, f2, Committed)
      BY <2>7, ZenonT(60) DEF Agree
    <3>2. Selected(Committed \cup {q[i] : i \in 1..d}, MaxPosition, f2)
              = Selected(Committed, MaxPosition, f) \o Along(f2, q, d)
      BY <2>1, <2>8, <3>1, <1>SelectedMoreFact, SMTT(30), SMTT(60)
    <3> QED
      BY <2>8, <3>2
  <2>10. Along(f2, q, d)
             = [i \in 1..Len(c.events) |-> [stream |-> c.stream, payload |-> c.events[i]]]
    BY <2>2, <2>6 DEF Along
  <2>11. EntriesAt(Committed)' = Selected(Committed', MaxPosition, f2)
    BY DEF EntriesAt, f2
  <2>12. EntriesAt(Committed) = Selected(Committed, MaxPosition, f)
    BY DEF EntriesAt, f
  <2> QED
    BY <2>9, <2>10, <2>11, <2>12
\* A commit is invisible to the followers.
<1>CommitView.
      ASSUME StoreInv, SeenInv, NEW w \in Writers, Commit(w)
      PROVE  [f \in Followers |-> EntriesAt(seen[f])]' = [f \in Followers |-> EntriesAt(seen[f])]
  <2> USE <1>CommitView
  <2>1. seen' = seen
    BY DEF Commit
  <2>2. ASSUME NEW f \in Followers PROVE EntriesAt(seen[f])' = EntriesAt(seen[f])
    <3>1. \A p \in seen[f] : p \in Committed
      BY DEF SeenInv
    <3>2. \A p \in seen[f] : EntryAt(p)' = EntryAt(p)
      BY <3>1, <1>CommitKeepsEntries
    <3>3. [p \in seen[f] |-> EntryAt(p)'] = [p \in seen[f] |-> EntryAt(p)]
      BY <3>2
    <3>4. EntriesAt(seen[f])' = Selected(seen[f], MaxPosition, [p \in seen[f] |-> EntryAt(p)'])
      BY <2>1 DEF EntriesAt
    <3> QED
      BY <3>3, <3>4 DEF EntriesAt
  <2> QED
    BY <2>2
\* The log's decider is the store's: both are the same definitions.
<1>SameDecider.
      ASSUME NEW st, NEW b \in Decide(st), ~IsTerminal(st)
      PROVE  /\ b \in Log!Batches /\ b \in Log!Decide(st)
             /\ ~Log!IsTerminal(st)
  <2> USE <1>SameDecider
  <2>1. Log!Batches = Batches
    BY DEF Log!Batches, Batches, Log!Payload, Payload
  <2>2. Log!Decide(st) = Decide(st)
    BY <2>1 DEF Log!Decide, Decide, Log!Holds, Holds, Log!Evolve, Evolve
  <2>3. b \in Batches
    BY DEF Decide
  <2> QED
    BY <2>1, <2>2, <2>3 DEF Log!IsTerminal, IsTerminal
\* A commit is one Handle step of the log: the command decides on the current
\* state of its stream, its claims are granted, its batch joins the log.
<1>CommitHandles.
      ASSUME OrderingFacts, StoreInv, ClaimsInv, SeenInv, NEW w \in Writers, Commit(w)
      PROVE  Log!Next
  <2> USE <1>CommitHandles
  <2>1. PICK c \in HandleRecord : c = h[w]
    BY CallType DEF StoreInv
  <2>2. PICK s, b, st : s = c.stream /\ b = c.events /\ st = c.state
    OBVIOUS
  <2>3. s \in Streams /\ c.version \in Nat /\ Versions(s) = 1..c.version
    BY <2>1, <2>2, CommitAppends
  <2>4. /\ IsHistory(s, c.version, st) /\ ~IsTerminal(st) /\ b \in Decide(st)
        /\ c.pc = "insert" /\ claims' = [k \in Keys |-> ClaimOf(w, k)]
    <3>1. CallOK(w) /\ c.pc = "insert" /\ claims' = [k \in Keys |-> ClaimOf(w, k)]
      BY <2>1 DEF StoreInv, Commit
    <3> QED
      BY <2>1, <2>2, <3>1 DEF CallOK
  <2>5. st \in Seq(Payload)
    BY <2>1, <2>2, CallType DEF StoreInv
  <2>6. Log!StateOf(s) = st
    BY <2>3, <2>4, <2>5, <1>StreamStateIs
  <2>7. DOMAIN b = 1..Len(b)
    BY <2>4, BatchType
  <2>8. b \in Log!Batches /\ b \in Log!Decide(st) /\ ~Log!IsTerminal(st)
    BY <2>4, <1>SameDecider
  <2>9. EntriesAt(Committed)' = EntriesAt(Committed) \o
            [i \in DOMAIN b |-> [stream |-> s, payload |-> b[i]]]
    BY <2>1, <2>2, <2>7, <1>CommitLog
  <2>10. OpsDone(w, Len(b))
    BY <2>1, <2>2, <2>4 DEF ClaimsInv, ClaimCall
  <2>11. /\ \A i \in 1..Len(b) : b[i].kind = "claim" => Log!OwnerAfter(s, b, i - 1, b[i].key) = None
         /\ \A k \in Keys : ClaimOf(w, k) = Log!OwnerAfter(s, b, Len(b), k)
    BY <2>1, <2>2, <2>10 DEF OpsDone
  <2>12. claims' = [k \in Keys |-> Log!OwnerAfter(s, b, Len(b), k)]
    BY <2>4, <2>11
  <2>13. [f \in Followers |-> EntriesAt(seen[f])]' = [f \in Followers |-> EntriesAt(seen[f])]
    BY <1>CommitView
  <2>14. Log!Handle(s, b)
    BY <2>6, <2>7, <2>8, <2>9, <2>11, <2>12, <2>13 DEF Log!Handle
  <2> QED
    BY <2>3, <2>8, <2>14 DEF Log!Next
\* A page is one Follow step of the log: the follower goes on to a longer prefix.
<1>ReadAllFollows.
      ASSUME OrderingFacts, StoreInv, SeenInv, NEW f \in Followers, ReadAll(f)
      PROVE  Log!Next
  <2> USE <1>ReadAllFollows
  <2>1. PICK m \in Nat, g \in [1..Cardinality(Committed) -> Committed] :
            Enumerates(g, m, Committed, MaxPosition)
    BY <1>CommittedListed
  <2>2. PICK a, d : a = cursor[f] /\ d = cursor'[f]
    OBVIOUS
  <2>3. /\ Page(a) # {} /\ cursor' = [cursor EXCEPT ![f] = Largest(Page(a))]
        /\ seen' = [seen EXCEPT ![f] = @ \cup Page(a)]
        /\ events' = events /\ claims' = claims
    BY <2>2 DEF ReadAll
  <2>4. /\ cursor \in [Followers -> 0..MaxPosition] /\ seen \in [Followers -> SUBSET (1..MaxPosition)]
        /\ MaxPosition \in Nat
    BY EventStoreAssumption DEF StoreInv, TypeOK
  <2>5. d \in Committed /\ a < d /\ a \in Nat /\ d \in Nat
    <3>1. d = Largest(Page(a)) /\ a \in 0..MaxPosition
      BY <2>2, <2>3, <2>4
    <3>3. a \in Nat
      BY <2>4, <3>1, SMTT(30), SMTT(60)
    <3>2. Page(a) \subseteq Committed /\ d \in Page(a) /\ \A p \in Page(a) : a < p
      BY <2>3, <3>1, <3>3, PageFacts
    <3> QED
      BY <3>2, <3>3, CommittedNat
  <2>6. Committed' = Committed /\ \A p : EntryAt(p)' = EntryAt(p)
    BY <2>3, ZenonT(60) DEF Committed, EntryAt, Versions
  <2>7. /\ seen[f] = {p \in Committed : p <= a}
        /\ seen'[f] = {p \in Committed : p <= d}
    <3>1. SeenInv'
      BY ReadAllSeen
    <3>2. seen'[f] = {p \in Committed' : p <= cursor'[f]}
      BY <3>1 DEF SeenInv
    <3> QED
      BY <2>2, <2>6, <3>2 DEF SeenInv
  <2>9. PICK k \in 0..m : IsCut(g, m, a, k)
    BY <2>1, <2>5, <1>EnumerationCutFact
  <2>10. PICK n \in 0..m : IsCut(g, m, d, n)
    BY <2>1, <2>5, <1>EnumerationCutFact
  <2>11. k < n
    <3>1. PICK i \in 1..m : g[i] = d
      BY <2>1, <2>5 DEF Enumerates
    <3>2. ~(i <= k)
      BY <2>5, <2>9, <3>1, SMTT(30), SMTT(60) DEF IsCut
    <3>3. i <= n
      BY <2>5, <2>10, <3>1, SMTT(30), SMTT(60) DEF IsCut
    <3> QED
      BY <3>2, <3>3, SMTT(30), SMTT(60)
  <2> DEFINE F == [p \in Committed |-> EntryAt(p)]
  <2>12. EntriesAt(Committed) = Along(F, g, m)
    <3>1. Selected(Committed, MaxPosition, F) = Along(F, g, m)
      <4> HIDE DEF F
      <4> QED
        BY <2>1, SelectedAlongFact, SMTT(30), SMTT(60)
    <3> QED
      BY <3>1 DEF EntriesAt
  <2>13. EntriesAt(seen[f]) = Along(F, g, k)
    <3> DEFINE F2 == [p \in seen[f] |-> EntryAt(p)]
    <3>1. \A p \in seen[f] : F2[p] = F[p]
      BY <2>7
    <3> HIDE DEF F, F2
    <3>2. Selected(seen[f], MaxPosition, F2) = Along(F, g, k)
      BY <2>1, <2>4, <2>5, <2>7, <2>9, <3>1, CommittedNat, <1>SelectedBelowFact, SMTT(30), SMTT(60)
    <3> QED
      BY <3>2 DEF EntriesAt, F2
  <2>14. EntriesAt(seen[f])' = Along(F, g, n)
    <3> DEFINE F2 == [p \in seen'[f] |-> EntryAt(p)']
    <3>1. \A p \in seen'[f] : F2[p] = F[p]
      BY <2>6, <2>7
    <3> HIDE DEF F, F2
    <3>2. Selected(seen'[f], MaxPosition, F2) = Along(F, g, n)
      BY <2>1, <2>4, <2>5, <2>7, <2>10, <3>1, CommittedNat, <1>SelectedBelowFact, SMTT(30), SMTT(60)
    <3> QED
      BY <3>2 DEF EntriesAt, F2
  <2> HIDE DEF F
  <2>15. /\ Len(Along(F, g, k)) = k /\ Len(Along(F, g, m)) = m
         /\ SubSeq(Along(F, g, m), 1, n) = Along(F, g, n)
    <3>1. Len(Along(F, g, k)) = k
      BY SMTT(30), SMTT(60) DEF Along
    <3>3. Len(Along(F, g, m)) = m
      BY SMTT(30), SMTT(60) DEF Along
    <3>2. SubSeq(Along(F, g, m), 1, n) = Along(F, g, n)
      BY <1>AlongPrefixFact, ZenonT(60)
    <3> QED
      BY <3>1, <3>2, <3>3
  <2>16. ASSUME NEW x \in Followers, x # f PROVE EntriesAt(seen[x])' = EntriesAt(seen[x])
    <3>1. seen'[x] = seen[x]
      BY <2>3, <2>4, <2>16
    <3> QED
      BY <2>6, <3>1 DEF EntriesAt
  <2>17. PICK view, view2, log :
            /\ view = [x \in Followers |-> EntriesAt(seen[x])]
            /\ view2 = [x \in Followers |-> EntriesAt(seen[x])]'
            /\ log = EntriesAt(Committed)
    OBVIOUS
  <2>18. view2 = [view EXCEPT ![f] = SubSeq(log, 1, n)]
    <3>1. view2[f] = SubSeq(log, 1, n) /\ \A x \in Followers : x # f => view2[x] = view[x]
      BY <2>12, <2>14, <2>15, <2>16, <2>17
    <3>2. view2 = [x \in Followers |-> view2[x]] /\ view = [x \in Followers |-> view[x]]
      BY <2>17
    <3> QED
      BY <3>1, <3>2
  <2>19. n \in (Len(view[f]) + 1)..Len(log)
    <3>1. Len(view[f]) = k /\ Len(log) = m
      BY <2>12, <2>13, <2>15, <2>17
    <3> QED
      BY <2>11, <3>1, SMTT(30), SMTT(60)
  <2>20. EntriesAt(Committed)' = EntriesAt(Committed)
    BY <2>6 DEF EntriesAt
  <2>21. Log!Follow(f)
    BY <2>3, <2>17, <2>18, <2>19, <2>20 DEF Log!Follow
  <2> QED
    BY <2>21 DEF Log!Next
\* Every other step leaves the log, the owners and the views alone.
<1>QuietStutters.
      ASSUME UNCHANGED <<events, claims, cursor, seen>>
      PROVE  UNCHANGED Log!vars
  <2> USE <1>QuietStutters
  <2>1. Committed' = Committed /\ \A p : EntryAt(p)' = EntryAt(p)
    BY ZenonT(60) DEF Committed, EntryAt, Versions
  <2>2. EntriesAt(Committed)' = EntriesAt(Committed)
    BY <2>1 DEF EntriesAt
  <2>3. ASSUME NEW f \in Followers PROVE EntriesAt(seen[f])' = EntriesAt(seen[f])
    BY <2>1 DEF EntriesAt
  <2>4. [f \in Followers |-> EntriesAt(seen[f])]' = [f \in Followers |-> EntriesAt(seen[f])]
    BY <2>3
  <2> QED
    BY <2>2, <2>4 DEF Log!vars
\* The step itself.
<1> SUFFICES ASSUME OrderingFacts, StoreInv, ClaimsInv, SeenInv, [Next]_vars
             PROVE  UNCHANGED Log!vars \/ Log!Next
  OBVIOUS
<1> QED
  BY QuietForLog, <1>QuietStutters, <1>CommitHandles, <1>ReadAllFollows

\* The empty store is the empty log.
LEMMA InitImplements == ASSUME OrderingFacts, Init PROVE Log!Init
<1>1. Committed = {}
  BY SMTT(30), SMTT(60) DEF Init, Committed, Versions
<1>2. EntriesAt({}) = <<>>
  <2>1. PICK g, f : g = <<>> /\ f = [p \in {} |-> EntryAt(p)]
    OBVIOUS
  <2>2. Enumerates(g, 0, {}, MaxPosition)
    BY <2>1, EventStoreAssumption, SMTT(30), SMTT(60) DEF Enumerates
  <2>3. Selected({}, MaxPosition, f) = Along(f, g, 0)
    BY <2>2, SelectedAlongFact, SMTT(30), SMTT(60)
  <2>4. Along(f, g, 0) = <<>>
    BY SMTT(30), SMTT(60) DEF Along
  <2> QED
    BY <2>1, <2>3, <2>4 DEF EntriesAt
<1>3. \A f \in Followers : seen[f] = {}
  BY DEF Init
<1>4. [f \in Followers |-> EntriesAt(seen[f])] = [f \in Followers |-> <<>>]
  BY <1>2, <1>3
<1> QED
  BY <1>1, <1>2, <1>4 DEF Init, Log!Init

-------------------------------------------------------------------------------
(* The rebuild of the state cache *)

\* What the rebuild knows between two of its calls: for each stream of its type
\* the fold of exactly the events up to its cursor, which is a position it was
\* handed; it writes no row for a stream it has not folded.
RebuildOK(r) ==
    /\ r \in [pc : {"idle", "read", "write"}, cursor : Nat,
              streams : [Streams -> [version : Nat, state : Seq(Payload)]], todo : SUBSET Streams]
    /\ \A s \in Streams \ Foreign :
           /\ IsHistory(s, r.streams[s].version, r.streams[s].state)
           /\ \A v \in Versions(s) : events[s][v].pos <= r.cursor <=> v <= r.streams[s].version
    /\ \A s \in Foreign : r.streams[s] = Unfolded
    /\ r.cursor = 0 \/ r.cursor \in Committed
    /\ \A s \in r.todo : r.streams[s] # Unfolded
    /\ r.pc = "read" => r.todo = {}

\* What the rebuild has folded so far.
RebuildInv == RebuildOK(rb)

\* A row has a version and a position from 1 on, and its position is committed.
LEMMA RowFacts ==
    StoreInv => \A s \in Streams : \A v \in Versions(s) :
        v \in Nat \ {0} /\ events[s][v].pos \in Committed /\ events[s][v].pos \in Nat \ {0}
<1> SUFFICES ASSUME StoreInv, NEW s \in Streams, NEW v \in Versions(s)
             PROVE  v \in Nat \ {0} /\ events[s][v].pos \in Committed /\ events[s][v].pos \in Nat \ {0}
  OBVIOUS
<1>1. events[s][v] \in Row
  BY DEF StoreInv, TypeOK
<1>2. events[s][v].pos \in 1..MaxPosition
  BY <1>1 DEF Row
<1>3. events[s][v].pos \in Committed
  BY <1>2 DEF Committed
<1>4. PICK n \in {0} \cup Versions(s) : Versions(s) = 1..n
  BY DEF StoreInv
<1>5. v \in Nat \ {0}
  BY <1>4, SMTT(30), SMTT(60)
<1> QED
  BY <1>2, <1>3, <1>5, SMTT(30), SMTT(60)

\* RowFacts in the next state.
LEMMA RowFactsNext ==
    (StoreInv => \A s \in Streams : \A v \in Versions(s) :
        v \in Nat \ {0} /\ events[s][v].pos \in Committed /\ events[s][v].pos \in Nat \ {0})'
BY RowFacts, PTL

\* The versions a + 1 to n of stream s are committed.
IsRun(s, a, n) == a \in Nat /\ n \in Nat /\ a <= n /\ \A v \in (a + 1)..n : v \in Versions(s)

\* Where they stand in the global order.
PositionsOf(s, a, n) == {events[s][v].pos : v \in (a + 1)..n}

\* The rebuild before its first page: nothing folded, cursor at 0.
IsFresh(r) ==
    /\ r = [pc |-> r.pc, cursor |-> 0, streams |-> [s \in Streams |-> Unfolded], todo |-> {}]
    /\ r.pc \in {"idle", "read", "write"}

\* A rebuild that has not begun has folded nothing.
LEMMA FreshRebuild == StoreInv /\ IsFresh(rb) => RebuildInv
<1> SUFFICES ASSUME StoreInv, IsFresh(rb) PROVE RebuildInv
  OBVIOUS
<1>1. PICK r : r = rb
  OBVIOUS
<1>2. /\ r = [pc |-> r.pc, cursor |-> 0, streams |-> [s \in Streams |-> Unfolded], todo |-> {}]
      /\ r.pc \in {"idle", "read", "write"}
  BY <1>1 DEF IsFresh
<1>3. r.cursor = 0 /\ r.todo = {} /\ r.streams = [s \in Streams |-> Unfolded]
  BY <1>2, SMTT(30), SMTT(60)
<1>4. Unfolded \in [version : Nat, state : Seq(Payload)]
      /\ Unfolded.version = 0 /\ Unfolded.state = <<>>
  BY SMTT(30), SMTT(60) DEF Unfolded
<1>5. r.streams \in [Streams -> [version : Nat, state : Seq(Payload)]]
      /\ \A s \in Streams : r.streams[s] = Unfolded
  BY <1>3, <1>4
<1>6. r \in [pc : {"idle", "read", "write"}, cursor : Nat,
             streams : [Streams -> [version : Nat, state : Seq(Payload)]], todo : SUBSET Streams]
  BY <1>2, <1>3, <1>5, SMTT(30), SMTT(60)
<1>7. ASSUME NEW s \in Streams \ Foreign
      PROVE  /\ IsHistory(s, r.streams[s].version, r.streams[s].state)
             /\ \A v \in Versions(s) :
                    events[s][v].pos <= r.cursor <=> v <= r.streams[s].version
  <2>1. IsHistory(s, 0, <<>>)
    BY SMTT(30), SMTT(60) DEF IsHistory
  <2>2. \A v \in Versions(s) : v \in Nat \ {0} /\ events[s][v].pos \in Nat \ {0}
    BY RowFacts
  <2>3. \A v \in Versions(s) : ~(events[s][v].pos <= 0) /\ ~(v <= 0)
    BY <2>2, SMTT(30), SMTT(60)
  <2>4. r.streams[s].version = 0 /\ r.streams[s].state = <<>>
    BY <1>4, <1>5
  <2> QED
    BY <1>3, <2>1, <2>3, <2>4
<1>8. \A s \in Foreign : r.streams[s] = Unfolded
  BY <1>5, RebuildAssumption
<1> QED
  BY <1>1, <1>3, <1>6, <1>7, <1>8 DEF RebuildInv, RebuildOK

\* The same in the next state.
LEMMA FreshRebuildNext == (StoreInv /\ IsFresh(rb) => RebuildInv)'
BY FreshRebuild, PTL

\* The rebuild has not been called yet.
LEMMA InitRebuild ==
    ASSUME PIIKinds = {}, RebuildInit
    PROVE  StoreInv /\ RebuildInv
<1>1. StoreInv
  BY InitInv DEF RebuildInit
<1>2. IsFresh(rb)
  BY DEF RebuildInit, RebuildIdle, IsFresh
<1> QED
  BY <1>1, <1>2, FreshRebuild

\* Every step of the store or of the rebuild keeps both invariants.
LEMMA NextRebuild ==
    OrderingFacts /\ PIIKinds = {} /\ Recognised /\ StoreInv /\ RebuildInv /\ [RebuildNext]_allVars
    => StoreInv' /\ RebuildInv'
\* ORDER BY returns the enumeration.
<1>InOrderIsFact.
      ASSUME OrderingFacts, NEW S, NEW n, NEW k, NEW e, Enumerates(e, k, S, n)
      PROVE  /\ Len(InOrder(S)) = k
             /\ DOMAIN InOrder(S) = 1..k
             /\ \A i \in 1..k : InOrder(S)[i] = e[i]
  <2> USE <1>InOrderIsFact
  <2>1. InOrderEnumerates
    BY DEF OrderingFacts, ListingFacts
  <2> QED
    BY <2>1 DEF InOrderEnumerates
\* A step that leaves the events alone need only keep the rebuild's variables right.
<1>RebuildHolds.
      ASSUME events' = events, RebuildOK(rb')
      PROVE  RebuildInv'
  <2> USE <1>RebuildHolds
  <2>1. Committed' = Committed
    BY DEF Committed, Versions
  <2> QED
    BY <2>1, ZenonT(60) DEF RebuildInv, RebuildOK, IsHistory, Versions
\* A step that changes nothing but cache rows keeps the store in order if the
\* rows are folds.
<1>CacheStep.
      ASSUME StoreInv, UNCHANGED <<events, sequence, claims, lock, h, cursor, seen>>,
             cache' \in [Streams -> CacheRow],
             \A s \in Streams : cache'[s] # NoRow =>
                 /\ IsHistory(s, cache'[s].version, cache'[s].state)
                 /\ cache'[s].terminal = IsTerminal(cache'[s].state)
                 /\ StampedRight(cache'[s])
      PROVE  StoreInv'
  <2> USE <1>CacheStep
  <2>0. CacheIsFold'
    BY DEF CacheIsFold, IsHistory, Versions, StampedRight
  <2>1. TypeOK'
    BY DEF StoreInv, TypeOK, Versions
  <2>2. Committed' = Committed
    BY DEF Committed, Versions
  <2>3. ASSUME NEW w \in Writers PROVE CallOK(w)'
    <3>1. CallOK(w)
      BY DEF StoreInv
    <3> QED
      BY <2>2, <3>1, ZenonT(60) DEF CallOK, IsHistory, Versions
  <2>4. /\ (\A s \in Streams : \E n \in {0} \cup Versions(s) : Versions(s) = 1..n)'
        /\ StreamsAreSequences' /\ PositionsUnique' /\ ClosedIsFinal'
    <3>1. (\A s \in Streams : \E n \in {0} \cup Versions(s) : Versions(s) = 1..n)'
      BY ZenonT(60) DEF StoreInv, Versions
    <3>2. StreamsAreSequences' /\ PositionsUnique' /\ ClosedIsFinal'
      BY SMTT(30), SMTT(60) DEF StoreInv, StreamsAreSequences, PositionsUnique, ClosedIsFinal, Versions
    <3> QED
      BY <3>1, <3>2
  <2>5. NoSkip' /\ (\A p \in Committed : p <= sequence)'
    BY <2>2 DEF StoreInv, NoSkip
  <2>6. (\A f \in Followers : cursor[f] = 0 \/ cursor[f] \in Committed)'
    BY <2>2 DEF StoreInv
  <2> QED
    BY <2>0, <2>1, <2>3, <2>4, <2>5, <2>6 DEF StoreInv
\* A row that a commit adds stands at a position that was not committed.
<1>CommitNewPosition.
      ASSUME StoreInv, NEW w \in Writers, Commit(w),
             NEW s \in Streams, NEW v \in DOMAIN events'[s], v \notin Versions(s)
      PROVE  events'[s][v].pos \notin Committed
  <2> USE <1>CommitNewPosition
  <2>1. SUFFICES ASSUME events'[s][v].pos \in Committed PROVE FALSE
    OBVIOUS
  <2>2. PICK t \in Streams : \E u \in Versions(t) : events[t][u].pos = events'[s][v].pos
    BY <2>1 DEF Committed
  <2>3. PICK u \in Versions(t) : events[t][u].pos = events'[s][v].pos
    BY <2>2
  <2>4. u \in DOMAIN events'[t] /\ events'[t][u] = events[t][u]
    BY CommitKeepsRows DEF Versions
  <2>5. PositionsUnique'
    BY CommitUnique
  <2>6. t = s /\ u = v
    BY <2>3, <2>4, <2>5, SMTT(30), SMTT(60) DEF PositionsUnique, Versions
  <2> QED
    BY <2>3, <2>6
\* Steps of the store leave the rebuild's folds true: what commits lies above
\* its cursor.
<1>StoreStepRebuild.
      ASSUME StoreInv, RebuildInv, [Next]_vars, rb' = rb
      PROVE  RebuildInv'
  <2> USE <1>StoreStepRebuild
  <2>1. CASE events' = events
    <3>1. RebuildOK(rb')
      BY DEF RebuildInv
    <3> QED
      BY <2>1, <3>1, <1>RebuildHolds
  <2>2. ASSUME NEW w \in Writers, Commit(w) PROVE RebuildInv'
    <3>1. /\ Committed \subseteq Committed'
          /\ \A p \in Committed' \ Committed : p \in Nat /\ \A q \in Committed : q < p
      BY <2>2, CommitPositions
    <3>2. PICK r : r = rb
      OBVIOUS
    <3>3. r.cursor \in Nat /\ (r.cursor = 0 \/ r.cursor \in Committed)
      BY <3>2 DEF RebuildInv, RebuildOK
    <3>4. ASSUME NEW s \in Streams \ Foreign
          PROVE  /\ IsHistory(s, r.streams[s].version, r.streams[s].state)'
                 /\ \A v \in DOMAIN events'[s] :
                        events'[s][v].pos <= r.cursor <=> v <= r.streams[s].version
      <4>1. PICK a, st : a = r.streams[s].version /\ st = r.streams[s].state
        OBVIOUS
      <4>2. /\ a \in Nat /\ IsHistory(s, a, st)
            /\ \A v \in Versions(s) : events[s][v].pos <= r.cursor <=> v <= a
        <5>1. r.streams \in [Streams -> [version : Nat, state : Seq(Payload)]]
          BY <3>2 DEF RebuildInv, RebuildOK
        <5> QED
          BY <3>2, <4>1, <5>1 DEF RebuildInv, RebuildOK
      <4>3. IsHistory(s, a, st)'
        BY <2>2, <4>2, CommitKeepsHistories
      <4>4. ASSUME NEW v \in DOMAIN events'[s] PROVE events'[s][v].pos <= r.cursor <=> v <= a
        <5>1. CASE v \in Versions(s)
          <6>1. events'[s][v] = events[s][v]
            BY <2>2, <5>1, CommitKeepsRows
          <6> QED
            BY <4>2, <5>1, <6>1
        <5>2. CASE v \notin Versions(s)
          <6>1. PICK p \in Nat \ {0} : p = events'[s][v].pos /\ p \in Committed' /\ v \in Nat \ {0}
            BY <2>2, CommitInv, RowFactsNext DEF Versions
          <6>2. p \notin Committed
            BY <2>2, <5>2, <6>1, <1>CommitNewPosition
          <6>3. ~(p <= r.cursor)
            <7>1. r.cursor \in Committed => r.cursor < p
              BY <3>1, <6>1, <6>2, ZenonT(60)
            <7> QED
              BY <3>3, <6>1, <7>1, SMTT(30), SMTT(60)
          <6>4. ~(v <= a)
            <7>2. \A u \in 1..a : u \in Versions(s)
              BY <4>2 DEF IsHistory
            <7> QED
              BY <4>2, <5>2, <6>1, <7>2, SMTT(30), SMTT(60)
          <6> QED
            BY <6>1, <6>3, <6>4
        <5> QED
          BY <5>1, <5>2
      <4> QED
        BY <4>1, <4>3, <4>4 DEF IsHistory
    <3>5. r.cursor = 0 \/ r.cursor \in Committed'
      BY <3>1, <3>3
    <3> QED
      BY <3>2, <3>4, <3>5, ZenonT(60) DEF RebuildInv, RebuildOK, Versions
  <2> QED
    BY <2>1, <2>2, OnlyCommitWrites
\* ORDER BY position over a run of versions of one stream is the order of versions.
<1>VersionsInOrder.
      ASSUME OrderingFacts, StoreInv, NEW s \in Streams, NEW a, NEW n, IsRun(s, a, n)
      PROVE  /\ Len(InOrder(PositionsOf(s, a, n))) = n - a
             /\ DOMAIN InOrder(PositionsOf(s, a, n)) = 1..(n - a)
             /\ \A i \in 1..(n - a) : InOrder(PositionsOf(s, a, n))[i] = events[s][a + i].pos
  <2> USE <1>VersionsInOrder
  <2>0. a \in Nat /\ n \in Nat /\ a <= n /\ \A v \in (a + 1)..n : v \in Versions(s)
    BY DEF IsRun
  <2>a. PICK P : P = PositionsOf(s, a, n)
    OBVIOUS
  <2>b. P = {events[s][v].pos : v \in (a + 1)..n}
    BY <2>a DEF PositionsOf
  <2> DEFINE e == [i \in 1..(n - a) |-> events[s][a + i].pos]
  <2>1. P \in SUBSET (1..MaxPosition) /\ P \in SUBSET Nat
    <3>1. \A v \in (a + 1)..n : events[s][v].pos \in 1..MaxPosition
      <4>1. \A v \in Versions(s) : events[s][v].pos \in Committed
        BY RowFacts
      <4> QED
        BY <2>0, <4>1, CommittedNat
    <3>2. P \in SUBSET (1..MaxPosition)
      BY <2>b, <3>1
    <3> QED
      BY <3>2, EventStoreAssumption, SMTT(30), SMTT(60)
  <2>2. MaxPosition \in Nat
    BY EventStoreAssumption
  <2>7. n - a \in Nat /\ \A i \in 1..(n - a) : a + i \in (a + 1)..n
    BY <2>0, SMTT(30), SMTT(60)
  <2>8. Enumerates(e, n - a, P, MaxPosition)
    <3>1. e \in [1..(n - a) -> P]
      BY <2>7, <2>b
    <3>2. ASSUME NEW i \in 1..(n - a), NEW j \in 1..(n - a), i < j PROVE e[i] < e[j]
      <4>1. a + i \in Versions(s) /\ a + j \in Versions(s) /\ a + i < a + j
        BY <2>0, <2>7, <3>2, SMTT(30), SMTT(60)
      <4>2. events[s][a + i].pos < events[s][a + j].pos
        BY <4>1 DEF StoreInv, StreamsAreSequences
      <4> QED
        BY <4>2
    <3>3. ASSUME NEW x \in P PROVE \E i \in 1..(n - a) : e[i] = x
      <4>1. PICK v \in (a + 1)..n : x = events[s][v].pos
        BY <2>b
      <4>2. v - a \in 1..(n - a) /\ a + (v - a) = v
        BY <2>0, SMTT(30), SMTT(60)
      <4>3. e[v - a] = x
        BY <4>1, <4>2
      <4> QED
        BY <4>2, <4>3
    <3> HIDE DEF e
    <3> QED
      BY <2>1, <2>2, <2>7, <3>1, <3>2, <3>3, ZenonT(60) DEF Enumerates
  <2>9. /\ Len(InOrder(P)) = n - a
        /\ DOMAIN InOrder(P) = 1..(n - a)
        /\ \A i \in 1..(n - a) : InOrder(P)[i] = e[i]
    <3>1. PICK k : k = n - a
      OBVIOUS
    <3>2. Enumerates(e, k, P, MaxPosition)
      BY <2>8, <3>1
    <3> HIDE DEF e
    <3>3. Len(InOrder(P)) = k
      BY <3>2, <1>InOrderIsFact
    <3>4. DOMAIN InOrder(P) = 1..k
      BY <3>2, <1>InOrderIsFact
    <3>5. \A i \in 1..k : InOrder(P)[i] = e[i]
      BY <3>2, <1>InOrderIsFact
    <3> QED
      BY <3>1, <3>3, <3>4, <3>5, ZenonT(60)
  <2>10. \A i \in 1..(n - a) : e[i] = events[s][a + i].pos
    OBVIOUS
  <2> HIDE DEF e
  <2> QED
    BY <2>a, <2>9, <2>10
\* A page folds the next versions of a stream, without a gap, into its entry:
\* those above the entry's version up to the page's last position.
<1>FoldedIs.
      ASSUME OrderingFacts, PIIKinds = {}, StoreInv, RebuildInv,
             NEW page, page = Page(rb.cursor), page # {}, NEW s \in Streams \ Foreign
      PROVE  /\ Folded(s, page) \in [version : Nat, state : Seq(Payload)]
             /\ IsHistory(s, Folded(s, page).version, Folded(s, page).state)
             /\ \A v \in Versions(s) :
                    events[s][v].pos <= Largest(page) <=> v <= Folded(s, page).version
  <2> USE <1>FoldedIs
  <2>1. PICK c \in Nat : c = rb.cursor
    BY DEF RebuildInv, RebuildOK
  <2>2. PICK e \in [version : Nat, state : Seq(Payload)] : e = rb.streams[s]
    <3>1. rb.streams \in [Streams -> [version : Nat, state : Seq(Payload)]]
      BY DEF RebuildInv, RebuildOK
    <3> QED
      BY <3>1
  <2>3. PICK a \in Nat, st \in Seq(Payload) : a = e.version /\ st = e.state
    OBVIOUS
  <2>4. /\ IsHistory(s, a, st)
        /\ \A v \in Versions(s) : events[s][v].pos <= c <=> v <= a
    BY <2>1, <2>2, <2>3 DEF RebuildInv, RebuildOK
  <2> DEFINE vs == {v \in Versions(s) : s \notin Foreign /\ events[s][v].pos \in page}
  <2>5. PICK d \in Nat : d = Largest(page) /\ c < d
    <3>1. /\ page \subseteq Committed /\ Largest(page) \in page
          /\ \A p \in page : c < p
      BY <2>1, PageFacts
    <3> QED
      BY <3>1, CommittedNat
  <2>6. ASSUME NEW v \in Versions(s) PROVE v \in vs <=> events[s][v].pos <= d /\ ~(v <= a)
    <3>1. PICK p \in Nat : p = events[s][v].pos /\ p \in Committed
      BY RowFacts
    <3>2. p \in page <=> c < p /\ p <= d
      BY <2>1, <2>5, <3>1, PageFacts
    <3>3. c < p <=> ~(p <= c)
      BY SMTT(30), SMTT(60)
    <3> QED
      BY <2>4, <3>1, <3>2, <3>3
  <2>7. PICK m \in {0} \cup Versions(s) : Versions(s) = 1..m
    BY DEF StoreInv
  <2>8. m \in Nat /\ \A v \in Versions(s) : v \in Nat \ {0} /\ events[s][v].pos \in Nat /\ v <= m
    <3>1. \A v \in Versions(s) : v \in Nat \ {0} /\ events[s][v].pos \in Nat
      BY RowFacts
    <3>2. m \in Nat
      BY <2>7, <3>1, SMTT(30), SMTT(60)
    <3> QED
      BY <2>7, <3>1, <3>2, SMTT(30), SMTT(60)
  <2>9. CASE vs = {}
    <3>1. Folded(s, page) = e
      BY <2>2, <2>9 DEF Folded
    <3>2. ASSUME NEW v \in Versions(s) PROVE events[s][v].pos <= d <=> v <= a
      <4>1. ~(events[s][v].pos <= d /\ ~(v <= a))
        BY <2>6, <2>9
      <4>2. v <= a => events[s][v].pos <= c
        BY <2>4
      <4> QED
        BY <2>5, <2>8, <4>1, <4>2, SMTT(30), SMTT(60)
    <3> QED
      BY <2>3, <2>4, <2>5, <3>1, <3>2
  <2>10. CASE vs # {}
    <3>1. PICK n : n = Largest(vs) /\ n \in vs /\ \A v \in vs : v <= n
      <4>1. vs \in SUBSET Nat /\ \A v \in vs : v <= m
        BY <2>8
      <4> HIDE DEF vs
      <4> QED
        BY <2>8, <2>10, <4>1, LargestFact, ZenonT(60)
    <3>2. n \in Versions(s) /\ n \in Nat /\ a < n /\ events[s][n].pos <= d
      <4>1. n \in Versions(s)
        BY <3>1
      <4>2. events[s][n].pos <= d /\ ~(n <= a)
        BY <2>6, <3>1, <4>1, ZenonT(60)
      <4> QED
        BY <2>8, <4>1, <4>2, SMTT(30), SMTT(60)
    <3>3. ASSUME NEW v \in Versions(s) PROVE events[s][v].pos <= d <=> v <= n
      <4>1. v < n => events[s][v].pos < events[s][n].pos
        BY <3>2 DEF StoreInv, StreamsAreSequences
      <4>2. events[s][v].pos <= d => v <= a \/ v <= n
        BY <2>6, <3>1
      <4>3. PICK x \in Nat, y \in Nat, u \in Nat, b \in Nat :
                x = events[s][v].pos /\ y = events[s][n].pos /\ u = v /\ b = n
        BY <2>8, <3>2
      <4>4. a < b /\ y <= d /\ (u = b => x = y)
        BY <3>2, <4>3
      <4>5. (u < b => x < y) /\ (x <= d => u <= a \/ u <= b)
        BY <4>1, <4>2, <4>3
      <4>6. x <= d <=> u <= b
        BY <2>5, <4>4, <4>5, SMTT(30), SMTT(60)
      <4> QED
        BY <4>3, <4>6
    <3>4. \A v : v \in vs <=> v \in (a + 1)..n
      <4>1. ASSUME NEW v \in vs PROVE v \in (a + 1)..n
        <5>1. v \in Versions(s) /\ v <= n
          BY <3>1
        <5>2. ~(v <= a)
          BY <2>6, <5>1
        <5> QED
          BY <2>8, <3>2, <5>1, <5>2, SMTT(30), SMTT(60)
      <4>2. ASSUME NEW v \in (a + 1)..n PROVE v \in vs
        <5>1. v \in 1..m /\ ~(v <= a) /\ v <= n
          BY <2>8, <3>2, SMTT(30), SMTT(60)
        <5>2. v \in Versions(s)
          BY <2>7, <5>1
        <5> QED
          BY <2>6, <3>3, <5>1, <5>2
      <4> QED
        BY <4>1, <4>2
    <3>5. vs = (a + 1)..n /\ \A v \in (a + 1)..n : v \in Versions(s)
      <4>1. \A v \in vs : v \in Versions(s)
        OBVIOUS
      <4> HIDE DEF vs
      <4> QED
        BY <3>4, <4>1
    <3> DEFINE order == InOrder({events[s][v].pos : v \in vs})
               at(p) == CHOOSE v \in vs : events[s][v].pos = p
               tail == [i \in DOMAIN order |-> Decode(events[s][at(order[i])].payload)]
    <3>6. /\ Len(order) = n - a /\ DOMAIN order = 1..(n - a)
          /\ \A i \in 1..(n - a) : order[i] = events[s][a + i].pos
      <4>1. PICK P : P = PositionsOf(s, a, n)
        OBVIOUS
      <4>2. P = {events[s][v].pos : v \in vs}
        BY <3>5, <4>1 DEF PositionsOf
      <4>3. IsRun(s, a, n)
        <5>1. a <= n
          BY <3>2, SMTT(30), SMTT(60)
        <5> QED
          BY <3>2, <3>5, <5>1 DEF IsRun
      <4> HIDE DEF vs
      <4>4. Len(InOrder(P)) = n - a
        BY <4>1, <4>3, <1>VersionsInOrder
      <4>5. DOMAIN InOrder(P) = 1..(n - a)
        BY <4>1, <4>3, <1>VersionsInOrder
      <4>6. \A i \in 1..(n - a) : InOrder(P)[i] = events[s][a + i].pos
        BY <4>1, <4>3, <1>VersionsInOrder, ZenonT(60)
      <4> QED
        BY <4>2, <4>4, <4>5, <4>6
    <3>7. ASSUME NEW i \in 1..(n - a) PROVE a + i \in vs /\ at(order[i]) = a + i
      <4>1. a + i \in vs
        <5>1. a + i \in (a + 1)..n
          BY <3>2, SMTT(30), SMTT(60)
        <5> QED
          BY <3>5, <5>1
      <4>2. order[i] = events[s][a + i].pos
        BY <3>6
      <4>3. ASSUME NEW v \in vs, events[s][v].pos = events[s][a + i].pos PROVE v = a + i
        <5>1. v \in Versions(s) /\ a + i \in Versions(s)
          BY <4>1
        <5> QED
          BY <4>3, <5>1 DEF StoreInv, PositionsUnique
      <4>4. at(order[i]) \in vs /\ events[s][at(order[i])].pos = order[i]
        BY <4>1, <4>2
      <4> HIDE DEF vs, order, at
      <4> QED
        BY <4>1, <4>2, <4>3, <4>4
    <3>8. /\ Folded(s, page).version = n
          /\ Folded(s, page).state = Evolve(st, tail)
          /\ Folded(s, page) = [version |-> Folded(s, page).version, state |-> Folded(s, page).state]
      <4>1. Folded(s, page) = [version |-> at(order[Len(order)]), state |-> Evolve(st, tail)]
        BY <2>2, <2>3, <2>10 DEF Folded
      <4>2. n - a \in 1..(n - a) /\ a + (n - a) = n
        BY <3>2, SMTT(30), SMTT(60)
      <4>3. at(order[Len(order)]) = n
        BY <3>6, <3>7, <4>2
      <4> HIDE DEF vs, order, at, tail
      <4> QED
        BY <4>1, <4>3, SMTT(30), SMTT(60)
    <3>9. tail \in Seq(Payload) /\ Len(tail) = n - a
          /\ \A i \in 1..(n - a) : events[s][a + i].payload = tail[i]
      <4>1. DOMAIN tail = 1..(n - a)
        BY <3>6
      <4>2. ASSUME NEW i \in 1..(n - a)
            PROVE  tail[i] = events[s][a + i].payload /\ tail[i] \in Payload
        <5>1. tail[i] = Decode(events[s][at(order[i])].payload)
          BY <3>6
        <5>2. Decode(events[s][a + i].payload) = events[s][a + i].payload
          BY DEF Decode
        <5>3. events[s][a + i].payload \in Payload
          <6>1. a + i \in Versions(s)
            BY <3>7
          <6>2. events[s][a + i] \in Row
            BY <6>1, ZenonT(60) DEF StoreInv, TypeOK
          <6> QED
            BY <6>2 DEF Row
        <5> HIDE DEF vs, order, at, tail
        <5> QED
          BY <3>7, <5>1, <5>2, <5>3
      <4>3. tail \in [1..(n - a) -> Payload]
        <5>1. tail = [i \in 1..(n - a) |-> Decode(events[s][at(order[i])].payload)]
          BY <3>6
        <5>2. \A i \in 1..(n - a) : Decode(events[s][at(order[i])].payload) \in Payload
          BY <4>2, <5>1
        <5> HIDE DEF vs, order, at, tail
        <5> QED
          BY <5>1, <5>2
      <4>4. n - a \in Nat
        BY <3>2, SMTT(30), SMTT(60)
      <4> HIDE DEF vs, order, at, tail
      <4> QED
        BY <4>2, <4>3, <4>4, SMTT(30), SMTT(60)
    <3>10. Evolve(st, tail) \in Seq(Payload) /\ IsHistory(s, n, Evolve(st, tail))
      <4>1. a <= n
        BY <3>2, SMTT(30), SMTT(60)
      <4>2. \A i \in 1..(n - a) : a + i \in Versions(s)
        BY <3>7
      <4> HIDE DEF vs, order, at, tail
      <4> QED
        BY <2>4, <3>2, <3>9, <4>1, <4>2, HistoryExtends, ZenonT(60)
    <3> HIDE DEF vs, order, at, tail
    <3>11. Folded(s, page) \in [version : Nat, state : Seq(Payload)]
      BY <3>2, <3>8, <3>10
    <3> QED
      BY <2>5, <3>3, <3>8, <3>10, <3>11
  <2> QED
    BY <2>9, <2>10
\* WipeStateCacheForType: the rows that are left were there before.
<1>WipeInv.
      ASSUME StoreInv, Wipe
      PROVE  StoreInv' /\ RebuildInv'
  <2> USE <1>WipeInv
  <2>1. UNCHANGED <<events, sequence, claims, lock, h, cursor, seen>>
    BY DEF Wipe
  <2>2. cache' = [s \in Streams |-> IF s \in Foreign THEN cache[s] ELSE NoRow]
    BY DEF Wipe
  <2>3. NoRow \in CacheRow
    BY SMTT(30), SMTT(60) DEF NoRow, CacheRow
  <2>4. cache' \in [Streams -> CacheRow]
    BY <2>2, <2>3 DEF StoreInv, TypeOK
  <2>5. ASSUME NEW s \in Streams, cache'[s] # NoRow
        PROVE  /\ IsHistory(s, cache'[s].version, cache'[s].state)
               /\ cache'[s].terminal = IsTerminal(cache'[s].state)
               /\ StampedRight(cache'[s])
    <3>1. cache'[s] = cache[s]
      BY <2>2, <2>5
    <3>2. cache[s] # NoRow
      BY <2>5, <3>1
    <3> QED
      BY <3>1, <3>2 DEF StoreInv, CacheIsFold
  <2>6. StoreInv'
    BY <2>1, <2>4, <2>5, <1>CacheStep
  <2>7. IsFresh(rb')
    BY DEF Wipe, RebuildIdle, IsFresh
  <2> QED
    BY <2>6, <2>7, FreshRebuildNext DEF IsFresh
\* RebuildStateCache returns: the next run starts afresh.
<1>RebuildReturnsInv.
      ASSUME StoreInv', RebuildReturns
      PROVE  RebuildInv'
  <2> USE <1>RebuildReturnsInv
  <2>1. IsFresh(rb')
    BY DEF RebuildReturns, RebuildIdle, IsFresh
  <2> QED
    BY <2>1, FreshRebuildNext DEF IsFresh
\* A page is folded, or the last one has been and the rows are due.
<1>ReadPageInv.
      ASSUME OrderingFacts, PIIKinds = {}, StoreInv, RebuildInv, ReadPage
      PROVE  RebuildInv'
  <2> USE <1>ReadPageInv
  <2>1. PICK r : r = rb
    OBVIOUS
  <2>2. r \in [pc : {"idle", "read", "write"}, cursor : Nat,
               streams : [Streams -> [version : Nat, state : Seq(Payload)]], todo : SUBSET Streams]
    BY <2>1 DEF RebuildInv, RebuildOK
  <2>3. UNCHANGED vars /\ events' = events /\ Committed' = Committed
    <3>1. UNCHANGED vars
      BY DEF ReadPage
    <3> QED
      BY <3>1 DEF vars, Committed, Versions
  <2>4. PICK page : page = Page(r.cursor)
    OBVIOUS
  <2>5. CASE page = {}
    <3>1. PICK q : q = rb'
      OBVIOUS
    <3>2. q = [r EXCEPT !.pc = "write", !.todo = {s \in Streams : r.streams[s] # Unfolded}]
      BY <2>1, <2>4, <2>5, <3>1 DEF ReadPage
    <3>3. /\ q.cursor = r.cursor /\ q.streams = r.streams
          /\ q.todo = {s \in Streams : r.streams[s] # Unfolded}
          /\ q \in [pc : {"idle", "read", "write"}, cursor : Nat,
                    streams : [Streams -> [version : Nat, state : Seq(Payload)]],
                    todo : SUBSET Streams]
      BY <2>2, <3>2, ZenonT(60)
    <3>4. q.pc = "write"
      BY <2>2, <3>2, ZenonT(60)
    <3>5. RebuildOK(r)
      BY <2>1 DEF RebuildInv
    <3>6. RebuildOK(q)
      BY <3>3, <3>4, <3>5, ZenonT(60) DEF RebuildOK
    <3> QED
      BY <2>3, <3>1, <3>6, <1>RebuildHolds
  <2>6. CASE page # {}
    <3>1. PICK q : q = rb'
      OBVIOUS
    <3>2. PICK d : d = Largest(page)
      OBVIOUS
    <3>3. q = [r EXCEPT !.cursor = d, !.streams = [s \in Streams |-> Folded(s, page)]]
      BY <2>1, <2>4, <2>6, <3>1, <3>2 DEF ReadPage
    <3>4. d \in Committed /\ d \in Nat
      <4>1. r.cursor \in Nat
        BY <2>2
      <4> QED
        BY <2>4, <2>6, <3>2, <4>1, PageFacts, CommittedNat
    <3>5. q.cursor = d /\ q.todo = r.todo /\ q.streams = [s \in Streams |-> Folded(s, page)]
          /\ q.pc = r.pc
          /\ q = [pc |-> q.pc, cursor |-> q.cursor, streams |-> q.streams, todo |-> q.todo]
      BY <2>2, <3>3, ZenonT(60)
    <3>6. ASSUME NEW s \in Streams \ Foreign
          PROVE  /\ Folded(s, page) \in [version : Nat, state : Seq(Payload)]
                 /\ IsHistory(s, Folded(s, page).version, Folded(s, page).state)
                 /\ \A v \in Versions(s) : events[s][v].pos <= d <=> v <= Folded(s, page).version
      BY <2>1, <2>4, <2>6, <3>2, <1>FoldedIs
    <3>7. ASSUME NEW s \in Foreign PROVE Folded(s, page) = r.streams[s]
      BY <2>1 DEF Folded
    <3>8. \A s \in Foreign : r.streams[s] = Unfolded
      BY <2>1 DEF RebuildInv, RebuildOK
    <3>9. \A s \in Streams : Folded(s, page) \in [version : Nat, state : Seq(Payload)]
      <4>1. r.streams \in [Streams -> [version : Nat, state : Seq(Payload)]]
        BY <2>2
      <4> QED
        BY <3>6, <3>7, <4>1, ZenonT(60)
    <3>10. \A s \in Streams : q.streams[s] = Folded(s, page)
      BY <3>5
    <3>11. q \in [pc : {"idle", "read", "write"}, cursor : Nat,
                  streams : [Streams -> [version : Nat, state : Seq(Payload)]], todo : SUBSET Streams]
      <4>1. q.streams \in [Streams -> [version : Nat, state : Seq(Payload)]]
        BY <3>5, <3>9
      <4>2. q.pc \in {"idle", "read", "write"} /\ q.todo \in SUBSET Streams
        BY <2>2, <3>5
      <4> QED
        BY <3>4, <3>5, <4>1, <4>2, ZenonT(60)
    <3>12. r.todo = {}
      BY <2>1 DEF ReadPage, RebuildInv, RebuildOK
    <3>13. ASSUME NEW s \in Streams \ Foreign
           PROVE  /\ IsHistory(s, q.streams[s].version, q.streams[s].state)
                  /\ \A v \in Versions(s) :
                         events[s][v].pos <= q.cursor <=> v <= q.streams[s].version
      BY <3>5, <3>6, <3>10
    <3>14. \A s \in Foreign : q.streams[s] = Unfolded
      BY <3>7, <3>8, <3>10, RebuildAssumption
    <3>15. \A s \in q.todo : q.streams[s] # Unfolded
      BY <3>5, <3>12
    <3>16. q.cursor \in Committed
      BY <3>4, <3>5
    <3>17. q.todo = {}
      BY <3>5, <3>12
    <3>18. RebuildOK(q)
      BY <3>11, <3>13, <3>14, <3>15, <3>16, <3>17 DEF RebuildOK
    <3> QED
      BY <2>3, <3>1, <3>18, <1>RebuildHolds
  <2> QED
    BY <2>5, <2>6
\* UpsertCachedState: the row written is the fold of a prefix of its stream.
<1>UpsertInv.
      ASSUME Recognised, StoreInv, RebuildInv, NEW s \in Streams, UpsertCachedState(s)
      PROVE  StoreInv' /\ RebuildInv'
  <2> USE <1>UpsertInv
  <2>1. UNCHANGED <<events, sequence, claims, lock, h, cursor, seen>>
    BY DEF UpsertCachedState
  <2>2. PICK r : r = rb /\ RebuildOK(r)
    BY DEF RebuildInv
  <2>3. PICK row : row = RebuiltRow(s)
    OBVIOUS
  <2>4. cache' = [cache EXCEPT ![s] = row] /\ s \in r.todo
    BY <2>2, <2>3 DEF UpsertCachedState
  <2>5. r \in [pc : {"idle", "read", "write"}, cursor : Nat,
               streams : [Streams -> [version : Nat, state : Seq(Payload)]], todo : SUBSET Streams]
    BY <2>2 DEF RebuildOK
  <2>6. s \notin Foreign
    BY <2>2, <2>4 DEF RebuildOK
  <2>7. PICK e \in [version : Nat, state : Seq(Payload)] :
            e = r.streams[s] /\ IsHistory(s, e.version, e.state)
    <3>1. r.streams \in [Streams -> [version : Nat, state : Seq(Payload)]]
      BY <2>5
    <3>2. IsHistory(s, r.streams[s].version, r.streams[s].state)
      BY <2>2, <2>6 DEF RebuildOK
    <3> QED
      BY <3>1, <3>2
  <2>8. row = [version |-> e.version, state |-> e.state, terminal |-> IsTerminal(e.state),
               schema |-> 1, enc |-> RebuildSchema]
    BY <2>2, <2>3, <2>7 DEF RebuiltRow
  <2>9. /\ row.version = e.version /\ row.state = e.state /\ row.terminal = IsTerminal(e.state)
        /\ row \in CacheRow /\ StampedRight(row)
    <3>1. IsTerminal(e.state) \in BOOLEAN
      BY DEF IsTerminal
    <3>2. row.version = e.version /\ row.state = e.state /\ row.terminal = IsTerminal(e.state)
      BY <2>8
    <3>3. e.version \in Nat /\ e.state \in Seq(Payload)
      BY <2>7
    <3>4. RebuildSchema \in Nat /\ 1 \in Nat
      BY RebuildAssumption
    <3>5. row \in CacheRow
      BY <2>8, <3>1, <3>3, <3>4 DEF CacheRow
    <3>6. row.schema = 1 /\ row.enc = RebuildSchema
      BY <2>8
    <3>7. StampedRight(row)
      BY <3>6 DEF Recognised, StampedRight
    <3> QED
      BY <3>2, <3>5, <3>7
  <2>10. cache \in [Streams -> CacheRow]
    BY DEF StoreInv, TypeOK
  <2>11. cache' \in [Streams -> CacheRow] /\ cache'[s] = row
         /\ \A t \in Streams : t # s => cache'[t] = cache[t]
    BY <2>4, <2>9, <2>10
  <2>12. ASSUME NEW t \in Streams, cache'[t] # NoRow
         PROVE  /\ IsHistory(t, cache'[t].version, cache'[t].state)
                /\ cache'[t].terminal = IsTerminal(cache'[t].state)
                /\ StampedRight(cache'[t])
    <3>1. CASE t = s
      BY <2>7, <2>9, <2>11, <3>1
    <3>2. CASE t # s
      <4>1. cache'[t] = cache[t] /\ cache[t] # NoRow
        BY <2>11, <2>12, <3>2
      <4> QED
        BY <4>1 DEF StoreInv, CacheIsFold
    <3> QED
      BY <3>1, <3>2
  <2>13. StoreInv'
    BY <2>1, <2>11, <2>12, <1>CacheStep
  <2>14. RebuildInv'
    <3>1. PICK q : q = rb'
      OBVIOUS
    <3>2. q = [r EXCEPT !.todo = @ \ {s}] /\ r.pc = "write"
      BY <2>2, <3>1 DEF UpsertCachedState
    <3>3. q.pc = r.pc /\ q.cursor = r.cursor /\ q.streams = r.streams /\ q.todo = r.todo \ {s}
      BY <2>5, <3>2, ZenonT(60)
    <3>4. q \in [pc : {"idle", "read", "write"}, cursor : Nat,
                 streams : [Streams -> [version : Nat, state : Seq(Payload)]],
                 todo : SUBSET Streams]
      BY <2>5, <3>2
    <3>5. RebuildOK(q)
      BY <2>2, <3>2, <3>3, <3>4, ZenonT(60) DEF RebuildOK
    <3> QED
      BY <2>1, <3>1, <3>5, <1>RebuildHolds
  <2> QED
    BY <2>13, <2>14
\* The step itself.
<1> SUFFICES ASSUME OrderingFacts, PIIKinds = {}, Recognised, StoreInv, RebuildInv,
                    [RebuildNext]_allVars
             PROVE  StoreInv' /\ RebuildInv'
  OBVIOUS
<1>1. CASE [Next]_vars /\ rb' = rb
  <2>1. StoreInv'
    BY <1>1, NextInv
  <2> QED
    BY <1>1, <2>1, <1>StoreStepRebuild
<1>2. CASE Wipe
  BY <1>2, <1>WipeInv
<1>3. ASSUME UNCHANGED vars PROVE StoreInv'
  BY <1>3, NextInv
<1>4. CASE ReadPage
  <2>1. UNCHANGED vars
    BY <1>4 DEF ReadPage
  <2> QED
    BY <1>3, <1>4, <2>1, <1>ReadPageInv
<1>5. ASSUME NEW s \in Streams, UpsertCachedState(s) PROVE StoreInv' /\ RebuildInv'
  BY <1>5, <1>UpsertInv
<1>6. CASE RebuildReturns
  <2>1. UNCHANGED vars
    BY <1>6 DEF RebuildReturns
  <2> QED
    BY <1>3, <1>6, <2>1, <1>RebuildReturnsInv
<1>7. \/ [Next]_vars /\ rb' = rb
      \/ RebuildStep
  BY DEF RebuildNext, allVars
<1> QED
  BY <1>1, <1>2, <1>4, <1>5, <1>6, <1>7 DEF RebuildStep

-------------------------------------------------------------------------------
(* The theorems *)

INSTANCE OrderingProofs

\* The inductive invariant holds in every reachable state of the store.
THEOREM StoreInvariant == Spec => []StoreInv
<1>1. StoreInv /\ [Next]_vars => StoreInv'
  BY OrderingHolds, NextInv
<1> QED
  BY <1>1, InitInv, PTL DEF Spec

\* Type correctness of the tables, cursors and local variables.
THEOREM TypeCorrect == Spec => []TypeOK
<1>1. StoreInv => TypeOK
  BY ZenonT(60) DEF StoreInv
<1> QED
  BY <1>1, StoreInvariant, PTL

\* Optimistic concurrency leaves no hole in a stream, and a stream's global
\* positions grow with its versions, for any number of writers.
THEOREM StreamsStaySequences == Spec => []StreamsAreSequences
<1>1. StoreInv => StreamsAreSequences
  BY ZenonT(60) DEF StoreInv
<1> QED
  BY <1>1, StoreInvariant, PTL

\* Global positions are unique across the whole store.
THEOREM PositionsStayUnique == Spec => []PositionsUnique
<1>1. StoreInv => PositionsUnique
  BY ZenonT(60) DEF StoreInv
<1> QED
  BY <1>1, StoreInvariant, PTL

\* The advisory lock makes paging by global position lossless.
THEOREM FollowersNeverSkip == Spec => []NoSkip
<1>1. StoreInv => NoSkip
  BY ZenonT(60) DEF StoreInv
<1> QED
  BY <1>1, StoreInvariant, PTL

\* The state_cache row is always the fold of the events up to its version, and
\* its schema column never lets a runtime misread its bytes.
THEOREM CacheStaysFold == Spec => []CacheIsFold
<1>1. StoreInv => CacheIsFold
  BY ZenonT(60) DEF StoreInv
<1> QED
  BY <1>1, StoreInvariant, PTL

\* Handle decides only on states its stream really had.
THEOREM LoadReturnsHistory == Spec => []LoadedIsHistory
<1>1. StoreInv => LoadedIsHistory
  BY ZenonT(60) DEF StoreInv, CallOK, LoadedIsHistory
<1> QED
  BY <1>1, StoreInvariant, PTL

\* A terminal stream stays closed.
THEOREM ClosedStaysFinal == Spec => []ClosedIsFinal
<1>1. StoreInv => ClosedIsFinal
  BY DEF StoreInv
<1> QED
  BY <1>1, StoreInvariant, PTL

\* No step changes or removes a committed event.
THEOREM EventsAppendOnly == Spec => AppendOnly
<1> DEFINE Kept == \A s \in Streams : \A v \in Versions(s) :
                       v \in DOMAIN events'[s] /\ events'[s][v] = events[s][v]
<1>1. StoreInv /\ [Next]_vars => [Kept]_vars
  BY StepKeepsEvents
<1> HIDE DEF Kept
<1>2. Spec => [][Kept]_vars
  BY <1>1, StoreInvariant, PTL DEF Spec
<1> QED
  BY <1>2 DEF AppendOnly, Kept

\* The gap-free guarantee: what becomes visible lies above all that was visible.
THEOREM EventsAppearInOrder == Spec => VisibleInOrder
<1> DEFINE Above == \A p \in Committed' \ Committed : \A q \in Committed : q < p
<1>1. StoreInv /\ [Next]_vars => [Above]_vars
  BY StepAppearsAbove, ZenonT(60)
<1> HIDE DEF Above
<1>2. Spec => [][Above]_vars
  BY <1>1, StoreInvariant, PTL DEF Spec
<1> QED
  BY <1>2 DEF VisibleInOrder, Above

\* The hash chains of the committed rows and of the staged ones stay linked.
LEMMA ChainInvariant == Spec => [](StoreInv /\ ChainInv)
<1>1. Init => ChainInv
  BY InitChain
<1>2. StoreInv /\ ChainInv /\ [Next]_vars => ChainInv'
  BY NextChain
<1> QED
  BY <1>1, <1>2, StoreInvariant, PTL DEF Spec

\* es.VerifyStreamChain succeeds on every stream at every moment, for any
\* number of writers that race, fail half-way and roll back.
THEOREM ChainsStayIntact == Spec => []ChainIntact
<1>1. StoreInv /\ ChainInv => ChainIntact
  BY LinkedIntact
<1> QED
  BY <1>1, ChainInvariant, PTL

\* What a writer holds about claims agrees with the history in every state.
LEMMA ClaimsInvariant == Spec => [](StoreInv /\ ClaimsInv)
<1>1. StoreInv /\ ClaimsInv /\ [Next]_vars => ClaimsInv'
  BY OrderingHolds, NextClaims
<1> QED
  BY <1>1, InitClaims, StoreInvariant, PTL DEF Spec

\* unique_claims agrees with the event history in every reachable state: the
\* constraint operations of a batch and its events commit together, although
\* ReleaseUnique deletes a key whoever owns it.
THEOREM ClaimsAreHistory == Spec => []ClaimsMatchHistory
<1>1. ClaimsInv => ClaimsMatchHistory
  BY DEF ClaimsInv
<1> QED
  BY <1>1, ClaimsInvariant, PTL

\* A follower has seen exactly what is committed up to its cursor.
LEMMA SeenInvariant == Spec => []SeenInv
<1>1. Init => SeenInv
  BY InitSeen
<1>2. StoreInv /\ SeenInv /\ [Next]_vars => SeenInv'
  BY OrderingHolds, NextSeen
<1> QED
  BY <1>1, <1>2, StoreInvariant, PTL DEF Spec

\* The store implements the log: although commands load, decide and append in
\* separate transactions that interleave and fail at any statement, what its
\* users see is one command at a time on the current state of its stream, one
\* growing log, and followers that hold prefixes of it.
THEOREM StoreImplementsLog == Spec => ImplementsLog
<1> DEFINE A == UNCHANGED <<events, claims, seen>> \/ Log!Next
<1>1. StoreInv /\ ClaimsInv /\ SeenInv /\ [Next]_vars => [A]_(Log!vars)
  BY OrderingHolds, StepImplements
<1>2. Spec => Log!Init
  BY OrderingHolds, InitImplements DEF Spec
<1>3. Spec => [][A]_(Log!vars)
  <2> HIDE DEF A
  <2> QED
    BY <1>1, ClaimsInvariant, SeenInvariant, PTL DEF Spec
<1> QED
  BY <1>2, <1>3 DEF ImplementsLog

\* The store's invariant and the rebuild's hold together while both run.
LEMMA RebuildInvariant ==
    ASSUME PIIKinds = {}, Recognised
    PROVE  RebuildSpec => [](StoreInv /\ RebuildInv)
<1>1. RebuildInit => StoreInv /\ RebuildInv
  BY InitRebuild
<1>2. StoreInv /\ RebuildInv /\ [RebuildNext]_allVars => (StoreInv /\ RebuildInv)'
  <2>1. StoreInv /\ RebuildInv /\ [RebuildNext]_allVars => StoreInv' /\ RebuildInv'
    BY OrderingHolds, NextRebuild
  <2> QED
    BY <2>1
<1> QED
  BY <1>1, <1>2, PTL DEF RebuildSpec

\* RebuildStateCache beside any writers: where no payload is encrypted and the
\* stamp 1 is right, what it has folded of a stream is exactly the events up to
\* its cursor.
THEOREM RebuildFoldsAPrefix ==
    ASSUME PIIKinds = {}, Recognised
    PROVE  RebuildSpec => []RebuildFoldsPrefix
<1>1. RebuildInv => RebuildFoldsPrefix
  BY DEF RebuildInv, RebuildOK, RebuildFoldsPrefix
<1> QED
  BY <1>1, RebuildInvariant, PTL

\* Under the same conditions no rebuild makes Handle decide on a state its stream
\* never had: the rows it writes, older than the head or not, decode to folds of
\* true prefixes for every runtime that takes them.
THEOREM RebuildKeepsHistory ==
    ASSUME PIIKinds = {}, Recognised
    PROVE  RebuildSpec => []LoadedIsHistory
<1>1. StoreInv => LoadedIsHistory
  BY DEF StoreInv, CallOK, LoadedIsHistory
<1> QED
  BY <1>1, RebuildInvariant, PTL

===============================================================================
