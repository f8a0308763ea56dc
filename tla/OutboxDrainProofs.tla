-------------------------- MODULE OutboxDrainProofs --------------------------
(***************************************************************************)
(* Proofs about OutboxDrain, for any number of drains, shards, streams and *)
(* events.                                                                 *)
(*                                                                         *)
(* NothingLost needs nothing of the deployment.  The order of deliveries   *)
(* does: a drain decides from rows and a quarantine set it read earlier,   *)
(* which stay right only while no other drain works on its shard.          *)
(***************************************************************************)
EXTENDS OutboxDrain, Integers, TLAPS

USE Zenon

\* What makes a drain the only one of its shard: the lock, or (as docs on
\* sharding put it) one drain per shard.
OneDrainPerShard ==
    \A c \in Configs : c.locking \/ (c.sharded /\ \A d, e \in Drains : DrainShard[d] = DrainShard[e] => d = e)

\* In skip mode an OnDLQ call that a crash or an error cut off is not repeated.
SkipsUndisturbed == conf.autoResume => conf.faults \subseteq {"operator"}

\* The row at p is of the shard that drain d works on.
InShard(d, p) == StreamShard(log[p]) = Shard(d)

\* What excuses an event from coming before a later one of its stream.
Excused == delivered \cup abandoned \cup (IF conf.autoResume THEN alerted ELSE {})

-------------------------------------------------------------------------------
(* The inductive invariants *)

\* A row of a batch is no older than the last thing that happened to its stream.
Fresh(d, b) == InShard(d, b.pos) => Pending(b.pos) \/ b.pos \in abandoned
\* A row in the batch of d that is not of a halted stream has no earlier row to wait
\* for.
Clear(d, b) ==
    SkipsUndisturbed /\ InShard(d, b.pos) /\ log[b.pos] \notin run[d].halted => Earlier(b.pos) \subseteq Excused
\* No other drain counted an attempt on a row in the batch of d.
Counted(d, b) == InShard(d, b.pos) => outbox[b.pos].attempts <= b.attempts

\* The first row of the batch was offered to the publisher.
InHand(d) == run[d].pc \in {"published", "failed", "marked"}

\* The rows still to do are rows of the outbox in increasing order; the one in
\* hand was not skipped, and was delivered if it is about to be marked so.
BatchInv(d) ==
    LET batch == run[d].batch
    IN  /\ \A i \in 1..Len(batch) : batch[i].pos \in Positions
        /\ \A i, j \in 1..Len(batch) : i < j => batch[i].pos < batch[j].pos
        /\ InHand(d) => batch # <<>> /\ ~Skipped(d)
        /\ run[d].pc = "published" => Current(d).pos \in delivered

\* A row as a batch holds it.
RowRead == [pos : 1..MaxEvents, attempts : Nat]

\* Row b is in the batch of d.
InBatch(d, b) == \E i \in 1..Len(run[d].batch) : run[d].batch[i] = b
\* Of those, the rows that are not marked yet.
Waiting(d, b) == \E i \in 1..Len(run[d].batch) : run[d].batch[i] = b /\ ~(i = 1 /\ run[d].pc = "marked")

\* What holds of the rows in a batch: see Fresh, Clear and Counted.
FreshInv(d) ==
    \A b \in RowRead : /\ InBatch(d, b) => Fresh(d, b) /\ Clear(d, b)
                       /\ Waiting(d, b) => Counted(d, b)

\* A drain that has not begun has no batch.
QuietInv(d) == run[d].pc \in {"idle", "start"} => run[d].batch = <<>>

\* A drain past its quarantine query knows of every dead row of its shard.
HaltInv(d) ==
    ~conf.autoResume /\ run[d].pc \notin {"idle", "start"} =>
        \A q \in Positions : InDLQ(q) /\ InShard(d, q) =>
            log[q] \in run[d].halted \/ (run[d].pc = "marked" /\ q = Current(d).pos)

\* In skip mode a dead row was announced, or is about to be.
AlertInv ==
    conf.autoResume /\ SkipsUndisturbed =>
        \A q \in Positions : InDLQ(q) =>
            \/ q \in alerted
            \/ \E d \in Drains : run[d].pc = "marked" /\ Current(d).pos = q

\* A row that was just marked failed and is dead crossed the limit in this pass.
CrossInv(d) == run[d].pc = "marked" /\ InDLQ(Current(d).pos) => CrossedDLQ(d)

\* A running drain holds the lock of its shard.
LockInv == conf.locking => \A d \in Drains : run[d].pc # "idle" => lock[Shard(d)] = d

\* ORDER BY over some positions: a fact about constants, that OrderFactsHold at
\* the end derives from OrderingProofs.  It is carried along in RowsInv, so that
\* the facts about finite sets stay out of the proofs in between.
OrderFacts ==
    \A S \in SUBSET (1..MaxEvents) :
        /\ Cardinality(S) \in Nat
        /\ InOrder(S) \in Seq(S) /\ Len(InOrder(S)) = Cardinality(S)
        /\ \A i, j \in 1..Cardinality(S) : i < j => InOrder(S)[i] < InOrder(S)[j]

\* The inductive invariant of NothingLost: rows and batches.
RowsInv ==
    /\ TypeOK
    /\ OrderFacts
    /\ conf \in Configs
    /\ NothingLost
    /\ \A d \in Drains : BatchInv(d)

\* What each drain knows of its batch.
DrainInv == \A d \in Drains : QuietInv(d) /\ FreshInv(d) /\ HaltInv(d) /\ CrossInv(d)

\* A delivered row comes after the earlier rows of its stream, unless they are
\* excused.
OrderInv == SkipsUndisturbed => \A p \in delivered : Earlier(p) \subseteq Excused

\* The inductive invariant of the drains.
Inv == RowsInv /\ LockInv /\ DrainInv /\ AlertInv /\ OrderInv

-------------------------------------------------------------------------------
(* What a step does to the shared state *)

\* One row of a table changes.
LEMMA RowUpdated ==
    ASSUME NEW R, NEW rows \in Seq(R), NEW p \in 1..Len(rows), NEW row \in R
    PROVE  LET new == [rows EXCEPT ![p] = row]
           IN  /\ new \in Seq(R) /\ Len(new) = Len(rows)
               /\ \A q \in 1..Len(rows) : new[q] = IF q = p THEN row ELSE rows[q]
  BY SMTT(30), SMTT(60)

\* A row changes otherwise than by being marked.
Mild(p) ==
    /\ outbox'[p].published => outbox[p].published \/ p \in abandoned'
    /\ outbox[p].published => outbox'[p].published
    /\ outbox'[p].deleted => outbox[p].deleted \/ outbox[p].published
    /\ outbox'[p].attempts <= outbox[p].attempts

\* A step of the drain d marks the row it has in hand.
MarkedOne(d, p) ==
    /\ p = Current(d).pos
    /\ outbox[p].deleted = outbox'[p].deleted
    /\ \/ MarkOutboxPublished(d) /\ outbox'[p].published /\ outbox'[p].attempts = outbox[p].attempts
       \/ /\ MarkOutboxFailed(d)
          /\ outbox'[p].published = outbox[p].published
          /\ outbox'[p].attempts = outbox[p].attempts + 1

\* Logs and sets only grow, and rows are new, marked or changed mildly.
SharedStep ==
    /\ conf' = conf
    /\ log' \in Seq(Streams) /\ Len(log') <= MaxEvents
    /\ Positions \subseteq Positions' /\ \A p \in Positions : log'[p] = log[p]
    /\ outbox' \in Seq(RowType) /\ Len(outbox') = Len(log')
    /\ \A p \in Positions' \ Positions : outbox'[p] = NewRow
    /\ \A p \in Positions : Mild(p) \/ \E d \in Drains : MarkedOne(d, p)
    /\ delivered \subseteq delivered' /\ abandoned \subseteq abandoned' /\ alerted \subseteq alerted'

\* The types of the log and the outbox.
LEMMA SharedTypes ==
    ASSUME TypeOK
    PROVE  /\ conf \in Config
           /\ log \in Seq(Streams) /\ Len(log) \in Nat /\ Len(log) <= MaxEvents /\ MaxEvents \in Nat
           /\ outbox \in Seq(RowType) /\ Len(outbox) = Len(log)
           /\ Positions = 1..Len(log)
           /\ \A p \in Positions : log[p] \in Streams /\ p \in Nat
           /\ \A p \in Positions :
                  /\ outbox[p] \in RowType
                  /\ outbox[p].published \in BOOLEAN /\ outbox[p].deleted \in BOOLEAN
                  /\ outbox[p].attempts \in Nat
<1>1. /\ conf \in Config
      /\ log \in Seq(Streams) /\ Len(log) \in Nat /\ Len(log) <= MaxEvents /\ MaxEvents \in Nat
      /\ outbox \in Seq(RowType) /\ Len(outbox) = Len(log)
      /\ Positions = 1..Len(log)
  BY OutboxAssumption, SMTT(30), SMTT(60) DEF TypeOK, Positions
<1>2. \A p \in Positions : log[p] \in Streams /\ p \in Nat
  BY <1>1, SMTT(30), SMTT(60)
<1>3. \A p \in Positions : outbox[p] \in RowType
  BY <1>1, SMTT(30), SMTT(60)
<1>4. \A r \in RowType : r.published \in BOOLEAN /\ r.deleted \in BOOLEAN /\ r.attempts \in Nat
  BY DEF RowType
<1> QED
  BY <1>1, <1>2, <1>3, <1>4

\* A step that marks rows leaves the rest of the log and the outbox alone.
LEMMA LogKept ==
    ASSUME TypeOK, log' = log, conf' = conf, outbox' \in Seq(RowType), Len(outbox') = Len(outbox),
           \A p \in Positions : Mild(p) \/ \E d \in Drains : MarkedOne(d, p),
           delivered \subseteq delivered', abandoned \subseteq abandoned', alerted \subseteq alerted'
    PROVE  SharedStep
<1>1. Positions' = Positions
  BY DEF Positions
<1> QED
  BY <1>1, SharedTypes DEF SharedStep

\* A step that marks none.
LEMMA OutboxKept ==
    ASSUME TypeOK, log' = log, conf' = conf, outbox' = outbox,
           delivered \subseteq delivered', abandoned \subseteq abandoned', alerted \subseteq alerted'
    PROVE  SharedStep
<1>1. \A p \in Positions : Mild(p)
  BY SharedTypes, SMTT(30), SMTT(60) DEF Mild
<1> QED
  BY <1>1, SharedTypes, LogKept

\* A step that changes one row.
LEMMA OneRow ==
    ASSUME TypeOK, NEW p \in Positions, NEW row \in RowType, outbox' = [outbox EXCEPT ![p] = row],
           log' = log, conf' = conf, Mild(p) \/ \E d \in Drains : MarkedOne(d, p),
           delivered \subseteq delivered', abandoned \subseteq abandoned', alerted \subseteq alerted'
    PROVE  SharedStep /\ outbox'[p] = row /\ \A q \in Positions \ {p} : outbox'[q] = outbox[q]
<1>1. /\ outbox' \in Seq(RowType) /\ Len(outbox') = Len(outbox)
      /\ \A q \in Positions : outbox'[q] = IF q = p THEN row ELSE outbox[q]
  BY SharedTypes, RowUpdated, SMTT(30), SMTT(60)
<1>2. \A q \in Positions : q # p => Mild(q)
  BY <1>1, SharedTypes, SMTT(30), SMTT(60) DEF Mild
<1> QED
  BY <1>1, <1>2, SharedTypes, LogKept

\* An append of an event adds a row.
LEMMA AppendShares ==
    ASSUME TypeOK, NEW s \in Streams, AppendEvent(s)
    PROVE  SharedStep
<1>0. /\ log \in Seq(Streams) /\ outbox \in Seq(RowType) /\ Len(outbox) = Len(log) /\ Len(log) \in Nat
      /\ Positions = 1..Len(log)
  BY SharedTypes
<1>1. log' = Append(log, s) /\ outbox' = Append(outbox, NewRow) /\ Len(log) < MaxEvents
  <2>1. Len(log) < conf.events /\ conf.events \in 0..MaxEvents
    BY DEF AppendEvent, TypeOK, Config
  <2>2. Len(log) < MaxEvents
    BY <1>0, <2>1, OutboxAssumption, SMTT(30), SMTT(60)
  <2> QED
    BY <2>2 DEF AppendEvent
<1>2. NewRow \in RowType
  BY DEF NewRow, RowType
<1>3. /\ log' \in Seq(Streams) /\ Len(log') = Len(log) + 1
      /\ outbox' \in Seq(RowType) /\ Len(outbox') = Len(log) + 1
      /\ \A p \in 1..Len(log) : log'[p] = log[p] /\ outbox'[p] = outbox[p]
      /\ outbox'[Len(log) + 1] = NewRow
  BY <1>0, <1>1, <1>2, SMTT(30), SMTT(60)
<1>4. \A p \in Positions : Mild(p)
  BY <1>0, <1>3, SharedTypes, SMTT(30), SMTT(60) DEF Mild
<1>5. Positions' = 1..(Len(log) + 1)
  BY <1>3 DEF Positions
<1>6. Positions \subseteq Positions' /\ \A p \in Positions' \ Positions : p = Len(log) + 1
  BY <1>0, <1>5, SMTT(30), SMTT(60)
<1>7. Len(log') <= MaxEvents
  BY <1>1, <1>3, SharedTypes, SMTT(30), SMTT(60)
<1> QED
  BY <1>0, <1>3, <1>4, <1>6, <1>7 DEF AppendEvent, SharedStep

\* A row in hand is a row of the outbox.
LEMMA HandType ==
    ASSUME RowsInv, NEW d \in Drains, run[d].batch # <<>>
    PROVE  /\ run[d] \in RunType /\ run[d].batch \in Seq([pos : 1..MaxEvents, attempts : Nat])
           /\ Len(run[d].batch) \in Nat \ {0}
           /\ Current(d) = run[d].batch[1] /\ Current(d).pos \in Positions /\ Current(d).attempts \in Nat
<1>1. run[d] \in RunType /\ run[d].batch \in Seq([pos : 1..MaxEvents, attempts : Nat])
  BY DEF RowsInv, TypeOK, RunType
<1>2. Current(d) = run[d].batch[1] /\ Len(run[d].batch) \in Nat \ {0}
  BY <1>1, SMTT(30), SMTT(60) DEF Current
<1>3. run[d].batch[1].pos \in Positions
  BY <1>2, SMTT(30), SMTT(60) DEF RowsInv, BatchInv
<1>4. run[d].batch[1] \in [pos : 1..MaxEvents, attempts : Nat]
  <2> DEFINE R == [pos : 1..MaxEvents, attempts : Nat]
  <2>1. run[d].batch \in Seq(R)
    BY <1>1
  <2> HIDE DEF R
  <2>2. run[d].batch[1] \in R
    BY <1>2, <2>1, SMTT(30), SMTT(60)
  <2> QED
    BY <2>2 DEF R
<1> QED
  BY <1>1, <1>2, <1>3, <1>4

\* What each statement does to a row.
LEMMA RowChanges ==
    ASSUME NEW r \in RowType
    PROVE  /\ LET new == [r EXCEPT !.published = TRUE]
              IN  new \in RowType /\ new.published /\ new.deleted = r.deleted /\ new.attempts = r.attempts
           /\ LET new == [r EXCEPT !.cooling = FALSE]
              IN  /\ new \in RowType /\ new.published = r.published /\ new.deleted = r.deleted
                  /\ new.attempts = r.attempts
           /\ LET new == Replayed(r)
              IN  new \in RowType /\ new.published = r.published /\ new.deleted = r.deleted /\ new.attempts = 0
           /\ \A b \in BOOLEAN : LET new == [r EXCEPT !.deleted = @ \/ b]
                                IN  /\ new \in RowType /\ new.published = r.published
                                    /\ new.deleted <=> r.deleted \/ b
                                    /\ new.attempts = r.attempts
           /\ conf \in Config => LET new == FailedRow(r)
                                IN  /\ new \in RowType /\ new.published = r.published /\ new.deleted = r.deleted
                                    /\ new.attempts = r.attempts + 1
<1>1. r.published \in BOOLEAN /\ r.deleted \in BOOLEAN /\ r.attempts \in Nat /\ r.cooling \in BOOLEAN
  BY DEF RowType
<1>2. LET new == [r EXCEPT !.published = TRUE]
      IN  new \in RowType /\ new.published /\ new.deleted = r.deleted /\ new.attempts = r.attempts
  BY DEF RowType
<1>3. LET new == [r EXCEPT !.cooling = FALSE]
      IN  /\ new \in RowType /\ new.published = r.published /\ new.deleted = r.deleted
          /\ new.attempts = r.attempts
  BY DEF RowType
<1>4. LET new == Replayed(r)
      IN  new \in RowType /\ new.published = r.published /\ new.deleted = r.deleted /\ new.attempts = 0
  BY DEF RowType, Replayed
<1>5. ASSUME NEW b \in BOOLEAN
      PROVE  LET new == [r EXCEPT !.deleted = @ \/ b]
             IN  /\ new \in RowType /\ new.published = r.published
                 /\ new.deleted <=> r.deleted \/ b
                 /\ new.attempts = r.attempts
  BY DEF RowType
<1>6. ASSUME conf \in Config
      PROVE  LET new == FailedRow(r)
             IN  /\ new \in RowType /\ new.published = r.published /\ new.deleted = r.deleted
                 /\ new.attempts = r.attempts + 1
  <2>1. conf.backoff \in BOOLEAN /\ r.attempts + 1 \in Nat
    BY <1>1, <1>6, SMTT(30), SMTT(60) DEF Config
  <2> QED
    BY <2>1 DEF RowType, FailedRow
<1> QED
  BY <1>2, <1>3, <1>4, <1>5, <1>6

\* A drain marks the row in its hand.
LEMMA MarkShares ==
    ASSUME RowsInv, NEW d \in Drains, MarkOutboxPublished(d) \/ MarkOutboxFailed(d)
    PROVE  /\ SharedStep
           /\ Current(d).pos \in Positions /\ MarkedOne(d, Current(d).pos)
           /\ \A q \in Positions \ {Current(d).pos} : outbox'[q] = outbox[q]
<1>0. TypeOK /\ run[d].batch # <<>> /\ Current(d).pos \in Positions
  <2>1. InHand(d)
    BY DEF InHand, MarkOutboxPublished, MarkOutboxFailed
  <2> QED
    BY <2>1, HandType DEF RowsInv, BatchInv
<1> DEFINE p == Current(d).pos
<1>1. outbox[p] \in RowType
  BY <1>0, SharedTypes
<1>2. CASE MarkOutboxPublished(d)
  <2> DEFINE row == [outbox[p] EXCEPT !.published = TRUE]
  <2>1. row \in RowType /\ row.published /\ row.deleted = outbox[p].deleted /\ row.attempts = outbox[p].attempts
    BY <1>1, RowChanges
  <2>2. outbox' = [outbox EXCEPT ![p] = row]
    BY <1>2 DEF MarkOutboxPublished
  <2>3. outbox'[p] = row
    <3> HIDE DEF row
    <3> QED
      BY <1>0, <2>1, <2>2, SharedTypes, RowUpdated, SMTT(30), SMTT(60)
  <2>4. MarkedOne(d, p)
    BY <1>2, <2>1, <2>3 DEF MarkedOne
  <2>5. UNCHANGED <<log, conf, delivered, abandoned, alerted>>
    BY <1>2 DEF MarkOutboxPublished
  <2> HIDE DEF p, row
  <2> QED
    BY <1>0, <2>1, <2>2, <2>4, <2>5, OneRow DEF p
<1>3. CASE MarkOutboxFailed(d)
  <2> DEFINE row == FailedRow(outbox[p])
  <2>1. /\ row \in RowType /\ row.published = outbox[p].published /\ row.deleted = outbox[p].deleted
        /\ row.attempts = outbox[p].attempts + 1
    BY <1>0, <1>1, SharedTypes, RowChanges
  <2>2. outbox' = [outbox EXCEPT ![p] = row]
    BY <1>3 DEF MarkOutboxFailed
  <2>3. outbox'[p] = row
    <3> HIDE DEF row
    <3> QED
      BY <1>0, <2>1, <2>2, SharedTypes, RowUpdated, SMTT(30), SMTT(60)
  <2>4. MarkedOne(d, p)
    BY <1>3, <2>1, <2>3 DEF MarkedOne
  <2>5. UNCHANGED <<log, conf, delivered, abandoned, alerted>>
    BY <1>3 DEF MarkOutboxFailed
  <2> HIDE DEF p, row
  <2> QED
    BY <1>0, <2>1, <2>2, <2>4, <2>5, OneRow DEF p
<1> QED
  BY <1>2, <1>3

\* Operators and the clock change rows mildly.
LEMMA RowShares ==
    ASSUME TypeOK, NEW p \in Positions, BackoffExpires(p) \/ ReplayDLQ(p) \/ AbandonDLQ(p)
    PROVE  SharedStep /\ \A q \in Positions : Mild(q)
<1>0. outbox[p] \in RowType /\ \A q \in Positions : outbox[q].attempts \in Nat
  BY SharedTypes
<1>1. PICK row \in RowType :
          /\ outbox' = [outbox EXCEPT ![p] = row]
          /\ row.published => outbox[p].published \/ p \in abandoned'
          /\ outbox[p].published => row.published
          /\ row.deleted => outbox[p].deleted
          /\ row.attempts <= outbox[p].attempts
  <2>1. CASE BackoffExpires(p)
    <3> DEFINE row == [outbox[p] EXCEPT !.cooling = FALSE]
    <3>1. outbox' = [outbox EXCEPT ![p] = row]
      BY <2>1 DEF BackoffExpires
    <3>2. /\ row \in RowType /\ row.published = outbox[p].published /\ row.deleted = outbox[p].deleted
          /\ row.attempts = outbox[p].attempts
      BY <1>0, RowChanges
    <3> HIDE DEF row
    <3>3. row.attempts <= outbox[p].attempts
      BY <1>0, <3>2, SMTT(30), SMTT(60)
    <3> QED
      BY <3>1, <3>2, <3>3
  <2>2. CASE ReplayDLQ(p)
    <3> DEFINE row == Replayed(outbox[p])
    <3>1. outbox' = [outbox EXCEPT ![p] = row]
      BY <2>2 DEF ReplayDLQ
    <3>2. /\ row \in RowType /\ row.published = outbox[p].published /\ row.deleted = outbox[p].deleted
          /\ row.attempts = 0
      BY <1>0, RowChanges
    <3> HIDE DEF row
    <3>3. row.attempts <= outbox[p].attempts
      BY <1>0, <3>2, SMTT(30), SMTT(60)
    <3> QED
      BY <3>1, <3>2, <3>3
  <2>3. CASE AbandonDLQ(p)
    <3> DEFINE row == [outbox[p] EXCEPT !.published = TRUE]
    <3>1. outbox' = [outbox EXCEPT ![p] = row] /\ p \in abandoned'
      BY <2>3 DEF AbandonDLQ
    <3>2. /\ row \in RowType /\ row.published /\ row.deleted = outbox[p].deleted
          /\ row.attempts = outbox[p].attempts
      BY <1>0, RowChanges
    <3> HIDE DEF row
    <3>3. row.attempts <= outbox[p].attempts
      BY <1>0, <3>2, SMTT(30), SMTT(60)
    <3> QED
      BY <3>1, <3>2, <3>3
  <2> QED
    BY <2>1, <2>2, <2>3
<1>2. outbox'[p] = row
  BY <1>1, SharedTypes, RowUpdated, SMTT(30), SMTT(60)
<1>3. Mild(p)
  BY <1>1, <1>2 DEF Mild
<1>4. log' = log /\ conf' = conf /\ delivered \subseteq delivered' /\ abandoned \subseteq abandoned'
      /\ alerted \subseteq alerted'
  BY DEF BackoffExpires, ReplayDLQ, AbandonDLQ
<1>5. SharedStep /\ \A q \in Positions \ {p} : outbox'[q] = outbox[q]
  BY <1>1, <1>3, <1>4, OneRow
<1> QED
  BY <1>0, <1>3, <1>5, SMTT(30), SMTT(60) DEF Mild

\* CleanupPublished and ReplayAllDLQ rewrite every row, mildly.
LEMMA TableShares ==
    ASSUME TypeOK, ReplayAllDLQ \/ \E d \in Drains : CleanupAndReturn(d)
    PROVE  SharedStep /\ \A q \in Positions : Mild(q)
<1>0. /\ Positions = 1..Len(outbox) /\ Len(outbox) \in Nat
      /\ \A q \in Positions : outbox[q] \in RowType /\ outbox[q].attempts \in Nat
  BY SharedTypes
<1>1. /\ outbox' \in [Positions -> RowType]
      /\ \A q \in Positions :
             /\ outbox'[q].published = outbox[q].published
             /\ outbox'[q].deleted => outbox[q].deleted \/ outbox[q].published
             /\ outbox'[q].attempts <= outbox[q].attempts
  <2>1. CASE ReplayAllDLQ
    <3>1. outbox' = [p \in Positions |-> IF InDLQ(p) THEN Replayed(outbox[p]) ELSE outbox[p]]
      BY <2>1 DEF ReplayAllDLQ
    <3>2. \A r \in RowType :
              /\ Replayed(r) \in RowType /\ Replayed(r).published = r.published /\ Replayed(r).deleted = r.deleted
              /\ Replayed(r).attempts = 0
      BY RowChanges
    <3> QED
      BY <1>0, <3>1, <3>2, SMTT(30), SMTT(60)
  <2>2. CASE \E d \in Drains : CleanupAndReturn(d)
    <3>1. PICK expired \in BOOLEAN :
              outbox' = [p \in Positions |-> [outbox[p] EXCEPT !.deleted = @ \/ (expired /\ Cleanable(p))]]
      BY <2>2 DEF CleanupAndReturn
    <3>2. ASSUME NEW q \in Positions
          PROVE  /\ outbox'[q] \in RowType /\ outbox'[q].published = outbox[q].published
                 /\ outbox'[q].deleted => outbox[q].deleted \/ outbox[q].published
                 /\ outbox'[q].attempts = outbox[q].attempts
      <4> DEFINE b == expired /\ Cleanable(q)
      <4>1. b \in BOOLEAN /\ (b => outbox[q].published)
        BY DEF Cleanable
      <4>2. outbox'[q] = [outbox[q] EXCEPT !.deleted = @ \/ b]
        BY <3>1
      <4> HIDE DEF b
      <4>3. /\ outbox'[q] \in RowType /\ outbox'[q].published = outbox[q].published
            /\ outbox'[q].deleted <=> outbox[q].deleted \/ b
            /\ outbox'[q].attempts = outbox[q].attempts
        <5>1. outbox[q] \in RowType
          BY <1>0
        <5>2. \A c \in BOOLEAN : LET new == [outbox[q] EXCEPT !.deleted = @ \/ c]
                               IN  /\ new \in RowType /\ new.published = outbox[q].published
                                   /\ new.deleted <=> outbox[q].deleted \/ c
                                   /\ new.attempts = outbox[q].attempts
          BY <5>1, RowChanges
        <5> QED
          BY <4>1, <4>2, <5>2
      <4> QED
        BY <4>1, <4>3
    <3>3. DOMAIN outbox' = Positions /\ outbox' = [q \in Positions |-> outbox'[q]]
      BY <3>1
    <3> QED
      BY <1>0, <3>2, <3>3, SMTT(30), SMTT(60)
  <2> QED
    BY <2>1, <2>2
<1>2. outbox' \in Seq(RowType) /\ Len(outbox') = Len(outbox)
  BY <1>0, <1>1, SMTT(30), SMTT(60)
<1>3. \A q \in Positions : Mild(q)
  BY <1>1 DEF Mild
<1>4. UNCHANGED <<log, conf, delivered, abandoned, alerted>>
  BY DEF ReplayAllDLQ, CleanupAndReturn
<1> QED
  BY <1>2, <1>3, <1>4, LogKept

\* So every step changes what the drains share in one of these ways.
LEMMA Shares ==
    ASSUME RowsInv, [Next]_vars
    PROVE  SharedStep
<1>0. TypeOK
  BY DEF RowsInv
<1>1. CASE \E s \in Streams : AppendEvent(s)
  BY <1>0, <1>1, AppendShares
<1>2. CASE \E p \in Positions : BackoffExpires(p) \/ ReplayDLQ(p) \/ AbandonDLQ(p)
  BY <1>0, <1>2, RowShares
<1>3. CASE ReplayAllDLQ \/ \E d \in Drains : CleanupAndReturn(d)
  BY <1>0, <1>3, TableShares
<1>4. CASE \E d \in Drains : MarkOutboxPublished(d) \/ MarkOutboxFailed(d)
  BY <1>4, MarkShares
<1>5. CASE \E d \in Drains : \/ Start(d) \/ ReadQuarantined(d) \/ Fetch(d) \/ Skip(d) \/ EndBatch(d)
                             \/ Crash(d) \/ ReturnsError(d) \/ Cancel(d)
  <2>1. UNCHANGED <<conf, log, outbox, delivered, abandoned, alerted>>
    BY <1>5, ZenonT(60) DEF Start, ReadQuarantined, Fetch, Skip, EndBatch, Crash, ReturnsError,
       Cancel
  <2> QED
    BY <1>0, <2>1, OutboxKept
<1>6. CASE \E d \in Drains : PublishSucceeds(d) \/ PublishFails(d) \/ AfterFailure(d)
  <2>1. /\ UNCHANGED <<conf, log, outbox, abandoned>>
        /\ delivered \subseteq delivered' /\ alerted \subseteq alerted'
    BY <1>6 DEF PublishSucceeds, PublishFails, AfterFailure
  <2> QED
    BY <1>0, <2>1, OutboxKept
<1>7. CASE (\E sh \in Shards : SessionEnds(sh)) \/ UNCHANGED vars
  <2>1. UNCHANGED <<conf, log, outbox, delivered, abandoned, alerted>>
    BY <1>7 DEF SessionEnds, vars
  <2> QED
    BY <1>0, <2>1, OutboxKept
<1> QED
  BY <1>1, <1>2, <1>3, <1>4, <1>5, <1>6, <1>7 DEF Next, NormalStep, Fault, Operator,
     DrainStep

-------------------------------------------------------------------------------
(* What a step does to the local state of a drain *)

\* PendingOutboxWithEnvelope: eligible rows, in order, with their attempts.
LEMMA BatchRead ==
    ASSUME RowsInv
    PROVE  /\ Batch \in Seq([pos : 1..MaxEvents, attempts : Nat])
           /\ \A i \in 1..Len(Batch) : /\ Batch[i].pos \in Eligible
                                       /\ Batch[i].attempts = outbox[Batch[i].pos].attempts
           /\ \A i, j \in 1..Len(Batch) : i < j => Batch[i].pos < Batch[j].pos
<1> DEFINE P == PendingOutbox
           order == InOrder(P)
           n == Cardinality(P)
<1>a. TypeOK /\ OrderFacts
  BY DEF RowsInv
<1>0. Positions = 1..Len(log) /\ Len(log) \in Nat /\ Len(log) <= MaxEvents /\ MaxEvents \in Nat
  BY <1>a, SharedTypes
<1>1. P \subseteq Eligible /\ P \in SUBSET Nat /\ \A q \in P : q <= Len(log) /\ q \in Positions
  BY <1>0, SMTT(30), SMTT(60) DEF PendingOutbox, FirstOf, Eligible
<1> HIDE DEF P
<1>2. /\ n \in Nat
      /\ order \in Seq(P) /\ Len(order) = n
      /\ \A i, j \in 1..n : i < j => order[i] < order[j]
  <2>1. P \in SUBSET (1..MaxEvents)
    BY <1>0, <1>1, SMTT(30), SMTT(60)
  <2> QED
    BY <1>a, <2>1 DEF OrderFacts
<1>3. \A i \in 1..n : order[i] \in P
  BY <1>2, SMTT(30), SMTT(60)
<1>4. Batch = [i \in 1..n |-> [pos |-> order[i], attempts |-> outbox[order[i]].attempts]]
  <2>1. DOMAIN order = 1..n
    BY <1>2, SMTT(30), SMTT(60)
  <2> QED
    BY <2>1 DEF Batch, P
<1> HIDE DEF order, n
<1>5. \A i \in 1..n : order[i] \in 1..MaxEvents /\ order[i] \in Eligible /\ outbox[order[i]].attempts \in Nat
  <2>1. \A q \in P : q \in 1..MaxEvents /\ q \in Eligible
    BY <1>0, <1>1, SMTT(30), SMTT(60)
  <2>2. \A q \in P : outbox[q].attempts \in Nat
    BY <1>a, <1>1, SharedTypes
  <2> QED
    BY <1>3, <2>1, <2>2
<1>6. \A i \in 1..n : Batch[i] \in [pos : 1..MaxEvents, attempts : Nat]
  BY <1>4, <1>5
<1>7. Batch \in [1..n -> [pos : 1..MaxEvents, attempts : Nat]]
  BY <1>4, <1>6
<1>8. Batch \in Seq([pos : 1..MaxEvents, attempts : Nat]) /\ Len(Batch) = n
  <2> DEFINE R == [pos : 1..MaxEvents, attempts : Nat]
  <2>1. Batch \in [1..n -> R]
    BY <1>7
  <2> HIDE DEF R
  <2>2. Batch \in Seq(R) /\ Len(Batch) = n
    BY <1>2, <2>1, SMTT(30), SMTT(60)
  <2> QED
    BY <2>2 DEF R
<1>9. \A i \in 1..n : Batch[i].pos = order[i] /\ Batch[i].attempts = outbox[order[i]].attempts
  BY <1>4
<1>10. \A i \in 1..n : /\ Batch[i].pos \in Eligible
                      /\ Batch[i].attempts = outbox[Batch[i].pos].attempts
  BY <1>5, <1>9
<1>11. \A i, j \in 1..n : i < j => Batch[i].pos < Batch[j].pos
  BY <1>2, <1>9, ZenonT(60)
<1> QED
  BY <1>8, <1>10, <1>11

\* The rest of a list.
LEMMA TailOf ==
    ASSUME NEW R, NEW s \in Seq(R), s # <<>>
    PROVE  /\ Tail(s) \in Seq(R) /\ Len(s) \in Nat \ {0} /\ Len(Tail(s)) = Len(s) - 1
           /\ \A i \in 1..Len(Tail(s)) : i + 1 \in 2..Len(s) /\ Tail(s)[i] = s[i + 1]
  BY SMTT(30), SMTT(60)

\* The places in a drain pass.
PCs == {"idle", "start", "fetch", "row", "published", "failed", "marked", "cleanup"}

\* The other drains keep their local state; this one's becomes r.
Becomes(d, r) == r \in RunType /\ run' = [run EXCEPT ![d] = r]

\* One drain moves on.
LEMMA RunUpdated ==
    ASSUME TypeOK, NEW d \in Drains, NEW r, Becomes(d, r)
    PROVE  run' \in [Drains -> RunType] /\ run'[d] = r /\ \A e \in Drains \ {d} : run'[e] = run[e]
  BY DEF TypeOK, Becomes

\* What each assignment does to the local variables.
LEMMA SetPC ==
    ASSUME NEW r \in RunType, NEW pc \in PCs
    PROVE  LET new == [r EXCEPT !.pc = pc]
           IN  new \in RunType /\ new.pc = pc /\ new.halted = r.halted /\ new.batch = r.batch
<1> DEFINE B == Seq([pos : 1..MaxEvents, attempts : Nat])
<1>1. RunType = [pc : PCs, halted : SUBSET Streams, batch : B, any : BOOLEAN]
  BY DEF RunType, PCs
<1>2. "fetch" \in PCs /\ "row" \in PCs
  BY DEF PCs
<1> HIDE DEF B
<1> QED
  BY <1>1, <1>2 DEF B

\* The fields of a drain after each kind of assignment.
LEMMA SetHalted ==
    ASSUME NEW r \in RunType, NEW h \in SUBSET Streams
    PROVE  LET new == [r EXCEPT !.pc = "fetch", !.halted = h]
           IN  new \in RunType /\ new.pc = "fetch" /\ new.halted = h /\ new.batch = r.batch
<1> DEFINE B == Seq([pos : 1..MaxEvents, attempts : Nat])
<1>1. RunType = [pc : PCs, halted : SUBSET Streams, batch : B, any : BOOLEAN]
  BY DEF RunType, PCs
<1>2. "fetch" \in PCs /\ "row" \in PCs
  BY DEF PCs
<1> HIDE DEF B
<1> QED
  BY <1>1, <1>2 DEF B

\* The batch is read.
LEMMA SetBatch ==
    ASSUME NEW r \in RunType, NEW b \in Seq([pos : 1..MaxEvents, attempts : Nat])
    PROVE  LET new == [r EXCEPT !.batch = b]
           IN  new \in RunType /\ new.pc = r.pc /\ new.halted = r.halted /\ new.batch = b
<1> DEFINE B == Seq([pos : 1..MaxEvents, attempts : Nat])
<1>1. RunType = [pc : PCs, halted : SUBSET Streams, batch : B, any : BOOLEAN]
  BY DEF RunType, PCs
<1>2. "fetch" \in PCs /\ "row" \in PCs
  BY DEF PCs
<1> HIDE DEF B
<1> QED
  BY <1>1, <1>2 DEF B

\* The next row comes up.
LEMMA SetNextRow ==
    ASSUME NEW r \in RunType, NEW b \in Seq([pos : 1..MaxEvents, attempts : Nat])
    PROVE  LET new == [r EXCEPT !.pc = "row", !.batch = b, !.any = TRUE]
           IN  new \in RunType /\ new.pc = "row" /\ new.halted = r.halted /\ new.batch = b
<1> DEFINE B == Seq([pos : 1..MaxEvents, attempts : Nat])
<1>1. RunType = [pc : PCs, halted : SUBSET Streams, batch : B, any : BOOLEAN]
  BY DEF RunType, PCs
<1>2. "fetch" \in PCs /\ "row" \in PCs
  BY DEF PCs
<1> HIDE DEF B
<1> QED
  BY <1>1, <1>2 DEF B

\* A stream is halted.
LEMMA AddHalted ==
    ASSUME NEW r \in RunType, NEW h \in SUBSET Streams
    PROVE  LET new == [r EXCEPT !.halted = h]
           IN  new \in RunType /\ new.pc = r.pc /\ new.halted = h /\ new.batch = r.batch
<1> DEFINE B == Seq([pos : 1..MaxEvents, attempts : Nat])
<1>1. RunType = [pc : PCs, halted : SUBSET Streams, batch : B, any : BOOLEAN]
  BY DEF RunType, PCs
<1>2. "fetch" \in PCs /\ "row" \in PCs
  BY DEF PCs
<1> HIDE DEF B
<1> QED
  BY <1>1, <1>2 DEF B

\* A step of the drain d leaves these in its local variables.
Local(d, pc, halted, batch) ==
    /\ Becomes(d, run'[d])
    /\ run'[d].pc = pc /\ run'[d].halted = halted /\ run'[d].batch = batch

\* What a drain becomes, field by field.
LEMMA BecomesLocal ==
    ASSUME TypeOK, NEW d \in Drains, NEW r \in RunType, run' = [run EXCEPT ![d] = r]
    PROVE  Local(d, r.pc, r.halted, r.batch)
<1>1. run'[d] = r
  BY DEF TypeOK
<1> QED
  BY <1>1, ZenonT(60) DEF Local, Becomes

\* The fields of a drain after each of its steps.
LEMMA LocalStep ==
    ASSUME RowsInv, NEW d \in Drains
    PROVE  /\ Start(d) => Local(d, "start", run[d].halted, run[d].batch)
           /\ ReadQuarantined(d) =>
                  Local(d, "fetch", IF conf.autoResume THEN {} ELSE QuarantinedStreams, run[d].batch)
           /\ Fetch(d) => \E pc \in {"cleanup", "row"} : Local(d, pc, run[d].halted, Batch)
           /\ Skip(d) => Local(d, "row", run[d].halted, Tail(run[d].batch))
           /\ PublishSucceeds(d) => Local(d, "published", run[d].halted, run[d].batch)
           /\ PublishFails(d) => Local(d, "failed", run[d].halted, run[d].batch)
           /\ MarkOutboxPublished(d) => Local(d, "row", run[d].halted, Tail(run[d].batch))
           /\ MarkOutboxFailed(d) => Local(d, "marked", run[d].halted, run[d].batch)
           /\ AfterFailure(d) =>
                  \E halted \in SUBSET Streams :
                      /\ Local(d, "row", halted, Tail(run[d].batch))
                      /\ run[d].halted \subseteq halted
                      /\ ~conf.autoResume => StreamAt(d) \in halted
           /\ EndBatch(d) => \E pc \in {"fetch", "cleanup"} : Local(d, pc, run[d].halted, run[d].batch)
           /\ CleanupAndReturn(d) \/ Crash(d) \/ ReturnsError(d) \/ Cancel(d) => Local(d, "idle", {}, <<>>)
<1> DEFINE B == Seq([pos : 1..MaxEvents, attempts : Nat])
           me == run[d]
<1>0. TypeOK /\ me \in RunType
  BY DEF RowsInv, TypeOK
<1>1. me.halted \in SUBSET Streams /\ me.batch \in B
  BY <1>0 DEF RunType
<1>2. me.batch # <<>> => Tail(me.batch) \in B
  <2> HIDE DEF B, me
  <2> QED
    BY <1>1, TailOf DEF B
<1>3. {"idle", "start", "fetch", "row", "published", "failed", "marked", "cleanup"} = PCs
  BY DEF PCs
<1>4. InHand(d) => me.batch # <<>>
  BY DEF RowsInv, BatchInv
<1>5. ASSUME Start(d)
      PROVE  Local(d, "start", me.halted, me.batch)
  <2> DEFINE r == [me EXCEPT !.pc = "start"]
  <2>1. run' = [run EXCEPT ![d] = r]
    BY <1>5 DEF Start
  <2>0. "start" \in PCs
    BY DEF PCs
  <2>2. r \in RunType /\ r.pc = "start" /\ r.halted = me.halted /\ r.batch = me.batch
    BY <1>0, <2>0, SetPC
  <2> HIDE DEF r
  <2> QED
    BY <1>0, <2>1, <2>2, BecomesLocal
<1>6. ASSUME PublishSucceeds(d)
      PROVE  Local(d, "published", me.halted, me.batch)
  <2> DEFINE r == [me EXCEPT !.pc = "published"]
  <2>1. run' = [run EXCEPT ![d] = r]
    BY <1>6 DEF PublishSucceeds
  <2>0. "published" \in PCs
    BY DEF PCs
  <2>2. r \in RunType /\ r.pc = "published" /\ r.halted = me.halted /\ r.batch = me.batch
    BY <1>0, <2>0, SetPC
  <2> HIDE DEF r
  <2> QED
    BY <1>0, <2>1, <2>2, BecomesLocal
<1>7. ASSUME PublishFails(d)
      PROVE  Local(d, "failed", me.halted, me.batch)
  <2> DEFINE r == [me EXCEPT !.pc = "failed"]
  <2>1. run' = [run EXCEPT ![d] = r]
    BY <1>7 DEF PublishFails
  <2>0. "failed" \in PCs
    BY DEF PCs
  <2>2. r \in RunType /\ r.pc = "failed" /\ r.halted = me.halted /\ r.batch = me.batch
    BY <1>0, <2>0, SetPC
  <2> HIDE DEF r
  <2> QED
    BY <1>0, <2>1, <2>2, BecomesLocal
<1>8. ASSUME MarkOutboxFailed(d)
      PROVE  Local(d, "marked", me.halted, me.batch)
  <2> DEFINE r == [me EXCEPT !.pc = "marked"]
  <2>1. run' = [run EXCEPT ![d] = r]
    BY <1>8 DEF MarkOutboxFailed
  <2>0. "marked" \in PCs
    BY DEF PCs
  <2>2. r \in RunType /\ r.pc = "marked" /\ r.halted = me.halted /\ r.batch = me.batch
    BY <1>0, <2>0, SetPC
  <2> HIDE DEF r
  <2> QED
    BY <1>0, <2>1, <2>2, BecomesLocal
<1>9. ASSUME ReadQuarantined(d)
      PROVE  Local(d, "fetch", IF conf.autoResume THEN {} ELSE QuarantinedStreams, me.batch)
  <2> DEFINE h == IF conf.autoResume THEN {} ELSE QuarantinedStreams
             r == [me EXCEPT !.pc = "fetch", !.halted = h]
  <2>1. run' = [run EXCEPT ![d] = r]
    BY <1>9 DEF ReadQuarantined
  <2>2. h \in SUBSET Streams
    BY <1>0, SharedTypes DEF QuarantinedStreams
  <2>3. r \in RunType /\ r.pc = "fetch" /\ r.halted = h /\ r.batch = me.batch
    <3> HIDE DEF h
    <3> QED
      BY <1>0, <2>2, SetHalted
  <2> HIDE DEF r
  <2> QED
    BY <1>0, <2>1, <2>3, BecomesLocal
<1>10. ASSUME Fetch(d)
      PROVE  \E pc \in {"cleanup", "row"} : Local(d, pc, me.halted, Batch)
  <2> DEFINE pc == IF PendingOutbox = {} THEN "cleanup" ELSE "row"
             r == [me EXCEPT !.batch = Batch, !.any = FALSE, !.pc = pc]
  <2>1. run' = [run EXCEPT ![d] = r]
    BY <1>10 DEF Fetch
  <2>2. pc \in {"cleanup", "row"} /\ pc \in PCs
    BY DEF PCs
  <2>3. r \in RunType /\ r.pc = pc /\ r.halted = me.halted /\ r.batch = Batch
    <3>1. Batch \in Seq([pos : 1..MaxEvents, attempts : Nat])
      BY <1>0, BatchRead
    <3>2. RunType = [pc : PCs, halted : SUBSET Streams, batch : B, any : BOOLEAN]
      BY <1>3 DEF RunType
    <3>3. Batch \in B
      BY <3>1
    <3> HIDE DEF pc, B, me
    <3> QED
      BY <1>0, <2>2, <3>2, <3>3
  <2> HIDE DEF r, pc
  <2> QED
    BY <1>0, <2>1, <2>2, <2>3, BecomesLocal
<1>11. ASSUME EndBatch(d)
      PROVE  \E pc \in {"fetch", "cleanup"} : Local(d, pc, me.halted, me.batch)
  <2> DEFINE pc == IF me.any THEN "fetch" ELSE "cleanup"
             r == [me EXCEPT !.pc = pc]
  <2>1. run' = [run EXCEPT ![d] = r]
    BY <1>11 DEF EndBatch
  <2>2. pc \in {"fetch", "cleanup"} /\ pc \in PCs
    BY DEF PCs
  <2>3. r \in RunType /\ r.pc = pc /\ r.halted = me.halted /\ r.batch = me.batch
    <3> HIDE DEF pc
    <3> QED
      BY <1>0, <2>2, SetPC
  <2> HIDE DEF r, pc
  <2> QED
    BY <1>0, <2>1, <2>2, <2>3, BecomesLocal
<1>12. ASSUME Skip(d)
      PROVE  Local(d, "row", me.halted, Tail(me.batch))
  <2> DEFINE r == [me EXCEPT !.batch = Tail(me.batch)]
  <2>1. run' = [run EXCEPT ![d] = r] /\ me.pc = "row" /\ me.batch # <<>>
    BY <1>12 DEF Skip, AtRow
  <2>2. r \in RunType /\ r.pc = me.pc /\ r.halted = me.halted /\ r.batch = Tail(me.batch)
    BY <1>0, <1>2, <2>1, SetBatch
  <2> HIDE DEF r
  <2> QED
    BY <1>0, <2>1, <2>2, BecomesLocal
<1>13. ASSUME MarkOutboxPublished(d)
      PROVE  Local(d, "row", me.halted, Tail(me.batch))
  <2> DEFINE r == [me EXCEPT !.pc = "row", !.batch = Tail(me.batch), !.any = TRUE]
  <2>1. run' = [run EXCEPT ![d] = r]
    BY <1>13 DEF MarkOutboxPublished, NextRow
  <2>2. InHand(d)
    BY <1>13 DEF MarkOutboxPublished, InHand
  <2>3. r \in RunType /\ r.pc = "row" /\ r.halted = me.halted /\ r.batch = Tail(me.batch)
    BY <1>0, <1>2, <1>4, <2>2, SetNextRow
  <2> HIDE DEF r
  <2> QED
    BY <1>0, <2>1, <2>3, BecomesLocal
<1>14. ASSUME AfterFailure(d)
      PROVE  \E halted \in SUBSET Streams :
                 /\ Local(d, "row", halted, Tail(me.batch))
                 /\ me.halted \subseteq halted
                 /\ ~conf.autoResume => StreamAt(d) \in halted
  <2> DEFINE q == [me EXCEPT !.pc = "row", !.batch = Tail(me.batch), !.any = TRUE]
             h == IF ~(CrossedDLQ(d) /\ conf.autoResume) THEN me.halted \cup {StreamAt(d)} ELSE me.halted
             r == [q EXCEPT !.halted = h]
  <2>1. InHand(d) /\ me.batch # <<>>
    BY <1>4, <1>14 DEF AfterFailure, InHand
  <2>2. q \in RunType /\ q.pc = "row" /\ q.halted = me.halted /\ q.batch = Tail(me.batch)
    BY <1>0, <1>2, <2>1, SetNextRow
  <2>3. run' = [run EXCEPT ![d] = r]
    <3>1. run' = [run EXCEPT ![d] = [NextRow(d) EXCEPT
                      !.halted = IF ~(CrossedDLQ(d) /\ conf.autoResume) THEN @ \cup {StreamAt(d)} ELSE @]]
      BY <1>14 DEF AfterFailure
    <3>2. NextRow(d) = q
      BY DEF NextRow
    <3> HIDE DEF q
    <3> QED
      BY <2>2, <3>1, <3>2
  <2>4. StreamAt(d) \in Streams
    BY <1>0, <2>1, HandType, SharedTypes DEF StreamAt
  <2>5. h \in SUBSET Streams
    BY <1>1, <2>4
  <2>6. r \in RunType /\ r.pc = "row" /\ r.halted = h /\ r.batch = Tail(me.batch)
    <3> HIDE DEF q, h
    <3> QED
      BY <2>2, <2>5, AddHalted
  <2>7. Local(d, "row", h, Tail(me.batch))
    <3> HIDE DEF r, h
    <3> QED
      BY <1>0, <2>3, <2>6, BecomesLocal
  <2>8. me.halted \subseteq h /\ (~conf.autoResume => StreamAt(d) \in h)
    OBVIOUS
  <2> HIDE DEF h
  <2> QED
    BY <2>5, <2>7, <2>8
<1>15. ASSUME CleanupAndReturn(d) \/ Crash(d) \/ ReturnsError(d) \/ Cancel(d)
      PROVE  Local(d, "idle", {}, <<>>)
  <2>1. run' = [run EXCEPT ![d] = Idle]
    BY <1>15 DEF CleanupAndReturn, Crash, ReturnsError, Cancel
  <2>2. Idle \in RunType /\ Idle.pc = "idle" /\ Idle.halted = {} /\ Idle.batch = <<>>
    BY SMTT(30), SMTT(60) DEF Idle, RunType
  <2> QED
    BY <1>0, <2>1, <2>2, BecomesLocal
<1> QED
  BY <1>5, <1>6, <1>7, <1>8, <1>9, <1>10, <1>11, <1>12, <1>13, <1>14, <1>15

-------------------------------------------------------------------------------
(* Types, batches and NothingLost *)

\* A drain has a shard.
LEMMA ShardTypes ==
    ASSUME conf \in Config, NEW d \in Drains
    PROVE  Shard(d) \in Shards
  BY OutboxAssumption DEF Shard, Config

\* Locks have their types.
LEMMA LockTypes ==
    ASSUME RowsInv, [Next]_vars
    PROVE  lock' \in [Shards -> Drains \cup {None}] /\ leaked' \subseteq Shards
<1>0. /\ lock \in [Shards -> Drains \cup {None}] /\ leaked \subseteq Shards
      /\ \A d \in Drains : Shard(d) \in Shards
  BY ShardTypes DEF RowsInv, TypeOK
<1>1. ASSUME NEW d \in Drains, Start(d)
      PROVE  lock' \in [Shards -> Drains \cup {None}] /\ leaked' = leaked
  BY <1>0, <1>1 DEF Start
<1>2. ASSUME NEW d \in Drains, CleanupAndReturn(d) \/ ReturnsError(d)
      PROVE  lock' \in [Shards -> Drains \cup {None}] /\ leaked' = leaked
  BY <1>0, <1>2 DEF CleanupAndReturn, ReturnsError, Release
<1>3. ASSUME NEW d \in Drains, Crash(d)
      PROVE  lock' \in [Shards -> Drains \cup {None}] /\ leaked' \subseteq leaked
  BY <1>0, <1>3 DEF Crash
<1>4. ASSUME NEW d \in Drains, Cancel(d)
      PROVE  lock' = lock /\ leaked' \subseteq Shards
  BY <1>0, <1>4 DEF Cancel
<1>5. ASSUME NEW sh \in Shards, SessionEnds(sh)
      PROVE  lock' \in [Shards -> Drains \cup {None}] /\ leaked' \subseteq leaked
  BY <1>0, <1>5 DEF SessionEnds
<1>6. ASSUME NEW d \in Drains,
             \/ ReadQuarantined(d) \/ Fetch(d) \/ Skip(d) \/ PublishSucceeds(d) \/ PublishFails(d)
             \/ MarkOutboxPublished(d) \/ MarkOutboxFailed(d) \/ AfterFailure(d) \/ EndBatch(d)
      PROVE  lock' = lock /\ leaked' = leaked
  BY <1>6 DEF ReadQuarantined, Fetch, Skip, PublishSucceeds, PublishFails,
     MarkOutboxPublished, MarkOutboxFailed, AfterFailure, EndBatch
<1>7. CASE \/ \E s \in Streams : AppendEvent(s)
           \/ \E p \in Positions : BackoffExpires(p) \/ ReplayDLQ(p) \/ AbandonDLQ(p)
           \/ ReplayAllDLQ \/ UNCHANGED vars
  <2>1. lock' = lock /\ leaked' = leaked
    BY <1>7 DEF AppendEvent, BackoffExpires, ReplayDLQ, AbandonDLQ, ReplayAllDLQ, vars
  <2> QED
    BY <1>0, <2>1
<1> QED
  BY <1>0, <1>1, <1>2, <1>3, <1>4, <1>5, <1>6, <1>7 DEF Next, NormalStep, Fault, Operator, DrainStep

\* Who moves: nobody, or one drain.
LEMMA RunMoves ==
    ASSUME RowsInv, [Next]_vars
    PROVE  /\ run' \in [Drains -> RunType]
           /\ \/ run' = run
              \/ \E d \in Drains : /\ DrainStep(d) \/ Crash(d) \/ ReturnsError(d) \/ Cancel(d)
                                   /\ \A e \in Drains \ {d} : run'[e] = run[e]
<1>0. TypeOK /\ run \in [Drains -> RunType]
  BY DEF RowsInv, TypeOK
<1>1. ASSUME NEW d \in Drains, DrainStep(d) \/ Crash(d) \/ ReturnsError(d) \/ Cancel(d)
      PROVE  run' \in [Drains -> RunType] /\ \A e \in Drains \ {d} : run'[e] = run[e]
  <2>1. \E pc, halted, batch : Local(d, pc, halted, batch)
    BY <1>1, LocalStep DEF DrainStep
  <2>2. Becomes(d, run'[d])
    BY <2>1 DEF Local
  <2> QED
    BY <1>0, <2>2, RunUpdated
<1>2. CASE \/ \E s \in Streams : AppendEvent(s)
           \/ \E p \in Positions : BackoffExpires(p) \/ ReplayDLQ(p) \/ AbandonDLQ(p)
           \/ ReplayAllDLQ \/ (\E sh \in Shards : SessionEnds(sh)) \/ UNCHANGED vars
  <2>1. run' = run
    BY <1>2 DEF AppendEvent, BackoffExpires, ReplayDLQ, AbandonDLQ, ReplayAllDLQ,
       SessionEnds, vars
  <2> QED
    BY <1>0, <2>1
<1> QED
  BY <1>1, <1>2 DEF Next, NormalStep, Fault, Operator

\* Every step keeps the types.
LEMMA TypesStep ==
    ASSUME RowsInv, [Next]_vars
    PROVE  TypeOK' /\ conf' \in Configs
<1>0. /\ TypeOK /\ SharedStep /\ conf \in Configs
      /\ delivered \subseteq Positions /\ abandoned \subseteq Positions /\ alerted \subseteq Positions
  BY Shares DEF RowsInv, TypeOK
<1>1. conf' \in Config /\ conf' \in Configs
  BY <1>0, OutboxAssumption DEF SharedStep
<1>2. /\ log' \in Seq(Streams) /\ Len(log') <= MaxEvents
      /\ outbox' \in Seq(RowType) /\ Len(outbox') = Len(log') /\ Positions \subseteq Positions'
  BY <1>0 DEF SharedStep
<1>3. delivered' \subseteq Positions /\ abandoned' \subseteq Positions /\ alerted' \subseteq Positions
  <2>1. ASSUME NEW d \in Drains, PublishSucceeds(d) \/ PublishFails(d) \/ AfterFailure(d)
        PROVE  delivered' \subseteq Positions /\ abandoned' \subseteq Positions /\ alerted' \subseteq Positions
    <3>1. run[d].batch # <<>>
      BY <2>1 DEF PublishSucceeds, PublishFails, AfterFailure, AtRow, RowsInv, BatchInv,
         InHand
    <3>2. Current(d).pos \in Positions
      BY <3>1, HandType
    <3> QED
      BY <1>0, <2>1, <3>2 DEF PublishSucceeds, PublishFails, AfterFailure
  <2>2. ASSUME NEW p \in Positions, AbandonDLQ(p)
        PROVE  delivered' \subseteq Positions /\ abandoned' \subseteq Positions /\ alerted' \subseteq Positions
    BY <1>0, <2>2 DEF AbandonDLQ
  <2>3. CASE \/ \E s \in Streams : AppendEvent(s)
             \/ \E p \in Positions : BackoffExpires(p) \/ ReplayDLQ(p)
             \/ \E d \in Drains : \/ Start(d) \/ ReadQuarantined(d) \/ Fetch(d) \/ Skip(d) \/ EndBatch(d)
                                  \/ MarkOutboxPublished(d) \/ MarkOutboxFailed(d) \/ CleanupAndReturn(d)
                                  \/ Crash(d) \/ ReturnsError(d) \/ Cancel(d)
             \/ ReplayAllDLQ \/ (\E sh \in Shards : SessionEnds(sh)) \/ UNCHANGED vars
    <3>1. delivered' = delivered /\ abandoned' = abandoned /\ alerted' = alerted
      BY <2>3 DEF AppendEvent, BackoffExpires, ReplayDLQ, ReplayAllDLQ, SessionEnds, vars, Start,
              ReadQuarantined, Fetch, Skip, EndBatch, MarkOutboxPublished, MarkOutboxFailed,
              CleanupAndReturn, Crash, ReturnsError, Cancel
    <3> QED
      BY <1>0, <3>1
  <2> QED
    BY <2>1, <2>2, <2>3 DEF Next, NormalStep, Fault, Operator, DrainStep
<1>4. delivered' \subseteq Positions' /\ abandoned' \subseteq Positions' /\ alerted' \subseteq Positions'
  BY <1>2, <1>3
<1> QED
  BY <1>1, <1>2, <1>4, LockTypes, RunMoves DEF TypeOK

\* The rows of a batch stay rows of the outbox.
LEMMA BatchKept ==
    ASSUME RowsInv, SharedStep, NEW d \in Drains, run'[d].batch = run[d].batch,
           InHand(d)' => run[d].batch # <<>> /\ ~Skipped(d) /\ run'[d].halted = run[d].halted,
           run'[d].pc = "published" => Current(d).pos \in delivered'
    PROVE  BatchInv(d)'
<1> DEFINE batch == run[d].batch
<1>1. /\ \A i \in 1..Len(batch) : batch[i].pos \in Positions
      /\ \A i, j \in 1..Len(batch) : i < j => batch[i].pos < batch[j].pos
  BY DEF RowsInv, BatchInv
<1>2. \A i \in 1..Len(batch) : batch[i].pos \in Positions'
  BY <1>1 DEF SharedStep
<1>3. Current(d)' = Current(d)
  BY DEF Current
<1>4. InHand(d)' => batch # <<>> /\ ~Skipped(d)'
  <2>1. SUFFICES ASSUME InHand(d)' PROVE batch # <<>> /\ ~Skipped(d)'
    OBVIOUS
  <2>2. Current(d).pos \in Positions
    BY <2>1, HandType
  <2>3. StreamAt(d)' = StreamAt(d)
    BY <1>3, <2>2 DEF StreamAt, SharedStep
  <2>4. conf' = conf
    BY DEF SharedStep
  <2> QED
    BY <2>1, <2>3, <2>4 DEF Skipped, StreamShard, Shard
<1> QED
  BY <1>1, <1>2, <1>3, <1>4 DEF BatchInv

\* The rest of a batch is a batch.
LEMMA BatchTail ==
    ASSUME RowsInv, SharedStep, NEW d \in Drains, run[d].batch # <<>>,
           run'[d].batch = Tail(run[d].batch), run'[d].pc = "row"
    PROVE  BatchInv(d)'
<1> DEFINE batch == run[d].batch
<1>1. /\ \A i \in 1..Len(batch) : batch[i].pos \in Positions
      /\ \A i, j \in 1..Len(batch) : i < j => batch[i].pos < batch[j].pos
  BY DEF RowsInv, BatchInv
<1>2. /\ Len(batch) \in Nat /\ Len(Tail(batch)) = Len(batch) - 1
      /\ \A i \in 1..Len(Tail(batch)) : i + 1 \in 2..Len(batch) /\ Tail(batch)[i] = batch[i + 1]
  <2> DEFINE R == [pos : 1..MaxEvents, attempts : Nat]
  <2>1. batch \in Seq(R)
    BY HandType
  <2> HIDE DEF R, batch
  <2> QED
    BY <2>1, TailOf DEF batch
<1>3. ~InHand(d)'
  BY DEF InHand
<1>4. \A i \in 1..Len(Tail(batch)) : Tail(batch)[i].pos \in Positions'
  <2>1. ASSUME NEW n \in Nat, NEW i \in 2..n PROVE i \in 1..n
    BY SMTT(30), SMTT(60)
  <2>2. ASSUME NEW i \in 1..Len(Tail(batch)) PROVE i + 1 \in 1..Len(batch)
    BY <1>2, <2>1
  <2>3. Positions \subseteq Positions'
    BY DEF SharedStep
  <2> QED
    BY <1>1, <1>2, <2>2, <2>3
<1>5. \A i, j \in 1..Len(Tail(batch)) : i < j => Tail(batch)[i].pos < Tail(batch)[j].pos
  <2> HIDE DEF batch
  <2> QED
    BY <1>1, <1>2, SMTT(30), SMTT(60)
<1> QED
  BY <1>3, <1>4, <1>5 DEF BatchInv

\* Every step keeps BatchInv.
LEMMA BatchStep ==
    ASSUME RowsInv, [Next]_vars, NEW d \in Drains
    PROVE  BatchInv(d)'
<1>0. RowsInv /\ SharedStep /\ TypeOK
  BY Shares DEF RowsInv
<1>1. CASE run'[d] = run[d]
  <2>1. InHand(d)' => InHand(d)
    BY <1>1 DEF InHand
  <2>2. BatchInv(d)
    BY DEF RowsInv
  <2>3. InHand(d)' => run[d].batch # <<>> /\ ~Skipped(d)
    BY <2>1, <2>2 DEF BatchInv
  <2>4. run'[d].pc = "published" => Current(d).pos \in delivered'
    BY <1>0, <1>1, <2>2 DEF BatchInv, SharedStep
  <2> QED
    BY <1>0, <1>1, <2>3, <2>4, BatchKept
<1>2. ASSUME NEW pc, pc \notin {"published", "failed", "marked"}, NEW h, Local(d, pc, h, run[d].batch)
      PROVE  BatchInv(d)'
  <2>1. run'[d].batch = run[d].batch /\ run'[d].pc # "published" /\ ~InHand(d)'
    BY <1>2 DEF Local, InHand
  <2> QED
    BY <1>0, <2>1, BatchKept
<1>3. CASE Start(d)
  BY <1>2, <1>3, LocalStep, ZenonT(60)
<1>4. CASE ReadQuarantined(d)
  BY <1>2, <1>4, LocalStep, ZenonT(60)
<1>5. CASE EndBatch(d)
  BY <1>2, <1>5, LocalStep, ZenonT(60)
<1>6. CASE Fetch(d)
  <2>1. PICK pc \in {"cleanup", "row"} : Local(d, pc, run[d].halted, Batch)
    BY <1>6, LocalStep
  <2>2. run'[d].batch = Batch /\ ~InHand(d)' /\ run'[d].pc # "published"
    BY <2>1 DEF Local, InHand
  <2>3. /\ \A i \in 1..Len(Batch) : Batch[i].pos \in Positions
        /\ \A i, j \in 1..Len(Batch) : i < j => Batch[i].pos < Batch[j].pos
    BY <1>0, BatchRead DEF Eligible
  <2>4. \A i \in 1..Len(Batch) : Batch[i].pos \in Positions'
    BY <1>0, <2>3 DEF SharedStep
  <2> QED
    BY <2>2, <2>3, <2>4 DEF BatchInv
<1>7. ASSUME run[d].batch # <<>>, \E h : Local(d, "row", h, Tail(run[d].batch))
      PROVE  BatchInv(d)'
  BY <1>0, <1>7, BatchTail DEF Local
<1>8. CASE Skip(d)
  <2>1. run[d].batch # <<>>
    BY <1>8 DEF Skip, AtRow
  <2> QED
    BY <1>7, <1>8, <2>1, LocalStep
<1>9. InHand(d) => run[d].batch # <<>> /\ ~Skipped(d)
  BY DEF RowsInv, BatchInv
<1>10. CASE MarkOutboxPublished(d) \/ AfterFailure(d)
  <2>1. InHand(d)
    BY <1>10 DEF MarkOutboxPublished, AfterFailure, InHand
  <2>2. \E h : Local(d, "row", h, Tail(run[d].batch))
    BY <1>10, LocalStep
  <2> QED
    BY <1>7, <1>9, <2>1, <2>2
<1>11. CASE PublishSucceeds(d)
  <2>1. /\ run'[d].batch = run[d].batch /\ run'[d].halted = run[d].halted
    BY <1>11, LocalStep DEF Local
  <2>2. run[d].batch # <<>> /\ ~Skipped(d) /\ Current(d).pos \in delivered'
    BY <1>11 DEF PublishSucceeds, AtRow
  <2> QED
    BY <1>0, <2>1, <2>2, BatchKept
<1>12. CASE PublishFails(d)
  <2>1. /\ run'[d].batch = run[d].batch /\ run'[d].halted = run[d].halted /\ run'[d].pc = "failed"
    BY <1>12, LocalStep DEF Local
  <2>2. run[d].batch # <<>> /\ ~Skipped(d)
    BY <1>12 DEF PublishFails, AtRow
  <2> QED
    BY <1>0, <2>1, <2>2, BatchKept
<1>13. CASE MarkOutboxFailed(d)
  <2>1. /\ run'[d].batch = run[d].batch /\ run'[d].halted = run[d].halted /\ run'[d].pc = "marked"
    BY <1>13, LocalStep DEF Local
  <2>2. InHand(d)
    BY <1>13 DEF MarkOutboxFailed, InHand
  <2> QED
    BY <1>0, <1>9, <2>1, <2>2, BatchKept
<1>14. CASE CleanupAndReturn(d) \/ Crash(d) \/ ReturnsError(d) \/ Cancel(d)
  <2>1. run'[d].batch = <<>> /\ run'[d].pc = "idle"
    BY <1>14, LocalStep DEF Local
  <2>2. ~InHand(d)' /\ Len(run'[d].batch) = 0
    BY <2>1 DEF InHand
  <2> QED
    BY <2>1, <2>2, SMTT(30), SMTT(60) DEF BatchInv
<1>15. run'[d] = run[d] \/ DrainStep(d) \/ Crash(d) \/ ReturnsError(d) \/ Cancel(d)
  BY <1>0, RunMoves
<1> QED
  BY <1>1, <1>3, <1>4, <1>5, <1>6, <1>8, <1>10, <1>11, <1>12, <1>13, <1>14, <1>15 DEF
     DrainStep

\* Every step keeps RowsInv.
LEMMA RowsStep ==
    ASSUME RowsInv, [Next]_vars
    PROVE  RowsInv'
<1>0. RowsInv /\ SharedStep /\ TypeOK /\ NothingLost
  BY Shares DEF RowsInv
<1>1. ASSUME NEW p \in Positions', outbox'[p].published \/ outbox'[p].deleted
      PROVE  p \in delivered' \cup abandoned'
  <2>1. p \in Positions
    BY <1>0, <1>1, SMTT(30), SMTT(60) DEF SharedStep, NewRow
  <2>2. outbox[p].published \/ outbox[p].deleted => p \in delivered' \cup abandoned'
    BY <1>0, <2>1 DEF NothingLost, SharedStep
  <2>3. CASE Mild(p)
    BY <1>1, <2>2, <2>3 DEF Mild
  <2>4. CASE \E d \in Drains : MarkedOne(d, p)
    <3>1. PICK d \in Drains : MarkedOne(d, p)
      BY <2>4
    <3>2. CASE MarkOutboxPublished(d)
      <4>1. Current(d).pos \in delivered
        BY <3>2 DEF RowsInv, BatchInv, MarkOutboxPublished
      <4> QED
        BY <1>0, <3>1, <4>1 DEF MarkedOne, SharedStep
    <3>3. CASE outbox'[p].published = outbox[p].published
      BY <1>1, <2>2, <3>1, <3>3 DEF MarkedOne
    <3> QED
      BY <3>1, <3>2, <3>3 DEF MarkedOne
  <2> QED
    BY <1>0, <2>1, <2>3, <2>4 DEF SharedStep
<1>2. NothingLost'
  BY <1>1 DEF NothingLost
<1> QED
  BY <1>0, <1>2, TypesStep, BatchStep DEF RowsInv

-------------------------------------------------------------------------------
(* One drain per shard *)

\* Two drains at work on the same shard are the same drain.
LEMMA Alone ==
    ASSUME OneDrainPerShard, RowsInv, LockInv, NEW d \in Drains, NEW e \in Drains,
           run[d].pc # "idle", run[e].pc # "idle", Shard(d) = Shard(e)
    PROVE  d = e
<1>1. CASE conf.locking
  BY <1>1 DEF LockInv
<1>2. CASE ~conf.locking
  <2>1. conf.sharded /\ \A x, y \in Drains : DrainShard[x] = DrainShard[y] => x = y
    BY <1>2 DEF OneDrainPerShard, RowsInv
  <2> QED
    BY <2>1 DEF Shard
<1> QED
  BY <1>1, <1>2

\* Every step keeps LockInv.
LEMMA LockStep ==
    ASSUME RowsInv, LockInv, [Next]_vars
    PROVE  LockInv'
<1>0. /\ lock \in [Shards -> Drains \cup {None}] /\ conf' = conf
      /\ \A d \in Drains : Shard(d) \in Shards /\ Shard(d)' = Shard(d) /\ d # None
  BY Shares, ShardTypes, OutboxAssumption DEF RowsInv, TypeOK, SharedStep, Shard
<1>1. SUFFICES ASSUME conf.locking, NEW d \in Drains, run'[d].pc # "idle"
               PROVE  lock'[Shard(d)] = d
  BY <1>0 DEF LockInv
<1>2. \A e \in Drains : run[e].pc # "idle" => lock[Shard(e)] = e
  BY <1>1 DEF LockInv
<1>3. CASE Start(d)
  BY <1>0, <1>1, <1>3 DEF Start
<1>4. CASE ~Start(d)
  <2>1. run[d].pc # "idle"
    <3>1. CASE run'[d] = run[d]
      BY <1>1, <3>1
    <3>2. CASE Crash(d) \/ ReturnsError(d) \/ Cancel(d) \/ DrainStep(d)
      BY <1>4, <3>2 DEF Crash, ReturnsError, Cancel, DrainStep, ReadQuarantined, Fetch,
         Skip, AtRow, PublishSucceeds, PublishFails, MarkOutboxPublished, MarkOutboxFailed,
         AfterFailure, EndBatch, CleanupAndReturn
    <3> QED
      BY <3>1, <3>2, RunMoves
  <2>2. lock[Shard(d)] = d
    BY <1>2, <2>1
  <2>3. ASSUME NEW e \in Drains, Start(e)
        PROVE  lock'[Shard(d)] = d
    <3>1. lock' = [lock EXCEPT ![Shard(e)] = e] /\ Available(e) /\ run[e].pc = "idle"
      BY <1>1, <2>3 DEF Start
    <3>2. Shard(e) # Shard(d)
      BY <1>0, <2>1, <2>2, <3>1 DEF Available
    <3> QED
      BY <1>0, <2>2, <3>1, <3>2
  <2>4. ASSUME NEW e \in Drains, CleanupAndReturn(e) \/ ReturnsError(e) \/ Crash(e)
        PROVE  lock'[Shard(d)] = d
    <3>1. e # d
      <4>1. run'[e].pc = "idle"
        BY <2>4, LocalStep DEF Local
      <4> QED
        BY <1>1, <4>1
    <3>2. lock' = lock \/ (lock[Shard(e)] = e /\ lock' = [lock EXCEPT ![Shard(e)] = None])
      BY <2>4 DEF CleanupAndReturn, ReturnsError, Crash, Release
    <3> QED
      BY <1>0, <2>2, <3>1, <3>2
  <2>5. ASSUME NEW sh \in Shards, SessionEnds(sh)
        PROVE  lock'[Shard(d)] = d
    BY <1>0, <2>1, <2>2, <2>5 DEF SessionEnds
  <2>6. CASE \/ \E e \in Drains :
                    \/ ReadQuarantined(e) \/ Fetch(e) \/ Skip(e) \/ PublishSucceeds(e) \/ PublishFails(e)
                    \/ MarkOutboxPublished(e) \/ MarkOutboxFailed(e) \/ AfterFailure(e) \/ EndBatch(e)
                    \/ Cancel(e)
             \/ \E s \in Streams : AppendEvent(s)
             \/ \E p \in Positions : BackoffExpires(p) \/ ReplayDLQ(p) \/ AbandonDLQ(p)
             \/ ReplayAllDLQ \/ UNCHANGED vars
    <3>1. lock' = lock
      BY <2>6 DEF ReadQuarantined, Fetch, Skip, PublishSucceeds, PublishFails, MarkOutboxPublished,
              MarkOutboxFailed, AfterFailure, EndBatch, Cancel, AppendEvent, BackoffExpires, ReplayDLQ,
              AbandonDLQ, ReplayAllDLQ, vars
    <3> QED
      BY <2>2, <3>1
  <2> QED
    BY <2>3, <2>4, <2>5, <2>6 DEF Next, NormalStep, Fault, Operator, DrainStep
<1> QED
  BY <1>3, <1>4

\* A drain marks rows of its own shard.
LEMMA MarksOwn ==
    ASSUME RowsInv, NEW e \in Drains, NEW p, MarkedOne(e, p)
    PROVE  InHand(e) /\ run[e].pc # "idle" /\ InShard(e, p) /\ p \in Positions
<1>1. InHand(e) /\ run[e].pc # "idle"
  BY DEF MarkedOne, MarkOutboxPublished, MarkOutboxFailed, InHand
<1>2. run[e].batch # <<>> /\ ~Skipped(e)
  BY <1>1 DEF RowsInv, BatchInv
<1> QED
  BY <1>1, <1>2, HandType DEF MarkedOne, Skipped, StreamAt, InShard

\* Nobody but the drain itself marks rows of its shard while it runs.
LEMMA Undisturbed ==
    ASSUME OneDrainPerShard, RowsInv, LockInv, SharedStep, NEW d \in Drains, run[d].pc # "idle",
           NEW p \in Positions, InShard(d, p)
    PROVE  Mild(p) \/ MarkedOne(d, p)
<1>1. ASSUME NEW e \in Drains, MarkedOne(e, p)
      PROVE  e = d
  BY <1>1, MarksOwn, Alone DEF InShard
<1> QED
  BY <1>1 DEF SharedStep

\* A step changes neither the shard of a row nor the rows before it.
LEMMA SameShard ==
    ASSUME RowsInv, SharedStep, NEW d \in Drains, NEW p \in Positions
    PROVE  /\ InShard(d, p)' <=> InShard(d, p)
           /\ Earlier(p)' = Earlier(p) /\ Earlier(p) \subseteq Positions
           /\ Excused \subseteq Excused' /\ (SkipsUndisturbed' <=> SkipsUndisturbed)
<1>0. Positions = 1..Len(log) /\ Len(log) \in Nat /\ conf' = conf /\ \A q \in Positions : log'[q] = log[q]
  BY SharedTypes DEF RowsInv, SharedStep
<1>1. InShard(d, p)' <=> InShard(d, p)
  BY <1>0 DEF InShard, StreamShard, Shard
<1>2. \A q \in 1..(p - 1) : q \in Positions
  BY <1>0, SMTT(30), SMTT(60)
<1>3. Earlier(p)' = Earlier(p) /\ Earlier(p) \subseteq Positions
  BY <1>0, <1>2 DEF Earlier
<1>4. Excused \subseteq Excused' /\ (SkipsUndisturbed' <=> SkipsUndisturbed)
  BY <1>0 DEF Excused, SharedStep, SkipsUndisturbed
<1> QED
  BY <1>1, <1>3, <1>4

-------------------------------------------------------------------------------
(* What a drain read stays right *)

\* Every step keeps QuietInv.
LEMMA QuietStep ==
    ASSUME RowsInv, [Next]_vars, NEW d \in Drains, QuietInv(d)
    PROVE  QuietInv(d)'
<1>1. CASE run'[d] = run[d]
  BY <1>1 DEF QuietInv
<1>2. CASE Start(d)
  BY <1>2, LocalStep DEF Local, QuietInv, Start
<1>3. CASE CleanupAndReturn(d) \/ Crash(d) \/ ReturnsError(d) \/ Cancel(d)
  BY <1>3, LocalStep, ZenonT(60) DEF Local, QuietInv
<1>4. CASE \/ ReadQuarantined(d) \/ Fetch(d) \/ Skip(d) \/ PublishSucceeds(d) \/ PublishFails(d)
           \/ MarkOutboxPublished(d) \/ MarkOutboxFailed(d) \/ AfterFailure(d) \/ EndBatch(d)
  <2>1. run'[d].pc \notin {"idle", "start"}
    BY <1>4, LocalStep DEF Local
  <2> QED
    BY <2>1 DEF QuietInv
<1>5. run'[d] = run[d] \/ DrainStep(d) \/ Crash(d) \/ ReturnsError(d) \/ Cancel(d)
  BY RunMoves
<1> QED
  BY <1>1, <1>2, <1>3, <1>4, <1>5 DEF DrainStep

\* When Fresh, Clear and Counted of a row in the batch of d stay true.
LEMMA RowKept ==
    ASSUME RowsInv, SharedStep, NEW d \in Drains, NEW b \in RowRead, b.pos \in Positions
    PROVE  /\ (InShard(d, b.pos) => Mild(b.pos) \/ outbox'[b.pos].published = outbox[b.pos].published) /\ Fresh(d, b)
                  => Fresh(d, b)'
           /\ run[d].halted \subseteq run'[d].halted /\ Clear(d, b) => Clear(d, b)'
           /\ (InShard(d, b.pos) => Mild(b.pos)) /\ Counted(d, b) => Counted(d, b)'
<1>0. /\ InShard(d, b.pos)' <=> InShard(d, b.pos)
      /\ Earlier(b.pos)' = Earlier(b.pos)
      /\ Excused \subseteq Excused' /\ (SkipsUndisturbed' <=> SkipsUndisturbed)
  BY SameShard
<1>1. /\ log'[b.pos] = log[b.pos] /\ abandoned \subseteq abandoned'
      /\ outbox[b.pos].attempts \in Nat /\ outbox'[b.pos].attempts \in Nat /\ b.attempts \in Nat
  <2>1. outbox' \in Seq(RowType) /\ b.pos \in 1..Len(outbox')
    BY DEF SharedStep, Positions
  <2>2. outbox'[b.pos] \in RowType
    BY <2>1, SMTT(30), SMTT(60)
  <2> QED
    BY <2>2, SharedTypes DEF SharedStep, RowsInv, RowType, RowRead
<1>2. ASSUME InShard(d, b.pos) => Mild(b.pos) \/ outbox'[b.pos].published = outbox[b.pos].published, Fresh(d, b)
      PROVE  Fresh(d, b)'
  BY <1>0, <1>1, <1>2 DEF Fresh, Mild, Pending
<1>3. ASSUME run[d].halted \subseteq run'[d].halted, Clear(d, b)
      PROVE  Clear(d, b)'
  BY <1>0, <1>1, <1>3 DEF Clear
<1>4. ASSUME InShard(d, b.pos) => Mild(b.pos), Counted(d, b)
      PROVE  Counted(d, b)'
  BY <1>0, <1>1, <1>4, SMTT(30), SMTT(60) DEF Counted, Mild
<1> QED
  BY <1>2, <1>3, <1>4

\* The rows in a batch are in the outbox.
LEMMA BatchRows ==
    ASSUME RowsInv, NEW d \in Drains, NEW b \in RowRead, InBatch(d, b)
    PROVE  b.pos \in Positions /\ run[d].batch # <<>>
<1>1. PICK i \in 1..Len(run[d].batch) : run[d].batch[i] = b
  BY DEF InBatch
<1>2. b.pos \in Positions
  BY <1>1 DEF RowsInv, BatchInv
<1>3. run[d].batch \in Seq(RowRead)
  BY ZenonT(60) DEF RowsInv, TypeOK, RunType, RowRead
<1>4. run[d].batch # <<>>
  BY <1>1, SMTT(30), SMTT(60)
<1> QED
  BY <1>2, <1>4

\* The rows of a batch but the first are other rows than the one in hand.
LEMMA TailRows ==
    ASSUME RowsInv, NEW d \in Drains, NEW b \in RowRead, run[d].batch # <<>>,
           NEW s, s = Tail(run[d].batch), NEW i \in 1..Len(s), s[i] = b
    PROVE  InBatch(d, b) /\ Waiting(d, b) /\ b.pos # Current(d).pos
<1> DEFINE batch == run[d].batch
<1>1. batch \in Seq(RowRead)
  BY DEF RowsInv, TypeOK, RunType, RowRead
<1>2. i + 1 \in 2..Len(batch) /\ batch[i + 1] = b /\ Len(batch) \in Nat
  <2> HIDE DEF batch
  <2> QED
    BY <1>1, TailOf DEF batch
<1>3. batch[1].pos < batch[i + 1].pos /\ Current(d) = batch[1]
  <2>1. 1 \in 1..Len(batch) /\ i + 1 \in 1..Len(batch) /\ 1 < i + 1
    BY <1>2, SMTT(30), SMTT(60)
  <2> QED
    BY <2>1, HandType DEF RowsInv, BatchInv
<1>4. batch[1].pos \in Nat /\ b.pos \in Nat
  <2>1. 1 \in 1..Len(batch) /\ i + 1 \in 1..Len(batch)
    BY <1>2, SMTT(30), SMTT(60)
  <2>2. batch[1].pos \in Positions /\ batch[i + 1].pos \in Positions
    BY <2>1 DEF RowsInv, BatchInv
  <2> QED
    BY <1>2, <2>2, SharedTypes DEF RowsInv
<1>5. i + 1 \in 1..Len(batch) /\ i + 1 # 1
  BY <1>2, SMTT(30), SMTT(60)
<1>6. InBatch(d, b) /\ Waiting(d, b)
  BY <1>2, <1>5 DEF InBatch, Waiting
<1> QED
  BY <1>2, <1>3, <1>4, <1>6, SMTT(30), SMTT(60)

\* A row that stays as it is.
LEMMA SameRowMild ==
    ASSUME TypeOK, NEW p \in Positions, outbox'[p] = outbox[p]
    PROVE  Mild(p)
  BY SharedTypes, SMTT(30), SMTT(60) DEF Mild

\* The batch stays, and so do the rows of the shard.
LEMMA FreshKept ==
    ASSUME RowsInv, SharedStep, NEW d \in Drains, FreshInv(d), run'[d].batch = run[d].batch,
           run[d].halted \subseteq run'[d].halted, run[d].pc = "marked" => run'[d].pc = "marked",
           \A p \in Positions : InShard(d, p) /\ run[d].batch # <<>> => Mild(p)
    PROVE  FreshInv(d)'
<1>1. SUFFICES ASSUME NEW b \in RowRead
               PROVE  /\ InBatch(d, b)' => Fresh(d, b)' /\ Clear(d, b)'
                      /\ Waiting(d, b)' => Counted(d, b)'
  BY DEF FreshInv, RowRead
<1>2. InBatch(d, b)' => InBatch(d, b)
  BY DEF InBatch
<1>3. Waiting(d, b)' => Waiting(d, b) /\ InBatch(d, b)
  BY DEF Waiting, InBatch
<1>4. ASSUME InBatch(d, b)
      PROVE  b.pos \in Positions /\ (InShard(d, b.pos) => Mild(b.pos))
  BY <1>4, BatchRows
<1>5. InBatch(d, b) => Fresh(d, b) /\ Clear(d, b)
  BY DEF FreshInv
<1>6. Waiting(d, b) => Counted(d, b)
  BY DEF FreshInv
<1>7. InBatch(d, b)' => Fresh(d, b)' /\ Clear(d, b)'
  BY <1>2, <1>4, <1>5, RowKept, ZenonT(60)
<1>8. Waiting(d, b)' => Counted(d, b)'
  BY <1>3, <1>4, <1>6, RowKept, ZenonT(60)
<1> QED
  BY <1>7, <1>8

\* The row in hand is done with; the others stay.
LEMMA FreshTail ==
    ASSUME RowsInv, SharedStep, NEW d \in Drains, FreshInv(d), run[d].batch # <<>>,
           run'[d].batch = Tail(run[d].batch), run[d].halted \subseteq run'[d].halted,
           \A p \in Positions : p # Current(d).pos => Mild(p)
    PROVE  FreshInv(d)'
<1>1. SUFFICES ASSUME NEW b \in RowRead, InBatch(d, b)'
               PROVE  Fresh(d, b)' /\ Clear(d, b)' /\ Counted(d, b)'
  BY DEF FreshInv, RowRead, Waiting, InBatch
<1>2. PICK i \in 1..Len(run'[d].batch) : run'[d].batch[i] = b
  BY <1>1 DEF InBatch
<1>3. InBatch(d, b) /\ Waiting(d, b) /\ b.pos # Current(d).pos
  <2>1. PICK s : s = Tail(run[d].batch)
    BY ZenonT(60)
  <2>2. i \in 1..Len(s) /\ s[i] = b
    BY <1>2, <2>1
  <2> QED
    BY <2>1, <2>2, TailRows
<1>4. b.pos \in Positions /\ Mild(b.pos)
  BY <1>3, BatchRows
<1>5. Fresh(d, b) /\ Clear(d, b) /\ Counted(d, b)
  BY <1>3 DEF FreshInv
<1> QED
  BY <1>4, <1>5, RowKept

\* FreshInv holds of an empty batch.
LEMMA FreshEmpty ==
    ASSUME NEW d \in Drains, run'[d].batch = <<>>
    PROVE  FreshInv(d)'
<1>1. Len(run'[d].batch) = 0
  BY SMTT(30), SMTT(60)
<1>2. \A b : ~InBatch(d, b)' /\ ~Waiting(d, b)'
  BY <1>1, SMTT(30), SMTT(60) DEF InBatch, Waiting
<1> QED
  BY <1>2 DEF FreshInv

\* What Fetch reads is right: an earlier event of the stream was delivered or
\* abandoned, or its row is dead, so the stream is quarantined or (in skip mode)
\* the row was announced.
LEMMA FreshRead ==
    ASSUME OneDrainPerShard, Inv, NEW d \in Drains, run[d].pc = "fetch",
           NEW p \in Eligible, InShard(d, p), SkipsUndisturbed, log[p] \notin run[d].halted
    PROVE  Earlier(p) \subseteq Excused
<1>0. RowsInv /\ TypeOK /\ LockInv /\ NothingLost /\ HaltInv(d) /\ AlertInv
  BY DEF Inv, RowsInv, DrainInv
<1>1. SUFFICES ASSUME NEW q \in Earlier(p)
               PROVE  q \in Excused
  OBVIOUS
<1>2. p \in Positions /\ q \in Positions /\ log[q] = log[p] /\ (Pending(q) => InDLQ(q))
  <2>1. p \in Positions /\ (Pending(q) => InDLQ(q))
    BY <1>1 DEF Eligible
  <2>2. q \in 1..(p - 1) /\ log[q] = log[p]
    BY <1>1 DEF Earlier
  <2>3. Positions = 1..Len(log) /\ Len(log) \in Nat
    BY <1>0, SharedTypes
  <2>4. q \in Positions
    BY <2>1, <2>2, <2>3, SMTT(30), SMTT(60)
  <2> QED
    BY <2>1, <2>2, <2>4
<1>3. InShard(d, q)
  BY <1>2 DEF InShard
<1>4. CASE ~Pending(q)
  BY <1>0, <1>2, <1>4 DEF Pending, NothingLost, Excused
<1>5. CASE InDLQ(q) /\ ~conf.autoResume
  <2>1. log[q] \in run[d].halted
    BY <1>0, <1>2, <1>3, <1>5 DEF HaltInv
  <2> QED
    BY <1>2, <2>1
<1>6. CASE InDLQ(q) /\ conf.autoResume
  <2>1. ASSUME NEW e \in Drains, run[e].pc = "marked", Current(e).pos = q
        PROVE  FALSE
    <3>1. run[e].batch # <<>> /\ ~Skipped(e)
      BY <1>0, <2>1 DEF RowsInv, BatchInv, InHand
    <3>2. Shard(e) = Shard(d)
      BY <1>3, <2>1, <3>1 DEF Skipped, StreamAt, InShard
    <3>3. e = d
      BY <1>0, <2>1, <3>2, Alone
    <3> QED
      BY <2>1, <3>3
  <2>2. q \in alerted
    BY <1>0, <1>2, <1>6, <2>1 DEF AlertInv
  <2> QED
    BY <1>6, <2>2 DEF Excused
<1> QED
  BY <1>2, <1>4, <1>5, <1>6

\* Every step keeps FreshInv, where drains have their shards to themselves.
LEMMA FreshStep ==
    ASSUME OneDrainPerShard, Inv, [Next]_vars, NEW d \in Drains
    PROVE  FreshInv(d)'
<1>0. RowsInv /\ TypeOK /\ LockInv /\ SharedStep /\ FreshInv(d) /\ QuietInv(d)
  BY Shares DEF Inv, RowsInv, DrainInv
<1>1. ASSUME outbox' = outbox
      PROVE  \A p \in Positions : Mild(p)
  BY <1>0, <1>1, SameRowMild
<1>2. CASE run'[d] = run[d]
  <2>1. ASSUME NEW p \in Positions, InShard(d, p), run[d].batch # <<>>
        PROVE  Mild(p)
    <3>1. run[d].pc # "idle"
      BY <1>0, <2>1 DEF QuietInv
    <3>2. ~MarkOutboxPublished(d) /\ ~MarkOutboxFailed(d)
      BY <1>0, <1>2, LocalStep DEF Local, MarkOutboxPublished, MarkOutboxFailed
    <3>3. ~MarkedOne(d, p)
      BY <3>2 DEF MarkedOne
    <3> QED
      BY <1>0, <2>1, <3>1, <3>3, Undisturbed
  <2> QED
    BY <1>0, <1>2, <2>1, FreshKept
<1>3. CASE Start(d) \/ ReadQuarantined(d)
  <2>1. run[d].batch = <<>>
    BY <1>0, <1>3 DEF Start, ReadQuarantined, QuietInv
  <2>2. run'[d].batch = <<>>
    BY <1>0, <1>3, <2>1, LocalStep, ZenonT(60) DEF Local
  <2> QED
    BY <2>2, FreshEmpty
<1>4. CASE PublishSucceeds(d) \/ PublishFails(d) \/ EndBatch(d)
  <2>1. outbox' = outbox /\ run[d].pc = "row"
    BY <1>4 DEF PublishSucceeds, PublishFails, EndBatch, AtRow
  <2>2. run'[d].batch = run[d].batch /\ run'[d].halted = run[d].halted
    BY <1>0, <1>4, LocalStep, ZenonT(60) DEF Local
  <2> QED
    BY <1>0, <1>1, <2>1, <2>2, FreshKept, ZenonT(60)
<1>5. CASE Skip(d) \/ AfterFailure(d)
  <2>1. outbox' = outbox /\ run[d].batch # <<>>
    BY <1>0, <1>5 DEF Skip, AtRow, AfterFailure, RowsInv, BatchInv, InHand
  <2>2. run'[d].batch = Tail(run[d].batch) /\ run[d].halted \subseteq run'[d].halted
    BY <1>0, <1>5, LocalStep, ZenonT(60) DEF Local
  <2> QED
    BY <1>0, <1>1, <2>1, <2>2, FreshTail, ZenonT(60)
<1>6. CASE MarkOutboxPublished(d)
  <2>1. run[d].batch # <<>>
    BY <1>0, <1>6 DEF MarkOutboxPublished, RowsInv, BatchInv, InHand
  <2>2. run'[d].batch = Tail(run[d].batch) /\ run[d].halted \subseteq run'[d].halted
    BY <1>0, <1>6, LocalStep, ZenonT(60) DEF Local
  <2>3. \A p \in Positions : p # Current(d).pos => Mild(p)
    BY <1>0, <1>6, MarkShares, SameRowMild
  <2> QED
    BY <1>0, <2>1, <2>2, <2>3, FreshTail
<1>7. CASE MarkOutboxFailed(d)
  <2>1. run'[d].batch = run[d].batch /\ run'[d].halted = run[d].halted /\ run'[d].pc = "marked"
    BY <1>0, <1>7, LocalStep, ZenonT(60) DEF Local
  <2>2. /\ \A p \in Positions : p # Current(d).pos => Mild(p)
        /\ MarkedOne(d, Current(d).pos)
    BY <1>0, <1>7, MarkShares, SameRowMild
  <2>3. run[d].pc = "failed" /\ run[d].batch # <<>>
    BY <1>0, <1>7 DEF MarkOutboxFailed, RowsInv, BatchInv, InHand
  <2>4. outbox'[Current(d).pos].published = outbox[Current(d).pos].published
    BY <2>2, <2>3 DEF MarkedOne, MarkOutboxPublished
  <2>5. ASSUME NEW b \in RowRead, InBatch(d, b)'
        PROVE  Fresh(d, b)' /\ Clear(d, b)'
    <3>1. InBatch(d, b)
      BY <2>1, <2>5 DEF InBatch
    <3>2. b.pos \in Positions /\ Fresh(d, b) /\ Clear(d, b)
      BY <1>0, <3>1, BatchRows DEF FreshInv
    <3>3. Mild(b.pos) \/ outbox'[b.pos].published = outbox[b.pos].published
      BY <2>2, <2>4, <3>2, ZenonT(60)
    <3> QED
      BY <1>0, <2>1, <3>2, <3>3, RowKept
  <2>6. ASSUME NEW b \in RowRead, Waiting(d, b)'
        PROVE  Counted(d, b)'
    <3>1. PICK i \in 1..Len(run[d].batch) : run[d].batch[i] = b /\ i # 1
      BY <2>1, <2>6 DEF Waiting
    <3>2. InBatch(d, b) /\ Waiting(d, b)
      BY <3>1 DEF InBatch, Waiting
    <3>3. b.pos \in Positions /\ Counted(d, b)
      BY <1>0, <3>2, BatchRows DEF FreshInv
    <3>4. b.pos # Current(d).pos
      <4>1. Current(d) = run[d].batch[1] /\ 1 \in 1..Len(run[d].batch) /\ 1 < i
        BY <1>0, <2>3, <3>1, HandType, SMTT(30), SMTT(60)
      <4>2. run[d].batch[1].pos < run[d].batch[i].pos
        BY <1>0, <4>1 DEF RowsInv, BatchInv
      <4>3. b.pos \in Nat
        BY <1>0, <3>3, SharedTypes
      <4> QED
        BY <3>1, <4>1, <4>2, <4>3, SMTT(30), SMTT(60)
    <3> QED
      BY <1>0, <2>2, <3>3, <3>4, RowKept
  <2> QED
    BY <2>5, <2>6 DEF FreshInv, RowRead
<1>8. CASE Fetch(d)
  <2>1. run'[d].batch = Batch /\ run'[d].halted = run[d].halted /\ run'[d].pc \in {"cleanup", "row"}
    BY <1>0, <1>8, LocalStep DEF Local
  <2>2. outbox' = outbox /\ run[d].pc = "fetch"
    BY <1>8 DEF Fetch
  <2>3. SUFFICES ASSUME NEW b \in RowRead, InBatch(d, b)'
                 PROVE  Fresh(d, b)' /\ Clear(d, b)' /\ Counted(d, b)'
    BY DEF FreshInv, RowRead, Waiting, InBatch
  <2>4. b.pos \in Eligible /\ b.attempts = outbox[b.pos].attempts
    <3>1. PICK i \in 1..Len(Batch) : Batch[i] = b
      BY <2>1, <2>3 DEF InBatch
    <3> QED
      BY <1>0, <3>1, BatchRead
  <2>5. b.pos \in Positions /\ Pending(b.pos)
    BY <2>4 DEF Eligible
  <2>6. Fresh(d, b)
    BY <2>5 DEF Fresh
  <2>7. Clear(d, b)
    BY <2>2, <2>4, FreshRead DEF Clear
  <2>8. Counted(d, b)
    BY <1>0, <2>4, <2>5, SharedTypes, SMTT(30), SMTT(60) DEF Counted
  <2>9. Mild(b.pos)
    BY <1>1, <2>2, <2>5
  <2> QED
    BY <1>0, <2>1, <2>5, <2>6, <2>7, <2>8, <2>9, RowKept
<1>9. CASE CleanupAndReturn(d) \/ Crash(d) \/ ReturnsError(d) \/ Cancel(d)
  BY <1>0, <1>9, LocalStep, FreshEmpty DEF Local
<1>10. run'[d] = run[d] \/ DrainStep(d) \/ Crash(d) \/ ReturnsError(d) \/ Cancel(d)
  BY <1>0, RunMoves
<1> QED
  BY <1>2, <1>3, <1>4, <1>5, <1>6, <1>7, <1>8, <1>9, <1>10, ZenonT(60) DEF DrainStep

\* A row becomes dead only by being marked.
LEMMA DeadRows ==
    ASSUME RowsInv, SharedStep, NEW q \in Positions', InDLQ(q)'
    PROVE  /\ q \in Positions
           /\ InDLQ(q) \/ \E e \in Drains : MarkedOne(e, q) /\ MarkOutboxFailed(e)
           /\ Mild(q) => InDLQ(q)
<1>0. MaxAttempts \in Nat \ {0} /\ TypeOK
  BY OutboxAssumption DEF RowsInv
<1>1. q \in Positions
  <2>1. outbox'[q] = NewRow => outbox'[q].attempts = 0
    BY SMTT(30), SMTT(60) DEF NewRow
  <2> QED
    BY <1>0, <2>1, SMTT(30), SMTT(60) DEF SharedStep, InDLQ
<1>2. outbox[q].attempts \in Nat /\ outbox'[q].attempts \in Nat
  <2>1. outbox' \in Seq(RowType) /\ q \in 1..Len(outbox')
    BY DEF SharedStep, Positions
  <2>2. outbox'[q] \in RowType
    BY <2>1, SMTT(30), SMTT(60)
  <2> QED
    BY <1>0, <1>1, <2>2, SharedTypes, ZenonT(60) DEF RowType
<1>3. Mild(q) => InDLQ(q)
  BY <1>0, <1>2, SMTT(30), SMTT(60) DEF Mild, InDLQ, Pending
<1>4. ASSUME NEW e \in Drains, MarkedOne(e, q)
      PROVE  MarkOutboxFailed(e)
  BY <1>4 DEF MarkedOne, InDLQ, Pending
<1> QED
  BY <1>1, <1>3, <1>4, ZenonT(60) DEF SharedStep

\* Every step keeps HaltInv.
LEMMA HaltStep ==
    ASSUME OneDrainPerShard, Inv, [Next]_vars, NEW d \in Drains
    PROVE  HaltInv(d)'
<1>0. RowsInv /\ TypeOK /\ LockInv /\ SharedStep /\ HaltInv(d) /\ conf' = conf
  BY Shares DEF Inv, RowsInv, DrainInv, SharedStep
<1>1. SUFFICES ASSUME ~conf.autoResume, run'[d].pc \notin {"idle", "start"},
                      NEW q \in Positions', InDLQ(q)', InShard(d, q)'
               PROVE  log'[q] \in run'[d].halted \/ (run'[d].pc = "marked" /\ q = Current(d)'.pos)
  BY <1>0 DEF HaltInv
<1>2. q \in Positions /\ InShard(d, q) /\ log'[q] = log[q] /\ (Mild(q) => InDLQ(q))
  BY <1>0, <1>1, DeadRows, SameShard, ZenonT(60) DEF SharedStep
<1>3. CASE ReadQuarantined(d)
  <2>1. run'[d].halted = QuarantinedStreams /\ outbox' = outbox
    BY <1>0, <1>1, <1>3, LocalStep, ZenonT(60) DEF Local, ReadQuarantined
  <2>2. InDLQ(q)
    BY <1>1, <2>1 DEF InDLQ, Pending
  <2> QED
    BY <1>2, <2>1, <2>2 DEF QuarantinedStreams
<1>4. CASE ~ReadQuarantined(d)
  <2>1. run[d].pc \notin {"idle", "start"}
    <3>1. CASE run'[d] = run[d]
      BY <1>1, <3>1
    <3>2. CASE Start(d)
      BY <1>0, <1>1, <3>2, LocalStep, ZenonT(60) DEF Local
    <3>3. CASE CleanupAndReturn(d) \/ Crash(d) \/ ReturnsError(d) \/ Cancel(d)
      BY <1>0, <1>1, <3>3, LocalStep, ZenonT(60) DEF Local
    <3>4. CASE \/ Fetch(d) \/ Skip(d) \/ PublishSucceeds(d) \/ PublishFails(d)
               \/ MarkOutboxPublished(d) \/ MarkOutboxFailed(d) \/ AfterFailure(d) \/ EndBatch(d)
      BY <3>4 DEF Fetch, Skip, PublishSucceeds, PublishFails, MarkOutboxPublished,
         MarkOutboxFailed, AfterFailure, EndBatch, AtRow
    <3>5. run'[d] = run[d] \/ DrainStep(d) \/ Crash(d) \/ ReturnsError(d) \/ Cancel(d)
      BY <1>0, RunMoves
    <3> QED
      BY <1>4, <3>1, <3>2, <3>3, <3>4, <3>5, ZenonT(60) DEF DrainStep
  <2>2. CASE MarkedOne(d, q)
    <3>1. MarkOutboxFailed(d)
      BY <1>1, <2>2, ZenonT(60) DEF MarkedOne, InDLQ, Pending
    <3>2. run'[d].batch = run[d].batch /\ run'[d].pc = "marked"
      BY <1>0, <3>1, LocalStep, ZenonT(60) DEF Local
    <3>3. Current(d)' = Current(d)
      BY <3>2 DEF Current
    <3> QED
      BY <2>2, <3>2, <3>3 DEF MarkedOne
  <2>3. CASE Mild(q)
    <3>1. log[q] \in run[d].halted \/ (run[d].pc = "marked" /\ q = Current(d).pos)
      BY <1>0, <1>1, <1>2, <2>1, <2>3 DEF HaltInv
    <3>2. CASE run'[d] = run[d]
      <4>1. Current(d)' = Current(d)
        BY <3>2 DEF Current
      <4> QED
        BY <1>2, <3>1, <3>2, <4>1
    <3>3. CASE AfterFailure(d)
      <4>1. PICK h \in SUBSET Streams :
                Local(d, "row", h, Tail(run[d].batch)) /\ run[d].halted \subseteq h /\ StreamAt(d) \in h
        BY <1>0, <1>1, <3>3, LocalStep, ZenonT(60)
      <4> QED
        BY <1>2, <3>1, <4>1 DEF Local, StreamAt
    <3>4. CASE \/ Fetch(d) \/ Skip(d) \/ PublishSucceeds(d) \/ PublishFails(d)
               \/ MarkOutboxPublished(d) \/ MarkOutboxFailed(d) \/ EndBatch(d)
      <4>1. run[d].pc # "marked"
        BY <3>4 DEF Fetch, Skip, PublishSucceeds, PublishFails, MarkOutboxPublished,
           MarkOutboxFailed, EndBatch, AtRow
      <4>2. run'[d].halted = run[d].halted
        BY <1>0, <3>4, LocalStep, ZenonT(60) DEF Local
      <4> QED
        BY <1>2, <3>1, <4>1, <4>2
    <3>5. CASE CleanupAndReturn(d) \/ Crash(d) \/ ReturnsError(d) \/ Cancel(d) \/ Start(d)
      BY <1>0, <1>1, <3>5, LocalStep, ZenonT(60) DEF Local
    <3>6. run'[d] = run[d] \/ DrainStep(d) \/ Crash(d) \/ ReturnsError(d) \/ Cancel(d)
      BY <1>0, RunMoves
    <3> QED
      BY <1>4, <3>2, <3>3, <3>4, <3>5, <3>6, ZenonT(60) DEF DrainStep
  <2> QED
    BY <1>0, <1>2, <2>1, <2>2, <2>3, Undisturbed
<1> QED
  BY <1>3, <1>4

\* Every step keeps CrossInv.
LEMMA CrossStep ==
    ASSUME OneDrainPerShard, Inv, [Next]_vars, NEW d \in Drains
    PROVE  CrossInv(d)'
<1>0. RowsInv /\ TypeOK /\ LockInv /\ SharedStep /\ FreshInv(d) /\ CrossInv(d) /\ BatchInv(d)
  BY Shares DEF Inv, RowsInv, DrainInv
<1>1. SUFFICES ASSUME run'[d].pc = "marked", InDLQ(Current(d).pos)'
               PROVE  CrossedDLQ(d)'
  BY ZenonT(60) DEF CrossInv
<1>2. CASE run'[d] = run[d]
  <2>1. Current(d)' = Current(d) /\ run[d].pc = "marked"
    BY <1>1, <1>2 DEF Current
  <2>2. run[d].batch # <<>> /\ ~Skipped(d) /\ Current(d).pos \in Positions
    BY <1>0, <2>1, HandType DEF BatchInv, InHand
  <2>3. PICK p : p = Current(d).pos
    OBVIOUS
  <2>4. InDLQ(p)' /\ p \in Positions /\ p \in Positions' /\ InShard(d, p)
    BY <1>0, <1>1, <2>1, <2>2, <2>3 DEF InDLQ, Pending, SharedStep, Skipped, StreamAt, InShard
  <2>5. ~MarkedOne(d, p)
    BY <2>1 DEF MarkedOne, MarkOutboxPublished, MarkOutboxFailed
  <2>6. InDLQ(p)
    BY <1>0, <2>1, <2>4, <2>5, Undisturbed, DeadRows
  <2>7. CrossedDLQ(d)
    BY <1>0, <2>1, <2>3, <2>6 DEF CrossInv
  <2> QED
    BY <2>1, <2>7 DEF CrossedDLQ
<1>3. CASE MarkOutboxFailed(d)
  <2>1. run'[d].batch = run[d].batch
    BY <1>0, <1>3, LocalStep, ZenonT(60) DEF Local
  <2>2. Current(d)' = Current(d)
    BY <2>1 DEF Current
  <2>3. /\ run[d].batch # <<>> /\ ~Skipped(d) /\ run[d].pc = "failed"
        /\ Current(d).pos \in Positions /\ Current(d).attempts \in Nat
        /\ Current(d) = run[d].batch[1] /\ Len(run[d].batch) \in Nat \ {0}
    BY <1>0, <1>3, HandType DEF BatchInv, InHand, MarkOutboxFailed
  <2>4. PICK b : b = Current(d)
    OBVIOUS
  <2>5. b \in RowRead
    <3>1. run[d].batch \in Seq(RowRead)
      BY <1>0, ZenonT(60) DEF TypeOK, RunType, RowRead
    <3> QED
      BY <2>3, <2>4, <3>1, SMTT(30), SMTT(60)
  <2>6. 1 \in 1..Len(run[d].batch)
    BY <2>3, SMTT(30), SMTT(60)
  <2>7. Waiting(d, b) /\ InShard(d, b.pos)
    BY <2>3, <2>4, <2>6 DEF Waiting, Skipped, StreamAt, InShard
  <2>8. outbox[b.pos].attempts <= b.attempts
    BY <1>0, <2>5, <2>7 DEF FreshInv, Counted
  <2>9. outbox'[b.pos].attempts = outbox[b.pos].attempts + 1
    BY <1>0, <1>3, <2>3, <2>4, MarkShares, ZenonT(60) DEF MarkedOne, MarkOutboxPublished
  <2>10. outbox'[b.pos].attempts >= MaxAttempts
    BY <1>1, <2>2, <2>4 DEF InDLQ
  <2>11. outbox[b.pos].attempts \in Nat /\ b.attempts \in Nat /\ MaxAttempts \in Nat
    BY <1>0, <2>3, <2>4, SharedTypes, OutboxAssumption
  <2>12. b.attempts + 1 >= MaxAttempts
    BY <2>8, <2>9, <2>10, <2>11, SMTT(30), SMTT(60)
  <2> QED
    BY <2>2, <2>4, <2>12 DEF CrossedDLQ
<1>4. ASSUME run'[d] # run[d], ~MarkOutboxFailed(d)
      PROVE  run'[d].pc # "marked"
  <2>1. DrainStep(d) \/ Crash(d) \/ ReturnsError(d) \/ Cancel(d)
    BY <1>0, <1>4, RunMoves
  <2> QED
    BY <1>0, <1>4, <2>1, LocalStep DEF Local, DrainStep
<1> QED
  BY <1>1, <1>2, <1>3, <1>4, ZenonT(60)

\* Every step keeps AlertInv.
LEMMA AlertStep ==
    ASSUME OneDrainPerShard, Inv, [Next]_vars
    PROVE  AlertInv'
<1>0. RowsInv /\ TypeOK /\ SharedStep /\ AlertInv /\ conf' = conf /\ \A d \in Drains : CrossInv(d)
  BY Shares DEF Inv, RowsInv, DrainInv, SharedStep
<1>1. SUFFICES ASSUME conf.autoResume, conf.faults \subseteq {"operator"}, NEW q \in Positions', InDLQ(q)'
               PROVE  \/ q \in alerted'
                      \/ \E d \in Drains : run'[d].pc = "marked" /\ Current(d)'.pos = q
  BY <1>0 DEF AlertInv, SkipsUndisturbed
<1>2. q \in Positions /\ (InDLQ(q) \/ \E e \in Drains : MarkedOne(e, q) /\ MarkOutboxFailed(e))
  BY <1>0, <1>1, DeadRows
<1>3. CASE \E e \in Drains : MarkedOne(e, q) /\ MarkOutboxFailed(e)
  <2>1. PICK e \in Drains : MarkedOne(e, q) /\ MarkOutboxFailed(e)
    BY <1>3
  <2>2. run'[e].pc = "marked" /\ run'[e].batch = run[e].batch
    BY <1>0, <2>1, LocalStep, ZenonT(60) DEF Local
  <2>3. Current(e)' = Current(e)
    BY <2>2 DEF Current
  <2> QED
    BY <2>1, <2>2, <2>3 DEF MarkedOne
<1>4. CASE InDLQ(q)
  <2>1. CASE q \in alerted
    BY <1>0, <2>1 DEF SharedStep
  <2>2. CASE \E e \in Drains : run[e].pc = "marked" /\ Current(e).pos = q
    <3>1. PICK e \in Drains : run[e].pc = "marked" /\ Current(e).pos = q
      BY <2>2
    <3>2. CASE run'[e] = run[e]
      <4>1. Current(e)' = Current(e)
        BY <3>2 DEF Current
      <4> QED
        BY <3>1, <3>2, <4>1
    <3>3. CASE AfterFailure(e)
      <4>1. CrossedDLQ(e)
        BY <1>0, <1>4, <3>1 DEF CrossInv
      <4> QED
        BY <3>1, <3>3, <4>1 DEF AfterFailure
    <3>4. ~Crash(e) /\ ~ReturnsError(e) /\ ~Cancel(e)
      BY <1>1 DEF Crash, ReturnsError, Cancel
    <3>5. DrainStep(e) => AfterFailure(e)
      BY <3>1 DEF DrainStep, Start, ReadQuarantined, Fetch, Skip, PublishSucceeds,
         PublishFails, AtRow, MarkOutboxPublished, MarkOutboxFailed, EndBatch, CleanupAndReturn
    <3> QED
      BY <1>0, <3>2, <3>3, <3>4, <3>5, RunMoves
  <2> QED
    BY <1>0, <1>1, <1>2, <1>4, <2>1, <2>2, ZenonT(60) DEF AlertInv, SkipsUndisturbed
<1> QED
  BY <1>2, <1>3, <1>4

\* Every step keeps OrderInv.
LEMMA OrderStep ==
    ASSUME Inv, [Next]_vars
    PROVE  OrderInv'
<1>0. RowsInv /\ TypeOK /\ SharedStep /\ OrderInv /\ delivered \subseteq Positions
  BY Shares DEF Inv, RowsInv, TypeOK
<1>1. \A p \in Positions : /\ Earlier(p)' = Earlier(p)
                           /\ Excused \subseteq Excused' /\ (SkipsUndisturbed' <=> SkipsUndisturbed)
  <2>1. CASE Drains = {}
    <3>1. \A p \in Positions : \A q \in 1..(p - 1) : q \in Positions
      BY <1>0, SharedTypes, SMTT(30), SMTT(60)
    <3> QED
      BY <1>0, <3>1 DEF Earlier, Excused, SharedStep, SkipsUndisturbed
  <2>2. CASE Drains # {}
    <3>1. PICK d \in Drains : TRUE
      BY <2>2
    <3> QED
      BY <1>0, <3>1, SameShard
  <2> QED
    BY <2>1, <2>2
<1>2. ASSUME SkipsUndisturbed, NEW p \in delivered
      PROVE  p \in Positions /\ Earlier(p)' \subseteq Excused'
  BY <1>0, <1>1, <1>2 DEF OrderInv
<1>3. ASSUME NEW d \in Drains, PublishSucceeds(d) \/ PublishFails(d), SkipsUndisturbed
      PROVE  LET p == Current(d).pos IN p \in Positions /\ Earlier(p) \subseteq Excused
  <2>1. run[d].batch # <<>> /\ ~Skipped(d)
    BY <1>3 DEF PublishSucceeds, PublishFails, AtRow
  <2>2. /\ Current(d).pos \in Positions /\ Current(d) = run[d].batch[1]
        /\ Len(run[d].batch) \in Nat \ {0}
    BY <1>0, <2>1, HandType
  <2>3. PICK b : b = Current(d)
    OBVIOUS
  <2>4. b \in RowRead
    <3>1. run[d].batch \in Seq(RowRead)
      BY <1>0 DEF TypeOK, RunType, RowRead
    <3> QED
      BY <2>2, <2>3, <3>1, SMTT(30), SMTT(60)
  <2>5. 1 \in 1..Len(run[d].batch)
    BY <2>2, SMTT(30), SMTT(60)
  <2>6. InBatch(d, b)
    BY <2>2, <2>3, <2>5 DEF InBatch
  <2>7. Clear(d, b)
    BY <2>4, <2>6 DEF Inv, DrainInv, FreshInv
  <2> QED
    BY <1>3, <2>1, <2>2, <2>3, <2>7, ZenonT(60) DEF Clear, Skipped, StreamAt, InShard
<1>4. delivered' = delivered \/ \E d \in Drains : /\ PublishSucceeds(d) \/ PublishFails(d)
                                                  /\ delivered' \subseteq delivered \cup {Current(d).pos}
  <2>1. ASSUME NEW d \in Drains, PublishSucceeds(d) \/ PublishFails(d)
        PROVE  delivered' \subseteq delivered \cup {Current(d).pos}
    BY <2>1 DEF PublishSucceeds, PublishFails
  <2>2. CASE \/ \E s \in Streams : AppendEvent(s)
             \/ \E p \in Positions : BackoffExpires(p) \/ ReplayDLQ(p) \/ AbandonDLQ(p)
             \/ \E d \in Drains : \/ Start(d) \/ ReadQuarantined(d) \/ Fetch(d) \/ Skip(d) \/ EndBatch(d)
                                  \/ MarkOutboxPublished(d) \/ MarkOutboxFailed(d) \/ CleanupAndReturn(d)
                                  \/ AfterFailure(d) \/ Crash(d) \/ ReturnsError(d) \/ Cancel(d)
             \/ ReplayAllDLQ \/ (\E sh \in Shards : SessionEnds(sh)) \/ UNCHANGED vars
    BY <2>2 DEF AppendEvent, BackoffExpires, ReplayDLQ, AbandonDLQ, ReplayAllDLQ, SessionEnds, vars,
              Start, ReadQuarantined, Fetch, Skip, EndBatch, MarkOutboxPublished, MarkOutboxFailed,
              CleanupAndReturn, AfterFailure, Crash, ReturnsError, Cancel
  <2> QED
    BY <2>1, <2>2 DEF Next, NormalStep, Fault, Operator, DrainStep
<1>5. SUFFICES ASSUME SkipsUndisturbed', NEW p \in delivered'
               PROVE  Earlier(p)' \subseteq Excused'
  BY DEF OrderInv
<1>6. SkipsUndisturbed
  BY <1>0, <1>5 DEF SkipsUndisturbed, SharedStep
<1>7. CASE p \in delivered
  BY <1>2, <1>6, <1>7
<1>8. CASE p \notin delivered
  <2>1. PICK d \in Drains : (PublishSucceeds(d) \/ PublishFails(d)) /\ p = Current(d).pos
    BY <1>4, <1>5, <1>8
  <2>2. p \in Positions /\ Earlier(p) \subseteq Excused
    BY <1>3, <1>6, <2>1
  <2> QED
    BY <1>1, <2>2
<1> QED
  BY <1>7, <1>8

-------------------------------------------------------------------------------
(* The theorems *)

INSTANCE OrderingProofs

\* The facts about ordered sets, from OrderingProofs.
LEMMA OrderFactsHold == OrderFacts
<1> SUFFICES ASSUME NEW S \in SUBSET (1..MaxEvents)
             PROVE  /\ Cardinality(S) \in Nat
                    /\ InOrder(S) \in Seq(S) /\ Len(InOrder(S)) = Cardinality(S)
                    /\ \A i, j \in 1..Cardinality(S) : i < j => InOrder(S)[i] < InOrder(S)[j]
  BY DEF OrderFacts
<1>1. MaxEvents \in Nat
  BY OutboxAssumption
<1>2. S \in SUBSET Nat /\ \A y \in S : y <= MaxEvents
  BY <1>1, SMTT(30), SMTT(60)
<1> QED
  BY <1>1, <1>2, InOrderLists

\* The initial state has no rows.
LEMMA InitRows ==
    ASSUME Init
    PROVE  RowsInv
<1>1. Len(log) = 0 /\ Positions = {}
  BY SMTT(30), SMTT(60) DEF Init, Positions
<1>2. conf \in Config /\ conf \in Configs
  BY OutboxAssumption DEF Init
<1>3. Idle \in RunType
  BY SMTT(30), SMTT(60) DEF Idle, RunType
<1>4. TypeOK
  <2>1. log \in Seq(Streams) /\ outbox \in Seq(RowType) /\ Len(outbox) = Len(log) /\ Len(log) <= MaxEvents
    BY OutboxAssumption, SMTT(30), SMTT(60) DEF Init
  <2>2. lock \in [Shards -> Drains \cup {None}] /\ run \in [Drains -> RunType]
    BY <1>3 DEF Init
  <2> QED
    BY <1>2, <2>1, <2>2 DEF Init, TypeOK
<1>5. \A d \in Drains : run[d].batch = <<>> /\ run[d].pc = "idle"
  BY DEF Init, Idle
<1>6. \A d \in Drains : BatchInv(d)
  BY <1>5, SMTT(30), SMTT(60) DEF BatchInv, InHand
<1> QED
  BY <1>1, <1>2, <1>4, <1>6, OrderFactsHold, ZenonT(60) DEF RowsInv, NothingLost

\* RowsInv is an invariant.
LEMMA RowsInvariant ==
    Spec => []RowsInv
<1>1. RowsInv /\ [Next]_vars => RowsInv'
  BY RowsStep
<1> QED
  BY <1>1, InitRows, PTL DEF Spec

\* The type invariant of the drain.
THEOREM DrainTypeCorrect ==
    Spec => []TypeOK
<1>1. RowsInv => TypeOK
  BY ZenonT(60) DEF RowsInv
<1> QED
  BY <1>1, RowsInvariant, PTL

\* At-least-once (Drain.Run, CleanupPublished): whatever drains, operators, crashes,
\* cancellations and errors do, no row is closed or deleted unless its event was
\* delivered or abandoned.
THEOREM DrainLosesNothing ==
    Spec => []NothingLost
<1>1. RowsInv => NothingLost
  BY DEF RowsInv
<1> QED
  BY <1>1, RowsInvariant, PTL

\* In the initial state no drain has begun.
LEMMA InitDrains ==
    ASSUME Init
    PROVE  Inv
<1>1. Positions = {} /\ delivered = {}
  BY SMTT(30), SMTT(60) DEF Init, Positions
<1>2. \A d \in Drains : run[d].pc = "idle" /\ run[d].batch = <<>> /\ Len(run[d].batch) = 0
  BY DEF Init, Idle
<1>3. \A d \in Drains : QuietInv(d) /\ HaltInv(d) /\ CrossInv(d)
  BY <1>2 DEF QuietInv, HaltInv, CrossInv
<1>4. \A d \in Drains : FreshInv(d)
  BY <1>2, SMTT(30), SMTT(60) DEF FreshInv, InBatch, Waiting
<1> QED
  BY <1>1, <1>2, <1>3, <1>4, InitRows, SMTT(30), SMTT(60) DEF Inv, LockInv, DrainInv, AlertInv, OrderInv

\* Inv is an invariant, where drains have their shards to themselves.
LEMMA DrainInvariant ==
    ASSUME OneDrainPerShard
    PROVE  Spec => []Inv
<1>1. Inv /\ [Next]_vars => Inv'
  <2>1. SUFFICES ASSUME Inv, [Next]_vars PROVE Inv'
    OBVIOUS
  <2>2. \A d \in Drains : QuietInv(d)'
    BY <2>1, QuietStep DEF Inv, DrainInv
  <2>3. \A d \in Drains : FreshInv(d)' /\ HaltInv(d)' /\ CrossInv(d)'
    BY <2>1, FreshStep, HaltStep, CrossStep
  <2>4. RowsInv' /\ LockInv'
    BY <2>1, RowsStep, LockStep DEF Inv
  <2>5. AlertInv' /\ OrderInv'
    BY <2>1, AlertStep, OrderStep
  <2> QED
    BY <2>2, <2>3, <2>4, <2>5 DEF Inv, DrainInv
<1> QED
  BY <1>1, InitDrains, PTL DEF Spec

\* Per-stream order and quarantine (Delivery contract of Drain), with the drain lock or
\* one drain per shard: an event is delivered only after the earlier events of its
\* stream, abandoned ones aside.
THEOREM DrainDeliversInOrder ==
    ASSUME OneDrainPerShard
    PROVE  Spec => []DeliveredInOrder
<1>1. Inv => DeliveredInOrder
  <2>1. SUFFICES ASSUME Inv, ~conf.autoResume, NEW p \in delivered
                 PROVE  Earlier(p) \subseteq delivered \cup abandoned
    BY DEF DeliveredInOrder
  <2> QED
    BY <2>1 DEF Inv, OrderInv, SkipsUndisturbed, Excused
<1> QED
  BY <1>1, DrainInvariant, PTL

\* Exclusiveness of the drains of a shard (acquireLock): a row about to be published
\* was not published meanwhile.
THEOREM DrainRowsNotStale ==
    ASSUME OneDrainPerShard
    PROVE  Spec => []NoStaleRows
<1>1. Inv => NoStaleRows
  <2>1. SUFFICES ASSUME Inv, NEW d \in Drains, AtRow(d), ~Skipped(d)
                 PROVE  Pending(Current(d).pos) \/ Current(d).pos \in abandoned
    BY DEF NoStaleRows
  <2>2. RowsInv /\ TypeOK /\ FreshInv(d) /\ run[d].batch # <<>>
    BY <2>1 DEF Inv, RowsInv, DrainInv, AtRow
  <2>3. Current(d) = run[d].batch[1] /\ Len(run[d].batch) \in Nat \ {0}
    BY <2>2, HandType
  <2>4. run[d].batch \in Seq(RowRead)
    BY <2>2, ZenonT(60) DEF TypeOK, RunType, RowRead
  <2>5. Current(d) \in RowRead /\ 1 \in 1..Len(run[d].batch)
    BY <2>3, <2>4, SMTT(30), SMTT(60)
  <2>6. InBatch(d, Current(d))
    BY <2>3, <2>5 DEF InBatch
  <2>7. Fresh(d, Current(d))
    BY <2>2, <2>5, <2>6 DEF FreshInv
  <2> QED
    BY <2>1, <2>7 DEF Fresh, Skipped, StreamAt, InShard
<1> QED
  BY <1>1, DrainInvariant, PTL

\* Skip mode (AutoResumeAfterDLQ) with undisturbed drains, one per shard: subscribers
\* miss an event only if OnDLQ was called for it, even while operators replay rows.
THEOREM DrainAlertsGaps ==
    ASSUME OneDrainPerShard, \A c \in Configs : c.autoResume => c.faults \subseteq {"operator"}
    PROVE  Spec => []GapsAreAlerted
<1>1. Inv => GapsAreAlerted
  <2>1. SUFFICES ASSUME Inv, conf.autoResume, NEW p \in delivered
                 PROVE  Earlier(p) \subseteq delivered \cup abandoned \cup alerted
    BY DEF GapsAreAlerted
  <2>2. SkipsUndisturbed
    BY <2>1 DEF Inv, RowsInv, SkipsUndisturbed
  <2> QED
    BY <2>1, <2>2 DEF Inv, OrderInv, Excused
<1> QED
  BY <1>1, DrainInvariant, PTL
===============================================================================
