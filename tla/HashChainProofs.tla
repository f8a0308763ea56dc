---------------------------- MODULE HashChainProofs ----------------------------
(***************************************************************************)
(* RebuildStreamChain, for any number of concurrent rebuilds, rows and     *)
(* appends: a rebuild that returns nil leaves a verified chain, no hash is *)
(* ever overwritten, and none is reported broken that is not.              *)
(*                                                                         *)
(* The walk works on a copy that others make stale.  RebuildInv says in    *)
(* what sense it stays good: rows never lose what the copy shows, and the  *)
(* rows already walked form a chain that ends in prev.  LinkInv says what  *)
(* the rows look like between the walks: until an append forks the chain,  *)
(* the rows with a hash are a chain from row 1.                            *)
(***************************************************************************)
EXTENDS HashChain, TLAPS

USE Zenon

\* The hash that row v must link to.
PrevOf(v) == IF v = 1 THEN ZeroHash ELSE rows[v - 1].hash

\* The first n rows are linked, and none of their hashes is missing.
Chained(n) == Intact(n) /\ \A v \in 1..n : rows[v].hash # Null

\* The copy a rebuild works on is an older version of the stream.
CopyOf(envs) ==
    /\ Len(envs) <= Len(rows)
    /\ \A v \in 1..Len(envs) :
          /\ envs[v].data = rows[v].data
          /\ envs[v].hash # Null => envs[v].hash = rows[v].hash

\* What a rebuild has read is a copy of the rows, and what it walked is chained.
WalkOK(r) ==
    /\ CopyOf(rb[r].envs)
    /\ rb[r].pc = "walk" =>
          /\ rb[r].next \in 1..(Len(rb[r].envs) + 1)
          /\ Chained(rb[r].next - 1)
          /\ rb[r].prev = PrevOf(rb[r].next)
    /\ rb[r].pc = "ok" => Chained(Len(rb[r].envs))

\* The inductive invariant of the rebuilds.
RebuildInv == TypeOK /\ \A r \in Rebuilders : WalkOK(r)

\* The variables of a rebuild.
CallType == [pc : {"idle", "walk", "ok", "raced", "broken"}, envs : Seq(Row), next : Nat, prev : Hash]

\* Rows are only added, and only hashes that were NULL change.
Grows ==
    /\ Len(rows) <= Len(rows')
    /\ \A v \in 1..Len(rows) :
          /\ rows'[v].data = rows[v].data
          /\ rows[v].hash # Null => rows'[v].hash = rows[v].hash

\* A computed hash is a hash, and not the missing one.
LEMMA HashIsNotNull ==
    ASSUME NEW prev \in Hash, NEW data \in Data
    PROVE  ComputeChainHash(prev, data) \in Hash /\ ComputeChainHash(prev, data) # Null
BY HashChainAssumption, SMTT(30), SMTT(60) DEF Hash, ComputeChainHash

\* The hash that the first row links to.
LEMMA ZeroIsHash == ZeroHash \in Hash
BY SMTT(30), SMTT(60) DEF ZeroHash, Hash

\* A chained prefix stays one, and a copy stays a copy.
LEMMA ChainStays ==
    ASSUME TypeOK, Grows, NEW n \in Nat, n <= Len(rows), Chained(n)
    PROVE  Chained(n)'
<1>0. Len(rows) \in Nat
  BY SMTT(30), SMTT(60) DEF TypeOK
<1>1. \A v \in 1..n : rows'[v].hash = rows[v].hash /\ rows'[v].data = rows[v].data
  BY <1>0, SMTT(30), SMTT(60) DEF Grows, Chained
<1>2. ASSUME NEW v \in 1..n
      PROVE  rows'[v].hash = ComputeChainHash(IF v = 1 THEN ZeroHash ELSE rows'[v - 1].hash, rows'[v].data)
  <2>1. rows[v].hash = ComputeChainHash(IF v = 1 THEN ZeroHash ELSE rows[v - 1].hash, rows[v].data)
    BY DEF Chained, Intact
  <2>2. v # 1 => rows'[v - 1].hash = rows[v - 1].hash
    BY <1>1, SMTT(30), SMTT(60)
  <2> QED
    BY <1>1, <2>1, <2>2
<1> QED
  BY <1>1, <1>2 DEF Chained, Intact

\* A copy of the rows stays one when rows are appended.
LEMMA CopyStays ==
    ASSUME TypeOK, Grows, NEW envs \in Seq(Row), CopyOf(envs), Len(rows') \in Nat
    PROVE  CopyOf(envs)'
<1>0. Len(rows) \in Nat /\ Len(envs) \in Nat
  BY SMTT(30), SMTT(60) DEF TypeOK
<1> QED
  BY <1>0, SMTT(30), SMTT(60) DEF CopyOf, Grows

\* What a call knows survives what others do to the rows.
LEMMA WalkStays ==
    ASSUME RebuildInv, Grows, Len(rows') \in Nat, NEW r \in Rebuilders, rb'[r] = rb[r]
    PROVE  WalkOK(r)'
<1>0. /\ TypeOK /\ WalkOK(r) /\ Len(rows) \in Nat
      /\ rb[r].envs \in Seq(Row) /\ Len(rb[r].envs) \in Nat /\ rb[r].next \in Nat
  BY SMTT(30), SMTT(60) DEF RebuildInv, TypeOK
<1>1. CopyOf(rb[r].envs)'
  <2>1. PICK envs \in Seq(Row) : envs = rb[r].envs /\ CopyOf(envs)
    BY <1>0 DEF WalkOK
  <2>2. CopyOf(envs)'
    BY <1>0, <2>1, CopyStays, SMTT(30), SMTT(60)
  <2>3. rb'[r].envs = envs
    BY <2>1
  <2> QED
    BY <2>2, <2>3 DEF CopyOf
<1>2. Len(rb[r].envs) <= Len(rows)
  BY <1>0 DEF WalkOK, CopyOf
<1>3. ASSUME rb[r].pc = "walk"
      PROVE  /\ rb'[r].next \in 1..(Len(rb'[r].envs) + 1)
             /\ Chained(rb[r].next - 1)'
             /\ rb'[r].prev = PrevOf(rb[r].next)'
  <2>1. rb[r].next \in 1..(Len(rb[r].envs) + 1) /\ Chained(rb[r].next - 1) /\ rb[r].prev = PrevOf(rb[r].next)
    BY <1>0, <1>3 DEF WalkOK
  <2> DEFINE n == rb[r].next - 1
  <2>2. n \in Nat /\ n <= Len(rows)
    BY <1>0, <1>2, <2>1, SMTT(30), SMTT(60)
  <2>3. PICK m \in Nat : m = n
    BY <2>2
  <2>4. Chained(m)' /\ (m # 0 => rows'[m].hash = rows[m].hash)
    <3>1. m <= Len(rows) /\ Chained(m)
      BY <2>1, <2>2, <2>3
    <3>2. Chained(m)'
      BY <1>0, <3>1, ChainStays
    <3>3. m # 0 => m \in 1..m
      BY SMTT(30), SMTT(60)
    <3> QED
      BY <1>0, <3>1, <3>2, <3>3, SMTT(30), SMTT(60) DEF Chained, Grows
  <2>5. Chained(rb[r].next - 1)'
    BY <2>3, <2>4
  <2>6. rb'[r].prev = PrevOf(rb[r].next)'
    <3>1. CASE rb[r].next = 1
      BY <2>1, <3>1 DEF PrevOf
    <3>2. CASE rb[r].next # 1
      BY <1>0, <2>1, <2>3, <2>4, <3>2, SMTT(30), SMTT(60) DEF PrevOf
    <3> QED
      BY <3>1, <3>2
  <2> QED
    BY <2>1, <2>5, <2>6
<1>4. ASSUME rb[r].pc = "ok" PROVE Chained(Len(rb[r].envs))'
  <2>1. PICK m \in Nat : m = Len(rb[r].envs)
    BY <1>0
  <2>2. Chained(m)'
    BY <1>0, <1>2, <1>4, <2>1, ChainStays DEF WalkOK
  <2> QED
    BY <2>1, <2>2
<1> QED
  BY <1>1, <1>3, <1>4 DEF WalkOK

\* The rows do not change.
LEMMA RowsStay == ASSUME TypeOK, rows' = rows PROVE Grows /\ Len(rows') \in Nat
BY SMTT(30), SMTT(60) DEF TypeOK, Grows

\* A step of one call that keeps the types.
LEMMA CallStep ==
    ASSUME RebuildInv, Grows, rows' \in Seq(Row), NEW r \in Rebuilders, NEW rec \in CallType,
           rb' = [rb EXCEPT ![r] = rec], WalkOK(r)'
    PROVE  RebuildInv'
<1>1. TypeOK'
  BY DEF RebuildInv, TypeOK, CallType
<1>2. Len(rows') \in Nat
  BY SMTT(30), SMTT(60)
<1>3. ASSUME NEW t \in Rebuilders PROVE WalkOK(t)'
  <2>1. CASE t = r
    BY <2>1
  <2>2. CASE t # r
    <3>1. rb'[t] = rb[t]
      BY <2>2 DEF RebuildInv, TypeOK
    <3> QED
      BY <1>2, <3>1, WalkStays
  <2> QED
    BY <2>1, <2>2
<1> QED
  BY <1>1, <1>3 DEF RebuildInv

\* A rebuild that has not begun has its types.
LEMMA IdleCall == Idle \in CallType
BY ZeroIsHash, SMTT(30), SMTT(60) DEF Idle, CallType

\* An append keeps RebuildInv and the rows there are.
LEMMA AppendKeeps ==
    ASSUME RebuildInv, NEW data \in Data, AppendEvent(data)
    PROVE  RebuildInv' /\ Grows
<1>0. rows \in Seq(Row) /\ Len(rows) \in Nat
  BY SMTT(30), SMTT(60) DEF RebuildInv, TypeOK
<1>1. PrevHash \in Hash
  <2>1. CASE rows = <<>> \/ rows[Len(rows)].hash = Null
    BY <2>1, ZeroIsHash DEF PrevHash
  <2>2. CASE rows # <<>> /\ rows[Len(rows)].hash # Null
    <3>1. rows[Len(rows)] \in Row
      BY <1>0, <2>2, SMTT(30), SMTT(60)
    <3> QED
      BY <2>2, <3>1 DEF PrevHash, Row
  <2> QED
    BY <2>1, <2>2
<1> DEFINE new == [data |-> data, hash |-> ComputeChainHash(PrevHash, data)]
<1>2. new \in Row
  BY <1>1, HashIsNotNull DEF Row
<1>3. rows' = Append(rows, new) /\ rb' = rb
  BY DEF AppendEvent
<1> HIDE DEF new
<1>4. rows' \in Seq(Row) /\ Len(rows') \in Nat /\ Grows
  BY <1>0, <1>2, <1>3, SMTT(30), SMTT(60) DEF Grows
<1>5. TypeOK'
  BY <1>3, <1>4 DEF RebuildInv, TypeOK
<1> QED
  BY <1>3, <1>4, <1>5, WalkStays DEF RebuildInv

\* One step of the walk: the row at next is chained to the one before.
LEMMA WalkOn ==
    ASSUME RebuildInv, NEW r \in Rebuilders, Walking(r), Grows, rows' \in Seq(Row),
           rb' = [rb EXCEPT ![r] = Stepped(r)],
           rows'[rb[r].next].hash = Expected(r)
    PROVE  RebuildInv'
<1> DEFINE me == rb[r]
           n == me.next
<1>0. /\ TypeOK /\ WalkOK(r) /\ Len(rows) \in Nat /\ me \in CallType
      /\ me.envs \in Seq(Row) /\ Len(me.envs) \in Nat /\ n \in Nat /\ me.prev \in Hash
      /\ me.pc = "walk" /\ n <= Len(me.envs)
  BY SMTT(30), SMTT(60) DEF RebuildInv, TypeOK, Walking, CallType
<1>1. /\ n \in 1..Len(me.envs) /\ Len(me.envs) <= Len(rows) /\ Chained(n - 1) /\ me.prev = PrevOf(n)
      /\ CopyOf(me.envs)
  BY <1>0, SMTT(30), SMTT(60) DEF WalkOK, CopyOf
<1>2. me.envs[n] \in Row /\ Env(r).data \in Data /\ Env(r).data = rows[n].data
  <2>1. me.envs[n] \in Row
    BY <1>0, <1>1, SMTT(30), SMTT(60)
  <2>2. Env(r) = me.envs[n] /\ me.envs[n].data = rows[n].data
    BY <1>1 DEF CopyOf, Env
  <2> QED
    BY <2>1, <2>2 DEF Row
<1>3. Expected(r) \in Hash /\ Expected(r) # Null /\ Expected(r) = ComputeChainHash(PrevOf(n), rows[n].data)
  BY <1>0, <1>1, <1>2, HashIsNotNull DEF Expected
<1>4. Stepped(r) \in CallType
  <2>1. PICK next \in Nat, prev \in Hash : next = n + 1 /\ prev = Expected(r)
    BY <1>0, <1>3, SMTT(30), SMTT(60)
  <2>2. Stepped(r) = [me EXCEPT !.next = next, !.prev = prev]
    BY <2>1 DEF Stepped
  <2> QED
    BY <1>0, <2>2 DEF CallType
<1>5. rb'[r] = Stepped(r)
  BY <1>0 DEF TypeOK
<1>6. rb'[r].pc = "walk" /\ rb'[r].envs = me.envs /\ rb'[r].next = n + 1 /\ rb'[r].prev = Expected(r)
  <2>1. PICK c \in CallType : c = me
    BY <1>0
  <2>2. PICK next, prev : next = n + 1 /\ prev = Expected(r)
    OBVIOUS
  <2>3. rb'[r] = [c EXCEPT !.next = next, !.prev = prev]
    BY <1>5, <2>1, <2>2 DEF Stepped
  <2>4. rb'[r].pc = c.pc /\ rb'[r].envs = c.envs
    BY <2>3, ZenonT(60) DEF CallType
  <2>5. rb'[r].next = next
    BY <2>3 DEF CallType
  <2>6. rb'[r].prev = prev
    BY <2>3 DEF CallType
  <2> QED
    BY <1>0, <2>1, <2>2, <2>4, <2>5, <2>6
<1>7. PICK m \in Nat, k \in Nat : m = n /\ k = n - 1
  BY <1>1, SMTT(30), SMTT(60)
<1>8. /\ Chained(k)' /\ rows'[m].hash = Expected(r) /\ rows'[m].data = rows[m].data
      /\ k # 0 => rows'[k].hash = rows[k].hash
  <2>1. Chained(k) /\ k <= Len(rows) /\ m \in 1..Len(rows)
    BY <1>0, <1>1, <1>7, SMTT(30), SMTT(60)
  <2>2. k # 0 => k \in 1..k /\ k \in 1..Len(rows)
    BY <2>1, <1>0, SMTT(30), SMTT(60)
  <2> QED
    BY <1>0, <1>7, <2>1, <2>2, ChainStays DEF Grows, Chained
<1>9. ASSUME NEW v \in 1..m
      PROVE  /\ rows'[v].hash = ComputeChainHash(IF v = 1 THEN ZeroHash ELSE rows'[v - 1].hash, rows'[v].data)
             /\ rows'[v].hash # Null
  <2>1. CASE v = m
    <3>1. PrevOf(n) = IF v = 1 THEN ZeroHash ELSE rows'[v - 1].hash
      <4>1. CASE v = 1
        BY <1>7, <2>1, <4>1 DEF PrevOf
      <4>2. CASE v # 1
        <5>1. k # 0 /\ v - 1 = k /\ n # 1 /\ n - 1 = k
          BY <1>7, <2>1, <4>2, SMTT(30), SMTT(60)
        <5> QED
          BY <1>8, <4>2, <5>1 DEF PrevOf
      <4> QED
        BY <4>1, <4>2
    <3>2. rows'[v].hash = Expected(r) /\ rows'[v].data = rows[n].data
      BY <1>7, <1>8, <2>1
    <3> QED
      BY <1>3, <3>1, <3>2
  <2>2. CASE v # m
    <3>1. v \in 1..k
      BY <1>7, <2>2, SMTT(30), SMTT(60)
    <3> QED
      BY <1>8, <3>1 DEF Chained, Intact
  <2> QED
    BY <2>1, <2>2
<1>10. Chained(m)'
  BY <1>9 DEF Chained, Intact
<1>11. CopyOf(me.envs)'
  <2>1. PICK envs \in Seq(Row) : envs = me.envs
    BY <1>0
  <2>2. CopyOf(envs)'
    BY <1>0, <1>1, <2>1, CopyStays, SMTT(30), SMTT(60)
  <2> QED
    BY <1>6, <2>1, <2>2
<1>12. WalkOK(r)'
  <2>1. Chained(rb[r].next - 1)'
    <3>1. rb'[r].next - 1 = m
      BY <1>0, <1>6, <1>7, SMTT(30), SMTT(60)
    <3> QED
      BY <1>10, <3>1
  <2>2. rb'[r].prev = PrevOf(rb[r].next)'
    <3>1. rb'[r].next # 1 /\ rb'[r].next - 1 = m
      BY <1>1, <1>6, <1>7, SMTT(30), SMTT(60)
    <3> QED
      BY <1>6, <1>8, <3>1 DEF PrevOf
  <2>3. rb'[r].next \in 1..(Len(rb'[r].envs) + 1)
    BY <1>0, <1>1, <1>6, SMTT(30), SMTT(60)
  <2> QED
    BY <1>6, <1>11, <2>1, <2>2, <2>3 DEF WalkOK
<1> QED
  BY <1>4, <1>12, CallStep

\* A step of a rebuild keeps them too.
LEMMA RebuildKeeps ==
    ASSUME RebuildInv, NEW r \in Rebuilders, RebuildStep(r) \/ Interrupt(r)
    PROVE  RebuildInv' /\ Grows
<1> DEFINE me == rb[r]
<1>0. /\ TypeOK /\ WalkOK(r) /\ rows \in Seq(Row) /\ Len(rows) \in Nat /\ me \in CallType
      /\ me.envs \in Seq(Row) /\ Len(me.envs) \in Nat /\ me.next \in Nat /\ me.prev \in Hash
      /\ rb \in [Rebuilders -> CallType]
  BY SMTT(30), SMTT(60) DEF RebuildInv, TypeOK, CallType
<1>1. CASE ReadStream(r)
  <2> DEFINE rec == [Idle EXCEPT !.pc = "walk", !.envs = rows]
  <2>1. rb' = [rb EXCEPT ![r] = rec] /\ rows' = rows
    BY <1>1 DEF ReadStream
  <2>2. rec.pc = "walk" /\ rec.envs = rows /\ rec.next = 1 /\ rec.prev = ZeroHash
    BY DEF Idle
  <2>3. rec \in CallType
    BY <1>0, IdleCall DEF CallType
  <2>4. rb'[r] = rec
    BY <1>0, <2>1
  <2> HIDE DEF rec
  <2>5. CopyOf(rb[r].envs)'
    BY <2>1, <2>2, <2>4, <1>0, SMTT(30), SMTT(60) DEF CopyOf
  <2>6. WalkOK(r)'
    BY <1>0, <2>2, <2>4, <2>5, SMTT(30), SMTT(60) DEF WalkOK, Chained, Intact, PrevOf
  <2> QED
    BY <1>0, <2>1, <2>3, <2>6, RowsStay, CallStep
<1>2. CASE Backfill(r)
  <2>1. Walking(r) /\ Env(r).hash = Null
    BY <1>2 DEF Backfill
  <2>2. CASE rows[me.next].hash = Null
    <3>1. rows' = [rows EXCEPT ![me.next].hash = Expected(r)] /\ rb' = [rb EXCEPT ![r] = Stepped(r)]
      BY <1>2, <2>2 DEF Backfill
    <3>2. me.next \in 1..Len(rows) /\ me.next \in 1..Len(me.envs)
      BY <1>0, <2>1, SMTT(30), SMTT(60) DEF WalkOK, CopyOf, Walking
    <3>3. Expected(r) \in Hash
      <4>1. me.envs[me.next] \in Row
        BY <1>0, <3>2, SMTT(30), SMTT(60)
      <4> QED
        BY <1>0, <4>1, HashIsNotNull DEF Expected, Env, Row
    <3>4. rows[me.next] \in Row
      BY <1>0, <3>2, SMTT(30), SMTT(60)
    <3> DEFINE new == [rows[me.next] EXCEPT !.hash = Expected(r)]
    <3>5. new \in Row /\ new.hash = Expected(r) /\ new.data = rows[me.next].data
      BY <3>3, <3>4 DEF Row
    <3>6. rows' = [rows EXCEPT ![me.next] = new]
      BY <3>1
    <3> HIDE DEF new
    <3>7. rows' \in Seq(Row) /\ Len(rows') = Len(rows)
      BY <1>0, <3>2, <3>5, <3>6, SMTT(30), SMTT(60)
    <3>8. Grows /\ rows'[me.next].hash = Expected(r)
      <4>1. \A v \in 1..Len(rows) : rows'[v] = IF v = me.next THEN new ELSE rows[v]
        BY <1>0, <3>6, SMTT(30), SMTT(60)
      <4> QED
        BY <1>0, <2>2, <3>2, <3>5, <3>7, <4>1, SMTT(30), SMTT(60) DEF Grows
    <3> QED
      BY <2>1, <3>1, <3>7, <3>8, WalkOn
  <2>3. CASE rows[me.next].hash # Null
    <3> DEFINE rec == [me EXCEPT !.pc = "raced"]
    <3>1. rb' = [rb EXCEPT ![r] = rec] /\ rows' = rows
      BY <1>0, <1>2, <2>3 DEF Backfill
    <3>2. rec \in CallType /\ rec.pc = "raced" /\ rec.envs = me.envs
      BY <1>0 DEF CallType
    <3>3. rb'[r] = rec
      BY <1>0, <3>1
    <3> HIDE DEF rec
    <3>4. WalkOK(r)'
      BY <1>0, <3>1, <3>2, <3>3, SMTT(30), SMTT(60) DEF WalkOK, CopyOf
    <3> QED
      BY <1>0, <3>1, <3>2, <3>4, RowsStay, CallStep
  <2> QED
    BY <2>2, <2>3
<1>3. CASE Verify(r)
  <2>1. Walking(r) /\ Env(r).hash # Null /\ rows' = rows
    BY <1>3 DEF Verify
  <2>2. CASE EqualHash(r)
    <3>1. rb' = [rb EXCEPT ![r] = Stepped(r)]
      BY <1>3, <2>2 DEF Verify
    <3>2. me.next \in 1..Len(me.envs)
      BY <1>0, <2>1, SMTT(30), SMTT(60) DEF WalkOK, Walking
    <3>3. rows'[me.next].hash = Expected(r)
      BY <1>0, <2>1, <2>2, <3>2 DEF WalkOK, CopyOf, EqualHash, Env
    <3> QED
      BY <1>0, <2>1, <3>1, <3>3, RowsStay, WalkOn
  <2>3. CASE ~ EqualHash(r)
    <3> DEFINE rec == [me EXCEPT !.pc = "broken"]
    <3>1. rb' = [rb EXCEPT ![r] = rec]
      BY <1>0, <1>3, <2>3 DEF Verify
    <3>2. rec \in CallType /\ rec.pc = "broken" /\ rec.envs = me.envs
      BY <1>0 DEF CallType
    <3>3. rb'[r] = rec
      BY <1>0, <3>1
    <3> HIDE DEF rec
    <3>4. WalkOK(r)'
      BY <1>0, <2>1, <3>2, <3>3, SMTT(30), SMTT(60) DEF WalkOK, CopyOf
    <3> QED
      BY <1>0, <2>1, <3>1, <3>2, <3>4, RowsStay, CallStep
  <2> QED
    BY <2>2, <2>3
<1>4. CASE Done(r)
  <2> DEFINE rec == [me EXCEPT !.pc = "ok"]
  <2>1. rb' = [rb EXCEPT ![r] = rec] /\ rows' = rows /\ me.pc = "walk" /\ me.next > Len(me.envs)
    BY <1>0, <1>4 DEF Done
  <2>2. rec \in CallType /\ rec.pc = "ok" /\ rec.envs = me.envs
    BY <1>0 DEF CallType
  <2>3. rb'[r] = rec
    BY <1>0, <2>1
  <2> HIDE DEF rec
  <2>4. Chained(Len(me.envs)) /\ CopyOf(me.envs)
    <3>1. me.next - 1 = Len(me.envs)
      BY <1>0, <2>1, SMTT(30), SMTT(60) DEF WalkOK
    <3> QED
      BY <1>0, <2>1, <3>1 DEF WalkOK
  <2>5. WalkOK(r)'
    BY <2>1, <2>2, <2>3, <2>4, SMTT(30), SMTT(60) DEF WalkOK, CopyOf, Chained, Intact
  <2> QED
    BY <1>0, <2>1, <2>2, <2>5, RowsStay, CallStep
<1>5. CASE Interrupt(r)
  <2>1. rb' = [rb EXCEPT ![r] = Idle] /\ rows' = rows
    BY <1>5 DEF Interrupt
  <2>2. rb'[r].pc = "idle" /\ rb'[r].envs = <<>>
    BY <1>0, <2>1 DEF Idle
  <2>3. WalkOK(r)'
    BY <1>0, <2>1, <2>2, SMTT(30), SMTT(60) DEF WalkOK, CopyOf
  <2> QED
    BY <1>0, <2>1, <2>3, RowsStay, IdleCall, CallStep
<1> QED
  BY <1>1, <1>2, <1>3, <1>4, <1>5 DEF RebuildStep

\* Every step does.
LEMMA StepKeeps ==
    ASSUME RebuildInv, [Next]_vars
    PROVE  RebuildInv' /\ Grows
<1>1. CASE UNCHANGED vars
  <2>1. rows' = rows /\ rb' = rb
    BY <1>1 DEF vars
  <2>2. Grows /\ Len(rows') \in Nat
    BY <2>1, RowsStay DEF RebuildInv
  <2>3. TypeOK'
    BY <2>1 DEF RebuildInv, TypeOK
  <2> QED
    BY <2>1, <2>2, <2>3, WalkStays DEF RebuildInv
<1> QED
  BY <1>1, AppendKeeps, RebuildKeeps DEF Next

\* RebuildInv is an invariant.
LEMMA RebuildInvariant == Spec => []RebuildInv
<1>1. Init => RebuildInv
  <2> SUFFICES ASSUME Init PROVE RebuildInv
    OBVIOUS
  <2>1. rows \in Seq(Row)
    <3>1. rows \in [1..Legacy -> Row] /\ Legacy \in Nat
      BY HashChainAssumption DEF Init, Row
    <3> QED
      BY <3>1, SMTT(30), SMTT(60)
  <2>2. rb \in [Rebuilders -> CallType]
    BY IdleCall DEF Init
  <2>3. \A r \in Rebuilders : rb[r].pc = "idle" /\ rb[r].envs = <<>>
    BY DEF Init, Idle
  <2>4. \A r \in Rebuilders : WalkOK(r)
    <3>1. Len(rows) \in Nat /\ Len(<<>>) = 0
      BY <2>1, SMTT(30), SMTT(60)
    <3>2. CopyOf(<<>>)
      BY <3>1, SMTT(30), SMTT(60) DEF CopyOf
    <3> QED
      BY <2>3, <3>2 DEF WalkOK
  <2> QED
    BY <2>1, <2>2, <2>4 DEF RebuildInv, TypeOK, CallType
<1>2. RebuildInv /\ [Next]_vars => RebuildInv'
  BY StepKeeps
<1> QED
  BY <1>1, <1>2, PTL DEF Spec

\* Every reachable state of a stream being rebuilt has the declared types.
THEOREM ChainTypeCorrect == Spec => []TypeOK
<1>1. RebuildInv => TypeOK
  BY DEF RebuildInv
<1> QED
  BY <1>1, RebuildInvariant, PTL

\* A RebuildStreamChain that returns nil leaves every row it read chained, although
\* its copy of the stream may be stale and other rebuilds race it.
THEOREM RebuildLeavesChain == Spec => []OkMeansIntact
<1>1. RebuildInv => OkMeansIntact
  BY DEF RebuildInv, WalkOK, CopyOf, Chained, OkMeansIntact
<1> QED
  BY <1>1, RebuildInvariant, PTL

\* Neither Append nor any number of rebuilds ever overwrites a hash.
THEOREM HashesNeverOverwritten == Spec => HashesImmutable
<1>1. ASSUME RebuildInv, [Next]_vars
      PROVE  [\A v \in DOMAIN rows : rows[v].hash # Null => v \in DOMAIN rows' /\ rows'[v] = rows[v]]_vars
  <2>1. RebuildInv' /\ Grows
    BY <1>1, StepKeeps
  <2>2. rows \in Seq(Row) /\ rows' \in Seq(Row) /\ Len(rows) \in Nat /\ Len(rows') \in Nat
    BY <1>1, <2>1, SMTT(30), SMTT(60) DEF RebuildInv, TypeOK
  <2>3. ASSUME NEW v \in DOMAIN rows, rows[v].hash # Null
        PROVE  v \in DOMAIN rows' /\ rows'[v] = rows[v]
    <3>1. v \in 1..Len(rows) /\ v \in 1..Len(rows') /\ DOMAIN rows' = 1..Len(rows')
      BY <2>1, <2>2, SMTT(30), SMTT(60) DEF Grows
    <3>2. rows[v] \in Row /\ rows'[v] \in Row /\ rows'[v].data = rows[v].data /\ rows'[v].hash = rows[v].hash
      BY <2>1, <2>2, <2>3, <3>1, SMTT(30), SMTT(60) DEF Grows
    <3> QED
      BY <3>1, <3>2, SMTT(30), SMTT(60) DEF Row
  <2> QED
    BY <2>3
<1> QED
  BY <1>1, RebuildInvariant, PTL DEF Spec, HashesImmutable

-------------------------------------------------------------------------------
(* No false alarm *)

\* Where there is a hash it is chained to the row before.
Linked ==
    \A v \in 1..Len(rows) : rows[v].hash # Null =>
        /\ rows[v].hash = ComputeChainHash(PrevOf(v), rows[v].data)
        /\ v # 1 => rows[v - 1].hash # Null

\* A chain is broken only by a fork: the inductive invariant of BrokenOnlyIfForked.
LinkInv == (Forked \/ Linked) /\ BrokenOnlyIfForked

\* A fork stays, because its hash does.
LEMMA ForkStays ==
    ASSUME RebuildInv, RebuildInv', Grows, Forked
    PROVE  Forked'
<1>0. rows \in Seq(Row) /\ rows' \in Seq(Row) /\ Len(rows) \in Nat /\ Len(rows') \in Nat
  BY SMTT(30), SMTT(60) DEF RebuildInv, TypeOK
<1>1. PICK v \in 1..Len(rows) : v > 1 /\ rows[v].hash = ComputeChainHash(ZeroHash, rows[v].data)
  BY <1>0, SMTT(30), SMTT(60) DEF Forked
<1>2. rows[v] \in Row
  BY <1>0, SMTT(30), SMTT(60)
<1>3. rows[v].hash # Null
  BY <1>1, <1>2, ZeroIsHash, HashIsNotNull DEF Row
<1>4. rows'[v].data = rows[v].data /\ rows'[v].hash = rows[v].hash /\ v \in DOMAIN rows'
  BY <1>0, <1>3, SMTT(30), SMTT(60) DEF Grows
<1> QED
  BY <1>1, <1>4 DEF Forked

\* Append chains its row to the last one, or forks.
LEMMA AppendLinks ==
    ASSUME RebuildInv, Linked, NEW data \in Data, AppendEvent(data)
    PROVE  Forked' \/ Linked'
<1>0. rows \in Seq(Row) /\ Len(rows) \in Nat
  BY SMTT(30), SMTT(60) DEF RebuildInv, TypeOK
<1>n. PICK n \in Nat : n = Len(rows)
  BY <1>0
<1>h. PICK h : h = ComputeChainHash(PrevHash, data)
  OBVIOUS
<1>1. rows' = Append(rows, [data |-> data, hash |-> h])
  BY <1>h DEF AppendEvent
<1>2. /\ Len(rows') = n + 1 /\ DOMAIN rows' = 1..(n + 1)
      /\ rows'[n + 1].data = data /\ rows'[n + 1].hash = h
      /\ \A v \in 1..n : rows'[v] = rows[v]
  BY <1>0, <1>n, <1>1, SMTT(30), SMTT(60)
<1>3. CASE n # 0 /\ rows[n].hash = Null
  <2>1. h = ComputeChainHash(ZeroHash, data)
    BY <1>0, <1>n, <1>h, <1>3 DEF PrevHash
  <2> QED
    BY <1>0, <1>2, <1>3, <2>1, SMTT(30), SMTT(60) DEF Forked
<1>4. CASE n = 0 \/ rows[n].hash # Null
  <2>1. PrevHash = IF n = 0 THEN ZeroHash ELSE rows[n].hash
    BY <1>0, <1>n, <1>4, SMTT(30), SMTT(60) DEF PrevHash
  <2>2. h = ComputeChainHash(PrevOf(n + 1)', data)
    <3>1. CASE n = 0
      BY <1>h, <2>1, <3>1, SMTT(30), SMTT(60) DEF PrevOf
    <3>2. CASE n # 0
      <4>1. n + 1 # 1 /\ (n + 1) - 1 = n /\ rows'[n] = rows[n]
        BY <1>0, <1>2, <3>2, SMTT(30), SMTT(60)
      <4> QED
        BY <1>h, <2>1, <3>2, <4>1 DEF PrevOf
    <3> QED
      BY <3>1, <3>2
  <2>3. ASSUME NEW v \in 1..(n + 1), rows'[v].hash # Null
        PROVE  /\ rows'[v].hash = ComputeChainHash(PrevOf(v)', rows'[v].data)
               /\ v # 1 => rows'[v - 1].hash # Null
    <3>1. CASE v = n + 1
      <4>1. v # 1 => rows'[v - 1] = rows[n] /\ rows[n].hash # Null
        BY <1>0, <1>2, <1>4, <3>1, SMTT(30), SMTT(60)
      <4> QED
        BY <1>2, <2>2, <3>1, <4>1
    <3>2. CASE v # n + 1
      <4>1. v \in 1..n /\ rows'[v] = rows[v] /\ (v # 1 => rows'[v - 1] = rows[v - 1])
        BY <1>0, <1>2, <3>2, SMTT(30), SMTT(60)
      <4> QED
        BY <1>n, <2>3, <4>1, SMTT(30), SMTT(60) DEF Linked, PrevOf
    <3> QED
      BY <3>1, <3>2
  <2> QED
    BY <1>2, <2>3 DEF Linked
<1> QED
  BY <1>3, <1>4

\* BackfillEventHash extends the chain: the row before has a hash, prev.
LEMMA BackfillLinks ==
    ASSUME RebuildInv, Linked, NEW r \in Rebuilders, Backfill(r)
    PROVE  Linked'
<1> DEFINE n == rb[r].next
<1>0. /\ rows \in Seq(Row) /\ Len(rows) \in Nat /\ n \in Nat
      /\ rb[r].envs \in Seq(Row) /\ Len(rb[r].envs) \in Nat /\ WalkOK(r)
  BY SMTT(30), SMTT(60) DEF RebuildInv, TypeOK
<1>1. /\ n \in 1..Len(rows) /\ n \in 1..Len(rb[r].envs)
      /\ Chained(n - 1) /\ rb[r].prev = PrevOf(n) /\ Env(r).data = rows[n].data
  BY <1>0, SMTT(30), SMTT(60) DEF Backfill, Walking, WalkOK, CopyOf, Env
<1>2. CASE rows[n].hash # Null
  BY <1>2, ZenonT(60) DEF Backfill, Linked, PrevOf
<1>3. CASE rows[n].hash = Null
  <2>1. rows' = [rows EXCEPT ![n].hash = Expected(r)]
    BY <1>3 DEF Backfill
  <2>2. rows[n] \in Row /\ Expected(r) = ComputeChainHash(PrevOf(n), rows[n].data)
    BY <1>0, <1>1, SMTT(30), SMTT(60) DEF Expected
  <2>3. /\ Len(rows') = Len(rows)
        /\ rows'[n].hash = Expected(r) /\ rows'[n].data = rows[n].data
        /\ \A v \in 1..Len(rows) : v # n => rows'[v] = rows[v]
    BY <1>0, <1>1, <2>1, <2>2, SMTT(30), SMTT(60) DEF Row
  <2>4. n # 1 => n - 1 \in 1..(n - 1) /\ n - 1 \in 1..Len(rows) /\ n - 1 # n
    BY <1>0, <1>1, SMTT(30), SMTT(60)
  <2>5. n # 1 => rows[n - 1].hash # Null /\ rows'[n - 1] = rows[n - 1]
    BY <1>1, <2>3, <2>4 DEF Chained
  <2>6. ASSUME NEW v \in 1..Len(rows), rows'[v].hash # Null
        PROVE  /\ rows'[v].hash = ComputeChainHash(PrevOf(v)', rows'[v].data)
               /\ v # 1 => rows'[v - 1].hash # Null
    <3>1. CASE v = n
      BY <2>2, <2>3, <2>5, <3>1 DEF PrevOf
    <3>2. CASE v # n
      <4>1. rows'[v] = rows[v]
        BY <2>3, <3>2
      <4>2. rows[v].hash = ComputeChainHash(PrevOf(v), rows[v].data) /\ (v # 1 => rows[v - 1].hash # Null)
        BY <2>6, <4>1 DEF Linked
      <4>3. v # 1 => v - 1 # n /\ v - 1 \in 1..Len(rows)
        BY <1>0, <1>3, <4>2, SMTT(30), SMTT(60)
      <4>4. v # 1 => rows'[v - 1] = rows[v - 1]
        BY <2>3, <4>3
      <4> QED
        BY <4>1, <4>2, <4>4 DEF PrevOf
    <3> QED
      BY <3>1, <3>2
  <2> QED
    BY <2>3, <2>6 DEF Linked
<1> QED
  BY <1>2, <1>3

\* Only a hash that is not chained to the row before is reported.
LEMMA ReportIsRight ==
    ASSUME RebuildInv, Linked, NEW r \in Rebuilders, Verify(r)
    PROVE  EqualHash(r)
<1> DEFINE n == rb[r].next
<1>0. /\ Len(rows) \in Nat /\ n \in Nat /\ Len(rb[r].envs) \in Nat /\ WalkOK(r)
  BY SMTT(30), SMTT(60) DEF RebuildInv, TypeOK
<1>1. n \in 1..Len(rows) /\ n \in 1..Len(rb[r].envs) /\ rb[r].prev = PrevOf(n)
  BY <1>0, SMTT(30), SMTT(60) DEF Verify, Walking, WalkOK, CopyOf
<1>2. Env(r).data = rows[n].data /\ Env(r).hash = rows[n].hash /\ rows[n].hash # Null
  BY <1>0, <1>1 DEF Verify, WalkOK, CopyOf, Env
<1> QED
  BY <1>1, <1>2 DEF Linked, EqualHash, Expected

\* Every step keeps LinkInv.
LEMMA LinkKept ==
    ASSUME RebuildInv, LinkInv, [Next]_vars
    PROVE  LinkInv'
<1>0. RebuildInv' /\ Grows
  BY StepKeeps
<1>1. Forked => Forked'
  BY <1>0, ForkStays
<1>2. Linked => Forked' \/ Linked'
  <2> SUFFICES ASSUME Linked PROVE Forked' \/ Linked'
    OBVIOUS
  <2>1. CASE \E data \in Data : AppendEvent(data)
    BY <2>1, AppendLinks
  <2>2. CASE \E r \in Rebuilders : Backfill(r)
    BY <2>2, BackfillLinks
  <2>3. CASE rows' = rows
    BY <2>3, ZenonT(60) DEF Linked, PrevOf
  <2> QED
    BY <2>1, <2>2, <2>3 DEF Next, vars, RebuildStep, ReadStream, Verify, Done, Interrupt
<1>3. ASSUME NEW r \in Rebuilders, rb'[r].pc = "broken"
      PROVE  Forked'
  <2>1. CASE rb[r].pc = "broken"
    BY <1>1, <2>1 DEF LinkInv, BrokenOnlyIfForked
  <2>2. CASE rb[r].pc # "broken"
    <3>1. rb \in [Rebuilders -> CallType]
      BY DEF RebuildInv, TypeOK, CallType
    <3>2. PICK t \in Rebuilders : RebuildStep(t) \/ Interrupt(t)
      BY <1>3, <2>2 DEF Next, vars, AppendEvent
    <3>3. t = r
      BY <1>3, <2>2, <3>1, <3>2, ZenonT(60) DEF RebuildStep, ReadStream, Backfill, Verify, Done,
         Interrupt
    <3>4. ~ReadStream(r) /\ ~Done(r) /\ ~Interrupt(r)
      <4>1. ReadStream(r) => rb'[r].pc = "walk"
        BY <3>1 DEF ReadStream, Idle
      <4>2. Done(r) => rb'[r].pc = "ok"
        BY <3>1 DEF Done, CallType
      <4>3. Interrupt(r) => rb'[r].pc = "idle"
        BY <3>1, SMTT(30), SMTT(60) DEF Interrupt, Idle
      <4> QED
        BY <1>3, <4>1, <4>2, <4>3
    <3>5. ~Backfill(r)
      <4>1. ASSUME Backfill(r) PROVE rb'[r].pc \in {"raced", rb[r].pc}
        BY <3>1, <4>1, ZenonT(60) DEF Backfill, Stepped, CallType
      <4> QED
        BY <1>3, <2>2, <4>1
    <3>6. Verify(r)
      BY <3>2, <3>3, <3>4, <3>5 DEF RebuildStep
    <3>7. ~EqualHash(r)
      <4>1. ASSUME EqualHash(r) PROVE rb'[r].pc = rb[r].pc
        BY <3>1, <3>6, <4>1, ZenonT(60) DEF Verify, Stepped, CallType
      <4> QED
        BY <1>3, <2>2, <4>1
    <3> QED
      BY <1>1, <3>6, <3>7, ReportIsRight DEF LinkInv
  <2> QED
    BY <2>1, <2>2
<1> QED
  BY <1>1, <1>2, <1>3 DEF LinkInv, BrokenOnlyIfForked

\* RebuildStreamChain reports ErrChainBroken only for a stream in which Append
\* started a second chain: no rebuild, interrupted or racing another, raises a
\* false alarm.
THEOREM BrokenMeansForked == Spec => []BrokenOnlyIfForked
<1>1. Init => LinkInv
  <2> SUFFICES ASSUME Init PROVE LinkInv
    OBVIOUS
  <2>1. Legacy \in Nat /\ rows \in [1..Legacy -> [data : Data, hash : {Null}]]
    BY HashChainAssumption DEF Init
  <2>2. \A v \in 1..Len(rows) : rows[v].hash = Null
    BY <2>1, SMTT(30), SMTT(60)
  <2>3. \A r \in Rebuilders : rb[r].pc = "idle"
    BY DEF Init, Idle
  <2> QED
    BY <2>2, <2>3 DEF LinkInv, Linked, BrokenOnlyIfForked
<1>2. RebuildInv /\ LinkInv /\ [Next]_vars => LinkInv'
  BY LinkKept
<1>3. LinkInv => BrokenOnlyIfForked
  BY DEF LinkInv
<1> QED
  BY <1>1, <1>2, <1>3, RebuildInvariant, PTL DEF Spec
================================================================================
