--------------------------- MODULE ProjectionProofs ---------------------------
(***************************************************************************)
(* The safety properties of Projection, for any number of streams, runners *)
(* and events and any configuration, when operators stop the runners       *)
(* before they move the checkpoint.                                        *)
(*                                                                         *)
(* NothingSkipped is not inductive: Save writes a local variable read long *)
(* before.  ProgressInv adds what each RunOnce knows at each point, namely *)
(* that everything before the event it is at is settled.  LockInv adds     *)
(* that under the lock the checkpoint a run loaded is the current one, and *)
(* EffectInv accounts for each effect by a mark, a lost mark, or the one   *)
(* run that is between the two.                                            *)
(***************************************************************************)
EXTENDS Projection, Integers, TLAPS

USE Zenon

\* All events of the shard up to n are settled.
SettledTo(n) == \A q \in 1..n : InShard(q) => q \in Settled

\* The runner has a batch.
InBatch(r) == run[r].pc \in {"event", "inner", "mark", "failed", "save"}
\* The runner has an event in hand.
AtOne(r) == run[r].pc \in {"inner", "mark", "failed"}

\* What the RunOnce of r knows.
RunOK(r) ==
    /\ run[r].pc \notin {"idle", "load"} => run[r].cursor <= Len(log) /\ SettledTo(run[r].cursor)
    /\ InBatch(r) =>
          /\ run[r].cursor < run[r].next
          /\ run[r].next <= run[r].end + 1
          /\ run[r].end <= Len(log)
          /\ SettledTo(run[r].next - 1)
          /\ run[r].last < run[r].next
          /\ run[r].last = 0 \/ run[r].cursor < run[r].last
    /\ ~ InBatch(r) => run[r].last = 0
    /\ AtOne(r) => run[r].next <= run[r].end /\ InShard(run[r].next)
    /\ run[r].pc = "inner" => conf.handler = "dedup"
    /\ run[r].pc = "mark" => conf.handler = "dedup" /\ run[r].next \in applied

\* The inductive invariant of NothingSkipped and AppliedInOrder.
ProgressInv ==
    /\ TypeOK
    /\ NothingSkipped
    /\ AppliedInOrder
    /\ conf.handler # "plain" => marks \subseteq applied
    /\ \A r \in Runners : RunOK(r)

\* With the lock one runner is at work, and it knows the cursor.
LockInv ==
    conf.locking =>
        \A r \in Runners : run[r].pc # "idle" =>
            lock = r /\ (run[r].pc # "load" => run[r].cursor = cursor)

\* How often the effects of an event happened.
EffectInv ==
    /\ conf.handler = "linked" => \A p \in 1..MaxEvents : effects[p] # 2 /\ (effects[p] = 1 => p \in marks)
    /\ conf.handler = "dedup" /\ conf.locking =>
          /\ \A p \in 1..MaxEvents :
                /\ effects[p] = 2 => p \in unmarked
                /\ effects[p] = 1 =>
                      \/ p \in marks \cup unmarked
                      \/ \E r \in Runners : run[r].pc = "mark" /\ run[r].next = p
          /\ \A r \in Runners : run[r].pc = "inner" => run[r].next \notin marks

\* All of it.
Inv == ProgressInv /\ LockInv /\ EffectInv

-------------------------------------------------------------------------------

\* The numbers of a batch stay within those of the log.
LEMMA WithinBatch ==
    ASSUME NEW c \in Nat, NEW n \in Nat, NEW e \in Nat, NEW k \in Nat, NEW m \in Nat,
           c < n, n <= e, e <= k, k <= m
    PROVE  c \in 0..m /\ n + 1 \in 0..(m + 1) /\ e \in 0..m /\ n \in 0..m
BY SMTT(30)

\* The last event handled is behind the next one.
LEMMA BehindNext ==
    ASSUME NEW l \in Nat, NEW n \in Nat, NEW e \in Nat, NEW k \in Nat,
           n <= e + 1, e <= k, l < n
    PROVE  l \in 0..k /\ \A q \in 1..l : q \in 1..(n - 1)
BY SMTT(30)

\* Nothing is applied in the initial state.
LEMMA InitProgress == Init => ProgressInv
<1> SUFFICES ASSUME Init PROVE ProgressInv
  OBVIOUS
<1>1. Len(log) = 0 /\ log \in Seq(Streams) /\ Positions = {}
  BY SMTT(30), SMTT(60) DEF Init, Positions
<1>2. Idle \in RunType
  BY ProjectionAssumption, SMTT(30), SMTT(60) DEF Idle, RunType
<1>3. run \in [Runners -> RunType] /\ effects \in [1..MaxEvents -> 0..2]
  BY <1>2, SMTT(30), SMTT(60) DEF Init
<1>4. TypeOK
  <2>1. /\ conf \in Config /\ cursor \in 0..Len(log) /\ Len(log) <= MaxEvents
        /\ lock \in Runners \cup {None} /\ leaked \in BOOLEAN
    <3>1. conf \in Config /\ cursor \in 0..Len(log) /\ Len(log) <= MaxEvents
      BY <1>1, ProjectionAssumption, SMTT(30), SMTT(60) DEF Init
    <3>2. lock \in Runners \cup {None} /\ leaked \in BOOLEAN
      BY DEF Init
    <3> QED
      BY <3>1, <3>2
  <2>2. /\ applied \subseteq Positions /\ marks \subseteq Positions /\ unmarked \subseteq Positions
        /\ dlq \subseteq Positions /\ abandoned \subseteq Positions
    BY DEF Init
  <2> QED
    BY <1>1, <1>3, <2>1, <2>2 DEF TypeOK
<1>5. \A r \in Runners : run[r].pc = "idle" /\ run[r].last = 0
  BY DEF Init, Idle
<1>6. \A r \in Runners : RunOK(r)
  BY <1>5 DEF RunOK, InBatch, AtOne
<1>7. NothingSkipped /\ AppliedInOrder /\ marks \subseteq applied
  BY SMTT(30), SMTT(60) DEF Init, NothingSkipped, AppliedInOrder
<1> QED
  BY <1>4, <1>6, <1>7 DEF ProgressInv

\* The step of one runner that keeps the log and settles no less than before.
LEMMA RunnerMoves ==
    ASSUME ProgressInv, NEW r \in Runners, NEW rec \in RunType,
           run' = [run EXCEPT ![r] = rec],
           conf' = conf, log' = log, cursor' \in 0..Len(log),
           lock' \in Runners \cup {None}, leaked' \in BOOLEAN,
           applied \subseteq applied', applied' \subseteq Positions,
           Settled \subseteq Settled',
           effects' \in [1..MaxEvents -> 0..2],
           marks' \subseteq Positions, unmarked' \subseteq Positions,
           dlq' \subseteq Positions, abandoned' \subseteq Positions,
           \A q \in 1..cursor' : InShard(q) => q \in Settled',
           \A p \in applied' \ applied : \A q \in 1..(p - 1) : InShard(q) => q \in Settled',
           conf.handler # "plain" => marks' \subseteq applied',
           RunOK(r)'
    PROVE  ProgressInv'
<1>1. Positions' = Positions
  BY DEF Positions
<1>2. \A q : InShard(q)' <=> InShard(q)
  BY DEF InShard
<1>3. TypeOK'
  BY <1>1 DEF ProgressInv, TypeOK
<1>4. NothingSkipped'
  BY <1>2 DEF NothingSkipped
<1>5. AppliedInOrder'
  BY <1>2 DEF ProgressInv, AppliedInOrder
<1>6. ASSUME NEW t \in Runners, t # r PROVE RunOK(t)'
  <2>1. run'[t] = run[t]
    BY <1>6 DEF ProgressInv, TypeOK
  <2>2. RunOK(t)
    BY DEF ProgressInv
  <2> QED
    BY <1>2, <2>1, <2>2 DEF RunOK, InBatch, AtOne, SettledTo
<1> QED
  BY <1>3, <1>4, <1>5, <1>6 DEF ProgressInv

\* ... and one that settles nothing.
LEMMA RunnerLocal ==
    ASSUME ProgressInv, NEW r \in Runners, NEW rec \in RunType,
           run' = [run EXCEPT ![r] = rec],
           UNCHANGED <<conf, log, applied, effects, marks, unmarked, dlq, abandoned>>,
           cursor' \in 0..Len(log), SettledTo(cursor'),
           lock' \in Runners \cup {None}, leaked' \in BOOLEAN,
           RunOK(r)'
    PROVE  ProgressInv'
<1>1. Settled' = Settled
  BY DEF Settled
<1>2. /\ applied \subseteq Positions /\ effects \in [1..MaxEvents -> 0..2]
      /\ marks \subseteq Positions /\ unmarked \subseteq Positions
      /\ dlq \subseteq Positions /\ abandoned \subseteq Positions
      /\ conf.handler # "plain" => marks \subseteq applied
  BY DEF ProgressInv, TypeOK
<1>3. \A q \in 1..cursor' : InShard(q) => q \in Settled
  BY DEF SettledTo
<1> QED
  BY <1>1, <1>2, <1>3, RunnerMoves

\* The parts of ProgressInv a runner needs.
LEMMA RunTypes ==
    ASSUME ProgressInv, NEW r \in Runners
    PROVE  /\ run[r] \in RunType
           /\ RunOK(r)
           /\ Len(log) \in Nat /\ Len(log) <= MaxEvents /\ MaxEvents \in Nat
           /\ cursor \in 0..Len(log) /\ SettledTo(cursor)
           /\ lock \in Runners \cup {None} /\ leaked \in BOOLEAN
BY ProjectionAssumption, SMTT(30), SMTT(60) DEF ProgressInv, TypeOK, NothingSkipped, SettledTo

\* RunOnce returns.
LEMMA Returned ==
    ASSUME ProgressInv, NEW r \in Runners, run' = [run EXCEPT ![r] = Idle]
    PROVE  Idle \in RunType /\ RunOK(r)'
<1>1. Idle \in RunType
  BY ProjectionAssumption, SMTT(30), SMTT(60) DEF Idle, RunType
<1>2. run'[r].pc = "idle" /\ run'[r].last = 0
  BY DEF ProgressInv, TypeOK, Idle
<1> QED
  BY <1>1, <1>2 DEF RunOK, InBatch, AtOne

\* The lock has its type after it is released.
LEMMA ReleaseType ==
    ASSUME ProgressInv, NEW r \in Runners, Release(r)
    PROVE  lock' \in Runners \cup {None}
BY DEF ProgressInv, TypeOK, Release

\* The loop moves on once the current event is settled, or not of the shard.
LEMMA Advances ==
    ASSUME ProgressInv, NEW r \in Runners,
           InBatch(r), run[r].next <= run[r].end,
           run' = [run EXCEPT ![r] = Advanced(r)],
           conf' = conf, log' = log, Settled \subseteq Settled',
           InShard(run[r].next) => run[r].next \in Settled'
    PROVE  Advanced(r) \in RunType /\ RunOK(r)'
<1> DEFINE me == run[r]
<1>0. me \in RunType /\ RunOK(r) /\ Len(log) \in Nat /\ Len(log) <= MaxEvents /\ MaxEvents \in Nat
  BY RunTypes
<1>1. /\ me.cursor \in Nat /\ me.next \in Nat /\ me.end \in Nat /\ me.last \in Nat
      /\ me.cursor < me.next /\ me.next <= me.end /\ me.end <= Len(log) /\ me.cursor <= Len(log)
      /\ SettledTo(me.next - 1) /\ SettledTo(me.cursor)
  BY <1>0, SMTT(30), SMTT(60) DEF RunOK, InBatch, RunType
<1>2. Advanced(r) = [pc |-> "event", cursor |-> me.cursor, next |-> me.next + 1,
                     end |-> me.end, last |-> me.next]
  <2>1. Advanced(r) = [me EXCEPT !.pc = "event", !.next = me.next + 1, !.last = me.next]
    BY <1>0 DEF Advanced, Current, RunType
  <2>2. me = [pc |-> me.pc, cursor |-> me.cursor, next |-> me.next, end |-> me.end, last |-> me.last]
    BY <1>0 DEF RunType
  <2> HIDE DEF me
  <2> QED
    BY <2>1, <2>2
<1>3. Advanced(r) \in RunType
  <2>1. /\ me.cursor \in 0..MaxEvents /\ me.next + 1 \in 0..(MaxEvents + 1)
        /\ me.end \in 0..MaxEvents /\ me.next \in 0..MaxEvents
    <3>1. PICK c \in Nat, n \in Nat, e \in Nat, k \in Nat, m \in Nat :
             /\ c = me.cursor /\ n = me.next /\ e = me.end /\ k = Len(log) /\ m = MaxEvents
             /\ c < n /\ n <= e /\ e <= k /\ c <= k /\ k <= m
      BY <1>0, <1>1
    <3>2. c \in 0..m /\ n + 1 \in 0..(m + 1) /\ e \in 0..m /\ n \in 0..m
      BY <3>1, WithinBatch
    <3> QED
      BY <3>1, <3>2
  <2> QED
    BY <1>2, <2>1, SMTT(30), SMTT(60) DEF RunType
<1>4. run'[r] = Advanced(r)
  BY DEF ProgressInv, TypeOK
<1>5. /\ run'[r].pc = "event" /\ run'[r].cursor = me.cursor /\ run'[r].end = me.end
      /\ run'[r].next = me.next + 1 /\ run'[r].last = me.next
  BY <1>2, <1>4, SMTT(30), SMTT(60)
<1>6. \A q : InShard(q)' <=> InShard(q)
  BY DEF InShard
<1>7. \A q \in 1..me.next : InShard(q)' => q \in Settled'
  BY <1>1, <1>6, SMTT(30), SMTT(60) DEF SettledTo
<1>8. SettledTo(run[r].next - 1)' /\ SettledTo(run[r].cursor)'
  BY <1>1, <1>5, <1>7, SMTT(30), SMTT(60) DEF SettledTo
<1> QED
  BY <1>1, <1>3, <1>5, <1>8, SMTT(30), SMTT(60) DEF RunOK, InBatch, AtOne

\* The loop stays at its event, at another point of its body, or ends there.
LEMMA Moves ==
    ASSUME ProgressInv, NEW r \in Runners, InBatch(r),
           NEW to \in {"inner", "mark", "failed", "save"},
           run' = [run EXCEPT ![r].pc = to],
           conf' = conf, log' = log, Settled \subseteq Settled',
           to # "save" => run[r].next <= run[r].end /\ InShard(run[r].next),
           to \in {"inner", "mark"} => conf.handler = "dedup",
           to = "mark" => run[r].next \in applied'
    PROVE  /\ [run[r] EXCEPT !.pc = to] \in RunType
           /\ run' = [run EXCEPT ![r] = [run[r] EXCEPT !.pc = to]]
           /\ RunOK(r)'
<1> DEFINE me == run[r]
<1>0. me \in RunType /\ RunOK(r) /\ Len(log) \in Nat /\ Len(log) <= MaxEvents /\ MaxEvents \in Nat
  BY RunTypes
<1>1. /\ me.cursor \in Nat /\ me.next \in Nat /\ me.end \in Nat /\ me.last \in Nat
      /\ SettledTo(me.next - 1) /\ SettledTo(me.cursor)
  <2>1. me.cursor \in Nat /\ me.next \in Nat /\ me.end \in Nat /\ me.last \in Nat
    BY <1>0, SMTT(30), SMTT(60) DEF RunType
  <2>2. SettledTo(me.next - 1) /\ SettledTo(me.cursor)
    BY <1>0 DEF RunOK, InBatch
  <2> QED
    BY <2>1, <2>2
<1>2. [me EXCEPT !.pc = to] \in RunType
  BY <1>0 DEF RunType
<1>3. run' = [run EXCEPT ![r] = [me EXCEPT !.pc = to]]
  BY DEF ProgressInv, TypeOK
<1>4. run'[r] = [me EXCEPT !.pc = to]
  BY DEF ProgressInv, TypeOK
<1>5. /\ run'[r].pc = to /\ run'[r].cursor = me.cursor /\ run'[r].end = me.end
      /\ run'[r].next = me.next /\ run'[r].last = me.last
  BY <1>0, <1>4, SMTT(30), SMTT(60) DEF RunType
<1>6. \A q : InShard(q)' <=> InShard(q)
  BY DEF InShard
<1>7. SettledTo(run[r].next - 1)' /\ SettledTo(run[r].cursor)'
  BY <1>1, <1>5, <1>6 DEF SettledTo
<1> QED
  BY <1>0, <1>1, <1>2, <1>3, <1>5, <1>6, <1>7 DEF RunOK, InBatch, AtOne

\* What a handler, its mark and its dead letter may do to the event at hand.
LEMMA Handles ==
    ASSUME ProgressInv, NEW r \in Runners, NEW rec \in RunType,
           InBatch(r), run[r].next <= run[r].end,
           run' = [run EXCEPT ![r] = rec],
           UNCHANGED <<conf, log, cursor, lock, leaked, abandoned>>,
           applied' = applied \/ applied' = applied \cup {run[r].next},
           effects' \in [1..MaxEvents -> 0..2],
           marks' = marks \/ marks' = marks \cup {run[r].next},
           unmarked' = unmarked \/ unmarked' = unmarked \cup {run[r].next},
           dlq' = dlq \/ dlq' = dlq \cup {run[r].next},
           conf.handler # "plain" => marks' \subseteq applied',
           RunOK(r)'
    PROVE  ProgressInv'
<1> DEFINE p == run[r].next
<1>0. run[r] \in RunType /\ RunOK(r) /\ Len(log) \in Nat /\ cursor \in 0..Len(log) /\ SettledTo(cursor)
  BY RunTypes
<1>1. p \in Positions /\ SettledTo(p - 1)
  <2>1. p \in Nat /\ run[r].end \in Nat /\ run[r].cursor \in Nat
    BY <1>0, SMTT(30), SMTT(60) DEF RunType
  <2>2. run[r].cursor < p /\ run[r].end <= Len(log) /\ SettledTo(p - 1)
    BY <1>0 DEF RunOK
  <2> QED
    BY <1>0, <2>1, <2>2, SMTT(30), SMTT(60) DEF Positions
<1>2. /\ applied \subseteq Positions /\ marks \subseteq Positions /\ unmarked \subseteq Positions
      /\ dlq \subseteq Positions /\ abandoned \subseteq Positions
      /\ lock \in Runners \cup {None} /\ leaked \in BOOLEAN
  BY DEF ProgressInv, TypeOK
<1>3. /\ applied \subseteq applied' /\ applied' \subseteq Positions /\ marks' \subseteq Positions
      /\ unmarked' \subseteq Positions /\ dlq' \subseteq Positions /\ abandoned' \subseteq Positions
  BY <1>1, <1>2, ZenonT(60)
<1>4. Settled \subseteq Settled'
  BY <1>3 DEF Settled
<1>5. \A q \in 1..cursor : InShard(q) => q \in Settled'
  BY <1>0, <1>4 DEF SettledTo
<1>6. \A x \in applied' \ applied : \A q \in 1..(x - 1) : InShard(q) => q \in Settled'
  BY <1>1, <1>4 DEF SettledTo
<1> HIDE DEF p
<1> QED
  BY <1>0, <1>2, <1>3, <1>4, <1>5, <1>6, RunnerMoves

\* RunOnce outside the loop over the batch.
LEMMA OutsideLoop ==
    ASSUME ProgressInv, NEW r \in Runners,
           Start(r) \/ Load(r) \/ Read(r) \/ ReturnIdle(r) \/ SaveAndReturn(r)
    PROVE  ProgressInv'
<1> DEFINE me == run[r]
<1>0. /\ me \in RunType /\ RunOK(r)
      /\ Len(log) \in Nat /\ Len(log) <= MaxEvents /\ MaxEvents \in Nat
      /\ cursor \in 0..Len(log) /\ SettledTo(cursor)
      /\ lock \in Runners \cup {None} /\ leaked \in BOOLEAN
  BY RunTypes
<1>1. run \in [Runners -> RunType]
  BY DEF ProgressInv, TypeOK
<1>2. CASE Start(r)
  <2> DEFINE rec == [me EXCEPT !.pc = "load"]
  <2>1. rec \in RunType
    BY <1>0 DEF RunType
  <2>2. run' = [run EXCEPT ![r] = rec] /\ run'[r] = rec
    BY <1>1, <1>2 DEF Start
  <2>3. run'[r].pc = "load" /\ run'[r].last = me.last /\ me.pc = "idle"
    BY <1>0, <1>2, <2>2, SMTT(30), SMTT(60) DEF RunType, Start
  <2>4. RunOK(r)'
    BY <1>0, <2>3 DEF RunOK, InBatch, AtOne
  <2>5. UNCHANGED <<conf, log, cursor, leaked, applied, effects, marks, unmarked, dlq, abandoned>>
    BY <1>2 DEF Start, outside
  <2>6. lock' \in Runners \cup {None}
    BY <1>0, <1>2 DEF Start
  <2> HIDE DEF rec
  <2> QED
    BY <1>0, <2>1, <2>2, <2>4, <2>5, <2>6, RunnerLocal
<1>3. CASE Load(r)
  <2> DEFINE rec == [me EXCEPT !.pc = "read", !.cursor = cursor]
  <2>1. rec \in RunType
    <3>1. cursor \in 0..MaxEvents
      BY <1>0, SMTT(30), SMTT(60)
    <3> QED
      BY <1>0, <3>1 DEF RunType
  <2>2. run' = [run EXCEPT ![r] = rec] /\ run'[r] = rec
    BY <1>1, <1>3 DEF Load
  <2>3. /\ run'[r].pc = "read" /\ run'[r].cursor = cursor
        /\ run'[r].last = me.last /\ me.pc = "load"
    BY <1>0, <1>3, <2>2 DEF RunType, Load
  <2>4. UNCHANGED <<conf, log, cursor, lock, leaked, applied, effects, marks, unmarked, dlq, abandoned>>
    BY <1>3 DEF Load, outside
  <2>5. \A q \in 1..cursor : InShard(q)' => q \in Settled'
    BY <1>0, <2>4 DEF SettledTo, InShard, Settled
  <2>6. RunOK(r)'
    BY <1>0, <2>3, <2>4, <2>5, SMTT(30), SMTT(60) DEF RunOK, InBatch, AtOne, SettledTo
  <2> HIDE DEF rec
  <2> QED
    BY <1>0, <2>1, <2>2, <2>4, <2>6, RunnerLocal
<1>4. CASE Read(r)
  <2> DEFINE rec == [me EXCEPT !.pc = "event", !.next = me.cursor + 1,
                               !.end = Smallest({me.cursor + conf.batch, Len(log)})]
  <2>1. /\ me.cursor \in Nat /\ me.cursor < Len(log) /\ SettledTo(me.cursor)
        /\ me.last = 0
    <3>1. me.pc = "read" /\ me.cursor < Len(log)
      BY <1>4 DEF Read
    <3>2. me.cursor \in Nat
      BY <1>0, SMTT(30), SMTT(60) DEF RunType
    <3> QED
      BY <1>0, <3>1, <3>2 DEF RunOK, InBatch
  <2>2. conf.batch \in Nat \ {0}
    BY ProjectionAssumption, SMTT(30), SMTT(60) DEF ProgressInv, TypeOK, Config
  <2>3. rec.end \in Nat /\ me.cursor < rec.end /\ rec.end <= Len(log)
    <3> DEFINE S == {me.cursor + conf.batch, Len(log)}
    <3>1. S \in SUBSET Nat /\ S # {}
      BY <1>0, <2>1, <2>2, SMTT(30), SMTT(60)
    <3>2. Smallest(S) \in S /\ \A y \in S : Smallest(S) <= y
      <4>1. \E x \in S : \A y \in S : x <= y
        BY <1>0, <2>1, <2>2, SMTT(30), SMTT(60)
      <4> QED
        BY <4>1 DEF Smallest
    <3>3. rec.end = Smallest(S)
      BY <1>0 DEF RunType
    <3> HIDE DEF rec
    <3> QED
      BY <1>0, <2>1, <2>2, <3>2, <3>3, SMTT(30), SMTT(60)
  <2>4. /\ rec.pc = "event" /\ rec.cursor = me.cursor /\ rec.next = me.cursor + 1 /\ rec.last = 0
        /\ rec \in RunType
    <3> DEFINE n == me.cursor + 1
               e == Smallest({me.cursor + conf.batch, Len(log)})
    <3>1. n \in 0..(MaxEvents + 1)
      BY <1>0, <2>1, SMTT(30), SMTT(60)
    <3>2. e = rec.end
      BY <1>0 DEF RunType
    <3>3. e \in 0..MaxEvents
      <4> HIDE DEF e, rec
      <4> QED
        BY <1>0, <2>3, <3>2, SMTT(30), SMTT(60)
    <3>4. rec = [me EXCEPT !.pc = "event", !.next = n, !.end = e]
      OBVIOUS
    <3> HIDE DEF n, e, rec
    <3>5. rec.pc = "event" /\ rec.cursor = me.cursor /\ rec.next = n /\ rec.last = me.last /\ rec \in RunType
      BY <1>0, <3>1, <3>3, <3>4 DEF RunType
    <3> QED
      BY <2>1, <3>5 DEF n
  <2>5. run' = [run EXCEPT ![r] = rec] /\ run'[r] = rec
    BY <1>1, <1>4 DEF Read
  <2>6. UNCHANGED <<conf, log, cursor, lock, leaked, applied, effects, marks, unmarked, dlq, abandoned>>
    BY <1>4 DEF Read, outside
  <2> HIDE DEF rec
  <2>8. \A q \in 1..me.cursor : InShard(q)' => q \in Settled'
    BY <2>1, <2>6 DEF SettledTo, InShard, Settled
  <2>9. SettledTo(run[r].next - 1)' /\ SettledTo(run[r].cursor)'
    BY <2>1, <2>4, <2>5, <2>8, SMTT(30), SMTT(60) DEF SettledTo
  <2>10. RunOK(r)'
    BY <1>0, <2>1, <2>3, <2>4, <2>5, <2>6, <2>9, SMTT(30), SMTT(60) DEF RunOK, InBatch, AtOne
  <2> QED
    BY <1>0, <2>4, <2>5, <2>6, <2>10, RunnerLocal
<1>5. CASE ReturnIdle(r)
  <2>1. run' = [run EXCEPT ![r] = Idle] /\ lock' \in Runners \cup {None}
    BY <1>5, ReleaseType DEF ReturnIdle
  <2>2. UNCHANGED <<conf, log, cursor, leaked, applied, effects, marks, unmarked, dlq, abandoned>>
    BY <1>5 DEF ReturnIdle, outside
  <2>3. Idle \in RunType /\ RunOK(r)'
    BY <2>1, Returned
  <2> QED
    BY <1>0, <2>1, <2>2, <2>3, RunnerLocal
<1>6. CASE SaveAndReturn(r)
  <2>1. run' = [run EXCEPT ![r] = Idle] /\ lock' \in Runners \cup {None}
    BY <1>6, ReleaseType DEF SaveAndReturn
  <2>2. UNCHANGED <<conf, log, leaked, applied, effects, marks, unmarked, dlq, abandoned>>
    BY <1>6 DEF SaveAndReturn, outside
  <2>3. Idle \in RunType /\ RunOK(r)'
    BY <2>1, Returned
  <2>4. me.last \in Nat /\ me.next \in Nat /\ me.end \in Nat
    BY <1>0, SMTT(30), SMTT(60) DEF RunType
  <2>5. /\ me.next <= me.end + 1 /\ me.end <= Len(log)
        /\ SettledTo(me.next - 1) /\ me.last < me.next
    BY <1>0, <1>6 DEF RunOK, InBatch, SaveAndReturn
  <2>6. me.last \in 0..Len(log) /\ SettledTo(me.last)
    <3>1. PICK l \in Nat, n \in Nat, e \in Nat, k \in Nat :
             /\ l = me.last /\ n = me.next /\ e = me.end /\ k = Len(log)
             /\ n <= e + 1 /\ e <= k /\ l < n
      BY <1>0, <2>4, <2>5
    <3>2. l \in 0..k /\ \A q \in 1..l : q \in 1..(n - 1)
      BY <3>1, BehindNext
    <3>3. SettledTo(n - 1)
      BY <2>5, <3>1
    <3> QED
      BY <3>1, <3>2, <3>3 DEF SettledTo
  <2>7. cursor' = me.last \/ cursor' = cursor
    BY <1>6 DEF SaveAndReturn, Saved
  <2>8. cursor' \in 0..Len(log) /\ SettledTo(cursor')
    BY <1>0, <2>6, <2>7
  <2> QED
    BY <1>0, <2>1, <2>2, <2>3, <2>8, RunnerLocal
<1> QED
  BY <1>2, <1>3, <1>4, <1>5, <1>6

\* Effects have their type after one more.
LEMMA AffectedKeeps ==
    ASSUME ProgressInv, NEW p, Affected(p)
    PROVE  effects' \in [1..MaxEvents -> 0..2]
<1>1. (IF effects[p] = 0 THEN 1 ELSE 2) \in 0..2
  BY SMTT(30), SMTT(60)
<1>2. effects \in [1..MaxEvents -> 0..2]
  BY DEF ProgressInv, TypeOK
<1> QED
  BY <1>1, <1>2 DEF Affected

\* RunOnce in the loop: the events of other shards, the end, dead letters.
LEMMA InLoop ==
    ASSUME ProgressInv, NEW r \in Runners,
           SkipOtherShard(r) \/ EndBatch(r) \/ FailStop(r) \/ DeadLetter(r) \/ DeadLetterFails(r)
    PROVE  ProgressInv'
<1>0. /\ RunOK(r) /\ Len(log) \in Nat /\ cursor \in 0..Len(log) /\ SettledTo(cursor)
      /\ lock \in Runners \cup {None} /\ leaked \in BOOLEAN
  BY RunTypes
<1>1. effects \in [1..MaxEvents -> 0..2] /\ (conf.handler # "plain" => marks \subseteq applied)
  BY DEF ProgressInv, TypeOK
<1>2. CASE SkipOtherShard(r)
  <2>1. UNCHANGED <<conf, log, cursor, lock, leaked, applied, effects, marks, unmarked, dlq, abandoned>>
    BY <1>2 DEF SkipOtherShard, outside
  <2>2. /\ run' = [run EXCEPT ![r] = Advanced(r)] /\ InBatch(r)
        /\ run[r].next <= run[r].end /\ ~ InShard(run[r].next)
    BY <1>2 DEF SkipOtherShard, AtEvent, Current, InBatch
  <2>3. Settled' = Settled
    BY <2>1 DEF Settled
  <2>4. Advanced(r) \in RunType /\ RunOK(r)'
    BY <2>1, <2>2, <2>3, Advances
  <2> QED
    BY <1>0, <2>1, <2>2, <2>4, RunnerLocal
<1>3. CASE EndBatch(r) \/ FailStop(r) \/ DeadLetterFails(r)
  <2>1. UNCHANGED <<conf, log, cursor, lock, leaked, applied, effects, marks, unmarked, dlq, abandoned>>
    BY <1>3 DEF EndBatch, FailStop, DeadLetterFails, outside
  <2>2. run' = [run EXCEPT ![r].pc = "save"] /\ InBatch(r)
    BY <1>3 DEF EndBatch, FailStop, DeadLetterFails, InBatch
  <2>3. Settled' = Settled
    BY <2>1 DEF Settled
  <2>4. /\ [run[r] EXCEPT !.pc = "save"] \in RunType /\ RunOK(r)'
        /\ run' = [run EXCEPT ![r] = [run[r] EXCEPT !.pc = "save"]]
    BY <2>1, <2>2, <2>3, Moves
  <2> QED
    BY <1>0, <2>1, <2>4, RunnerLocal
<1>4. CASE DeadLetter(r)
  <2>1. /\ UNCHANGED <<conf, log, cursor, lock, leaked, applied, effects, marks, unmarked, abandoned>>
        /\ dlq' = dlq \cup {run[r].next}
    BY <1>4 DEF DeadLetter, Current
  <2>2. /\ run' = [run EXCEPT ![r] = Advanced(r)] /\ InBatch(r)
        /\ run[r].next <= run[r].end
    BY <1>0, <1>4 DEF DeadLetter, InBatch, RunOK, AtOne
  <2>3. Settled \subseteq Settled' /\ run[r].next \in Settled'
    BY <2>1 DEF Settled
  <2>4. Advanced(r) \in RunType /\ RunOK(r)'
    BY <2>1, <2>2, <2>3, Advances
  <2> QED
    BY <1>1, <2>1, <2>2, <2>4, Handles
<1> QED
  BY <1>2, <1>3, <1>4

\* The plain handler and WithDedup.
LEMMA PlainAndDedup ==
    ASSUME ProgressInv, NEW r \in Runners,
           PlainHandler(r) \/ DedupLookup(r) \/ DedupInner(r) \/ DedupMark(r) \/ DedupFails(r)
    PROVE  ProgressInv'
<1> DEFINE p == run[r].next
<1>0. /\ RunOK(r) /\ Len(log) \in Nat /\ cursor \in 0..Len(log) /\ SettledTo(cursor)
      /\ lock \in Runners \cup {None} /\ leaked \in BOOLEAN
  BY RunTypes
<1>1. effects \in [1..MaxEvents -> 0..2] /\ (conf.handler # "plain" => marks \subseteq applied)
  BY DEF ProgressInv, TypeOK
<1>2. InBatch(r) /\ p <= run[r].end /\ InShard(p)
  BY <1>0 DEF PlainHandler, DedupLookup, DedupInner, DedupMark, DedupFails, AtHandler,
     AtEvent, Current, InBatch, RunOK, AtOne
<1>3. CASE PlainHandler(r)
  <2>1. /\ UNCHANGED <<conf, log, cursor, lock, leaked, marks, unmarked, dlq, abandoned>>
        /\ conf.handler = "plain"
    BY <1>3 DEF PlainHandler
  <2>2. effects' \in [1..MaxEvents -> 0..2] /\ (applied' = applied \/ applied' = applied \cup {p})
    BY <1>1, <1>3, AffectedKeeps DEF PlainHandler, Affected, Unaffected, Current
  <2>3. Settled \subseteq Settled'
    BY <2>1, <2>2 DEF Settled
  <2>4. CASE run' = [run EXCEPT ![r] = Advanced(r)] /\ p \in applied'
    <3>1. Advanced(r) \in RunType /\ RunOK(r)'
      BY <1>2, <2>1, <2>3, <2>4, Advances DEF Settled
    <3> QED
      BY <1>2, <2>1, <2>2, <2>4, <3>1, Handles
  <2>5. CASE run' = [run EXCEPT ![r].pc = "failed"]
    <3>1. /\ [run[r] EXCEPT !.pc = "failed"] \in RunType /\ RunOK(r)'
          /\ run' = [run EXCEPT ![r] = [run[r] EXCEPT !.pc = "failed"]]
      BY <1>2, <2>1, <2>3, <2>5, Moves
    <3> QED
      BY <1>2, <2>1, <2>2, <3>1, Handles
  <2> QED
    BY <1>3, <2>4, <2>5 DEF PlainHandler, Affected, Current
<1>4. CASE DedupLookup(r)
  <2>1. /\ UNCHANGED <<conf, log, cursor, lock, leaked, applied, effects, marks, unmarked, dlq, abandoned>>
        /\ conf.handler = "dedup"
    BY <1>4 DEF DedupLookup, outside
  <2>2. Settled' = Settled
    BY <2>1 DEF Settled
  <2>3. CASE p \in marks
    <3>1. run' = [run EXCEPT ![r] = Advanced(r)] /\ p \in Settled'
      BY <1>1, <1>4, <2>1, <2>3 DEF DedupLookup, HasProcessedEvent, Current, Settled
    <3>2. Advanced(r) \in RunType /\ RunOK(r)'
      BY <1>2, <2>1, <2>2, <3>1, Advances
    <3> QED
      BY <1>0, <2>1, <3>1, <3>2, RunnerLocal
  <2>4. CASE p \notin marks
    <3>1. run' = [run EXCEPT ![r].pc = "inner"]
      BY <1>4, <2>4 DEF DedupLookup, HasProcessedEvent, Current
    <3>2. /\ [run[r] EXCEPT !.pc = "inner"] \in RunType /\ RunOK(r)'
          /\ run' = [run EXCEPT ![r] = [run[r] EXCEPT !.pc = "inner"]]
      BY <1>2, <2>1, <2>2, <3>1, Moves
    <3> QED
      BY <1>0, <2>1, <3>2, RunnerLocal
  <2> QED
    BY <2>3, <2>4
<1>5. CASE DedupInner(r)
  <2>1. /\ UNCHANGED <<conf, log, cursor, lock, leaked, marks, dlq, abandoned>>
        /\ conf.handler = "dedup"
    BY <1>0, <1>5 DEF DedupInner, RunOK
  <2>2. /\ effects' \in [1..MaxEvents -> 0..2] /\ (applied' = applied \/ applied' = applied \cup {p})
        /\ unmarked' = unmarked \/ unmarked' = unmarked \cup {p}
    BY <1>1, <1>5, AffectedKeeps DEF DedupInner, Affected, Unaffected, Current
  <2>3. Settled \subseteq Settled' /\ marks' \subseteq applied'
    BY <1>1, <2>1, <2>2 DEF Settled
  <2>4. PICK to \in {"mark", "failed"} : run' = [run EXCEPT ![r].pc = to] /\ (to = "mark" => p \in applied')
    BY <1>5 DEF DedupInner, Affected, Current
  <2>5. /\ [run[r] EXCEPT !.pc = to] \in RunType /\ RunOK(r)'
        /\ run' = [run EXCEPT ![r] = [run[r] EXCEPT !.pc = to]]
    BY <1>2, <2>1, <2>3, <2>4, Moves
  <2> QED
    BY <1>2, <2>1, <2>2, <2>3, <2>5, Handles
<1>6. CASE DedupMark(r)
  <2>1. /\ UNCHANGED <<conf, log, cursor, lock, leaked, applied, effects, unmarked, dlq, abandoned>>
        /\ marks' = marks \cup {p} /\ run' = [run EXCEPT ![r] = Advanced(r)]
        /\ conf.handler = "dedup" /\ p \in applied
    BY <1>0, <1>6 DEF DedupMark, Current, RunOK
  <2>2. Settled' = Settled /\ p \in Settled' /\ marks' \subseteq applied'
    BY <1>1, <2>1 DEF Settled
  <2>3. Advanced(r) \in RunType /\ RunOK(r)'
    BY <1>2, <2>1, <2>2, Advances
  <2> QED
    BY <1>1, <1>2, <2>1, <2>2, <2>3, Handles, ZenonT(60)
<1>7. CASE DedupFails(r)
  <2>1. /\ UNCHANGED <<conf, log, cursor, lock, leaked, applied, effects, marks, dlq, abandoned>>
        /\ unmarked' = unmarked \/ unmarked' = unmarked \cup {p}
        /\ run' = [run EXCEPT ![r].pc = "failed"]
    BY <1>7 DEF DedupFails, Interrupted, Current
  <2>2. Settled' = Settled
    BY <2>1 DEF Settled
  <2>3. /\ [run[r] EXCEPT !.pc = "failed"] \in RunType /\ RunOK(r)'
        /\ run' = [run EXCEPT ![r] = [run[r] EXCEPT !.pc = "failed"]]
    BY <1>2, <2>1, <2>2, Moves
  <2> QED
    BY <1>1, <1>2, <2>1, <2>3, Handles
<1> QED
  BY <1>3, <1>4, <1>5, <1>6, <1>7

\* A linked projection: a claim and its derived event come together.
LEMMA LinkedStep ==
    ASSUME ProgressInv, NEW r \in Runners, LinkedHandler(r)
    PROVE  ProgressInv'
<1> DEFINE p == run[r].next
<1>1. /\ UNCHANGED <<conf, log, cursor, lock, leaked, unmarked, dlq, abandoned>>
      /\ InBatch(r) /\ p <= run[r].end /\ InShard(p)
  BY DEF LinkedHandler, AtHandler, AtEvent, Current, InBatch
<1>2. effects \in [1..MaxEvents -> 0..2] /\ marks \subseteq applied
  BY DEF ProgressInv, TypeOK, LinkedHandler
<1>3. /\ effects' \in [1..MaxEvents -> 0..2]
      /\ applied' = applied \/ applied' = applied \cup {p}
      /\ marks' = marks \/ marks' = marks \cup {p}
      /\ marks' \subseteq applied'
      /\ \/ run' = [run EXCEPT ![r] = Advanced(r)] /\ p \in applied'
         \/ run' = [run EXCEPT ![r].pc = "failed"]
  <2>1. CASE AppendDerived(p)
    <3>1. CASE p \in marks
      BY <1>2, <2>1, <3>1 DEF AppendDerived, Unaffected, LinkedHandler, Current
    <3>2. CASE p \notin marks
      <4>1. Affected(p) /\ marks' = marks \cup {p}
        BY <2>1, <3>2 DEF AppendDerived
      <4>2. effects' \in [1..MaxEvents -> 0..2]
        BY <4>1, AffectedKeeps
      <4> QED
        BY <1>2, <4>1, <4>2 DEF Affected, LinkedHandler, Current
    <3> QED
      BY <3>1, <3>2
  <2>2. CASE ~ AppendDerived(p)
    BY <1>2, <2>2 DEF LinkedHandler, Unaffected, Current
  <2> QED
    BY <2>1, <2>2
<1>4. Settled \subseteq Settled'
  BY <1>1, <1>3 DEF Settled
<1>5. CASE run' = [run EXCEPT ![r] = Advanced(r)] /\ p \in applied'
  <2>1. Advanced(r) \in RunType /\ RunOK(r)'
    BY <1>1, <1>4, <1>5, Advances DEF Settled
  <2> QED
    BY <1>1, <1>3, <1>5, <2>1, Handles
<1>6. CASE run' = [run EXCEPT ![r].pc = "failed"]
  <2>1. /\ [run[r] EXCEPT !.pc = "failed"] \in RunType /\ RunOK(r)'
        /\ run' = [run EXCEPT ![r] = [run[r] EXCEPT !.pc = "failed"]]
    BY <1>1, <1>4, <1>6, Moves
  <2> QED
    BY <1>1, <1>3, <2>1, Handles
<1> QED
  BY <1>3, <1>5, <1>6

\* A run that is cut short.
LEMMA CutShort ==
    ASSUME ProgressInv, NEW r \in Runners, Crash(r) \/ ReturnsError(r) \/ Cancel(r)
    PROVE  ProgressInv'
<1>1. /\ UNCHANGED <<conf, log, cursor, applied, effects, marks, dlq, abandoned>>
      /\ run' = [run EXCEPT ![r] = Idle]
      /\ unmarked' = unmarked \/ (run[r].pc = "mark" /\ unmarked' = unmarked \cup {run[r].next})
  BY DEF Crash, ReturnsError, Cancel, Interrupted, Current, outside
<1>2. Idle \in RunType /\ RunOK(r)'
  BY <1>1, Returned
<1>3. /\ run[r] \in RunType /\ RunOK(r) /\ Len(log) \in Nat
      /\ cursor \in 0..Len(log) /\ SettledTo(cursor)
      /\ lock \in Runners \cup {None} /\ leaked \in BOOLEAN
  BY RunTypes
<1>4. lock' \in Runners \cup {None} /\ leaked' \in BOOLEAN
  <2>1. CASE Crash(r)
    BY <1>3, <2>1 DEF Crash
  <2>2. CASE ReturnsError(r)
    BY <1>3, <2>2, ReleaseType DEF ReturnsError
  <2>3. CASE Cancel(r)
    BY <1>3, <2>3 DEF Cancel
  <2> QED
    BY <2>1, <2>2, <2>3
<1>5. run[r].pc = "mark" => run[r].next \in Positions
  BY <1>3 DEF ProgressInv, TypeOK, RunOK
<1>6. /\ applied \subseteq Positions /\ effects \in [1..MaxEvents -> 0..2]
      /\ marks \subseteq Positions /\ unmarked \subseteq Positions
      /\ dlq \subseteq Positions /\ abandoned \subseteq Positions
      /\ conf.handler # "plain" => marks \subseteq applied
  BY DEF ProgressInv, TypeOK
<1>7. unmarked' \subseteq Positions
  BY <1>1, <1>5, <1>6
<1>8. Settled' = Settled
  BY <1>1 DEF Settled
<1>9. \A q \in 1..cursor' : InShard(q) => q \in Settled'
  BY <1>1, <1>3, <1>8 DEF SettledTo
<1> QED
  BY <1>1, <1>2, <1>3, <1>4, <1>6, <1>7, <1>8, <1>9, RunnerMoves

\* Steps of nobody's RunOnce that leave the read model alone.
LEMMA Elsewhere ==
    ASSUME ProgressInv, UNCHANGED <<conf, log, run, applied, effects>>,
           cursor' \in 0..cursor,
           lock' \in Runners \cup {None}, leaked' \in BOOLEAN,
           marks' \subseteq marks, unmarked' \subseteq Positions,
           dlq' \subseteq Positions, abandoned' \subseteq Positions,
           Settled \subseteq Settled'
    PROVE  ProgressInv'
<1>1. Positions' = Positions /\ \A q : InShard(q)' <=> InShard(q)
  BY DEF Positions, InShard
<1>2. Len(log) \in Nat /\ cursor \in 0..Len(log)
  BY SMTT(30), SMTT(60) DEF ProgressInv, TypeOK
<1>3. TypeOK'
  BY <1>1, <1>2, SMTT(30), SMTT(60) DEF ProgressInv, TypeOK
<1>4. NothingSkipped' /\ AppliedInOrder'
  BY <1>1, <1>2, SMTT(30), SMTT(60) DEF ProgressInv, NothingSkipped, AppliedInOrder
<1>5. ASSUME NEW r \in Runners PROVE RunOK(r)'
  <2>1. RunOK(r)
    BY DEF ProgressInv
  <2> QED
    BY <1>1, <2>1, ZenonT(60) DEF RunOK, InBatch, AtOne, SettledTo
<1>6. conf'.handler # "plain" => marks' \subseteq applied'
  BY DEF ProgressInv
<1> QED
  BY <1>3, <1>4, <1>5, <1>6 DEF ProgressInv

\* An append keeps ProgressInv.
LEMMA AppendStep ==
    ASSUME ProgressInv, NEW s \in Streams, AppendEvent(s)
    PROVE  ProgressInv'
<1>1. UNCHANGED <<conf, cursor, lock, leaked, run, applied, effects, marks, unmarked, dlq, abandoned>>
  BY DEF AppendEvent, outside
<1>2. /\ log \in Seq(Streams) /\ Len(log) \in Nat /\ log' \in Seq(Streams)
      /\ Len(log') = Len(log) + 1 /\ Len(log') <= MaxEvents
      /\ \A q \in 1..Len(log) : log'[q] = log[q]
  BY ProjectionAssumption, SMTT(30), SMTT(60) DEF ProgressInv, TypeOK, AppendEvent
<1>3. Positions \subseteq Positions' /\ \A q \in Positions : InShard(q)' <=> InShard(q)
  BY <1>2, SMTT(30), SMTT(60) DEF Positions, InShard
<1>4. TypeOK'
  <2>1. cursor' \in 0..Len(log')
    BY <1>1, <1>2, SMTT(30), SMTT(60) DEF ProgressInv, TypeOK
  <2> QED
    BY <1>1, <1>2, <1>3, <2>1 DEF ProgressInv, TypeOK
<1>5. Settled' = Settled
  BY <1>1 DEF Settled
<1>6. ASSUME NEW n \in Int, n <= Len(log), SettledTo(n)
      PROVE  \A q \in 1..n : InShard(q)' => q \in Settled'
  BY <1>2, <1>3, <1>5, <1>6, SMTT(30), SMTT(60) DEF SettledTo, Positions
<1>7. NothingSkipped'
  <2>1. cursor \in 0..Len(log) /\ SettledTo(cursor)
    BY DEF ProgressInv, TypeOK, NothingSkipped, SettledTo
  <2> QED
    BY <1>1, <1>2, <1>6, <2>1, SMTT(30), SMTT(60) DEF NothingSkipped
<1>8. AppliedInOrder'
  <2> SUFFICES ASSUME NEW x \in applied, NEW q \in 1..(x - 1), InShard(q)' PROVE q \in Settled'
    BY <1>1 DEF AppliedInOrder
  <2>1. x \in Positions
    BY DEF ProgressInv, TypeOK
  <2>2. q \in Positions
    BY <1>2, <2>1, SMTT(30), SMTT(60) DEF Positions
  <2> QED
    BY <1>3, <1>5, <2>2 DEF ProgressInv, AppliedInOrder
<1>9. ASSUME NEW r \in Runners PROVE RunOK(r)'
  <2>1. RunOK(r) /\ run[r] \in RunType
    BY RunTypes
  <2>2. run[r].cursor \in Nat /\ run[r].next \in Nat /\ run[r].end \in Nat
    BY <2>1, SMTT(30), SMTT(60) DEF RunType
  <2>3. run'[r] = run[r]
    BY <1>1
  <2>4. run[r].pc \notin {"idle", "load"} => run[r].cursor <= Len(log') /\ SettledTo(run[r].cursor)'
    <3> SUFFICES ASSUME run[r].pc \notin {"idle", "load"}
                 PROVE  run[r].cursor <= Len(log') /\ SettledTo(run[r].cursor)'
      OBVIOUS
    <3>1. PICK c \in Nat : c = run[r].cursor /\ c <= Len(log) /\ SettledTo(c)
      BY <2>1, <2>2 DEF RunOK
    <3>2. c \in Int /\ c <= Len(log')
      BY <1>2, <3>1, SMTT(30), SMTT(60)
    <3>3. \A q \in 1..c : InShard(q)' => q \in Settled'
      BY <1>6, <3>1, <3>2, ZenonT(60)
    <3> QED
      BY <2>3, <3>1, <3>2, <3>3 DEF SettledTo
  <2>5. InBatch(r) => run[r].end <= Len(log') /\ SettledTo(run[r].next - 1)'
    <3> SUFFICES ASSUME InBatch(r) PROVE run[r].end <= Len(log') /\ SettledTo(run[r].next - 1)'
      OBVIOUS
    <3>1. run[r].next <= run[r].end + 1 /\ run[r].end <= Len(log) /\ SettledTo(run[r].next - 1)
      BY <2>1 DEF RunOK
    <3>2. run[r].next - 1 \in Int /\ run[r].next - 1 <= Len(log)
      BY <1>2, <2>2, <3>1, SMTT(30), SMTT(60)
    <3>3. \A q \in 1..(run[r].next - 1) : InShard(q)' => q \in Settled'
      BY <1>6, <3>1, <3>2
    <3>4. run[r].end <= Len(log')
      BY <1>2, <2>2, <3>1, SMTT(30), SMTT(60)
    <3> QED
      BY <2>3, <3>3, <3>4 DEF SettledTo
  <2>6. AtOne(r) => InShard(run[r].next)'
    <3> SUFFICES ASSUME AtOne(r) PROVE InShard(run[r].next)'
      OBVIOUS
    <3>1. InBatch(r)
      BY DEF AtOne, InBatch
    <3>2. run[r].next \in Positions /\ InShard(run[r].next)
      BY <1>2, <2>1, <2>2, <3>1, SMTT(30), SMTT(60) DEF RunOK, Positions
    <3> QED
      BY <1>2, <2>3, <3>2 DEF InShard, Positions
  <2> QED
    BY <1>1, <2>1, <2>3, <2>4, <2>5, <2>6 DEF RunOK, InBatch, AtOne
<1> QED
  BY <1>1, <1>4, <1>7, <1>8, <1>9, ZenonT(60) DEF ProgressInv

\* What the operator does keeps it, where runners are stopped first.
LEMMA OperatorStep ==
    ASSUME ProgressInv, StopFirst, Operator
    PROVE  ProgressInv'
<1>1. /\ Len(log) \in Nat /\ cursor \in 0..Len(log) /\ lock \in Runners \cup {None} /\ leaked \in BOOLEAN
      /\ marks \subseteq Positions /\ unmarked \subseteq Positions
      /\ dlq \subseteq Positions /\ abandoned \subseteq Positions
  BY SMTT(30), SMTT(60) DEF ProgressInv, TypeOK
<1>2. CASE Rebuild
  <2>1. /\ UNCHANGED <<conf, log, lock, leaked, run, effects, marks, unmarked, dlq, abandoned>>
        /\ cursor' = 0 /\ \A r \in Runners : run[r].pc = "idle"
    BY <1>2 DEF Rebuild, Stopped
  <2>2. CASE conf.handler # "plain"
    <3>1. applied' = applied
      BY <1>2, <2>2 DEF Rebuild
    <3>2. Settled' = Settled
      BY <2>1, <3>1 DEF Settled
    <3> QED
      BY <1>1, <2>1, <3>1, <3>2, Elsewhere, SMTT(30), SMTT(60)
  <2>3. CASE conf.handler = "plain"
    <3>1. applied' = {}
      BY <1>2, <2>3 DEF Rebuild
    <3>2. Positions' = Positions
      BY <2>1 DEF Positions
    <3>3. TypeOK'
      BY <1>1, <2>1, <3>1, <3>2, SMTT(30), SMTT(60) DEF ProgressInv, TypeOK
    <3>4. NothingSkipped' /\ AppliedInOrder'
      BY <2>1, <3>1, SMTT(30), SMTT(60) DEF NothingSkipped, AppliedInOrder
    <3>5. \A r \in Runners : RunOK(r)'
      BY <2>1, ZenonT(60) DEF ProgressInv, RunOK, InBatch, AtOne
    <3> QED
      BY <2>1, <2>3, <3>3, <3>4, <3>5 DEF ProgressInv
  <2> QED
    BY <2>2, <2>3
<1>3. CASE AbandonAllProjectionDLQ
  <2>1. /\ UNCHANGED <<conf, log, cursor, lock, leaked, run, applied, effects, marks, unmarked>>
        /\ dlq' = {} /\ abandoned' = abandoned \cup dlq
    BY <1>3 DEF AbandonAllProjectionDLQ
  <2>2. Settled' = Settled /\ cursor' \in 0..cursor
    BY <1>1, <2>1, SMTT(30), SMTT(60) DEF Settled
  <2> QED
    BY <1>1, <2>1, <2>2, Elsewhere
<1>4. ASSUME NEW p \in Positions, ResetTo(p) PROVE ProgressInv'
  <2>1. /\ UNCHANGED <<conf, log, lock, leaked, run, applied, effects, marks, unmarked, dlq, abandoned>>
        /\ p < cursor /\ cursor' = p
    BY <1>4 DEF ResetTo, outside
  <2>2. Settled' = Settled /\ cursor' \in 0..cursor
    BY <1>1, <2>1, SMTT(30), SMTT(60) DEF Settled, Positions
  <2> QED
    BY <1>1, <2>1, <2>2, Elsewhere
<1>5. ASSUME NEW p \in Positions, AbandonProjectionDLQ(p) PROVE ProgressInv'
  <2>1. /\ UNCHANGED <<conf, log, cursor, lock, leaked, run, applied, effects, marks, unmarked>>
        /\ dlq' = dlq \ {p} /\ abandoned' = abandoned \cup {p}
    BY <1>5 DEF AbandonProjectionDLQ
  <2>2. Settled \subseteq Settled' /\ cursor' \in 0..cursor
    BY <1>1, <2>1, SMTT(30), SMTT(60) DEF Settled
  <2> QED
    BY <1>1, <2>1, <2>2, Elsewhere
<1>6. ASSUME NEW p \in Positions, CleanupProcessedEvents(p) PROVE ProgressInv'
  <2>1. /\ UNCHANGED <<conf, log, cursor, lock, leaked, run, applied, effects, dlq, abandoned>>
        /\ marks' \subseteq marks /\ unmarked' \subseteq unmarked \cup marks
    BY <1>6 DEF CleanupProcessedEvents
  <2>2. Settled' = Settled /\ cursor' \in 0..cursor
    BY <1>1, <2>1, SMTT(30), SMTT(60) DEF Settled
  <2> QED
    BY <1>1, <2>1, <2>2, Elsewhere
<1> QED
  BY <1>2, <1>3, <1>4, <1>5, <1>6 DEF Operator

\* Every step keeps ProgressInv.
LEMMA ProgressStep ==
    ASSUME ProgressInv, StopFirst, [Next]_vars
    PROVE  ProgressInv'
<1>1. ASSUME NEW r \in Runners, RunnerStep(r) \/ RunnerFault(r) PROVE ProgressInv'
  BY <1>1, OutsideLoop, InLoop, PlainAndDedup, LinkedStep, CutShort DEF RunnerStep,
     RunnerFault
<1>2. /\ lock \in Runners \cup {None} /\ leaked \in BOOLEAN /\ cursor \in 0..cursor
      /\ unmarked \subseteq Positions /\ dlq \subseteq Positions /\ abandoned \subseteq Positions
  BY SMTT(30), SMTT(60) DEF ProgressInv, TypeOK
<1>3. CASE SessionEnds
  <2>1. UNCHANGED <<conf, log, cursor, run, applied, effects, marks, unmarked, dlq, abandoned>>
    BY <1>3 DEF SessionEnds, outside
  <2>2. Settled' = Settled /\ lock' = None /\ leaked' = FALSE
    BY <1>3, <2>1 DEF Settled, SessionEnds
  <2> QED
    BY <1>2, <2>1, <2>2, Elsewhere
<1>4. CASE UNCHANGED vars
  <2>1. UNCHANGED <<conf, log, cursor, lock, leaked, run, applied, effects, marks, unmarked, dlq, abandoned>>
    BY <1>4 DEF vars, outside
  <2>2. Settled' = Settled
    BY <2>1 DEF Settled
  <2> QED
    BY <1>2, <2>1, <2>2, Elsewhere
<1> QED
  BY <1>1, <1>3, <1>4, AppendStep, OperatorStep DEF Next, NormalStep, Fault

-------------------------------------------------------------------------------

\* What all steps of a runner have in common.
LEMMA RunnerFrame ==
    ASSUME NEW r \in Runners, RunnerStep(r) \/ RunnerFault(r), run \in [Runners -> RunType]
    PROVE  /\ conf' = conf
           /\ \A t \in Runners \ {r} : run'[t] = run[t]
           /\ conf.locking => run[r].pc # "idle" \/ Available(r)
BY ZenonT(60) DEF RunnerStep, RunnerFault, Start, Load, Read, ReturnIdle, SkipOtherShard,
   PlainHandler, DedupLookup, DedupInner, DedupMark, LinkedHandler, FailStop, DeadLetter,
   EndBatch, SaveAndReturn, Crash, ReturnsError, DedupFails, DeadLetterFails, Cancel, AtEvent,
   AtHandler

\* The session lock lets one RunOnce run.
LEMMA OneRunner ==
    ASSUME LockInv, conf.locking, NEW r \in Runners, run[r].pc # "idle" \/ Available(r)
    PROVE  \A t \in Runners \ {r} : run[t].pc = "idle"
BY ProjectionAssumption DEF LockInv, Available

\* A runner keeps LockInv.
LEMMA RunnerKeepsLock ==
    ASSUME ProgressInv, LockInv, NEW r \in Runners, RunnerStep(r) \/ RunnerFault(r)
    PROVE  LockInv'
<1> SUFFICES ASSUME conf'.locking PROVE LockInv'
  BY DEF LockInv
<1>0. run \in [Runners -> RunType] /\ run[r] \in RunType
  BY DEF ProgressInv, TypeOK
<1>1. conf' = conf
  BY <1>0, RunnerFrame
<1>2. \A t \in Runners \ {r} : run[t].pc = "idle"
  BY <1>0, <1>1, RunnerFrame, OneRunner
<1>3. \A t \in Runners \ {r} : run'[t] = run[t]
  BY <1>0, RunnerFrame
<1>4. CASE Start(r)
  <2>1. lock' = r /\ run'[r].pc = "load"
    BY <1>0, <1>1, <1>4 DEF Start, RunType
  <2> QED
    BY <1>2, <1>3, <2>1, SMTT(30), SMTT(60) DEF LockInv
<1>5. CASE Load(r)
  <2>1. /\ lock' = lock /\ cursor' = cursor /\ run[r].pc = "load"
        /\ run'[r].cursor = cursor /\ run'[r].pc = "read"
    BY <1>0, <1>5 DEF Load, RunType
  <2> QED
    BY <1>1, <1>2, <1>3, <2>1, ZenonT(60) DEF LockInv
<1>6. CASE run' = [run EXCEPT ![r] = Idle]
  <2>1. run'[r].pc = "idle"
    BY <1>0, <1>6 DEF Idle
  <2> QED
    BY <1>2, <1>3, <2>1, ZenonT(60) DEF LockInv
<1>7. CASE \/ Read(r) \/ SkipOtherShard(r) \/ PlainHandler(r) \/ DedupLookup(r)
           \/ DedupInner(r) \/ DedupMark(r) \/ LinkedHandler(r) \/ FailStop(r) \/ DeadLetter(r)
           \/ EndBatch(r) \/ DedupFails(r) \/ DeadLetterFails(r)
  <2>1. lock' = lock /\ cursor' = cursor
    BY <1>7 DEF Read, SkipOtherShard, PlainHandler, DedupLookup, DedupInner, DedupMark,
       LinkedHandler, FailStop, DeadLetter, EndBatch, DedupFails, DeadLetterFails
  <2>2. run[r].pc \notin {"idle", "load"}
    BY <1>7 DEF Read, SkipOtherShard, PlainHandler, DedupLookup, DedupInner, DedupMark,
       LinkedHandler, FailStop, DeadLetter, EndBatch, DedupFails, DeadLetterFails, AtEvent,
       AtHandler
  <2>3. run'[r].cursor = run[r].cursor
    <3>1. CASE run' = [run EXCEPT ![r] = Advanced(r)]
      BY <1>0, <3>1 DEF Advanced, RunType
    <3>2. CASE \E to \in {"inner", "mark", "failed", "save"} : run' = [run EXCEPT ![r].pc = to]
      BY <1>0, <3>2, SMTT(30), SMTT(60) DEF RunType
    <3>3. CASE Read(r)
      BY <1>0, <3>3 DEF Read, RunType
    <3> QED
      BY <1>7, <3>1, <3>2, <3>3, ZenonT(60) DEF SkipOtherShard, PlainHandler, DedupLookup,
         DedupInner, DedupMark, LinkedHandler, FailStop, DeadLetter, EndBatch, DedupFails,
         DeadLetterFails
  <2> QED
    BY <1>1, <1>2, <1>3, <2>1, <2>2, <2>3, SMTT(30), SMTT(60) DEF LockInv
<1> QED
  BY <1>4, <1>5, <1>6, <1>7 DEF RunnerStep, RunnerFault, ReturnIdle, SaveAndReturn,
     Crash, ReturnsError, Cancel

\* Every step keeps LockInv.
LEMMA LockStep ==
    ASSUME ProgressInv, LockInv, StopFirst, [Next]_vars
    PROVE  LockInv'
<1>1. CASE \E r \in Runners : RunnerStep(r) \/ RunnerFault(r)
  BY <1>1, RunnerKeepsLock
<1>2. CASE SessionEnds
  BY <1>2 DEF SessionEnds, LockInv
<1>3. CASE Operator
  <2>1. UNCHANGED <<conf, lock, run>> /\ (UNCHANGED cursor \/ Stopped)
    BY <1>3 DEF Operator, Rebuild, AbandonAllProjectionDLQ, ResetTo,
       AbandonProjectionDLQ, CleanupProcessedEvents
  <2> QED
    BY <2>1 DEF LockInv, Stopped
<1>4. CASE \/ UNCHANGED vars
           \/ \E s \in Streams : AppendEvent(s)
  <2>1. UNCHANGED <<conf, lock, run, cursor>>
    BY <1>4 DEF vars, AppendEvent
  <2> QED
    BY <2>1 DEF LockInv
<1> QED
  BY <1>1, <1>2, <1>3, <1>4 DEF Next, NormalStep, Fault

-------------------------------------------------------------------------------

\* In one transaction with its mark an effect happens once.
LinkedEffects == \A p \in 1..MaxEvents : effects[p] # 2 /\ (effects[p] = 1 => p \in marks)

\* A step outside the handlers repeats nothing.
LEMMA NoEffect ==
    ASSUME EffectInv, UNCHANGED <<conf, effects, run>>,
           marks' = marks \/ conf.handler = "dedup", marks' \subseteq marks,
           marks \cup unmarked \subseteq marks' \cup unmarked', unmarked \subseteq unmarked'
    PROVE  EffectInv'
BY SMTT(30), SMTT(60) DEF EffectInv

\* A runner whose handler is in the transaction of the mark.
LEMMA LinkedOnce ==
    ASSUME ProgressInv, EffectInv, conf.handler = "linked",
           NEW r \in Runners, RunnerStep(r) \/ RunnerFault(r)
    PROVE  EffectInv'
<1>0. /\ LinkedEffects /\ RunOK(r) /\ effects \in [1..MaxEvents -> 0..2]
      /\ run \in [Runners -> RunType]
  BY DEF EffectInv, LinkedEffects, ProgressInv, TypeOK
<1>1. conf' = conf
  BY <1>0, RunnerFrame
<1>2. CASE LinkedHandler(r)
  <2> DEFINE p == run[r].next
  <2>1. UNCHANGED <<effects, marks>> \/ (p \notin marks /\ Affected(p) /\ marks' = marks \cup {p})
    BY <1>2 DEF LinkedHandler, AppendDerived, Unaffected, Current
  <2>2. CASE UNCHANGED <<effects, marks>>
    BY <1>0, <1>1, <2>2, ZenonT(60) DEF EffectInv, LinkedEffects
  <2>3. CASE p \notin marks /\ Affected(p) /\ marks' = marks \cup {p}
    <3>1. p \in 1..MaxEvents => effects[p] = 0
      BY <1>0, <2>3, SMTT(30), SMTT(60) DEF LinkedEffects
    <3>2. effects' = [effects EXCEPT ![p] = IF effects[p] = 0 THEN 1 ELSE 2]
      BY <2>3 DEF Affected
    <3> HIDE DEF p
    <3>3. ASSUME NEW q \in 1..MaxEvents PROVE effects'[q] # 2 /\ (effects'[q] = 1 => q \in marks')
      <4>1. CASE q = p
        <5>1. effects'[q] = 1
          BY <1>0, <3>1, <3>2, <4>1
        <5> QED
          BY <2>3, <4>1, <5>1, SMTT(30), SMTT(60)
      <4>2. CASE q # p
        BY <1>0, <2>3, <3>2, <4>2, ZenonT(60) DEF LinkedEffects
      <4> QED
        BY <4>1, <4>2
    <3> QED
      BY <1>1, <3>3 DEF EffectInv
  <2> QED
    BY <2>1, <2>2, <2>3
<1>3. CASE ~ LinkedHandler(r)
  <2>1. UNCHANGED <<effects, marks>>
    BY <1>0, <1>3, ZenonT(60) DEF RunOK, RunnerStep, RunnerFault, Start, Load, Read, ReturnIdle, SkipOtherShard, PlainHandler, DedupLookup,
         DedupInner, DedupMark, FailStop, DeadLetter, EndBatch, SaveAndReturn,
         Crash, ReturnsError, DedupFails, DeadLetterFails, Cancel, outside
  <2> QED
    BY <1>0, <1>1, <2>1 DEF EffectInv, LinkedEffects
<1> QED
  BY <1>2, <1>3

\* A runner that looks for the mark first, and has the lock.
LEMMA DedupOnce ==
    ASSUME ProgressInv, LockInv, EffectInv, conf.handler = "dedup", conf.locking,
           NEW r \in Runners, RunnerStep(r) \/ RunnerFault(r)
    PROVE  EffectInv'
<1> DEFINE p == run[r].next
<1>0. /\ RunOK(r) /\ effects \in [1..MaxEvents -> 0..2]
      /\ run \in [Runners -> RunType] /\ run[r] \in RunType
  BY DEF ProgressInv, TypeOK
<1>1. conf' = conf
  BY <1>0, RunnerFrame
<1>2. \A t \in Runners \ {r} : run[t].pc = "idle" /\ run'[t] = run[t]
  BY <1>0, RunnerFrame, OneRunner
<1>3. /\ \A q \in 1..MaxEvents :
            /\ effects[q] = 2 => q \in unmarked
            /\ effects[q] = 1 => q \in marks \cup unmarked \/ (run[r].pc = "mark" /\ p = q)
      /\ run[r].pc = "inner" => p \notin marks
  BY <1>2, SMTT(30), SMTT(60) DEF EffectInv
<1>4. SUFFICES
        /\ \A q \in 1..MaxEvents :
              /\ effects'[q] = 2 => q \in unmarked'
              /\ effects'[q] = 1 => q \in marks' \cup unmarked' \/ (run'[r].pc = "mark" /\ run'[r].next = q)
        /\ run'[r].pc = "inner" => run'[r].next \notin marks'
  BY <1>1, <1>2, SMTT(30), SMTT(60) DEF EffectInv
<1>5. CASE DedupLookup(r)
  <2>1. UNCHANGED <<effects, marks, unmarked>> /\ run[r].pc = "event"
    BY <1>5 DEF DedupLookup, outside, AtHandler, AtEvent
  <2>2. run'[r].pc = "inner" => run'[r].next = p /\ p \notin marks
    <3>1. CASE p \in marks
      BY <1>0, <1>5, <3>1 DEF DedupLookup, HasProcessedEvent, Current, Advanced, RunType
    <3>2. CASE p \notin marks
      BY <1>0, <1>5, <3>2, ZenonT(60) DEF DedupLookup, HasProcessedEvent, Current, RunType
    <3> QED
      BY <3>1, <3>2
  <2> QED
    BY <1>3, <2>1, <2>2
<1>6. CASE DedupInner(r)
  <2>1. marks' = marks /\ run[r].pc = "inner" /\ p \notin marks
    BY <1>3, <1>6 DEF DedupInner
  <2>2. ASSUME Affected(p), NEW q \in 1..MaxEvents
        PROVE  /\ q # p => effects'[q] = effects[q]
               /\ q = p => effects'[q] \in {1, 2} /\ (effects'[q] = 2 => q \in unmarked)
    <3>1. effects' = [effects EXCEPT ![p] = IF effects[p] = 0 THEN 1 ELSE 2]
      BY <2>2 DEF Affected
    <3> HIDE DEF p
    <3>2. CASE q # p
      BY <1>0, <3>1, <3>2
    <3>3. CASE q = p /\ effects[p] = 0
      <4>1. effects'[q] = 1
        BY <1>0, <3>1, <3>3
      <4> QED
        BY <3>3, <4>1, SMTT(30), SMTT(60)
    <3>4. CASE q = p /\ effects[p] # 0
      <4>1. effects'[q] = 2
        BY <1>0, <3>1, <3>4
      <4>2. effects[q] = 1 \/ effects[q] = 2
        BY <1>0, <3>4, SMTT(30), SMTT(60)
      <4> QED
        BY <1>3, <2>1, <3>4, <4>1, <4>2
    <3> QED
      BY <3>2, <3>3, <3>4, ZenonT(60)
  <2>3. CASE Affected(p) /\ run' = [run EXCEPT ![r].pc = "mark"] /\ UNCHANGED unmarked
    <3>1. run'[r].pc = "mark" /\ run'[r].next = p
      BY <1>0, <2>3 DEF RunType
    <3> QED
      BY <1>3, <2>1, <2>2, <2>3, <3>1, SMTT(30), SMTT(60)
  <2>4. CASE Affected(p) /\ run' = [run EXCEPT ![r].pc = "failed"] /\ unmarked' = unmarked \cup {p}
    <3>1. run'[r].pc = "failed"
      BY <1>0, <2>4 DEF RunType
    <3> QED
      BY <1>3, <2>1, <2>2, <2>4, <3>1, SMTT(30), SMTT(60)
  <2>5. CASE Unaffected /\ run' = [run EXCEPT ![r].pc = "failed"] /\ UNCHANGED unmarked
    <3>1. run'[r].pc = "failed" /\ effects' = effects
      BY <1>0, <2>5 DEF RunType, Unaffected
    <3> QED
      BY <1>3, <2>1, <2>5, <3>1, ZenonT(60)
  <2> QED
    BY <1>6, <2>3, <2>4, <2>5, ZenonT(60) DEF DedupInner, Current
<1>7. CASE DedupMark(r)
  <2>1. UNCHANGED <<effects, unmarked>> /\ marks' = marks \cup {p} /\ run'[r].pc = "event"
    BY <1>0, <1>7 DEF DedupMark, Current, Advanced, RunType
  <2> QED
    BY <1>3, <2>1
<1>8. CASE DedupFails(r) \/ Crash(r) \/ Cancel(r)
  <2>1. /\ UNCHANGED <<effects, marks>>
        /\ unmarked' = IF run[r].pc = "mark" THEN unmarked \cup {p} ELSE unmarked
    BY <1>8 DEF DedupFails, Crash, Cancel, Interrupted, Current
  <2>2. run'[r].pc \in {"failed", "idle"}
    BY <1>0, <1>8, SMTT(30), SMTT(60) DEF DedupFails, Crash, Cancel, Idle, RunType
  <2> QED
    BY <1>3, <2>1, <2>2
<1>9. CASE \/ Start(r) \/ Load(r) \/ Read(r) \/ ReturnIdle(r) \/ SkipOtherShard(r) \/ FailStop(r)
           \/ DeadLetter(r) \/ EndBatch(r) \/ SaveAndReturn(r) \/ ReturnsError(r) \/ DeadLetterFails(r)
  <2>1. UNCHANGED <<effects, marks, unmarked>> /\ run[r].pc # "mark"
    BY <1>9 DEF Start, Load, Read, ReturnIdle, SkipOtherShard, FailStop, DeadLetter,
       EndBatch, SaveAndReturn, ReturnsError, DeadLetterFails, AtEvent, outside
  <2>2. run'[r].pc # "inner"
    <3>0. CASE run' = [run EXCEPT ![r] = Idle]
      BY <1>0, <3>0 DEF Idle
    <3>1. CASE run' = [run EXCEPT ![r] = Advanced(r)]
      BY <1>0, <3>1 DEF Advanced, RunType
    <3>2. CASE \E to \in {"load", "save"} : run' = [run EXCEPT ![r].pc = to]
      BY <1>0, <3>2, SMTT(30), SMTT(60) DEF RunType
    <3>3. CASE Load(r) \/ Read(r)
      BY <1>0, <3>3, SMTT(30), SMTT(60) DEF Load, Read, RunType
    <3> QED
      BY <1>9, <3>0, <3>1, <3>2, <3>3 DEF Start, ReturnIdle, SkipOtherShard, FailStop,
         DeadLetter, EndBatch, SaveAndReturn, ReturnsError, DeadLetterFails
  <2> QED
    BY <1>3, <2>1, <2>2
<1> QED
  BY <1>5, <1>6, <1>7, <1>8, <1>9, ZenonT(60) DEF RunnerStep, RunnerFault, PlainHandler,
     LinkedHandler

\* Every step keeps EffectInv.
LEMMA EffectStep ==
    ASSUME ProgressInv, LockInv, EffectInv, [Next]_vars
    PROVE  EffectInv'
<1>1. ASSUME NEW r \in Runners, RunnerStep(r) \/ RunnerFault(r) PROVE EffectInv'
  <2>1. conf' = conf
    BY <1>1, RunnerFrame DEF ProgressInv, TypeOK
  <2>2. CASE conf.handler # "linked" /\ ~ (conf.handler = "dedup" /\ conf.locking)
    BY <2>1, <2>2 DEF EffectInv
  <2> QED
    BY <1>1, <2>2, LinkedOnce, DedupOnce
<1>2. CASE \/ UNCHANGED vars
           \/ SessionEnds
           \/ Rebuild
           \/ AbandonAllProjectionDLQ
           \/ \E s \in Streams : AppendEvent(s)
           \/ \E p \in Positions : ResetTo(p) \/ AbandonProjectionDLQ(p)
  <2>1. UNCHANGED <<conf, effects, run, marks, unmarked>>
    BY <1>2 DEF vars, outside, SessionEnds, Rebuild, AbandonAllProjectionDLQ,
       AppendEvent, ResetTo, AbandonProjectionDLQ
  <2> QED
    BY <2>1, NoEffect
<1>3. ASSUME NEW p \in Positions, CleanupProcessedEvents(p) PROVE EffectInv'
  <2>1. /\ UNCHANGED <<conf, effects, run>> /\ conf.handler = "dedup"
        /\ marks' \subseteq marks /\ unmarked \subseteq unmarked'
    BY <1>3 DEF CleanupProcessedEvents
  <2>2. marks \cup unmarked \subseteq marks' \cup unmarked'
    <3> SUFFICES ASSUME NEW q \in marks PROVE q \in marks' \cup unmarked'
      BY <2>1
    <3>1. q \in Nat /\ p \in Nat
      BY SMTT(30), SMTT(60) DEF ProgressInv, TypeOK, Positions
    <3> QED
      BY <1>3, <3>1, SMTT(30), SMTT(60) DEF CleanupProcessedEvents
  <2> QED
    BY <2>1, <2>2, NoEffect
<1> QED
  BY <1>1, <1>2, <1>3 DEF Next, NormalStep, Fault, Operator

-------------------------------------------------------------------------------

\* The initial state.
LEMMA InitInv == Init => Inv
<1> SUFFICES ASSUME Init PROVE Inv
  OBVIOUS
<1>1. \A r \in Runners : run[r].pc = "idle"
  BY DEF Init, Idle
<1>2. \A p \in 1..MaxEvents : effects[p] = 0
  BY DEF Init
<1>3. LockInv /\ EffectInv
  BY <1>1, <1>2, SMTT(30), SMTT(60) DEF LockInv, EffectInv
<1> QED
  BY <1>3, InitProgress DEF Inv

\* Inv is an invariant, where the operator stops runners first.
LEMMA Invariance == ASSUME StopFirst PROVE Spec => []Inv
<1>1. Inv /\ [Next]_vars => Inv'
  BY ProgressStep, LockStep, EffectStep DEF Inv
<1> QED
  BY <1>1, InitInv, PTL DEF Spec

\* Every reachable state of the projection runtime has the declared types: no
\* checkpoint or batch ever passes the end of the log.
THEOREM TypeCorrect == ASSUME StopFirst PROVE Spec => []TypeOK
<1>1. Inv => TypeOK
  BY DEF Inv, ProgressInv
<1> QED
  BY <1>1, Invariance, PTL

\* However many runners overlap, fail, crash or are reset, and with any BatchSize,
\* the checkpoint passes no event of the shard that was not handled.
THEOREM ProjectionSkipsNothing == ASSUME StopFirst PROVE Spec => []NothingSkipped
<1>1. Inv => NothingSkipped
  BY DEF Inv, ProgressInv
<1> QED
  BY <1>1, Invariance, PTL

\* Handlers see the events of the shard in position order, with or without the lock.
THEOREM ProjectionAppliesInOrder == ASSUME StopFirst PROVE Spec => []AppliedInOrder
<1>1. Inv => AppliedInOrder
  BY DEF Inv, ProgressInv
<1> QED
  BY <1>1, Invariance, PTL

\* A linked projection emits once per source event, without any lock; WithDedup
\* under the lock repeats only an effect whose mark was lost.
THEOREM ProjectionEffectsOnce == ASSUME StopFirst PROVE Spec => []EffectsOnce
<1>1. Inv => EffectsOnce
  <2> SUFFICES ASSUME Inv, NEW p \in Positions, effects[p] = 2
               PROVE  conf.handler = "plain" \/ (conf.handler = "dedup" /\ (~ conf.locking \/ p \in unmarked))
    BY DEF EffectsOnce
  <2>1. conf.handler \in {"plain", "dedup", "linked"} /\ p \in 1..MaxEvents
    BY ProjectionAssumption, SMTT(30), SMTT(60) DEF Inv, ProgressInv, TypeOK, Config, Positions
  <2> QED
    BY <2>1 DEF Inv, EffectInv
<1> QED
  BY <1>1, Invariance, PTL

\* Under the lock only an operator moves the checkpoint back: a slow runner cannot
\* overwrite it with an older position.
THEOREM ProjectionMovesForward == ASSUME StopFirst PROVE Spec => OnlyResetsMoveBack
<1>1. ASSUME Inv, [Next]_vars PROVE [cursor' < cursor /\ conf.locking => Stopped]_vars
  <2>1. cursor \in Nat
    BY <1>1, SMTT(30), SMTT(60) DEF Inv, ProgressInv, TypeOK
  <2>2. ASSUME NEW r \in Runners, SaveAndReturn(r), conf.locking PROVE ~ (cursor' < cursor)
    <3>1. run[r].pc = "save" /\ run[r] \in RunType /\ RunOK(r)
      BY <1>1, <2>2, RunTypes DEF SaveAndReturn, Inv
    <3>2. run[r].cursor = cursor
      BY <1>1, <2>2, <3>1 DEF Inv, LockInv
    <3>3. run[r].last = 0 \/ cursor < run[r].last
      BY <3>1, <3>2 DEF RunOK, InBatch
    <3>4. run[r].last \in Nat
      BY <3>1, SMTT(30), SMTT(60) DEF RunType
    <3> QED
      BY <2>1, <2>2, <3>3, <3>4, SMTT(30), SMTT(60) DEF SaveAndReturn, Saved
  <2>3. CASE \/ \E s \in Streams : AppendEvent(s)
             \/ SessionEnds
             \/ \E r \in Runners : RunnerFault(r) \/ (RunnerStep(r) /\ ~ SaveAndReturn(r))
    <3>1. cursor' = cursor
      BY <2>3, ZenonT(60) DEF AppendEvent, SessionEnds, RunnerStep, RunnerFault, Start, Load, Read, ReturnIdle,
         SkipOtherShard, PlainHandler, DedupLookup, DedupInner, DedupMark, LinkedHandler, FailStop,
         DeadLetter, EndBatch, Crash, ReturnsError, DedupFails, DeadLetterFails, Cancel
    <3> QED
      BY <2>1, <3>1, SMTT(30), SMTT(60)
  <2>4. CASE Operator
    <3>1. cursor' = cursor \/ Stopped
      BY <2>4 DEF Operator, Rebuild, AbandonAllProjectionDLQ, ResetTo,
         AbandonProjectionDLQ, CleanupProcessedEvents
    <3> QED
      BY <2>1, <3>1, SMTT(30), SMTT(60)
  <2> QED
    BY <1>1, <2>2, <2>3, <2>4 DEF Next, NormalStep, Fault
<1> QED
  BY <1>1, Invariance, PTL DEF Spec, OnlyResetsMoveBack
===============================================================================
