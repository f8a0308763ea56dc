-------------------------- MODULE StateStreamProofs --------------------------
(***************************************************************************)
(* The safety properties of StateStream, for any number of streams and     *)
(* drains and any configuration.                                           *)
(*                                                                         *)
(* CaughtUpIsDelivered is not inductive: a drain delivers and advances     *)
(* from rows it listed long before, while others deliver newer ones, a     *)
(* rebuild writes older rows and operators reset positions.  What makes it *)
(* so is that no position is beyond what the subscriber has, nor is the    *)
(* row of a drain that is about to advance.                                *)
(***************************************************************************)
EXTENDS StateStream, Integers, TLAPS

USE Zenon

\* The rows of a batch.
Rows == Seq(Envelope)

\* ORDER BY over some positions: a fact about constants, that OrderFactsHold at the
\* end derives from OrderingProofs.  The lemmas before it assume it, so that the
\* facts about finite sets stay out of their proofs.
OrderFacts ==
    \A n \in Nat : \A S \in SUBSET (1..n) :
        /\ Cardinality(S) \in Nat
        /\ InOrder(S) \in Seq(S) /\ Len(InOrder(S)) = Cardinality(S)
        /\ \A i, j \in 1..Cardinality(S) : i < j => InOrder(S)[i] < InOrder(S)[j]
        /\ \A x \in S : \E i \in 1..Cardinality(S) : InOrder(S)[i] = x

-------------------------------------------------------------------------------
(* Lemmas on sequences *)

\* The entries of a sequence over a set are members of the set.
LEMMA ElementsOf ==
    ASSUME NEW S, NEW q \in Seq(S)
    PROVE  DOMAIN q = 1..Len(q) /\ \A i \in 1..Len(q) : q[i] \in S
BY SMTT(30), SMTT(60)

\* The order o after the row of s was written again: it comes last.
MovedLast(o, s) ==
    LET others == InOrder({i \in DOMAIN o : o[i] # s})
    IN  Append([i \in DOMAIN others |-> o[others[i]]], s)

\* A list without repetitions.
Distinct(o) == \A i, j \in DOMAIN o : o[i] = o[j] => i = j
\* r is in the list.
Lists(o, r) == \E i \in DOMAIN o : o[i] = r

\* UpsertStateCache moves a stream to the end and keeps one row of each.
LEMMA TouchedOrder ==
    ASSUME OrderFacts, NEW S, NEW o \in Seq(S), NEW s \in S, NEW n,
           Distinct(o), n = MovedLast(o, s)
    PROVE  /\ n \in Seq(S)
           /\ Distinct(n)
           /\ \A r \in S : Lists(n, r) <=> r = s \/ Lists(o, r)
<1> USE DEF Distinct, Lists
<1> DEFINE I == {i \in DOMAIN o : o[i] # s}
           k == Cardinality(I)
           q == InOrder(I)
           m == [i \in 1..k |-> o[q[i]]]
<1>1. DOMAIN o = 1..Len(o) /\ Len(o) \in Nat
  BY SMTT(30), SMTT(60)
<1>2. I \in SUBSET (1..Len(o))
  BY <1>1
<1>3. /\ k \in Nat /\ q \in Seq(I) /\ Len(q) = k
      /\ \A i, j \in 1..k : i < j => q[i] < q[j]
  <2> HIDE DEF I
  <2> QED
    BY <1>1, <1>2 DEF OrderFacts
<1>4. \A x \in I : \E i \in 1..k : q[i] = x
  <2> HIDE DEF I
  <2> QED
    BY <1>1, <1>2 DEF OrderFacts
<1>5. DOMAIN q = 1..k /\ \A i \in 1..k : q[i] \in I
  <2> HIDE DEF I, q, k
  <2> QED
    BY <1>3, ElementsOf
<1>6. n = Append(m, s)
  BY <1>5 DEF MovedLast
<1>7. \A i \in 1..k : q[i] \in DOMAIN o /\ o[q[i]] \in S /\ o[q[i]] # s /\ q[i] \in Nat
  <2>1. \A x \in I : x \in DOMAIN o /\ o[x] \in S /\ o[x] # s /\ x \in Nat
    BY <1>1, SMTT(30), SMTT(60)
  <2> HIDE DEF k, q, I
  <2> QED
    BY <1>5, <2>1
<1> HIDE DEF k, q, I
<1>8. m \in [1..k -> S]
  BY <1>7
<1>9. m \in Seq(S) /\ Len(m) = k
  <2> HIDE DEF m
  <2> QED
    BY <1>3, <1>8, SMTT(30), SMTT(60)
<1>10. /\ n \in Seq(S) /\ Len(n) = k + 1 /\ DOMAIN n = 1..(k + 1)
       /\ \A i \in 1..k : n[i] = o[q[i]]
       /\ n[k + 1] = s
  <2>1. \A i \in 1..k : m[i] = o[q[i]]
    OBVIOUS
  <2> HIDE DEF m
  <2>2. /\ n \in Seq(S) /\ Len(n) = k + 1
        /\ \A i \in 1..k : n[i] = m[i]
        /\ n[k + 1] = s
    <3>1. /\ Append(m, s) \in Seq(S) /\ Len(Append(m, s)) = Len(m) + 1
          /\ \A i \in 1..Len(m) : Append(m, s)[i] = m[i]
          /\ Append(m, s)[Len(m) + 1] = s
      BY <1>9, SMTT(30), SMTT(60)
    <3> QED
      BY <1>6, <1>9, <3>1
  <2>3. DOMAIN n = 1..(k + 1)
    BY <2>2, SMTT(30), SMTT(60)
  <2> QED
    BY <2>1, <2>2, <2>3
<1> HIDE DEF m
<1>11. ASSUME NEW i \in 1..(k + 1), NEW j \in 1..(k + 1), n[i] = n[j]
       PROVE  i = j
  <2>1. i \in 1..k \/ i = k + 1
    BY <1>3, SMTT(30), SMTT(60)
  <2>2. j \in 1..k \/ j = k + 1
    BY <1>3, SMTT(30), SMTT(60)
  <2>3. CASE i \in 1..k /\ j \in 1..k
    <3>1. o[q[i]] = o[q[j]] /\ q[i] \in DOMAIN o /\ q[j] \in DOMAIN o
      BY <1>7, <1>10, <1>11, <2>3
    <3>2. q[i] = q[j]
      BY <3>1
    <3>3. ~(i < j) /\ ~(j < i)
      BY <1>3, <1>7, <2>3, <3>2, SMTT(30), SMTT(60)
    <3> QED
      BY <2>3, <3>3, SMTT(30), SMTT(60)
  <2>4. CASE i = k + 1 /\ j \in 1..k
    BY <1>7, <1>10, <1>11, <2>4
  <2>5. CASE i \in 1..k /\ j = k + 1
    BY <1>7, <1>10, <1>11, <2>5
  <2> QED
    BY <2>1, <2>2, <2>3, <2>4, <2>5
<1>12. ASSUME NEW r \in S
       PROVE  (\E i \in DOMAIN n : n[i] = r) <=> r = s \/ \E i \in DOMAIN o : o[i] = r
  <2>1. ASSUME NEW i \in DOMAIN n, n[i] = r, r # s
        PROVE  \E j \in DOMAIN o : o[j] = r
    <3>1. i \in 1..k
      BY <1>3, <1>10, <2>1, SMTT(30), SMTT(60)
    <3> QED
      BY <1>7, <1>10, <2>1, <3>1
  <2>2. ASSUME NEW i \in DOMAIN o, o[i] = r, r # s
        PROVE  \E j \in DOMAIN n : n[j] = r
    <3>1. i \in I
      BY <2>2 DEF I
    <3>2. PICK j \in 1..k : q[j] = i
      BY <1>4, <3>1
    <3>3. j \in DOMAIN n
      BY <1>3, <1>10, SMTT(30), SMTT(60)
    <3> QED
      BY <1>10, <2>2, <3>2, <3>3
  <2>3. k + 1 \in DOMAIN n
    BY <1>3, <1>10, SMTT(30), SMTT(60)
  <2> QED
    BY <1>10, <2>1, <2>2, <2>3
<1> QED
  BY <1>10, <1>11, <1>12

\* The rest of a batch holds nothing new.
LEMMA TailOf ==
    ASSUME NEW S, NEW b \in Seq(S), b # <<>>
    PROVE  Tail(b) \in Seq(S) /\ Head(b) \in S
BY SMTT(30), SMTT(60)

-------------------------------------------------------------------------------
(* The steps of one drain *)

\* The pages ListStreamsBehind returns: streams with their versions.
LEMMA ListedRows ==
    ASSUME OrderFacts, TypeOK
    PROVE  Listed \in Rows
<1> DEFINE A == {i \in DOMAIN order : Behind(order[i])}
           F == FirstOf(A, conf.batch)
           q == InOrder(F)
           k == Cardinality(F)
<1>1. order \in Seq(Streams) /\ cache \in [Streams -> Nat]
  BY DEF TypeOK
<1>2. F \in SUBSET (1..Len(order)) /\ Len(order) \in Nat /\ F \subseteq DOMAIN order
  BY <1>1, SMTT(30), SMTT(60) DEF FirstOf
<1>3. k \in Nat /\ q \in Seq(F) /\ Len(q) = k
  <2> HIDE DEF F
  <2> QED
    BY <1>2 DEF OrderFacts
<1>4. Listed = [i \in DOMAIN q |-> [stream |-> order[q[i]], version |-> cache[order[q[i]]]]]
  BY DEF Listed
<1> HIDE DEF F, q, k
<1>5. DOMAIN q = 1..k /\ \A i \in 1..k : q[i] \in F
  BY <1>3, ElementsOf
<1>6. \A i \in 1..k : order[q[i]] \in Streams
  <2>1. \A y \in DOMAIN order : order[y] \in Streams
    BY <1>1, SMTT(30), SMTT(60)
  <2> QED
    BY <1>2, <1>5, <2>1
<1>7. \A i \in 1..k : [stream |-> order[q[i]], version |-> cache[order[q[i]]]] \in Envelope
  BY <1>1, <1>6 DEF Envelope
<1>8. Listed \in [1..k -> Envelope]
  BY <1>4, <1>5, <1>7
<1> QED
  BY <1>3, <1>8, SMTT(30), SMTT(60) DEF Rows

\* One drain's variables change, the others' do not.
LEMMA Updated ==
    ASSUME NEW d \in Drains, NEW r \in DrainType, drain \in [Drains -> DrainType],
           drain' = [drain EXCEPT ![d] = r]
    PROVE  /\ drain' \in [Drains -> DrainType]
           /\ drain'[d] = r
           /\ \A e \in Drains \ {d} : drain'[e] = drain[e]
OBVIOUS

\* The fields of a drain.
LEMMA DrainFields ==
    ASSUME TypeOK, NEW d \in Drains
    PROVE  /\ drain \in [Drains -> DrainType] /\ drain[d] \in DrainType
           /\ drain[d].pc \in {"idle", "list", "publish", "advance"}
           /\ drain[d].batch \in Rows
           /\ drain[d].progress \in BOOLEAN
           /\ drain[d].pc = "advance" => drain[d].batch # <<>>
BY DEF TypeOK, DrainType, Rows

\* Some pc, batch and progress make up the variables of a drain.
LEMMA DrainRecord ==
    ASSUME NEW p \in {"idle", "list", "publish", "advance"}, NEW b \in Rows, NEW g \in BOOLEAN
    PROVE  LET r == [pc |-> p, batch |-> b, progress |-> g]
           IN  r \in DrainType /\ r.pc = p /\ r.batch = b /\ r.progress = g
BY DEF DrainType, Rows

\* A field of the variables of a drain is replaced.
LEMMA FieldReplaced ==
    ASSUME NEW r \in DrainType, NEW v
    PROVE  /\ [r EXCEPT !.pc = v] = [pc |-> v, batch |-> r.batch, progress |-> r.progress]
           /\ [r EXCEPT !.batch = v] = [pc |-> r.pc, batch |-> v, progress |-> r.progress]
<1>1. PICK P, B, G : r \in [pc : P, batch : B, progress : G]
  BY DEF DrainType
<1> QED
  BY <1>1, SMTT(30), SMTT(60)

\* Drain d moves on, the others stay.
Moved(d) ==
    /\ drain' \in [Drains -> DrainType]
    /\ \A e \in Drains \ {d} : drain'[e] = drain[e]
    /\ drain'[d].pc = "advance" => drain'[d].batch # <<>>

\* The batch is left alone.
LEMMA PcMoves ==
    ASSUME TypeOK, NEW d \in Drains, NEW p \in {"list", "publish", "advance"},
           p = "advance" => drain[d].batch # <<>>,
           drain' = [drain EXCEPT ![d].pc = p]
    PROVE  Moved(d) /\ drain'[d].pc = p /\ drain'[d].batch = drain[d].batch
<1> DEFINE r == [pc |-> p, batch |-> drain[d].batch, progress |-> drain[d].progress]
<1>1. r \in DrainType /\ r.pc = p /\ r.batch = drain[d].batch
  BY DrainFields, DrainRecord
<1>2. drain' = [drain EXCEPT ![d] = r]
  <2>1. [drain[d] EXCEPT !.pc = p] = r
    <3>1. drain[d] \in DrainType
      BY DrainFields
    <3> QED
      BY <3>1, FieldReplaced
  <2> HIDE DEF r
  <2> QED
    BY <2>1
<1> HIDE DEF r
<1>3. /\ drain' \in [Drains -> DrainType]
      /\ drain'[d] = r
      /\ \A e \in Drains \ {d} : drain'[e] = drain[e]
  BY <1>1, <1>2, DrainFields, Updated, ZenonT(60)
<1> QED
  BY <1>1, <1>3 DEF Moved

\* The batch is replaced by nothing, its tail, or what was listed.
LEMMA BatchMoves ==
    ASSUME OrderFacts, TypeOK, NEW d \in Drains, NEW p \in {"idle", "list", "publish"}, NEW g \in BOOLEAN,
           NEW b \in {<<>>, Tail(drain[d].batch), Listed},
           b = Tail(drain[d].batch) => b = <<>> \/ drain[d].batch # <<>>,
           drain' = [drain EXCEPT ![d] = [pc |-> p, batch |-> b, progress |-> g]]
    PROVE  Moved(d) /\ drain'[d].pc = p /\ drain'[d].batch = b
<1> DEFINE r == [pc |-> p, batch |-> b, progress |-> g]
<1>1. b \in Rows
  <2>1. CASE b = <<>>
    BY <2>1, SMTT(30), SMTT(60) DEF Rows
  <2>2. CASE b = Tail(drain[d].batch) /\ b # <<>>
    BY <2>2, DrainFields, TailOf DEF Rows
  <2>3. CASE b = Listed
    BY <2>3, ListedRows
  <2> QED
    BY <2>1, <2>2, <2>3
<1>2. r \in DrainType /\ r.pc = p /\ r.batch = b
  BY <1>1, DrainRecord
<1> HIDE DEF r
<1>3. /\ drain' \in [Drains -> DrainType]
      /\ drain'[d] = r
      /\ \A e \in Drains \ {d} : drain'[e] = drain[e]
  BY <1>2, DrainFields, Updated, ZenonT(60) DEF r
<1>4. drain'[d].pc = p /\ drain'[d].batch = b
  BY <1>2, <1>3
<1>5. p # "advance"
  OBVIOUS
<1> QED
  BY <1>3, <1>4, <1>5 DEF Moved

\* What any step of a drain, or fault, does to its variables.
LEMMA DrainMoves ==
    ASSUME OrderFacts, TypeOK, NEW d \in Drains, DrainStep(d) \/ DrainFault(d)
    PROVE  /\ Moved(d) /\ (drain'[d].pc = "idle" => drain'[d].batch = <<>>)
           /\ drain'[d].pc = "advance" => PublishState(d)
<1>0. /\ drain[d] \in DrainType /\ drain[d].progress \in BOOLEAN
      /\ drain[d].pc = "advance" => drain[d].batch # <<>>
  BY DrainFields
<1>1. CASE Start(d)
  <2>1. drain' = [drain EXCEPT ![d].pc = "list"]
    BY <1>1 DEF Start
  <2> QED
    BY <2>1, PcMoves
<1>2. CASE PublishState(d)
  <2>1. drain' = [drain EXCEPT ![d].pc = "advance"] /\ drain[d].batch # <<>>
    BY <1>2 DEF PublishState, AtEnv
  <2> QED
    BY <1>2, <2>1, PcMoves, ZenonT(60)
<1>3. CASE ListStreamsBehind(d)
  <2>1. drain' = [drain EXCEPT ![d] = [pc |-> "publish", batch |-> Listed, progress |-> FALSE]]
    BY <1>3 DEF ListStreamsBehind
  <2>2. Listed = Tail(drain[d].batch) => Listed = <<>> \/ drain[d].batch # <<>>
    <3>1. Tail(<<>>) = <<>>
      BY SMTT(30), SMTT(60)
    <3> QED
      BY <3>1
  <2> QED
    BY <2>1, <2>2, BatchMoves
<1>4. CASE NothingBehind(d) \/ EndRun(d) \/ Crash(d) \/ ListFails(d) \/ Cancel(d)
  <2>1. drain' = [drain EXCEPT ![d] = [pc |-> "idle", batch |-> <<>>, progress |-> FALSE]]
    BY <1>4 DEF NothingBehind, EndRun, Crash, ListFails, Cancel, Return, Idle
  <2> QED
    BY <2>1, BatchMoves
<1>5. CASE NextBatch(d)
  <2>1. drain' = [drain EXCEPT ![d] = [pc |-> "list", batch |-> <<>>, progress |-> FALSE]]
    BY <1>5 DEF NextBatch
  <2> QED
    BY <2>1, BatchMoves
<1>6. CASE SkipOtherShard(d)
  <2> DEFINE r == [pc |-> "publish", batch |-> Tail(drain[d].batch), progress |-> drain[d].progress]
  <2>1. drain' = [drain EXCEPT ![d].batch = Tail(@)]
        /\ drain[d].batch # <<>> /\ drain[d].pc = "publish"
    BY <1>6 DEF SkipOtherShard, AtEnv
  <2>2. [drain[d] EXCEPT !.batch = Tail(@)] = r
    <3>2. [drain[d] EXCEPT !.batch = Tail(drain[d].batch)] =
             [pc |-> drain[d].pc, batch |-> Tail(drain[d].batch), progress |-> drain[d].progress]
      BY <1>0, FieldReplaced
    <3> QED
      BY <2>1, <3>2
  <2>3. drain' = [drain EXCEPT ![d] = r]
    <3> HIDE DEF r
    <3> QED
      BY <2>1, <2>2
  <2> QED
    BY <1>0, <2>1, <2>3, BatchMoves
<1>7. CASE DeliveryFails(d) \/ AdvanceStateStreamPosition(d) \/ PublishFails(d) \/ AdvanceFails(d)
  <2>1. /\ drain' = [drain EXCEPT ![d] = [pc |-> "publish", batch |-> Tail(drain[d].batch),
                                          progress |-> TRUE]]
        /\ drain[d].batch # <<>>
    BY <1>0, <1>7 DEF DeliveryFails, AdvanceStateStreamPosition, PublishFails,
       AdvanceFails, Counted, AtEnv
  <2> QED
    BY <2>1, BatchMoves
<1> QED
  BY <1>1, <1>2, <1>3, <1>4, <1>5, <1>6, <1>7 DEF DrainStep, DrainFault

\* At the row a drain is about to deliver or has just delivered.
LEMMA EnvIn ==
    ASSUME TypeOK, NEW d \in Drains, drain[d].batch # <<>>
    PROVE  Env(d) \in Envelope /\ Env(d).stream \in Streams /\ Env(d).version \in Nat
<1>1. Head(drain[d].batch) \in Envelope
  BY DrainFields, TailOf DEF Rows
<1> QED
  BY <1>1 DEF Env, Envelope

\* What the subscriber has after it was given a state: never less, and the state.
LEMMA Accepted ==
    ASSUME TypeOK, NEW env \in Envelope, Accept(env)
    PROVE  /\ stored' \in [Streams -> Nat]
           /\ \A s \in Streams : stored'[s] >= stored[s]
           /\ stored'[env.stream] >= env.version
<1>1. stored \in [Streams -> Nat] /\ env.stream \in Streams /\ env.version \in Nat
  BY DEF TypeOK, Envelope
<1>2. stored' = [stored EXCEPT ![env.stream] =
                   IF env.version > stored[env.stream] THEN env.version ELSE stored[env.stream]]
  BY DEF Accept
<1> QED
  BY <1>1, <1>2, SMTT(30), SMTT(60)

-------------------------------------------------------------------------------
(* Type correctness *)

\* Everything else is kept by the steps of a drain.
LEMMA DrainKeepsType ==
    ASSUME OrderFacts, TypeOK, NEW d \in Drains, DrainStep(d) \/ DrainFault(d)
    PROVE  TypeOK'
<1>1. UNCHANGED <<conf, head, cache, order, rebuild>>
  BY DEF DrainStep, DrainFault, Start, ListStreamsBehind, NothingBehind, SkipOtherShard,
     PublishState, DeliveryFails, AdvanceStateStreamPosition, NextBatch, EndRun, Crash,
     ListFails, PublishFails, AdvanceFails, Cancel, rows
<1>2. lock' \in Drains \cup {None} /\ leaked' \in BOOLEAN
  <2>1. lock \in Drains \cup {None} /\ leaked \in BOOLEAN
    BY DEF TypeOK
  <2> QED
    BY <2>1
    DEF DrainStep, DrainFault, Start, ListStreamsBehind, NothingBehind, SkipOtherShard,
         PublishState, DeliveryFails, AdvanceStateStreamPosition, NextBatch, EndRun, Crash,
         ListFails, PublishFails, AdvanceFails, Cancel, Return
<1>3. drain' \in [Drains -> DrainType]
      /\ \A e \in Drains : drain'[e].pc = "advance" => drain'[e].batch # <<>>
  <2>1. Moved(d)
    BY DrainMoves
  <2> QED
    BY <2>1 DEF Moved, TypeOK
<1>4. pos' \in [Streams -> Nat] /\ stored' \in [Streams -> Nat]
  <2>1. CASE PublishState(d) \/ PublishFails(d)
    <3>1. drain[d].batch # <<>> /\ (UNCHANGED stored \/ Accept(Env(d))) /\ pos' = pos
      BY <2>1 DEF PublishState, PublishFails, AtEnv
    <3>2. Accept(Env(d)) => stored' \in [Streams -> Nat]
      BY <3>1, EnvIn, Accepted
    <3> QED
      BY <3>1, <3>2 DEF TypeOK
  <2>2. CASE AdvanceStateStreamPosition(d)
    <3>1. drain[d].batch # <<>> /\ stored' = stored
      BY <2>2, DrainFields DEF AdvanceStateStreamPosition
    <3>2. Env(d).stream \in Streams /\ Env(d).version \in Nat
      BY <3>1, EnvIn
    <3>3. UpsertStateStreamPosition(Env(d).stream, Env(d).version) \in Nat
      BY <3>2 DEF UpsertStateStreamPosition, TypeOK
    <3> QED
      BY <2>2, <3>1, <3>2, <3>3 DEF AdvanceStateStreamPosition, TypeOK
  <2>3. CASE ~PublishState(d) /\ ~PublishFails(d) /\ ~AdvanceStateStreamPosition(d)
    <3>1. UNCHANGED <<pos, stored>>
      BY <2>3 DEF DrainStep, DrainFault, Start, ListStreamsBehind, NothingBehind,
         SkipOtherShard, DeliveryFails, NextBatch, EndRun, Crash, ListFails, AdvanceFails,
         Cancel
    <3> QED
      BY <3>1 DEF TypeOK
  <2> QED
    BY <2>1, <2>2, <2>3
<1> QED
  BY <1>1, <1>2, <1>3, <1>4 DEF TypeOK

\* A row is written: it becomes the last by updated_at.
LEMMA TouchKeepsOrder ==
    ASSUME OrderFacts, TypeOK, NEW s \in Streams, Touched(s), cache' \in [Streams -> Nat],
           cache'[s] > 0, \A r \in Streams \ {s} : cache'[r] = cache[r]
    PROVE  /\ order' \in Seq(Streams)
           /\ \A i, j \in DOMAIN order' : order'[i] = order'[j] => i = j
           /\ \A r \in Streams : cache'[r] > 0 <=> \E i \in DOMAIN order' : order'[i] = r
<1>1. /\ order \in Seq(Streams)
      /\ Distinct(order)
      /\ \A r \in Streams : cache[r] > 0 <=> Lists(order, r)
  BY DEF TypeOK, Distinct, Lists
<1> DEFINE n == order'
<1>2. n = MovedLast(order, s)
  BY DEF Touched, MovedLast
<1>3. n = order'
  OBVIOUS
<1> HIDE DEF n
<1>4. /\ n \in Seq(Streams)
      /\ Distinct(n)
      /\ \A r \in Streams : Lists(n, r) <=> r = s \/ Lists(order, r)
  BY <1>1, <1>2, TouchedOrder, ZenonT(60)
<1>5. \A r \in Streams : cache'[r] > 0 <=> Lists(n, r)
  BY <1>1, <1>4
<1> QED
  BY <1>3, <1>4, <1>5 DEF Distinct, Lists

\* Every step keeps the types.
LEMMA TypeInductive ==
    ASSUME OrderFacts, TypeOK, [Next]_vars
    PROVE  TypeOK'
<1>0. /\ head \in [Streams -> Nat] /\ cache \in [Streams -> Nat]
      /\ rebuild \in RebuildType /\ \A s \in rebuild.todo : rebuild.folded[s] > 0
  BY DEF TypeOK
<1>1. ASSUME NEW s \in Streams, AppendEvent(s)
      PROVE  TypeOK'
  <2>1. /\ head' \in [Streams -> Nat] /\ cache' \in [Streams -> Nat]
        /\ cache'[s] > 0 /\ \A r \in Streams \ {s} : cache'[r] = cache[r]
    BY <1>0, <1>1, SMTT(30), SMTT(60) DEF AppendEvent
  <2>2. Touched(s) /\ UNCHANGED <<conf, pos, lock, leaked, drain, stored, rebuild>>
    BY <1>1 DEF AppendEvent
  <2> QED
    BY <2>1, <2>2, TouchKeepsOrder DEF TypeOK
<1>2. ASSUME NEW d \in Drains, DrainStep(d) \/ DrainFault(d)
      PROVE  TypeOK'
  BY <1>2, DrainKeepsType
<1>3. CASE SessionEnds
  BY <1>3 DEF SessionEnds, TypeOK, rows
<1>4. CASE WipeStateCacheForType
  <2>1. /\ cache' \in [Streams -> Nat] /\ \A s \in Streams : ~(cache'[s] > 0)
        /\ order' \in Seq(Streams) /\ DOMAIN order' = {}
    <3>1. <<>> \in Seq(Streams) /\ DOMAIN <<>> = {}
      BY SMTT(30), SMTT(60)
    <3>2. Nowhere \in [Streams -> Nat] /\ \A s \in Streams : ~(Nowhere[s] > 0)
      BY SMTT(30), SMTT(60) DEF Nowhere
    <3> QED
      BY <1>4, <3>1, <3>2 DEF WipeStateCacheForType
  <2>2. rebuild' \in RebuildType /\ rebuild'.todo = {}
    BY <1>4, SMTT(30), SMTT(60) DEF WipeStateCacheForType, RebuildType, Nowhere
  <2>3. /\ \A i, j \in DOMAIN order' : order'[i] = order'[j] => i = j
        /\ \A s \in Streams : cache'[s] > 0 <=> \E i \in DOMAIN order' : order'[i] = s
    BY <2>1
  <2>4. \A s \in rebuild'.todo : rebuild'.folded[s] > 0
    BY <1>0, <2>2
  <2>5. UNCHANGED <<conf, head, pos, lock, leaked, drain, stored>>
    BY <1>4 DEF WipeStateCacheForType
  <2> QED
    BY <2>1, <2>2, <2>3, <2>4, <2>5 DEF TypeOK
<1>5. CASE ReadAll
  <2> DEFINE T == {s \in Streams : head[s] > 0}
             r == [pc |-> "write", folded |-> head, todo |-> T]
  <2>1. r \in RebuildType /\ \A s \in r.todo : r.folded[s] > 0
    BY <1>0 DEF RebuildType
  <2>2. rebuild' = r
    BY <1>5 DEF ReadAll
  <2> HIDE DEF r
  <2> QED
    BY <1>5, <2>1, <2>2 DEF ReadAll, TypeOK, rows
<1>6. ASSUME NEW s \in Streams, UpsertCachedState(s)
      PROVE  TypeOK'
  <2>1. /\ cache' \in [Streams -> Nat]
        /\ cache'[s] > 0 /\ \A r \in Streams \ {s} : cache'[r] = cache[r]
    BY <1>0, <1>6, SMTT(30), SMTT(60) DEF UpsertCachedState, RebuildType
  <2>2. /\ rebuild' \in RebuildType /\ rebuild'.todo \subseteq rebuild.todo
        /\ rebuild'.folded = rebuild.folded
    BY <1>0, <1>6, SMTT(30), SMTT(60) DEF UpsertCachedState, RebuildType
  <2>3. \A r \in rebuild'.todo : rebuild'.folded[r] > 0
    BY <1>0, <2>2
  <2>4. Touched(s) /\ UNCHANGED <<conf, head, pos, lock, leaked, drain, stored>>
    BY <1>6 DEF UpsertCachedState
  <2> QED
    BY <2>1, <2>2, <2>3, <2>4, TouchKeepsOrder DEF TypeOK
<1>7. CASE RebuildEnds
  <2>1. rebuild' \in RebuildType /\ rebuild'.todo = {}
    BY <1>7, SMTT(30), SMTT(60) DEF RebuildEnds, NoRebuild, RebuildType, Nowhere
  <2> QED
    BY <1>7, <2>1 DEF RebuildEnds, TypeOK, rows
<1>8. ASSUME NEW s \in Streams, ResetStateStreamSubscriberForStream(s)
      PROVE  TypeOK'
  BY <1>8 DEF ResetStateStreamSubscriberForStream, TypeOK, rows
<1>9. CASE ResetStateStreamSubscriber
  BY <1>9 DEF ResetStateStreamSubscriber, TypeOK, rows, Nowhere
<1>10. CASE UNCHANGED vars
  BY <1>10 DEF vars, rows, TypeOK
<1> QED
  BY <1>1, <1>2, <1>3, <1>4, <1>5, <1>6, <1>7, <1>8, <1>9, <1>10
     DEF Next, NormalStep, Operator

\* The initial state has them.
LEMMA TypeInitial ==
    ASSUME Init
    PROVE  TypeOK
<1>1. Idle \in DrainType /\ Idle.pc = "idle"
  BY SMTT(30), SMTT(60) DEF Idle, DrainType
<1>2. Nowhere \in [Streams -> Nat] /\ \A s \in Streams : ~(Nowhere[s] > 0)
  BY SMTT(30), SMTT(60) DEF Nowhere
<1>3. drain \in [Drains -> DrainType] /\ \A d \in Drains : drain[d].pc = "idle"
  BY <1>1 DEF Init
<1>4. order \in Seq(Streams) /\ DOMAIN order = {}
  BY SMTT(30), SMTT(60) DEF Init
<1>5. conf \in Config
  BY StateStreamAssumption DEF Init
<1>6. rebuild \in RebuildType /\ rebuild.todo = {}
  BY <1>2, SMTT(30), SMTT(60) DEF Init, NoRebuild, RebuildType
<1>7. /\ head \in [Streams -> Nat] /\ cache \in [Streams -> Nat] /\ pos \in [Streams -> Nat]
      /\ stored \in [Streams -> Nat] /\ lock = None /\ leaked \in BOOLEAN
  BY <1>2 DEF Init
<1>8. \A s \in Streams : cache[s] > 0 <=> \E i \in DOMAIN order : order[i] = s
  BY <1>2, <1>4 DEF Init
<1> QED
  BY <1>3, <1>4, <1>5, <1>6, <1>7, <1>8, ZenonT(60) DEF TypeOK

-------------------------------------------------------------------------------
(* CaughtUpIsDelivered *)

\* Positions, and the rows about to become positions, were delivered.
CaughtUpInv ==
    /\ TypeOK
    /\ \A s \in Streams : pos[s] <= stored[s]
    /\ \A d \in Drains : drain[d].pc = "advance" => Env(d).version <= stored[Env(d).stream]

\* A stream that is not behind has its cached version at the subscriber.
LEMMA CaughtUpImplied ==
    ASSUME CaughtUpInv
    PROVE  CaughtUpIsDelivered
<1>1. /\ pos \in [Streams -> Nat] /\ stored \in [Streams -> Nat] /\ cache \in [Streams -> Nat]
      /\ \A s \in Streams : pos[s] <= stored[s]
  BY DEF CaughtUpInv, TypeOK
<1> QED
  BY <1>1, SMTT(30), SMTT(60) DEF CaughtUpIsDelivered, Behind

\* Nothing is delivered in the initial state, and no position is set.
LEMMA CaughtUpInitial ==
    ASSUME Init
    PROVE  CaughtUpInv
<1>1. TypeOK /\ \A d \in Drains : drain[d].pc = "idle"
  BY TypeInitial DEF Init, Idle
<1>2. \A s \in Streams : pos[s] <= stored[s]
  BY SMTT(30), SMTT(60) DEF Init, Nowhere
<1> QED
  BY <1>1, <1>2 DEF CaughtUpInv

\* A drain that stays where it is stays at its row.
LEMMA OthersStay ==
    ASSUME NEW d \in Drains, Moved(d), NEW e \in Drains, e # d
    PROVE  drain'[e] = drain[e] /\ Env(e)' = Env(e)
BY DEF Moved, Env

\* A drain is about to advance only after it published the row it is at.
LEMMA AimedByPublish ==
    ASSUME OrderFacts, TypeOK, NEW d \in Drains, DrainStep(d) \/ DrainFault(d),
           drain'[d].pc = "advance"
    PROVE  PublishState(d) /\ drain[d].batch # <<>> /\ Env(d)' = Env(d)
<1>1. PublishState(d)
  BY DrainMoves
<1>2. drain' = [drain EXCEPT ![d].pc = "advance"] /\ drain[d].batch # <<>>
  BY <1>1 DEF PublishState, AtEnv
<1>3. drain'[d].batch = drain[d].batch
  BY <1>2, PcMoves
<1> QED
  BY <1>1, <1>2, <1>3 DEF Env

\* What a drain does to the subscriber and to the positions: both grow, and a
\* position only up to the row that was published.
LEMMA DrainDelivers ==
    ASSUME OrderFacts, CaughtUpInv, NEW d \in Drains, DrainStep(d) \/ DrainFault(d)
    PROVE  \A s \in Streams : stored'[s] >= stored[s] /\ pos'[s] <= stored[s]
<1>0. /\ TypeOK /\ pos \in [Streams -> Nat] /\ stored \in [Streams -> Nat]
      /\ \A s \in Streams : pos[s] <= stored[s]
  BY DEF CaughtUpInv, TypeOK
<1>1. CASE UNCHANGED pos /\ UNCHANGED stored
  BY <1>0, <1>1, SMTT(30), SMTT(60)
<1>2. CASE PublishState(d) \/ PublishFails(d)
  <2>1. drain[d].batch # <<>> /\ (UNCHANGED stored \/ Accept(Env(d))) /\ pos' = pos
    BY <1>2 DEF PublishState, PublishFails, AtEnv
  <2>2. CASE Accept(Env(d))
    <3>1. \A s \in Streams : stored'[s] >= stored[s]
      BY <1>0, <2>1, <2>2, EnvIn, Accepted
    <3> QED
      BY <1>0, <2>1, <3>1
  <2> QED
    BY <1>1, <2>1, <2>2
<1>3. CASE AdvanceStateStreamPosition(d)
  <2>1. drain[d].batch # <<>> /\ stored' = stored /\ drain[d].pc = "advance"
    BY <1>0, <1>3, DrainFields DEF AdvanceStateStreamPosition
  <2>2. Env(d).stream \in Streams /\ Env(d).version \in Nat
        /\ Env(d).version <= stored[Env(d).stream]
    BY <1>0, <2>1, EnvIn DEF CaughtUpInv
  <2>3. pos' = [pos EXCEPT ![Env(d).stream] =
                  IF Env(d).version > pos[Env(d).stream] THEN Env(d).version ELSE pos[Env(d).stream]]
    BY <1>3 DEF AdvanceStateStreamPosition, UpsertStateStreamPosition
  <2> QED
    BY <1>0, <2>1, <2>2, <2>3, SMTT(30), SMTT(60)
<1> QED
  BY <1>1, <1>2, <1>3 DEF DrainStep, DrainFault, Start, ListStreamsBehind, NothingBehind,
     SkipOtherShard, DeliveryFails, NextBatch, EndRun, Crash, ListFails, AdvanceFails, Cancel

\* Every step keeps CaughtUpInv.
LEMMA CaughtUpInductive ==
    ASSUME OrderFacts, CaughtUpInv, [Next]_vars
    PROVE  CaughtUpInv'
<1>0. /\ TypeOK /\ TypeOK' /\ pos \in [Streams -> Nat] /\ stored \in [Streams -> Nat]
      /\ pos' \in [Streams -> Nat] /\ stored' \in [Streams -> Nat]
      /\ \A s \in Streams : pos[s] <= stored[s]
  BY TypeInductive DEF CaughtUpInv, TypeOK
<1>1. ASSUME NEW d \in Drains, DrainStep(d) \/ DrainFault(d)
      PROVE  CaughtUpInv'
  <2>1. \A s \in Streams : stored'[s] >= stored[s] /\ pos'[s] <= stored[s]
    BY <1>1, DrainDelivers
  <2>2. \A s \in Streams : pos'[s] <= stored'[s]
    BY <1>0, <2>1, SMTT(30), SMTT(60)
  <2>3. ASSUME NEW e \in Drains, drain'[e].pc = "advance"
        PROVE  Env(e)'.version <= stored'[Env(e)'.stream]
    <3>1. CASE e # d
      <4>1. drain'[e] = drain[e] /\ Env(e)' = Env(e)
        BY <1>0, <1>1, <3>1, DrainMoves, OthersStay
      <4>2. drain[e].batch # <<>> /\ Env(e).version <= stored[Env(e).stream]
        BY <1>0, <2>3, <4>1, DrainFields DEF CaughtUpInv
      <4>3. Env(e).stream \in Streams /\ Env(e).version \in Nat
        BY <1>0, <4>2, EnvIn
      <4> DEFINE v == Env(e).version
                 r == Env(e).stream
      <4>4. v <= stored'[r]
        <5>1. v \in Nat /\ v <= stored[r] /\ stored[r] <= stored'[r]
              /\ stored[r] \in Nat /\ stored'[r] \in Nat
          BY <1>0, <2>1, <4>2, <4>3
        <5> HIDE DEF v, r
        <5> QED
          BY <5>1, SMTT(30), SMTT(60)
      <4> QED
        BY <4>1, <4>4
    <3>2. CASE e = d
      <4>1. PublishState(d) /\ drain[d].batch # <<>> /\ Env(d)' = Env(d)
        BY <1>0, <1>1, <2>3, <3>2, AimedByPublish
      <4>2. Env(d) \in Envelope /\ Accept(Env(d))
        BY <1>0, <4>1, EnvIn DEF PublishState
      <4>3. stored'[Env(d).stream] >= Env(d).version
        BY <1>0, <4>2, Accepted
      <4> QED
        BY <3>2, <4>1, <4>3
    <3> QED
      BY <3>1, <3>2
  <2> QED
    BY <1>0, <2>2, <2>3 DEF CaughtUpInv
<1>2. CASE UNCHANGED <<pos, stored, drain>>
  BY <1>0, <1>2 DEF CaughtUpInv, Env
<1>3. ASSUME NEW s \in Streams, ResetStateStreamSubscriberForStream(s)
      PROVE  CaughtUpInv'
  <2>1. UNCHANGED <<stored, drain>> /\ \A r \in Streams : pos'[r] <= stored[r]
    BY <1>0, <1>3, SMTT(30), SMTT(60) DEF ResetStateStreamSubscriberForStream
  <2> QED
    BY <1>0, <2>1 DEF CaughtUpInv, Env
<1>4. CASE ResetStateStreamSubscriber
  <2>1. UNCHANGED <<stored, drain>> /\ \A r \in Streams : pos'[r] <= stored[r]
    BY <1>0, <1>4, SMTT(30), SMTT(60) DEF ResetStateStreamSubscriber, Nowhere
  <2> QED
    BY <1>0, <2>1 DEF CaughtUpInv, Env
<1> QED
  BY <1>1, <1>2, <1>3, <1>4 DEF Next, NormalStep, Operator, AppendEvent, SessionEnds,
     WipeStateCacheForType, ReadAll, UpsertCachedState, RebuildEnds, vars

-------------------------------------------------------------------------------
(* OneDrainPerStream and OnlyResetsRewind *)

\* Under the lock every drain at work holds it; a sharded drain advances only
\* streams of its shard.
LockInv ==
    /\ TypeOK
    /\ conf.locking => \A d \in Drains : drain[d].pc # "idle" => lock = d
    /\ \A d \in Drains : drain[d].pc = "advance" => InShard(d, Env(d).stream)

\* Every step keeps LockInv.
LEMMA LockInductive ==
    ASSUME OrderFacts, LockInv, [Next]_vars
    PROVE  LockInv'
<1>0. TypeOK /\ TypeOK' /\ conf' = conf
  BY TypeInductive
     DEF LockInv, Next, NormalStep, Operator, DrainStep, DrainFault, AppendEvent, Start,
         ListStreamsBehind, NothingBehind, SkipOtherShard, PublishState, DeliveryFails,
         AdvanceStateStreamPosition, NextBatch, EndRun, Crash, ListFails, PublishFails,
         AdvanceFails, Cancel, SessionEnds, WipeStateCacheForType, ReadAll,
         UpsertCachedState, RebuildEnds, ResetStateStreamSubscriberForStream,
         ResetStateStreamSubscriber, vars
<1>1. ASSUME NEW d \in Drains, DrainStep(d) \/ DrainFault(d)
      PROVE  LockInv'
  <2>0. Moved(d) /\ drain[d] \in DrainType /\ drain \in [Drains -> DrainType]
    BY <1>0, <1>1, DrainMoves, DrainFields
  <2>1. ASSUME conf.locking, NEW e \in Drains, drain'[e].pc # "idle"
        PROVE  lock' = e
    <3>0. \A c \in Drains : drain[c].pc # "idle" => lock = c
      BY <2>1 DEF LockInv
    <3>1. CASE Start(d)
      <4>1. lock' = d /\ (lock = None \/ lock = d)
        BY <2>1, <3>1 DEF Start
      <4>2. CASE e = d
        BY <4>1, <4>2
      <4>3. CASE e # d
        <5>1. drain'[e] = drain[e]
          BY <1>0, <2>0, <4>3, OthersStay
        <5>2. lock = e
          BY <2>1, <3>0, <5>1
        <5> QED
          BY <4>1, <4>3, <5>2, StateStreamAssumption, ZenonT(60)
      <4> QED
        BY <4>2, <4>3
    <3>2. CASE ~Start(d)
      <4>1. drain[d].pc # "idle" /\ lock = d
        BY <1>1, <3>0, <3>2 DEF DrainStep, DrainFault, ListStreamsBehind, NothingBehind,
           SkipOtherShard, PublishState, DeliveryFails, AdvanceStateStreamPosition, NextBatch,
           EndRun, Crash, ListFails, PublishFails, AdvanceFails, Cancel, AtEnv
      <4>2. e = d
        <5>1. CASE e # d
          BY <1>0, <2>0, <2>1, <3>0, <4>1, <5>1, OthersStay, ZenonT(60)
        <5> QED
          BY <5>1
      <4>3. lock' = lock \/ drain'[d].pc = "idle"
        BY <1>1, <2>0, <3>2, SMTT(30), SMTT(60)
           DEF DrainStep, DrainFault, ListStreamsBehind, NothingBehind, SkipOtherShard,
               PublishState, DeliveryFails, AdvanceStateStreamPosition, NextBatch, EndRun,
               Crash, ListFails, PublishFails, AdvanceFails, Cancel, Return, Idle
      <4> QED
        BY <2>1, <4>1, <4>2, <4>3
    <3> QED
      BY <3>1, <3>2
  <2>2. ASSUME NEW e \in Drains, drain'[e].pc = "advance"
        PROVE  InShard(e, Env(e)'.stream)
    <3>1. CASE e # d
      <4>1. drain'[e] = drain[e] /\ Env(e)' = Env(e)
        BY <1>0, <2>0, <3>1, OthersStay
      <4> QED
        BY <2>2, <4>1 DEF LockInv
    <3>2. CASE e = d
      <4>1. PublishState(d) /\ Env(d)' = Env(d)
        BY <1>0, <1>1, <2>2, <3>2, AimedByPublish, ZenonT(60)
      <4>2. InShard(d, Env(d).stream)
        BY <4>1 DEF PublishState
      <4> QED
        BY <3>2, <4>1, <4>2
    <3> QED
      BY <3>1, <3>2
  <2> QED
    BY <1>0, <2>1, <2>2 DEF LockInv, InShard
<1>2. CASE SessionEnds
  <2>1. drain' = drain /\ drain[lock].pc = "idle" /\ lock # None
    BY <1>2 DEF SessionEnds
  <2>2. conf.locking => \A d \in Drains : drain[d].pc = "idle"
    BY <2>1 DEF LockInv
  <2> QED
    BY <1>0, <2>1, <2>2 DEF LockInv, InShard, Env
<1>3. CASE UNCHANGED <<drain, lock>>
  BY <1>0, <1>3 DEF LockInv, InShard, Env
<1> QED
  BY <1>1, <1>2, <1>3 DEF Next, NormalStep, Operator, AppendEvent, WipeStateCacheForType, ReadAll,
     UpsertCachedState, RebuildEnds,
     ResetStateStreamSubscriberForStream, ResetStateStreamSubscriber, vars

\* No drain is at work in the initial state.
LEMMA LockInitial ==
    ASSUME Init
    PROVE  LockInv
<1>1. TypeOK /\ \A d \in Drains : drain[d].pc = "idle"
  BY TypeInitial DEF Init, Idle
<1> QED
  BY <1>1 DEF LockInv

\* OneDrainPerStream follows from the lock, or from one drain per shard.
LEMMA OneDrainImplied ==
    ASSUME LockInv
    PROVE  OneDrainPerStream
<1> SUFFICES ASSUME conf.locking \/ (conf.sharded /\ \A d, e \in Drains :
                                        DrainShard[d] = DrainShard[e] => d = e),
                    NEW d \in Drains, NEW e \in Drains, NEW s \in Streams,
                    drain[d].pc = "advance", Env(d).stream = s,
                    drain[e].pc = "advance", Env(e).stream = s
             PROVE  d = e
  BY DEF OneDrainPerStream
<1>1. CASE conf.locking
  BY <1>1 DEF LockInv
<1>2. CASE conf.sharded /\ \A c, f \in Drains : DrainShard[c] = DrainShard[f] => c = f
  <2>1. ShardOf[s] = DrainShard[d] /\ ShardOf[s] = DrainShard[e]
    BY <1>2 DEF LockInv, InShard
  <2> QED
    BY <1>2, <2>1, ZenonT(60)
<1> QED
  BY <1>1, <1>2

\* A step that moves a position back is a reset of it, with the drains unchanged.
LEMMA RewindsAreResets ==
    ASSUME TypeOK, [Next]_vars
    PROVE  [\A s \in Streams : pos'[s] < pos[s] => pos'[s] = 0 /\ UNCHANGED drain]_vars
<1>1. ASSUME NEW d \in Drains, AdvanceStateStreamPosition(d)
      PROVE  \A s \in Streams : ~(pos'[s] < pos[s])
  <2>1. drain[d].batch # <<>>
    BY <1>1, DrainFields DEF AdvanceStateStreamPosition
  <2>2. Env(d).stream \in Streams /\ Env(d).version \in Nat
    BY <2>1, EnvIn
  <2>3. pos \in [Streams -> Nat]
    BY DEF TypeOK
  <2> QED
    BY <1>1, <2>2, <2>3, SMTT(30), SMTT(60) DEF AdvanceStateStreamPosition, UpsertStateStreamPosition
<1>2. ASSUME NEW x \in Streams, ResetStateStreamSubscriberForStream(x)
      PROVE  \A s \in Streams : pos'[s] < pos[s] => pos'[s] = 0 /\ UNCHANGED drain
  <2>1. pos \in [Streams -> Nat]
    BY DEF TypeOK
  <2> QED
    BY <1>2, <2>1, SMTT(30), SMTT(60) DEF ResetStateStreamSubscriberForStream
<1>3. CASE ResetStateStreamSubscriber
  BY <1>3 DEF ResetStateStreamSubscriber, Nowhere
<1>4. CASE UNCHANGED pos
  <2>0. pos \in [Streams -> Nat]
    BY DEF TypeOK
  <2>1. \A s \in Streams : ~(pos'[s] < pos[s])
    BY <1>4, <2>0, SMTT(30), SMTT(60)
  <2> QED
    BY <2>1
<1> QED
  BY <1>1, <1>2, <1>3, <1>4, ZenonT(60) DEF Next, NormalStep, Operator, DrainStep,
     DrainFault, AppendEvent, Start, ListStreamsBehind, NothingBehind, SkipOtherShard,
     PublishState, DeliveryFails, NextBatch, EndRun, Crash, ListFails, PublishFails,
     AdvanceFails, Cancel, SessionEnds, WipeStateCacheForType, ReadAll,
     UpsertCachedState, RebuildEnds, vars

-------------------------------------------------------------------------------
(* The theorems *)

INSTANCE OrderingProofs

\* Stores list positions in order.
LEMMA OrderFactsHold == OrderFacts
<1> SUFFICES ASSUME NEW n \in Nat, NEW S \in SUBSET (1..n)
             PROVE  /\ Cardinality(S) \in Nat
                    /\ InOrder(S) \in Seq(S) /\ Len(InOrder(S)) = Cardinality(S)
                    /\ \A i, j \in 1..Cardinality(S) : i < j => InOrder(S)[i] < InOrder(S)[j]
                    /\ \A x \in S : \E i \in 1..Cardinality(S) : InOrder(S)[i] = x
  BY DEF OrderFacts
<1>1. S \in SUBSET Nat /\ \A y \in S : y <= n
  BY SMTT(30), SMTT(60)
<1> QED
  BY <1>1, InOrderLists, InOrderAll

\* The type invariant: state_cache has one row per stream with events, in the order
\* of updated_at, and a drain that advances a position is at a row.
THEOREM StreamTypeCorrect == Spec => []TypeOK
<1>1. Init => TypeOK
  BY TypeInitial
<1>2. TypeOK /\ [Next]_vars => TypeOK'
  BY TypeInductive, OrderFactsHold
<1> QED
  BY <1>1, <1>2, PTL DEF Spec

\* A stream StateStreamStatus does not count as behind was delivered in the version
\* that state_cache has: replicas may deliver late and twice, fail and crash between
\* delivery and AdvanceStateStreamPosition, rebuilds may write older rows, and
\* operators may reset positions at any time.
THEOREM CaughtUpMeansDelivered == Spec => []CaughtUpIsDelivered
<1>1. Init => CaughtUpInv
  BY CaughtUpInitial
<1>2. CaughtUpInv /\ [Next]_vars => CaughtUpInv'
  BY CaughtUpInductive, OrderFactsHold
<1>3. CaughtUpInv => CaughtUpIsDelivered
  BY CaughtUpImplied
<1> QED
  BY <1>1, <1>2, <1>3, PTL DEF Spec

\* Two drains never deliver one stream at a time, behind the lock or with one drain
\* per shard, whoever crashes, is cancelled or leaves the lock to an idle session.
THEOREM StreamsHaveOneDrain == Spec => []OneDrainPerStream
<1>1. Init => LockInv
  BY LockInitial
<1>2. LockInv /\ [Next]_vars => LockInv'
  BY LockInductive, OrderFactsHold
<1>3. LockInv => OneDrainPerStream
  BY OneDrainImplied
<1> QED
  BY <1>1, <1>2, <1>3, PTL DEF Spec

\* GREATEST in UpsertStateStreamPosition: a drain that lags behind never moves a
\* position back, so that only the resets do.
THEOREM OnlyResetsMoveBack == Spec => OnlyResetsRewind
<1>1. TypeOK /\ [Next]_vars => [\A s \in Streams : pos'[s] < pos[s] => pos'[s] = 0 /\ UNCHANGED drain]_vars
  BY RewindsAreResets
<1> QED
  BY <1>1, StreamTypeCorrect, PTL DEF Spec, OnlyResetsRewind
===============================================================================
