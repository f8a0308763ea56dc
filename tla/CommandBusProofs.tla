--------------------------- MODULE CommandBusProofs ---------------------------
(***************************************************************************)
(* The safety properties of CommandBus, for any number of commands,        *)
(* subscribers, retries and other writers, with and without a journal.     *)
(*                                                                         *)
(* The invariants come in layers, each kept with the help of those before  *)
(* it: types; which compensations can run; what an invocation and its      *)
(* journal know of the append; that it appends once; what the program      *)
(* counter says of the other variables; that a journal agrees with the     *)
(* invocation; the state handed to subscribers; the workflows of the       *)
(* asynchronous ones; the tasks of the synchronous ones; what became of    *)
(* the batch at each; what the caller is told. BusInv is all of them.      *)
(***************************************************************************)
EXTENDS CommandBus, TLAPS

USE Zenon

-------------------------------------------------------------------------------
(* Types *)

\* An event of the stream, with the invocation that wrote it.
Entry == [inv : Invocations \cup {None}, type : Range(Batch) \cup Range(Undo)]

\* The variables of an invocation.
InvRecord ==
    [pc : Pcs, start : Versions, end : Versions, envs : SUBSET Versions, state : Versions,
     next : 1..(Len(Order) + 1), task : [Subs -> Tasks], tries : [Subs -> 0..MaxRetries],
     mutated : BOOLEAN]

\* What its journal has recorded.
JournalRecord ==
    [append : {<<>>} \cup (Versions \X Versions), envs : SUBSET Versions, state : Versions,
     task : [Subs -> {"none", "ok", "exhausted"}]]

\* The workflow of an asynchronous subscriber.
ChildRecord == [st : {"none", "run", "done", "failed", "lost"}, tries : 0..MaxRetries]

\* TypeOK, with the journal a function, and what makes Current(i) a subscriber.
Typed ==
    /\ TypeOK
    /\ journal \in [Invocations -> JournalRecord]
    /\ \A i \in Invocations : inv[i].pc = "nested" => i \in Commands /\ More(i)

\* The parts of TypeOK.
LEMMA TypedParts ==
    ASSUME Typed
    PROVE  /\ conf \in Configs
           /\ log \in Seq(Entry) /\ Len(log) <= MaxEvents
           /\ inv \in [Invocations -> InvRecord]
           /\ journal \in [Invocations -> JournalRecord]
           /\ child \in [Invocations \X Subs -> ChildRecord]
           /\ outcome \in [Invocations \X Subs -> SUBSET {"handled", "dlq", "dropped", "compensated"}]
           /\ given \in [Invocations -> SUBSET Versions]
BY DEF Typed, TypeOK, Entry, InvRecord, ChildRecord

\* And back: the parts give TypeOK.
LEMMA TypedWhen ==
    ASSUME conf \in Configs,
           log \in Seq(Entry), Len(log) <= MaxEvents,
           inv \in [Invocations -> InvRecord],
           journal \in [Invocations -> JournalRecord],
           child \in [Invocations \X Subs -> ChildRecord],
           outcome \in [Invocations \X Subs -> SUBSET {"handled", "dlq", "dropped", "compensated"}],
           given \in [Invocations -> SUBSET Versions],
           \A i \in Invocations : inv[i].pc = "nested" => i \in Commands /\ More(i)
    PROVE  Typed
<1>1. ASSUME NEW i \in Invocations
      PROVE  /\ journal[i].append \in {<<>>} \cup (Versions \X Versions)
             /\ journal[i].task \in [Subs -> {"none", "ok", "exhausted"}]
             /\ journal[i].state \in Versions /\ journal[i].envs \subseteq Versions
  BY DEF JournalRecord
<1> QED
  BY <1>1 DEF Typed, TypeOK, Entry, InvRecord, ChildRecord

\* The same in the next state.
LEMMA TypedWhenNext ==
    (/\ conf \in Configs
     /\ log \in Seq(Entry) /\ Len(log) <= MaxEvents
     /\ inv \in [Invocations -> InvRecord]
     /\ journal \in [Invocations -> JournalRecord]
     /\ child \in [Invocations \X Subs -> ChildRecord]
     /\ outcome \in [Invocations \X Subs -> SUBSET {"handled", "dlq", "dropped", "compensated"}]
     /\ given \in [Invocations -> SUBSET Versions]
     /\ \A i \in Invocations : inv[i].pc = "nested" => i \in Commands /\ More(i)
     => Typed)'
BY TypedWhen, PTL

\* The program counters and the states of a task.
LEMMA Names ==
    /\ \A p \in {"none", "append", "appended", "noop", "envs", "state", "fanout", "wait", "apply",
                 "nested", "returned", "failed", "lost"} : p \in Pcs
    /\ \A t \in {"none", "run", "succeeded", "gave up", "ok", "exhausted"} : t \in Tasks
BY DEF Pcs, Tasks

\* The bounds are numbers, and a batch has events.
LEMMA Bounds ==
    /\ MaxEvents \in Nat /\ MaxRetries \in Nat /\ Len(Order) \in Nat
    /\ 0 \in Versions /\ \A v \in Versions : v \in Nat
    /\ \A i : Len(TypesOf(i)) \in Nat /\ Len(TypesOf(i)) > 0
    /\ \A i : \A k \in 1..Len(TypesOf(i)) : TypesOf(i)[k] \in Range(Batch) \cup Range(Undo)
<1>1. MaxEvents \in Nat /\ MaxRetries \in Nat /\ Len(Order) \in Nat
  BY CommandBusAssumption, SMTT(30), SMTT(60)
<1>2. 0 \in Versions /\ \A v \in Versions : v \in Nat
  BY <1>1, SMTT(30), SMTT(60) DEF Versions
<1>3. ASSUME NEW T, NEW b \in Seq(T), b # <<>>
      PROVE  Len(b) \in Nat /\ Len(b) > 0 /\ \A k \in 1..Len(b) : b[k] \in T
  BY <1>3, SMTT(30), SMTT(60)
<1>4. /\ Len(Batch) \in Nat /\ Len(Batch) > 0 /\ \A k \in 1..Len(Batch) : Batch[k] \in Range(Batch)
      /\ Len(Undo) \in Nat /\ Len(Undo) > 0 /\ \A k \in 1..Len(Undo) : Undo[k] \in Range(Undo)
  BY <1>3, CommandBusAssumption
<1> QED
  BY <1>1, <1>2, <1>4 DEF TypesOf

\* The places of Order hold subscribers.
LEMMA Places ==
    /\ \A q \in 1..Len(Order) : Order[q] \in Subs
    /\ \A s \in Subs : \E q \in 1..Len(Order) : Order[q] = s
    /\ \A q, r \in 1..Len(Order) : Order[q] = Order[r] => q = r
<1>1. DOMAIN Order = 1..Len(Order) /\ \A q \in 1..Len(Order) : Order[q] \in Subs
  BY CommandBusAssumption, SMTT(30), SMTT(60)
<1> QED
  BY <1>1, CommandBusAssumption DEF Range, IsInjective

\* The subscriber whose turn it is.
LEMMA Turn ==
    ASSUME Typed, NEW i \in Invocations, More(i)
    PROVE  /\ inv[i].next \in 1..Len(Order)
           /\ inv[i].next + 1 \in 1..(Len(Order) + 1)
           /\ Current(i) \in Subs
<1>1. inv[i].next \in 1..(Len(Order) + 1) /\ Len(Order) \in Nat
  BY TypedParts, Bounds DEF InvRecord
<1>2. inv[i].next \in 1..Len(Order) /\ inv[i].next + 1 \in 1..(Len(Order) + 1)
  BY <1>1, SMTT(30), SMTT(60) DEF More
<1> QED
  BY <1>2, Places DEF Current

\* A subscription of the configuration.
LEMMA Subscription ==
    ASSUME Typed, NEW s \in Subs
    PROVE  Sub(s) \in Subscriber /\ conf.durable \in BOOLEAN
BY TypedParts, CommandBusAssumption DEF Config, Sub

\* The version counts what is in the stream.
LEMMA LogLength ==
    ASSUME Typed
    PROVE  Len(log) \in Versions /\ Len(log) \in Nat /\ DOMAIN log = 1..Len(log)
<1>1. log \in Seq(Entry) /\ Len(log) <= MaxEvents /\ MaxEvents \in Nat
  BY TypedParts, Bounds
<1> QED
  BY <1>1, SMTT(30), SMTT(60) DEF Versions

-------------------------------------------------------------------------------
(* What each step does to the variables *)

\* The invocation of i is at p afterwards, and no other invocation moved.
Moves(i, p) ==
    /\ inv' \in [Invocations -> InvRecord]
    /\ \A j \in Invocations : j # i => inv'[j] = inv[j]
    /\ inv'[i].pc = p

\* What a step leaves alone of an invocation.
SameBatch(i) == inv'[i].start = inv[i].start /\ inv'[i].end = inv[i].end /\ inv'[i].envs = inv[i].envs
SameState(i) == inv'[i].state = inv[i].state
SameNext(i) == inv'[i].next = inv[i].next
SameTasks(i) == inv'[i].task = inv[i].task
SameMark(i) == inv'[i].mutated = inv[i].mutated

\* The invocation only goes on to p.
OnlyMoves(i, p) ==
    Moves(i, p) /\ SameBatch(i) /\ SameState(i) /\ SameNext(i) /\ SameTasks(i) /\ SameMark(i)

\* Replacing the record of one invocation.
LEMMA Replaced ==
    ASSUME Typed, NEW i \in Invocations, NEW r \in InvRecord, inv' = [inv EXCEPT ![i] = r]
    PROVE  Moves(i, r.pc) /\ inv'[i] = r
BY TypedParts DEF Moves

\* A step that only moves on.
LEMMA GotoIs ==
    ASSUME Typed, NEW i \in Invocations, NEW p \in Pcs, Goto(i, p)
    PROVE  /\ OnlyMoves(i, p)
<1>1. PICK c \in InvRecord : c = inv[i]
  BY TypedParts
<1>2. PICK r : r = [c EXCEPT !.pc = p]
  OBVIOUS
<1>3. inv' = [inv EXCEPT ![i] = r]
  BY <1>1, <1>2 DEF Goto
<1>4. p \in Pcs
  OBVIOUS
<1>5. r \in InvRecord
  BY <1>1, <1>2, <1>4 DEF InvRecord
<1>6. /\ r.pc = p /\ r.start = c.start /\ r.end = c.end /\ r.envs = c.envs
      /\ r.state = c.state /\ r.next = c.next /\ r.task = c.task /\ r.mutated = c.mutated
  BY <1>2 DEF InvRecord
<1>7. Moves(i, r.pc) /\ inv'[i] = r
  BY <1>3, <1>5, Replaced
<1> QED
  BY <1>1, <1>6, <1>7 DEF OnlyMoves, SameBatch, SameState, SameNext, SameTasks, SameMark

\* A step that only costs a turn.
LEMMA TurnIs ==
    ASSUME Typed, NEW i \in Invocations, More(i), inv' = [inv EXCEPT ![i].next = @ + 1]
    PROVE  /\ Moves(i, inv[i].pc)
           /\ SameBatch(i)
           /\ SameState(i)
           /\ inv'[i].next = inv[i].next + 1
           /\ SameTasks(i)
           /\ SameMark(i)
<1>1. PICK c \in InvRecord : c = inv[i]
  BY TypedParts
<1>2. PICK r : r = [c EXCEPT !.next = c.next + 1]
  OBVIOUS
<1>3. inv' = [inv EXCEPT ![i] = r]
  BY <1>1, <1>2
<1>4. c.next + 1 \in 1..(Len(Order) + 1)
  BY <1>1, Turn
<1>5. r \in InvRecord
  BY <1>1, <1>2, <1>4 DEF InvRecord
<1>6. /\ r.pc = c.pc /\ r.start = c.start /\ r.end = c.end /\ r.envs = c.envs
      /\ r.state = c.state /\ r.next = c.next + 1 /\ r.task = c.task /\ r.mutated = c.mutated
  BY <1>2 DEF InvRecord
<1>7. Moves(i, r.pc) /\ inv'[i] = r
  BY <1>3, <1>5, Replaced
<1> QED
  BY <1>1, <1>6, <1>7 DEF OnlyMoves, SameBatch, SameState, SameNext, SameTasks, SameMark

\* HandleReplayed takes the append from the journal.
LEMMA ReplayedIs ==
    ASSUME Typed, NEW i \in Invocations, HandleReplayed(i)
    PROVE  /\ Moves(i, AfterAppend(journal[i].append[1]))
           /\ inv'[i].start = journal[i].append[1]
           /\ inv'[i].end = journal[i].append[2]
           /\ inv'[i].envs = inv[i].envs
           /\ SameState(i)
           /\ SameNext(i)
           /\ SameTasks(i)
           /\ SameMark(i)
<1>1. PICK c \in InvRecord : c = inv[i]
  BY TypedParts
<1>2. PICK r : r = [c EXCEPT !.pc = AfterAppend(journal[i].append[1]), !.start = journal[i].append[1], !.end = journal[i].append[2]]
  OBVIOUS
<1>3. inv' = [inv EXCEPT ![i] = r]
  BY <1>1, <1>2 DEF HandleReplayed
<1>4. AfterAppend(journal[i].append[1]) \in Pcs /\ journal[i].append[1] \in Versions /\ journal[i].append[2] \in Versions
  <2>1. journal[i].append \in {<<>>} \cup (Versions \X Versions)
    BY TypedParts DEF JournalRecord
  <2>2. journal[i].append \in Versions \X Versions
    BY <2>1 DEF HandleReplayed
  <2> QED
    BY <2>2, Names DEF AfterAppend
<1>5. r \in InvRecord
  BY <1>1, <1>2, <1>4 DEF InvRecord
<1>6. /\ r.pc = AfterAppend(journal[i].append[1]) /\ r.start = journal[i].append[1] /\ r.end = journal[i].append[2] /\ r.envs = c.envs
      /\ r.state = c.state /\ r.next = c.next /\ r.task = c.task /\ r.mutated = c.mutated
  BY <1>2 DEF InvRecord
<1>7. Moves(i, r.pc) /\ inv'[i] = r
  BY <1>3, <1>5, Replaced
<1> QED
  BY <1>1, <1>6, <1>7 DEF OnlyMoves, SameBatch, SameState, SameNext, SameTasks, SameMark

\* A command without events returns the current state.
LEMMA ReturnNoOpIs ==
    ASSUME Typed, NEW i \in Invocations, ReturnNoOp(i)
    PROVE  /\ Moves(i, "returned")
           /\ SameBatch(i)
           /\ inv'[i].state = Len(log)
           /\ SameNext(i)
           /\ SameTasks(i)
           /\ SameMark(i)
<1>1. PICK c \in InvRecord : c = inv[i]
  BY TypedParts
<1>2. PICK r : r = [c EXCEPT !.pc = "returned", !.state = Len(log)]
  OBVIOUS
<1>3. inv' = [inv EXCEPT ![i] = r]
  BY <1>1, <1>2 DEF ReturnNoOp
<1>4. "returned" \in Pcs /\ Len(log) \in Versions
  BY Names, LogLength
<1>5. r \in InvRecord
  BY <1>1, <1>2, <1>4 DEF InvRecord
<1>6. /\ r.pc = "returned" /\ r.start = c.start /\ r.end = c.end /\ r.envs = c.envs
      /\ r.state = Len(log) /\ r.next = c.next /\ r.task = c.task /\ r.mutated = c.mutated
  BY <1>2 DEF InvRecord
<1>7. Moves(i, r.pc) /\ inv'[i] = r
  BY <1>3, <1>5, Replaced
<1> QED
  BY <1>1, <1>6, <1>7 DEF OnlyMoves, SameBatch, SameState, SameNext, SameTasks, SameMark

\* The events of the batch.
EnvelopesOf(i) == IF journal[i].envs # {} THEN journal[i].envs ELSE ReadStream(i)

\* The batch is read, or taken from the journal.
LEMMA ReadEnvelopesIs ==
    ASSUME Typed, NEW i \in Invocations, ReadEnvelopes(i)
    PROVE  /\ Moves(i, "state")
           /\ inv'[i].start = inv[i].start
           /\ inv'[i].end = inv[i].end
           /\ inv'[i].envs = EnvelopesOf(i)
           /\ SameState(i)
           /\ SameNext(i)
           /\ SameTasks(i)
           /\ SameMark(i)
<1>1. PICK c \in InvRecord : c = inv[i]
  BY TypedParts
<1>2. PICK r : r = [c EXCEPT !.pc = "state", !.envs = EnvelopesOf(i)]
  OBVIOUS
<1>3. inv' = [inv EXCEPT ![i] = r]
  BY <1>1, <1>2 DEF ReadEnvelopes, EnvelopesOf
<1>4. "state" \in Pcs /\ EnvelopesOf(i) \in SUBSET Versions
  <2>1. journal[i].envs \in SUBSET Versions /\ c.start \in Versions /\ c.end \in Versions
    BY TypedParts DEF InvRecord, JournalRecord
  <2>2. c.start..c.end \in SUBSET Versions
    BY <2>1, Bounds, SMTT(30), SMTT(60) DEF Versions
  <2> QED
    BY <1>1, <2>1, <2>2, Names DEF EnvelopesOf, ReadStream
<1>5. r \in InvRecord
  BY <1>1, <1>2, <1>4 DEF InvRecord
<1>6. /\ r.pc = "state" /\ r.start = c.start /\ r.end = c.end /\ r.envs = EnvelopesOf(i)
      /\ r.state = c.state /\ r.next = c.next /\ r.task = c.task /\ r.mutated = c.mutated
  BY <1>2 DEF InvRecord
<1>7. Moves(i, r.pc) /\ inv'[i] = r
  BY <1>3, <1>5, Replaced
<1> QED
  BY <1>1, <1>6, <1>7 DEF OnlyMoves, SameBatch, SameState, SameNext, SameTasks, SameMark

\* The state is loaded, or taken from the journal.
LEMMA ReadStateIs ==
    ASSUME Typed, NEW i \in Invocations, ReadState(i)
    PROVE  /\ Moves(i, "fanout")
           /\ SameBatch(i)
           /\ inv'[i].state = PostDecideState(i)
           /\ SameNext(i)
           /\ SameTasks(i)
           /\ SameMark(i)
<1>1. PICK c \in InvRecord : c = inv[i]
  BY TypedParts
<1>2. PICK r : r = [c EXCEPT !.pc = "fanout", !.state = PostDecideState(i)]
  OBVIOUS
<1>3. inv' = [inv EXCEPT ![i] = r]
  BY <1>1, <1>2 DEF ReadState
<1>4. "fanout" \in Pcs /\ PostDecideState(i) \in Versions
  <2>1. journal[i].state \in Versions
    BY TypedParts DEF JournalRecord
  <2> QED
    BY <2>1, Names, LogLength DEF PostDecideState
<1>5. r \in InvRecord
  BY <1>1, <1>2, <1>4 DEF InvRecord
<1>6. /\ r.pc = "fanout" /\ r.start = c.start /\ r.end = c.end /\ r.envs = c.envs
      /\ r.state = PostDecideState(i) /\ r.next = c.next /\ r.task = c.task /\ r.mutated = c.mutated
  BY <1>2 DEF InvRecord
<1>7. Moves(i, r.pc) /\ inv'[i] = r
  BY <1>3, <1>5, Replaced
<1> QED
  BY <1>1, <1>6, <1>7 DEF OnlyMoves, SameBatch, SameState, SameNext, SameTasks, SameMark

\* After the wait the policies are applied in order.
LEMMA WaitAllIs ==
    ASSUME Typed, NEW i \in Invocations, WaitAll(i)
    PROVE  /\ Moves(i, "apply")
           /\ SameBatch(i)
           /\ SameState(i)
           /\ inv'[i].next = 1
           /\ SameTasks(i)
           /\ SameMark(i)
<1>1. PICK c \in InvRecord : c = inv[i]
  BY TypedParts
<1>2. PICK r : r = [c EXCEPT !.pc = "apply", !.next = 1]
  OBVIOUS
<1>3. inv' = [inv EXCEPT ![i] = r]
  BY <1>1, <1>2 DEF WaitAll
<1>4. "apply" \in Pcs /\ 1 \in 1..(Len(Order) + 1)
  <2>1. 1 \in 1..(Len(Order) + 1)
    BY Bounds, SMTT(30), SMTT(60)
  <2> QED
    BY <2>1, Names
<1>5. r \in InvRecord
  BY <1>1, <1>2, <1>4 DEF InvRecord
<1>6. /\ r.pc = "apply" /\ r.start = c.start /\ r.end = c.end /\ r.envs = c.envs
      /\ r.state = c.state /\ r.next = 1 /\ r.task = c.task /\ r.mutated = c.mutated
  BY <1>2 DEF InvRecord
<1>7. Moves(i, r.pc) /\ inv'[i] = r
  BY <1>3, <1>5, Replaced
<1> QED
  BY <1>1, <1>6, <1>7 DEF OnlyMoves, SameBatch, SameState, SameNext, SameTasks, SameMark

\* HandleCmd returns the journaled state, or the current one.
LEMMA ReturnIs ==
    ASSUME Typed, NEW i \in Invocations, Return(i)
    PROVE  /\ Moves(i, "returned")
           /\ SameBatch(i)
           /\ inv'[i].state = IF inv[i].mutated THEN Len(log) ELSE inv[i].state
           /\ SameNext(i)
           /\ SameTasks(i)
           /\ SameMark(i)
<1>1. PICK c \in InvRecord : c = inv[i]
  BY TypedParts
<1>2. PICK r : r = [c EXCEPT !.pc = "returned", !.state = IF c.mutated THEN Len(log) ELSE c.state]
  OBVIOUS
<1>3. inv' = [inv EXCEPT ![i] = r]
  BY <1>1, <1>2 DEF Return
<1>4. "returned" \in Pcs /\ (IF c.mutated THEN Len(log) ELSE c.state) \in Versions
  BY Names, LogLength DEF InvRecord
<1>5. r \in InvRecord
  BY <1>1, <1>2, <1>4 DEF InvRecord
<1>6. /\ r.pc = "returned" /\ r.start = c.start /\ r.end = c.end /\ r.envs = c.envs
      /\ r.state = (IF c.mutated THEN Len(log) ELSE c.state) /\ r.next = c.next /\ r.task = c.task /\ r.mutated = c.mutated
  BY <1>2 DEF InvRecord
<1>7. Moves(i, r.pc) /\ inv'[i] = r
  BY <1>3, <1>5, Replaced
<1> QED
  BY <1>1, <1>6, <1>7 DEF OnlyMoves, SameBatch, SameState, SameNext, SameTasks, SameMark

\* The task of the subscriber whose turn it is.
ResultOrRun(i) == IF journal[i].task[Current(i)] # "none" THEN journal[i].task[Current(i)] ELSE "run" 

\* A Sync subscriber starts, or its result comes from the journal.
LEMMA RunAsyncIs ==
    ASSUME Typed, NEW i \in Invocations, RunAsync(i)
    PROVE  /\ Moves(i, inv[i].pc)
           /\ SameBatch(i)
           /\ SameState(i)
           /\ inv'[i].next = inv[i].next + 1
           /\ inv'[i].task = [inv[i].task EXCEPT ![Current(i)] = ResultOrRun(i)]
           /\ SameMark(i)
<1>1. PICK c \in InvRecord : c = inv[i]
  BY TypedParts
<1>2. PICK r : r = [c EXCEPT !.next = c.next + 1, !.task = [c.task EXCEPT ![Current(i)] = ResultOrRun(i)]]
  OBVIOUS
<1>3. inv' = [inv EXCEPT ![i] = r]
  BY <1>1, <1>2 DEF RunAsync, ResultOrRun
<1>4. c.next + 1 \in 1..(Len(Order) + 1) /\ [c.task EXCEPT ![Current(i)] = ResultOrRun(i)] \in [Subs -> Tasks]
  <2>1. c.next + 1 \in 1..(Len(Order) + 1) /\ Current(i) \in Subs
    BY <1>1, Turn DEF RunAsync
  <2>2. journal[i].task \in [Subs -> {"none", "ok", "exhausted"}] /\ c.task \in [Subs -> Tasks]
    BY TypedParts DEF InvRecord, JournalRecord
  <2>3. ResultOrRun(i) \in Tasks
    BY <2>1, <2>2, Names DEF ResultOrRun
  <2> QED
    BY <2>1, <2>2, <2>3
<1>5. r \in InvRecord
  BY <1>1, <1>2, <1>4 DEF InvRecord
<1>6. /\ r.pc = c.pc /\ r.start = c.start /\ r.end = c.end /\ r.envs = c.envs
      /\ r.state = c.state /\ r.next = c.next + 1 /\ r.task = [c.task EXCEPT ![Current(i)] = ResultOrRun(i)] /\ r.mutated = c.mutated
  BY <1>2 DEF InvRecord
<1>7. Moves(i, r.pc) /\ inv'[i] = r
  BY <1>3, <1>5, Replaced
<1> QED
  BY <1>1, <1>6, <1>7 DEF OnlyMoves, SameBatch, SameState, SameNext, SameTasks, SameMark

\* A step of one Sync subscriber.
LEMMA TaskIs ==
    ASSUME Typed, NEW i \in Invocations, NEW s \in Subs, NEW t \in Tasks,
           inv' = [inv EXCEPT ![i].task[s] = t]
    PROVE  /\ Moves(i, inv[i].pc)
           /\ SameBatch(i)
           /\ SameState(i)
           /\ SameNext(i)
           /\ inv'[i].task = [inv[i].task EXCEPT ![s] = t]
           /\ SameMark(i)
<1>1. PICK c \in InvRecord : c = inv[i]
  BY TypedParts
<1>2. PICK r : r = [c EXCEPT !.task = [c.task EXCEPT ![s] = t]]
  OBVIOUS
<1>3. inv' = [inv EXCEPT ![i] = r]
  BY <1>1, <1>2
<1>4. [c.task EXCEPT ![s] = t] \in [Subs -> Tasks]
  BY DEF InvRecord
<1>5. r \in InvRecord
  BY <1>1, <1>2, <1>4 DEF InvRecord
<1>6. /\ r.pc = c.pc /\ r.start = c.start /\ r.end = c.end /\ r.envs = c.envs
      /\ r.state = c.state /\ r.next = c.next /\ r.task = [c.task EXCEPT ![s] = t] /\ r.mutated = c.mutated
  BY <1>2 DEF InvRecord
<1>7. Moves(i, r.pc) /\ inv'[i] = r
  BY <1>3, <1>5, Replaced
<1> QED
  BY <1>1, <1>6, <1>7 DEF OnlyMoves, SameBatch, SameState, SameNext, SameTasks, SameMark

\* A Sync subscriber is called: it succeeds, will be tried again, or gives up.
LEMMA SyncAttemptIs ==
    ASSUME Typed, NEW i \in Invocations, NEW s \in Subs, SyncAttempt(i, s)
    PROVE  \E t \in {"succeeded", "run", "gave up"} :
               /\ Moves(i, inv[i].pc)
               /\ SameBatch(i)
               /\ SameState(i)
               /\ SameNext(i)
               /\ inv'[i].task = [inv[i].task EXCEPT ![s] = t]
               /\ SameMark(i)
               /\ t = "succeeded" => Settle(i, s, "handled")
               /\ t # "succeeded" => outcome' = outcome
<1>1. CASE inv' = [inv EXCEPT ![i].task[s] = "succeeded"] /\ Settle(i, s, "handled")
  <2>1. "succeeded" \in Tasks
    BY Names
  <2> QED
    BY <1>1, <2>1, TaskIs
<1>2. CASE /\ inv' = [inv EXCEPT ![i].task[s] = IF inv[i].tries[s] < Budget(s) THEN "run" ELSE "gave up",
                                 ![i].tries[s] = IF @ < Budget(s) THEN @ + 1 ELSE @]
           /\ outcome' = outcome
  <2>1. PICK c \in InvRecord : c = inv[i]
    BY TypedParts
  <2>2. PICK t : t = IF c.tries[s] < Budget(s) THEN "run" ELSE "gave up"
    OBVIOUS
  <2>3. PICK n : n = IF c.tries[s] < Budget(s) THEN c.tries[s] + 1 ELSE c.tries[s]
    OBVIOUS
  <2>4. PICK r : r = [c EXCEPT !.task = [c.task EXCEPT ![s] = t], !.tries = [c.tries EXCEPT ![s] = n]]
    OBVIOUS
  <2>5. inv' = [inv EXCEPT ![i] = r]
    BY <1>2, <2>1, <2>2, <2>3, <2>4
  <2>6. n \in 0..MaxRetries
    <3>1. c.tries \in [Subs -> 0..MaxRetries] /\ Budget(s) \in 0..MaxRetries /\ MaxRetries \in Nat
      BY Subscription, Bounds DEF InvRecord, Subscriber, Budget
    <3> QED
      BY <2>3, <3>1, SMTT(30), SMTT(60)
  <2>7. t \in {"run", "gave up"} /\ t \in Tasks
    BY <2>2, Names
  <2>8. c.task \in [Subs -> Tasks] /\ c.tries \in [Subs -> 0..MaxRetries]
    BY DEF InvRecord
  <2>9. [c.task EXCEPT ![s] = t] \in [Subs -> Tasks] /\ [c.tries EXCEPT ![s] = n] \in [Subs -> 0..MaxRetries]
    BY <2>6, <2>7, <2>8
  <2>10. r \in InvRecord
    BY <2>1, <2>4, <2>9 DEF InvRecord
  <2>11. /\ r.pc = c.pc /\ r.start = c.start /\ r.end = c.end /\ r.envs = c.envs /\ r.state = c.state
         /\ r.next = c.next /\ r.task = [c.task EXCEPT ![s] = t] /\ r.mutated = c.mutated
    BY <2>4 DEF InvRecord
  <2>12. Moves(i, r.pc) /\ inv'[i] = r
    BY <2>5, <2>10, Replaced
  <2>13. t # "succeeded"
    BY <2>7
  <2> QED
    BY <1>2, <2>1, <2>7, <2>11, <2>12, <2>13 DEF SameBatch, SameState, SameNext, SameMark
<1> QED
  BY <1>1, <1>2 DEF SyncAttempt

\* The step of a Sync subscriber is recorded.
LEMMA RecordSyncIs ==
    ASSUME Typed, NEW i \in Invocations, NEW s \in Subs, RecordSync(i, s)
    PROVE  /\ Moves(i, inv[i].pc)
           /\ SameBatch(i)
           /\ SameState(i)
           /\ SameNext(i)
           /\ inv'[i].task = [inv[i].task EXCEPT ![s] = Result(i, s)]
           /\ SameMark(i)
<1>1. Result(i, s) \in Tasks
  BY Names DEF Result
<1> QED
  BY <1>1, TaskIs DEF RecordSync

\* The batch of an invocation at the end of the stream.
Appends(i) ==
    /\ Len(log) + Len(TypesOf(i)) <= MaxEvents
    /\ log' = log \o [k \in 1..Len(TypesOf(i)) |-> [inv |-> i, type |-> TypesOf(i)[k]]]

\* The decider accepts, does nothing or rejects.
LEMMA HandleIs ==
    ASSUME Typed, NEW i \in Invocations, Handle(i)
    PROVE  \/ /\ Appends(i)
              /\ Moves(i, "appended")
              /\ inv'[i].start = Len(log) + 1 /\ inv'[i].end = Len(log) + Len(TypesOf(i))
              /\ inv'[i].envs = inv[i].envs
              /\ SameState(i) /\ SameNext(i) /\ SameTasks(i) /\ SameMark(i)
           \/ log' = log /\ OnlyMoves(i, "appended")
           \/ log' = log /\ OnlyMoves(i, "failed")
<1>1. CASE /\ Appends(i)
           /\ inv' = [inv EXCEPT ![i].pc = "appended",
                                 ![i].start = Len(log) + 1,
                                 ![i].end = Len(log) + Len(TypesOf(i))]
  <2>1. PICK c \in InvRecord : c = inv[i]
    BY TypedParts
  <2>2. PICK a, b : a = Len(log) + 1 /\ b = Len(log) + Len(TypesOf(i))
    OBVIOUS
  <2>3. PICK r : r = [c EXCEPT !.pc = "appended", !.start = a, !.end = b]
    OBVIOUS
  <2>4. inv' = [inv EXCEPT ![i] = r]
    BY <1>1, <2>1, <2>2, <2>3
  <2>5. a \in Versions /\ b \in Versions
    <3>1. Len(log) + Len(TypesOf(i)) <= MaxEvents /\ MaxEvents \in Nat /\ Len(log) \in Nat
      BY <1>1, Bounds, LogLength DEF Appends
    <3>2. Len(TypesOf(i)) \in Nat /\ Len(TypesOf(i)) > 0
      BY Bounds
    <3> QED
      BY <2>2, <3>1, <3>2, SMTT(30), SMTT(60) DEF Versions
  <2>6. r \in InvRecord
    BY <2>1, <2>3, <2>5, Names DEF InvRecord
  <2>7. /\ r.pc = "appended" /\ r.start = a /\ r.end = b /\ r.envs = c.envs /\ r.state = c.state
        /\ r.next = c.next /\ r.task = c.task /\ r.mutated = c.mutated
    BY <2>3 DEF InvRecord
  <2>8. Moves(i, r.pc) /\ inv'[i] = r
    BY <2>4, <2>6, Replaced
  <2> QED
    BY <1>1, <2>1, <2>2, <2>7, <2>8 DEF SameState, SameNext, SameTasks, SameMark
<1>2. "appended" \in Pcs /\ "failed" \in Pcs
  BY Names
<1> QED
  BY <1>1, <1>2, GotoIs DEF Handle, Appends

\* A compensation returned, or failed.
LEMMA EndCompensationIs ==
    ASSUME Typed, NEW i \in Invocations, EndCompensation(i)
    PROVE  /\ More(i)
           /\ \/ /\ inv[<<i, Current(i)>>].pc = "returned"
                 /\ Moves(i, "apply") /\ inv'[i].next = inv[i].next + 1 /\ inv'[i].mutated = TRUE
                 /\ SameBatch(i) /\ SameState(i) /\ SameTasks(i)
                 /\ Settle(i, Current(i), "compensated")
              \/ /\ inv[<<i, Current(i)>>].pc = "failed"
                 /\ OnlyMoves(i, "failed")
                 /\ outcome' = outcome
<1>1. inv[i].pc = "nested" /\ More(i)
  BY DEF Typed, EndCompensation
<1>2. CASE /\ inv[<<i, Current(i)>>].pc = "returned"
           /\ inv' = [inv EXCEPT ![i].pc = "apply", ![i].next = @ + 1, ![i].mutated = Mutated(i)]
           /\ Settle(i, Current(i), "compensated")
  <2>1. PICK c \in InvRecord : c = inv[i]
    BY TypedParts
  <2>2. PICK r : r = [c EXCEPT !.pc = "apply", !.next = c.next + 1, !.mutated = TRUE]
    OBVIOUS
  <2>3. inv' = [inv EXCEPT ![i] = r]
    BY <1>2, <2>1, <2>2 DEF Mutated
  <2>4. c.next + 1 \in 1..(Len(Order) + 1)
    BY <1>1, <2>1, Turn
  <2>5. r \in InvRecord
    BY <2>1, <2>2, <2>4, Names DEF InvRecord
  <2>6. /\ r.pc = "apply" /\ r.start = c.start /\ r.end = c.end /\ r.envs = c.envs /\ r.state = c.state
        /\ r.next = c.next + 1 /\ r.task = c.task /\ r.mutated = TRUE
    BY <2>2 DEF InvRecord
  <2>7. Moves(i, r.pc) /\ inv'[i] = r
    BY <2>3, <2>5, Replaced
  <2> QED
    BY <1>1, <1>2, <2>1, <2>6, <2>7 DEF SameBatch, SameState, SameTasks
<1>3. "failed" \in Pcs
  BY Names
<1> QED
  BY <1>1, <1>2, <1>3, GotoIs DEF EndCompensation

\* A command is no compensation, and a compensation is one.
LEMMA Kinds ==
    ASSUME NEW c \in Commands
    PROVE  /\ c \in Invocations /\ c \notin Nested
           /\ \A s \in Subs : <<c, s>> \in Invocations /\ <<c, s>> \in Nested /\ <<c, s>> # c
<1>1. c \notin Nested
  BY CommandBusAssumption
<1>2. \A s \in Subs : <<c, s>> \in Nested
  BY DEF Nested
<1> QED
  BY <1>1, <1>2 DEF Invocations

\* The nested HandleCmd begins, or Compensate fails.
LEMMA StartCompensationIs ==
    ASSUME Typed, NEW i \in Invocations, StartCompensation(i)
    PROVE  LET n == <<i, Current(i)>> IN
           \/ /\ inv' \in [Invocations -> InvRecord]
              /\ \A j \in Invocations : j # i /\ j # n => inv'[j] = inv[j]
              /\ inv'[i].pc = "nested"
              /\ SameBatch(i) /\ SameState(i) /\ SameNext(i) /\ SameTasks(i) /\ SameMark(i)
              /\ inv'[n].pc = "append"
              /\ SameBatch(n) /\ SameState(n) /\ SameNext(n) /\ SameTasks(n) /\ SameMark(n)
           \/ OnlyMoves(i, "failed")
<1> DEFINE n == <<i, Current(i)>>
<1>1. i \in Commands /\ More(i)
  BY DEF StartCompensation, Exhausted
<1>2. n \in Invocations /\ n # i
  BY <1>1, Turn, Kinds
<1> HIDE DEF n
<1>3. CASE inv' = [inv EXCEPT ![i].pc = "nested", ![n].pc = "append"]
  <2>1. PICK c \in InvRecord : c = inv[i]
    BY TypedParts
  <2>2. PICK d \in InvRecord : d = inv[n]
    BY <1>2, TypedParts
  <2>3. PICK r, q : r = [c EXCEPT !.pc = "nested"] /\ q = [d EXCEPT !.pc = "append"]
    OBVIOUS
  <2>4. inv' = [inv EXCEPT ![i] = r, ![n] = q]
    BY <1>2, <1>3, <2>1, <2>2, <2>3, TypedParts
  <2>5. r \in InvRecord /\ q \in InvRecord
    BY <2>1, <2>2, <2>3, Names DEF InvRecord
  <2>6. /\ r.pc = "nested" /\ r.start = c.start /\ r.end = c.end /\ r.envs = c.envs /\ r.state = c.state
        /\ r.next = c.next /\ r.task = c.task /\ r.mutated = c.mutated
    BY <2>3 DEF InvRecord
  <2>7. /\ q.pc = "append" /\ q.start = d.start /\ q.end = d.end /\ q.envs = d.envs /\ q.state = d.state
        /\ q.next = d.next /\ q.task = d.task /\ q.mutated = d.mutated
    BY <2>3 DEF InvRecord
  <2>8. /\ inv' \in [Invocations -> InvRecord] /\ inv'[i] = r /\ inv'[n] = q
        /\ \A j \in Invocations : j # i /\ j # n => inv'[j] = inv[j]
    BY <1>2, <2>4, <2>5, TypedParts
  <2> QED
    BY <2>1, <2>2, <2>6, <2>7, <2>8 DEF n, SameBatch, SameState, SameNext, SameTasks, SameMark
<1>4. "failed" \in Pcs
  BY Names
<1> QED
  BY <1>3, <1>4, GotoIs DEF StartCompensation, n

\* Only the journal of i may have changed.
Journals(i) ==
    /\ journal' \in [Invocations -> JournalRecord]
    /\ \A j \in Invocations : j # i => journal'[j] = journal[j]
    /\ ~conf.durable => journal' = journal

\* An entry goes to the journal, if there is one.
LEMMA JournalIs ==
    ASSUME Typed, NEW i \in Invocations, NEW r \in JournalRecord, Journal(i, r)
    PROVE  Journals(i) /\ (conf.durable => journal'[i] = r)
BY TypedParts DEF Journal, Journals

\* The result of the append is journaled.
LEMMA RecordAppendIs ==
    ASSUME Typed, NEW i \in Invocations, HandleRecorded(i)
    PROVE  /\ Journals(i)
           /\ conf.durable => journal'[i].append = <<inv[i].start, inv[i].end>>
           /\ journal'[i].envs = journal[i].envs /\ journal'[i].state = journal[i].state
           /\ journal'[i].task = journal[i].task
<1>1. PICK c \in JournalRecord : c = journal[i]
  BY TypedParts
<1>2. PICK e : e = <<inv[i].start, inv[i].end>>
  OBVIOUS
<1>3. PICK r : r = [c EXCEPT !.append = e]
  OBVIOUS
<1>4. e \in Versions \X Versions
  BY <1>2, TypedParts DEF InvRecord
<1>5. r \in JournalRecord
  BY <1>1, <1>3, <1>4 DEF JournalRecord
<1>6. r.append = e /\ r.envs = c.envs /\ r.state = c.state /\ r.task = c.task
  BY <1>3 DEF JournalRecord
<1>7. Journal(i, r)
  BY <1>1, <1>2, <1>3 DEF HandleRecorded, RecordAppend
<1>8. Journals(i) /\ (conf.durable => journal'[i] = r)
  BY <1>5, <1>7, JournalIs
<1> QED
  BY <1>1, <1>2, <1>6, <1>8 DEF Journals

\* The batch is journaled.
LEMMA RecordEnvelopesIs ==
    ASSUME Typed, NEW i \in Invocations, ReadEnvelopes(i)
    PROVE  /\ Journals(i)
           /\ conf.durable => journal'[i].envs = EnvelopesOf(i)
           /\ journal'[i].append = journal[i].append /\ journal'[i].state = journal[i].state
           /\ journal'[i].task = journal[i].task
<1>1. PICK c \in JournalRecord : c = journal[i]
  BY TypedParts
<1>2. PICK e : e = EnvelopesOf(i)
  OBVIOUS
<1>3. PICK r : r = [c EXCEPT !.envs = e]
  OBVIOUS
<1>4. e \in SUBSET Versions
  <2>1. inv'[i] \in InvRecord /\ inv'[i].envs = e
    BY <1>2, ReadEnvelopesIs DEF Moves
  <2> QED
    BY <2>1 DEF InvRecord
<1>5. r \in JournalRecord
  BY <1>1, <1>3, <1>4 DEF JournalRecord
<1>6. r.append = c.append /\ r.envs = e /\ r.state = c.state /\ r.task = c.task
  BY <1>3 DEF JournalRecord
<1>7. Journal(i, r)
  BY <1>1, <1>2, <1>3 DEF ReadEnvelopes, EnvelopesOf
<1>8. Journals(i) /\ (conf.durable => journal'[i] = r)
  BY <1>5, <1>7, JournalIs
<1> QED
  BY <1>1, <1>2, <1>6, <1>8 DEF Journals

\* The state is journaled.
LEMMA RecordStateIs ==
    ASSUME Typed, NEW i \in Invocations, ReadState(i)
    PROVE  /\ Journals(i)
           /\ conf.durable => journal'[i].state = PostDecideState(i)
           /\ journal'[i].append = journal[i].append /\ journal'[i].envs = journal[i].envs
           /\ journal'[i].task = journal[i].task
<1>1. PICK c \in JournalRecord : c = journal[i]
  BY TypedParts
<1>2. PICK e : e = PostDecideState(i)
  OBVIOUS
<1>3. PICK r : r = [c EXCEPT !.state = e]
  OBVIOUS
<1>4. e \in Versions
  <2>1. inv'[i] \in InvRecord /\ inv'[i].state = e
    BY <1>2, ReadStateIs DEF Moves
  <2> QED
    BY <2>1 DEF InvRecord
<1>5. r \in JournalRecord
  BY <1>1, <1>3, <1>4 DEF JournalRecord
<1>6. r.append = c.append /\ r.envs = c.envs /\ r.state = e /\ r.task = c.task
  BY <1>3 DEF JournalRecord
<1>7. Journal(i, r)
  BY <1>1, <1>2, <1>3 DEF ReadState
<1>8. Journals(i) /\ (conf.durable => journal'[i] = r)
  BY <1>5, <1>7, JournalIs
<1> QED
  BY <1>1, <1>2, <1>6, <1>8 DEF Journals

\* The result of a Sync subscriber is journaled.
LEMMA RecordTaskIs ==
    ASSUME Typed, NEW i \in Invocations, NEW s \in Subs, RecordSync(i, s)
    PROVE  /\ Journals(i)
           /\ conf.durable => journal'[i].task = [journal[i].task EXCEPT ![s] = Result(i, s)]
           /\ journal'[i].append = journal[i].append /\ journal'[i].envs = journal[i].envs
           /\ journal'[i].state = journal[i].state
<1>1. PICK c \in JournalRecord : c = journal[i]
  BY TypedParts
<1>2. PICK e : e = [c.task EXCEPT ![s] = Result(i, s)]
  OBVIOUS
<1>3. PICK r : r = [c EXCEPT !.task = e]
  OBVIOUS
<1>4. e \in [Subs -> {"none", "ok", "exhausted"}]
  <2>1. Result(i, s) \in {"none", "ok", "exhausted"}
    BY DEF Result
  <2>2. c.task \in [Subs -> {"none", "ok", "exhausted"}]
    BY DEF JournalRecord
  <2> QED
    BY <1>2, <2>1, <2>2
<1>5. r \in JournalRecord
  BY <1>1, <1>3, <1>4 DEF JournalRecord
<1>6. r.append = c.append /\ r.envs = c.envs /\ r.state = c.state /\ r.task = e
  BY <1>3 DEF JournalRecord
<1>7. Journal(i, r)
  BY <1>1, <1>2, <1>3 DEF RecordSync
<1>8. Journals(i) /\ (conf.durable => journal'[i] = r)
  BY <1>5, <1>7, JournalIs
<1> QED
  BY <1>1, <1>2, <1>6, <1>8 DEF Journals

\* An outcome is added, and no other changes.
LEMMA SettleIs ==
    ASSUME Typed, NEW i \in Invocations, NEW s \in Subs,
           NEW w \in {"handled", "dlq", "dropped", "compensated"}, Settle(i, s, w)
    PROVE  /\ outcome' \in [Invocations \X Subs -> SUBSET {"handled", "dlq", "dropped", "compensated"}]
           /\ outcome'[<<i, s>>] = outcome[<<i, s>>] \cup {w}
           /\ \A k \in Invocations \X Subs : k # <<i, s>> => outcome'[k] = outcome[k]
BY TypedParts DEF Settle

\* c is a followed by b.
IsJoin(c, a, b, T) == a \in Seq(T) /\ b \in Seq(T) /\ c = a \o b

\* Concatenation, place by place.
LEMMA Joined ==
    ASSUME NEW T, NEW a, NEW b, NEW c, IsJoin(c, a, b, T)
    PROVE  /\ c \in Seq(T) /\ Len(c) = Len(a) + Len(b)
           /\ \A v \in 1..Len(a) : c[v] = a[v]
           /\ \A v \in (Len(a) + 1)..(Len(a) + Len(b)) : v - Len(a) \in 1..Len(b) /\ c[v] = b[v - Len(a)]
<1> USE DEF IsJoin
<1>1. c \in Seq(T) /\ Len(c) = Len(a) + Len(b)
  BY SMTT(30), SMTT(60)
<1>2. \A v \in 1..Len(a) : c[v] = a[v]
  BY SMTT(30), SMTT(60)
<1>3. \A v \in (Len(a) + 1)..(Len(a) + Len(b)) : v - Len(a) \in 1..Len(b) /\ c[v] = b[v - Len(a)]
  BY SMTT(30), SMTT(60)
<1> QED
  BY <1>1, <1>2, <1>3

\* The stream grows at its end.
LEMMA LogGrows ==
    ASSUME Typed, NEW i \in Invocations, Appends(i)
    PROVE  /\ log' \in Seq(Entry) /\ Len(log') <= MaxEvents
           /\ Len(log') = Len(log) + Len(TypesOf(i))
           /\ \A v \in 1..Len(log) : log'[v] = log[v]
           /\ \A v \in (Len(log) + 1)..Len(log') : log'[v].inv = i
<1>1. PICK n \in Nat : n = Len(TypesOf(i))
  BY Bounds
<1>2. PICK b : b = [k \in 1..n |-> [inv |-> i, type |-> TypesOf(i)[k]]]
  OBVIOUS
<1>3. ASSUME NEW k \in 1..n PROVE b[k] \in Entry /\ b[k].inv = i
  <2>1. TypesOf(i)[k] \in Range(Batch) \cup Range(Undo)
    BY <1>1, Bounds
  <2> QED
    BY <1>2, <2>1 DEF Entry
<1>4. b \in Seq(Entry) /\ Len(b) = n
  BY <1>2, <1>3, SMTT(30), SMTT(60)
<1>5. log \in Seq(Entry) /\ log' = log \o b /\ Len(log) + n <= MaxEvents
  BY <1>1, <1>2, TypedParts DEF Appends
<1>6. /\ log' \in Seq(Entry) /\ Len(log') = Len(log) + n
      /\ \A v \in 1..Len(log) : log'[v] = log[v]
      /\ \A v \in (Len(log) + 1)..(Len(log) + n) : v - Len(log) \in 1..n /\ log'[v] = b[v - Len(log)]
  <2>0. PICK l, k, E : l = log /\ k = log' /\ E = Entry /\ IsJoin(k, l, b, E)
    BY <1>4, <1>5 DEF IsJoin
  <2>1. log' \in Seq(Entry) /\ Len(log') = Len(log) + Len(b)
    BY <2>0, Joined, SMTT(30), SMTT(60)
  <2>2. ASSUME NEW v \in 1..Len(log) PROVE log'[v] = log[v]
    BY <2>0, Joined, SMTT(30), SMTT(60)
  <2>3. ASSUME NEW v \in (Len(log) + 1)..(Len(log) + Len(b))
        PROVE  v - Len(log) \in 1..Len(b) /\ log'[v] = b[v - Len(log)]
    BY <2>0, Joined, SMTT(30), SMTT(60)
  <2> QED
    BY <1>4, <2>1, <2>2, <2>3
<1>7. ASSUME NEW v \in (Len(log) + 1)..(Len(log) + n) PROVE log'[v].inv = i
  BY <1>3, <1>6
<1>8. Len(log') <= MaxEvents
  BY <1>5, <1>6
<1> QED
  BY <1>1, <1>6, <1>7, <1>8

-------------------------------------------------------------------------------
(* The types are kept *)

\* The initial state has its types.
LEMMA InitTyped == ASSUME Init PROVE Typed
<1>1. NoJournal \in JournalRecord
  <2>1. [s \in Subs |-> "none"] \in [Subs -> {"none", "ok", "exhausted"}]
    OBVIOUS
  <2> QED
    BY <2>1, Bounds DEF NoJournal, JournalRecord
<1>2. NoInv \in InvRecord
  <2>1. [s \in Subs |-> "none"] \in [Subs -> Tasks] /\ "none" \in Pcs
    BY Names
  <2>2. 1 \in 1..(Len(Order) + 1) /\ 0 \in 0..MaxRetries
    BY Bounds, SMTT(30), SMTT(60)
  <2>3. [s \in Subs |-> 0] \in [Subs -> 0..MaxRetries]
    BY <2>2
  <2> QED
    BY <2>1, <2>2, <2>3, Bounds DEF NoInv, InvRecord
<1>3. [st |-> "none", tries |-> 0] \in ChildRecord
  BY Bounds, SMTT(30), SMTT(60) DEF ChildRecord
<1>4. <<>> \in Seq(Entry) /\ Len(<<>>) <= MaxEvents
  BY Bounds, SMTT(30), SMTT(60)
<1>5. \A i \in Invocations : inv[i].pc # "nested"
  BY DEF Init, NoInv
<1>6. /\ inv \in [Invocations -> InvRecord]
      /\ journal \in [Invocations -> JournalRecord]
      /\ child \in [Invocations \X Subs -> ChildRecord]
      /\ outcome \in [Invocations \X Subs -> SUBSET {"handled", "dlq", "dropped", "compensated"}]
      /\ given \in [Invocations -> SUBSET Versions]
  BY <1>1, <1>2, <1>3 DEF Init
<1>7. conf \in Configs /\ log = <<>>
  BY DEF Init
<1> QED
  BY <1>4, <1>5, <1>6, <1>7, TypedWhen

\* An invocation without local variables, at p afterwards.
Blank(i, p) ==
    /\ inv'[i].pc = p /\ inv'[i].start = 0 /\ inv'[i].end = 0 /\ inv'[i].envs = {}
    /\ inv'[i].state = 0 /\ inv'[i].next = 1 /\ inv'[i].mutated = FALSE
    /\ \A s \in Subs : inv'[i].task[s] = "none"

\* No invocation, typed, and the one that starts over.
LEMMA NoInvIs ==
    ASSUME NEW p \in Pcs
    PROVE  /\ NoInv \in InvRecord /\ [NoInv EXCEPT !.pc = p] \in InvRecord
           /\ \A i : inv'[i] = NoInv => Blank(i, "none")
           /\ \A i : inv'[i] = [NoInv EXCEPT !.pc = p] => Blank(i, p)
<1> DEFINE r == [NoInv EXCEPT !.pc = p]
<1>1. [s \in Subs |-> "none"] \in [Subs -> Tasks] /\ "none" \in Pcs
  BY Names
<1>2. 1 \in 1..(Len(Order) + 1) /\ 0 \in 0..MaxRetries
  BY Bounds, SMTT(30), SMTT(60)
<1>3. [s \in Subs |-> 0] \in [Subs -> 0..MaxRetries]
  BY <1>2
<1>4. NoInv \in InvRecord
  BY <1>1, <1>2, <1>3, Bounds DEF NoInv, InvRecord
<1>5. r \in InvRecord
  BY <1>4 DEF InvRecord
<1>6. /\ NoInv.pc = "none" /\ NoInv.start = 0 /\ NoInv.end = 0 /\ NoInv.envs = {}
      /\ NoInv.state = 0 /\ NoInv.next = 1 /\ NoInv.mutated = FALSE
      /\ \A s \in Subs : NoInv.task[s] = "none"
  BY DEF NoInv
<1>7. /\ r.pc = p /\ r.start = NoInv.start /\ r.end = NoInv.end /\ r.envs = NoInv.envs
      /\ r.state = NoInv.state /\ r.next = NoInv.next /\ r.mutated = NoInv.mutated
      /\ r.task = NoInv.task
  BY DEF NoInv
<1>8. /\ r.pc = p /\ r.start = 0 /\ r.end = 0 /\ r.envs = {}
      /\ r.state = 0 /\ r.next = 1 /\ r.mutated = FALSE
      /\ \A s \in Subs : r.task[s] = "none"
  BY <1>6, <1>7
<1> HIDE DEF r
<1>9. /\ \A i : inv'[i] = NoInv => Blank(i, "none")
      /\ \A i : inv'[i] = r => Blank(i, p)
  BY <1>6, <1>8 DEF Blank
<1> QED
  BY <1>4, <1>5, <1>9 DEF r

\* A crash ends what runs; commands start over if there is a journal.
LEMMA CrashIs ==
    ASSUME Typed, Crash
    PROVE  /\ inv' \in [Invocations -> InvRecord]
           /\ \A i \in Nested : Blank(i, "none")
           /\ \A i \in Commands : Running(i) => Blank(i, IF conf.durable THEN "append" ELSE "lost")
           /\ \A i \in Commands : ~Running(i) => inv'[i] = inv[i]
<1> DEFINE p == IF conf.durable THEN "append" ELSE "lost"
<1>1. inv' = [i \in Invocations |-> AfterCrash(i)] /\ p \in Pcs
  BY Names DEF Crash
<1>2. ASSUME NEW i \in Nested PROVE i \in Invocations /\ inv'[i] = NoInv
  BY <1>1 DEF AfterCrash, Invocations
<1>3. ASSUME NEW i \in Commands
      PROVE  /\ i \in Invocations
             /\ Running(i) => inv'[i] = [NoInv EXCEPT !.pc = p]
             /\ ~Running(i) => inv'[i] = inv[i]
  BY <1>1, Kinds DEF AfterCrash
<1> HIDE DEF p
<1>4. /\ \A i \in Nested : Blank(i, "none")
      /\ \A i \in Commands : Running(i) => Blank(i, p)
  BY <1>1, <1>2, <1>3, NoInvIs
<1>5. NoInv \in InvRecord /\ [NoInv EXCEPT !.pc = p] \in InvRecord
  BY <1>1, NoInvIs
<1>6. \A i \in Invocations : inv[i] \in InvRecord
  BY TypedParts
<1>7. ASSUME NEW i \in Invocations PROVE inv'[i] \in InvRecord
  <2>1. CASE i \in Commands
    BY <1>3, <1>5, <1>6, <2>1
  <2>2. CASE i \in Nested
    BY <1>2, <1>5, <2>2
  <2> QED
    BY <2>1, <2>2 DEF Invocations
<1>8. \A i \in Invocations : AfterCrash(i) \in InvRecord
  BY <1>1, <1>7
<1>9. inv' \in [Invocations -> InvRecord]
  BY <1>1, <1>8
<1> QED
  BY <1>3, <1>4, <1>9 DEF p

\* A command that failed starts over, and its compensations are forgotten.
LEMMA RetriedIs ==
    ASSUME Typed, NEW c \in Commands, Retried(c)
    PROVE  /\ inv' \in [Invocations -> InvRecord]
           /\ Blank(c, "append")
           /\ \A s \in Subs : Blank(<<c, s>>, "none")
           /\ \A i \in Invocations : i # c /\ (\A s \in Subs : i # <<c, s>>) => inv'[i] = inv[i]
<1> DEFINE p == "append"
           f(i) == IF i = c THEN [NoInv EXCEPT !.pc = p]
                   ELSE IF i \in {c} \cup ({c} \X Subs) THEN NoInv ELSE inv[i]
<1>1. inv' = [i \in Invocations |-> f(i)] /\ p \in Pcs
  BY Names DEF Retried
<1>2. c \in Invocations /\ inv'[c] = [NoInv EXCEPT !.pc = p]
  BY <1>1, Kinds
<1>3. ASSUME NEW s \in Subs PROVE <<c, s>> \in Invocations /\ inv'[<<c, s>>] = NoInv
  BY <1>1, Kinds
<1>4. ASSUME NEW i \in Invocations, i # c, \A s \in Subs : i # <<c, s>>
      PROVE  inv'[i] = inv[i]
  <2>1. i \notin {c} \X Subs
    BY <1>4, SMTT(30), SMTT(60)
  <2> QED
    BY <1>1, <1>4, <2>1
<1>5. NoInv \in InvRecord /\ [NoInv EXCEPT !.pc = p] \in InvRecord
  BY <1>1, NoInvIs
<1>6. \A i \in Invocations : inv[i] \in InvRecord
  BY TypedParts
<1>7. \A i \in Invocations : f(i) \in InvRecord
  BY <1>5, <1>6
<1>8. inv' \in [Invocations -> InvRecord]
  BY <1>1, <1>7
<1>9. Blank(c, "append") /\ \A s \in Subs : Blank(<<c, s>>, "none")
  BY <1>1, <1>2, <1>3, NoInvIs
<1> QED
  BY <1>4, <1>8, <1>9

\* Another writer's event.
LEMMA OtherWriterIs ==
    ASSUME Typed, OtherWriter
    PROVE  /\ log' \in Seq(Entry) /\ Len(log') <= MaxEvents
           /\ Len(log') = Len(log) + 1
           /\ \A v \in 1..Len(log) : log'[v] = log[v]
           /\ log'[Len(log) + 1].inv = None
<1> DEFINE e == [inv |-> None, type |-> Head(Batch)]
<1>1. Head(Batch) \in Range(Batch)
  <2>1. ASSUME NEW T, NEW b \in Seq(T), b # <<>> PROVE Head(b) \in T
    BY <2>1, SMTT(30), SMTT(60)
  <2> QED
    BY <2>1, CommandBusAssumption
<1>2. e \in Entry /\ e.inv = None
  BY <1>1 DEF Entry
<1>3. log \in Seq(Entry) /\ MaxEvents \in Nat /\ Len(log) < MaxEvents /\ log' = Append(log, e)
  BY TypedParts, Bounds DEF OtherWriter
<1> HIDE DEF e
<1>4. PICK l, k : l = log /\ k = log'
  OBVIOUS
<1>5. /\ k \in Seq(Entry) /\ Len(k) <= MaxEvents /\ Len(k) = Len(l) + 1
      /\ \A v \in 1..Len(l) : k[v] = l[v]
      /\ k[Len(l) + 1] = e
  BY <1>2, <1>3, <1>4, SMTT(30), SMTT(60)
<1> QED
  BY <1>2, <1>4, <1>5

\* A child takes a step, or fails.
LEMMA AsyncIs ==
    ASSUME Typed, NEW i \in Invocations, NEW s \in Subs, AsyncAttempt(i, s)
    PROVE  /\ child' \in [Invocations \X Subs -> ChildRecord]
           /\ \A k \in Invocations \X Subs : k # <<i, s>> => child'[k] = child[k]
           /\ child[<<i, s>>].st = "run" /\ child'[<<i, s>>].st \in {"run", "done"}
           /\ outcome' = outcome \/ \E w \in {"handled", "dlq", "dropped"} : Settle(i, s, w)
<1> DEFINE k == <<i, s>>
           d == [child[k] EXCEPT !.st = "done"]
           r == [child[k] EXCEPT !.tries = @ + 1]
<1>1. k \in Invocations \X Subs /\ child[k] \in ChildRecord /\ child[k].st = "run"
  BY TypedParts DEF AsyncAttempt
<1>2. Sub(s).retries \in 0..MaxRetries
  BY Subscription DEF Subscriber
<1>3. child[k].tries \in 0..MaxRetries /\ MaxRetries \in Nat
  BY <1>1, Bounds DEF ChildRecord
<1>4. d \in ChildRecord /\ d.st = "done"
  BY <1>1 DEF ChildRecord
<1>5. child[k].tries < Budget(s) => child[k].tries + 1 \in 0..MaxRetries
  BY <1>2, <1>3, SMTT(30), SMTT(60) DEF Budget
<1>6. child[k].tries < Budget(s) => r \in ChildRecord /\ r.st = "run"
  BY <1>1, <1>5 DEF ChildRecord
<1>7. \/ child' = [child EXCEPT ![k] = d]
      \/ child' = [child EXCEPT ![k] = r] /\ child[k].tries < Budget(s)
  BY DEF AsyncAttempt
<1>8. outcome' = outcome \/ \E w \in {"handled", "dlq", "dropped"} : Settle(i, s, w)
  <2>1. \/ Settle(i, s, "handled") \/ outcome' = outcome
        \/ Settle(i, s, IF Sub(s).policy = "dlq" THEN "dlq" ELSE "dropped")
    BY DEF AsyncAttempt
  <2>2. Settle(i, s, "handled") \/ outcome' = outcome \/ Settle(i, s, "dlq") \/ Settle(i, s, "dropped")
    BY <2>1
  <2> QED
    BY <2>2
<1> HIDE DEF k, d, r
<1>9. /\ child' \in [Invocations \X Subs -> ChildRecord]
      /\ \A j \in Invocations \X Subs : j # k => child'[j] = child[j]
      /\ child'[k].st \in {"run", "done"}
  <2>1. child \in [Invocations \X Subs -> ChildRecord]
    BY TypedParts
  <2>2. CASE child' = [child EXCEPT ![k] = d]
    BY <1>1, <1>4, <2>1, <2>2
  <2>3. CASE child' = [child EXCEPT ![k] = r] /\ child[k].tries < Budget(s)
    BY <1>1, <1>6, <2>1, <2>3
  <2> QED
    BY <1>7, <2>2, <2>3
<1> QED
  BY <1>1, <1>8, <1>9 DEF k

\* Every step keeps the types.
LEMMA NextTyped == Typed /\ [Next]_vars => Typed'
\* The next state is typed once the variables that change are.
<1>StaysTyped.
      ASSUME Typed,
             conf' = conf,
             log' = log \/ (log' \in Seq(Entry) /\ Len(log') <= MaxEvents),
             inv' \in [Invocations -> InvRecord],
             \A j \in Invocations : inv'[j].pc = "nested" => j \in Commands /\ inv'[j].next <= Len(Order),
             journal' = journal \/ journal' \in [Invocations -> JournalRecord],
             child' = child \/ child' \in [Invocations \X Subs -> ChildRecord],
             outcome' = outcome
                 \/ outcome' \in [Invocations \X Subs -> SUBSET {"handled", "dlq", "dropped", "compensated"}],
             given' = given \/ given' \in [Invocations -> SUBSET Versions]
      PROVE  Typed'
  <2> USE <1>StaysTyped
  <2>1. /\ conf' \in Configs
        /\ log' \in Seq(Entry) /\ Len(log') <= MaxEvents
        /\ inv' \in [Invocations -> InvRecord]
        /\ journal' \in [Invocations -> JournalRecord]
        /\ child' \in [Invocations \X Subs -> ChildRecord]
        /\ outcome' \in [Invocations \X Subs -> SUBSET {"handled", "dlq", "dropped", "compensated"}]
        /\ given' \in [Invocations -> SUBSET Versions]
    BY TypedParts
  <2> QED
    BY <2>1, TypedWhenNext DEF More
\* An invocation that moves without nesting keeps who is nested.
<1>MovesTyped.
      ASSUME Typed, NEW i \in Invocations, NEW p, Moves(i, p),
             p # "nested" \/ (p = inv[i].pc /\ SameNext(i))
      PROVE  /\ inv' \in [Invocations -> InvRecord]
             /\ \A j \in Invocations : inv'[j].pc = "nested" => j \in Commands /\ inv'[j].next <= Len(Order)
  BY <1>MovesTyped DEF Moves, SameNext, Typed, More
\* The append and what is read after it.
<1>EarlyTyped.
      ASSUME Typed, NEW i \in Invocations,
             \/ Handle(i) \/ HandleRecorded(i) \/ HandleReplayed(i) \/ ReturnNoOp(i)
             \/ ReadEnvelopes(i) \/ ReadState(i)
      PROVE  Typed'
  <2> USE <1>EarlyTyped
  <2>1. CASE Handle(i)
    <3>1. /\ conf' = conf /\ journal' = journal /\ child' = child /\ outcome' = outcome /\ given' = given
      BY <2>1 DEF Handle
    <3>2. /\ Moves(i, "appended") \/ Moves(i, "failed")
          /\ "appended" # "nested" /\ "failed" # "nested"
      BY <2>1, HandleIs DEF OnlyMoves
    <3>3. log' = log \/ (log' \in Seq(Entry) /\ Len(log') <= MaxEvents)
      BY <2>1, HandleIs, LogGrows
    <3> QED
      BY <3>1, <3>2, <3>3, <1>MovesTyped, <1>StaysTyped
  <2>2. CASE HandleRecorded(i)
    <3>1. /\ conf' = conf /\ log' = log /\ child' = child /\ outcome' = outcome /\ given' = given
          /\ Goto(i, AfterAppend(inv[i].start))
      BY <2>2 DEF HandleRecorded
    <3>2. AfterAppend(inv[i].start) \in Pcs /\ AfterAppend(inv[i].start) # "nested"
      BY Names DEF AfterAppend
    <3>3. Moves(i, AfterAppend(inv[i].start))
      BY <3>1, <3>2, GotoIs DEF OnlyMoves
    <3> QED
      BY <2>2, <3>1, <3>2, <3>3, <1>MovesTyped, RecordAppendIs, <1>StaysTyped DEF Journals
  <2>3. CASE HandleReplayed(i)
    <3>1. /\ conf' = conf /\ log' = log /\ journal' = journal
          /\ child' = child /\ outcome' = outcome /\ given' = given
      BY <2>3 DEF HandleReplayed
    <3>2. Moves(i, AfterAppend(journal[i].append[1])) /\ AfterAppend(journal[i].append[1]) # "nested"
      BY <2>3, ReplayedIs DEF AfterAppend
    <3> QED
      BY <3>1, <3>2, <1>MovesTyped, <1>StaysTyped
  <2>4. CASE ReturnNoOp(i)
    <3>1. /\ conf' = conf /\ log' = log /\ journal' = journal
          /\ child' = child /\ outcome' = outcome /\ given' = given
      BY <2>4 DEF ReturnNoOp
    <3>2. Moves(i, "returned") /\ "returned" # "nested"
      BY <2>4, ReturnNoOpIs
    <3> QED
      BY <3>1, <3>2, <1>MovesTyped, <1>StaysTyped
  <2>5. CASE ReadEnvelopes(i)
    <3>1. conf' = conf /\ log' = log /\ child' = child /\ outcome' = outcome /\ given' = given
      BY <2>5 DEF ReadEnvelopes
    <3>2. Moves(i, "state") /\ "state" # "nested"
      BY <2>5, ReadEnvelopesIs
    <3> QED
      BY <2>5, <3>1, <3>2, <1>MovesTyped, RecordEnvelopesIs, <1>StaysTyped DEF Journals
  <2>6. CASE ReadState(i)
    <3>1. conf' = conf /\ log' = log /\ child' = child /\ outcome' = outcome /\ given' = given
      BY <2>6 DEF ReadState
    <3>2. Moves(i, "fanout") /\ "fanout" # "nested"
      BY <2>6, ReadStateIs
    <3> QED
      BY <2>6, <3>1, <3>2, <1>MovesTyped, RecordStateIs, <1>StaysTyped DEF Journals
  <2> QED
    BY <2>1, <2>2, <2>3, <2>4, <2>5, <2>6
\* The fan-out and its tasks.
<1>FanOutTyped.
      ASSUME Typed, NEW i \in Invocations,
             \/ SkipFiltered(i) \/ SpawnAsync(i) \/ RunAsync(i) \/ EndFanOut(i) \/ WaitAll(i)
             \/ \E s \in Subs : SyncAttempt(i, s) \/ RecordSync(i, s)
      PROVE  Typed'
  <2> USE <1>FanOutTyped
  <2>1. CASE SkipFiltered(i)
    <3>1. /\ conf' = conf /\ log' = log /\ journal' = journal
          /\ child' = child /\ outcome' = outcome /\ given' = given
          /\ inv[i].pc # "nested"
      BY <2>1 DEF SkipFiltered
    <3>2. Moves(i, inv[i].pc)
      BY <2>1, TurnIs DEF SkipFiltered
    <3> QED
      BY <3>1, <3>2, <1>MovesTyped, <1>StaysTyped
  <2>2. CASE SpawnAsync(i)
    <3>1. /\ conf' = conf /\ log' = log /\ journal' = journal /\ outcome' = outcome /\ given' = given
          /\ inv[i].pc # "nested"
      BY <2>2 DEF SpawnAsync
    <3>2. Moves(i, inv[i].pc)
      BY <2>2, TurnIs DEF SpawnAsync
    <3>3. child' = child \/ child' \in [Invocations \X Subs -> ChildRecord]
      <4>1. 0 \in 0..MaxRetries
        BY Bounds, SMTT(30), SMTT(60)
      <4>2. [st |-> "run", tries |-> 0] \in ChildRecord
        BY <4>1 DEF ChildRecord
      <4>3. child' = child \/ child' = [child EXCEPT ![<<i, Current(i)>>] = [st |-> "run", tries |-> 0]]
        BY <2>2 DEF SpawnAsync
      <4> QED
        BY <4>2, <4>3, TypedParts
    <3> QED
      BY <3>1, <3>2, <3>3, <1>MovesTyped, <1>StaysTyped
  <2>3. CASE RunAsync(i)
    <3>1. /\ conf' = conf /\ log' = log /\ journal' = journal
          /\ child' = child /\ outcome' = outcome /\ given' = given
          /\ inv[i].pc # "nested"
      BY <2>3 DEF RunAsync
    <3>2. Moves(i, inv[i].pc)
      BY <2>3, RunAsyncIs
    <3> QED
      BY <3>1, <3>2, <1>MovesTyped, <1>StaysTyped
  <2>4. CASE EndFanOut(i)
    <3>1. /\ conf' = conf /\ log' = log /\ journal' = journal
          /\ child' = child /\ outcome' = outcome /\ given' = given
          /\ Goto(i, "wait") /\ "wait" \in Pcs /\ "wait" # "nested"
      BY <2>4, Names DEF EndFanOut
    <3>2. Moves(i, "wait")
      BY <3>1, GotoIs DEF OnlyMoves
    <3> QED
      BY <3>1, <3>2, <1>MovesTyped, <1>StaysTyped
  <2>5. CASE WaitAll(i)
    <3>1. /\ conf' = conf /\ log' = log /\ journal' = journal
          /\ child' = child /\ outcome' = outcome /\ given' = given
      BY <2>5 DEF WaitAll
    <3>2. Moves(i, "apply") /\ "apply" # "nested"
      BY <2>5, WaitAllIs
    <3> QED
      BY <3>1, <3>2, <1>MovesTyped, <1>StaysTyped
  <2>6. ASSUME NEW s \in Subs, SyncAttempt(i, s) PROVE Typed'
    <3>1. /\ conf' = conf /\ log' = log /\ journal' = journal /\ child' = child
          /\ given' = [given EXCEPT ![i] = @ \cup {inv[i].state}]
      BY <2>6 DEF SyncAttempt
    <3>2. Moves(i, inv[i].pc) /\ SameNext(i)
      BY <2>6, SyncAttemptIs
    <3>3. outcome' = outcome \/ Settle(i, s, "handled")
      BY <2>6 DEF SyncAttempt
    <3>4. inv[i].state \in Versions
      BY TypedParts DEF InvRecord
    <3>5. given' \in [Invocations -> SUBSET Versions]
      BY <3>1, <3>4, TypedParts
    <3> QED
      BY <3>1, <3>2, <3>3, <3>5, <1>MovesTyped, SettleIs, <1>StaysTyped
  <2>7. ASSUME NEW s \in Subs, RecordSync(i, s) PROVE Typed'
    <3>1. conf' = conf /\ log' = log /\ child' = child /\ outcome' = outcome /\ given' = given
      BY <2>7 DEF RecordSync
    <3>2. Moves(i, inv[i].pc) /\ SameNext(i)
      BY <2>7, RecordSyncIs
    <3> QED
      BY <2>7, <3>1, <3>2, <1>MovesTyped, RecordTaskIs, <1>StaysTyped DEF Journals
  <2> QED
    BY <2>1, <2>2, <2>3, <2>4, <2>5, <2>6, <2>7
\* The policies.
<1>PolicyTyped.
      ASSUME Typed, NEW i \in Invocations,
             \/ NothingToApply(i) \/ Drop(i) \/ DeadLetter(i) \/ Return(i) \/ StepFails(i)
             \/ StartCompensation(i) \/ EndCompensation(i)
      PROVE  Typed'
  <2> USE <1>PolicyTyped
  <2>1. CASE NothingToApply(i) \/ Drop(i) \/ DeadLetter(i)
    <3>1. /\ conf' = conf /\ log' = log /\ journal' = journal /\ child' = child /\ given' = given
          /\ inv[i].pc # "nested" /\ More(i) /\ inv' = [inv EXCEPT ![i].next = @ + 1]
      BY <2>1 DEF NothingToApply, Drop, DeadLetter, Exhausted
    <3>2. Moves(i, inv[i].pc) /\ Current(i) \in Subs
      BY <3>1, TurnIs, Turn
    <3>3. outcome' = outcome \/ Settle(i, Current(i), "dropped") \/ Settle(i, Current(i), "dlq")
      BY <2>1 DEF NothingToApply, Drop, DeadLetter
    <3>4. outcome' = outcome
              \/ outcome' \in [Invocations \X Subs -> SUBSET {"handled", "dlq", "dropped", "compensated"}]
      BY <3>2, <3>3, SettleIs
    <3> QED
      BY <3>1, <3>2, <3>4, <1>MovesTyped, <1>StaysTyped
  <2>2. CASE Return(i)
    <3>1. /\ conf' = conf /\ log' = log /\ journal' = journal
          /\ child' = child /\ outcome' = outcome /\ given' = given
      BY <2>2 DEF Return
    <3>2. Moves(i, "returned") /\ "returned" # "nested"
      BY <2>2, ReturnIs
    <3> QED
      BY <3>1, <3>2, <1>MovesTyped, <1>StaysTyped
  <2>3. CASE StepFails(i)
    <3>1. /\ conf' = conf /\ log' = log /\ journal' = journal
          /\ child' = child /\ outcome' = outcome /\ given' = given
          /\ Goto(i, "failed") /\ "failed" \in Pcs /\ "failed" # "nested"
      BY <2>3, Names DEF StepFails
    <3>2. Moves(i, "failed")
      BY <3>1, GotoIs DEF OnlyMoves
    <3> QED
      BY <3>1, <3>2, <1>MovesTyped, <1>StaysTyped
  <2>4. CASE StartCompensation(i)
    <3>1. /\ conf' = conf /\ log' = log /\ journal' = journal
          /\ child' = child /\ outcome' = outcome /\ given' = given
          /\ i \in Commands /\ inv[i].next <= Len(Order)
      BY <2>4 DEF StartCompensation, Exhausted, More
    <3>2. CASE OnlyMoves(i, "failed")
      <4>1. Moves(i, "failed") /\ "failed" # "nested"
        BY <3>2 DEF OnlyMoves
      <4> QED
        BY <3>1, <4>1, <1>MovesTyped, <1>StaysTyped
    <3>3. CASE ~OnlyMoves(i, "failed")
      <4>1. PICK n : /\ inv' \in [Invocations -> InvRecord]
                     /\ \A j \in Invocations : j # i /\ j # n => inv'[j] = inv[j]
                     /\ inv'[i].next = inv[i].next /\ inv'[n].pc = "append"
        BY <2>4, <3>3, StartCompensationIs DEF SameNext
      <4>2. ASSUME NEW j \in Invocations, inv'[j].pc = "nested"
            PROVE  j \in Commands /\ inv'[j].next <= Len(Order)
        BY <3>1, <4>1, <4>2 DEF Typed, More
      <4> QED
        BY <3>1, <4>1, <4>2, <1>StaysTyped
    <3> QED
      BY <3>2, <3>3
  <2>5. CASE EndCompensation(i)
    <3>1. conf' = conf /\ log' = log /\ journal' = journal /\ child' = child /\ given' = given
      BY <2>5 DEF EndCompensation
    <3>2. /\ Moves(i, "apply") \/ Moves(i, "failed")
          /\ outcome' = outcome \/ Settle(i, Current(i), "compensated")
          /\ "apply" # "nested" /\ "failed" # "nested"
          /\ Current(i) \in Subs
      BY <2>5, EndCompensationIs, Turn DEF OnlyMoves
    <3> QED
      BY <3>1, <3>2, SettleIs, <1>MovesTyped, <1>StaysTyped
  <2> QED
    BY <2>1, <2>2, <2>3, <2>4, <2>5
\* The steps outside HandleCmd, and the faults.
<1>OtherTyped.
      ASSUME Typed,
             \/ \E c \in Commands : Call(c) \/ Retried(c)
             \/ \E i \in Invocations : AsyncStep(i)
             \/ OtherWriter \/ Crash \/ (\E k \in DOMAIN child : ChildFails(k)) \/ UNCHANGED vars
      PROVE  Typed'
  <2> USE <1>OtherTyped
  <2>0. /\ inv \in [Invocations -> InvRecord]
        /\ \A j \in Invocations : inv[j].pc = "nested" => j \in Commands /\ inv[j].next <= Len(Order)
        /\ child \in [Invocations \X Subs -> ChildRecord] /\ DOMAIN child = Invocations \X Subs
        /\ 0 \in 0..MaxRetries
    <3>1. 0 \in 0..MaxRetries
      BY Bounds, SMTT(30), SMTT(60)
    <3> QED
      BY <3>1, TypedParts DEF Typed, More
  <2>1. ASSUME NEW c \in Commands, Call(c) PROVE Typed'
    <3>1. /\ conf' = conf /\ log' = log /\ journal' = journal
          /\ child' = child /\ outcome' = outcome /\ given' = given
          /\ Goto(c, "append") /\ "append" \in Pcs /\ "append" # "nested" /\ c \in Invocations
      BY <2>1, Names, Kinds DEF Call
    <3>2. Moves(c, "append")
      BY <3>1, GotoIs DEF OnlyMoves
    <3> QED
      BY <3>1, <3>2, <1>MovesTyped, <1>StaysTyped
  <2>2. ASSUME NEW c \in Commands, Retried(c) PROVE Typed'
    <3>1. /\ conf' = conf /\ log' = log /\ journal' = journal
          /\ child' = child /\ outcome' = outcome /\ given' = given
      BY <2>2 DEF Retried
    <3>2. ASSUME NEW j \in Invocations, inv'[j].pc = "nested"
          PROVE  j \in Commands /\ inv'[j].next <= Len(Order)
      <4>1. j # c
        BY <2>2, <3>2, RetriedIs DEF Blank
      <4>2. \A s \in Subs : j # <<c, s>>
        BY <2>2, <3>2, RetriedIs DEF Blank
      <4>3. inv'[j] = inv[j]
        BY <2>2, <4>1, <4>2, RetriedIs
      <4> QED
        BY <2>0, <3>2, <4>3
    <3> QED
      BY <2>2, <3>1, <3>2, RetriedIs, <1>StaysTyped
  <2>3. ASSUME NEW i \in Invocations, NEW s \in Subs, AsyncAttempt(i, s) PROVE Typed'
    <3>1. conf' = conf /\ log' = log /\ journal' = journal /\ inv' = inv /\ given' = given
      BY <2>3 DEF AsyncAttempt
    <3>2. outcome' = outcome
              \/ outcome' \in [Invocations \X Subs -> SUBSET {"handled", "dlq", "dropped", "compensated"}]
      <4>1. CASE outcome' = outcome
        BY <4>1
      <4>2. ASSUME NEW w \in {"handled", "dlq", "dropped"}, Settle(i, s, w)
            PROVE  outcome' \in [Invocations \X Subs -> SUBSET {"handled", "dlq", "dropped", "compensated"}]
        <5>1. w \in {"handled", "dlq", "dropped", "compensated"}
          OBVIOUS
        <5> QED
          BY <4>2, <5>1, SettleIs
      <4>3. outcome' = outcome \/ \E w \in {"handled", "dlq", "dropped"} : Settle(i, s, w)
        BY <2>3, AsyncIs
      <4> QED
        BY <4>1, <4>2, <4>3
    <3> QED
      BY <2>0, <2>3, <3>1, <3>2, AsyncIs, <1>StaysTyped
  <2>4. CASE OtherWriter
    <3>1. /\ conf' = conf /\ inv' = inv /\ journal' = journal
          /\ child' = child /\ outcome' = outcome /\ given' = given
      BY <2>4 DEF OtherWriter
    <3> QED
      BY <2>0, <2>4, <3>1, OtherWriterIs, <1>StaysTyped
  <2>5. CASE Crash
    <3>1. conf' = conf /\ log' = log /\ journal' = journal /\ outcome' = outcome /\ given' = given
      BY <2>5 DEF Crash
    <3>2. child' = [k \in DOMAIN child |-> ChildAfterCrash(k)]
      BY <2>5 DEF Crash
    <3>3. ASSUME NEW k \in DOMAIN child PROVE ChildAfterCrash(k) \in ChildRecord
      BY <2>0 DEF ChildAfterCrash, ChildRecord
    <3>4. child' \in [Invocations \X Subs -> ChildRecord]
      BY <2>0, <3>2, <3>3
    <3>5. ASSUME NEW j \in Invocations, inv'[j].pc = "nested"
          PROVE  j \in Commands /\ inv'[j].next <= Len(Order)
      <4>1. j \in Commands /\ ~Running(j)
        BY <2>5, <3>5, CrashIs DEF Blank, Invocations
      <4> QED
        BY <2>0, <2>5, <3>5, <4>1, CrashIs
    <3> QED
      BY <2>5, <3>1, <3>4, <3>5, CrashIs, <1>StaysTyped
  <2>6. ASSUME NEW k \in DOMAIN child, ChildFails(k) PROVE Typed'
    <3>1. /\ conf' = conf /\ log' = log /\ journal' = journal /\ inv' = inv /\ outcome' = outcome
          /\ given' = given /\ child' = [child EXCEPT ![k] = [child[k] EXCEPT !.st = "failed"]]
      BY <2>6 DEF ChildFails
    <3>2. [child[k] EXCEPT !.st = "failed"] \in ChildRecord
      BY <2>0 DEF ChildRecord
    <3>3. child' \in [Invocations \X Subs -> ChildRecord]
      BY <2>0, <3>1, <3>2
    <3> QED
      BY <2>0, <3>1, <3>3, <1>StaysTyped
  <2>7. CASE UNCHANGED vars
    <3>1. /\ conf' = conf /\ log' = log /\ journal' = journal /\ inv' = inv /\ outcome' = outcome
          /\ given' = given /\ child' = child
      BY <2>7 DEF vars
    <3> QED
      BY <2>0, <3>1, <1>StaysTyped
  <2> QED
    BY <2>1, <2>2, <2>3, <2>4, <2>5, <2>6, <2>7 DEF AsyncStep
\* The step itself.
<1> SUFFICES ASSUME Typed, [Next]_vars PROVE Typed'
  OBVIOUS
<1> QED
  BY <1>EarlyTyped, <1>FanOutTyped, <1>PolicyTyped, <1>OtherTyped
     DEF Next, NormalStep, Fault, InvStep

-------------------------------------------------------------------------------
(* Which invocations can run *)

\* The program counters before the fan-out.
Before == {"none", "append", "appended", "noop", "envs", "state", "lost"}

\* What an invocation has not come to yet it has not done.
Fresh(i) ==
    /\ inv[i].pc \in {"none", "append", "lost"} => inv[i].start = 0 /\ inv[i].end = 0
    /\ inv[i].pc \in Before =>
          inv[i].next = 1 /\ inv[i].mutated = FALSE /\ \A s \in Subs : inv[i].task[s] = "none"
    /\ inv[i].pc \in Before \ {"state"} => inv[i].envs = {}

\* A compensation that was not started, or was wiped by a crash, is no invocation:
\* those of a command that has not come to its policies, and those of the
\* subscribers whose turn is yet to come.  One that runs is awaited by its command.
NestOK(c) ==
    /\ inv[c].pc \notin {"apply", "nested", "returned", "failed"} =>
          \A s \in Subs : inv[<<c, s>>].pc = "none"
    /\ inv[c].pc \in {"apply", "nested"} =>
          \A q \in 1..Len(Order) : q > inv[c].next => inv[<<c, Order[q]>>].pc = "none"
    /\ inv[c].pc = "apply" /\ More(c) => inv[<<c, Current(c)>>].pc = "none"
    /\ \A s \in Subs : inv[<<c, s>>].pc \notin {"none", "returned", "failed"} =>
          inv[c].pc = "nested" /\ s = Current(c)

\* The first layer above the types: which compensations can run.
NestInv == (\A i \in Invocations : Fresh(i)) /\ (\A c \in Commands : NestOK(c))

\* No other invocation is touched.
Alone(i) == inv' \in [Invocations -> InvRecord] /\ \A j \in Invocations : j # i => inv'[j] = inv[j]

\* A step on the way through HandleCmd: the program counter and the turn.
Walks(i) ==
    /\ Alone(i)
    /\ \/ inv'[i].pc = inv[i].pc /\ SameNext(i)
       \/ inv'[i].pc = inv[i].pc /\ inv[i].pc = "fanout"
       \/ inv'[i].pc = "apply" /\ inv[i].pc = "wait" /\ inv'[i].next = 1
       \/ /\ inv'[i].pc \notin {"none", "append", "lost", "apply", "nested"}
          /\ inv'[i].pc \in Before => inv[i].pc \in Before
          /\ inv[i].pc \notin {"none", "lost", "apply", "nested", "returned", "failed"}
       \/ inv'[i].pc = "apply" /\ inv[i].pc = "apply" /\ More(i) /\ inv'[i].next = inv[i].next + 1
       \/ inv'[i].pc \in {"returned", "failed"} /\ inv[i].pc = "apply"
       \/ /\ inv[i].pc = "nested" /\ i \in Commands
          /\ inv[<<i, Current(i)>>].pc = "returned" /\ inv'[i].pc = "apply" /\ inv'[i].next = inv[i].next + 1
       \/ /\ inv[i].pc = "nested" /\ i \in Commands
          /\ inv[<<i, Current(i)>>].pc = "failed" /\ inv'[i].pc = "failed"

\* The start of a compensation.
Nests(i) ==
    LET n == <<i, Current(i)>>
    IN  /\ i \in Commands /\ inv[i].pc = "apply" /\ More(i)
        /\ inv' \in [Invocations -> InvRecord]
        /\ \A j \in Invocations : j # i /\ j # n => inv'[j] = inv[j]
        /\ inv'[i].pc = "nested"
        /\ SameBatch(i) /\ SameState(i) /\ SameNext(i) /\ SameTasks(i) /\ SameMark(i)
        /\ inv'[n].pc = "append"
        /\ SameBatch(n) /\ SameState(n) /\ SameNext(n) /\ SameTasks(n) /\ SameMark(n)

\* Moves and Alone.
LEMMA MovesAlone == ASSUME NEW i, NEW p, Moves(i, p) PROVE Alone(i) /\ inv'[i].pc = p
BY DEF Moves, Alone

\* Every step of HandleCmd walks on, or starts a compensation.
LEMMA StepWalks ==
    ASSUME Typed, NEW i \in Invocations, InvStep(i) \/ StepFails(i)
    PROVE  Walks(i) \/ Nests(i)
<1>1. CASE Handle(i)
  <2>1. inv[i].pc = "append"
    BY <1>1 DEF Handle
  <2>2. Moves(i, "appended") \/ Moves(i, "failed")
    BY <1>1, HandleIs DEF OnlyMoves
  <2>3. Alone(i) /\ inv'[i].pc \in {"appended", "failed"}
    BY <2>2, MovesAlone
  <2> QED
    BY <2>1, <2>3 DEF Walks, Before
<1>2. CASE HandleRecorded(i)
  <2>1. inv[i].pc = "appended" /\ Goto(i, AfterAppend(inv[i].start))
    BY <1>2 DEF HandleRecorded
  <2>2. AfterAppend(inv[i].start) \in {"noop", "envs"} /\ AfterAppend(inv[i].start) \in Pcs
    BY Names DEF AfterAppend
  <2>3. Moves(i, AfterAppend(inv[i].start))
    BY <2>1, <2>2, GotoIs DEF OnlyMoves
  <2> QED
    BY <2>1, <2>2, <2>3, MovesAlone DEF Walks, Before
<1>3. CASE HandleReplayed(i)
  <2>1. inv[i].pc = "append"
    BY <1>3 DEF HandleReplayed
  <2>2. AfterAppend(journal[i].append[1]) \in {"noop", "envs"}
    BY DEF AfterAppend
  <2>3. Moves(i, AfterAppend(journal[i].append[1]))
    BY <1>3, ReplayedIs
  <2> QED
    BY <2>1, <2>2, <2>3, MovesAlone DEF Walks, Before
<1>4. CASE ReturnNoOp(i) \/ ReadEnvelopes(i) \/ ReadState(i)
  <2>1. inv[i].pc \in {"noop", "envs", "state"}
    BY <1>4 DEF ReturnNoOp, ReadEnvelopes, ReadState
  <2>2. Moves(i, "returned") \/ Moves(i, "state") \/ Moves(i, "fanout")
    BY <1>4, ReturnNoOpIs, ReadEnvelopesIs, ReadStateIs
  <2>3. Alone(i) /\ inv'[i].pc \in {"returned", "state", "fanout"}
    BY <2>2, MovesAlone
  <2> QED
    BY <2>1, <2>3 DEF Walks, Before
<1>5. CASE SkipFiltered(i) \/ SpawnAsync(i) \/ RunAsync(i)
  <2>1. inv[i].pc = "fanout"
    BY <1>5 DEF SkipFiltered, SpawnAsync, RunAsync
  <2>2. Moves(i, inv[i].pc)
    <3>1. CASE RunAsync(i)
      BY <3>1, RunAsyncIs
    <3>2. CASE SkipFiltered(i) \/ SpawnAsync(i)
      <4>1. More(i) /\ inv' = [inv EXCEPT ![i].next = @ + 1]
        BY <3>2 DEF SkipFiltered, SpawnAsync
      <4> QED
        BY <4>1, TurnIs
    <3> QED
      BY <1>5, <3>1, <3>2
  <2> QED
    BY <2>1, <2>2, MovesAlone DEF Walks, Before
<1>6. CASE EndFanOut(i) \/ StepFails(i)
  <2>1. CASE EndFanOut(i)
    <3>1. inv[i].pc = "fanout" /\ Goto(i, "wait") /\ "wait" \in Pcs
      BY <2>1, Names DEF EndFanOut
    <3>2. Moves(i, "wait")
      BY <3>1, GotoIs DEF OnlyMoves
    <3>3. Alone(i) /\ inv'[i].pc = "wait"
      BY <3>2, MovesAlone
    <3> QED
      BY <3>1, <3>3 DEF Walks, Before
  <2>2. CASE StepFails(i)
    <3>1. /\ inv[i].pc \in {"appended", "noop", "envs", "state", "wait", "fanout", "apply"}
          /\ Goto(i, "failed") /\ "failed" \in Pcs
      BY <2>2, Names DEF StepFails, Exhausted
    <3>2. Moves(i, "failed")
      BY <3>1, GotoIs DEF OnlyMoves
    <3>3. Alone(i) /\ inv'[i].pc = "failed"
      BY <3>2, MovesAlone
    <3> QED
      BY <3>1, <3>3 DEF Walks, Before
  <2> QED
    BY <1>6, <2>1, <2>2
<1>7. ASSUME NEW s \in Subs, SyncAttempt(i, s) \/ RecordSync(i, s) PROVE Walks(i)
  <2>1. Moves(i, inv[i].pc) /\ SameNext(i)
    BY <1>7, SyncAttemptIs, RecordSyncIs
  <2> QED
    BY <2>1, MovesAlone DEF Walks, Before
<1>8. CASE WaitAll(i)
  <2>1. inv[i].pc = "wait" /\ Moves(i, "apply") /\ inv'[i].next = 1
    BY <1>8, WaitAllIs DEF WaitAll
  <2>2. Alone(i) /\ inv'[i].pc = "apply"
    BY <2>1, MovesAlone
  <2> QED
    BY <2>1, <2>2 DEF Walks, Before
<1>9. CASE NothingToApply(i) \/ Drop(i) \/ DeadLetter(i)
  <2>1. inv[i].pc = "apply" /\ More(i) /\ inv' = [inv EXCEPT ![i].next = @ + 1]
    BY <1>9 DEF NothingToApply, Drop, DeadLetter, Exhausted
  <2>2. Moves(i, inv[i].pc) /\ inv'[i].next = inv[i].next + 1
    BY <2>1, TurnIs
  <2> QED
    BY <2>1, <2>2, MovesAlone DEF Walks, Before
<1>10. CASE StartCompensation(i)
  <2>1. i \in Commands /\ inv[i].pc = "apply" /\ More(i)
    BY <1>10 DEF StartCompensation, Exhausted
  <2>2. CASE OnlyMoves(i, "failed")
    BY <2>1, <2>2, MovesAlone DEF Walks, OnlyMoves
  <2>3. CASE ~OnlyMoves(i, "failed")
    BY <1>10, <2>1, <2>3, StartCompensationIs DEF Nests
  <2> QED
    BY <2>2, <2>3
<1>11. CASE EndCompensation(i)
  <2>1. i \in Commands /\ inv[i].pc = "nested"
    BY <1>11 DEF EndCompensation
  <2>2. CASE OnlyMoves(i, "failed") /\ inv[<<i, Current(i)>>].pc = "failed"
    BY <2>1, <2>2, MovesAlone DEF Walks, OnlyMoves
  <2>3. CASE /\ Moves(i, "apply") /\ inv[<<i, Current(i)>>].pc = "returned"
             /\ inv'[i].next = inv[i].next + 1
    BY <2>1, <2>3, MovesAlone DEF Walks, Before
  <2> QED
    BY <1>11, <2>2, <2>3, EndCompensationIs
<1>12. CASE Return(i)
  <2>1. inv[i].pc = "apply" /\ Moves(i, "returned")
    BY <1>12, ReturnIs DEF Return
  <2> QED
    BY <2>1, MovesAlone DEF Walks, Before
<1> QED
  BY <1>1, <1>2, <1>3, <1>4, <1>5, <1>6, <1>7, <1>8, <1>9, <1>10, <1>11, <1>12 DEF InvStep

\* Compensations of different commands or subscribers are different.
LEMMA Apart ==
    ASSUME NEW c, NEW d, NEW s, NEW t
    PROVE  <<c, s>> = <<d, t>> => c = d /\ s = t
OBVIOUS

\* Every step keeps it.
LEMMA NextNest == Typed /\ NestInv /\ [Next]_vars => NestInv'
\* The invocations of one command: its own and its compensations.
<1>OfCommand.
      ASSUME NEW i \in Invocations, NEW c \in Commands
      PROVE  i = c \/ (\E s \in Subs : i = <<c, s>>) \/ (i # c /\ \A s \in Subs : i # <<c, s>>)
  OBVIOUS
\* NestOK depends on program counters and turns only.
<1>NestSame.
      ASSUME Typed, NEW c \in Commands, NestOK(c), inv'[c].pc = inv[c].pc, SameNext(c),
             \A s \in Subs : inv'[<<c, s>>].pc = inv[<<c, s>>].pc
      PROVE  NestOK(c)'
  <2> USE <1>NestSame
  <2>1. ASSUME NEW q \in 1..Len(Order) PROVE inv'[<<c, Order[q]>>].pc = inv[<<c, Order[q]>>].pc
    BY Places
  <2>2. (More(c)' => More(c)) /\ Current(c)' = Current(c)
    BY DEF More, Current, SameNext
  <2>3. ASSUME inv'[c].pc = "apply", More(c)' PROVE inv'[<<c, Current(c)'>>].pc = "none"
    <3>1. inv[<<c, Current(c)>>].pc = "none"
      BY <2>2, <2>3 DEF NestOK
    <3>2. inv[<<c, Current(c)>>].pc = inv'[<<c, Current(c)>>].pc
      BY <2>2, <2>3, Kinds, Turn
    <3> QED
      BY <2>2, <3>1, <3>2
  <2> QED
    BY <2>1, <2>2, <2>3 DEF NestOK, SameNext
\* A compensation walks only while its command awaits it.
<1>NestChild.
      ASSUME Typed, NEW c \in Commands, NEW s \in Subs, NestOK(c), inv'[c] = inv[c],
             \A t \in Subs : t # s => inv'[<<c, t>>] = inv[<<c, t>>],
             inv[<<c, s>>].pc \notin {"none", "returned", "failed"}
      PROVE  NestOK(c)'
  <2> USE <1>NestChild
  <2>1. inv[c].pc = "nested" /\ s = Current(c) /\ inv[c].next \in 1..Len(Order)
    <3>1. inv[c].pc = "nested" /\ s = Current(c)
      BY DEF NestOK
    <3>2. c \in Invocations /\ More(c)
      BY <3>1, Kinds DEF Typed
    <3> QED
      BY <3>1, <3>2, Turn
  <2>2. ASSUME NEW q \in 1..Len(Order), q > inv[c].next PROVE Order[q] \in Subs /\ Order[q] # s
    <3>1. q # inv[c].next
      BY <2>1, <2>2, SMTT(30), SMTT(60)
    <3> QED
      BY <2>1, <3>1, Places DEF Current
  <2>3. Current(c)' = Current(c)
    BY DEF Current
  <2> QED
    BY <2>1, <2>2, <2>3 DEF NestOK
\* A step of a command itself.
<1>NestOwn.
      ASSUME Typed, NEW c \in Commands, NestOK(c), Walks(c)
      PROVE  NestOK(c)'
  <2> USE <1>NestOwn
  <2>0. c \in Invocations /\ \A s \in Subs : inv'[<<c, s>>] = inv[<<c, s>>]
    BY Kinds DEF Walks, Alone
  <2>1. CASE inv'[c].pc = inv[c].pc /\ SameNext(c)
    BY <2>0, <2>1, <1>NestSame
  <2>2. CASE inv[c].pc \notin {"apply", "nested", "returned", "failed"}
    <3>1. \A s \in Subs : inv'[<<c, s>>].pc = "none"
      BY <2>0, <2>2 DEF NestOK
    <3>2. \A q \in 1..Len(Order) : inv'[<<c, Order[q]>>].pc = "none"
      BY <3>1, Places
    <3>3. ASSUME inv'[c].pc = "apply", More(c)' PROVE inv'[<<c, Current(c)'>>].pc = "none"
      <4>1. inv'[c].next = 1
        BY <2>2, <3>3 DEF Walks
      <4>2. 1 \in 1..Len(Order)
        BY <3>3, <4>1, Bounds, SMTT(30), SMTT(60) DEF More
      <4> QED
        BY <3>2, <4>1, <4>2 DEF Current
    <3> QED
      BY <3>1, <3>2, <3>3 DEF NestOK
  <2>3. CASE inv[c].pc = "apply" /\ inv'[c].pc \in {"returned", "failed"}
    BY <2>0, <2>3 DEF NestOK
  <2>4. CASE /\ inv'[c].pc = "apply" /\ inv'[c].next = inv[c].next + 1
             /\ \/ inv[c].pc = "apply" /\ More(c)
                \/ inv[c].pc = "nested" /\ inv[<<c, Current(c)>>].pc = "returned"
    <3>1. More(c) /\ inv[c].next \in 1..Len(Order)
      BY <2>0, <2>4, Turn DEF Typed
    <3>2. ASSUME NEW q \in 1..Len(Order), q > inv[c].next PROVE inv'[<<c, Order[q]>>].pc = "none"
      BY <2>0, <2>4, <3>2, Places DEF NestOK
    <3>3. ASSUME NEW q \in 1..Len(Order), q > inv'[c].next PROVE q > inv[c].next
      BY <2>4, <3>1, <3>3, SMTT(30), SMTT(60)
    <3>4. ASSUME More(c)' PROVE inv'[c].next \in 1..Len(Order) /\ inv'[c].next > inv[c].next
      BY <2>4, <3>1, <3>4, SMTT(30), SMTT(60) DEF More
    <3>5. ASSUME NEW s \in Subs PROVE inv'[<<c, s>>].pc \in {"none", "returned", "failed"}
      BY <2>0, <2>4 DEF NestOK
    <3>6. ASSUME More(c)' PROVE inv'[<<c, Current(c)'>>].pc = "none"
      BY <3>2, <3>4, <3>6 DEF Current
    <3> QED
      BY <2>4, <3>2, <3>3, <3>5, <3>6 DEF NestOK
  <2>5. CASE inv[c].pc = "nested" /\ inv[<<c, Current(c)>>].pc = "failed" /\ inv'[c].pc = "failed"
    BY <2>0, <2>5 DEF NestOK
  <2> QED
    BY <2>1, <2>2, <2>3, <2>4, <2>5 DEF Walks
\* No step of HandleCmd breaks NestOK.
<1>NestWalks.
      ASSUME Typed, NEW i \in Invocations, NEW c \in Commands, NestOK(c), Walks(i) \/ Nests(i)
      PROVE  NestOK(c)'
  <2> USE <1>NestWalks
  <2>1. CASE Walks(i)
    <3>1. CASE i = c
      BY <2>1, <3>1, <1>NestOwn
    <3>2. ASSUME NEW s \in Subs, i = <<c, s>> PROVE NestOK(c)'
      <4>1. inv'[c] = inv[c] /\ i \notin Commands
        BY <2>1, <3>2, Kinds DEF Walks, Alone
      <4>2. \A t \in Subs : t # s => inv'[<<c, t>>] = inv[<<c, t>>]
        BY <2>1, <3>2, Kinds, Apart DEF Walks, Alone
      <4>3. CASE inv[i].pc \notin {"none", "returned", "failed"}
        BY <3>2, <4>1, <4>2, <4>3, <1>NestChild
      <4>4. CASE inv[i].pc \in {"none", "returned", "failed"}
        <5>1. inv'[i].pc = inv[i].pc
          BY <2>1, <4>1, <4>4 DEF Walks
        <5> QED
          BY <3>2, <4>1, <4>2, <5>1, <1>NestSame DEF SameNext
      <4> QED
        BY <4>3, <4>4
    <3>3. CASE i # c /\ \A s \in Subs : i # <<c, s>>
      <4>1. inv'[c] = inv[c] /\ \A s \in Subs : inv'[<<c, s>>] = inv[<<c, s>>]
        BY <2>1, <3>3, Kinds DEF Walks, Alone
      <4> QED
        BY <4>1, <1>NestSame DEF SameNext
    <3> QED
      BY <3>1, <3>2, <3>3, <1>OfCommand
  <2>2. CASE Nests(i)
    <3> DEFINE n == <<i, Current(i)>>
    <3>0. /\ i \in Commands /\ inv[i].pc = "apply" /\ More(i) /\ inv'[i].pc = "nested"
          /\ SameNext(i) /\ inv'[n].pc = "append" /\ Current(i) \in Subs
          /\ \A j \in Invocations : j # i /\ j # n => inv'[j] = inv[j]
      BY <2>2, Turn DEF Nests
    <3>1. CASE i = c
      <4>1. ASSUME NEW s \in Subs, s # Current(c) PROVE inv'[<<c, s>>] = inv[<<c, s>>]
        BY <3>0, <3>1, <4>1, Kinds, Apart
      <4>2. inv[c].next \in 1..Len(Order) /\ Current(c)' = Current(c)
        BY <3>0, <3>1, Turn DEF Current, SameNext
      <4>3. ASSUME NEW q \in 1..Len(Order), q > inv[c].next PROVE Order[q] \in Subs /\ Order[q] # Current(c)
        <5>1. q # inv[c].next
          BY <4>2, <4>3, SMTT(30), SMTT(60)
        <5> QED
          BY <4>2, <5>1, Places DEF Current
      <4>4. ASSUME NEW q \in 1..Len(Order), q > inv[c].next PROVE inv'[<<c, Order[q]>>].pc = "none"
        BY <3>0, <3>1, <4>1, <4>3, <4>4 DEF NestOK
      <4>5. ASSUME NEW s \in Subs, inv'[<<c, s>>].pc \notin {"none", "returned", "failed"}
            PROVE  s = Current(c)
        BY <3>0, <3>1, <4>1, <4>5 DEF NestOK
      <4> QED
        BY <3>0, <3>1, <4>2, <4>4, <4>5 DEF NestOK, SameNext
    <3>2. CASE i # c
      <4>1. inv'[c] = inv[c]
        BY <3>0, <3>2, Kinds
      <4>2. ASSUME NEW s \in Subs PROVE inv'[<<c, s>>] = inv[<<c, s>>]
        <5>1. <<c, s>> # n
          BY <3>2, Apart
        <5>2. <<c, s>> \in Invocations /\ <<c, s>> # i
          BY <3>0, Kinds
        <5> HIDE DEF n
        <5> QED
          BY <3>0, <5>1, <5>2
      <4> QED
        BY <4>1, <4>2, <1>NestSame DEF SameNext
    <3> QED
      BY <3>1, <3>2
  <2> QED
    BY <2>1, <2>2
\* Fresh after a step that reaches the fan-out or ends.
<1>FreshAfter.
      ASSUME NEW i, NEW p, Moves(i, p), p \notin Before
      PROVE  Fresh(i)'
  BY <1>FreshAfter DEF Fresh, Moves, Before
\* Fresh after a step that keeps what is not there yet.
<1>FreshKept.
      ASSUME NEW i, Fresh(i), inv[i].pc \in Before \ {"state"}, inv'[i].pc \in {"appended", "noop", "envs", "state"},
             inv'[i].envs = inv[i].envs \/ inv'[i].pc = "state", SameNext(i), SameTasks(i), SameMark(i)
      PROVE  Fresh(i)'
  BY <1>FreshKept DEF Fresh, Before, SameNext, SameTasks, SameMark
\* The steps of HandleCmd keep Fresh.
<1>FreshStep.
      ASSUME Typed, NEW i \in Invocations, Fresh(i), InvStep(i) \/ StepFails(i)
      PROVE  Fresh(i)'
  <2> USE <1>FreshStep
  <2>1. CASE Handle(i)
    <3>1. inv[i].pc = "append" /\ inv[i].pc \in Before \ {"state"}
      BY <2>1 DEF Handle, Before
    <3>2. CASE Moves(i, "appended") /\ inv'[i].envs = inv[i].envs /\ SameNext(i) /\ SameTasks(i) /\ SameMark(i)
      BY <3>1, <3>2, <1>FreshKept DEF Moves
    <3>3. CASE Moves(i, "failed")
      <4>1. "failed" \notin Before
        BY DEF Before
      <4> QED
        BY <3>3, <4>1, <1>FreshAfter
    <3> QED
      BY <2>1, <3>2, <3>3, HandleIs DEF OnlyMoves, SameBatch
  <2>2. CASE HandleRecorded(i)
    <3>1. /\ inv[i].pc = "appended" /\ Goto(i, AfterAppend(inv[i].start))
          /\ inv[i].pc \in Before \ {"state"}
      BY <2>2 DEF HandleRecorded, Before
    <3>2. AfterAppend(inv[i].start) \in {"noop", "envs"} /\ AfterAppend(inv[i].start) \in Pcs
      BY Names DEF AfterAppend
    <3>3. OnlyMoves(i, AfterAppend(inv[i].start))
      BY <3>1, <3>2, GotoIs
    <3>4. /\ inv'[i].pc = AfterAppend(inv[i].start) /\ inv'[i].envs = inv[i].envs
          /\ SameNext(i) /\ SameTasks(i) /\ SameMark(i)
      BY <3>3 DEF OnlyMoves, Moves, SameBatch
    <3> QED
      BY <3>1, <3>2, <3>4, <1>FreshKept
  <2>3. CASE HandleReplayed(i)
    <3>1. inv[i].pc = "append" /\ inv[i].pc \in Before \ {"state"}
      BY <2>3 DEF HandleReplayed, Before
    <3>2. AfterAppend(journal[i].append[1]) \in {"noop", "envs"}
      BY DEF AfterAppend
    <3>3. /\ inv'[i].pc = AfterAppend(journal[i].append[1]) /\ inv'[i].envs = inv[i].envs
          /\ SameNext(i) /\ SameTasks(i) /\ SameMark(i)
      BY <2>3, ReplayedIs DEF Moves
    <3> QED
      BY <3>1, <3>2, <3>3, <1>FreshKept
  <2>4. CASE ReadEnvelopes(i)
    <3>1. inv[i].pc = "envs" /\ inv[i].pc \in Before \ {"state"}
      BY <2>4 DEF ReadEnvelopes, Before
    <3>2. inv'[i].pc = "state" /\ SameNext(i) /\ SameTasks(i) /\ SameMark(i)
      BY <2>4, ReadEnvelopesIs DEF Moves
    <3> QED
      BY <3>1, <3>2, <1>FreshKept
  <2>5. ASSUME NEW s \in Subs, SyncAttempt(i, s) \/ RecordSync(i, s) PROVE Fresh(i)'
    <3>1. inv[i].task[s] # "none"
      BY <2>5 DEF SyncAttempt, RecordSync
    <3>2. inv[i].pc \notin Before
      BY <3>1 DEF Fresh
    <3>3. Moves(i, inv[i].pc)
      BY <2>5, SyncAttemptIs, RecordSyncIs
    <3> QED
      BY <3>2, <3>3, <1>FreshAfter
  <2>6. CASE \/ ReturnNoOp(i) \/ ReadState(i) \/ SkipFiltered(i) \/ SpawnAsync(i) \/ RunAsync(i)
             \/ EndFanOut(i) \/ WaitAll(i) \/ NothingToApply(i) \/ Drop(i) \/ DeadLetter(i)
             \/ StartCompensation(i) \/ EndCompensation(i) \/ Return(i) \/ StepFails(i)
    <3>1. \A p \in {"returned", "fanout", "wait", "apply", "nested", "failed"} : p \in Pcs /\ p \notin Before
      BY Names DEF Before
    <3>2. ASSUME NEW p \in {"returned", "fanout", "wait", "apply", "nested", "failed"}, Moves(i, p)
          PROVE  Fresh(i)'
      BY <3>1, <3>2, <1>FreshAfter
    <3>3. CASE ReturnNoOp(i) \/ ReadState(i) \/ WaitAll(i) \/ Return(i)
      BY <3>2, <3>3, ReturnNoOpIs, ReadStateIs, WaitAllIs, ReturnIs
    <3>4. CASE EndFanOut(i) \/ StepFails(i)
      <4>1. Goto(i, "wait") \/ Goto(i, "failed")
        BY <3>4 DEF EndFanOut, StepFails
      <4>2. Moves(i, "wait") \/ Moves(i, "failed")
        BY <3>1, <4>1, GotoIs DEF OnlyMoves
      <4> QED
        BY <3>2, <4>2
    <3>5. CASE SkipFiltered(i) \/ SpawnAsync(i) \/ RunAsync(i) \/ NothingToApply(i) \/ Drop(i) \/ DeadLetter(i)
      <4>1. /\ inv[i].pc = "fanout" \/ inv[i].pc = "apply"
            /\ More(i)
            /\ RunAsync(i) \/ inv' = [inv EXCEPT ![i].next = @ + 1]
        BY <3>5 DEF SkipFiltered, SpawnAsync, RunAsync, NothingToApply, Drop, DeadLetter, Exhausted
      <4>2. Moves(i, inv[i].pc)
        BY <4>1, TurnIs, RunAsyncIs
      <4> QED
        BY <3>2, <4>1, <4>2
    <3>6. CASE StartCompensation(i)
      <4>1. inv'[i].pc = "nested" \/ Moves(i, "failed")
        BY <3>6, StartCompensationIs DEF OnlyMoves
      <4>2. ASSUME inv'[i].pc = "nested" PROVE Fresh(i)'
        BY <4>2 DEF Fresh, Before
      <4> QED
        BY <3>2, <4>1, <4>2
    <3>7. CASE EndCompensation(i)
      <4>1. Moves(i, "apply") \/ Moves(i, "failed")
        BY <3>7, EndCompensationIs DEF OnlyMoves
      <4> QED
        BY <3>2, <4>1
    <3> QED
      BY <2>6, <3>3, <3>4, <3>5, <3>6, <3>7
  <2> QED
    BY <2>1, <2>2, <2>3, <2>4, <2>5, <2>6 DEF InvStep
\* What did not change is as fresh as before.
<1>FreshSame.
      ASSUME NEW i, Fresh(i), inv'[i] = inv[i] PROVE Fresh(i)'
  BY <1>FreshSame DEF Fresh
\* An invocation that starts over is fresh.
<1>FreshBlank.
      ASSUME NEW i, NEW p, Blank(i, p) PROVE Fresh(i)'
  BY <1>FreshBlank DEF Fresh, Blank
\* A step of HandleCmd keeps all of NestInv.
<1>NestInvStep.
      ASSUME Typed, NestInv, NEW i \in Invocations, InvStep(i) \/ StepFails(i)
      PROVE  NestInv'
  <2> USE <1>NestInvStep
  <2>1. Walks(i) \/ Nests(i)
    BY StepWalks
  <2>2. \A c \in Commands : NestOK(c)'
    BY <2>1, <1>NestWalks DEF NestInv
  <2>3. ASSUME NEW j \in Invocations PROVE Fresh(j)'
    <3>0. Fresh(i) /\ Fresh(j)
      BY DEF NestInv
    <3>1. CASE j = i
      BY <3>0, <3>1, <1>FreshStep
    <3>2. CASE j # i /\ inv'[j] = inv[j]
      BY <3>0, <3>2, <1>FreshSame
    <3>3. CASE Nests(i) /\ j = <<i, Current(i)>>
      <4>1. inv[j].pc = "none" /\ inv'[j].pc = "append" /\ SameBatch(j) /\ SameNext(j) /\ SameTasks(j) /\ SameMark(j)
        BY <3>3 DEF Nests, NestInv, NestOK
      <4> QED
        BY <3>0, <4>1 DEF Fresh, Before, SameBatch, SameNext, SameTasks, SameMark
    <3> QED
      BY <2>1, <3>1, <3>2, <3>3 DEF Walks, Alone, Nests
  <2> QED
    BY <2>2, <2>3 DEF NestInv
\* The other steps keep it.
<1>NestInvOther.
      ASSUME Typed, NestInv,
             \/ \E c \in Commands : Call(c) \/ Retried(c)
             \/ Crash \/ inv' = inv
      PROVE  NestInv'
  <2> USE <1>NestInvOther
  <2>1. ASSUME NEW c \in Commands, Call(c) PROVE NestInv'
    <3>1. Goto(c, "append") /\ "append" \in Pcs /\ c \in Invocations /\ inv[c].pc = "none"
      BY <2>1, Names, Kinds DEF Call
    <3>2. OnlyMoves(c, "append")
      BY <3>1, GotoIs
    <3>3. ASSUME NEW j \in Invocations PROVE Fresh(j)'
      <4>1. CASE j # c
        BY <3>2, <4>1, <1>FreshSame DEF OnlyMoves, Moves, NestInv
      <4>2. CASE j = c
        <5>1. Fresh(c)
          BY <3>1 DEF NestInv
        <5> QED
          BY <3>1, <3>2, <4>2, <5>1
             DEF Fresh, Before, OnlyMoves, Moves, SameBatch, SameNext, SameTasks, SameMark
      <4> QED
        BY <4>1, <4>2
    <3>4. ASSUME NEW d \in Commands PROVE NestOK(d)'
      <4>0. NestOK(d) /\ \A s \in Subs : inv'[<<d, s>>] = inv[<<d, s>>]
        BY <3>2, Kinds DEF NestInv, OnlyMoves, Moves
      <4>1. CASE d = c
        BY <3>1, <3>2, <4>0, <4>1 DEF NestOK, OnlyMoves, Moves
      <4>2. CASE d # c
        <5>1. inv'[d] = inv[d]
          BY <3>2, <4>2, Kinds DEF OnlyMoves, Moves
        <5> QED
          BY <4>0, <5>1, <1>NestSame DEF SameNext
      <4> QED
        BY <4>1, <4>2
    <3> QED
      BY <3>3, <3>4 DEF NestInv
  <2>2. ASSUME NEW c \in Commands, Retried(c) PROVE NestInv'
    <3>1. /\ Blank(c, "append") /\ \A s \in Subs : Blank(<<c, s>>, "none")
          /\ \A i \in Invocations : i # c /\ (\A s \in Subs : i # <<c, s>>) => inv'[i] = inv[i]
      BY <2>2, RetriedIs
    <3>2. ASSUME NEW j \in Invocations PROVE Fresh(j)'
      <4>1. CASE j = c
        BY <3>1, <4>1, <1>FreshBlank
      <4>2. ASSUME NEW s \in Subs, j = <<c, s>> PROVE Fresh(j)'
        BY <3>1, <4>2, <1>FreshBlank
      <4>3. CASE inv'[j] = inv[j]
        BY <4>3, <1>FreshSame DEF NestInv
      <4> QED
        BY <3>1, <4>1, <4>2, <4>3
    <3>3. ASSUME NEW d \in Commands PROVE NestOK(d)'
      <4>1. CASE d = c
        BY <3>1, <4>1 DEF NestOK, Blank
      <4>2. CASE d # c
        <5>1. inv'[d] = inv[d]
          BY <3>1, <4>2, Kinds
        <5>2. ASSUME NEW s \in Subs PROVE inv'[<<d, s>>] = inv[<<d, s>>]
          <6>1. \A t \in Subs : <<d, s>> # <<c, t>>
            BY <4>2, Apart
          <6>2. <<d, s>> \in Invocations /\ <<d, s>> # c
            BY Kinds
          <6> QED
            BY <3>1, <6>1, <6>2
        <5> QED
          BY <5>1, <5>2, <1>NestSame DEF SameNext, NestInv
      <4> QED
        BY <4>1, <4>2
    <3> QED
      BY <3>2, <3>3 DEF NestInv
  <2>3. CASE Crash
    <3>1. ASSUME NEW j \in Invocations PROVE Fresh(j)'
      <4>1. CASE j \in Nested
        BY <2>3, <4>1, CrashIs, <1>FreshBlank
      <4>2. CASE j \in Commands /\ Running(j)
        BY <2>3, <4>2, CrashIs, <1>FreshBlank
      <4>3. CASE j \in Commands /\ ~Running(j)
        BY <2>3, <4>3, CrashIs, <1>FreshSame DEF NestInv
      <4> QED
        BY <4>1, <4>2, <4>3 DEF Invocations
    <3>2. ASSUME NEW c \in Commands PROVE NestOK(c)'
      <4>1. \A s \in Subs : inv'[<<c, s>>].pc = "none"
        BY <2>3, CrashIs, Kinds DEF Blank
      <4>2. inv'[c].pc \notin {"apply", "nested"}
        BY <2>3, CrashIs DEF Running, Blank
      <4> QED
        BY <4>1, <4>2 DEF NestOK
    <3> QED
      BY <3>1, <3>2 DEF NestInv
  <2>4. CASE inv' = inv
    BY <2>4, <1>FreshSame, <1>NestSame DEF NestInv, SameNext
  <2> QED
    BY <2>1, <2>2, <2>3, <2>4
\* The step itself.
<1> SUFFICES ASSUME Typed, NestInv, [Next]_vars PROVE NestInv'
  OBVIOUS
<1>1. CASE \E i \in Invocations : InvStep(i) \/ StepFails(i)
  BY <1>1, <1>NestInvStep
<1>2. CASE \/ OtherWriter \/ (\E i \in Invocations : AsyncStep(i))
           \/ (\E k \in DOMAIN child : ChildFails(k)) \/ UNCHANGED vars
  <2>1. inv' = inv
    BY <1>2 DEF OtherWriter, AsyncStep, AsyncAttempt, ChildFails, vars
  <2> QED
    BY <2>1, <1>NestInvOther
<1>3. CASE (\E c \in Commands : Call(c) \/ Retried(c)) \/ Crash
  BY <1>3, <1>NestInvOther
<1> QED
  BY <1>1, <1>2, <1>3 DEF Next, NormalStep, Fault

\* No compensation runs in the initial state.
LEMMA InitNest == ASSUME Init PROVE NestInv
<1>1. ASSUME NEW i \in Invocations
      PROVE  /\ inv[i].pc = "none" /\ inv[i].start = 0 /\ inv[i].end = 0 /\ inv[i].envs = {}
             /\ inv[i].next = 1 /\ inv[i].mutated = FALSE /\ \A s \in Subs : inv[i].task[s] = "none"
  BY DEF Init, NoInv
<1>2. \A i \in Invocations : Fresh(i)
  BY <1>1 DEF Fresh
<1>3. \A c \in Commands : NestOK(c)
  BY <1>1, Kinds DEF NestOK
<1> QED
  BY <1>2, <1>3 DEF NestInv

-------------------------------------------------------------------------------
(* The batch of an invocation *)

\* Versions a..b are one append of invocation i.
Own(a, b, i) ==
    /\ 0 < a /\ b = a + Len(TypesOf(i)) - 1 /\ b <= Len(log)
    /\ \A v \in a..b : log[v].inv = i

\* The range a..b is of no event, or of the batch that i appended.
NothingOrOwn(a, b, i) == (a = 0 /\ b = 0) \/ Own(a, b, i)
\* The envelopes e are none, or those of the batch that i appended.
OwnBatch(e, i) == e = {} \/ \E a, b \in Versions : e = a..b /\ Own(a, b, i)

\* What an invocation and its journal know of the append.
AppendOK(i) ==
    /\ journal[i].append # <<>> => NothingOrOwn(journal[i].append[1], journal[i].append[2], i)
    /\ inv[i].pc = "appended" => NothingOrOwn(inv[i].start, inv[i].end, i)
    /\ inv[i].pc = "envs" => Own(inv[i].start, inv[i].end, i)
    /\ OwnBatch(inv[i].envs, i)
    /\ OwnBatch(journal[i].envs, i)

\* The second layer: what an invocation and its journal know of its append.
AppendInv == \A i \in Invocations : AppendOK(i)

\* The stream keeps what it has.
Grows ==
    /\ Len(log') \in Nat /\ Len(log) <= Len(log')
    /\ \A v \in 1..Len(log) : log'[v] = log[v]

\* The stream only grows.
LEMMA LogKept == ASSUME Typed, [Next]_vars PROVE Grows
<1>0. Len(log) \in Nat
  BY LogLength
<1>1. CASE log' = log
  <2>1. Len(log) <= Len(log)
    BY <1>0, SMTT(30), SMTT(60)
  <2> QED
    BY <1>0, <1>1, <2>1 DEF Grows
<1>2. ASSUME NEW i \in Invocations, Appends(i) PROVE Grows
  <2>1. Len(log') = Len(log) + Len(TypesOf(i)) /\ \A v \in 1..Len(log) : log'[v] = log[v]
    BY <1>2, LogGrows
  <2>2. Len(TypesOf(i)) \in Nat
    BY Bounds
  <2>3. Len(log') \in Nat /\ Len(log) <= Len(log')
    BY <1>0, <2>1, <2>2, SMTT(30), SMTT(60)
  <2> QED
    BY <2>1, <2>3 DEF Grows
<1>3. CASE OtherWriter
  <2>1. Len(log') = Len(log) + 1 /\ \A v \in 1..Len(log) : log'[v] = log[v]
    BY <1>3, OtherWriterIs
  <2>2. Len(log') \in Nat /\ Len(log) <= Len(log')
    BY <1>0, <2>1, SMTT(30), SMTT(60)
  <2> QED
    BY <2>1, <2>2 DEF Grows
<1>4. ASSUME NEW i \in Invocations, InvStep(i), ~Handle(i) PROVE log' = log
  BY <1>4 DEF InvStep, HandleRecorded, HandleReplayed, ReturnNoOp, ReadEnvelopes, ReadState,
     SkipFiltered, SpawnAsync, RunAsync, EndFanOut, SyncAttempt, RecordSync, WaitAll, NothingToApply,
     Drop, DeadLetter, StartCompensation, EndCompensation, Return
<1>5. ASSUME NEW i \in Invocations, Handle(i) PROVE Grows
  BY <1>1, <1>2, <1>5, HandleIs
<1>6. CASE \/ \E c \in Commands : Call(c) \/ Retried(c)
           \/ \E i \in Invocations : AsyncStep(i) \/ StepFails(i)
           \/ Crash \/ (\E k \in DOMAIN child : ChildFails(k)) \/ UNCHANGED vars
  <2>1. log' = log
    BY <1>6 DEF Call, Retried, AsyncStep, AsyncAttempt, StepFails, Crash, ChildFails, vars
  <2> QED
    BY <1>1, <2>1
<1> QED
  BY <1>1, <1>3, <1>4, <1>5, <1>6 DEF Next, NormalStep, Fault

\* A step that leaves alone what i knows of its append, or forgets it.
Quiet(i) ==
    /\ journal'[i].append = journal[i].append
    /\ journal'[i].envs = journal[i].envs
    /\ inv'[i].envs = inv[i].envs \/ inv'[i].envs = {}
    /\ \/ inv'[i].pc = inv[i].pc /\ inv'[i].start = inv[i].start /\ inv'[i].end = inv[i].end
       \/ inv'[i].pc \notin {"appended", "envs"}

-------------------------------------------------------------------------------
(* What becomes of an invocation in a step of the bus *)

\* Nothing.
Rests(j) == inv'[j] = inv[j] /\ journal'[j] = journal[j] /\ given'[j] = given[j]

\* It is called, or started as a compensation by its command.
Begins(j) ==
    /\ inv[j].pc = "none" /\ inv'[j].pc = "append"
    /\ SameBatch(j) /\ SameState(j) /\ SameNext(j) /\ SameTasks(j) /\ SameMark(j)
    /\ journal'[j] = journal[j] /\ given'[j] = given[j]
    /\ j \in Commands \/ \E c \in Commands : \E s \in Subs : j = <<c, s>> /\ inv[c].pc = "apply"

\* The process that ran it dies, or its command is run again.
Restarts(j) ==
    \/ Crash
    \/ \E c \in Commands : Retried(c) /\ (j = c \/ \E s \in Subs : j = <<c, s>>)

\* It takes a step of HandleCmd.
Acts(j) == InvStep(j) \/ StepFails(j)

\* A step of HandleCmd leaves the journals and the subscribers of others alone.
LEMMA ActsLocal ==
    ASSUME Typed, NEW i \in Invocations, Acts(i)
    PROVE  \A j \in Invocations : j # i => journal'[j] = journal[j] /\ given'[j] = given[j]
<1>1. journal' = journal \/ Journals(i)
  <2>1. CASE HandleRecorded(i) \/ ReadEnvelopes(i) \/ ReadState(i) \/ \E s \in Subs : RecordSync(i, s)
    BY <2>1, RecordAppendIs, RecordEnvelopesIs, RecordStateIs, RecordTaskIs
  <2>2. CASE ~(HandleRecorded(i) \/ ReadEnvelopes(i) \/ ReadState(i) \/ \E s \in Subs : RecordSync(i, s))
    BY <2>2 DEF Acts, InvStep, Handle, HandleReplayed, ReturnNoOp, SkipFiltered, SpawnAsync, RunAsync,
       EndFanOut, SyncAttempt, WaitAll, NothingToApply, Drop, DeadLetter, StartCompensation,
       EndCompensation, Return, StepFails
  <2> QED
    BY <2>1, <2>2
<1>2. given' = given \/ \E s \in Subs : SyncAttempt(i, s)
  BY DEF Acts, InvStep, Handle, HandleRecorded, HandleReplayed, ReturnNoOp, ReadEnvelopes, ReadState,
     SkipFiltered, SpawnAsync, RunAsync, EndFanOut, RecordSync, WaitAll, NothingToApply, Drop, DeadLetter,
     StartCompensation, EndCompensation, Return, StepFails
<1>3. ASSUME NEW s \in Subs, SyncAttempt(i, s), NEW j \in Invocations, j # i PROVE given'[j] = given[j]
  BY <1>3, TypedParts DEF SyncAttempt
<1> QED
  BY <1>1, <1>2, <1>3 DEF Journals

\* One of these is its fate.
LEMMA Fate ==
    ASSUME Typed, NestInv, NEW j \in Invocations, [Next]_vars
    PROVE  Rests(j) \/ Begins(j) \/ Restarts(j) \/ Acts(j)
<1>1. ASSUME NEW i \in Invocations, Acts(i), i # j PROVE Rests(j) \/ Begins(j)
  <2>1. journal'[j] = journal[j] /\ given'[j] = given[j]
    BY <1>1, ActsLocal
  <2>2. Walks(i) \/ Nests(i)
    BY <1>1, StepWalks DEF Acts
  <2>3. CASE inv'[j] = inv[j]
    BY <2>1, <2>3 DEF Rests
  <2>4. CASE Nests(i) /\ j = <<i, Current(i)>>
    <3>1. /\ i \in Commands /\ inv[i].pc = "apply" /\ More(i) /\ inv'[j].pc = "append"
          /\ SameBatch(j) /\ SameState(j) /\ SameNext(j) /\ SameTasks(j) /\ SameMark(j)
      BY <2>4 DEF Nests
    <3>2. inv[j].pc = "none"
      BY <2>4, <3>1 DEF NestInv, NestOK
    <3>3. Current(i) \in Subs
      BY <3>1, Turn
    <3> QED
      BY <2>1, <2>4, <3>1, <3>2, <3>3 DEF Begins
  <2> QED
    BY <1>1, <2>2, <2>3, <2>4 DEF Walks, Alone, Nests
<1>2. ASSUME NEW c \in Commands, Call(c) PROVE Rests(j) \/ Begins(j)
  <2>1. /\ Goto(c, "append") /\ "append" \in Pcs /\ c \in Invocations /\ inv[c].pc = "none"
        /\ journal' = journal /\ given' = given
    BY <1>2, Names, Kinds DEF Call
  <2>2. OnlyMoves(c, "append")
    BY <2>1, GotoIs
  <2>3. CASE j = c
    BY <2>1, <2>2, <2>3 DEF OnlyMoves, Moves, Begins
  <2>4. CASE j # c
    BY <2>1, <2>2, <2>4 DEF OnlyMoves, Moves, Rests
  <2> QED
    BY <2>3, <2>4
<1>3. ASSUME NEW c \in Commands, Retried(c) PROVE Rests(j) \/ Restarts(j)
  <2>1. CASE j = c \/ \E s \in Subs : j = <<c, s>>
    BY <1>3, <2>1 DEF Restarts
  <2>2. CASE j # c /\ \A s \in Subs : j # <<c, s>>
    <3>1. inv'[j] = inv[j]
      BY <1>3, <2>2, RetriedIs
    <3>2. journal' = journal /\ given' = given
      BY <1>3 DEF Retried
    <3> QED
      BY <3>1, <3>2 DEF Rests
  <2> QED
    BY <2>1, <2>2
<1>4. CASE \/ OtherWriter \/ (\E i \in Invocations : AsyncStep(i))
           \/ (\E k \in DOMAIN child : ChildFails(k)) \/ UNCHANGED vars
  <2>1. inv' = inv /\ journal' = journal /\ given' = given
    BY <1>4 DEF OtherWriter, AsyncStep, AsyncAttempt, ChildFails, vars
  <2> QED
    BY <2>1 DEF Rests
<1>5. CASE Crash
  BY <1>5 DEF Restarts
<1> QED
  BY <1>1, <1>2, <1>3, <1>4, <1>5 DEF Next, NormalStep, Fault, Acts

\* A restart leaves nothing of the local variables, or all; the journal and what
\* subscribers were given outlive it.
LEMMA RestartIs ==
    ASSUME Typed, NEW j \in Invocations, Restarts(j)
    PROVE  /\ journal' = journal /\ given' = given /\ log' = log /\ outcome' = outcome
           /\ \/ inv'[j] = inv[j] /\ j \in Commands /\ ~Running(j)
              \/ Blank(j, "none") /\ j \in Nested
              \/ Blank(j, "append") /\ conf.durable
              \/ Blank(j, "lost") /\ ~conf.durable /\ j \in Commands /\ Running(j)
<1>1. CASE Crash
  <2>1. journal' = journal /\ given' = given /\ log' = log /\ outcome' = outcome
    BY <1>1 DEF Crash
  <2>2. CASE j \in Nested
    BY <1>1, <2>1, <2>2, CrashIs
  <2>3. CASE j \in Commands
    BY <1>1, <2>1, <2>3, CrashIs
  <2> QED
    BY <2>2, <2>3 DEF Invocations
<1>2. ASSUME NEW c \in Commands, Retried(c), j = c \/ \E s \in Subs : j = <<c, s>>
      PROVE  /\ journal' = journal /\ given' = given /\ log' = log /\ outcome' = outcome
             /\ \/ Blank(j, "none") /\ j \in Nested
                \/ Blank(j, "append") /\ conf.durable
  <2>1. journal' = journal /\ given' = given /\ log' = log /\ outcome' = outcome /\ conf.durable
    BY <1>2 DEF Retried
  <2>2. Blank(c, "append") /\ \A s \in Subs : Blank(<<c, s>>, "none") /\ <<c, s>> \in Nested
    BY <1>2, RetriedIs, Kinds
  <2> QED
    BY <1>2, <2>1, <2>2
<1> QED
  BY <1>1, <1>2 DEF Restarts

\* Most steps leave alone what an invocation knows of its append.
LEMMA ActsQuiet ==
    ASSUME Typed, NEW i \in Invocations, Acts(i),
           ~Handle(i), ~HandleRecorded(i), ~HandleReplayed(i), ~ReadEnvelopes(i)
    PROVE  Quiet(i)
<1> DEFINE Keeps == journal'[i].append = journal[i].append /\ journal'[i].envs = journal[i].envs
<1>1. ASSUME NEW p, Moves(i, p), SameBatch(i), Keeps, p = inv[i].pc \/ p \notin {"appended", "envs"}
      PROVE  Quiet(i)
  BY <1>1 DEF Quiet, Moves, SameBatch
<1>2. CASE ReturnNoOp(i) \/ WaitAll(i) \/ Return(i)
  <2>1. Keeps
    BY <1>2 DEF ReturnNoOp, WaitAll, Return
  <2>2. SameBatch(i) /\ (Moves(i, "returned") \/ Moves(i, "apply"))
    BY <1>2, ReturnNoOpIs, WaitAllIs, ReturnIs
  <2> QED
    BY <1>1, <2>1, <2>2
<1>3. CASE ReadState(i)
  <2>1. Keeps
    BY <1>3, RecordStateIs
  <2>2. SameBatch(i) /\ Moves(i, "fanout")
    BY <1>3, ReadStateIs
  <2> QED
    BY <1>1, <2>1, <2>2
<1>4. CASE SkipFiltered(i) \/ SpawnAsync(i) \/ NothingToApply(i) \/ Drop(i) \/ DeadLetter(i)
  <2>1. Keeps /\ More(i) /\ inv' = [inv EXCEPT ![i].next = @ + 1]
    BY <1>4 DEF SkipFiltered, SpawnAsync, NothingToApply, Drop, DeadLetter, Exhausted
  <2>2. SameBatch(i) /\ Moves(i, inv[i].pc)
    BY <2>1, TurnIs
  <2> QED
    BY <1>1, <2>1, <2>2
<1>5. CASE RunAsync(i)
  <2>1. Keeps
    BY <1>5 DEF RunAsync
  <2>2. SameBatch(i) /\ Moves(i, inv[i].pc)
    BY <1>5, RunAsyncIs
  <2> QED
    BY <1>1, <2>1, <2>2
<1>6. CASE EndFanOut(i) \/ StepFails(i)
  <2>1. Keeps /\ (Goto(i, "wait") \/ Goto(i, "failed")) /\ "wait" \in Pcs /\ "failed" \in Pcs
    BY <1>6, Names DEF EndFanOut, StepFails
  <2>2. SameBatch(i) /\ (Moves(i, "wait") \/ Moves(i, "failed"))
    BY <2>1, GotoIs DEF OnlyMoves
  <2> QED
    BY <1>1, <2>1, <2>2
<1>7. ASSUME NEW s \in Subs, SyncAttempt(i, s) PROVE Quiet(i)
  <2>1. Keeps
    BY <1>7 DEF SyncAttempt
  <2>2. SameBatch(i) /\ Moves(i, inv[i].pc)
    BY <1>7, SyncAttemptIs
  <2> QED
    BY <1>1, <2>1, <2>2
<1>8. ASSUME NEW s \in Subs, RecordSync(i, s) PROVE Quiet(i)
  <2>1. Keeps
    BY <1>8, RecordTaskIs
  <2>2. SameBatch(i) /\ Moves(i, inv[i].pc)
    BY <1>8, RecordSyncIs
  <2> QED
    BY <1>1, <2>1, <2>2
<1>9. CASE StartCompensation(i)
  <2>1. Keeps
    BY <1>9 DEF StartCompensation
  <2>2. SameBatch(i) /\ inv'[i].pc \in {"nested", "failed"}
    BY <1>9, StartCompensationIs DEF OnlyMoves, Moves
  <2> QED
    BY <2>1, <2>2 DEF Quiet, SameBatch
<1>10. CASE EndCompensation(i)
  <2>1. Keeps
    BY <1>10 DEF EndCompensation
  <2>2. SameBatch(i) /\ (Moves(i, "apply") \/ Moves(i, "failed"))
    BY <1>10, EndCompensationIs DEF OnlyMoves
  <2> QED
    BY <1>1, <2>1, <2>2
<1> QED
  BY <1>2, <1>3, <1>4, <1>5, <1>6, <1>7, <1>8, <1>9, <1>10 DEF Acts, InvStep

\* Every step keeps what is known of the append.
LEMMA NextAppend == Typed /\ NestInv /\ AppendInv /\ [Next]_vars => AppendInv'
\* An append stays where it is.
<1>OwnKept.
      ASSUME Typed, Grows, NEW i, NEW a \in Versions, NEW b \in Versions, Own(a, b, i)
      PROVE  Own(a, b, i)'
  <2> USE <1>OwnKept
  <2>1. Len(log) \in Nat /\ Len(log') \in Nat /\ Len(log) <= Len(log') /\ a \in Nat /\ b \in Nat
    BY LogLength, Bounds DEF Grows
  <2>2. b <= Len(log) /\ 0 < a
    BY DEF Own
  <2>3. b <= Len(log')
    BY <2>1, <2>2, SMTT(30), SMTT(60)
  <2>4. ASSUME NEW v \in a..b PROVE v \in 1..Len(log)
    BY <2>1, <2>2, SMTT(30), SMTT(60)
  <2>5. \A v \in a..b : log'[v].inv = i
    BY <2>4 DEF Own, Grows
  <2> QED
    BY <2>3, <2>5 DEF Own, TypesOf
\* So NothingOrOwn stays true.
<1>NothingOrOwnKept.
      ASSUME Typed, Grows, NEW i, NEW a \in Versions, NEW b \in Versions, NothingOrOwn(a, b, i)
      PROVE  NothingOrOwn(a, b, i)'
  BY <1>NothingOrOwnKept, <1>OwnKept DEF NothingOrOwn
\* And so does OwnBatch.
<1>OwnBatchKept.
      ASSUME Typed, Grows, NEW i, NEW e, OwnBatch(e, i)
      PROVE  OwnBatch(e, i)'
  BY <1>OwnBatchKept, <1>OwnKept DEF OwnBatch
\* The entry of the append, if there is one, is two versions.
<1>AppendEntry.
      ASSUME Typed, NEW i \in Invocations, journal[i].append # <<>>
      PROVE  /\ journal[i].append[1] \in Versions /\ journal[i].append[2] \in Versions
  BY <1>AppendEntry, TypedParts DEF JournalRecord
\* A step that changes nothing of the append keeps AppendOK.
<1>QuietAppend.
      ASSUME Typed, Grows, NEW i \in Invocations, AppendOK(i), Quiet(i)
      PROVE  AppendOK(i)'
  <2> USE <1>QuietAppend
  <2>1. inv[i].start \in Versions /\ inv[i].end \in Versions
    BY TypedParts DEF InvRecord
  <2>2. ASSUME journal'[i].append # <<>>
        PROVE  NothingOrOwn(journal[i].append[1], journal[i].append[2], i)'
    <3>1. journal[i].append # <<>> /\ journal'[i].append = journal[i].append
      BY <2>2 DEF Quiet
    <3>2. PICK a, b : a = journal[i].append[1] /\ b = journal[i].append[2]
      OBVIOUS
    <3>3. a \in Versions /\ b \in Versions /\ NothingOrOwn(a, b, i)
      BY <3>1, <3>2, <1>AppendEntry DEF AppendOK
    <3>4. NothingOrOwn(a, b, i)'
      BY <3>3, <1>NothingOrOwnKept
    <3> QED
      BY <3>1, <3>2, <3>4
  <2>3. PICK a, b : a = inv[i].start /\ b = inv[i].end
    OBVIOUS
  <2>4. ASSUME inv'[i].pc = "appended"
        PROVE  NothingOrOwn(inv[i].start, inv[i].end, i)'
    <3>1. inv[i].pc = "appended" /\ inv'[i].start = a /\ inv'[i].end = b
      BY <2>3, <2>4 DEF Quiet
    <3>2. NothingOrOwn(a, b, i)'
      BY <2>1, <2>3, <3>1, <1>NothingOrOwnKept DEF AppendOK
    <3> QED
      BY <3>1, <3>2
  <2>5. ASSUME inv'[i].pc = "envs"
        PROVE  Own(inv[i].start, inv[i].end, i)'
    <3>1. inv[i].pc = "envs" /\ inv'[i].start = a /\ inv'[i].end = b
      BY <2>3, <2>5 DEF Quiet
    <3>2. Own(a, b, i)'
      BY <2>1, <2>3, <3>1, <1>OwnKept DEF AppendOK
    <3> QED
      BY <3>1, <3>2
  <2>6. PICK e, f : e = inv[i].envs /\ f = journal[i].envs
    OBVIOUS
  <2>7. OwnBatch(e, i)' /\ OwnBatch(f, i)'
    BY <2>6, <1>OwnBatchKept DEF AppendOK
  <2>8. OwnBatch({}, i)'
    BY DEF OwnBatch
  <2>9. OwnBatch(inv[i].envs, i)' /\ OwnBatch(journal[i].envs, i)'
    BY <2>6, <2>7, <2>8 DEF Quiet
  <2> QED
    BY <2>2, <2>4, <2>5, <2>9 DEF AppendOK
\* AppendOK, piece by piece, for the steps that are not quiet.
<1>AppendNext.
      ASSUME Typed, Grows, NEW i \in Invocations, AppendOK(i),
             journal'[i].append = journal[i].append
                 \/ (journal'[i].append # <<>> =>
                         NothingOrOwn(journal[i].append[1], journal[i].append[2], i)'),
             inv'[i].pc = "appended" => NothingOrOwn(inv[i].start, inv[i].end, i)',
             inv'[i].pc = "envs" => Own(inv[i].start, inv[i].end, i)',
             inv'[i].envs = inv[i].envs \/ OwnBatch(inv[i].envs, i)',
             journal'[i].envs = journal[i].envs \/ OwnBatch(journal[i].envs, i)'
      PROVE  AppendOK(i)'
  <2> USE <1>AppendNext
  <2>1. ASSUME journal'[i].append # <<>>
        PROVE  NothingOrOwn(journal[i].append[1], journal[i].append[2], i)'
    <3>1. CASE journal'[i].append = journal[i].append
      <4>1. PICK a, b : a = journal[i].append[1] /\ b = journal[i].append[2]
        OBVIOUS
      <4>2. a \in Versions /\ b \in Versions /\ NothingOrOwn(a, b, i)
        BY <2>1, <3>1, <4>1, <1>AppendEntry DEF AppendOK
      <4>3. NothingOrOwn(a, b, i)'
        BY <4>2, <1>NothingOrOwnKept
      <4> QED
        BY <3>1, <4>1, <4>3
    <3> QED
      BY <2>1, <3>1
  <2>2. PICK e, f : e = inv[i].envs /\ f = journal[i].envs
    OBVIOUS
  <2>3. OwnBatch(e, i)' /\ OwnBatch(f, i)'
    BY <2>2, <1>OwnBatchKept DEF AppendOK
  <2>4. OwnBatch(inv[i].envs, i)' /\ OwnBatch(journal[i].envs, i)'
    BY <2>2, <2>3
  <2> QED
    BY <2>1, <2>4 DEF AppendOK
\* The append itself: the versions at the end of the stream, or none.
<1>HandleAppend.
      ASSUME Typed, Grows, NEW i \in Invocations, Fresh(i), AppendOK(i), Handle(i)
      PROVE  AppendOK(i)'
  <2> USE <1>HandleAppend
  <2>1. inv[i].pc = "append" /\ journal' = journal
    BY DEF Handle
  <2>2. CASE OnlyMoves(i, "failed")
    BY <2>1, <2>2, <1>QuietAppend DEF OnlyMoves, Moves, SameBatch, Quiet
  <2>3. CASE OnlyMoves(i, "appended")
    <3>1. inv'[i].start = 0 /\ inv'[i].end = 0 /\ inv'[i].envs = inv[i].envs /\ inv'[i].pc = "appended"
      BY <2>1, <2>3 DEF Fresh, OnlyMoves, Moves, SameBatch
    <3>2. NothingOrOwn(inv[i].start, inv[i].end, i)'
      BY <3>1 DEF NothingOrOwn
    <3> QED
      BY <2>1, <3>1, <3>2, <1>AppendNext
  <2>4. CASE /\ Appends(i) /\ Moves(i, "appended") /\ inv'[i].envs = inv[i].envs
             /\ inv'[i].start = Len(log) + 1 /\ inv'[i].end = Len(log) + Len(TypesOf(i))
    <3>1. PICK n, m : n = Len(log) /\ m = Len(TypesOf(i))
      OBVIOUS
    <3>2. n \in Nat /\ m \in Nat
      BY <3>1, LogLength, Bounds
    <3>3. 0 < n + 1 /\ n + m = (n + 1) + m - 1 /\ n + m <= n + m
      BY <3>2, SMTT(30), SMTT(60)
    <3>4. Len(log') = n + m /\ \A v \in (n + 1)..(n + m) : log'[v].inv = i
      BY <2>4, <3>1, LogGrows
    <3>5. Own(n + 1, n + m, i)'
      BY <3>1, <3>3, <3>4 DEF Own, TypesOf
    <3>6. inv'[i].start = n + 1 /\ inv'[i].end = n + m /\ inv'[i].pc = "appended"
      BY <2>4, <3>1 DEF Moves
    <3>7. NothingOrOwn(inv[i].start, inv[i].end, i)'
      BY <3>5, <3>6 DEF NothingOrOwn
    <3> QED
      BY <2>1, <2>4, <3>6, <3>7, <1>AppendNext
  <2> QED
    BY <2>2, <2>3, <2>4, HandleIs
\* The result goes to the journal, and on.
<1>RecordedAppend.
      ASSUME Typed, Grows, NEW i \in Invocations, AppendOK(i), HandleRecorded(i)
      PROVE  AppendOK(i)'
  <2> USE <1>RecordedAppend
  <2>0. PICK a, b, p : a = inv[i].start /\ b = inv[i].end /\ p = AfterAppend(inv[i].start)
    OBVIOUS
  <2>1. /\ inv[i].pc = "appended" /\ Goto(i, p) /\ p \in {"noop", "envs"} /\ p \in Pcs
        /\ a = 0 => p = "noop"
    BY <2>0, Names DEF HandleRecorded, AfterAppend
  <2>2. OnlyMoves(i, p)
    BY <2>1, GotoIs
  <2>3. inv'[i].pc = p /\ inv'[i].start = a /\ inv'[i].end = b /\ inv'[i].envs = inv[i].envs
    BY <2>0, <2>2 DEF OnlyMoves, Moves, SameBatch
  <2>4. a \in Versions /\ b \in Versions /\ NothingOrOwn(a, b, i)
    BY <2>0, <2>1, TypedParts DEF InvRecord, AppendOK
  <2>5. NothingOrOwn(a, b, i)'
    BY <2>4, <1>NothingOrOwnKept
  <2>6. inv'[i].pc = "envs" => Own(inv[i].start, inv[i].end, i)'
    BY <2>1, <2>3, <2>5 DEF NothingOrOwn
  <2>7. journal'[i].append = journal[i].append \/ journal'[i].append = <<a, b>>
    <3>1. conf.durable => journal'[i].append = <<a, b>>
      BY <2>0, RecordAppendIs
    <3>2. ~conf.durable => journal' = journal
      BY RecordAppendIs DEF Journals
    <3> QED
      BY <3>1, <3>2
  <2>8. journal'[i].append = <<a, b>> => NothingOrOwn(journal[i].append[1], journal[i].append[2], i)'
    <3>1. <<a, b>>[1] = a /\ <<a, b>>[2] = b
      OBVIOUS
    <3> QED
      BY <2>5, <3>1
  <2>9. journal'[i].envs = journal[i].envs
    BY RecordAppendIs
  <2> QED
    BY <2>1, <2>3, <2>6, <2>7, <2>8, <2>9, <1>AppendNext
\* The result comes from the journal.
<1>ReplayedAppend.
      ASSUME Typed, Grows, NEW i \in Invocations, AppendOK(i), HandleReplayed(i)
      PROVE  AppendOK(i)'
  <2> USE <1>ReplayedAppend
  <2>0. PICK a, b : a = journal[i].append[1] /\ b = journal[i].append[2]
    OBVIOUS
  <2>1. journal[i].append # <<>> /\ journal' = journal
    BY DEF HandleReplayed
  <2>2. /\ inv'[i].pc = AfterAppend(a) /\ inv'[i].start = a /\ inv'[i].end = b
        /\ inv'[i].envs = inv[i].envs
    BY <2>0, ReplayedIs DEF Moves
  <2>3. inv'[i].pc \in {"noop", "envs"} /\ (a = 0 => inv'[i].pc = "noop")
    BY <2>2 DEF AfterAppend
  <2>4. a \in Versions /\ b \in Versions /\ NothingOrOwn(a, b, i)
    BY <2>0, <2>1, <1>AppendEntry DEF AppendOK
  <2>5. NothingOrOwn(a, b, i)'
    BY <2>4, <1>NothingOrOwnKept
  <2>6. inv'[i].pc = "envs" => Own(inv[i].start, inv[i].end, i)'
    BY <2>2, <2>3, <2>5 DEF NothingOrOwn
  <2> QED
    BY <2>1, <2>2, <2>3, <2>6, <1>AppendNext
\* The batch is what was appended.
<1>EnvelopesAppend.
      ASSUME Typed, Grows, NEW i \in Invocations, AppendOK(i), ReadEnvelopes(i)
      PROVE  AppendOK(i)'
  <2> USE <1>EnvelopesAppend
  <2>0. PICK a, b, e : a = inv[i].start /\ b = inv[i].end /\ e = EnvelopesOf(i)
    OBVIOUS
  <2>1. inv[i].pc = "envs"
    BY DEF ReadEnvelopes
  <2>2. OwnBatch(e, i)
    <3>1. a \in Versions /\ b \in Versions /\ Own(a, b, i)
      BY <2>0, <2>1, TypedParts DEF InvRecord, AppendOK
    <3>2. OwnBatch(a..b, i)
      BY <3>1 DEF OwnBatch
    <3>3. e = a..b \/ e = journal[i].envs
      BY <2>0 DEF EnvelopesOf, ReadStream
    <3> QED
      BY <3>2, <3>3 DEF AppendOK
  <2>3. OwnBatch(e, i)'
    BY <2>2, <1>OwnBatchKept
  <2>4. inv'[i].pc = "state" /\ inv'[i].envs = e
    BY <2>0, ReadEnvelopesIs DEF Moves
  <2>5. journal'[i].append = journal[i].append /\ (journal'[i].envs = e \/ journal'[i].envs = journal[i].envs)
    <3>1. conf.durable => journal'[i].envs = e
      BY <2>0, RecordEnvelopesIs
    <3>2. ~conf.durable => journal' = journal
      BY RecordEnvelopesIs DEF Journals
    <3> QED
      BY <3>1, <3>2, RecordEnvelopesIs
  <2>6. inv'[i].pc # "appended" /\ inv'[i].pc # "envs"
    BY <2>4
  <2> QED
    BY <2>3, <2>4, <2>5, <2>6, <1>AppendNext
\* The step itself.
<1> SUFFICES ASSUME Typed, NestInv, AppendInv, [Next]_vars PROVE AppendInv'
  OBVIOUS
<1>1. Grows
  BY LogKept
<1>2. ASSUME NEW j \in Invocations PROVE AppendOK(j)'
  <2>0. AppendOK(j) /\ Fresh(j)
    BY DEF AppendInv, NestInv
  <2>1. CASE Rests(j) \/ Begins(j)
    BY <1>1, <2>0, <2>1, <1>QuietAppend DEF Rests, Begins, SameBatch, Quiet
  <2>2. CASE Restarts(j)
    <3>1. journal' = journal
      BY <2>2, RestartIs
    <3>2. inv'[j] = inv[j] \/ Blank(j, "none") \/ Blank(j, "append") \/ Blank(j, "lost")
      BY <2>2, RestartIs
    <3>3. Quiet(j)
      BY <3>1, <3>2 DEF Quiet, Blank
    <3> QED
      BY <1>1, <2>0, <3>3, <1>QuietAppend
  <2>3. CASE Acts(j)
    BY <1>1, <2>0, <2>3, ActsQuiet, <1>QuietAppend, <1>HandleAppend, <1>RecordedAppend, <1>ReplayedAppend,
       <1>EnvelopesAppend
  <2> QED
    BY <2>1, <2>2, <2>3, Fate
<1> QED
  BY <1>2 DEF AppendInv

\* In the initial state nothing is known.
LEMMA InitAppend == ASSUME Init PROVE AppendInv
<1>1. ASSUME NEW i \in Invocations
      PROVE  inv[i].pc = "none" /\ inv[i].envs = {} /\ journal[i].append = <<>> /\ journal[i].envs = {}
  BY DEF Init, NoInv, NoJournal
<1> QED
  BY <1>1 DEF AppendInv, AppendOK, OwnBatch

-------------------------------------------------------------------------------
(* An invocation appends once *)

\* The numbers up to m, cut at n.
LEMMA CutInterval ==
    ASSUME NEW n \in Nat, NEW m \in Nat, n <= m
    PROVE  \A v : v \in 1..m <=> v \in 1..n \/ v \in (n + 1)..m
BY SMTT(30), SMTT(60)

\* What i wrote, and what a step added.
LEMMA WrittenNext ==
    ASSUME Typed, Grows, NEW i
    PROVE  Written(i)' = Written(i) \cup {v \in (Len(log) + 1)..Len(log') : log'[v].inv = i}
<1>1. Len(log) \in Nat /\ Len(log') \in Nat /\ Len(log) <= Len(log')
  BY LogLength DEF Grows
<1>2. \A v : v \in 1..Len(log') <=> v \in 1..Len(log) \/ v \in (Len(log) + 1)..Len(log')
  BY <1>1, CutInterval
<1>3. \A v \in 1..Len(log) : log'[v] = log[v]
  BY DEF Grows
<1> QED
  BY <1>2, <1>3 DEF Written

\* Only an append of its own adds to what i wrote.
LEMMA WrittenKept ==
    ASSUME Typed, NEW i \in Invocations, [Next]_vars, ~(Handle(i) /\ Appends(i))
    PROVE  Written(i)' = Written(i)
<1>1. Grows
  BY LogKept
<1>2. CASE log' = log
  BY <1>2 DEF Written
<1>3. ASSUME NEW j \in Invocations, j # i, Appends(j) PROVE Written(i)' = Written(i)
  <2>1. \A v \in (Len(log) + 1)..Len(log') : log'[v].inv = j
    BY <1>3, LogGrows
  <2> QED
    BY <1>1, <1>3, <2>1, WrittenNext
<1>4. CASE OtherWriter
  <2>1. Len(log') = Len(log) + 1 /\ log'[Len(log) + 1].inv = None /\ None # i /\ Len(log) \in Nat
    BY <1>4, OtherWriterIs, LogLength, CommandBusAssumption
  <2>2. ASSUME NEW n \in Nat, NEW v \in (n + 1)..(n + 1) PROVE v = n + 1
    BY SMTT(30), SMTT(60)
  <2>3. \A v \in (Len(log) + 1)..Len(log') : log'[v].inv # i
    BY <2>1, <2>2
  <2> QED
    BY <1>1, <2>3, WrittenNext
<1>5. ASSUME NEW j \in Invocations, InvStep(j) PROVE log' = log \/ (Handle(j) /\ Appends(j))
  <2>1. CASE Handle(j)
    BY <2>1, HandleIs
  <2>2. CASE ~Handle(j)
    BY <1>5, <2>2 DEF InvStep, HandleRecorded, HandleReplayed, ReturnNoOp, ReadEnvelopes, ReadState,
       SkipFiltered, SpawnAsync, RunAsync, EndFanOut, SyncAttempt, RecordSync, WaitAll, NothingToApply,
       Drop, DeadLetter, StartCompensation, EndCompensation, Return
  <2> QED
    BY <2>1, <2>2
<1>6. CASE \/ \E c \in Commands : Call(c) \/ Retried(c)
           \/ \E j \in Invocations : AsyncStep(j) \/ StepFails(j)
           \/ Crash \/ (\E k \in DOMAIN child : ChildFails(k)) \/ UNCHANGED vars
  <2>1. log' = log
    BY <1>6 DEF Call, Retried, AsyncStep, AsyncAttempt, StepFails, Crash, ChildFails, vars
  <2> QED
    BY <1>2, <2>1
<1>7. ASSUME NEW j \in Invocations, InvStep(j) PROVE Written(i)' = Written(i)
  <2>1. CASE log' = log
    BY <1>2, <2>1
  <2>2. CASE Handle(j) /\ Appends(j)
    BY <1>3, <2>2
  <2> QED
    BY <1>5, <1>7, <2>1, <2>2
<1> QED
  BY <1>4, <1>6, <1>7 DEF Next, NormalStep, Fault

\* The configuration never changes, and what was torn or hidden stays so.
LEMMA Fixed ==
    ASSUME [Next]_vars
    PROVE  conf' = conf /\ torn \subseteq torn' /\ hidden \subseteq hidden'
<1>1. ASSUME NEW i, InvStep(i) \/ AsyncStep(i)
      PROVE  conf' = conf /\ torn' = torn /\ hidden' = hidden
  BY <1>1 DEF InvStep, Handle, HandleRecorded, HandleReplayed, ReturnNoOp, ReadEnvelopes, ReadState,
     SkipFiltered, SpawnAsync, RunAsync, EndFanOut, SyncAttempt, RecordSync, WaitAll, NothingToApply,
     Drop, DeadLetter, StartCompensation, EndCompensation, Return, AsyncStep, AsyncAttempt
<1>2. ASSUME \/ \E c \in Commands : Call(c) \/ Retried(c)
             \/ \E i \in Invocations : StepFails(i)
             \/ OtherWriter \/ Crash \/ (\E k \in DOMAIN child : ChildFails(k)) \/ UNCHANGED vars
      PROVE  conf' = conf /\ torn \subseteq torn' /\ hidden \subseteq hidden'
  BY <1>2 DEF Call, Retried, StepFails, OtherWriter, Crash, ChildFails, vars
<1> QED
  BY <1>1, <1>2 DEF Next, NormalStep, Fault

\* Without a journal: i has not ended in a crash.
Alive(i) ==
    /\ inv[i].pc # "lost"
    /\ i \in Nested /\ inv[i].pc = "none" => inv[i[1]].pc \notin {"lost", "returned", "failed"}

\* Without a journal, a command that ended stays as it is.
LEMMA EndsStay ==
    ASSUME Typed, NestInv, NEW c \in Commands, [Next]_vars, ~conf.durable,
           inv[c].pc \in {"lost", "returned", "failed"}
    PROVE  inv'[c].pc = inv[c].pc
<1>0. c \in Invocations /\ c \notin Nested
  BY Kinds
<1>1. CASE Acts(c)
  <2>1. Walks(c) \/ Nests(c)
    BY <1>0, <1>1, StepWalks DEF Acts
  <2> QED
    BY <2>1 DEF Walks, Nests
<1>2. CASE Restarts(c)
  <2>1. inv'[c] = inv[c] \/ Running(c)
    BY <1>0, <1>2, RestartIs
  <2> QED
    BY <2>1 DEF Running
<1> QED
  BY <1>0, <1>1, <1>2, Fate DEF Rests, Begins

\* Without a journal, who is alive was, and did not go back to the beginning.
LEMMA AliveKept ==
    ASSUME Typed, NestInv, NEW j \in Invocations, [Next]_vars, ~conf.durable, Alive(j)'
    PROVE  /\ Alive(j)
           /\ inv'[j].pc \in Before => inv[j].pc \in Before
           /\ inv'[j].pc \in {"none", "append"} => inv[j].pc \in {"none", "append"}
<1>0. ASSUME NEW c \in Commands, NEW s \in Subs, j = <<c, s>> PROVE j[1] = c
  BY <1>0
<1>1. j \in Nested => \E c \in Commands : \E s \in Subs : j = <<c, s>>
  BY SMTT(30), SMTT(60) DEF Nested
<1>2. ASSUME inv'[j].pc = inv[j].pc PROVE Alive(j)
  <2>1. ASSUME NEW c \in Commands, NEW s \in Subs, j = <<c, s>>, inv[j].pc = "none"
        PROVE  inv[c].pc \notin {"lost", "returned", "failed"}
    <3>1. inv'[c].pc \notin {"lost", "returned", "failed"}
      BY <1>0, <1>2, <2>1, Kinds DEF Alive
    <3> QED
      BY <3>1, EndsStay
  <2>2. inv[j].pc # "lost"
    BY <1>2 DEF Alive
  <2> QED
    BY <1>0, <1>1, <2>1, <2>2 DEF Alive
<1>3. CASE Rests(j)
  BY <1>2, <1>3 DEF Rests
<1>4. CASE Begins(j)
  <2>1. inv[j].pc = "none" /\ inv'[j].pc = "append"
    BY <1>4 DEF Begins
  <2>2. CASE j \in Commands
    BY <2>1, <2>2, Kinds DEF Alive, Before
  <2>3. ASSUME NEW c \in Commands, NEW s \in Subs, j = <<c, s>>, inv[c].pc = "apply" PROVE Alive(j)
    BY <1>0, <2>1, <2>3 DEF Alive
  <2>4. Alive(j)
    BY <1>4, <2>2, <2>3 DEF Begins
  <2> QED
    BY <2>1, <2>4 DEF Before
<1>5. CASE Restarts(j)
  <2>1. CASE inv'[j] = inv[j]
    BY <1>2, <2>1
  <2>2. CASE Blank(j, "lost")
    BY <2>2 DEF Blank, Alive
  <2>3. ASSUME NEW c \in Commands, NEW s \in Subs, j = <<c, s>>, Blank(j, "none"), Crash
        PROVE  Alive(j) /\ inv[j].pc = "none"
    <3>1. inv'[c].pc \notin {"lost", "returned", "failed"}
      BY <1>0, <2>3, Kinds DEF Alive, Blank
    <3>2. ~Running(c) /\ inv'[c] = inv[c]
      BY <2>3, <3>1, CrashIs DEF Blank
    <3>3. inv[c].pc = "none"
      BY <3>1, <3>2 DEF Running
    <3>4. inv[j].pc = "none"
      BY <2>3, <3>3 DEF NestInv, NestOK
    <3> QED
      BY <1>0, <2>3, <3>3, <3>4 DEF Alive
  <2>4. Crash
    BY <1>5 DEF Restarts, Retried
  <2>5. CASE Blank(j, "none") /\ j \in Nested
    <3>1. Alive(j) /\ inv[j].pc = "none"
      BY <1>1, <2>3, <2>4, <2>5
    <3> QED
      BY <3>1 DEF Before
  <2> QED
    BY <1>5, <2>1, <2>2, <2>5, RestartIs
<1>6. CASE Acts(j)
  <2>1. Walks(j) \/ Nests(j)
    BY <1>6, StepWalks DEF Acts
  <2>2. \/ inv'[j].pc = inv[j].pc
        \/ /\ inv[j].pc \notin {"none", "lost"} /\ inv'[j].pc \notin {"none", "append"}
           /\ inv'[j].pc \in Before => inv[j].pc \in Before
    BY <2>1 DEF Walks, Nests, Before
  <2>3. inv[j].pc \notin {"none", "lost"} => Alive(j)
    BY DEF Alive
  <2> QED
    BY <1>2, <2>2, <2>3
<1> QED
  BY <1>3, <1>4, <1>5, <1>6, Fate

\* i may still append.
MayAppend(i) ==
    /\ journal[i].append = <<>>
    /\ conf.durable => inv[i].pc # "appended" \/ inv[i].start = 0
    /\ ~conf.durable => Alive(i) /\ inv[i].pc \in {"none", "append"}

\* i has appended its events once or not at all, and not if it still may.
OnceOK(i) ==
    i \notin torn =>
        /\ Written(i) = {} \/ \E a \in 1..MaxEvents : Written(i) = a..(a + Len(TypesOf(i)) - 1)
        /\ MayAppend(i) => Written(i) = {}

\* The third layer: an invocation appends at most once.
OnceInv == \A i \in Invocations : OnceOK(i)

\* An append, once journaled, is never forgotten.
LEMMA AppendStaysRecorded ==
    ASSUME Typed, NestInv, NEW j \in Invocations, [Next]_vars, journal'[j].append = <<>>
    PROVE  journal[j].append = <<>>
<1>1. CASE Rests(j) \/ Begins(j)
  BY <1>1 DEF Rests, Begins
<1>2. CASE Restarts(j)
  BY <1>2, RestartIs
<1>3. CASE Handle(j) \/ HandleReplayed(j)
  BY <1>3 DEF Handle, HandleReplayed
<1>4. CASE ReadEnvelopes(j)
  BY <1>4, RecordEnvelopesIs
<1>5. CASE HandleRecorded(j)
  <2>1. ASSUME NEW a, NEW b PROVE <<a, b>> # <<>>
    BY SMTT(30), SMTT(60)
  <2>2. ~conf.durable
    BY <1>5, <2>1, RecordAppendIs
  <2> QED
    BY <1>5, <2>2, RecordAppendIs DEF Journals
<1>6. CASE Acts(j) /\ ~(Handle(j) \/ HandleReplayed(j) \/ ReadEnvelopes(j) \/ HandleRecorded(j))
  BY <1>6, ActsQuiet DEF Quiet
<1> QED
  BY <1>1, <1>2, <1>3, <1>4, <1>5, <1>6, Fate

\* Every step keeps OnceInv.
LEMMA NextOnce == Typed /\ NestInv /\ OnceInv /\ [Next]_vars => OnceInv'
\* With a journal, an invocation that appended and may append again was torn.
<1>AppendedKept.
      ASSUME Typed, NestInv, NEW j \in Invocations, [Next]_vars, conf.durable,
             inv[j].pc = "appended", inv[j].start # 0, MayAppend(j)'
      PROVE  j \in torn'
  <2> USE <1>AppendedKept
  <2>0. conf'.durable
    BY Fixed
  <2>start. inv[j].start > 0
    <3>1. inv[j].start \in Nat
      BY TypedParts, Bounds DEF InvRecord
    <3> QED
      BY <3>1, SMTT(30), SMTT(60)
  <2>1. CASE Rests(j)
    BY <2>0, <2>1 DEF Rests, MayAppend
  <2>2. CASE Acts(j)
    <3>1. \A s \in Subs : inv[j].task[s] = "none"
      BY DEF NestInv, Fresh, Before
    <3>2. HandleRecorded(j) \/ StepFails(j)
      BY <2>2, <3>1 DEF Acts, InvStep, Handle, HandleReplayed, ReturnNoOp, ReadEnvelopes, ReadState,
         SkipFiltered, SpawnAsync, RunAsync, EndFanOut, SyncAttempt, RecordSync, WaitAll, NothingToApply,
         Drop, DeadLetter, Exhausted, StartCompensation, EndCompensation, Return
    <3>3. ASSUME NEW a, NEW b PROVE <<a, b>> # <<>>
      BY SMTT(30), SMTT(60)
    <3>4. CASE HandleRecorded(j)
      BY <3>3, <3>4, RecordAppendIs, ZenonT(60) DEF MayAppend
    <3>5. CASE StepFails(j)
      BY <2>start, <3>5 DEF StepFails
    <3> QED
      BY <3>2, <3>4, <3>5
  <2>3. CASE Crash
    BY <2>3, <2>start DEF Crash
  <2>4. ASSUME NEW c \in Commands, Retried(c), j = c \/ \E s \in Subs : j = <<c, s>> PROVE FALSE
    <3>1. inv[c].pc = "failed"
      BY <2>4 DEF Retried
    <3>2. \A s \in Subs : inv[<<c, s>>].pc \in {"none", "returned", "failed"}
      BY <3>1 DEF NestInv, NestOK
    <3> QED
      BY <2>4, <3>1, <3>2
  <2> QED
    BY <2>1, <2>2, <2>3, <2>4, Fate DEF Begins, Restarts
\* Who may append could have before.
<1>MayAppendKept.
      ASSUME Typed, NestInv, NEW j \in Invocations, [Next]_vars, MayAppend(j)', j \notin torn'
      PROVE  MayAppend(j)
  <2> USE <1>MayAppendKept
  <2>1. journal[j].append = <<>>
    BY AppendStaysRecorded DEF MayAppend
  <2>2. ASSUME conf.durable PROVE inv[j].pc # "appended" \/ inv[j].start = 0
    BY <2>2, <1>AppendedKept
  <2>3. ASSUME ~conf.durable PROVE Alive(j) /\ inv[j].pc \in {"none", "append"}
    <3>1. Alive(j)' /\ inv'[j].pc \in {"none", "append"}
      BY <2>3, Fixed DEF MayAppend
    <3> QED
      BY <2>3, <3>1, AliveKept
  <2> QED
    BY <2>1, <2>2, <2>3 DEF MayAppend
\* Who appends may, and may not afterwards.
<1>MayAppendUsed.
      ASSUME Typed, NEW j \in Invocations, [Next]_vars, Handle(j), Appends(j),
             inv'[j].pc = "appended", inv'[j].start = Len(log) + 1
      PROVE  MayAppend(j) /\ ~MayAppend(j)'
  <2> USE <1>MayAppendUsed
  <2>1. MayAppend(j)
    BY DEF Handle, MayAppend, Alive
  <2>2. inv'[j].start # 0
    BY LogLength, SMTT(30), SMTT(60)
  <2> QED
    BY <2>1, <2>2 DEF MayAppend
\* The step itself.
<1> SUFFICES ASSUME Typed, NestInv, OnceInv, [Next]_vars PROVE OnceInv'
  OBVIOUS
<1> SUFFICES ASSUME NEW j \in Invocations, j \notin torn'
             PROVE  /\ \/ Written(j)' = {}
                       \/ \E a \in 1..MaxEvents : Written(j)' = a..(a + Len(TypesOf(j)) - 1)
                    /\ MayAppend(j)' => Written(j)' = {}
  BY DEF OnceInv, OnceOK, TypesOf
<1>1. /\ Written(j) = {} \/ \E a \in 1..MaxEvents : Written(j) = a..(a + Len(TypesOf(j)) - 1)
      /\ MayAppend(j) => Written(j) = {}
  BY Fixed DEF OnceInv, OnceOK
<1>2. CASE Written(j)' = Written(j)
  BY <1>1, <1>2, <1>MayAppendKept
<1>3. CASE Handle(j) /\ Appends(j) /\ inv'[j].pc = "appended" /\ inv'[j].start = Len(log) + 1
  <2>1. MayAppend(j) /\ ~MayAppend(j)'
    BY <1>3, <1>MayAppendUsed
  <2>2. Written(j) = {}
    BY <1>1, <2>1
  <2>3. Len(log') = Len(log) + Len(TypesOf(j)) /\ \A v \in (Len(log) + 1)..Len(log') : log'[v].inv = j
    BY <1>3, LogGrows
  <2>4. Written(j)' = (Len(log) + 1)..(Len(log) + Len(TypesOf(j)))
    <3>1. Written(j)' = Written(j) \cup {v \in (Len(log) + 1)..Len(log') : log'[v].inv = j}
      BY LogKept, WrittenNext
    <3>2. {v \in (Len(log) + 1)..Len(log') : log'[v].inv = j} = (Len(log) + 1)..Len(log')
      BY <2>3
    <3>3. Written(j)' = (Len(log) + 1)..Len(log')
      BY <2>2, <3>1, <3>2
    <3> QED
      BY <2>3, <3>3
  <2>5. PICK n, m : n = Len(log) /\ m = Len(TypesOf(j))
    OBVIOUS
  <2>6. n \in Nat /\ m \in Nat /\ m > 0 /\ n + m <= MaxEvents /\ MaxEvents \in Nat
    BY <1>3, <2>5, LogLength, Bounds DEF Appends
  <2>7. n + 1 \in 1..MaxEvents /\ n + m = (n + 1) + m - 1
    BY <2>6, SMTT(30), SMTT(60)
  <2> QED
    BY <2>1, <2>4, <2>5, <2>7
<1>4. CASE ~(Handle(j) /\ Appends(j))
  BY <1>2, <1>4, WrittenKept
<1>5. CASE Handle(j) /\ log' = log
  <2>1. Written(j)' = Written(j)
    BY <1>5 DEF Written
  <2> QED
    BY <1>2, <2>1
<1> QED
  BY <1>3, <1>4, <1>5, HandleIs DEF Moves

\* In the initial state nothing is written.
LEMMA InitOnce == ASSUME Init PROVE OnceInv
<1>1. ASSUME NEW i PROVE Written(i) = {}
  <2>1. \A v : v \notin 1..0
    BY SMTT(30), SMTT(60)
  <2>2. Len(log) = 0
    BY SMTT(30), SMTT(60) DEF Init
  <2> QED
    BY <2>1, <2>2 DEF Written
<1> QED
  BY <1>1 DEF OnceInv, OnceOK

-------------------------------------------------------------------------------
(* What the program counter says *)

\* Subscribers are settled before policies are applied, and not started before
\* their turn; a compensation is for one that exhausted its retries.
PlaceOK(i) ==
    /\ inv[i].pc \in {"apply", "nested", "returned"} => AllSettled(i)
    /\ inv[i].pc = "nested" =>
          inv[i].task[Current(i)] = "exhausted" /\ Sub(Current(i)).policy = "compensate"
    /\ inv[i].pc = "state" => Len(log) > 0
    /\ inv[i].pc = "fanout" =>
          \A q \in 1..Len(Order) : q >= inv[i].next => inv[i].task[Order[q]] = "none"

\* The fourth layer: what the program counter says of the other variables.
PlaceInv == \A i \in Invocations : PlaceOK(i)

\* The task of a subscriber is under way.
Busy(i, s) == inv[i].task[s] \in {"run", "succeeded", "gave up"}

\* Every step keeps it.
LEMMA NextPlace == Typed /\ NestInv /\ AppendInv /\ PlaceInv /\ [Next]_vars => PlaceInv'
\* Subscribers that are called or recorded are not settled.
<1>TaskPlace.
      ASSUME Typed, NEW i \in Invocations, Fresh(i), PlaceOK(i), NEW s \in Subs, NEW t \in Tasks, Busy(i, s),
             inv'[i].pc = inv[i].pc, SameNext(i), inv'[i].task = [inv[i].task EXCEPT ![s] = t]
      PROVE  PlaceOK(i)'
  <2> USE <1>TaskPlace
  <2>1. inv[i].pc \notin Before /\ inv[i].pc \notin {"apply", "nested", "returned"}
    BY DEF Fresh, PlaceOK, AllSettled, Busy
  <2>2. inv[i].pc = "fanout" => \A q \in 1..Len(Order) : q >= inv[i].next => inv'[i].task[Order[q]] = "none"
    <3>1. ASSUME NEW q \in 1..Len(Order), inv[i].task[Order[q]] = "none"
          PROVE  inv'[i].task[Order[q]] = "none"
      <4>1. Order[q] \in Subs /\ Order[q] # s
        BY <3>1, Places DEF Busy
      <4>2. inv[i].task \in [Subs -> Tasks]
        BY TypedParts DEF InvRecord
      <4> QED
        BY <3>1, <4>1, <4>2
    <3> QED
      BY <3>1 DEF PlaceOK
  <2> QED
    BY <2>1, <2>2 DEF PlaceOK, Before, SameNext
\* A turn of the fan-out that ends without starting a subscriber, or starts it.
<1>TurnPlace.
      ASSUME Typed, NEW i \in Invocations, PlaceOK(i), More(i), inv[i].pc = "fanout", inv'[i].pc = "fanout",
             inv'[i].next = inv[i].next + 1,
             SameTasks(i) \/ \E t : inv'[i].task = [inv[i].task EXCEPT ![Current(i)] = t]
      PROVE  PlaceOK(i)'
  <2> USE <1>TurnPlace
  <2>1. inv[i].next \in 1..Len(Order) /\ inv[i].next \in Nat
    <3>1. inv[i].next \in 1..Len(Order)
      BY Turn
    <3> QED
      BY <3>1, SMTT(30), SMTT(60)
  <2>2. ASSUME NEW q \in 1..Len(Order), q >= inv[i].next + 1
        PROVE  q >= inv[i].next /\ q # inv[i].next
    BY <2>1, <2>2, SMTT(30), SMTT(60)
  <2>3. ASSUME NEW q \in 1..Len(Order), q >= inv'[i].next PROVE inv'[i].task[Order[q]] = "none"
    <3>1. q >= inv[i].next /\ q # inv[i].next
      BY <2>2, <2>3
    <3>2. Order[q] \in Subs /\ Order[q] # Current(i) /\ inv[i].task[Order[q]] = "none"
      BY <2>1, <3>1, Places DEF Current, PlaceOK
    <3>3. inv[i].task \in [Subs -> Tasks]
      BY TypedParts DEF InvRecord
    <3> QED
      BY <3>2, <3>3 DEF SameTasks
  <2> QED
    BY <2>3 DEF PlaceOK
\* A step that keeps the tasks, and is not at one of the places above.
<1>SettledPlace.
      ASSUME NEW i \in Invocations, inv'[i].pc = "apply" \/ inv'[i].pc = "returned", AllSettled(i), SameTasks(i)
      PROVE  PlaceOK(i)'
  BY <1>SettledPlace DEF PlaceOK, AllSettled, SameTasks
\* The steps of HandleCmd keep it.
<1>ActsPlace.
      ASSUME Typed, Grows, NEW i \in Invocations, Fresh(i), AppendOK(i), PlaceOK(i), Acts(i), conf' = conf
      PROVE  PlaceOK(i)'
  <2> USE <1>ActsPlace
  <2>1. CASE Handle(i)
    BY <2>1, HandleIs DEF OnlyMoves, Moves, PlaceOK
  <2>2. CASE HandleRecorded(i)
    <3>1. Goto(i, "noop") \/ Goto(i, "envs")
      BY <2>2 DEF HandleRecorded, AfterAppend
    <3>2. inv'[i].pc \in {"noop", "envs"}
      BY <3>1, GotoIs, Names DEF OnlyMoves, Moves
    <3> QED
      BY <3>2 DEF PlaceOK
  <2>3. CASE HandleReplayed(i)
    BY <2>3, ReplayedIs DEF Moves, AfterAppend, PlaceOK
  <2>4. CASE ReturnNoOp(i)
    <3>1. AllSettled(i)
      BY <2>4 DEF ReturnNoOp, Fresh, Before, AllSettled
    <3>2. inv'[i].pc = "returned" /\ SameTasks(i)
      BY <2>4, ReturnNoOpIs DEF Moves
    <3> QED
      BY <3>1, <3>2, <1>SettledPlace
  <2>5. CASE ReadEnvelopes(i)
    <3>1. Own(inv[i].start, inv[i].end, i) /\ inv[i].start \in Versions /\ inv[i].end \in Versions
      BY <2>5, TypedParts DEF ReadEnvelopes, AppendOK, InvRecord
    <3>2. inv[i].start \in Nat /\ inv[i].end \in Nat /\ Len(TypesOf(i)) \in Nat /\ Len(TypesOf(i)) > 0
          /\ Len(log) \in Nat /\ Len(log') \in Nat /\ Len(log) <= Len(log')
          /\ 0 < inv[i].start /\ inv[i].end = inv[i].start + Len(TypesOf(i)) - 1 /\ inv[i].end <= Len(log)
      BY <3>1, Bounds, LogLength DEF Own, Grows
    <3>3. Len(log') > 0
      BY <3>2, SMTT(30), SMTT(60)
    <3> QED
      BY <2>5, <3>3, ReadEnvelopesIs DEF Moves, PlaceOK
  <2>6. CASE ReadState(i)
    <3>1. Moves(i, "fanout") /\ SameTasks(i) /\ \A s \in Subs : inv[i].task[s] = "none"
      BY <2>6, ReadStateIs DEF ReadState, Fresh, Before
    <3> QED
      BY <3>1, Places DEF Moves, SameTasks, PlaceOK
  <2>7. CASE SkipFiltered(i) \/ SpawnAsync(i)
    <3>1. inv[i].pc = "fanout" /\ More(i) /\ inv' = [inv EXCEPT ![i].next = @ + 1]
      BY <2>7 DEF SkipFiltered, SpawnAsync
    <3> QED
      BY <3>1, TurnIs, <1>TurnPlace DEF Moves
  <2>8. CASE RunAsync(i)
    <3>1. inv[i].pc = "fanout" /\ More(i)
      BY <2>8 DEF RunAsync
    <3> QED
      BY <2>8, <3>1, RunAsyncIs, <1>TurnPlace DEF Moves
  <2>9. CASE EndFanOut(i)
    BY <2>9, GotoIs, Names DEF EndFanOut, OnlyMoves, Moves, PlaceOK
  <2>10. ASSUME NEW s \in Subs, SyncAttempt(i, s) PROVE PlaceOK(i)'
    <3>1. Busy(i, s)
      BY <2>10 DEF SyncAttempt, Busy
    <3>2. PICK t \in {"succeeded", "run", "gave up"} :
              Moves(i, inv[i].pc) /\ SameNext(i) /\ inv'[i].task = [inv[i].task EXCEPT ![s] = t]
      BY <2>10, SyncAttemptIs
    <3>3. t \in Tasks /\ inv'[i].pc = inv[i].pc
      BY <3>2, Names DEF Moves
    <3> QED
      BY <3>1, <3>2, <3>3, <1>TaskPlace
  <2>11. ASSUME NEW s \in Subs, RecordSync(i, s) PROVE PlaceOK(i)'
    <3>1. Busy(i, s)
      BY <2>11 DEF RecordSync, Busy
    <3>2. PICK t \in Tasks : inv'[i].pc = inv[i].pc /\ SameNext(i) /\ inv'[i].task = [inv[i].task EXCEPT ![s] = t]
      BY <2>11, RecordSyncIs, Names DEF Moves, Result
    <3> QED
      BY <3>1, <3>2, <1>TaskPlace
  <2>12. CASE WaitAll(i)
    <3>1. AllSettled(i)
      BY <2>12 DEF WaitAll
    <3>2. inv'[i].pc = "apply" /\ SameTasks(i)
      BY <2>12, WaitAllIs DEF Moves
    <3> QED
      BY <3>1, <3>2, <1>SettledPlace
  <2>13. CASE NothingToApply(i) \/ Drop(i) \/ DeadLetter(i)
    <3>1. inv[i].pc = "apply" /\ More(i) /\ inv' = [inv EXCEPT ![i].next = @ + 1]
      BY <2>13 DEF NothingToApply, Drop, DeadLetter, Exhausted
    <3>2. AllSettled(i)
      BY <3>1 DEF PlaceOK
    <3>3. inv'[i].pc = "apply" /\ SameTasks(i)
      BY <3>1, TurnIs DEF Moves
    <3> QED
      BY <3>2, <3>3, <1>SettledPlace
  <2>14. CASE StartCompensation(i)
    <3>1. /\ inv[i].pc = "apply" /\ inv[i].task[Current(i)] = "exhausted" /\ Sub(Current(i)).policy = "compensate"
          /\ AllSettled(i)
      BY <2>14 DEF StartCompensation, Exhausted, PlaceOK
    <3>2. CASE OnlyMoves(i, "failed")
      BY <3>2 DEF OnlyMoves, Moves, PlaceOK
    <3>3. CASE inv'[i].pc = "nested" /\ SameNext(i) /\ SameTasks(i)
      BY <3>1, <3>3 DEF PlaceOK, AllSettled, Current, Sub, SameNext, SameTasks
    <3> QED
      BY <2>14, <3>2, <3>3, StartCompensationIs
  <2>15. CASE EndCompensation(i)
    <3>1. AllSettled(i)
      BY <2>15 DEF EndCompensation, PlaceOK
    <3>2. CASE OnlyMoves(i, "failed")
      BY <3>2 DEF OnlyMoves, Moves, PlaceOK
    <3>3. CASE Moves(i, "apply") /\ SameTasks(i)
      BY <3>1, <3>3, <1>SettledPlace DEF Moves
    <3> QED
      BY <2>15, <3>2, <3>3, EndCompensationIs
  <2>16. CASE Return(i)
    <3>1. AllSettled(i)
      BY <2>16 DEF Return, PlaceOK
    <3>2. inv'[i].pc = "returned" /\ SameTasks(i)
      BY <2>16, ReturnIs DEF Moves
    <3> QED
      BY <3>1, <3>2, <1>SettledPlace
  <2>17. CASE StepFails(i)
    BY <2>17, GotoIs, Names DEF StepFails, OnlyMoves, Moves, PlaceOK
  <2> QED
    BY <2>1, <2>2, <2>3, <2>4, <2>5, <2>6, <2>7, <2>8, <2>9, <2>10, <2>11, <2>12, <2>13, <2>14, <2>15,
       <2>16, <2>17 DEF Acts, InvStep
\* The step itself.
<1> SUFFICES ASSUME Typed, NestInv, AppendInv, PlaceInv, [Next]_vars PROVE PlaceInv'
  OBVIOUS
<1> SUFFICES ASSUME NEW j \in Invocations PROVE PlaceOK(j)'
  BY DEF PlaceInv
<1>0. Grows /\ conf' = conf /\ PlaceOK(j) /\ Fresh(j) /\ AppendOK(j)
  BY LogKept, Fixed DEF PlaceInv, NestInv, AppendInv
<1>1. ASSUME inv'[j] = inv[j] PROVE PlaceOK(j)'
  <2>1. Len(log) > 0 => Len(log') > 0
    <3>1. Len(log) \in Nat /\ Len(log') \in Nat /\ Len(log) <= Len(log')
      BY <1>0, LogLength DEF Grows
    <3> QED
      BY <3>1, SMTT(30), SMTT(60)
  <2>2. AllSettled(j)' <=> AllSettled(j)
    BY <1>1 DEF AllSettled
  <2>3. Current(j)' = Current(j) /\ Sub(Current(j))' = Sub(Current(j))
    BY <1>0, <1>1 DEF Current, Sub
  <2> QED
    BY <1>0, <1>1, <2>1, <2>2, <2>3 DEF PlaceOK
<1>2. ASSUME inv'[j].pc \in {"none", "append", "lost"} PROVE PlaceOK(j)'
  BY <1>2 DEF PlaceOK
<1>3. CASE Restarts(j)
  <2>1. inv'[j] = inv[j] \/ inv'[j].pc \in {"none", "append", "lost"}
    BY <1>3, RestartIs DEF Blank
  <2> QED
    BY <1>1, <1>2, <2>1
<1>4. CASE Acts(j)
  BY <1>0, <1>4, <1>ActsPlace
<1> QED
  BY <1>1, <1>2, <1>3, <1>4, Fate DEF Rests, Begins

\* In the initial state nothing has begun.
LEMMA InitPlace == ASSUME Init PROVE PlaceInv
BY DEF Init, NoInv, PlaceInv, PlaceOK

-------------------------------------------------------------------------------
(* The steps after the append *)

\* The steps that settle the append and read the batch.
Early(i) == Handle(i) \/ HandleRecorded(i) \/ HandleReplayed(i) \/ ReturnNoOp(i) \/ ReadEnvelopes(i)

\* From there on the batch is fixed, and so is what the steps to come do not say.
Later(i) ==
    /\ log' = log /\ SameBatch(i) /\ (inv[i].mutated => inv'[i].mutated)
    /\ journal'[i].append = journal[i].append /\ journal'[i].envs = journal[i].envs
    /\ inv'[i].pc \in {"fanout", "wait", "apply", "nested"} =>
          inv[i].pc \in {"state", "fanout", "wait", "apply", "nested"}
    /\ inv'[i].pc \in {"fanout", "wait"} => ReadState(i) \/ inv[i].pc \in {"fanout", "wait"}
    /\ inv'[i].pc \in Before => inv'[i].pc = inv[i].pc
    /\ inv'[i].pc = "returned" => Return(i) \/ inv[i].pc = "returned"
    /\ ReadState(i) \/ journal'[i].state = journal[i].state
    /\ ReadState(i) \/ Return(i) \/ SameState(i)
    /\ (\E s \in Subs : RecordSync(i, s)) \/ journal'[i].task = journal[i].task
    /\ (\E s \in Subs : SyncAttempt(i, s)) \/ given' = given
    /\ RunAsync(i) \/ (\E s \in Subs : SyncAttempt(i, s) \/ RecordSync(i, s)) \/ SameTasks(i)

\* Every other step is one of these.
LEMMA LaterStep ==
    ASSUME Typed, NEW i \in Invocations, Acts(i), ~Early(i)
    PROVE  Later(i)
<1>1. CASE ReadState(i)
  <2>1. log' = log /\ given' = given
    BY <1>1 DEF ReadState
  <2> QED
    BY <1>1, <2>1, ReadStateIs, RecordStateIs DEF ReadState, Moves, Later, Before, SameMark
<1>2. CASE SkipFiltered(i) \/ SpawnAsync(i) \/ NothingToApply(i) \/ Drop(i) \/ DeadLetter(i)
  <2>1. /\ log' = log /\ given' = given /\ journal' = journal
        /\ More(i) /\ inv' = [inv EXCEPT ![i].next = @ + 1]
    BY <1>2 DEF SkipFiltered, SpawnAsync, NothingToApply, Drop, DeadLetter, Exhausted
  <2>2. Moves(i, inv[i].pc) /\ SameBatch(i) /\ SameState(i) /\ SameTasks(i) /\ (inv[i].mutated => inv'[i].mutated)
    BY <2>1, TurnIs DEF SameMark
  <2> QED
    BY <2>1, <2>2 DEF Moves, Later
<1>3. CASE EndFanOut(i)
  <2>1. log' = log /\ given' = given /\ journal' = journal /\ inv[i].pc = "fanout" /\ Goto(i, "wait")
    BY <1>3 DEF EndFanOut
  <2>2. OnlyMoves(i, "wait")
    BY <2>1, GotoIs, Names
  <2> QED
    BY <2>1, <2>2 DEF OnlyMoves, Moves, Later, Before, SameMark
<1>4. CASE StepFails(i)
  <2>1. log' = log /\ given' = given /\ journal' = journal /\ Goto(i, "failed")
    BY <1>4 DEF StepFails
  <2>2. OnlyMoves(i, "failed")
    BY <2>1, GotoIs, Names
  <2> QED
    BY <2>1, <2>2 DEF OnlyMoves, Moves, Later, Before, SameMark
<1>5. CASE RunAsync(i)
  <2>1. log' = log /\ given' = given /\ journal' = journal
    BY <1>5 DEF RunAsync
  <2> QED
    BY <1>5, <2>1, RunAsyncIs DEF Moves, Later, SameMark
<1>6. ASSUME NEW s \in Subs, SyncAttempt(i, s) PROVE Later(i)
  <2>1. log' = log /\ journal' = journal
    BY <1>6 DEF SyncAttempt
  <2>2. Moves(i, inv[i].pc) /\ SameBatch(i) /\ SameState(i) /\ (inv[i].mutated => inv'[i].mutated)
    BY <1>6, SyncAttemptIs DEF SameMark
  <2> QED
    BY <1>6, <2>1, <2>2 DEF Moves, Later
<1>7. ASSUME NEW s \in Subs, RecordSync(i, s) PROVE Later(i)
  <2>1. log' = log /\ given' = given
    BY <1>7 DEF RecordSync
  <2>2. Moves(i, inv[i].pc) /\ SameBatch(i) /\ SameState(i) /\ (inv[i].mutated => inv'[i].mutated)
    BY <1>7, RecordSyncIs DEF SameMark
  <2>3. /\ journal'[i].append = journal[i].append /\ journal'[i].envs = journal[i].envs
        /\ journal'[i].state = journal[i].state
    BY <1>7, RecordTaskIs
  <2> QED
    BY <1>7, <2>1, <2>2, <2>3 DEF Moves, Later
<1>8. CASE WaitAll(i)
  <2>1. log' = log /\ given' = given /\ journal' = journal /\ inv[i].pc = "wait"
    BY <1>8 DEF WaitAll
  <2> QED
    BY <1>8, <2>1, WaitAllIs DEF Moves, Later, Before, SameMark
<1>9. CASE StartCompensation(i)
  <2>1. log' = log /\ given' = given /\ journal' = journal /\ inv[i].pc = "apply"
    BY <1>9 DEF StartCompensation, Exhausted
  <2>2. inv'[i].pc \in {"nested", "failed"} /\ SameBatch(i) /\ SameState(i) /\ SameTasks(i) /\ (inv[i].mutated => inv'[i].mutated)
    BY <1>9, StartCompensationIs DEF OnlyMoves, Moves, SameMark
  <2> QED
    BY <2>1, <2>2 DEF Later, Before
<1>10. CASE EndCompensation(i)
  <2>1. log' = log /\ given' = given /\ journal' = journal /\ inv[i].pc = "nested"
    BY <1>10 DEF EndCompensation
  <2>2. inv'[i].pc \in {"apply", "failed"} /\ SameBatch(i) /\ SameState(i) /\ SameTasks(i) /\ (inv[i].mutated => inv'[i].mutated)
    BY <1>10, EndCompensationIs DEF OnlyMoves, Moves, SameMark
  <2> QED
    BY <2>1, <2>2 DEF Later, Before
<1>11. CASE Return(i)
  <2>1. log' = log /\ given' = given /\ journal' = journal /\ inv[i].pc = "apply"
    BY <1>11 DEF Return
  <2> QED
    BY <1>11, <2>1, ReturnIs DEF Moves, Later, Before, SameMark
<1> QED
  BY <1>1, <1>2, <1>3, <1>4, <1>5, <1>6, <1>7, <1>8, <1>9, <1>10, <1>11 DEF Acts, InvStep, Early

\* What the steps before that do.
Sooner(i) ==
    /\ inv[i].pc \in Before /\ inv'[i].pc \in {"appended", "noop", "envs", "state", "failed", "returned"}
    /\ SameTasks(i) /\ SameMark(i) /\ SameNext(i)
    /\ given' = given /\ outcome' = outcome /\ child' = child
    /\ journal'[i].state = journal[i].state /\ journal'[i].task = journal[i].task

\* The steps before the dispatch are Sooner.
LEMMA SoonerStep ==
    ASSUME Typed, NEW i \in Invocations, Early(i)
    PROVE  Sooner(i)
<1>1. given' = given /\ outcome' = outcome /\ child' = child
  BY DEF Early, Handle, HandleRecorded, HandleReplayed, ReturnNoOp, ReadEnvelopes
<1>2. journal'[i].state = journal[i].state /\ journal'[i].task = journal[i].task
  <2>1. CASE Handle(i) \/ HandleReplayed(i) \/ ReturnNoOp(i)
    BY <2>1 DEF Handle, HandleReplayed, ReturnNoOp
  <2>2. CASE HandleRecorded(i)
    BY <2>2, RecordAppendIs
  <2>3. CASE ReadEnvelopes(i)
    BY <2>3, RecordEnvelopesIs
  <2> QED
    BY <2>1, <2>2, <2>3 DEF Early
<1>3. inv[i].pc \in Before
  BY DEF Early, Handle, HandleRecorded, HandleReplayed, ReturnNoOp, ReadEnvelopes, Before
<1>4. /\ inv'[i].pc \in {"appended", "noop", "envs", "state", "failed", "returned"}
      /\ SameTasks(i) /\ SameMark(i) /\ SameNext(i)
  <2>1. CASE Handle(i)
    BY <2>1, HandleIs DEF OnlyMoves, Moves
  <2>2. CASE HandleRecorded(i)
    <3>1. Goto(i, "noop") \/ Goto(i, "envs")
      BY <2>2 DEF HandleRecorded, AfterAppend
    <3>2. OnlyMoves(i, "noop") \/ OnlyMoves(i, "envs")
      BY <3>1, GotoIs, Names
    <3> QED
      BY <3>2 DEF OnlyMoves, Moves
  <2>3. CASE HandleReplayed(i)
    BY <2>3, ReplayedIs DEF Moves, AfterAppend
  <2>4. CASE ReturnNoOp(i)
    BY <2>4, ReturnNoOpIs DEF Moves
  <2>5. CASE ReadEnvelopes(i)
    BY <2>5, ReadEnvelopesIs DEF Moves
  <2> QED
    BY <2>1, <2>2, <2>3, <2>4, <2>5 DEF Early
<1> QED
  BY <1>1, <1>2, <1>3, <1>4 DEF Sooner

\* Of these only the return of a command without events returns.
LEMMA SoonerReturn ==
    ASSUME Typed, NEW i \in Invocations, Early(i), inv'[i].pc = "returned"
    PROVE  ReturnNoOp(i)
<1>1. Handle(i) => inv'[i].pc # "returned"
  BY HandleIs DEF OnlyMoves, Moves
<1>2. HandleRecorded(i) => inv'[i].pc # "returned"
  <2>1. HandleRecorded(i) => Goto(i, "noop") \/ Goto(i, "envs")
    BY DEF HandleRecorded, AfterAppend
  <2> QED
    BY <2>1, GotoIs, Names DEF OnlyMoves, Moves
<1>3. HandleReplayed(i) => inv'[i].pc # "returned"
  BY ReplayedIs DEF Moves, AfterAppend
<1>4. ReadEnvelopes(i) => inv'[i].pc # "returned"
  BY ReadEnvelopesIs DEF Moves
<1> QED
  BY <1>1, <1>2, <1>3, <1>4 DEF Early

-------------------------------------------------------------------------------
(* The journal *)

\* Without a journal nothing is recorded; with one, the batch an invocation has is
\* the recorded one.
JournalOK(i) ==
    /\ ~conf.durable =>
          /\ journal[i].append = <<>> /\ journal[i].envs = {} /\ journal[i].state = 0
          /\ \A s \in Subs : journal[i].task[s] = "none"
    /\ conf.durable =>
          /\ inv[i].pc \in {"envs", "state"} => journal[i].append # <<>>
          /\ inv[i].pc \in {"state", "fanout", "wait", "apply", "nested"} => inv[i].envs = journal[i].envs

\* The fifth layer: what is recorded is what the invocation knows.
JournalInv == \A i \in Invocations : JournalOK(i)

\* Every step keeps it.
LEMMA NextJournal == Typed /\ NestInv /\ JournalInv /\ [Next]_vars => JournalInv'
\* Without a journal a step records nothing.
<1>NothingRecorded.
      ASSUME NEW i \in Invocations, Acts(i), ~conf.durable
      PROVE  journal' = journal
  BY <1>NothingRecorded DEF Acts, InvStep, Handle, HandleRecorded, RecordAppend, HandleReplayed, ReturnNoOp, ReadEnvelopes,
      ReadState, Journal, SkipFiltered, SpawnAsync, RunAsync, EndFanOut, SyncAttempt, RecordSync, WaitAll,
      NothingToApply, Drop, DeadLetter, StartCompensation, EndCompensation, Return, StepFails
\* The steps of HandleCmd keep JournalOK.
<1>ActsJournal.
      ASSUME Typed, NEW i \in Invocations, JournalOK(i), Acts(i), conf' = conf, conf.durable,
             journal'[i].append = <<>> => journal[i].append = <<>>
      PROVE  JournalOK(i)'
  <2> USE <1>ActsJournal
  <2>1. CASE ~Early(i)
    <3>1. Later(i)
      BY <2>1, LaterStep
    <3> QED
      BY <3>1 DEF Later, JournalOK, SameBatch, Before
  <2>2. CASE ReadEnvelopes(i)
    <3>1. journal'[i].envs = EnvelopesOf(i)
      BY <2>2, RecordEnvelopesIs
    <3>2. inv'[i].envs = EnvelopesOf(i) /\ inv'[i].pc = "state"
      BY <2>2, ReadEnvelopesIs DEF Moves
    <3>3. inv[i].pc = "envs"
      BY <2>2 DEF ReadEnvelopes
    <3> QED
      BY <3>1, <3>2, <3>3 DEF JournalOK
  <2>3. CASE Handle(i)
    BY <2>3, HandleIs DEF JournalOK, OnlyMoves, Moves
  <2>4. CASE ReturnNoOp(i)
    BY <2>4, ReturnNoOpIs DEF JournalOK, Moves
  <2>5. CASE HandleReplayed(i)
    <3>1. journal[i].append # <<>>
      BY <2>5 DEF HandleReplayed
    <3>2. inv'[i].pc = "noop" \/ inv'[i].pc = "envs"
      BY <2>5, ReplayedIs DEF Moves, AfterAppend
    <3> QED
      BY <3>1, <3>2 DEF JournalOK
  <2>6. CASE HandleRecorded(i)
    <3>1. journal'[i].append = <<inv[i].start, inv[i].end>>
      BY <2>6, RecordAppendIs
    <3>2. journal'[i].append # <<>>
      BY <3>1, SMTT(30)
    <3>3. Goto(i, "noop") \/ Goto(i, "envs")
      BY <2>6 DEF HandleRecorded, AfterAppend
    <3>4. inv'[i].pc = "noop" \/ inv'[i].pc = "envs"
      BY <3>3, GotoIs, Names DEF OnlyMoves, Moves
    <3> QED
      BY <3>2, <3>4 DEF JournalOK
  <2> QED
    BY <2>1, <2>2, <2>3, <2>4, <2>5, <2>6 DEF Early
\* The step itself.
<1> SUFFICES ASSUME Typed, NestInv, JournalInv, [Next]_vars PROVE JournalInv'
  OBVIOUS
<1> SUFFICES ASSUME NEW j \in Invocations PROVE JournalOK(j)'
  BY DEF JournalInv
<1>1. JournalOK(j) /\ conf' = conf
  BY Fixed DEF JournalInv
<1>2. journal'[j].append = <<>> => journal[j].append = <<>>
  BY AppendStaysRecorded
<1>3. CASE Rests(j)
  BY <1>1, <1>3 DEF Rests, JournalOK
<1>4. CASE Begins(j)
  BY <1>1, <1>4 DEF Begins, JournalOK
<1>5. CASE Restarts(j)
  BY <1>1, <1>5, RestartIs DEF JournalOK, Blank
<1>6. CASE Acts(j) /\ conf.durable
  BY <1>1, <1>2, <1>6, <1>ActsJournal
<1>7. CASE Acts(j) /\ ~conf.durable
  BY <1>1, <1>7, <1>NothingRecorded DEF JournalOK
<1> QED
  BY <1>3, <1>4, <1>5, <1>6, <1>7, Fate

\* Nothing is recorded in the initial state.
LEMMA InitJournal == ASSUME Init PROVE JournalInv
<1> SUFFICES ASSUME NEW i \in Invocations PROVE JournalOK(i)
  BY DEF JournalInv
<1>1. inv[i].pc = "none" /\ journal[i] = NoJournal
  BY DEF Init, NoInv
<1>2. /\ journal[i].append = <<>> /\ journal[i].envs = {} /\ journal[i].state = 0
      /\ \A s \in Subs : journal[i].task[s] = "none"
  BY <1>1, SMTT(30) DEF NoJournal
<1> QED
  BY <1>1, <1>2 DEF JournalOK

-------------------------------------------------------------------------------
(* The state that subscribers get *)

\* A Sync subscriber of i may yet be called.
Active(i) == inv[i].pc \in {"fanout", "wait"} \/ \E s \in Subs : inv[i].task[s] = "run"

\* Version v includes what i appended.
Covers(v, i) == \A w \in Written(i) : w <= v

\* The state to hand out is the one handed out before, here or before a crash.
StateOK(i) ==
    /\ Active(i) => given[i] \subseteq {inv[i].state} /\ Covers(inv[i].state, i)
    /\ \A v, w \in given[i] : v = w
    /\ \A v \in given[i] : Covers(v, i)
    /\ conf.durable =>
          /\ journal[i].state # 0 =>
                journal[i].append # <<>> /\ given[i] \subseteq {journal[i].state} /\ Covers(journal[i].state, i)
          /\ given[i] # {} => journal[i].state # 0
          /\ Active(i) => inv[i].state = journal[i].state /\ journal[i].state # 0
    /\ ~conf.durable /\ Alive(i) /\ inv[i].pc \in Before => given[i] = {}

\* The sixth layer: the state that subscribers are handed.
StateInv == \A i \in Invocations : StateOK(i)

\* A step that hands out no state and leaves what i appended as it was.
Silent(i) ==
    /\ given'[i] = given[i] /\ Written(i)' = Written(i) /\ journal'[i].state = journal[i].state
    /\ Active(i)' => Active(i) /\ SameState(i)

\* What the other layers say of any step.
Steady(i) ==
    /\ conf' = conf
    /\ journal'[i].append = <<>> => journal[i].append = <<>>
    /\ ~conf.durable /\ Alive(i)' => Alive(i) /\ (inv'[i].pc \in Before => inv[i].pc \in Before)

\* Every step is Steady.
LEMMA NextSteady ==
    ASSUME Typed, NestInv, NEW j \in Invocations, [Next]_vars
    PROVE  Steady(j)
BY Fixed, AppendStaysRecorded, AliveKept DEF Steady

\* What i wrote is in the stream.
LEMMA LogCovers ==
    ASSUME Typed, NEW i
    PROVE  Covers(Len(log), i)
BY LogLength, SMTT(30) DEF Covers, Written

\* Every step keeps StateInv.
LEMMA NextState ==
    Typed /\ NestInv /\ PlaceInv /\ JournalInv /\ StateInv /\ [Next]_vars
    => StateInv'
\* A step that leaves the state alone keeps StateOK.
<1>SilentState.
      ASSUME NEW i \in Invocations, StateOK(i), Steady(i), Silent(i)
      PROVE  StateOK(i)'
  <2> USE <1>SilentState
  <2>1. ASSUME NEW v PROVE Covers(v, i)' <=> Covers(v, i)
    BY DEF Covers, Silent
  <2>2. conf' = conf /\ given'[i] = given[i] /\ journal'[i].state = journal[i].state
    BY DEF Steady, Silent
  <2>3. ASSUME Active(i)'
        PROVE  /\ given'[i] \subseteq {inv'[i].state} /\ Covers(inv[i].state, i)'
               /\ conf'.durable => inv'[i].state = journal'[i].state /\ journal'[i].state # 0
    BY <2>1, <2>2, <2>3 DEF StateOK, Silent, SameState
  <2>4. ASSUME conf'.durable
        PROVE  /\ journal'[i].state # 0 =>
                     /\ journal'[i].append # <<>> /\ given'[i] \subseteq {journal'[i].state}
                     /\ Covers(journal[i].state, i)'
               /\ given'[i] # {} => journal'[i].state # 0
    BY <2>1, <2>2, <2>4 DEF StateOK, Steady
  <2>5. ~conf'.durable /\ Alive(i)' /\ inv'[i].pc \in Before => given'[i] = {}
    BY <2>2 DEF StateOK, Steady
  <2>6. (\A v, w \in given'[i] : v = w) /\ \A v \in given'[i] : Covers(v, i)'
    BY <2>1, <2>2 DEF StateOK
  <2> QED
    BY <2>3, <2>4, <2>5, <2>6 DEF StateOK
\* The append comes before any subscriber is called.
<1>HandleState.
      ASSUME Typed, NEW i \in Invocations, Fresh(i), StateOK(i), Steady(i), Handle(i), Appends(i)
      PROVE  StateOK(i)'
  <2> USE <1>HandleState
  <2>1. inv[i].pc = "append" /\ journal[i].append = <<>> /\ journal' = journal /\ given' = given
    BY DEF Handle
  <2>2. given[i] = {} /\ (conf.durable => journal[i].state = 0)
    <3>1. Alive(i) /\ inv[i].pc \in Before
      BY <2>1 DEF Alive, Before
    <3> QED
      BY <2>1, <3>1 DEF StateOK
  <2>3. \A s \in Subs : inv[i].task[s] = "none"
    BY <2>1 DEF Fresh, Before
  <2>4. (inv'[i].pc = "appended" \/ inv'[i].pc = "failed") /\ SameTasks(i)
    BY HandleIs DEF OnlyMoves, Moves
  <2>5. ~Active(i)'
    BY <2>3, <2>4 DEF Active, SameTasks
  <2> QED
    BY <2>1, <2>2, <2>5 DEF StateOK, Steady
\* The state to hand out is loaded, or taken from the journal.
<1>ReadsState.
      ASSUME Typed, NEW i \in Invocations, Fresh(i), PlaceOK(i), JournalOK(i), StateOK(i), Steady(i),
             ReadState(i), Written(i)' = Written(i)
      PROVE  StateOK(i)'
  <2> USE <1>ReadsState
  <2> DEFINE v == PostDecideState(i)
  <2>1. inv[i].pc = "state" /\ given' = given /\ conf' = conf
    BY DEF ReadState
  <2>2. inv'[i].pc = "fanout" /\ inv'[i].state = v
    BY ReadStateIs DEF Moves
  <2>3. (conf.durable => journal'[i].state = v) /\ journal'[i].append = journal[i].append
    BY RecordStateIs
  <2>4. Alive(i) /\ inv[i].pc \in Before
    BY <2>1 DEF Alive, Before
  <2>5. \A w : Covers(w, i)' <=> Covers(w, i)
    BY DEF Covers
  <2>6. Len(log) > 0 /\ Len(log) \in Nat
    BY <2>1, LogLength DEF PlaceOK
  <2>7. Len(log) # 0
    BY <2>6, SMTT(30)
  <2>8. given[i] \subseteq {v} /\ Covers(v, i) /\ v # 0
    <3>1. CASE journal[i].state # 0
      <4>1. v = journal[i].state
        BY <3>1 DEF PostDecideState
      <4>2. conf.durable
        BY <3>1 DEF JournalOK
      <4> QED
        BY <3>1, <4>1, <4>2 DEF StateOK
    <3>2. CASE journal[i].state = 0
      <4>1. v = Len(log)
        BY <3>2 DEF PostDecideState
      <4>2. given[i] = {}
        BY <2>4, <3>2 DEF StateOK
      <4> QED
        BY <2>7, <4>1, <4>2, LogCovers
    <3> QED
      BY <3>1, <3>2
  <2>9. conf.durable => journal[i].append # <<>>
    BY <2>1 DEF JournalOK
  <2> HIDE DEF v
  <2>10. (\A u, w \in given'[i] : u = w) /\ \A u \in given'[i] : Covers(u, i)'
    BY <2>1, <2>5 DEF StateOK
  <2>11. inv'[i].pc \notin Before
    BY <2>2 DEF Before
  <2>12. /\ given'[i] \subseteq {inv'[i].state} /\ Covers(inv[i].state, i)'
         /\ conf'.durable => inv'[i].state = journal'[i].state /\ journal'[i].state # 0
    BY <2>1, <2>2, <2>3, <2>5, <2>8
  <2>13. conf'.durable =>
            /\ journal'[i].append # <<>> /\ given'[i] \subseteq {journal'[i].state}
            /\ Covers(journal[i].state, i)' /\ journal'[i].state # 0
    BY <2>1, <2>3, <2>5, <2>8, <2>9
  <2> QED
    BY <2>10, <2>11, <2>12, <2>13 DEF StateOK
\* A subscriber is called with the state of its invocation.
<1>AttemptState.
      ASSUME Typed, NEW i \in Invocations, Fresh(i), StateOK(i), Steady(i),
             NEW s \in Subs, SyncAttempt(i, s), Written(i)' = Written(i)
      PROVE  StateOK(i)'
  <2> USE <1>AttemptState
  <2>1. inv[i].task[s] = "run" /\ journal' = journal /\ conf' = conf
    BY DEF SyncAttempt
  <2>2. given'[i] = given[i] \cup {inv[i].state}
    <3>1. given' = [given EXCEPT ![i] = @ \cup {inv[i].state}] /\ given \in [Invocations -> SUBSET Versions]
      BY TypedParts DEF SyncAttempt
    <3> QED
      BY <3>1
  <2>3. Active(i)
    BY <2>1 DEF Active
  <2>4. inv'[i].state = inv[i].state /\ inv'[i].pc = inv[i].pc
    BY SyncAttemptIs DEF Moves, SameState
  <2>5. inv[i].pc \notin Before
    <3>1. inv[i].task[s] # "none"
      BY <2>1
    <3> QED
      BY <3>1 DEF Fresh
  <2>6. \A w : Covers(w, i)' <=> Covers(w, i)
    BY DEF Covers
  <2>7. given'[i] = {inv[i].state} /\ Covers(inv[i].state, i)
    BY <2>2, <2>3 DEF StateOK
  <2>8. conf.durable => inv[i].state = journal[i].state /\ journal[i].state # 0 /\ journal[i].append # <<>>
    BY <2>3 DEF StateOK
  <2>9. /\ given'[i] \subseteq {inv'[i].state} /\ Covers(inv[i].state, i)'
        /\ \A v, w \in given'[i] : v = w
        /\ \A v \in given'[i] : Covers(v, i)'
    BY <2>4, <2>6, <2>7
  <2>10. conf'.durable =>
            /\ journal'[i].append # <<>> /\ given'[i] \subseteq {journal'[i].state}
            /\ Covers(journal[i].state, i)' /\ journal'[i].state # 0
            /\ inv'[i].state = journal'[i].state
    BY <2>1, <2>4, <2>6, <2>7, <2>8
  <2> QED
    BY <2>4, <2>5, <2>9, <2>10 DEF StateOK
\* The steps of HandleCmd.
<1>ActsState.
      ASSUME Typed, NEW i \in Invocations, Fresh(i), PlaceOK(i), JournalOK(i), StateOK(i), Steady(i), Acts(i),
             ~(Handle(i) /\ Appends(i)) => Written(i)' = Written(i)
      PROVE  StateOK(i)'
  <2> USE <1>ActsState
  <2>1. CASE Handle(i) /\ Appends(i)
    BY <2>1, <1>HandleState
  <2>2. CASE Early(i) /\ ~(Handle(i) /\ Appends(i))
    <3>1. Sooner(i)
      BY <2>2, SoonerStep
    <3>2. \A s \in Subs : inv[i].task[s] = "none"
      BY <3>1 DEF Sooner, Fresh
    <3>3. ~Active(i)'
      BY <3>1, <3>2 DEF Sooner, Active, SameTasks
    <3>4. Silent(i)
      BY <2>2, <3>1, <3>3 DEF Sooner, Silent
    <3> QED
      BY <3>4, <1>SilentState
  <2>3. CASE ~Early(i)
    <3>1. Later(i)
      BY <2>3, LaterStep
    <3>2. Written(i)' = Written(i)
      BY <2>3 DEF Early
    <3>3. CASE ReadState(i)
      BY <3>2, <3>3, <1>ReadsState
    <3>4. CASE \E s \in Subs : SyncAttempt(i, s)
      BY <3>2, <3>4, <1>AttemptState
    <3>5. ASSUME ~ReadState(i), ~\E s \in Subs : SyncAttempt(i, s) PROVE StateOK(i)'
      <4>1. given' = given /\ journal'[i].state = journal[i].state
        BY <3>1, <3>5 DEF Later
      <4>2. ASSUME Active(i)' PROVE Active(i) /\ SameState(i)
        <5>1. CASE Return(i)
          <6>1. inv[i].pc = "apply" /\ inv'[i].pc = "returned" /\ SameTasks(i)
            BY <5>1, ReturnIs DEF Return, Moves
          <6>2. \A s \in Subs : inv[i].task[s] # "run"
            BY <6>1 DEF PlaceOK, AllSettled
          <6> QED
            BY <4>2, <6>1, <6>2 DEF Active, SameTasks
        <5>2. ASSUME ~Return(i) PROVE Active(i) /\ SameState(i)
          <6>1. SameState(i)
            BY <3>1, <3>5, <5>2 DEF Later
          <6>2. CASE inv'[i].pc \in {"fanout", "wait"}
            BY <3>1, <3>5, <6>1, <6>2 DEF Later, Active
          <6>3. ASSUME NEW s \in Subs, inv'[i].task[s] = "run" PROVE Active(i)
            <7>1. CASE RunAsync(i)
              BY <7>1 DEF RunAsync, Active
            <7>2. CASE SameTasks(i)
              BY <6>3, <7>2 DEF SameTasks, Active
            <7>3. ASSUME NEW t \in Subs, RecordSync(i, t) PROVE Active(i)
              <8>1. inv'[i].task = [inv[i].task EXCEPT ![t] = Result(i, t)] /\ Result(i, t) # "run"
                BY <7>3, RecordSyncIs DEF Result
              <8>2. inv[i].task \in [Subs -> Tasks]
                BY TypedParts DEF InvRecord
              <8>3. inv[i].task[s] = "run"
                BY <6>3, <8>1, <8>2
              <8> QED
                BY <8>3 DEF Active
            <7> QED
              BY <3>1, <3>5, <7>1, <7>2, <7>3 DEF Later
          <6> QED
            BY <4>2, <6>1, <6>2, <6>3 DEF Active
        <5> QED
          BY <5>1, <5>2
      <4>3. Silent(i)
        BY <3>2, <4>1, <4>2 DEF Silent
      <4> QED
        BY <4>3, <1>SilentState
    <3> QED
      BY <3>3, <3>4, <3>5
  <2> QED
    BY <2>1, <2>2, <2>3
\* The step itself.
<1> SUFFICES ASSUME Typed, NestInv, PlaceInv, JournalInv, StateInv, [Next]_vars PROVE StateInv'
  OBVIOUS
<1> SUFFICES ASSUME NEW j \in Invocations PROVE StateOK(j)'
  BY DEF StateInv
<1>1. StateOK(j) /\ Steady(j) /\ Fresh(j) /\ PlaceOK(j) /\ JournalOK(j)
  BY NextSteady DEF StateInv, NestInv, PlaceInv, JournalInv
<1>2. ~(Handle(j) /\ Appends(j)) => Written(j)' = Written(j)
  BY WrittenKept
<1>3. CASE Acts(j)
  BY <1>1, <1>2, <1>3, <1>ActsState
<1>4. ASSUME ~Acts(j) PROVE StateOK(j)'
  <2>1. Written(j)' = Written(j)
    BY <1>2, <1>4 DEF Acts, InvStep
  <2>2. CASE Rests(j)
    <3>1. Silent(j)
      BY <2>1, <2>2 DEF Rests, Silent, Active, SameState
    <3> QED
      BY <1>1, <3>1, <1>SilentState
  <2>3. CASE Begins(j)
    <3>1. Silent(j)
      BY <2>1, <2>3 DEF Begins, Silent, Active, SameTasks
    <3> QED
      BY <1>1, <3>1, <1>SilentState
  <2>4. CASE Restarts(j)
    <3>1. journal' = journal /\ given' = given
      BY <2>4, RestartIs
    <3>2. inv'[j] = inv[j] \/ Blank(j, "none") \/ Blank(j, "append") \/ Blank(j, "lost")
      BY <2>4, RestartIs
    <3>3. Active(j)' => Active(j) /\ SameState(j)
      BY <3>2 DEF Blank, Active, SameState
    <3>4. Silent(j)
      BY <2>1, <3>1, <3>3 DEF Silent
    <3> QED
      BY <1>1, <3>4, <1>SilentState
  <2> QED
    BY <1>4, <2>2, <2>3, <2>4, Fate
<1> QED
  BY <1>3, <1>4

\* No state is loaded in the initial state.
LEMMA InitState == ASSUME Init PROVE StateInv
<1> SUFFICES ASSUME NEW i \in Invocations PROVE StateOK(i)
  BY DEF StateInv
<1>1. inv[i] = NoInv /\ journal[i] = NoJournal /\ given[i] = {}
  BY DEF Init
<1>2. inv[i].pc = "none" /\ (\A s \in Subs : inv[i].task[s] = "none") /\ journal[i].state = 0
  BY <1>1, SMTT(30) DEF NoJournal, NoInv
<1>3. ~Active(i)
  BY <1>2 DEF Active
<1> QED
  BY <1>1, <1>2, <1>3 DEF StateOK

-------------------------------------------------------------------------------
(* Outcomes and children *)

\* What can become of an event at a subscriber.
Whats == {"handled", "dlq", "dropped", "compensated"}

\* The steps by which invocation i settles subscriber s.
Settles(i, s, w) ==
    \/ SyncAttempt(i, s) /\ w = "handled"
    \/ AsyncAttempt(i, s) /\ w # "compensated"
    \/ s = Current(i) /\ Drop(i) /\ w = "dropped"
    \/ s = Current(i) /\ DeadLetter(i) /\ w = "dlq"
    \/ s = Current(i) /\ EndCompensation(i) /\ w = "compensated"

\* The outcome of s for i changes in no other way.
OutcomeStep(i, s) ==
    \/ outcome'[<<i, s>>] = outcome[<<i, s>>]
    \/ \E w \in Whats : Settles(i, s, w) /\ outcome'[<<i, s>>] = outcome[<<i, s>>] \cup {w}

\* Settle adds one outcome and leaves the others alone.
LEMMA SettledIs ==
    ASSUME Typed, NEW i \in Invocations, NEW s \in Subs, NEW w \in Whats, Settle(i, s, w)
    PROVE  /\ outcome'[<<i, s>>] = outcome[<<i, s>>] \cup {w}
           /\ \A k \in Invocations \X Subs : k # <<i, s>> => outcome'[k] = outcome[k]
<1>1. w \in {"handled", "dlq", "dropped", "compensated"}
  BY DEF Whats
<1> QED
  BY <1>1, SettleIs, SMTT(30)

\* A step that settles is an OutcomeStep.
LEMMA SettledStep ==
    ASSUME Typed, NEW i \in Invocations, NEW s \in Subs, NEW j \in Invocations, NEW t \in Subs,
           NEW w \in Whats, Settle(j, t, w), Settles(j, t, w)
    PROVE  OutcomeStep(i, s)
<1>1. /\ outcome'[<<j, t>>] = outcome[<<j, t>>] \cup {w}
      /\ \A k \in Invocations \X Subs : k # <<j, t>> => outcome'[k] = outcome[k]
  BY SettledIs
<1>2. CASE <<i, s>> = <<j, t>>
  <2>1. i = j /\ s = t
    BY <1>2, Apart
  <2> QED
    BY <1>1, <2>1 DEF OutcomeStep
<1>3. CASE <<i, s>> # <<j, t>>
  <2>1. <<i, s>> \in Invocations \X Subs
    OBVIOUS
  <2> QED
    BY <1>1, <1>3, <2>1 DEF OutcomeStep
<1> QED
  BY <1>2, <1>3

\* Every step is.
LEMMA OutcomeChanges ==
    ASSUME Typed, NEW i \in Invocations, NEW s \in Subs, [Next]_vars
    PROVE  OutcomeStep(i, s)
<1>0. CASE outcome' = outcome
  BY <1>0 DEF OutcomeStep
<1>1. ASSUME NEW j \in Invocations, NEW t \in Subs, SyncAttempt(j, t) PROVE OutcomeStep(i, s)
  <2>1. outcome' = outcome \/ Settle(j, t, "handled")
    BY <1>1 DEF SyncAttempt
  <2>2. Settles(j, t, "handled") /\ "handled" \in Whats
    BY <1>1 DEF Settles, Whats
  <2> QED
    BY <1>0, <2>1, <2>2, SettledStep
<1>2. ASSUME NEW j \in Invocations, NEW t \in Subs, AsyncAttempt(j, t) PROVE OutcomeStep(i, s)
  <2>1. CASE outcome' = outcome
    BY <2>1, <1>0
  <2>2. ASSUME NEW w \in {"handled", "dlq", "dropped"}, Settle(j, t, w) PROVE OutcomeStep(i, s)
    <3>1. w \in Whats /\ w # "compensated"
      BY <2>2 DEF Whats
    <3>2. Settles(j, t, w)
      BY <1>2, <3>1 DEF Settles
    <3> QED
      BY <2>2, <3>1, <3>2, SettledStep
  <2>3. outcome' = outcome \/ \E w \in {"handled", "dlq", "dropped"} : Settle(j, t, w)
    BY <1>2, AsyncIs
  <2> QED
    BY <2>1, <2>2, <2>3
<1>3. ASSUME NEW j \in Invocations, Drop(j) PROVE OutcomeStep(i, s)
  <2>1. Current(j) \in Subs
    BY <1>3, Turn DEF Drop, Exhausted
  <2>2. Settle(j, Current(j), "dropped") /\ Settles(j, Current(j), "dropped") /\ "dropped" \in Whats
    BY <1>3 DEF Drop, Settles, Whats
  <2> QED
    BY <2>1, <2>2, SettledStep
<1>4. ASSUME NEW j \in Invocations, DeadLetter(j) PROVE OutcomeStep(i, s)
  <2>1. Current(j) \in Subs
    BY <1>4, Turn DEF DeadLetter, Exhausted
  <2>2. Settle(j, Current(j), "dlq") /\ Settles(j, Current(j), "dlq") /\ "dlq" \in Whats
    BY <1>4 DEF DeadLetter, Settles, Whats
  <2> QED
    BY <2>1, <2>2, SettledStep
<1>5. ASSUME NEW j \in Invocations, EndCompensation(j) PROVE OutcomeStep(i, s)
  <2>1. More(j) /\ (outcome' = outcome \/ Settle(j, Current(j), "compensated"))
    BY <1>5, EndCompensationIs
  <2>2. Current(j) \in Subs
    BY <2>1, Turn
  <2>3. Settles(j, Current(j), "compensated") /\ "compensated" \in Whats
    BY <1>5 DEF Settles, Whats
  <2> QED
    BY <1>0, <2>1, <2>2, <2>3, SettledStep
<1>6. ASSUME NEW j \in Invocations, InvStep(j) PROVE OutcomeStep(i, s)
  <2>1. \/ outcome' = outcome \/ (\E t \in Subs : SyncAttempt(j, t))
        \/ Drop(j) \/ DeadLetter(j) \/ EndCompensation(j)
    BY <1>6
    DEF InvStep, Handle, HandleRecorded, HandleReplayed, ReturnNoOp, ReadEnvelopes, ReadState,
        SkipFiltered, SpawnAsync, RunAsync, EndFanOut, RecordSync, WaitAll, NothingToApply,
        StartCompensation, Return
  <2> QED
    BY <1>0, <1>1, <1>3, <1>4, <1>5, <2>1
<1>7. CASE UNCHANGED vars
  BY <1>0, <1>7 DEF vars
<1>8. CASE Fault
  <2>1. outcome' = outcome
    BY <1>8 DEF Fault, Crash, StepFails, Retried, ChildFails
  <2> QED
    BY <1>0, <2>1
<1>9. CASE OtherWriter \/ \E c \in Commands : Call(c)
  <2>1. outcome' = outcome
    BY <1>9 DEF OtherWriter, Call
  <2> QED
    BY <1>0, <2>1
<1> QED
  BY <1>2, <1>6, <1>7, <1>8, <1>9 DEF Next, NormalStep, AsyncStep

\* A child is started by the fan-out, and once started it stays, in some state.
ChildStep(i, s) ==
    \/ child'[<<i, s>>].st = child[<<i, s>>].st
    \/ SpawnAsync(i) /\ s = Current(i) /\ child'[<<i, s>>].st # "none"
    \/ child[<<i, s>>].st = "run" /\ child'[<<i, s>>].st # "none"

\* It is started.
LEMMA SpawnIs ==
    ASSUME Typed, NEW i \in Invocations, SpawnAsync(i)
    PROVE  /\ child'[<<i, Current(i)>>].st # "none"
           /\ \A k \in Invocations \X Subs : k # <<i, Current(i)>> => child'[k] = child[k]
<1> DEFINE k == <<i, Current(i)>>
<1>1. Current(i) \in Subs /\ child \in [Invocations \X Subs -> ChildRecord]
  BY Turn, TypedParts DEF SpawnAsync
<1>2. k \in Invocations \X Subs
  BY <1>1
<1>3. CASE child' = child /\ child[k].st # "none"
  BY <1>3
<1>4. CASE child' = [child EXCEPT ![k] = [st |-> "run", tries |-> 0]]
  <2>1. child'[k] = [st |-> "run", tries |-> 0] /\ \A l \in Invocations \X Subs : l # k => child'[l] = child[l]
    BY <1>1, <1>2, <1>4
  <2>2. child'[k].st = "run"
    BY <2>1, SMTT(30)
  <2> QED
    BY <2>1, <2>2
<1>5. (child' = child /\ child[k].st # "none") \/ child' = [child EXCEPT ![k] = [st |-> "run", tries |-> 0]]
  BY DEF SpawnAsync
<1> QED
  BY <1>3, <1>4, <1>5

\* How the workflow of a subscriber changes.
LEMMA ChildChanges ==
    ASSUME Typed, NEW i \in Invocations, NEW s \in Subs, [Next]_vars
    PROVE  ChildStep(i, s)
<1> DEFINE k == <<i, s>>
<1>0. CASE child' = child
  BY <1>0 DEF ChildStep
<1>1. k \in Invocations \X Subs /\ child \in [Invocations \X Subs -> ChildRecord]
  BY TypedParts
<1>2. ASSUME NEW j \in Invocations, SpawnAsync(j) PROVE ChildStep(i, s)
  <2>1. /\ child'[<<j, Current(j)>>].st # "none"
        /\ k # <<j, Current(j)>> => child'[k] = child[k]
    BY <1>1, <1>2, SpawnIs
  <2>2. k = <<j, Current(j)>> => i = j /\ s = Current(j)
    BY Apart
  <2> QED
    BY <1>2, <2>1, <2>2 DEF ChildStep
<1>3. ASSUME NEW j \in Invocations, NEW t \in Subs, AsyncAttempt(j, t) PROVE ChildStep(i, s)
  <2>1. /\ \A l \in Invocations \X Subs : l # <<j, t>> => child'[l] = child[l]
        /\ child[<<j, t>>].st = "run" /\ (child'[<<j, t>>].st = "run" \/ child'[<<j, t>>].st = "done")
    BY <1>3, AsyncIs
  <2>2. k = <<j, t>> \/ child'[k] = child[k]
    BY <1>1, <2>1
  <2> QED
    BY <2>1, <2>2 DEF ChildStep
<1>4. ASSUME NEW l \in DOMAIN child, ChildFails(l) PROVE ChildStep(i, s)
  <2>1. l \in Invocations \X Subs /\ child[l].st = "run" /\ child' = [child EXCEPT ![l] = [child[l] EXCEPT !.st = "failed"]]
    BY <1>1, <1>4 DEF ChildFails
  <2>2. k # l => child'[k] = child[k]
    BY <1>1, <2>1
  <2>3. k = l => child'[k] = [child[k] EXCEPT !.st = "failed"]
    BY <1>1, <2>1
  <2>4. child[k] \in ChildRecord
    BY <1>1
  <2>5. [child[k] EXCEPT !.st = "failed"].st = "failed"
    BY <2>4, SMTT(30) DEF ChildRecord
  <2> QED
    BY <2>1, <2>2, <2>3, <2>5 DEF ChildStep
<1>5. CASE Crash
  <2>1. child' = [l \in DOMAIN child |-> ChildAfterCrash(l)]
    BY <1>5 DEF Crash
  <2>2. child'[k] = ChildAfterCrash(k)
    BY <1>1, <2>1
  <2>3. CASE child[k].st # "run"
    BY <2>2, <2>3 DEF ChildAfterCrash, ChildStep
  <2>4. CASE child[k].st = "run"
    <3>1. ChildAfterCrash(k).st = "run" \/ ChildAfterCrash(k).st = "lost"
      BY <2>4, SMTT(30) DEF ChildAfterCrash
    <3> QED
      BY <2>2, <2>4, <3>1 DEF ChildStep
  <2> QED
    BY <2>3, <2>4
<1>6. CASE UNCHANGED vars
  BY <1>0, <1>6 DEF vars
<1>7. ASSUME NEW j \in Invocations, InvStep(j) PROVE ChildStep(i, s)
  <2>1. child' = child \/ SpawnAsync(j)
    BY <1>7
    DEF InvStep, Handle, HandleRecorded, HandleReplayed, ReturnNoOp, ReadEnvelopes, ReadState,
        SkipFiltered, RunAsync, EndFanOut, SyncAttempt, RecordSync, WaitAll, NothingToApply, Drop,
        DeadLetter, StartCompensation, EndCompensation, Return
  <2> QED
    BY <1>0, <1>2, <2>1
<1>8. CASE \/ OtherWriter \/ (\E c \in Commands : Call(c) \/ Retried(c))
           \/ \E j \in Invocations : StepFails(j)
  <2>1. child' = child
    BY <1>8 DEF OtherWriter, Call, Retried, StepFails
  <2> QED
    BY <1>0, <2>1
<1> QED
  BY <1>3, <1>4, <1>5, <1>6, <1>7, <1>8 DEF Next, NormalStep, Fault, AsyncStep

\* What was done stays done.
Accrues(i, s) ==
    /\ outcome[<<i, s>>] \subseteq outcome'[<<i, s>>]
    /\ child[<<i, s>>].st # "none" => child'[<<i, s>>].st # "none"

\* Only Async subscribers have children, and only the policy compensates.
ChildOK(i, s) ==
    /\ child[<<i, s>>].st # "none" => Sub(s).mode = "async"
    /\ "compensated" \in outcome[<<i, s>>] => Sub(s).policy = "compensate"

\* The seventh layer: the workflows of the asynchronous subscribers.
ChildInv == \A i \in Invocations : \A s \in Subs : ChildOK(i, s)

\* Every step keeps it.
LEMMA NextChild == ASSUME Typed, PlaceInv, ChildInv, [Next]_vars PROVE ChildInv'
<1> SUFFICES ASSUME NEW i \in Invocations, NEW s \in Subs PROVE ChildOK(i, s)'
  BY DEF ChildInv
<1>1. ChildOK(i, s) /\ conf' = conf
  BY Fixed DEF ChildInv
<1>2. child'[<<i, s>>].st # "none" => Sub(s).mode = "async"
  <2>1. ChildStep(i, s)
    BY ChildChanges
  <2>2. SpawnAsync(i) /\ s = Current(i) => Sub(s).mode = "async"
    BY DEF SpawnAsync
  <2> QED
    BY <1>1, <2>1, <2>2 DEF ChildStep, ChildOK
<1>3. "compensated" \in outcome'[<<i, s>>] => Sub(s).policy = "compensate"
  <2>1. OutcomeStep(i, s)
    BY OutcomeChanges
  <2>2. EndCompensation(i) /\ s = Current(i) => Sub(s).policy = "compensate"
    BY DEF EndCompensation, PlaceInv, PlaceOK
  <2>3. ASSUME NEW w \in Whats, Settles(i, s, w), outcome'[<<i, s>>] = outcome[<<i, s>>] \cup {w},
               "compensated" \in outcome'[<<i, s>>]
        PROVE  Sub(s).policy = "compensate"
    BY <1>1, <2>2, <2>3 DEF ChildOK, Settles
  <2> QED
    BY <1>1, <2>1, <2>3 DEF OutcomeStep, ChildOK
<1> QED
  BY <1>1, <1>2, <1>3 DEF ChildOK, Sub

\* No workflow runs in the initial state.
LEMMA InitChild == ASSUME Init PROVE ChildInv
<1> SUFFICES ASSUME NEW i \in Invocations, NEW s \in Subs PROVE ChildOK(i, s)
  BY DEF ChildInv
<1>1. <<i, s>> \in Invocations \X Subs
  OBVIOUS
<1>2. child[<<i, s>>] = [st |-> "none", tries |-> 0] /\ outcome[<<i, s>>] = {}
  BY <1>1 DEF Init
<1>3. child[<<i, s>>].st = "none"
  BY <1>2, SMTT(30)
<1> QED
  BY <1>2, <1>3 DEF ChildOK

-------------------------------------------------------------------------------
(* Every matching subscriber has its turn *)

\* An event of e is one that s asked for.
Hits(e, s) == \E v \in e : log[v].type \in Sub(s).types

\* The turn of s is over.
Passed(i, s) == \E p \in 1..(inv[i].next - 1) : s = Order[p]

\* The fan-out, and the round of policies, came past s.
Reached(i, s) ==
    \/ inv[i].pc = "fanout" /\ Passed(i, s)
    \/ inv[i].pc = "wait" \/ inv[i].pc = "apply" \/ inv[i].pc = "nested" \/ inv[i].pc = "returned"

\* The loop over the results has passed subscriber s.
Applied(i, s) ==
    \/ inv[i].pc = "apply" /\ Passed(i, s)
    \/ inv[i].pc = "nested" /\ Passed(i, s)
    \/ inv[i].pc = "returned"

\* Subscriber s handled the batch.
Handled(i, s) == "handled" \in outcome[<<i, s>>]

\* The task of s, or its workflow, was started.
Started(i, s) == IF Sub(s).mode = "sync" THEN inv[i].task[s] # "none" ELSE child[<<i, s>>].st # "none"

\* The failure policy of s was applied.
Enforced(i, s) == outcome[<<i, s>>] # {} /\ (Sub(s).policy = "compensate" => inv[i].mutated)

\* The task of s is that of a matching Sync subscriber, with the recorded batch; it
\* succeeded only if s handled the batch; a matching subscriber that was passed is
\* started, and the policy of one that exhausted its retries is enforced.
TaskOK(i, s) ==
    /\ inv[i].task[s] # "none" =>
          Matches(i, s) /\ Sub(s).mode = "sync" /\ (conf.durable => inv[i].envs = journal[i].envs)
    /\ inv[i].task[s] = "succeeded" \/ inv[i].task[s] = "ok" => Handled(i, s)
    /\ Reached(i, s) /\ Matches(i, s) => Started(i, s)
    /\ Applied(i, s) /\ inv[i].task[s] = "exhausted" => Enforced(i, s)

\* A recorded result is that of the task, before and after a crash.
RecordOK(i, s) ==
    /\ journal[i].task[s] = "ok" => Handled(i, s)
    /\ journal[i].task[s] # "none" =>
          /\ inv[i].task[s] = "none" \/ inv[i].task[s] = journal[i].task[s]
          /\ Hits(journal[i].envs, s) /\ Sub(s).mode = "sync"
    /\ conf.durable /\ (inv[i].task[s] = "ok" \/ inv[i].task[s] = "exhausted") =>
          journal[i].task[s] = inv[i].task[s]

\* The eighth layer: the tasks of the subscribers.
TaskInv == \A i \in Invocations : \A s \in Subs : TaskOK(i, s) /\ RecordOK(i, s)

\* At the end of the loop every subscriber is passed.
LEMMA PassedAll ==
    ASSUME Typed, NEW i \in Invocations, NEW s \in Subs, ~More(i)
    PROVE  Passed(i, s)
<1>1. PICK q \in 1..Len(Order) : s = Order[q]
  BY Places
<1>2. inv[i].next \in 1..(Len(Order) + 1) /\ Len(Order) \in Nat
  BY TypedParts, Bounds DEF InvRecord
<1>3. q \in 1..(inv[i].next - 1)
  BY <1>1, <1>2, SMTT(30) DEF More
<1> QED
  BY <1>1, <1>3 DEF Passed

\* What a step keeps of the batch and of what was done.
Keeps(i, s) ==
    /\ conf' = conf /\ Accrues(i, s)
    /\ Matches(i, s)' <=> Matches(i, s)
    /\ inv[i].mutated => inv'[i].mutated
    /\ inv[i].envs = journal[i].envs => inv'[i].envs = journal'[i].envs

\* What a step keeps of the journal.
KeepsRecord(i, s) ==
    /\ conf' = conf
    /\ Handled(i, s) => Handled(i, s)'
    /\ Hits(journal[i].envs, s) => Hits(journal[i].envs, s)'

\* Every step keeps TaskInv.
LEMMA NextTask ==
    Typed /\ NestInv /\ AppendInv /\ PlaceInv /\ JournalInv /\ TaskInv /\ [Next]_vars
    => TaskInv'
\* Outcomes and started workflows accrue.
<1>NextAccrues.
      ASSUME Typed, NEW i \in Invocations, NEW s \in Subs, [Next]_vars
      PROVE  Accrues(i, s)
  <2> USE <1>NextAccrues
  <2>1. outcome[<<i, s>>] \subseteq outcome'[<<i, s>>]
    BY OutcomeChanges DEF OutcomeStep
  <2>2. child[<<i, s>>].st # "none" => child'[<<i, s>>].st # "none"
    BY ChildChanges DEF ChildStep
  <2> QED
    BY <2>1, <2>2 DEF Accrues
\* The stream keeps the events of a batch.
<1>HitsKept.
      ASSUME Typed, Grows, conf' = conf, NEW i, NEW e, OwnBatch(e, i), NEW s
      PROVE  Hits(e, s)' <=> Hits(e, s)
  <2> USE <1>HitsKept
  <2>1. ASSUME NEW v \in e PROVE v \in 1..Len(log)
    <3>1. PICK a, b \in Versions : e = a..b /\ Own(a, b, i)
      BY <2>1 DEF OwnBatch
    <3>2. 0 < a /\ b <= Len(log) /\ v \in a..b
      BY <2>1, <3>1 DEF Own
    <3>3. a \in Nat /\ b \in Nat /\ Len(log) \in Nat
      BY Bounds, LogLength
    <3> QED
      BY <3>2, <3>3, SMTT(30)
  <2>2. \A v \in e : log'[v] = log[v]
    BY <2>1 DEF Grows
  <2>3. Sub(s)' = Sub(s)
    BY DEF Sub
  <2> QED
    BY <2>2, <2>3 DEF Hits, Sub
\* Whether s subscribes to the batch does not change.
<1>MatchesKept.
      ASSUME Typed, Grows, conf' = conf, NEW i \in Invocations, NEW s, AppendOK(i), inv'[i].envs = inv[i].envs
      PROVE  Matches(i, s)' <=> Matches(i, s)
  <2> USE <1>MatchesKept
  <2>1. PICK e : e = inv[i].envs
    OBVIOUS
  <2>2. Hits(e, s)' <=> Hits(e, s)
    BY <2>1, <1>HitsKept DEF AppendOK
  <2> QED
    BY <2>1, <2>2 DEF Hits, Matches, Sub
\* Nor does it for the recorded batch.
<1>RecordedKept.
      ASSUME Typed, Grows, conf' = conf, NEW i \in Invocations, NEW s, AppendOK(i),
             journal'[i].envs = journal[i].envs \/ journal[i].envs = {}, Hits(journal[i].envs, s)
      PROVE  Hits(journal[i].envs, s)'
  <2> USE <1>RecordedKept
  <2>1. PICK e : e = journal[i].envs
    OBVIOUS
  <2>2. Hits(e, s)' <=> Hits(e, s)
    BY <2>1, <1>HitsKept DEF AppendOK
  <2>3. journal[i].envs # {}
    BY DEF Hits
  <2> QED
    BY <2>1, <2>2, <2>3 DEF Hits, Sub
\* Turns.
<1>PassedTurn.
      ASSUME Typed, NEW i \in Invocations, NEW s, inv'[i].next = inv[i].next + 1, Passed(i, s)'
      PROVE  Passed(i, s) \/ s = Current(i)
  <2> USE <1>PassedTurn
  <2>1. PICK n \in Nat : n = inv[i].next
    <3>1. inv[i].next \in 1..(Len(Order) + 1) /\ Len(Order) \in Nat
      BY TypedParts, Bounds DEF InvRecord
    <3>2. inv[i].next \in Nat
      BY <3>1, SMTT(30)
    <3> QED
      BY <3>2
  <2>2. PICK p \in 1..(inv'[i].next - 1) : s = Order[p]
    BY DEF Passed
  <2>3. p = n \/ p \in 1..(n - 1)
    BY <2>1, <2>2, SMTT(30)
  <2> QED
    BY <2>1, <2>2, <2>3 DEF Passed, Current
\* And at its start none is.
<1>PassedNone.
      ASSUME NEW i, NEW s, inv'[i].next = 1
      PROVE  ~Passed(i, s)'
  <2> USE <1>PassedNone
  <2>1. \A p : p \notin 1..(1 - 1)
    BY SMTT(30)
  <2> QED
    BY <2>1 DEF Passed
\* A step that keeps the task of s.
<1>TaskSame.
      ASSUME NEW i \in Invocations, NEW s \in Subs, TaskOK(i, s), Keeps(i, s), inv'[i].task[s] = inv[i].task[s],
             Reached(i, s)' => Reached(i, s) \/ ~Matches(i, s) \/ Started(i, s)',
             Applied(i, s)' => Applied(i, s) \/ inv[i].task[s] # "exhausted" \/ Enforced(i, s)'
      PROVE  TaskOK(i, s)'
  <2> USE <1>TaskSame
  <2>1. conf' = conf /\ (Matches(i, s)' <=> Matches(i, s)) /\ Sub(s)' = Sub(s)
    BY DEF Keeps, Sub
  <2>2. inv'[i].task[s] # "none" =>
           Matches(i, s)' /\ Sub(s)'.mode = "sync" /\ (conf'.durable => inv'[i].envs = journal'[i].envs)
    BY <2>1 DEF TaskOK, Keeps
  <2>3. inv'[i].task[s] = "succeeded" \/ inv'[i].task[s] = "ok" => Handled(i, s)'
    BY DEF TaskOK, Keeps, Accrues, Handled
  <2>4. Started(i, s) => Started(i, s)'
    BY <2>1 DEF Started, Keeps, Accrues
  <2>5. Reached(i, s)' /\ Matches(i, s)' => Started(i, s)'
    BY <2>1, <2>4 DEF TaskOK
  <2>6. Enforced(i, s) => Enforced(i, s)'
    BY <2>1 DEF Enforced, Keeps, Accrues
  <2>7. Applied(i, s)' /\ inv'[i].task[s] = "exhausted" => Enforced(i, s)'
    BY <2>6 DEF TaskOK
  <2> QED
    BY <2>2, <2>3, <2>5, <2>7 DEF TaskOK
\* A step after which s has no task, before the fan-out or without a batch.
<1>TaskNone.
      ASSUME NEW i \in Invocations, NEW s \in Subs, inv'[i].task[s] = "none", Reached(i, s)' => inv'[i].envs = {}
      PROVE  TaskOK(i, s)'
  <2> USE <1>TaskNone
  <2>1. inv'[i].envs = {} => ~Matches(i, s)'
    BY DEF Matches
  <2> QED
    BY <2>1 DEF TaskOK
\* The steps up to the fan-out.
<1>SoonerTask.
      ASSUME Typed, NEW i \in Invocations, NEW s \in Subs, Fresh(i), Early(i)
      PROVE  TaskOK(i, s)'
  <2> USE <1>SoonerTask
  <2>1. Sooner(i)
    BY SoonerStep
  <2>2. inv'[i].task[s] = "none"
    BY <2>1 DEF Sooner, SameTasks, Fresh
  <2>3. Reached(i, s)' => inv'[i].pc = "returned"
    BY <2>1 DEF Sooner, Reached
  <2>4. inv'[i].pc = "returned" => ReturnNoOp(i)
    BY SoonerReturn
  <2>5. ReturnNoOp(i) => inv'[i].envs = {}
    <3>1. ReturnNoOp(i) => inv[i].pc = "noop" /\ inv'[i].envs = inv[i].envs
      BY ReturnNoOpIs DEF ReturnNoOp, SameBatch
    <3> QED
      BY <3>1 DEF Fresh, Before
  <2> QED
    BY <2>2, <2>3, <2>4, <2>5, <1>TaskNone
\* A turn of the fan-out.
<1>FanOutTask.
      ASSUME Typed, NEW i \in Invocations, NEW s \in Subs, PlaceOK(i), JournalOK(i), TaskOK(i, s), RecordOK(i, s),
             Keeps(i, s), SkipFiltered(i) \/ SpawnAsync(i) \/ RunAsync(i)
      PROVE  TaskOK(i, s)'
  <2> USE <1>FanOutTask
  <2>1. inv[i].pc = "fanout" /\ More(i)
    BY DEF SkipFiltered, SpawnAsync, RunAsync
  <2>2. inv'[i].pc = "fanout" /\ inv'[i].next = inv[i].next + 1
    <3>1. CASE RunAsync(i)
      BY <2>1, <3>1, RunAsyncIs DEF Moves
    <3>2. CASE SkipFiltered(i) \/ SpawnAsync(i)
      <4>1. inv' = [inv EXCEPT ![i].next = @ + 1]
        BY <3>2 DEF SkipFiltered, SpawnAsync
      <4> QED
        BY <2>1, <4>1, TurnIs DEF Moves
    <3> QED
      BY <3>1, <3>2
  <2>3. Reached(i, s)' => Reached(i, s) \/ s = Current(i)
    BY <2>1, <2>2, <1>PassedTurn DEF Reached
  <2>4. ~Applied(i, s)'
    BY <2>2 DEF Applied
  <2>5. CASE SkipFiltered(i)
    <3>1. inv'[i].task[s] = inv[i].task[s]
      BY <2>1, <2>5, TurnIs DEF SkipFiltered, SameTasks
    <3>2. s = Current(i) => ~Matches(i, s)
      BY <2>5 DEF SkipFiltered
    <3> QED
      BY <2>3, <2>4, <3>1, <3>2, <1>TaskSame
  <2>6. CASE SpawnAsync(i)
    <3>1. inv'[i].task[s] = inv[i].task[s]
      BY <2>1, <2>6, TurnIs DEF SpawnAsync, SameTasks
    <3>2. s = Current(i) => Started(i, s)'
      <4>1. s = Current(i) => child'[<<i, s>>].st # "none" /\ Sub(s).mode = "async"
        BY <2>6, SpawnIs DEF SpawnAsync
      <4>2. Sub(s)' = Sub(s)
        BY DEF Keeps, Sub
      <4> QED
        BY <4>1, <4>2 DEF Started
    <3> QED
      BY <2>3, <2>4, <3>1, <3>2, <1>TaskSame
  <2>7. CASE RunAsync(i)
    <3>1. /\ inv'[i].task = [inv[i].task EXCEPT ![Current(i)] = ResultOrRun(i)]
          /\ inv[i].task \in [Subs -> Tasks] /\ Current(i) \in Subs
      BY <2>1, <2>7, RunAsyncIs, TypedParts, Turn DEF InvRecord
    <3>2. CASE s # Current(i)
      <4>1. inv'[i].task[s] = inv[i].task[s]
        BY <3>1, <3>2
      <4> QED
        BY <2>3, <2>4, <3>2, <4>1, <1>TaskSame
    <3>3. CASE s = Current(i)
      <4>1. inv'[i].task[s] = ResultOrRun(i)
        BY <3>1, <3>3
      <4>2. (ResultOrRun(i) = journal[i].task[s] /\ journal[i].task[s] # "none") \/ ResultOrRun(i) = "run"
        BY <3>3 DEF ResultOrRun
      <4>3. Matches(i, s) /\ Sub(s).mode = "sync" /\ Sub(s)' = Sub(s) /\ conf' = conf
        BY <2>7, <3>3 DEF RunAsync, Keeps, Sub
      <4>4. conf.durable => inv[i].envs = journal[i].envs
        BY <2>1 DEF JournalOK
      <4>5. journal[i].task[s] # "succeeded" /\ (journal[i].task[s] = "ok" => Handled(i, s))
        <5>1. journal[i].task \in [Subs -> {"none", "ok", "exhausted"}]
          BY TypedParts DEF JournalRecord
        <5>2. journal[i].task[s] \in {"none", "ok", "exhausted"}
          BY <5>1
        <5> QED
          BY <5>2 DEF RecordOK
      <4>6. Handled(i, s) => Handled(i, s)'
        BY DEF Handled, Keeps, Accrues
      <4>7. inv'[i].task[s] # "none" /\ (inv'[i].task[s] = "succeeded" \/ inv'[i].task[s] = "ok" => Handled(i, s)')
        BY <4>1, <4>2, <4>5, <4>6
      <4>8. Matches(i, s)' /\ Sub(s)'.mode = "sync" /\ (conf'.durable => inv'[i].envs = journal'[i].envs)
        BY <4>3, <4>4 DEF Keeps
      <4>9. Started(i, s)'
        BY <4>7, <4>8 DEF Started
      <4> QED
        BY <2>4, <4>7, <4>8, <4>9 DEF TaskOK
    <3> QED
      BY <3>2, <3>3
  <2> QED
    BY <2>5, <2>6, <2>7
\* A call of the subscriber, and its journal entry.
<1>CallTask.
      ASSUME Typed, NEW i \in Invocations, NEW s \in Subs, PlaceOK(i), TaskOK(i, s), Keeps(i, s), OutcomeStep(i, s),
             NEW t \in Subs, SyncAttempt(i, t) \/ RecordSync(i, t)
      PROVE  TaskOK(i, s)'
  <2> USE <1>CallTask
  <2>1. /\ inv'[i].pc = inv[i].pc /\ SameNext(i)
        /\ \E r \in Tasks : inv'[i].task = [inv[i].task EXCEPT ![t] = r]
    <3>1. CASE SyncAttempt(i, t)
      <4>1. PICK r \in {"succeeded", "run", "gave up"} :
               /\ Moves(i, inv[i].pc) /\ SameNext(i)
               /\ inv'[i].task = [inv[i].task EXCEPT ![t] = r]
        BY <3>1, SyncAttemptIs
      <4>2. r \in Tasks
        BY <4>1 DEF Tasks
      <4> QED
        BY <4>1, <4>2 DEF Moves
    <3>2. CASE RecordSync(i, t)
      <4>1. Result(i, t) \in Tasks
        BY DEF Tasks, Result
      <4> QED
        BY <3>2, <4>1, RecordSyncIs DEF Moves
    <3> QED
      BY <3>1, <3>2
  <2>2. inv[i].task \in [Subs -> Tasks]
    BY TypedParts DEF InvRecord
  <2>3. (Reached(i, s)' <=> Reached(i, s)) /\ (Applied(i, s)' <=> Applied(i, s))
    BY <2>1 DEF Reached, Applied, Passed, SameNext
  <2>4. CASE s # t
    <3>1. inv'[i].task[s] = inv[i].task[s]
      BY <2>1, <2>2, <2>4
    <3> QED
      BY <2>3, <3>1, <1>TaskSame
  <2>5. CASE s = t
    <3>1. inv[i].task[s] = "run" \/ inv[i].task[s] = "succeeded" \/ inv[i].task[s] = "gave up"
      BY <2>5 DEF SyncAttempt, RecordSync
    <3>2. /\ Matches(i, s)' /\ Sub(s)' = Sub(s) /\ Sub(s).mode = "sync"
          /\ conf'.durable => inv'[i].envs = journal'[i].envs
      BY <3>1 DEF TaskOK, Keeps, Sub
    <3>3. ~Applied(i, s)
      <4>1. inv[i].pc # "apply" /\ inv[i].pc # "nested" /\ inv[i].pc # "returned"
        BY <3>1 DEF PlaceOK, AllSettled
      <4> QED
        BY <4>1 DEF Applied
    <3>4. inv'[i].task[s] # "none" /\ (inv'[i].task[s] = "succeeded" \/ inv'[i].task[s] = "ok" => Handled(i, s)')
      <4>1. CASE SyncAttempt(i, t)
        <5>1. PICK r \in {"succeeded", "run", "gave up"} :
                 /\ inv'[i].task = [inv[i].task EXCEPT ![t] = r]
                 /\ r = "succeeded" => Settle(i, t, "handled")
          BY <4>1, SyncAttemptIs
        <5>2. inv'[i].task[s] = r
          BY <2>2, <2>5, <5>1
        <5>3. Settle(i, t, "handled") => Handled(i, s)'
          <6>1. "handled" \in Whats
            BY DEF Whats
          <6>2. Settle(i, t, "handled") => outcome'[<<i, t>>] = outcome[<<i, t>>] \cup {"handled"}
            BY <6>1, SettledIs
          <6> QED
            BY <2>5, <6>2 DEF Handled
        <5> QED
          BY <5>1, <5>2, <5>3
      <4>2. CASE RecordSync(i, t)
        <5>1. inv'[i].task[s] = Result(i, s)
          BY <2>2, <2>5, <4>2, RecordSyncIs
        <5>2. Result(i, s) # "none" /\ Result(i, s) # "succeeded" /\ (Result(i, s) = "ok" => inv[i].task[s] = "succeeded")
          BY DEF Result
        <5>3. Handled(i, s) => Handled(i, s)'
          BY DEF Handled, Keeps, Accrues
        <5> QED
          BY <5>1, <5>2, <5>3 DEF TaskOK
      <4> QED
        BY <4>1, <4>2
    <3>5. Started(i, s)'
      BY <3>2, <3>4 DEF Started
    <3> QED
      BY <2>3, <3>2, <3>3, <3>4, <3>5 DEF TaskOK
  <2> QED
    BY <2>4, <2>5
\* A turn of the policies.
<1>PolicyTask.
      ASSUME Typed, NEW i \in Invocations, NEW s \in Subs, TaskOK(i, s), Keeps(i, s), OutcomeStep(i, s), SameTasks(i),
             inv[i].pc = "apply" \/ inv[i].pc = "nested", inv'[i].pc = "apply", inv'[i].next = inv[i].next + 1,
             s = Current(i) => inv[i].task[s] # "exhausted" \/ Enforced(i, s)'
      PROVE  TaskOK(i, s)'
  <2> USE <1>PolicyTask
  <2>1. Reached(i, s)
    BY DEF Reached
  <2>2. Applied(i, s)' => Applied(i, s) \/ s = Current(i)
    BY <1>PassedTurn DEF Applied
  <2>3. inv'[i].task[s] = inv[i].task[s]
    BY DEF SameTasks
  <2> QED
    BY <2>1, <2>2, <2>3, <1>TaskSame
\* A settled subscriber has an outcome.
<1>SettledNotEmpty.
      ASSUME Typed, NEW i \in Invocations, NEW s \in Subs, NEW w \in Whats, Settle(i, s, w)
      PROVE  outcome'[<<i, s>>] # {}
  <2> USE <1>SettledNotEmpty
  <2>1. outcome'[<<i, s>>] = outcome[<<i, s>>] \cup {w}
    BY SettledIs
  <2> QED
    BY <2>1
\* The other steps of HandleCmd.
<1>LaterTask.
      ASSUME Typed, NEW i \in Invocations, NEW s \in Subs, Fresh(i), PlaceOK(i), TaskOK(i, s), Keeps(i, s),
             OutcomeStep(i, s), Acts(i), ~Early(i), ~(SkipFiltered(i) \/ SpawnAsync(i) \/ RunAsync(i)),
             ~\E t \in Subs : SyncAttempt(i, t) \/ RecordSync(i, t)
      PROVE  TaskOK(i, s)'
  <2> USE <1>LaterTask
  <2>1. SameTasks(i)
    <3>1. Later(i)
      BY LaterStep
    <3> QED
      BY <3>1 DEF Later
  <2>2. inv'[i].task[s] = inv[i].task[s] /\ Sub(s)' = Sub(s)
    BY <2>1 DEF SameTasks, Keeps, Sub
  <2>3. CASE ReadState(i)
    <3>1. inv[i].pc = "state" /\ inv'[i].pc = "fanout" /\ inv'[i].next = inv[i].next
      BY <2>3, ReadStateIs DEF ReadState, Moves, SameNext
    <3>2. inv'[i].next = 1 /\ inv'[i].task[s] = "none"
      BY <2>2, <3>1 DEF Fresh, Before
    <3>3. ~Reached(i, s)'
      BY <3>1, <3>2, <1>PassedNone DEF Reached
    <3> QED
      BY <3>2, <3>3, <1>TaskNone
  <2>4. CASE EndFanOut(i)
    <3>1. inv[i].pc = "fanout" /\ ~More(i) /\ inv'[i].pc = "wait"
      BY <2>4, GotoIs, Names DEF EndFanOut, OnlyMoves, Moves
    <3>2. Reached(i, s) /\ ~Applied(i, s)'
      BY <3>1, PassedAll DEF Reached, Applied
    <3> QED
      BY <2>2, <3>2, <1>TaskSame
  <2>5. CASE WaitAll(i)
    <3>1. inv[i].pc = "wait" /\ inv'[i].pc = "apply" /\ inv'[i].next = 1
      BY <2>5, WaitAllIs DEF WaitAll, Moves
    <3>2. Reached(i, s) /\ ~Applied(i, s)'
      BY <3>1, <1>PassedNone DEF Reached, Applied
    <3> QED
      BY <2>2, <3>2, <1>TaskSame
  <2>6. CASE NothingToApply(i) \/ Drop(i) \/ DeadLetter(i)
    <3>1. inv[i].pc = "apply" /\ More(i) /\ inv' = [inv EXCEPT ![i].next = @ + 1]
      BY <2>6 DEF NothingToApply, Drop, DeadLetter, Exhausted
    <3>2. inv'[i].pc = "apply" /\ inv'[i].next = inv[i].next + 1
      BY <3>1, TurnIs DEF Moves
    <3>3. CASE NothingToApply(i)
      <4>1. s = Current(i) => inv[i].task[s] # "exhausted"
        BY <3>3 DEF NothingToApply
      <4> QED
        BY <2>1, <3>1, <3>2, <4>1, <1>PolicyTask
    <3>4. CASE Drop(i)
      <4>1. Settle(i, Current(i), "dropped") /\ Sub(Current(i)).policy # "compensate" /\ "dropped" \in Whats
        BY <3>4 DEF Drop, Exhausted, Whats
      <4>2. s = Current(i) => Enforced(i, s)'
        BY <2>2, <4>1, <1>SettledNotEmpty DEF Enforced
      <4> QED
        BY <2>1, <3>1, <3>2, <4>2, <1>PolicyTask
    <3>5. CASE DeadLetter(i)
      <4>1. Settle(i, Current(i), "dlq") /\ Sub(Current(i)).policy # "compensate" /\ "dlq" \in Whats
        BY <3>5 DEF DeadLetter, Exhausted, Whats
      <4>2. s = Current(i) => Enforced(i, s)'
        BY <2>2, <4>1, <1>SettledNotEmpty DEF Enforced
      <4> QED
        BY <2>1, <3>1, <3>2, <4>2, <1>PolicyTask
    <3> QED
      BY <2>6, <3>3, <3>4, <3>5
  <2>7. CASE inv'[i].pc = "failed"
    <3>1. ~Reached(i, s)' /\ ~Applied(i, s)'
      BY <2>7 DEF Reached, Applied
    <3> QED
      BY <2>2, <3>1, <1>TaskSame
  <2>8. CASE StepFails(i)
    <3>1. inv'[i].pc = "failed"
      BY <2>8, GotoIs, Names DEF StepFails, OnlyMoves, Moves
    <3> QED
      BY <2>7, <3>1
  <2>9. CASE StartCompensation(i)
    <3>1. inv[i].pc = "apply"
      BY <2>9 DEF StartCompensation, Exhausted
    <3>2. inv'[i].pc = "failed" \/ (inv'[i].pc = "nested" /\ SameNext(i))
      BY <2>9, StartCompensationIs DEF OnlyMoves, Moves
    <3>3. inv'[i].pc = "nested" /\ SameNext(i) => (Applied(i, s)' => Applied(i, s)) /\ Reached(i, s)
      BY <3>1 DEF Applied, Reached, Passed, SameNext
    <3> QED
      BY <2>2, <2>7, <3>2, <3>3, <1>TaskSame
  <2>10. CASE EndCompensation(i)
    <3>1. inv[i].pc = "nested"
      BY <2>10 DEF EndCompensation
    <3>2. \/ inv'[i].pc = "failed"
          \/ /\ inv'[i].pc = "apply" /\ inv'[i].next = inv[i].next + 1 /\ inv'[i].mutated = TRUE
             /\ Settle(i, Current(i), "compensated")
      BY <2>10, EndCompensationIs DEF OnlyMoves, Moves
    <3>3. ASSUME inv'[i].pc = "apply", inv'[i].next = inv[i].next + 1, inv'[i].mutated = TRUE,
                 Settle(i, Current(i), "compensated")
          PROVE  TaskOK(i, s)'
      <4>1. "compensated" \in Whats
        BY DEF Whats
      <4>2. s = Current(i) => Enforced(i, s)'
        BY <3>3, <4>1, <1>SettledNotEmpty DEF Enforced
      <4> QED
        BY <2>1, <3>1, <3>3, <4>2, <1>PolicyTask
    <3> QED
      BY <2>7, <3>2, <3>3
  <2>11. CASE Return(i)
    <3>1. inv[i].pc = "apply" /\ ~More(i)
      BY <2>11 DEF Return
    <3>2. Reached(i, s) /\ Applied(i, s)
      BY <3>1, PassedAll DEF Reached, Applied
    <3> QED
      BY <2>2, <3>2, <1>TaskSame
  <2> QED
    BY <2>3, <2>4, <2>5, <2>6, <2>8, <2>9, <2>10, <2>11 DEF Acts, InvStep, Early
\* A batch, once journaled, is never another.
<1>BatchStaysRecorded.
      ASSUME Typed, NestInv, NEW j \in Invocations, [Next]_vars
      PROVE  journal'[j].envs = journal[j].envs \/ journal[j].envs = {}
  <2> USE <1>BatchStaysRecorded
  <2>1. CASE Acts(j) /\ ~Early(j)
    BY <2>1, LaterStep DEF Later
  <2>2. CASE Handle(j) \/ HandleReplayed(j) \/ ReturnNoOp(j)
    BY <2>2 DEF Handle, HandleReplayed, ReturnNoOp
  <2>3. CASE HandleRecorded(j)
    BY <2>3, RecordAppendIs
  <2>4. CASE ReadEnvelopes(j)
    <3>1. CASE conf.durable
      BY <2>4, <3>1, RecordEnvelopesIs DEF EnvelopesOf
    <3>2. CASE ~conf.durable
      BY <2>4, <3>2 DEF ReadEnvelopes, Journal
    <3> QED
      BY <3>1, <3>2
  <2>5. CASE Rests(j) \/ Begins(j)
    BY <2>5 DEF Rests, Begins
  <2>6. CASE Restarts(j)
    BY <2>6, RestartIs
  <2> QED
    BY <2>1, <2>2, <2>3, <2>4, <2>5, <2>6, Fate DEF Early
\* Every step keeps the record of a task.
<1>NextKeepsRecord.
      ASSUME Typed, NestInv, AppendInv, NEW i \in Invocations, NEW s \in Subs, [Next]_vars
      PROVE  KeepsRecord(i, s)
  <2> USE <1>NextKeepsRecord
  <2>1. conf' = conf /\ Grows
    BY Fixed, LogKept
  <2>2. Accrues(i, s) /\ AppendOK(i)
    BY <1>NextAccrues DEF AppendInv
  <2>3. journal'[i].envs = journal[i].envs \/ journal[i].envs = {}
    BY <1>BatchStaysRecorded
  <2>4. Hits(journal[i].envs, s) => Hits(journal[i].envs, s)'
    BY <2>1, <2>2, <2>3, <1>RecordedKept
  <2> QED
    BY <2>1, <2>2, <2>4 DEF KeepsRecord, Accrues, Handled
\* A step that keeps the task of s, or forgets it.
<1>RecordSame.
      ASSUME NEW i \in Invocations, NEW s \in Subs, RecordOK(i, s), KeepsRecord(i, s),
             inv'[i].task[s] = inv[i].task[s] \/ inv'[i].task[s] = "none",
             journal'[i].task[s] = journal[i].task[s]
      PROVE  RecordOK(i, s)'
  <2> USE <1>RecordSame
  <2>1. conf' = conf /\ Sub(s)' = Sub(s)
    BY DEF KeepsRecord, Sub
  <2>2. journal'[i].task[s] = "ok" => Handled(i, s)'
    BY DEF RecordOK, KeepsRecord
  <2>3. journal'[i].task[s] # "none" =>
            /\ inv'[i].task[s] = "none" \/ inv'[i].task[s] = journal'[i].task[s]
            /\ Hits(journal[i].envs, s)' /\ Sub(s)'.mode = "sync"
    BY <2>1 DEF RecordOK, KeepsRecord
  <2>4. conf'.durable /\ (inv'[i].task[s] = "ok" \/ inv'[i].task[s] = "exhausted") =>
            journal'[i].task[s] = inv'[i].task[s]
    BY <2>1 DEF RecordOK
  <2> QED
    BY <2>2, <2>3, <2>4 DEF RecordOK
\* The steps of HandleCmd.
<1>ActsRecord.
      ASSUME Typed, NEW i \in Invocations, NEW s \in Subs, PlaceOK(i), JournalOK(i), TaskOK(i, s), RecordOK(i, s),
             KeepsRecord(i, s), Acts(i)
      PROVE  RecordOK(i, s)'
  <2> USE <1>ActsRecord
  <2>1. /\ inv[i].task \in [Subs -> Tasks]
        /\ journal[i].task \in [Subs -> {"none", "ok", "exhausted"}]
    BY TypedParts DEF InvRecord, JournalRecord
  <2>2. journal[i].task[s] = "none" \/ journal[i].task[s] = "ok" \/ journal[i].task[s] = "exhausted"
    <3>1. journal[i].task[s] \in {"none", "ok", "exhausted"}
      BY <2>1
    <3> QED
      BY <3>1
  <2>3. conf' = conf /\ Sub(s)' = Sub(s)
    BY DEF KeepsRecord, Sub
  <2>4. CASE inv'[i].task[s] = inv[i].task[s] /\ journal'[i].task[s] = journal[i].task[s]
    BY <2>4, <1>RecordSame
  <2>5. CASE RunAsync(i)
    <3>1. inv'[i].task = [inv[i].task EXCEPT ![Current(i)] = ResultOrRun(i)] /\ journal' = journal
      BY <2>5, RunAsyncIs DEF RunAsync
    <3>2. CASE s # Current(i)
      <4>1. inv'[i].task[s] = inv[i].task[s]
        BY <2>1, <3>1, <3>2
      <4> QED
        BY <2>4, <3>1, <4>1
    <3>3. CASE s = Current(i)
      <4>1. inv'[i].task[s] = ResultOrRun(i)
        BY <2>1, <3>1, <3>3
      <4>2. CASE journal[i].task[s] # "none"
        <5>1. inv'[i].task[s] = journal[i].task[s]
          BY <3>3, <4>1, <4>2 DEF ResultOrRun
        <5>2. Hits(journal[i].envs, s)' /\ Sub(s).mode = "sync" /\ (journal[i].task[s] = "ok" => Handled(i, s)')
          BY <4>2 DEF RecordOK, KeepsRecord
        <5> QED
          BY <2>3, <3>1, <5>1, <5>2 DEF RecordOK
      <4>3. CASE journal[i].task[s] = "none"
        <5>1. inv'[i].task[s] = "run"
          BY <3>3, <4>1, <4>3 DEF ResultOrRun
        <5> QED
          BY <3>1, <4>3, <5>1 DEF RecordOK
      <4> QED
        BY <4>2, <4>3
    <3> QED
      BY <3>2, <3>3
  <2>6. ASSUME NEW t \in Subs, SyncAttempt(i, t) PROVE RecordOK(i, s)'
    <3>1. PICK r \in {"succeeded", "run", "gave up"} : inv'[i].task = [inv[i].task EXCEPT ![t] = r]
      BY <2>6, SyncAttemptIs
    <3>2. journal' = journal /\ inv[i].task[t] = "run"
      BY <2>6 DEF SyncAttempt
    <3>3. CASE s # t
      <4>1. inv'[i].task[s] = inv[i].task[s]
        BY <2>1, <3>1, <3>3
      <4> QED
        BY <2>4, <3>2, <4>1
    <3>4. CASE s = t
      <4>1. inv'[i].task[s] = r
        BY <2>1, <3>1, <3>4
      <4>2. journal[i].task[s] = "none"
        BY <2>2, <3>2, <3>4 DEF RecordOK
      <4>3. inv'[i].task[s] # "ok" /\ inv'[i].task[s] # "exhausted"
        BY <3>1, <4>1
      <4> QED
        BY <3>2, <4>2, <4>3 DEF RecordOK
    <3> QED
      BY <3>3, <3>4
  <2>7. ASSUME NEW t \in Subs, RecordSync(i, t) PROVE RecordOK(i, s)'
    <3>1. inv'[i].task = [inv[i].task EXCEPT ![t] = Result(i, t)]
      BY <2>7, RecordSyncIs
    <3>2. inv[i].task[t] = "succeeded" \/ inv[i].task[t] = "gave up"
      BY <2>7 DEF RecordSync
    <3>3. conf.durable => journal'[i].task = [journal[i].task EXCEPT ![t] = Result(i, t)]
      BY <2>7, RecordTaskIs
    <3>4. ~conf.durable => journal' = journal
      BY <2>7 DEF RecordSync, Journal
    <3>5. CASE s # t
      <4>1. inv'[i].task[s] = inv[i].task[s] /\ journal'[i].task[s] = journal[i].task[s]
        BY <2>1, <3>1, <3>3, <3>4, <3>5
      <4> QED
        BY <2>4, <4>1
    <3>6. CASE s = t /\ conf.durable
      <4>1. inv'[i].task[s] = Result(i, s) /\ journal'[i].task[s] = Result(i, s)
        BY <2>1, <3>1, <3>3, <3>6
      <4>2. Matches(i, s) /\ Sub(s).mode = "sync" /\ inv[i].envs = journal[i].envs
        BY <3>2, <3>6 DEF TaskOK
      <4>3. Hits(journal[i].envs, s)
        BY <4>2 DEF Hits, Matches
      <4>4. Hits(journal[i].envs, s)'
        BY <4>3 DEF KeepsRecord
      <4>5. Result(i, s) = "ok" => Handled(i, s)'
        BY <3>6 DEF Result, TaskOK, KeepsRecord
      <4> QED
        BY <2>3, <4>1, <4>2, <4>4, <4>5 DEF RecordOK
    <3>7. CASE s = t /\ ~conf.durable
      <4>1. journal'[i].task[s] = "none"
        BY <3>4, <3>7 DEF JournalOK
      <4> QED
        BY <2>3, <3>7, <4>1 DEF RecordOK
    <3> QED
      BY <3>5, <3>6, <3>7
  <2>8. CASE Early(i)
    <3>1. SameTasks(i) /\ journal'[i].task = journal[i].task
      BY <2>8, SoonerStep DEF Sooner
    <3> QED
      BY <2>4, <3>1 DEF SameTasks
  <2>9. ASSUME ~Early(i), ~RunAsync(i), ~\E t \in Subs : SyncAttempt(i, t) \/ RecordSync(i, t)
        PROVE  RecordOK(i, s)'
    <3>1. SameTasks(i) /\ journal'[i].task = journal[i].task
      BY <2>9, LaterStep DEF Later
    <3> QED
      BY <2>4, <3>1 DEF SameTasks
  <2> QED
    BY <2>5, <2>6, <2>7, <2>8, <2>9
\* The steps of HandleCmd keep TaskOK.
<1>ActsTask.
      ASSUME Typed, Grows, NEW i \in Invocations, NEW s \in Subs, Fresh(i), AppendOK(i), PlaceOK(i), JournalOK(i),
             TaskOK(i, s), RecordOK(i, s), Accrues(i, s), OutcomeStep(i, s), conf' = conf, Acts(i)
      PROVE  TaskOK(i, s)'
  <2> USE <1>ActsTask
  <2>1. CASE Early(i)
    BY <2>1, <1>SoonerTask
  <2>2. ASSUME ~Early(i) PROVE TaskOK(i, s)'
    <3>1. Later(i)
      BY <2>2, LaterStep
    <3>2. Matches(i, s)' <=> Matches(i, s)
      BY <3>1, <1>MatchesKept DEF Later, SameBatch
    <3>3. Keeps(i, s)
      BY <3>1, <3>2 DEF Keeps, Later, SameBatch
    <3>4. CASE SkipFiltered(i) \/ SpawnAsync(i) \/ RunAsync(i)
      BY <3>3, <3>4, <1>FanOutTask
    <3>5. CASE \E t \in Subs : SyncAttempt(i, t) \/ RecordSync(i, t)
      BY <3>3, <3>5, <1>CallTask
    <3> QED
      BY <2>2, <3>3, <3>4, <3>5, <1>LaterTask
  <2> QED
    BY <2>1, <2>2
\* The step itself.
<1> SUFFICES ASSUME Typed, NestInv, AppendInv, PlaceInv, JournalInv, TaskInv, [Next]_vars PROVE TaskInv'
  OBVIOUS
<1> SUFFICES ASSUME NEW j \in Invocations, NEW s \in Subs PROVE TaskOK(j, s)' /\ RecordOK(j, s)'
  BY DEF TaskInv
<1>1. TaskOK(j, s) /\ RecordOK(j, s) /\ Fresh(j) /\ AppendOK(j) /\ PlaceOK(j) /\ JournalOK(j)
  BY DEF TaskInv, NestInv, AppendInv, PlaceInv, JournalInv
<1>2. conf' = conf /\ Grows /\ Accrues(j, s) /\ OutcomeStep(j, s) /\ KeepsRecord(j, s)
  BY Fixed, LogKept, <1>NextAccrues, OutcomeChanges, <1>NextKeepsRecord
<1>3. CASE Acts(j)
  <2>1. TaskOK(j, s)'
    BY <1>1, <1>2, <1>3, <1>ActsTask
  <2>2. RecordOK(j, s)'
    BY <1>1, <1>2, <1>3, <1>ActsRecord
  <2> QED
    BY <2>1, <2>2
<1>4. ASSUME inv'[j] = inv[j], journal'[j] = journal[j] PROVE TaskOK(j, s)' /\ RecordOK(j, s)'
  <2>1. Matches(j, s)' <=> Matches(j, s)
    BY <1>1, <1>2, <1>4, <1>MatchesKept
  <2>2. Keeps(j, s)
    BY <1>2, <1>4, <2>1 DEF Keeps
  <2>3. (Reached(j, s)' <=> Reached(j, s)) /\ (Applied(j, s)' <=> Applied(j, s))
    BY <1>4 DEF Reached, Applied, Passed
  <2>4. TaskOK(j, s)'
    BY <1>1, <1>4, <2>2, <2>3, <1>TaskSame
  <2>5. RecordOK(j, s)'
    BY <1>1, <1>2, <1>4, <1>RecordSame
  <2> QED
    BY <2>4, <2>5
<1>5. ASSUME inv'[j].task[s] = "none", journal'[j] = journal[j],
             inv'[j].pc = "none" \/ inv'[j].pc = "append" \/ inv'[j].pc = "lost"
      PROVE  TaskOK(j, s)' /\ RecordOK(j, s)'
  <2>1. ~Reached(j, s)'
    BY <1>5 DEF Reached
  <2>2. TaskOK(j, s)'
    BY <1>5, <2>1, <1>TaskNone
  <2>3. RecordOK(j, s)'
    BY <1>1, <1>2, <1>5, <1>RecordSame
  <2> QED
    BY <2>2, <2>3
<1>6. CASE Rests(j)
  BY <1>4, <1>6 DEF Rests
<1>7. CASE Begins(j)
  <2>1. inv'[j].task[s] = "none"
    BY <1>1, <1>7 DEF Begins, SameTasks, Fresh, Before
  <2> QED
    BY <1>5, <1>7, <2>1 DEF Begins
<1>8. CASE Restarts(j)
  <2>1. journal' = journal
    BY <1>8, RestartIs
  <2>2. inv'[j] = inv[j] \/ Blank(j, "none") \/ Blank(j, "append") \/ Blank(j, "lost")
    BY <1>8, RestartIs
  <2> QED
    BY <1>4, <1>5, <2>1, <2>2 DEF Blank
<1> QED
  BY <1>3, <1>6, <1>7, <1>8, Fate

\* No task has started in the initial state.
LEMMA InitTask == ASSUME Init PROVE TaskInv
<1> SUFFICES ASSUME NEW i \in Invocations, NEW s \in Subs PROVE TaskOK(i, s) /\ RecordOK(i, s)
  BY DEF TaskInv
<1>1. inv[i] = NoInv /\ journal[i] = NoJournal
  BY DEF Init
<1>2. inv[i].pc = "none" /\ inv[i].task[s] = "none" /\ journal[i].task[s] = "none"
  BY <1>1, SMTT(30) DEF NoJournal, NoInv
<1>3. ~Reached(i, s)
  BY <1>2 DEF Reached
<1> QED
  BY <1>2, <1>3 DEF TaskOK, RecordOK

\* A subscriber is settled when HandleCmd returns.
LEMMA ReturnedSettled ==
    ASSUME PlaceInv, TaskInv
    PROVE  SettledOnReturn
<1> SUFFICES ASSUME NEW i \in Invocations, NEW s \in Subs, inv[i].pc = "returned", Matches(i, s)
             PROVE  IF Sub(s).mode = "sync" THEN outcome[<<i, s>>] # {} ELSE child[<<i, s>>].st # "none"
  BY DEF SettledOnReturn
<1>1. TaskOK(i, s) /\ PlaceOK(i)
  BY DEF TaskInv, PlaceInv
<1>2. Started(i, s) /\ Applied(i, s)
  BY <1>1 DEF TaskOK, Reached, Applied
<1>3. inv[i].task[s] = "none" \/ inv[i].task[s] = "ok" \/ inv[i].task[s] = "exhausted"
  BY <1>1 DEF PlaceOK, AllSettled
<1>4. ASSUME Sub(s).mode = "sync" PROVE outcome[<<i, s>>] # {}
  BY <1>1, <1>2, <1>3, <1>4 DEF Started, TaskOK, Handled, Enforced
<1> QED
  BY <1>2, <1>4 DEF Started

-------------------------------------------------------------------------------
(* Handled, or given up *)

\* The ways in which the task of s, and its journal entry, change.
TaskStep(i, s) ==
    \/ inv'[i].task[s] = inv[i].task[s] /\ journal'[i].task[s] = journal[i].task[s]
    \/ /\ SyncAttempt(i, s) /\ inv[i].task[s] = "run" /\ journal'[i].task[s] = journal[i].task[s]
       /\ outcome' = outcome \/ inv'[i].task[s] = "succeeded"
    \/ /\ inv[i].task[s] = "succeeded" \/ inv[i].task[s] = "gave up"
       /\ inv'[i].task[s] = Result(i, s) /\ outcome' = outcome
       /\ conf.durable => journal'[i].task[s] = Result(i, s)
    \/ inv[i].task[s] = "none" /\ journal'[i].task[s] = journal[i].task[s] /\ outcome' = outcome
    \/ /\ inv'[i].task[s] = "none" /\ journal'[i].task[s] = journal[i].task[s] /\ outcome' = outcome
       /\ inv'[i].pc \in Before
       /\ inv[i].task[s] = "succeeded" => <<i, s>> \in hidden'

\* Something other than Handle became of the batch.
GivenUp(i, s) == ~(outcome[<<i, s>>] \subseteq {"handled"})

\* What became of the batch shows in the journal, or else in the task.
OutcomeOK(i, s) ==
    Sub(s).mode = "sync" =>
        /\ conf.durable =>
              /\ Handled(i, s) =>
                    journal[i].task[s] = "ok" \/ inv[i].task[s] = "succeeded" \/ <<i, s>> \in hidden
              /\ GivenUp(i, s) => journal[i].task[s] = "exhausted"
        /\ ~conf.durable /\ Alive(i) =>
              /\ Handled(i, s) => inv[i].task[s] = "succeeded" \/ inv[i].task[s] = "ok"
              /\ GivenUp(i, s) => inv[i].task[s] = "exhausted"
        /\ ~conf.durable => ~(Handled(i, s) /\ GivenUp(i, s))

\* The ninth layer: the outcomes.
OutcomeInv == \A i \in Invocations : \A s \in Subs : OutcomeOK(i, s)

\* How it changes, for a Sync subscriber.
SyncOutcome(i, s) ==
    \/ (Handled(i, s)' => Handled(i, s)) /\ (GivenUp(i, s)' => GivenUp(i, s))
    \/ SyncAttempt(i, s) /\ inv[i].task[s] = "run" /\ inv'[i].task[s] = "succeeded" /\ (GivenUp(i, s)' => GivenUp(i, s))
    \/ /\ inv[i].task[s] = "exhausted" /\ (Handled(i, s)' => Handled(i, s))
       /\ inv'[i].task[s] = "exhausted" /\ journal'[i].task[s] = journal[i].task[s]

\* Every step keeps OutcomeInv.
LEMMA NextOutcome ==
    Typed /\ NestInv /\ PlaceInv /\ ChildInv /\ TaskInv /\ OutcomeInv /\ [Next]_vars
    => OutcomeInv'
\* A crash between Handle and its journal entry is on record.
<1>CrashHides.
      ASSUME NEW i \in Invocations, NEW s \in Subs, Restarts(i), inv[i].task[s] = "succeeded"
      PROVE  <<i, s>> \in hidden'
  <2> USE <1>CrashHides
  <2>1. <<i, s>>[1] = i /\ <<i, s>>[2] = s /\ <<i, s>> \in Invocations \X Subs
    OBVIOUS
  <2>2. CASE Crash
    BY <2>1, <2>2 DEF Crash
  <2>3. ASSUME NEW c \in Commands, Retried(c), i = c \/ \E t \in Subs : i = <<c, t>> PROVE <<i, s>> \in hidden'
    <3>1. i \in {c} \cup ({c} \X Subs)
      BY <2>3, SMTT(30)
    <3>2. <<i, s>> \in ({c} \cup ({c} \X Subs)) \X Subs
      BY <3>1
    <3> QED
      BY <2>1, <2>3, <3>2 DEF Retried
  <2> QED
    BY <2>2, <2>3 DEF Restarts
\* How the task of a subscriber changes.
<1>TaskChanges.
      ASSUME Typed, NestInv, PlaceInv, NEW i \in Invocations, NEW s \in Subs, [Next]_vars
      PROVE  TaskStep(i, s)
  <2> USE <1>TaskChanges
  <2>1. inv[i].task \in [Subs -> Tasks] /\ journal[i].task \in [Subs -> {"none", "ok", "exhausted"}]
    BY TypedParts DEF InvRecord, JournalRecord
  <2>2. PlaceOK(i)
    BY DEF PlaceInv
  <2>3. CASE inv'[i].task[s] = inv[i].task[s] /\ journal'[i].task[s] = journal[i].task[s]
    BY <2>3 DEF TaskStep
  <2>4. CASE Rests(i) \/ Begins(i)
    BY <2>3, <2>4 DEF Rests, Begins, SameTasks
  <2>5. CASE Restarts(i)
    <3>1. journal' = journal /\ outcome' = outcome
      BY <2>5, RestartIs
    <3>2. inv'[i] = inv[i] \/ Blank(i, "none") \/ Blank(i, "append") \/ Blank(i, "lost")
      BY <2>5, RestartIs
    <3>3. inv'[i] = inv[i] \/ (inv'[i].task[s] = "none" /\ inv'[i].pc \in Before)
      BY <3>2 DEF Blank, Before
    <3>4. inv[i].task[s] = "succeeded" => <<i, s>> \in hidden'
      BY <2>5, <1>CrashHides
    <3> QED
      BY <2>3, <3>1, <3>3, <3>4 DEF TaskStep
  <2>6. CASE Early(i)
    BY <2>3, <2>6, SoonerStep DEF Sooner, SameTasks
  <2>7. CASE RunAsync(i)
    <3>1. inv'[i].task = [inv[i].task EXCEPT ![Current(i)] = ResultOrRun(i)] /\ journal' = journal /\ outcome' = outcome
      BY <2>7, RunAsyncIs DEF RunAsync
    <3>2. s # Current(i) => inv'[i].task[s] = inv[i].task[s]
      BY <2>1, <3>1
    <3>3. s = Current(i) => inv[i].task[s] = "none"
      <4>1. inv[i].pc = "fanout" /\ inv[i].next \in 1..Len(Order)
        BY <2>7, Turn DEF RunAsync
      <4>2. inv[i].next >= inv[i].next
        BY <4>1, Bounds, SMTT(30)
      <4> QED
        BY <2>2, <4>1, <4>2 DEF PlaceOK, Current
    <3> QED
      BY <2>3, <3>1, <3>2, <3>3 DEF TaskStep
  <2>8. ASSUME NEW t \in Subs, SyncAttempt(i, t) PROVE TaskStep(i, s)
    <3>1. PICK r \in {"succeeded", "run", "gave up"} :
             /\ inv'[i].task = [inv[i].task EXCEPT ![t] = r]
             /\ r # "succeeded" => outcome' = outcome
      BY <2>8, SyncAttemptIs
    <3>2. journal' = journal /\ inv[i].task[t] = "run"
      BY <2>8 DEF SyncAttempt
    <3>3. (s # t => inv'[i].task[s] = inv[i].task[s]) /\ (s = t => inv'[i].task[s] = r)
      BY <2>1, <3>1
    <3> QED
      BY <2>3, <2>8, <3>1, <3>2, <3>3 DEF TaskStep
  <2>9. ASSUME NEW t \in Subs, RecordSync(i, t) PROVE TaskStep(i, s)
    <3>1. inv'[i].task = [inv[i].task EXCEPT ![t] = Result(i, t)]
      BY <2>9, RecordSyncIs
    <3>2. (inv[i].task[t] = "succeeded" \/ inv[i].task[t] = "gave up") /\ outcome' = outcome
      BY <2>9 DEF RecordSync
    <3>3. conf.durable => journal'[i].task = [journal[i].task EXCEPT ![t] = Result(i, t)]
      BY <2>9, RecordTaskIs
    <3>4. ~conf.durable => journal' = journal
      BY <2>9 DEF RecordSync, Journal
    <3>5. CASE s # t
      <4>1. inv'[i].task[s] = inv[i].task[s] /\ journal'[i].task[s] = journal[i].task[s]
        BY <2>1, <3>1, <3>3, <3>4, <3>5
      <4> QED
        BY <2>3, <4>1
    <3>6. CASE s = t
      <4>1. inv'[i].task[s] = Result(i, s) /\ (conf.durable => journal'[i].task[s] = Result(i, s))
        BY <2>1, <3>1, <3>3, <3>6
      <4> QED
        BY <3>2, <3>6, <4>1 DEF TaskStep
    <3> QED
      BY <3>5, <3>6
  <2>10. ASSUME Acts(i), ~Early(i), ~RunAsync(i), ~\E t \in Subs : SyncAttempt(i, t) \/ RecordSync(i, t)
         PROVE  TaskStep(i, s)
    <3>1. SameTasks(i) /\ journal'[i].task = journal[i].task
      BY <2>10, LaterStep DEF Later
    <3> QED
      BY <2>3, <3>1 DEF SameTasks
  <2> QED
    BY <2>4, <2>5, <2>6, <2>7, <2>8, <2>9, <2>10, Fate
\* An outcome added to s changes only one of Handled and GivenUp.
<1>OutcomeWith.
      ASSUME NEW i \in Invocations, NEW s \in Subs, NEW w \in Whats,
             outcome'[<<i, s>>] = outcome[<<i, s>>] \cup {w}
      PROVE  /\ w # "handled" => (Handled(i, s)' => Handled(i, s))
             /\ w = "handled" => (GivenUp(i, s)' => GivenUp(i, s))
  <2> USE <1>OutcomeWith
  <2>1. w # "handled" => (Handled(i, s)' => Handled(i, s))
    BY DEF Handled
  <2>2. w = "handled" => (GivenUp(i, s)' => GivenUp(i, s))
    BY DEF GivenUp
  <2> QED
    BY <2>1, <2>2
\* How the outcome of a synchronous subscriber changes.
<1>SyncOutcomes.
      ASSUME Typed, NEW i \in Invocations, NEW s \in Subs, PlaceOK(i), ChildOK(i, s), Sub(s).mode = "sync",
             OutcomeStep(i, s), TaskStep(i, s), [Next]_vars
      PROVE  SyncOutcome(i, s)
  <2> USE <1>SyncOutcomes
  <2>1. CASE outcome'[<<i, s>>] = outcome[<<i, s>>]
    BY <2>1 DEF SyncOutcome, Handled, GivenUp
  <2>2. ASSUME NEW w \in Whats, Settles(i, s, w), outcome'[<<i, s>>] = outcome[<<i, s>>] \cup {w}
        PROVE  SyncOutcome(i, s)
    <3>1. ~AsyncAttempt(i, s)
      <4>1. AsyncAttempt(i, s) => child[<<i, s>>].st = "run"
        BY DEF AsyncAttempt
      <4>2. child[<<i, s>>].st = "none"
        BY DEF ChildOK
      <4> QED
        BY <4>1, <4>2
    <3>2. CASE SyncAttempt(i, s) /\ w = "handled"
      <4>1. GivenUp(i, s)' => GivenUp(i, s)
        BY <2>2, <3>2, <1>OutcomeWith
      <4>2. inv[i].task[s] = "run"
        BY <3>2 DEF SyncAttempt
      <4>3. outcome' = outcome \/ inv'[i].task[s] = "succeeded"
        <5>1. PICK r \in {"succeeded", "run", "gave up"} :
                 inv'[i].task = [inv[i].task EXCEPT ![s] = r] /\ (r # "succeeded" => outcome' = outcome)
          BY <3>2, SyncAttemptIs
        <5>2. inv[i].task \in [Subs -> Tasks]
          BY TypedParts DEF InvRecord
        <5> QED
          BY <5>1, <5>2
      <4> QED
        BY <2>1, <3>2, <4>1, <4>2, <4>3 DEF SyncOutcome
    <3>3. ASSUME s = Current(i), Drop(i) \/ DeadLetter(i) \/ EndCompensation(i), w # "handled"
          PROVE  SyncOutcome(i, s)
      <4>1. Handled(i, s)' => Handled(i, s)
        BY <2>2, <3>3, <1>OutcomeWith
      <4>2. inv[i].task[s] = "exhausted"
        BY <3>3 DEF Drop, DeadLetter, Exhausted, EndCompensation, PlaceOK
      <4>3. SameTasks(i) /\ journal' = journal
        <5>1. CASE Drop(i) \/ DeadLetter(i)
          <6>1. More(i) /\ inv' = [inv EXCEPT ![i].next = @ + 1] /\ journal' = journal
            BY <5>1 DEF Drop, DeadLetter, Exhausted
          <6> QED
            BY <6>1, TurnIs
        <5>2. CASE EndCompensation(i)
          BY <5>2, EndCompensationIs DEF EndCompensation, OnlyMoves
        <5> QED
          BY <3>3, <5>1, <5>2
      <4> QED
        BY <4>1, <4>2, <4>3 DEF SyncOutcome, SameTasks
    <3> QED
      BY <2>2, <3>1, <3>2, <3>3 DEF Settles
  <2> QED
    BY <2>1, <2>2 DEF OutcomeStep
\* With a journal.
<1>DurableOutcome.
      ASSUME NEW i \in Invocations, NEW s \in Subs, Sub(s).mode = "sync", conf.durable, conf' = conf,
             hidden \subseteq hidden', RecordOK(i, s), OutcomeOK(i, s), TaskStep(i, s), SyncOutcome(i, s)
      PROVE  OutcomeOK(i, s)'
  <2> USE <1>DurableOutcome
  <2>1. Handled(i, s) => journal[i].task[s] = "ok" \/ inv[i].task[s] = "succeeded" \/ <<i, s>> \in hidden
    BY DEF OutcomeOK
  <2>2. GivenUp(i, s) => journal[i].task[s] = "exhausted"
    BY DEF OutcomeOK
  <2>3. ASSUME journal[i].task[s] = "ok" \/ journal[i].task[s] = "exhausted"
        PROVE  journal'[i].task[s] = journal[i].task[s]
    <3>1. inv[i].task[s] # "succeeded" /\ inv[i].task[s] # "gave up"
      BY <2>3 DEF RecordOK
    <3> QED
      BY <3>1 DEF TaskStep
  <2>4. ASSUME inv[i].task[s] = "succeeded"
        PROVE  journal'[i].task[s] = "ok" \/ inv'[i].task[s] = "succeeded" \/ <<i, s>> \in hidden'
    <3>1. Result(i, s) = "ok"
      BY <2>4 DEF Result
    <3> QED
      BY <2>4, <3>1 DEF TaskStep
  <2>5. Handled(i, s) => journal'[i].task[s] = "ok" \/ inv'[i].task[s] = "succeeded" \/ <<i, s>> \in hidden'
    BY <2>1, <2>3, <2>4
  <2>6. GivenUp(i, s) => journal'[i].task[s] = "exhausted"
    BY <2>2, <2>3
  <2>7. ASSUME inv[i].task[s] = "exhausted", journal'[i].task[s] = journal[i].task[s]
        PROVE  journal'[i].task[s] = "exhausted"
    BY <2>7 DEF RecordOK
  <2>8. Handled(i, s)' => journal'[i].task[s] = "ok" \/ inv'[i].task[s] = "succeeded" \/ <<i, s>> \in hidden'
    BY <2>5 DEF SyncOutcome
  <2>9. GivenUp(i, s)' => journal'[i].task[s] = "exhausted"
    BY <2>6, <2>7 DEF SyncOutcome
  <2> QED
    BY <2>8, <2>9 DEF OutcomeOK
\* Without one.
<1>PlainOutcome.
      ASSUME NEW i \in Invocations, NEW s \in Subs, Sub(s).mode = "sync", ~conf.durable, Steady(i),
             Fresh(i), OutcomeOK(i, s), TaskStep(i, s), SyncOutcome(i, s)
      PROVE  OutcomeOK(i, s)'
  <2> USE <1>PlainOutcome
  <2>1. /\ Alive(i) /\ Handled(i, s) => inv[i].task[s] = "succeeded" \/ inv[i].task[s] = "ok"
        /\ Alive(i) /\ GivenUp(i, s) => inv[i].task[s] = "exhausted"
        /\ ~(Handled(i, s) /\ GivenUp(i, s))
    BY DEF OutcomeOK
  <2>2. conf' = conf /\ (Alive(i)' => Alive(i))
    BY DEF Steady
  <2>3. inv[i].task[s] # "none" => Alive(i)
    BY DEF Fresh, Alive, Before
  <2>4. Alive(i)' /\ inv'[i].pc \in Before => inv[i].task[s] = "none"
    BY DEF Steady, Fresh
  <2>5. ASSUME Alive(i)', inv[i].task[s] = "succeeded" \/ inv[i].task[s] = "ok"
        PROVE  inv'[i].task[s] = "succeeded" \/ inv'[i].task[s] = "ok"
    <3>1. inv[i].task[s] = "succeeded" => Result(i, s) = "ok"
      BY DEF Result
    <3> QED
      BY <2>4, <2>5, <3>1 DEF TaskStep
  <2>6. ASSUME Alive(i)', inv[i].task[s] = "exhausted" PROVE inv'[i].task[s] = "exhausted"
    BY <2>4, <2>6 DEF TaskStep
  <2>7. CASE (Handled(i, s)' => Handled(i, s)) /\ (GivenUp(i, s)' => GivenUp(i, s))
    <3>1. ~(Handled(i, s)' /\ GivenUp(i, s)')
      BY <2>1, <2>7
    <3>2. Alive(i)' /\ Handled(i, s)' => inv'[i].task[s] = "succeeded" \/ inv'[i].task[s] = "ok"
      BY <2>1, <2>2, <2>5, <2>7
    <3>3. Alive(i)' /\ GivenUp(i, s)' => inv'[i].task[s] = "exhausted"
      BY <2>1, <2>2, <2>6, <2>7
    <3> QED
      BY <2>2, <3>1, <3>2, <3>3 DEF OutcomeOK
  <2>8. CASE /\ inv[i].task[s] = "run" /\ inv'[i].task[s] = "succeeded"
             /\ GivenUp(i, s)' => GivenUp(i, s)
    <3>1. ~GivenUp(i, s)'
      BY <2>1, <2>3, <2>8
    <3> QED
      BY <2>2, <2>8, <3>1 DEF OutcomeOK
  <2>9. CASE /\ inv[i].task[s] = "exhausted" /\ inv'[i].task[s] = "exhausted"
             /\ Handled(i, s)' => Handled(i, s)
    <3>1. ~Handled(i, s)'
      BY <2>1, <2>3, <2>9
    <3> QED
      BY <2>2, <2>9, <3>1 DEF OutcomeOK
  <2> QED
    BY <2>7, <2>8, <2>9 DEF SyncOutcome
\* The step itself.
<1> SUFFICES ASSUME Typed, NestInv, PlaceInv, ChildInv, TaskInv, OutcomeInv, [Next]_vars
             PROVE  OutcomeInv'
  OBVIOUS
<1> SUFFICES ASSUME NEW i \in Invocations, NEW s \in Subs PROVE OutcomeOK(i, s)'
  BY DEF OutcomeInv
<1>1. conf' = conf /\ hidden \subseteq hidden' /\ Steady(i) /\ TaskStep(i, s) /\ OutcomeStep(i, s)
  BY Fixed, NextSteady, <1>TaskChanges, OutcomeChanges
<1>2. PlaceOK(i) /\ ChildOK(i, s) /\ Fresh(i) /\ RecordOK(i, s) /\ OutcomeOK(i, s)
  BY DEF PlaceInv, ChildInv, NestInv, TaskInv, OutcomeInv
<1>3. CASE Sub(s).mode # "sync"
  BY <1>1, <1>3 DEF OutcomeOK, Sub
<1>4. CASE Sub(s).mode = "sync"
  <2>1. SyncOutcome(i, s)
    BY <1>1, <1>2, <1>4, <1>SyncOutcomes
  <2> QED
    BY <1>1, <1>2, <1>4, <2>1, <1>DurableOutcome, <1>PlainOutcome
<1> QED
  BY <1>3, <1>4

\* Nothing is settled in the initial state.
LEMMA InitOutcome == ASSUME Init PROVE OutcomeInv
<1> SUFFICES ASSUME NEW i \in Invocations, NEW s \in Subs PROVE OutcomeOK(i, s)
  BY DEF OutcomeInv
<1>1. <<i, s>> \in Invocations \X Subs
  OBVIOUS
<1>2. outcome[<<i, s>>] = {}
  BY <1>1 DEF Init
<1>3. ~Handled(i, s) /\ ~GivenUp(i, s)
  BY <1>2 DEF Handled, GivenUp
<1> QED
  BY <1>3 DEF OutcomeOK

\* A subscriber that handled the batch and was given up was hidden by a crash.
LEMMA HandledOrGivenUp ==
    ASSUME TaskInv, OutcomeInv
    PROVE  NotBoth
<1> SUFFICES ASSUME NEW i \in Invocations, NEW s \in Subs, "handled" \in outcome[<<i, s>>],
                    outcome[<<i, s>>] # {"handled"}, Sub(s).mode = "sync"
             PROVE  <<i, s>> \in hidden
  BY DEF NotBoth
<1>1. Handled(i, s) /\ GivenUp(i, s)
  BY DEF Handled, GivenUp
<1>2. OutcomeOK(i, s) /\ RecordOK(i, s)
  BY DEF OutcomeInv, TaskInv
<1>3. conf.durable
  BY <1>1, <1>2 DEF OutcomeOK
<1>4. journal[i].task[s] = "exhausted"
  BY <1>1, <1>2, <1>3 DEF OutcomeOK
<1>5. inv[i].task[s] # "succeeded"
  BY <1>2, <1>4 DEF RecordOK
<1>6. journal[i].task[s] = "ok" \/ inv[i].task[s] = "succeeded" \/ <<i, s>> \in hidden
  BY <1>1, <1>2, <1>3 DEF OutcomeOK
<1> QED
  BY <1>4, <1>5, <1>6

-------------------------------------------------------------------------------
(* The state that the caller gets *)

\* Every step keeps ReturnsCompensated.
LEMMA NextReturned ==
    Typed /\ NestInv /\ ChildInv /\ JournalInv /\ TaskInv /\ OutcomeInv /\ ReturnsCompensated /\ [Next]_vars
    => ReturnsCompensated'
\* A command that returned is past its compensations.
<1>ReturnedStays.
      ASSUME Typed, NestInv, ReturnsCompensated, NEW c \in Commands, NEW s \in Subs, [Next]_vars,
             inv[c].pc = "returned", SameState(c), "compensated" \in outcome'[<<c, s>>]
      PROVE  Covers(inv[c].state, <<c, s>>)'
  <2> USE <1>ReturnedStays
  <2>1. c \in Invocations /\ <<c, s>> \in Invocations
    BY Kinds
  <2>2. inv[<<c, s>>].pc # "append"
    BY DEF NestInv, NestOK
  <2>3. Written(<<c, s>>)' = Written(<<c, s>>)
    <3>1. ~Handle(<<c, s>>)
      BY <2>2 DEF Handle
    <3> QED
      BY <2>1, <3>1, WrittenKept
  <2>4. "compensated" \in outcome[<<c, s>>]
    <3>1. OutcomeStep(c, s)
      BY <2>1, OutcomeChanges
    <3>2. ~EndCompensation(c)
      BY DEF EndCompensation
    <3>3. ASSUME NEW w \in Whats, Settles(c, s, w) PROVE w # "compensated"
      BY <3>2, <3>3 DEF Settles
    <3>4. ASSUME NEW w \in Whats, Settles(c, s, w), outcome'[<<c, s>>] = outcome[<<c, s>>] \cup {w}
          PROVE  "compensated" \in outcome[<<c, s>>]
      BY <3>3, <3>4
    <3> QED
      BY <3>1, <3>4 DEF OutcomeStep
  <2>5. Covers(inv[c].state, <<c, s>>)
    BY <2>4 DEF ReturnsCompensated, Covers
  <2> QED
    BY <2>3, <2>5 DEF Covers, SameState
\* A command that compensates returns the current state.
<1>ReturnCovers.
      ASSUME Typed, ChildInv, JournalInv, TaskInv, OutcomeInv, NEW c \in Commands, NEW s \in Subs,
             Return(c), "compensated" \in outcome[<<c, s>>]
      PROVE  inv[c].mutated
  <2> USE <1>ReturnCovers
  <2>1. c \in Invocations /\ inv[c].pc = "apply" /\ ~More(c)
    BY Kinds DEF Return
  <2>2. ChildOK(c, s) /\ JournalOK(c) /\ TaskOK(c, s) /\ RecordOK(c, s) /\ OutcomeOK(c, s)
    BY <2>1 DEF ChildInv, JournalInv, TaskInv, OutcomeInv
  <2>3. Sub(s).policy = "compensate"
    BY <2>2 DEF ChildOK
  <2>4. Sub(s).mode = "sync"
    BY <2>3, CommandBusAssumption, TypedParts DEF Sub
  <2>5. GivenUp(c, s)
    BY DEF GivenUp
  <2>6. Reached(c, s) /\ Applied(c, s)
    BY <2>1, PassedAll DEF Reached, Applied
  <2>7. inv[c].task[s] = "exhausted"
    <3>1. CASE conf.durable
      <4>1. journal[c].task[s] = "exhausted"
        BY <2>2, <2>4, <2>5, <3>1 DEF OutcomeOK
      <4>2. Hits(journal[c].envs, s) /\ (inv[c].task[s] = "none" \/ inv[c].task[s] = "exhausted")
        BY <2>2, <4>1 DEF RecordOK
      <4>3. inv[c].envs = journal[c].envs
        BY <2>1, <2>2, <3>1 DEF JournalOK
      <4>4. Matches(c, s)
        BY <4>2, <4>3 DEF Matches, Hits
      <4>5. inv[c].task[s] # "none"
        BY <2>2, <2>4, <2>6, <4>4 DEF TaskOK, Started
      <4> QED
        BY <4>2, <4>5
    <3>2. CASE ~conf.durable
      <4>1. Alive(c)
        BY <2>1 DEF Alive
      <4> QED
        BY <2>2, <2>4, <2>5, <3>2, <4>1 DEF OutcomeOK
    <3> QED
      BY <3>1, <3>2
  <2> QED
    BY <2>2, <2>3, <2>6, <2>7 DEF TaskOK, Enforced
\* The step itself.
<1> SUFFICES ASSUME Typed, NestInv, ChildInv, JournalInv, TaskInv, OutcomeInv, ReturnsCompensated, [Next]_vars
             PROVE  ReturnsCompensated'
  OBVIOUS
<1> SUFFICES ASSUME NEW c \in Commands, NEW s \in Subs, inv'[c].pc = "returned",
                    "compensated" \in outcome'[<<c, s>>]
             PROVE  Covers(inv[c].state, <<c, s>>)'
  BY DEF ReturnsCompensated, Covers
<1>1. c \in Invocations
  BY Kinds
<1>2. ASSUME inv[c].pc = "returned", SameState(c) PROVE Covers(inv[c].state, <<c, s>>)'
  BY <1>2, <1>ReturnedStays
<1>3. ASSUME log' = log, inv'[c].state = Len(log) PROVE Covers(inv[c].state, <<c, s>>)'
  <2>1. Covers(Len(log), <<c, s>>)
    BY LogCovers
  <2>2. Written(<<c, s>>)' = Written(<<c, s>>)
    BY <1>3 DEF Written
  <2> QED
    BY <1>3, <2>1, <2>2 DEF Covers
<1>4. CASE Rests(c)
  BY <1>2, <1>4 DEF Rests, SameState
<1>5. CASE Begins(c)
  BY <1>5 DEF Begins
<1>6. CASE Restarts(c)
  <2>1. inv'[c] = inv[c] \/ Blank(c, "none") \/ Blank(c, "append") \/ Blank(c, "lost")
    BY <1>1, <1>6, RestartIs
  <2> QED
    BY <1>2, <2>1 DEF Blank, SameState
<1>7. CASE Early(c)
  <2>1. ReturnNoOp(c)
    BY <1>1, <1>7, SoonerReturn
  <2>2. log' = log /\ inv'[c].state = Len(log)
    BY <1>1, <2>1, ReturnNoOpIs DEF ReturnNoOp
  <2> QED
    BY <1>3, <2>2
<1>8. CASE Return(c)
  <2>1. log' = log /\ outcome' = outcome
    BY <1>8 DEF Return
  <2>2. inv[c].mutated
    BY <1>8, <2>1, <1>ReturnCovers
  <2>3. inv'[c].state = Len(log)
    BY <1>1, <1>8, <2>2, ReturnIs
  <2> QED
    BY <1>3, <2>1, <2>3
<1>9. CASE Acts(c) /\ ~Early(c) /\ ~Return(c)
  <2>1. Later(c)
    BY <1>1, <1>9, LaterStep
  <2>2. inv[c].pc = "returned"
    BY <1>9, <2>1 DEF Later
  <2>3. ~ReadState(c)
    BY <2>2 DEF ReadState
  <2>4. SameState(c)
    BY <1>9, <2>1, <2>3 DEF Later
  <2> QED
    BY <1>2, <2>2, <2>4
<1> QED
  BY <1>1, <1>4, <1>5, <1>6, <1>7, <1>8, <1>9, Fate

-------------------------------------------------------------------------------
(* Theorems *)

\* All of it.
BusInv ==
    /\ Typed /\ NestInv /\ AppendInv /\ OnceInv /\ PlaceInv /\ JournalInv /\ StateInv
    /\ ChildInv /\ TaskInv /\ OutcomeInv /\ ReturnsCompensated

\* No invocation has returned in the initial state.
LEMMA InitReturned == ASSUME Init PROVE ReturnsCompensated
<1> SUFFICES ASSUME NEW c \in Commands, NEW s \in Subs PROVE inv[c].pc # "returned"
  BY DEF ReturnsCompensated
<1>1. inv[c] = NoInv
  BY Kinds DEF Init
<1> QED
  BY <1>1, SMTT(30) DEF NoInv

\* BusInv is inductive.
LEMMA BusInvHolds == Spec => []BusInv
<1>1. Init => BusInv
  BY InitTyped, InitNest, InitAppend, InitOnce, InitPlace, InitJournal, InitState, InitChild, InitTask,
     InitOutcome, InitReturned DEF BusInv
<1>2. BusInv /\ [Next]_vars => BusInv'
  BY NextTyped, NextNest, NextAppend, NextOnce, NextPlace, NextJournal, NextState, NextChild, NextTask,
     NextOutcome, NextReturned DEF BusInv
<1> QED
  BY <1>1, <1>2, PTL DEF Spec

INSTANCE FiniteSetTheorems

\* The versions of an append.
LEMMA BatchSize ==
    ASSUME NEW a, NEW n, a \in Nat, n \in Nat, n > 0
    PROVE  IsFiniteSet(a..(a + n - 1)) /\ Cardinality(a..(a + n - 1)) = n
<1>1. a \in Int /\ a + n - 1 \in Int /\ a <= a + n - 1 /\ (a + n - 1) - a + 1 = n
  BY SMTT(30)
<1>2. IsFiniteSet(a..(a + n - 1)) /\ Cardinality(a..(a + n - 1)) = (a + n - 1) - a + 1
  <2>1. PICK b : b = a + n - 1
    OBVIOUS
  <2>2. IsFiniteSet(a..b) /\ Cardinality(a..b) = IF a > b THEN 0 ELSE b - a + 1
    BY <1>1, <2>1, FS_Interval
  <2>3. ~(a > b)
    BY <1>1, <2>1, SMTT(30)
  <2> QED
    BY <2>1, <2>2, <2>3
<1> QED
  BY <1>1, <1>2

\* The parts of the bus have their types: the configuration, the stream, the journal
\* of the runtime, the variables of HandleCmd and what became of the subscribers.
THEOREM BusTypes == Spec => []TypeOK
<1>1. BusInv => TypeOK
  BY DEF BusInv, Typed
<1> QED
  BY <1>1, BusInvHolds, PTL

\* Subscribers get the events their command appended, all of them and no other
\* writer's: readStream, and the journal on replay, cut the stream at the append.
THEOREM BatchesAreOwn == Spec => []BatchIsOwn
<1>1. BusInv => BatchIsOwn
  <2> SUFFICES ASSUME BusInv, NEW i \in Invocations, inv[i].envs # {}
               PROVE  inv[i].envs \subseteq Written(i) /\ Cardinality(inv[i].envs) = Len(TypesOf(i))
    BY DEF BatchIsOwn
  <2>1. Typed /\ OwnBatch(inv[i].envs, i)
    BY DEF BusInv, AppendInv, AppendOK
  <2>2. PICK a, b \in Versions : inv[i].envs = a..b /\ Own(a, b, i)
    BY <2>1 DEF OwnBatch
  <2>3. PICK n \in Nat : n = Len(TypesOf(i)) /\ n > 0
    BY Bounds
  <2>4. a \in Nat /\ b \in Nat /\ Len(log) \in Nat
    BY <2>1, Bounds, LogLength
  <2>5. 0 < a /\ b = a + n - 1 /\ b <= Len(log) /\ \A v \in a..b : log[v].inv = i
    BY <2>2, <2>3 DEF Own
  <2>6. \A v \in a..b : v \in 1..Len(log)
    BY <2>4, <2>5, SMTT(30)
  <2>7. a..b \subseteq Written(i)
    BY <2>5, <2>6 DEF Written
  <2>8. Cardinality(a..b) = n
    BY <2>3, <2>4, <2>5, BatchSize
  <2> QED
    BY <2>2, <2>3, <2>7, <2>8
<1> QED
  BY <1>1, BusInvHolds, PTL

\* A command, and a compensation, appends its events at most once, over all crashes,
\* retries and replays, unless a crash came between the append and its journal entry.
THEOREM CommandsCommitOnce == Spec => []CommitsOnce
<1>1. BusInv => CommitsOnce
  <2> SUFFICES ASSUME BusInv, NEW i \in Invocations, i \notin torn
               PROVE  ~(Cardinality(Written(i)) > Len(TypesOf(i)))
    BY DEF CommitsOnce
  <2>1. PICK n \in Nat : n = Len(TypesOf(i)) /\ n > 0
    BY Bounds
  <2>2. Written(i) = {} \/ \E a \in 1..MaxEvents : Written(i) = a..(a + n - 1)
    BY <2>1 DEF BusInv, OnceInv, OnceOK
  <2>3. CASE Written(i) = {}
    <3>1. Cardinality(Written(i)) = 0
      BY <2>3, FS_EmptySet
    <3> QED
      BY <2>1, <3>1, SMTT(30)
  <2>4. ASSUME NEW a \in 1..MaxEvents, Written(i) = a..(a + n - 1)
        PROVE  ~(Cardinality(Written(i)) > Len(TypesOf(i)))
    <3>1. a \in Nat
      BY Bounds, SMTT(30)
    <3>2. Cardinality(Written(i)) = n
      BY <2>1, <2>4, <3>1, BatchSize
    <3> QED
      BY <2>1, <3>2, SMTT(30)
  <2> QED
    BY <2>2, <2>3, <2>4
<1> QED
  BY <1>1, BusInvHolds, PTL

\* All Sync subscribers of a command, in all replays, get one and the same state,
\* and it includes the events of the command: postDecideState is journaled once.
THEOREM SubscribersShareState == Spec => []OneState
<1>1. BusInv => OneState
  <2> SUFFICES ASSUME BusInv, NEW i \in Invocations
               PROVE  /\ Cardinality(given[i]) <= 1
                      /\ \A v \in given[i] : \A w \in Written(i) : w <= v
    BY DEF OneState
  <2>1. (\A v, w \in given[i] : v = w) /\ \A v \in given[i] : Covers(v, i)
    BY DEF BusInv, StateInv, StateOK
  <2>2. given[i] = {} \/ \E v : given[i] = {v}
    BY <2>1
  <2>3. Cardinality(given[i]) = 0 \/ Cardinality(given[i]) = 1
    BY <2>2, FS_EmptySet, FS_Singleton
  <2>4. Cardinality(given[i]) <= 1
    BY <2>3, SMTT(30)
  <2> QED
    BY <2>1, <2>4 DEF Covers
<1> QED
  BY <1>1, BusInvHolds, PTL

\* HandleCmd returns only when every matching subscriber is settled: a Sync one
\* handled the batch or its policy was enforced, an Async one has its child.
THEOREM SubscribersSettled == Spec => []SettledOnReturn
<1>1. BusInv => SettledOnReturn
  BY ReturnedSettled DEF BusInv
<1> QED
  BY <1>1, BusInvHolds, PTL

\* A Sync subscriber that handled the batch is not compensated, dropped or written to
\* the dead letters as well, unless a crash came between Handle and its journal entry.
THEOREM HandledIsNotGivenUp == Spec => []NotBoth
<1>1. BusInv => NotBoth
  BY HandledOrGivenUp DEF BusInv
<1> QED
  BY <1>1, BusInvHolds, PTL

\* The caller of a command that was compensated gets a state that includes the
\* events of the compensation: HandleCmd loads it again.
THEOREM CallersSeeCompensation == Spec => []ReturnsCompensated
<1>1. BusInv => ReturnsCompensated
  BY DEF BusInv
<1> QED
  BY <1>1, BusInvHolds, PTL
===============================================================================
