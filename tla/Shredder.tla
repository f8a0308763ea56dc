------------------------------- MODULE Shredder -------------------------------
(***************************************************************************)
(* shred.Shredder: the keys (DEKs) of subjects, wrapped under versions of  *)
(* a tenant's key (KEK) in the table subject_keys, cached by each process, *)
(* created by the first encryption, destroyed by ForgetSubject and by the  *)
(* retention worker, and re-wrapped after a rotation.                      *)
(*                                                                         *)
(* One tenant.  A DEK is the number of the rand.Read that made it, 0 is no *)
(* DEK; a ciphertext is a subject and the DEK it was sealed with.  A       *)
(* thread is a goroutine of a process and runs one call at a time.         *)
(***************************************************************************)
EXTENDS Ordering

CONSTANTS
    Subjects,  \* a set of numbers: queries order by subject
    Threads,
    Procs,
    ProcOf,    \* the process of each thread
    Ops,       \* the calls that each thread makes, out of OpKinds
    OneCreator,  \* whether first encryptions of a subject are kept apart
    PageSize,
    MaxKeys,   \* bound on the number of DEKs made
    MaxKEK     \* bound on the KEK version

OpKinds == {"encrypt", "decrypt", "forget", "rewrap", "sweep"}

ASSUME ShredderAssumption ==
    /\ Subjects \subseteq Nat /\ IsFiniteSet(Subjects)
    /\ ProcOf \in [Threads -> Procs]
    /\ Ops \in [Threads -> SUBSET OpKinds]
    /\ OneCreator \in BOOLEAN
    /\ PageSize \in Nat \ {0}
    /\ MaxKeys \in Nat
    /\ MaxKEK \in Nat \ {0}

VARIABLES
    row,     \* subject_keys: the row of each subject, or NoRow
    minted,  \* the number of DEKs made so far
    kek,     \* CurrentKEKVersion of the key store
    cache,   \* dekCache of each process: the DEK of each subject, or 0
    sealed,  \* the ciphertexts written so far
    th       \* the local variables of each thread

vars == <<row, minted, kek, cache, sealed, th>>

NoRow == [dek |-> 0, kek |-> 0, shredded |-> FALSE]
Exists(s) == row[s] # NoRow
Live(s) == Exists(s) /\ ~row[s].shredded

\* page: rows a query returned, with the DEK and KEK version they had then;
\* due: the subjects created before a sweep's cutoff.
Idle == [op |-> "none", pc |-> "idle", subject |-> 0, dek |-> 0, kek |-> 0,
         current |-> 0, page |-> {}, full |-> FALSE, due |-> {}]

Init ==
    /\ row = [s \in Subjects |-> NoRow]
    /\ minted = 0
    /\ kek = 1
    /\ cache = [p \in Procs |-> [s \in Subjects |-> 0]]
    /\ sealed = {}
    /\ th = [t \in Threads |-> Idle]

Cached(t, s) == cache[ProcOf[t]][s]
Goto(t, pc) == th' = [th EXCEPT ![t].pc = pc]
Return(t) == th' = [th EXCEPT ![t] = Idle]

-------------------------------------------------------------------------------
(* EncryptField and DecryptField *)

Creating(t, s) ==
    /\ th[t].op = "encrypt"
    /\ th[t].subject = s
    /\ th[t].pc \in {"lookup", "wrap", "upsert"}
    /\ ~Exists(s)

\* Bound: a call that may have to make a DEK starts only where one is left for it.
KeyLeft(s) ==
    \/ Exists(s)
    \/ minted + Cardinality({u \in Threads : th[u].op = "encrypt" /\ th[u].pc \in {"lookup", "wrap"}}) < MaxKeys

\* EncryptField: EnsureSubjectKey finds the DEK in the cache ...
EncryptCached(t, s) ==
    /\ "encrypt" \in Ops[t]
    /\ th[t] = Idle
    /\ Cached(t, s) # 0
    /\ sealed' = sealed \cup {[subject |-> s, dek |-> Cached(t, s)]}
    /\ UNCHANGED <<row, minted, kek, cache, th>>

\* ... or has to ask the store.
EncryptMiss(t, s) ==
    /\ "encrypt" \in Ops[t]
    /\ th[t] = Idle
    /\ Cached(t, s) = 0
    /\ KeyLeft(s)
    /\ OneCreator => \A u \in Threads : ~Creating(u, s)
    /\ th' = [th EXCEPT ![t] = [Idle EXCEPT !.op = "encrypt", !.pc = "lookup", !.subject = s]]
    /\ UNCHANGED <<row, minted, kek, cache, sealed>>

\* DecryptField of a ciphertext of s with no DEK in the cache; with one there is
\* nothing to fetch.
DecryptMiss(t, s) ==
    /\ "decrypt" \in Ops[t]
    /\ th[t] = Idle
    /\ \E c \in sealed : c.subject = s
    /\ Cached(t, s) = 0
    /\ th' = [th EXCEPT ![t] = [Idle EXCEPT !.op = "decrypt", !.pc = "lookup", !.subject = s]]
    /\ UNCHANGED <<row, minted, kek, cache, sealed>>

\* GetSubjectKey, then UnwrapDEK.  A shredded subject and a missing key (decrypt)
\* are errors.
AlwaysMints(t) ==  \* mutant: every first use in a process makes a DEK
    /\ th[t].pc = "lookup"
    /\ IF th[t].op = "encrypt" THEN Goto(t, "wrap") ELSE Return(t)
    /\ UNCHANGED <<row, minted, kek, cache, sealed>>

GetSubjectKey(t) ==
    LET s == th[t].subject
    IN  /\ th[t].pc = "lookup"
        /\ IF Live(s)
           THEN th' = [th EXCEPT ![t].pc = "cache", ![t].dek = row[s].dek]
           ELSE IF ~Exists(s) /\ th[t].op = "encrypt" THEN Goto(t, "wrap") ELSE Return(t)
        /\ UNCHANGED <<row, minted, kek, cache, sealed>>

CachesAtOnce(t) ==  \* mutant: the DEK is cached before it is stored
    /\ th[t].pc = "wrap"
    /\ minted < MaxKeys
    /\ minted' = minted + 1
    /\ cache' = [cache EXCEPT ![ProcOf[t]][th[t].subject] = minted + 1]
    /\ th' = [th EXCEPT ![t].pc = "upsert", ![t].dek = minted + 1, ![t].kek = kek]
    /\ UNCHANGED <<row, kek, sealed>>

\* rand.Read and WrapDEK.
WrapDEK(t) ==
    /\ th[t].pc = "wrap"
    /\ minted < MaxKeys
    /\ minted' = minted + 1
    /\ th' = [th EXCEPT ![t].pc = "upsert", ![t].dek = minted + 1, ![t].kek = kek]
    /\ UNCHANGED <<row, kek, cache, sealed>>

\* INSERT ... ON CONFLICT DO UPDATE: shredded_at stays as it is.
Upserted(s, dek, version) == [row EXCEPT ![s].dek = dek, ![s].kek = version]

UpsertSubjectKey(t) ==
    /\ th[t].op = "encrypt"
    /\ th[t].pc = "upsert"
    /\ row' = Upserted(th[t].subject, th[t].dek, th[t].kek)
    /\ th' = [th EXCEPT ![t].pc = "cache", ![t].kek = 0]
    /\ UNCHANGED <<minted, kek, cache, sealed>>

\* cache.set, then seal or open the field.
CacheAndUse(t) ==
    /\ th[t].pc = "cache"
    /\ cache' = [cache EXCEPT ![ProcOf[t]][th[t].subject] = th[t].dek]
    /\ sealed' = IF th[t].op = "encrypt"
                 THEN sealed \cup {[subject |-> th[t].subject, dek |-> th[t].dek]}
                 ELSE sealed
    /\ Return(t)
    /\ UNCHANGED <<row, minted, kek>>

-------------------------------------------------------------------------------
(* ForgetSubject *)

\* ForgetSubject of the store: an UPDATE, which leaves a missing row missing.
Forgotten(s) ==
    IF Exists(s) THEN [row EXCEPT ![s].dek = 0, ![s].shredded = TRUE] ELSE row

Rewrapping(t) == th[t].op = "rewrap"

ForgetSubject(t, s) ==
    /\ "forget" \in Ops[t]
    /\ th[t] = Idle
    /\ row' = Forgotten(s)
    /\ th' = [th EXCEPT ![t] = [Idle EXCEPT !.op = "forget", !.pc = "evict", !.subject = s]]
    /\ UNCHANGED <<minted, kek, cache, sealed>>

\* cache.forget.
Evict(t) ==
    /\ th[t].op = "forget"
    /\ th[t].pc = "evict"
    /\ cache' = [cache EXCEPT ![ProcOf[t]][th[t].subject] = 0]
    /\ Return(t)
    /\ UNCHANGED <<row, minted, kek, sealed>>

-------------------------------------------------------------------------------
(* RewrapDEKs *)

StartRewrap(t) ==
    /\ "rewrap" \in Ops[t]
    /\ th[t] = Idle
    /\ th' = [th EXCEPT ![t] = [Idle EXCEPT !.op = "rewrap", !.pc = "list", !.current = kek]]
    /\ UNCHANGED <<row, minted, kek, cache, sealed>>

PageOf(S) == {[subject |-> s, dek |-> row[s].dek, kek |-> row[s].kek] : s \in FirstOf(S, PageSize)}
FirstRow(t) == CHOOSE r \in th[t].page : \A q \in th[t].page : r.subject <= q.subject

StaleByTwo(v) == {s \in Subjects : Live(s) /\ row[s].kek + 1 < v}  \* mutant: off by one
Stale(v) == {s \in Subjects : Live(s) /\ row[s].kek < v}

\* An empty page ends the loop.
ListStaleSubjectKeys(t) ==
    /\ th[t].pc = "list"
    /\ IF Stale(th[t].current) = {}
       THEN Return(t)
       ELSE th' = [th EXCEPT ![t].page = PageOf(Stale(th[t].current)), ![t].pc = "rewrap"]
    /\ UNCHANGED <<row, minted, kek, cache, sealed>>

\* UnwrapDEK and WrapDEK of the next row.
RewrapNext(t) ==
    LET r == FirstRow(t)
    IN  /\ th[t].pc = "rewrap"
        /\ th' = [th EXCEPT ![t].pc = "upsert", ![t].subject = r.subject,
                            ![t].dek = r.dek, ![t].kek = kek, ![t].page = @ \ {r}]
        /\ UNCHANGED <<row, minted, kek, cache, sealed>>

RewrapUpsert(t) ==
    /\ Rewrapping(t)
    /\ th[t].pc = "upsert"
    /\ row' = Upserted(th[t].subject, th[t].dek, th[t].kek)
    /\ th' = [th EXCEPT ![t].pc = IF th[t].page = {} THEN "list" ELSE "rewrap",
                        ![t].subject = 0, ![t].dek = 0, ![t].kek = 0]
    /\ UNCHANGED <<minted, kek, cache, sealed>>

-------------------------------------------------------------------------------
(* RetentionWorker.RunOnce: sweepTenant *)

\* Any of the live rows may be older than the cutoff.
StartSweep(t) ==
    /\ "sweep" \in Ops[t]
    /\ th[t] = Idle
    /\ \E due \in SUBSET {s \in Subjects : Live(s)} :
           th' = [th EXCEPT ![t] = [Idle EXCEPT !.op = "sweep", !.pc = "scan", !.due = due]]
    /\ UNCHANGED <<row, minted, kek, cache, sealed>>

\* An empty page ends the sweep.
ListSubjectsCreatedBefore(t) ==
    LET expired == {s \in th[t].due : Live(s)}
    IN  /\ th[t].pc = "scan"
        /\ th' = [th EXCEPT ![t].page = PageOf(expired),
                            ![t].full = (Cardinality(expired) >= PageSize),
                            ![t].pc = IF expired = {} THEN "swept" ELSE "forget"]
        /\ UNCHANGED <<row, minted, kek, cache, sealed>>

\* The context is cancelled between two pages: the sweep returns without an error.
SweepCancelled(t) ==
    /\ th[t].pc = "scan"
    /\ Return(t)
    /\ UNCHANGED <<row, minted, kek, cache, sealed>>

SweepForget(t) ==
    /\ th[t].pc = "forget"
    /\ row' = Forgotten(FirstRow(t).subject)
    /\ th' = [th EXCEPT ![t].pc = "evict", ![t].subject = FirstRow(t).subject,
                        ![t].page = @ \ {FirstRow(t)}]
    /\ UNCHANGED <<minted, kek, cache, sealed>>

\* A page that is not full was the last one.
StopsAfterPage(t) == IF th[t].page # {} THEN "forget" ELSE "swept"  \* mutant: one page only
AfterForget(t) ==
    IF th[t].page # {} THEN "forget" ELSE IF th[t].full THEN "scan" ELSE "swept"

\* cache.forget, and OnShredded, whose errors are only logged.
SweepEvict(t) ==
    /\ th[t].op = "sweep"
    /\ th[t].pc = "evict"
    /\ cache' = [cache EXCEPT ![ProcOf[t]][th[t].subject] = 0]
    /\ th' = [th EXCEPT ![t].pc = AfterForget(t), ![t].subject = 0]
    /\ UNCHANGED <<row, minted, kek, sealed>>

SweepReturns(t) ==
    /\ th[t].pc = "swept"
    /\ Return(t)
    /\ UNCHANGED <<row, minted, kek, cache, sealed>>

-------------------------------------------------------------------------------
(* The key store, the process, and faults *)

RotateKEK ==
    /\ kek < MaxKEK
    /\ kek' = kek + 1
    /\ UNCHANGED <<row, minted, cache, sealed, th>>

ClearCache(p) ==
    /\ cache[p] # [s \in Subjects |-> 0]
    /\ cache' = [cache EXCEPT ![p] = [s \in Subjects |-> 0]]
    /\ UNCHANGED <<row, minted, kek, sealed, th>>

\* A process restarts, whatever its threads were doing.
Restart(p) ==
    /\ cache' = [cache EXCEPT ![p] = [s \in Subjects |-> 0]]
    /\ th' = [t \in Threads |-> IF ProcOf[t] = p THEN Idle ELSE th[t]]
    /\ UNCHANGED <<row, minted, kek, sealed>>

\* A call to the store or the key store fails (a statement may have been
\* carried out all the same): the operation returns the error.
Fails(t) ==
    /\ th[t].pc \in {"lookup", "wrap", "upsert", "list", "rewrap", "scan", "forget", "evict", "cache"}
    /\ Return(t)
    /\ UNCHANGED <<row, minted, kek, cache, sealed>>

-------------------------------------------------------------------------------

Call(t) ==
    \/ \E s \in Subjects :
           EncryptCached(t, s) \/ EncryptMiss(t, s) \/ DecryptMiss(t, s) \/ ForgetSubject(t, s)
    \/ StartRewrap(t)
    \/ StartSweep(t)

Step(t) ==
    \/ GetSubjectKey(t)
    \/ WrapDEK(t)
    \/ UpsertSubjectKey(t)
    \/ CacheAndUse(t)
    \/ Evict(t)
    \/ ListStaleSubjectKeys(t)
    \/ RewrapNext(t)
    \/ RewrapUpsert(t)
    \/ ListSubjectsCreatedBefore(t)
    \/ SweepCancelled(t)
    \/ SweepForget(t)
    \/ SweepEvict(t)
    \/ SweepReturns(t)

Next ==
    \/ \E t \in Threads : Call(t) \/ Step(t) \/ Fails(t)
    \/ \E p \in Procs : ClearCache(p) \/ Restart(p)
    \/ RotateKEK

Spec == Init /\ [][Next]_vars

\* Processes and the store stop failing; calls come to their end, and RewrapDEKs
\* is called again and again, however busy the threads are.
NormalStep ==
    \/ \E t \in Threads : Call(t) \/ Step(t)
    \/ \E p \in Procs : ClearCache(p)
    \/ RotateKEK

FairSpec ==
    /\ Spec
    /\ \A t \in Threads : WF_vars(Step(t))
    /\ SF_vars(\E t \in Threads : StartRewrap(t))
    /\ <>[][NormalStep]_vars

-------------------------------------------------------------------------------
(* Properties *)

DEKs == 1..MaxKeys
Versions == 0..MaxKEK

Calls == OpKinds \cup {"none"}
PCs == {"idle", "lookup", "wrap", "upsert", "cache", "evict", "list", "rewrap",
        "scan", "forget", "swept"}
KeyRow == [dek : 0..MaxKeys, kek : Versions, shredded : BOOLEAN]
Pages == SUBSET [subject : Subjects, dek : DEKs, kek : Versions]

ThreadType ==
    [op : Calls, pc : PCs, subject : Subjects \cup {0}, dek : 0..MaxKeys, kek : Versions,
     current : Versions, page : Pages, full : BOOLEAN, due : SUBSET Subjects]

\* Type invariant.
TypeOK ==
    /\ row \in [Subjects -> KeyRow]
    /\ minted \in 0..MaxKeys
    /\ kek \in Versions
    /\ cache \in [Procs -> [Subjects -> 0..MaxKeys]]
    /\ sealed \subseteq [subject : Subjects, dek : DEKs]
    /\ th \in [Threads -> ThreadType]

\* "DEKs themselves do not rotate" (ADR 0010): whatever was encrypted for a
\* subject that is not forgotten, by whichever process, before or after a
\* rotation, is readable with the stored key.
KeyKept == \A c \in sealed : Live(c.subject) => row[c.subject].dek = c.dek

\* A key in a process's cache opens every ciphertext of its subject, so that
\* DecryptField does not return ErrCryptoIntegrity for what EncryptField wrote.
CacheRight ==
    \A p \in Procs : \A c \in sealed : cache[p][c.subject] \in {0, c.dek}

\* ForgetSubject "destroys the DEK": a tombstone never carries a key again.
DestroyedForGood == \A s \in Subjects : row[s].shredded => row[s].dek = 0

\* A sweep that comes to the end of its pages, rather than to an error or a
\* cancelled context, has forgotten all that was due.
SweepComplete ==
    \A t \in Threads : th[t].pc = "swept" => \A s \in th[t].due : row[s].shredded

\* After the last rotation, RewrapDEKs run now and again gets every live row under
\* the current KEK, so that the old ones can be retired: whichever first
\* encryptions, rewraps and restarts overlap it.
OldKEKsFallOut == <>[](\A s \in Subjects : Live(s) => row[s].kek = kek)
===============================================================================
