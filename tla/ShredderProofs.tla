---------------------------- MODULE ShredderProofs ----------------------------
(***************************************************************************)
(* Proofs about Shredder, for every number of subjects, processes, threads *)
(* and rotations and for every page size.                                  *)
(*                                                                         *)
(* The inductive invariant follows the key of a subject: whoever holds a   *)
(* DEK of a subject (a row, a cache, a thread, a ciphertext) holds the     *)
(* same one (OneKey).  It needs the subject to have no row while a first   *)
(* encryption makes a key (CreateInv), and the key that RewrapDEKs has     *)
(* read to be still the subject's, unless it was forgotten meanwhile       *)
(* (RewrapInv).                                                            *)
(***************************************************************************)
EXTENDS Shredder, Integers, TLAPS

USE Zenon

\* Where a thread can be in which call, and what it has in hand there.
Shape(t) ==
    /\ th[t].pc = "lookup" => th[t].op \in {"encrypt", "decrypt"} /\ th[t].subject \in Subjects
    /\ th[t].pc = "wrap" => th[t].op = "encrypt" /\ th[t].subject \in Subjects
    /\ th[t].pc = "upsert" =>
           th[t].op \in {"encrypt", "rewrap"} /\ th[t].subject \in Subjects /\ th[t].dek \in DEKs
    /\ th[t].pc = "cache" =>
           th[t].op \in {"encrypt", "decrypt"} /\ th[t].subject \in Subjects /\ th[t].dek \in DEKs
    /\ th[t].pc = "evict" => th[t].op \in {"forget", "sweep"} /\ th[t].subject \in Subjects
    /\ th[t].pc \in {"list", "rewrap"} => th[t].op = "rewrap"
    /\ th[t].pc \in {"scan", "forget", "swept"} => th[t].op = "sweep"
    /\ th[t].pc \in {"rewrap", "forget"} => th[t].page # {}

\* ORDER BY subject LIMIT PageSize over some subjects: a fact about constants, that
\* PageFactsHold at the end derives from OrderingProofs.  It is carried along in
\* BaseInv, so that the facts about finite sets stay out of the proofs in between.
PageFacts ==
    \A S \in SUBSET Subjects :
        /\ Cardinality(S) \in Nat
        /\ S # {} => FirstOf(S, PageSize) # {} /\ \E x \in S : \A y \in S : x <= y
        /\ Cardinality(S) < PageSize => FirstOf(S, PageSize) = S

\* Types, the shape of the calls in progress, the facts about pages, and that a live row has a key.
BaseInv ==
    /\ TypeOK
    /\ \A t \in Threads : Shape(t)
    /\ PageFacts
    /\ \A s \in Subjects : Live(s) => row[s].dek \in DEKs

\* RewrapDEKs updates rows, and never inserts one.
ExistInv ==
    \A t \in Threads : Rewrapping(t) =>
        /\ \A r \in th[t].page : Exists(r.subject)
        /\ th[t].pc = "upsert" => Exists(th[t].subject)

\* A subject whose first key is being made has no row, and one thread makes it.
CreateInv ==
    /\ \A t \in Threads : th[t].op = "encrypt" /\ th[t].pc \in {"wrap", "upsert"} => ~Exists(th[t].subject)
    /\ \A t, u \in Threads : \A s \in Subjects : Creating(t, s) /\ Creating(u, s) => t = u

\* The keys that RewrapDEKs read are the keys of the subjects not forgotten since.
RewrapInv ==
    \A t \in Threads : Rewrapping(t) =>
        /\ \A r \in th[t].page : Live(r.subject) => row[r.subject].dek = r.dek
        /\ th[t].pc = "upsert" /\ Live(th[t].subject) => row[th[t].subject].dek = th[t].dek

\* k is a key of s somewhere.
Uses(s, k) ==
    \/ Live(s) /\ row[s].dek = k
    \/ \E p \in Procs : cache[p][s] = k
    \/ \E t \in Threads : th[t].pc = "cache" /\ th[t].subject = s /\ th[t].dek = k
    \/ [subject |-> s, dek |-> k] \in sealed

\* All that seals, caches or holds a key for a subject uses the same key.
OneKey ==
    \A s \in Subjects : \A j, k \in DEKs : Uses(s, j) /\ Uses(s, k) => j = k /\ Exists(s)

\* What a sweep has still to forget is on the page in hand, unless the page is full.
SweepInv ==
    \A t \in Threads : th[t].op = "sweep" =>
        /\ \A s \in th[t].due : Exists(s)
        /\ th[t].pc = "swept" => \A s \in th[t].due : row[s].shredded
        /\ th[t].pc \in {"forget", "evict"} /\ ~th[t].full =>
               \A s \in th[t].due : row[s].shredded \/ \E r \in th[t].page : r.subject = s

-------------------------------------------------------------------------------
(* What a step does to the rows and to the local variables of a thread *)

\* The fields of a key row.
LEMMA NoRowFields ==
    ASSUME NEW r \in KeyRow
    PROVE  /\ r.dek \in 0..MaxKeys /\ r.kek \in Versions /\ r.shredded \in BOOLEAN
           /\ r = NoRow <=> (r.dek = 0 /\ r.kek = 0 /\ r.shredded = FALSE)
  BY SMTT(30), SMTT(60) DEF NoRow, KeyRow

\* The row of a subject.
LEMMA RowFields ==
    ASSUME TypeOK, NEW s \in Subjects
    PROVE  /\ row[s] \in KeyRow
           /\ row[s].dek \in 0..MaxKeys /\ row[s].kek \in Versions /\ row[s].shredded \in BOOLEAN
           /\ Exists(s) <=> ~(row[s].dek = 0 /\ row[s].kek = 0 /\ row[s].shredded = FALSE)
<1>1. row[s] \in KeyRow
  BY DEF TypeOK
<1> QED
  BY <1>1, NoRowFields DEF Exists

\* One row changes.
OneRow(s, dek, version, shredded) ==
    /\ row' \in [Subjects -> KeyRow]
    /\ row'[s].dek = dek /\ row'[s].kek = version /\ row'[s].shredded = shredded
    /\ \A q \in Subjects \ {s} : row'[q] = row[q]

\* The row after UpsertSubjectKey.
LEMMA RowUpserted ==
    ASSUME TypeOK, NEW s \in Subjects, NEW d \in DEKs, NEW v \in Versions, row' = Upserted(s, d, v)
    PROVE  OneRow(s, d, v, row[s].shredded)
<1> DEFINE r == [row[s] EXCEPT !.dek = d, !.kek = v]
<1>1. row[s] \in KeyRow /\ d \in 0..MaxKeys
  BY ShredderAssumption, SMTT(30), SMTT(60) DEF TypeOK, DEKs
<1>2. r \in KeyRow /\ r.dek = d /\ r.kek = v /\ r.shredded = row[s].shredded
  BY <1>1 DEF KeyRow
<1>3. row' = [row EXCEPT ![s] = r]
  BY DEF Upserted
<1> HIDE DEF r
<1>4. row' \in [Subjects -> KeyRow] /\ row'[s] = r /\ \A q \in Subjects \ {s} : row'[q] = row[q]
  BY <1>2, <1>3 DEF TypeOK
<1> QED
  BY <1>2, <1>4 DEF OneRow

\* The row after ForgetSubject.
LEMMA RowForgotten ==
    ASSUME TypeOK, NEW s \in Subjects, row' = Forgotten(s)
    PROVE  \/ row' = row /\ ~Exists(s)
           \/ OneRow(s, 0, row[s].kek, TRUE) /\ Exists(s)
<1>1. SUFFICES ASSUME Exists(s)
               PROVE  OneRow(s, 0, row[s].kek, TRUE)
  BY DEF Forgotten
<1> DEFINE r == [row[s] EXCEPT !.dek = 0, !.shredded = TRUE]
<1>2. row[s] \in KeyRow /\ 0 \in 0..MaxKeys /\ TRUE \in BOOLEAN
  BY ShredderAssumption, SMTT(30), SMTT(60) DEF TypeOK
<1>3. r \in KeyRow /\ r.dek = 0 /\ r.kek = row[s].kek /\ r.shredded = TRUE
  BY <1>2 DEF KeyRow
<1>4. row' = [row EXCEPT ![s] = r]
  BY <1>1 DEF Forgotten
<1> HIDE DEF r
<1>5. row' \in [Subjects -> KeyRow] /\ row'[s] = r /\ \A q \in Subjects \ {s} : row'[q] = row[q]
  BY <1>3, <1>4 DEF TypeOK
<1> QED
  BY <1>3, <1>5 DEF OneRow

\* The other threads keep their local variables.
Moves(t) == th' \in [Threads -> ThreadType] /\ \A u \in Threads \ {t} : th'[u] = th[u]

\* Those of t become these.
Local(t, op, pc, subject, dek, version) ==
    /\ Moves(t)
    /\ th'[t].op = op /\ th'[t].pc = pc /\ th'[t].subject = subject
    /\ th'[t].dek = dek /\ th'[t].kek = version

\* One call moves on.
LEMMA ThreadUpdated ==
    ASSUME TypeOK, NEW t \in Threads, NEW r \in ThreadType, th' = [th EXCEPT ![t] = r]
    PROVE  Moves(t) /\ th'[t] = r
  BY DEF TypeOK, Moves

\* The fields of a call.
LEMMA ThreadFields ==
    ASSUME TypeOK, NEW t \in Threads
    PROVE  /\ th[t] \in ThreadType
           /\ th[t].op \in Calls /\ th[t].pc \in PCs /\ th[t].subject \in Subjects \cup {0}
           /\ th[t].dek \in 0..MaxKeys /\ th[t].kek \in Versions /\ th[t].current \in Versions
           /\ th[t].page \in Pages /\ th[t].full \in BOOLEAN /\ th[t].due \in SUBSET Subjects
<1>1. th[t] \in ThreadType
  BY DEF TypeOK
<1> QED
  BY <1>1 DEF ThreadType

\* A thread without a call.
LEMMA IdleType ==
    /\ Idle \in ThreadType
    /\ Idle.op = "none" /\ Idle.pc = "idle" /\ Idle.dek = 0 /\ Idle.kek = 0 /\ Idle.subject = 0
    /\ Idle.page = {} /\ Idle.due = {}
  BY ShredderAssumption, SMTT(30), SMTT(60) DEF Idle, ThreadType, Calls, OpKinds, PCs, Pages,
     Versions

\* A call that returns.
LEMMA Returns ==
    ASSUME TypeOK, NEW t \in Threads, Return(t)
    PROVE  Moves(t) /\ th'[t] = Idle
  BY IdleType, ThreadUpdated DEF Return

\* A call that starts.
LEMMA CallStarts ==
    ASSUME TypeOK, NEW t \in Threads, NEW s \in Subjects, NEW op \in Calls, NEW pc \in PCs,
           th' = [th EXCEPT ![t] = [Idle EXCEPT !.op = op, !.pc = pc, !.subject = s]]
    PROVE  Local(t, op, pc, s, 0, 0) /\ th'[t].page = {}
<1> DEFINE r == [Idle EXCEPT !.op = op, !.pc = pc, !.subject = s]
<1>1. /\ r \in ThreadType
      /\ r.op = op /\ r.pc = pc /\ r.subject = s /\ r.dek = 0 /\ r.kek = 0 /\ r.page = {}
  BY IdleType DEF ThreadType
<1> HIDE DEF r
<1> QED
  BY <1>1, ThreadUpdated DEF Local, r

\* A rewrap that starts.
LEMMA RewrapStarts ==
    ASSUME TypeOK, NEW t \in Threads, StartRewrap(t)
    PROVE  Local(t, "rewrap", "list", 0, 0, 0) /\ th'[t].page = {}
<1> DEFINE r == [Idle EXCEPT !.op = "rewrap", !.pc = "list", !.current = kek]
<1>1. kek \in Versions /\ "rewrap" \in Calls /\ "list" \in PCs
  BY DEF TypeOK, Calls, OpKinds, PCs
<1>2. /\ r \in ThreadType
      /\ r.op = "rewrap" /\ r.pc = "list" /\ r.subject = 0 /\ r.dek = 0 /\ r.kek = 0
      /\ r.page = {}
  BY <1>1, IdleType DEF ThreadType
<1>3. th' = [th EXCEPT ![t] = r]
  BY DEF StartRewrap
<1> HIDE DEF r
<1> QED
  BY <1>2, <1>3, ThreadUpdated DEF Local

\* A sweep that starts.
LEMMA SweepStarts ==
    ASSUME TypeOK, NEW t \in Threads, StartSweep(t)
    PROVE  Local(t, "sweep", "scan", 0, 0, 0) /\ \A s \in th'[t].due : s \in Subjects /\ Exists(s)
<1>0. PICK due \in SUBSET {s \in Subjects : Live(s)} :
          th' = [th EXCEPT ![t] = [Idle EXCEPT !.op = "sweep", !.pc = "scan", !.due = due]]
  BY DEF StartSweep
<1> DEFINE r == [Idle EXCEPT !.op = "sweep", !.pc = "scan", !.due = due]
<1>1. due \in SUBSET Subjects /\ "sweep" \in Calls /\ "scan" \in PCs
  BY <1>0 DEF Calls, OpKinds, PCs
<1>2. /\ r \in ThreadType
      /\ r.op = "sweep" /\ r.pc = "scan" /\ r.subject = 0 /\ r.dek = 0 /\ r.kek = 0 /\ r.due = due
  BY <1>1, IdleType DEF ThreadType
<1>3. th' = [th EXCEPT ![t] = r]
  BY <1>0
<1> HIDE DEF r
<1> QED
  BY <1>0, <1>2, <1>3, ThreadUpdated, ZenonT(60) DEF Local, Live

\* What GetSubjectKey finds.
LEMMA KeyLookedUp ==
    ASSUME TypeOK, NEW t \in Threads, GetSubjectKey(t), th[t].subject \in Subjects
    PROVE  LET s == th[t].subject
           IN  \/ Live(s) /\ Local(t, th[t].op, "cache", s, row[s].dek, th[t].kek)
               \/ ~Exists(s) /\ th[t].op = "encrypt" /\ Local(t, th[t].op, "wrap", s, th[t].dek, th[t].kek)
               \/ Moves(t) /\ th'[t] = Idle
<1> DEFINE s == th[t].subject
           k == row[s].dek
           r == [th[t] EXCEPT !.pc = "cache", !.dek = k]
           w == [th[t] EXCEPT !.pc = "wrap"]
<1>1. th[t] \in ThreadType /\ "cache" \in PCs /\ "wrap" \in PCs /\ k \in 0..MaxKeys
  BY ThreadFields, RowFields DEF PCs
<1>2. CASE Live(s)
  <2>1. th' = [th EXCEPT ![t] = r]
    BY <1>2 DEF GetSubjectKey
  <2> HIDE DEF s, k
  <2>2. /\ r \in ThreadType
        /\ r.op = th[t].op /\ r.pc = "cache" /\ r.subject = th[t].subject /\ r.dek = k /\ r.kek = th[t].kek
    BY <1>1 DEF ThreadType
  <2> HIDE DEF r
  <2> QED
    BY <1>2, <2>1, <2>2, ThreadUpdated DEF Local, s, k
<1>3. CASE ~Live(s) /\ ~Exists(s) /\ th[t].op = "encrypt"
  <2>1. th' = [th EXCEPT ![t] = w]
    BY <1>3 DEF GetSubjectKey, Goto
  <2> HIDE DEF s, k
  <2>2. /\ w \in ThreadType
        /\ w.op = th[t].op /\ w.pc = "wrap" /\ w.subject = th[t].subject
        /\ w.dek = th[t].dek /\ w.kek = th[t].kek
    BY <1>1 DEF ThreadType
  <2> HIDE DEF w
  <2> QED
    BY <1>3, <2>1, <2>2, ThreadUpdated DEF Local, s
<1>4. CASE Return(t)
  BY <1>4, Returns
<1> QED
  BY <1>2, <1>3, <1>4 DEF GetSubjectKey

\* A new key is made and wrapped.
LEMMA KeyWrapped ==
    ASSUME TypeOK, NEW t \in Threads, WrapDEK(t)
    PROVE  Local(t, th[t].op, "upsert", th[t].subject, minted + 1, kek) /\ minted + 1 \in DEKs
<1> DEFINE r == [th[t] EXCEPT !.pc = "upsert", !.dek = minted + 1, !.kek = kek]
<1>1. /\ th[t] \in ThreadType /\ "upsert" \in PCs /\ kek \in Versions
      /\ minted + 1 \in 0..MaxKeys /\ minted + 1 \in DEKs
  BY ShredderAssumption, ThreadFields, SMTT(30), SMTT(60) DEF TypeOK, PCs, WrapDEK, DEKs
<1>2. /\ r \in ThreadType
      /\ r.op = th[t].op /\ r.pc = "upsert" /\ r.subject = th[t].subject /\ r.dek = minted + 1 /\ r.kek = kek
  BY <1>1 DEF ThreadType
<1>3. th' = [th EXCEPT ![t] = r]
  BY DEF WrapDEK
<1> HIDE DEF r
<1> QED
  BY <1>1, <1>2, <1>3, ThreadUpdated DEF Local

\* The key is stored.
LEMMA KeyStored ==
    ASSUME TypeOK, NEW t \in Threads, UpsertSubjectKey(t)
    PROVE  Local(t, th[t].op, "cache", th[t].subject, th[t].dek, 0)
<1> DEFINE r == [th[t] EXCEPT !.pc = "cache", !.kek = 0]
<1>1. th[t] \in ThreadType /\ "cache" \in PCs /\ 0 \in Versions
  BY ShredderAssumption, ThreadFields, SMTT(30), SMTT(60) DEF PCs, Versions
<1>2. /\ r \in ThreadType
      /\ r.op = th[t].op /\ r.pc = "cache" /\ r.subject = th[t].subject /\ r.dek = th[t].dek /\ r.kek = 0
  BY <1>1 DEF ThreadType
<1>3. th' = [th EXCEPT ![t] = r]
  BY DEF UpsertSubjectKey
<1> HIDE DEF r
<1> QED
  BY <1>2, <1>3, ThreadUpdated DEF Local

\* LIMIT PageSize: a page of some rows has one, and one of few rows has all.
LEMMA PageRead ==
    ASSUME BaseInv, NEW S \in SUBSET Subjects, \A s \in S : Live(s)
    PROVE  /\ PageOf(S) \in Pages
           /\ \A r \in PageOf(S) : r.subject \in S /\ r.dek = row[r.subject].dek
           /\ S # {} => PageOf(S) # {}
           /\ Cardinality(S) < PageSize => \A s \in S : \E r \in PageOf(S) : r.subject = s
<1>1. TypeOK /\ PageFacts
  BY DEF BaseInv
<1>2. \A s \in FirstOf(S, PageSize) : s \in S
  BY DEF FirstOf
<1>3. \A s \in S : s \in Subjects /\ row[s].dek \in DEKs /\ row[s].kek \in Versions
  BY <1>1, RowFields DEF BaseInv, TypeOK
<1>4. \A r \in PageOf(S) : \E s \in FirstOf(S, PageSize) :
          r = [subject |-> s, dek |-> row[s].dek, kek |-> row[s].kek]
  BY DEF PageOf
<1>5. \A s \in FirstOf(S, PageSize) :
          [subject |-> s, dek |-> row[s].dek, kek |-> row[s].kek] \in PageOf(S)
  BY DEF PageOf
<1>6. /\ PageOf(S) \in Pages
      /\ \A r \in PageOf(S) : r.subject \in S /\ r.dek = row[r.subject].dek
  BY <1>2, <1>3, <1>4, SMTT(30), SMTT(60) DEF Pages
<1>7. S # {} => PageOf(S) # {}
  BY <1>1, <1>5 DEF PageFacts
<1>8. ASSUME Cardinality(S) < PageSize, NEW s \in S
      PROVE  \E r \in PageOf(S) : r.subject = s
  <2>1. s \in FirstOf(S, PageSize)
    BY <1>1, <1>8 DEF PageFacts
  <2> QED
    BY <1>5, <2>1
<1> QED
  BY <1>6, <1>7, <1>8

\* The row of a page that is next.
LEMMA FirstRowOfPage ==
    ASSUME BaseInv, NEW t \in Threads, th[t].page # {}
    PROVE  /\ FirstRow(t) \in th[t].page
           /\ FirstRow(t).subject \in Subjects /\ FirstRow(t).dek \in DEKs /\ FirstRow(t).kek \in Versions
           /\ th[t].page \ {FirstRow(t)} \in Pages
<1> DEFINE P == th[t].page
           N == {r.subject : r \in P}
<1>0. TypeOK /\ PageFacts
  BY DEF BaseInv
<1>1. P \in Pages
  BY <1>0, ThreadFields
<1>2. \A r \in P : r.subject \in Subjects /\ r.dek \in DEKs /\ r.kek \in Versions
  BY <1>1 DEF Pages
<1>3. N \in SUBSET Subjects /\ N # {}
  BY <1>2
<1>4. PICK x \in N : \A y \in N : x <= y
  BY <1>0, <1>3 DEF PageFacts
<1>5. \E r \in P : \A q \in P : r.subject <= q.subject
  BY <1>4
<1>6. FirstRow(t) \in P
  BY <1>5 DEF FirstRow
<1>7. P \ {FirstRow(t)} \in Pages
  BY <1>1 DEF Pages
<1> QED
  BY <1>2, <1>6, <1>7

\* A page of keys under an old key-encryption key.
LEMMA StaleListed ==
    ASSUME BaseInv, NEW t \in Threads, ListStaleSubjectKeys(t)
    PROVE  \/ Moves(t) /\ th'[t] = Idle
           \/ /\ Local(t, th[t].op, "rewrap", th[t].subject, th[t].dek, th[t].kek)
              /\ th'[t].page # {}
              /\ \A r \in th'[t].page : r.subject \in Subjects /\ Live(r.subject) /\ r.dek = row[r.subject].dek
<1> DEFINE stale == Stale(th[t].current)
           p == PageOf(stale)
           r == [th[t] EXCEPT !.page = p, !.pc = "rewrap"]
<1>0. TypeOK
  BY DEF BaseInv
<1>1. th[t] \in ThreadType /\ "rewrap" \in PCs
  BY <1>0, ThreadFields DEF PCs
<1>2. stale \in SUBSET Subjects /\ \A s \in stale : Live(s)
  BY DEF Stale
<1>3. /\ p \in Pages /\ (stale # {} => p # {})
      /\ \A q \in p : q.subject \in stale /\ q.dek = row[q.subject].dek
  BY <1>2, PageRead
<1>4. CASE stale = {}
  BY <1>0, <1>4, Returns DEF ListStaleSubjectKeys
<1>5. CASE stale # {}
  <2>1. th' = [th EXCEPT ![t] = r]
    BY <1>5 DEF ListStaleSubjectKeys
  <2> HIDE DEF stale, p
  <2>2. /\ r \in ThreadType
        /\ r.op = th[t].op /\ r.pc = "rewrap" /\ r.subject = th[t].subject /\ r.dek = th[t].dek
        /\ r.kek = th[t].kek /\ r.page = p
    BY <1>1, <1>3 DEF ThreadType
  <2> HIDE DEF r
  <2>3. Moves(t) /\ th'[t] = r
    BY <1>0, <2>1, <2>2, ThreadUpdated
  <2>4. \A q \in p : q.subject \in Subjects /\ Live(q.subject) /\ q.dek = row[q.subject].dek
    BY <1>2, <1>3
  <2> QED
    BY <1>3, <1>5, <2>2, <2>3, <2>4 DEF Local
<1> QED
  BY <1>4, <1>5

\* A key is unwrapped and wrapped anew.
LEMMA RowRewrapped ==
    ASSUME BaseInv, NEW t \in Threads, RewrapNext(t), th[t].page # {}
    PROVE  /\ Local(t, th[t].op, "upsert", FirstRow(t).subject, FirstRow(t).dek, kek)
           /\ th'[t].page = th[t].page \ {FirstRow(t)}
<1> DEFINE f == FirstRow(t)
           s == f.subject
           k == f.dek
           p == th[t].page \ {f}
           r == [th[t] EXCEPT !.pc = "upsert", !.subject = s, !.dek = k, !.kek = kek, !.page = p]
<1>0. TypeOK
  BY DEF BaseInv
<1>1. th' = [th EXCEPT ![t] = r]
  BY DEF RewrapNext
<1>2. th[t] \in ThreadType /\ "upsert" \in PCs /\ kek \in Versions
  BY <1>0, ThreadFields DEF TypeOK, PCs
<1>3. s \in Subjects /\ k \in DEKs /\ p \in Pages
  BY FirstRowOfPage
<1>4. k \in 0..MaxKeys
  BY <1>3, ShredderAssumption, SMTT(30), SMTT(60) DEF DEKs
<1> HIDE DEF s, k, p
<1>5. /\ r \in ThreadType
      /\ r.op = th[t].op /\ r.pc = "upsert" /\ r.subject = s /\ r.dek = k /\ r.kek = kek /\ r.page = p
  BY <1>2, <1>3, <1>4 DEF ThreadType
<1> HIDE DEF r
<1> QED
  BY <1>0, <1>1, <1>5, ThreadUpdated DEF Local, s, k, p

\* The rewrapped key is stored.
LEMMA RewrapStored ==
    ASSUME TypeOK, NEW t \in Threads, RewrapUpsert(t)
    PROVE  /\ Local(t, th[t].op, IF th[t].page = {} THEN "list" ELSE "rewrap", 0, 0, 0)
           /\ th'[t].page = th[t].page
<1> DEFINE pc == IF th[t].page = {} THEN "list" ELSE "rewrap"
           r == [th[t] EXCEPT !.pc = pc, !.subject = 0, !.dek = 0, !.kek = 0]
<1>1. th[t] \in ThreadType /\ pc \in PCs /\ 0 \in Versions /\ 0 \in 0..MaxKeys
  BY ShredderAssumption, ThreadFields, SMTT(30), SMTT(60) DEF PCs, Versions
<1>2. th' = [th EXCEPT ![t] = r]
  BY DEF RewrapUpsert
<1> HIDE DEF pc
<1>3. /\ r \in ThreadType
      /\ r.op = th[t].op /\ r.pc = pc /\ r.subject = 0 /\ r.dek = 0 /\ r.kek = 0
      /\ r.page = th[t].page
  BY <1>1 DEF ThreadType
<1> HIDE DEF r
<1> QED
  BY <1>2, <1>3, ThreadUpdated DEF Local, pc

\* A page of subjects that expired.
LEMMA ExpiredListed ==
    ASSUME BaseInv, NEW t \in Threads, ListSubjectsCreatedBefore(t)
    PROVE  LET expired == {s \in th[t].due : Live(s)}
           IN  /\ Local(t, th[t].op, IF expired = {} THEN "swept" ELSE "forget",
                        th[t].subject, th[t].dek, th[t].kek)
               /\ th'[t].page = PageOf(expired) /\ th'[t].due = th[t].due
               /\ th'[t].full = (Cardinality(expired) >= PageSize)
               /\ expired # {} => PageOf(expired) # {}
               /\ ~th'[t].full => \A s \in expired : \E r \in PageOf(expired) : r.subject = s
<1> DEFINE expired == {s \in th[t].due : Live(s)}
           p == PageOf(expired)
           full == Cardinality(expired) >= PageSize
           pc == IF expired = {} THEN "swept" ELSE "forget"
           r == [th[t] EXCEPT !.page = p, !.full = full, !.pc = pc]
<1>0. TypeOK
  BY DEF BaseInv
<1>1. th[t] \in ThreadType /\ pc \in PCs
  BY <1>0, ThreadFields DEF PCs
<1>2. expired \in SUBSET Subjects /\ (\A s \in expired : Live(s)) /\ PageFacts
  BY <1>0, ThreadFields DEF BaseInv
<1>3. full \in BOOLEAN /\ (~full => Cardinality(expired) < PageSize)
  BY <1>2, ShredderAssumption, SMTT(30), SMTT(60) DEF PageFacts
<1>4. th' = [th EXCEPT ![t] = r]
  BY DEF ListSubjectsCreatedBefore
<1> HIDE DEF full, expired
<1>5. /\ p \in Pages /\ (expired # {} => p # {})
      /\ ~full => \A s \in expired : \E q \in p : q.subject = s
  BY <1>2, <1>3, PageRead
<1> HIDE DEF p, pc
<1>6. /\ r \in ThreadType
      /\ r.op = th[t].op /\ r.pc = pc /\ r.subject = th[t].subject /\ r.dek = th[t].dek /\ r.kek = th[t].kek
      /\ r.page = p /\ r.due = th[t].due /\ r.full = full
  BY <1>1, <1>3, <1>5 DEF ThreadType
<1> HIDE DEF r
<1>7. Moves(t) /\ th'[t] = r
  BY <1>0, <1>4, <1>6, ThreadUpdated
<1> QED
  BY <1>5, <1>6, <1>7 DEF Local, full, expired, p, pc

\* A subject of the page is forgotten.
LEMMA SweepForgets ==
    ASSUME BaseInv, NEW t \in Threads, SweepForget(t), th[t].page # {}
    PROVE  /\ Local(t, th[t].op, "evict", FirstRow(t).subject, th[t].dek, th[t].kek)
           /\ th'[t].page = th[t].page \ {FirstRow(t)}
           /\ th'[t].due = th[t].due /\ th'[t].full = th[t].full
<1> DEFINE f == FirstRow(t)
           s == f.subject
           p == th[t].page \ {f}
           r == [th[t] EXCEPT !.pc = "evict", !.subject = s, !.page = p]
<1>0. TypeOK
  BY DEF BaseInv
<1>1. th' = [th EXCEPT ![t] = r]
  BY DEF SweepForget
<1>2. th[t] \in ThreadType /\ "evict" \in PCs /\ s \in Subjects /\ p \in Pages
  BY <1>0, ThreadFields, FirstRowOfPage DEF PCs
<1> HIDE DEF s, p
<1>3. /\ r \in ThreadType
      /\ r.op = th[t].op /\ r.pc = "evict" /\ r.subject = s /\ r.dek = th[t].dek /\ r.kek = th[t].kek
      /\ r.page = p /\ r.due = th[t].due /\ r.full = th[t].full
  BY <1>2 DEF ThreadType
<1> HIDE DEF r
<1> QED
  BY <1>0, <1>1, <1>3, ThreadUpdated DEF Local, s, p

\* Its key is taken from the cache.
LEMMA SweepEvicts ==
    ASSUME TypeOK, NEW t \in Threads, SweepEvict(t)
    PROVE  /\ Local(t, th[t].op, AfterForget(t), 0, th[t].dek, th[t].kek)
           /\ th'[t].page = th[t].page /\ th'[t].due = th[t].due /\ th'[t].full = th[t].full
<1> DEFINE pc == AfterForget(t)
           r == [th[t] EXCEPT !.pc = pc, !.subject = 0]
<1>1. th' = [th EXCEPT ![t] = r]
  BY DEF SweepEvict
<1>2. th[t] \in ThreadType /\ pc \in PCs
  BY ThreadFields DEF PCs, AfterForget
<1> HIDE DEF pc
<1>3. /\ r \in ThreadType
      /\ r.op = th[t].op /\ r.pc = pc /\ r.subject = 0 /\ r.dek = th[t].dek /\ r.kek = th[t].kek
      /\ r.page = th[t].page /\ r.due = th[t].due /\ r.full = th[t].full
  BY <1>2 DEF ThreadType
<1> HIDE DEF r
<1> QED
  BY <1>1, <1>3, ThreadUpdated DEF Local, pc

\* One entry of a cache changes.
LEMMA CacheSet ==
    ASSUME TypeOK, NEW p \in Procs, NEW s \in Subjects, NEW k \in 0..MaxKeys,
           cache' = [cache EXCEPT ![p][s] = k]
    PROVE  /\ cache' \in [Procs -> [Subjects -> 0..MaxKeys]]
           /\ cache'[p][s] = k
           /\ \A q \in Procs : \A x \in Subjects : q # p \/ x # s => cache'[q][x] = cache[q][x]
  BY DEF TypeOK

\* A cache is emptied.
LEMMA CacheCleared ==
    ASSUME TypeOK, NEW p \in Procs, cache' = [cache EXCEPT ![p] = [s \in Subjects |-> 0]]
    PROVE  /\ cache' \in [Procs -> [Subjects -> 0..MaxKeys]]
           /\ \A q \in Procs : \A x \in Subjects : cache'[q][x] \in {0, cache[q][x]}
  BY ShredderAssumption, SMTT(30), SMTT(60) DEF TypeOK

-------------------------------------------------------------------------------
(* Types *)

\* Everything but the local variables of a thread keeps its type.
SharedType ==
    /\ row' \in [Subjects -> KeyRow]
    /\ \A s \in Subjects : Live(s)' => row'[s].dek \in DEKs
    /\ minted' \in 0..MaxKeys /\ kek' \in Versions
    /\ cache' \in [Procs -> [Subjects -> 0..MaxKeys]]
    /\ sealed' \subseteq [subject : Subjects, dek : DEKs]

\* Every step keeps the types of what threads share.
LEMMA SharedTypes ==
    ASSUME BaseInv, [Next]_vars
    PROVE  SharedType
<1>0. TypeOK
  BY DEF BaseInv
<1>1. \A t \in Threads : ProcOf[t] \in Procs /\ Shape(t)
  BY ShredderAssumption DEF BaseInv
<1>2. /\ row \in [Subjects -> KeyRow] /\ \A s \in Subjects : Live(s) => row[s].dek \in DEKs
      /\ minted \in 0..MaxKeys /\ kek \in Versions
      /\ cache \in [Procs -> [Subjects -> 0..MaxKeys]]
      /\ sealed \subseteq [subject : Subjects, dek : DEKs]
  BY DEF BaseInv, TypeOK
<1>3. CASE UNCHANGED <<row, minted, kek, cache, sealed>>
  BY <1>2, <1>3 DEF SharedType, Live, Exists
<1>4. ASSUME NEW t \in Threads, NEW s \in Subjects, EncryptCached(t, s)
      PROVE  SharedType
  <2>1. Cached(t, s) \in DEKs
    BY <1>1, <1>2, <1>4, ShredderAssumption, SMTT(30), SMTT(60) DEF EncryptCached, Cached, DEKs
  <2> QED
    BY <1>2, <1>4, <2>1, SMTT(30), SMTT(60) DEF EncryptCached, SharedType, Live, Exists
<1>5. ASSUME NEW t \in Threads, WrapDEK(t)
      PROVE  SharedType
  <2>1. minted' \in 0..MaxKeys
    BY <1>2, <1>5, ShredderAssumption, SMTT(30), SMTT(60) DEF WrapDEK
  <2> QED
    BY <1>2, <1>5, <2>1 DEF WrapDEK, SharedType, Live, Exists
<1>6. ASSUME NEW t \in Threads, UpsertSubjectKey(t) \/ RewrapUpsert(t)
      PROVE  SharedType
  <2> DEFINE s == th[t].subject
             d == th[t].dek
             v == th[t].kek
  <2>1. /\ s \in Subjects /\ d \in DEKs /\ v \in Versions /\ row' = Upserted(s, d, v)
        /\ UNCHANGED <<minted, kek, cache, sealed>>
    BY <1>0, <1>1, <1>6, ThreadFields DEF UpsertSubjectKey, RewrapUpsert, Shape
  <2> HIDE DEF s, d, v
  <2>2. OneRow(s, d, v, row[s].shredded)
    BY <1>0, <2>1, RowUpserted
  <2> QED
    BY <1>2, <2>1, <2>2 DEF OneRow, SharedType, Live, Exists
<1>7. ASSUME NEW t \in Threads, CacheAndUse(t)
      PROVE  SharedType
  <2>1. /\ th[t].subject \in Subjects /\ th[t].dek \in DEKs /\ th[t].dek \in 0..MaxKeys
        /\ cache' = [cache EXCEPT ![ProcOf[t]][th[t].subject] = th[t].dek]
        /\ UNCHANGED <<row, minted, kek>>
    BY <1>0, <1>1, <1>7, ThreadFields DEF CacheAndUse, Shape
  <2>2. cache' \in [Procs -> [Subjects -> 0..MaxKeys]]
    BY <1>0, <1>1, <2>1, CacheSet
  <2>3. sealed' \subseteq [subject : Subjects, dek : DEKs]
    BY <1>2, <1>7, <2>1, SMTT(30), SMTT(60) DEF CacheAndUse
  <2> QED
    BY <1>2, <2>1, <2>2, <2>3 DEF SharedType, Live, Exists
<1>8. ASSUME NEW t \in Threads, Evict(t) \/ SweepEvict(t)
      PROVE  SharedType
  <2>1. /\ th[t].subject \in Subjects /\ 0 \in 0..MaxKeys
        /\ cache' = [cache EXCEPT ![ProcOf[t]][th[t].subject] = 0]
        /\ UNCHANGED <<row, minted, kek, sealed>>
    BY <1>1, <1>8, ShredderAssumption, SMTT(30), SMTT(60) DEF Evict, SweepEvict, Shape
  <2>2. cache' \in [Procs -> [Subjects -> 0..MaxKeys]]
    BY <1>0, <1>1, <2>1, CacheSet
  <2> QED
    BY <1>2, <2>1, <2>2 DEF SharedType, Live, Exists
<1>9. ASSUME NEW s \in Subjects, row' = Forgotten(s), UNCHANGED <<minted, kek, cache, sealed>>
      PROVE  SharedType
  <2>1. row' = row \/ OneRow(s, 0, row[s].kek, TRUE)
    BY <1>0, <1>9, RowForgotten
  <2> QED
    BY <1>2, <1>9, <2>1 DEF OneRow, SharedType, Live, Exists
<1>10. ASSUME NEW t \in Threads, SweepForget(t)
       PROVE  SharedType
  <2>1. FirstRow(t).subject \in Subjects
    BY <1>0, <1>1, <1>10, FirstRowOfPage DEF SweepForget, Shape
  <2> QED
    BY <1>9, <1>10, <2>1 DEF SweepForget
<1>12. CASE RotateKEK
  <2>1. kek' \in Versions
    BY <1>2, <1>12, ShredderAssumption, SMTT(30), SMTT(60) DEF RotateKEK, Versions
  <2> QED
    BY <1>2, <1>12, <2>1 DEF RotateKEK, SharedType, Live, Exists
<1>13. ASSUME NEW p \in Procs, ClearCache(p) \/ Restart(p)
       PROVE  SharedType
  <2>1. /\ cache' = [cache EXCEPT ![p] = [s \in Subjects |-> 0]]
        /\ UNCHANGED <<row, minted, kek, sealed>>
    BY <1>13 DEF ClearCache, Restart
  <2>2. cache' \in [Procs -> [Subjects -> 0..MaxKeys]]
    BY <1>0, <2>1, CacheCleared
  <2> QED
    BY <1>2, <2>1, <2>2 DEF SharedType, Live, Exists
<1>14. ASSUME NEW t \in Threads, Call(t) \/ Step(t) \/ Fails(t)
       PROVE  SharedType
  <2>1. CASE \E s \in Subjects : EncryptMiss(t, s) \/ DecryptMiss(t, s)
    BY <1>3, <2>1 DEF EncryptMiss, DecryptMiss
  <2>2. CASE \E s \in Subjects : EncryptCached(t, s)
    BY <1>4, <2>2
  <2>3. CASE \E s \in Subjects : ForgetSubject(t, s)
    BY <1>9, <2>3 DEF ForgetSubject
  <2>4. CASE \/ StartRewrap(t) \/ StartSweep(t) \/ GetSubjectKey(t) \/ ListStaleSubjectKeys(t)
             \/ RewrapNext(t) \/ ListSubjectsCreatedBefore(t) \/ SweepCancelled(t) \/ SweepReturns(t) \/ Fails(t)
    BY <1>3, <2>4 DEF StartRewrap, StartSweep, GetSubjectKey, ListStaleSubjectKeys, RewrapNext,
                      ListSubjectsCreatedBefore, SweepCancelled, SweepReturns, Fails
  <2> QED
    BY <1>5, <1>6, <1>7, <1>8, <1>10, <1>14, <2>1, <2>2, <2>3, <2>4, ZenonT(60) DEF Call,
       Step
<1> QED
  BY <1>3, <1>12, <1>13, <1>14 DEF Next, vars

\* A step of the thread t: its local variables change, and they fit its new place.
Fits(t) == Moves(t) /\ Shape(t)'

\* A thread without a call has the right shape.
LEMMA IdleFits ==
    ASSUME NEW t \in Threads, Moves(t), th'[t] = Idle
    PROVE  Fits(t)
  BY IdleType DEF Fits, Shape

\* A call that starts has it.
LEMMA CallFits ==
    ASSUME BaseInv, NEW t \in Threads, Call(t)
    PROVE  th' = th \/ Fits(t)
<1>0. TypeOK
  BY DEF BaseInv
<1>1. ASSUME NEW s \in Subjects, EncryptMiss(t, s) \/ DecryptMiss(t, s)
      PROVE  Fits(t)
  <2>1. \E op \in {"encrypt", "decrypt"} :
            th' = [th EXCEPT ![t] = [Idle EXCEPT !.op = op, !.pc = "lookup", !.subject = s]]
    BY <1>1 DEF EncryptMiss, DecryptMiss
  <2>2. \E op \in {"encrypt", "decrypt"} : Local(t, op, "lookup", s, 0, 0)
    BY <1>0, <2>1, CallStarts DEF Calls, OpKinds, PCs
  <2> QED
    BY <2>2 DEF Local, Fits, Shape
<1>2. ASSUME NEW s \in Subjects, ForgetSubject(t, s)
      PROVE  Fits(t)
  <2>1. th' = [th EXCEPT ![t] = [Idle EXCEPT !.op = "forget", !.pc = "evict", !.subject = s]]
    BY <1>2 DEF ForgetSubject
  <2>2. Local(t, "forget", "evict", s, 0, 0)
    BY <1>0, <2>1, CallStarts DEF Calls, OpKinds, PCs
  <2> QED
    BY <2>2 DEF Local, Fits, Shape
<1>3. CASE StartRewrap(t)
  <2>1. Local(t, "rewrap", "list", 0, 0, 0)
    BY <1>0, <1>3, RewrapStarts
  <2> QED
    BY <2>1 DEF Local, Fits, Shape
<1>4. CASE StartSweep(t)
  <2>1. Local(t, "sweep", "scan", 0, 0, 0)
    BY <1>0, <1>4, SweepStarts
  <2> QED
    BY <2>1 DEF Local, Fits, Shape
<1>5. ASSUME NEW s \in Subjects, EncryptCached(t, s)
      PROVE  th' = th
  BY <1>5 DEF EncryptCached
<1> QED
  BY <1>1, <1>2, <1>3, <1>4, <1>5 DEF Call

\* A step of a call keeps it.
LEMMA StepFits ==
    ASSUME BaseInv, NEW t \in Threads, Step(t) \/ Fails(t)
    PROVE  Fits(t)
<1>0. TypeOK /\ Shape(t)
  BY DEF BaseInv
<1>1. CASE GetSubjectKey(t)
  <2>1. th[t].pc = "lookup" /\ th[t].op \in {"encrypt", "decrypt"} /\ th[t].subject \in Subjects
    BY <1>0, <1>1 DEF GetSubjectKey, Shape
  <2>2. CASE Live(th[t].subject) /\ Local(t, th[t].op, "cache", th[t].subject, row[th[t].subject].dek, th[t].kek)
    <3>1. row[th[t].subject].dek \in DEKs
      BY <2>1, <2>2 DEF BaseInv
    <3> QED
      BY <2>1, <2>2, <3>1 DEF Local, Fits, Shape
  <2>3. CASE th[t].op = "encrypt" /\ Local(t, th[t].op, "wrap", th[t].subject, th[t].dek, th[t].kek)
    BY <2>1, <2>3 DEF Local, Fits, Shape
  <2>4. CASE Moves(t) /\ th'[t] = Idle
    BY <2>4, IdleFits
  <2> QED
    BY <1>0, <1>1, <2>1, <2>2, <2>3, <2>4, KeyLookedUp
<1>2. CASE WrapDEK(t)
  <2>1. /\ Local(t, th[t].op, "upsert", th[t].subject, minted + 1, kek) /\ minted + 1 \in DEKs
        /\ th[t].op = "encrypt" /\ th[t].subject \in Subjects
    BY <1>0, <1>2, KeyWrapped DEF WrapDEK, Shape
  <2> QED
    BY <2>1 DEF Local, Fits, Shape
<1>3. CASE UpsertSubjectKey(t)
  <2>1. /\ Local(t, th[t].op, "cache", th[t].subject, th[t].dek, 0)
        /\ th[t].op = "encrypt" /\ th[t].subject \in Subjects /\ th[t].dek \in DEKs
    BY <1>0, <1>3, KeyStored DEF UpsertSubjectKey, Shape
  <2> QED
    BY <2>1 DEF Local, Fits, Shape
<1>4. CASE ListStaleSubjectKeys(t)
  <2>1. th[t].op = "rewrap"
    BY <1>0, <1>4 DEF ListStaleSubjectKeys, Shape
  <2>2. CASE Moves(t) /\ th'[t] = Idle
    BY <2>2, IdleFits
  <2>3. CASE Local(t, th[t].op, "rewrap", th[t].subject, th[t].dek, th[t].kek) /\ th'[t].page # {}
    BY <2>1, <2>3 DEF Local, Fits, Shape
  <2> QED
    BY <1>4, <2>2, <2>3, StaleListed
<1>5. CASE RewrapNext(t)
  <2>1. th[t].op = "rewrap" /\ th[t].page # {}
    BY <1>0, <1>5 DEF RewrapNext, Shape
  <2>2. Local(t, th[t].op, "upsert", FirstRow(t).subject, FirstRow(t).dek, kek)
    BY <1>5, <2>1, RowRewrapped
  <2> QED
    BY <1>0, <2>1, <2>2, FirstRowOfPage DEF Local, Fits, Shape
<1>6. CASE RewrapUpsert(t)
  <2>1. \/ Local(t, th[t].op, "list", 0, 0, 0)
        \/ Local(t, th[t].op, "rewrap", 0, 0, 0) /\ th'[t].page # {}
    BY <1>0, <1>6, RewrapStored
  <2>2. th[t].op = "rewrap"
    BY <1>6 DEF RewrapUpsert, Rewrapping
  <2> QED
    BY <2>1, <2>2 DEF Local, Fits, Shape
<1>7. CASE ListSubjectsCreatedBefore(t)
  <2>1. \/ Local(t, th[t].op, "swept", th[t].subject, th[t].dek, th[t].kek)
        \/ Local(t, th[t].op, "forget", th[t].subject, th[t].dek, th[t].kek) /\ th'[t].page # {}
    BY <1>7, ExpiredListed
  <2>2. th[t].op = "sweep"
    BY <1>0, <1>7 DEF ListSubjectsCreatedBefore, Shape
  <2> QED
    BY <2>1, <2>2 DEF Local, Fits, Shape
<1>8. CASE SweepForget(t)
  <2>1. th[t].op = "sweep" /\ th[t].page # {}
    BY <1>0, <1>8 DEF SweepForget, Shape
  <2>2. Local(t, th[t].op, "evict", FirstRow(t).subject, th[t].dek, th[t].kek) /\ FirstRow(t).subject \in Subjects
    BY <1>0, <1>8, <2>1, SweepForgets, FirstRowOfPage
  <2> QED
    BY <2>1, <2>2 DEF Local, Fits, Shape
<1>9. CASE SweepEvict(t)
  <2>1. th[t].op = "sweep" /\ Local(t, th[t].op, AfterForget(t), 0, th[t].dek, th[t].kek) /\ th'[t].page = th[t].page
    BY <1>0, <1>9, SweepEvicts DEF SweepEvict
  <2> QED
    BY <2>1 DEF Local, Fits, Shape, AfterForget
<1>10. CASE CacheAndUse(t) \/ Evict(t) \/ SweepCancelled(t) \/ SweepReturns(t) \/ Fails(t)
  <2>1. Return(t)
    BY <1>10 DEF CacheAndUse, Evict, SweepCancelled, SweepReturns, Fails
  <2> QED
    BY <1>0, <2>1, Returns, IdleFits
<1> QED
  BY <1>1, <1>2, <1>3, <1>4, <1>5, <1>6, <1>7, <1>8, <1>9, <1>10 DEF Step

\* Every step keeps BaseInv.
LEMMA BaseStep ==
    ASSUME BaseInv, [Next]_vars
    PROVE  BaseInv'
<1>0. TypeOK /\ \A u \in Threads : Shape(u)
  BY DEF BaseInv
<1>1. SharedType
  BY SharedTypes
<1>4. ASSUME NEW u \in Threads, th'[u] = th[u]
      PROVE  Shape(u)'
  BY <1>0, <1>4 DEF Shape
<1>5. ASSUME NEW t \in Threads, Fits(t)
      PROVE  BaseInv'
  <2>1. \A u \in Threads : Shape(u)'
    BY <1>4, <1>5 DEF Fits, Moves
  <2> QED
    BY <1>1, <1>5, <2>1 DEF Fits, Moves, BaseInv, TypeOK, SharedType
<1>6. CASE th' = th
  <2>1. \A u \in Threads : Shape(u)'
    BY <1>4, <1>6
  <2> QED
    BY <1>0, <1>1, <1>6, <2>1 DEF BaseInv, TypeOK, SharedType
<1>7. ASSUME NEW p \in Procs, Restart(p)
      PROVE  BaseInv'
  <2>1. th' = [t \in Threads |-> IF ProcOf[t] = p THEN Idle ELSE th[t]]
    BY <1>7 DEF Restart
  <2>2. th' \in [Threads -> ThreadType] /\ \A u \in Threads : th'[u] = Idle \/ th'[u] = th[u]
    BY <1>0, <2>1, IdleType DEF TypeOK
  <2>3. ASSUME NEW u \in Threads, th'[u] = Idle
        PROVE  Shape(u)'
    BY <2>3, IdleType DEF Shape
  <2>4. \A u \in Threads : Shape(u)'
    BY <1>4, <2>2, <2>3
  <2> QED
    BY <1>1, <2>2, <2>4 DEF BaseInv, TypeOK, SharedType
<1>8. CASE (\E p \in Procs : ClearCache(p)) \/ RotateKEK \/ UNCHANGED vars
  BY <1>6, <1>8 DEF ClearCache, RotateKEK, vars
<1> QED
  BY <1>5, <1>6, <1>7, <1>8, CallFits, StepFits DEF Next

-------------------------------------------------------------------------------
(* Who changes what *)

\* How the row of a subject changes.
LEMMA RowSteps ==
    ASSUME BaseInv, [Next]_vars, NEW s \in Subjects
    PROVE  \/ row'[s] = row[s]
           \/ /\ \E t \in Threads : ForgetSubject(t, s) \/ SweepForget(t)
              /\ Exists(s) /\ row'[s].dek = 0 /\ row'[s].shredded = TRUE
           \/ \E t \in Threads :
                  /\ UpsertSubjectKey(t) \/ RewrapUpsert(t)
                  /\ th[t].subject = s /\ th[t].dek \in DEKs
                  /\ row'[s].dek = th[t].dek /\ row'[s].kek = th[t].kek
                  /\ row'[s].shredded = row[s].shredded
<1> DEFINE Goal ==
           \/ row'[s] = row[s]
           \/ /\ \E t \in Threads : ForgetSubject(t, s) \/ SweepForget(t)
              /\ Exists(s) /\ row'[s].dek = 0 /\ row'[s].shredded = TRUE
           \/ \E t \in Threads :
                  /\ UpsertSubjectKey(t) \/ RewrapUpsert(t)
                  /\ th[t].subject = s /\ th[t].dek \in DEKs
                  /\ row'[s].dek = th[t].dek /\ row'[s].kek = th[t].kek
                  /\ row'[s].shredded = row[s].shredded
<1>0. TypeOK /\ \A t \in Threads : Shape(t)
  BY DEF BaseInv
<1>1. CASE row' = row
  BY <1>1
<1>2. ASSUME NEW t \in Threads, UpsertSubjectKey(t) \/ RewrapUpsert(t)
      PROVE  Goal
  <2>1. /\ th[t].subject \in Subjects /\ th[t].dek \in DEKs /\ th[t].kek \in Versions
        /\ row' = Upserted(th[t].subject, th[t].dek, th[t].kek)
    BY <1>0, <1>2, ThreadFields DEF UpsertSubjectKey, RewrapUpsert, Shape
  <2>2. OneRow(th[t].subject, th[t].dek, th[t].kek, row[th[t].subject].shredded)
    BY <1>0, <2>1, RowUpserted
  <2> QED
    BY <1>2, <2>1, <2>2 DEF OneRow
<1>3. ASSUME NEW t \in Threads, NEW x \in Subjects, row' = Forgotten(x),
             ForgetSubject(t, x) \/ SweepForget(t)
      PROVE  Goal
  <2>1. \/ row' = row
        \/ OneRow(x, 0, row[x].kek, TRUE) /\ Exists(x)
    BY <1>0, <1>3, RowForgotten
  <2> QED
    BY <1>3, <2>1 DEF OneRow
<1>4. ASSUME NEW t \in Threads, SweepForget(t)
      PROVE  Goal
  <2>1. FirstRow(t).subject \in Subjects
    BY <1>0, <1>4, FirstRowOfPage DEF SweepForget, Shape
  <2> HIDE DEF Goal
  <2> QED
    BY <1>3, <1>4, <2>1 DEF SweepForget
<1>5. ASSUME NEW t \in Threads, NEW x \in Subjects, ForgetSubject(t, x)
      PROVE  Goal
  <2> HIDE DEF Goal
  <2> QED
    BY <1>3, <1>5 DEF ForgetSubject
<1>6. \/ row' = row
      \/ \E t \in Threads : \/ UpsertSubjectKey(t) \/ RewrapUpsert(t) \/ SweepForget(t)
                            \/ \E x \in Subjects : ForgetSubject(t, x)
  <2>1. ASSUME NEW t \in Threads, Call(t) \/ Fails(t)
        PROVE  row' = row \/ \E x \in Subjects : ForgetSubject(t, x)
    BY <2>1 DEF Call, EncryptCached, EncryptMiss, DecryptMiss, StartRewrap, StartSweep, Fails
  <2>2. ASSUME NEW t \in Threads, Step(t)
        PROVE  row' = row \/ UpsertSubjectKey(t) \/ RewrapUpsert(t) \/ SweepForget(t)
    BY <2>2 DEF Step, GetSubjectKey, WrapDEK, CacheAndUse, Evict, ListStaleSubjectKeys,
        RewrapNext, SweepCancelled, ListSubjectsCreatedBefore, SweepEvict, SweepReturns
  <2>3. ASSUME NEW p \in Procs, ClearCache(p) \/ Restart(p)
        PROVE  row' = row
    BY <2>3 DEF ClearCache, Restart
  <2> QED
    BY <2>1, <2>2, <2>3 DEF Next, RotateKEK, vars
<1>7. Goal
  <2> HIDE DEF Goal
  <2> QED
    BY <1>2, <1>4, <1>5, <1>6, <1>1 DEF Goal
<1> QED
  BY <1>7

\* A row is never removed, and a tombstone never lifted.
LEMMA RowsStay ==
    ASSUME BaseInv, [Next]_vars, NEW s \in Subjects
    PROVE  /\ Exists(s) => Exists(s)'
           /\ row[s].shredded => row'[s].shredded
           /\ Live(s)' /\ row'[s] # row[s] =>
                  \E t \in Threads :
                      /\ UpsertSubjectKey(t) \/ RewrapUpsert(t)
                      /\ th[t].subject = s /\ row'[s].dek = th[t].dek /\ row'[s].kek = th[t].kek
                      /\ row'[s].shredded = row[s].shredded
<1>1. BaseInv' /\ TypeOK /\ TypeOK'
  BY BaseStep DEF BaseInv
<1>2. /\ Exists(s) <=> ~(row[s].dek = 0 /\ row[s].kek = 0 /\ row[s].shredded = FALSE)
      /\ row[s].shredded \in BOOLEAN
  BY <1>1, RowFields
<1>3. Exists(s)' <=> ~(row'[s].dek = 0 /\ row'[s].kek = 0 /\ row'[s].shredded = FALSE)
  <2>1. row'[s] \in KeyRow
    BY <1>1 DEF TypeOK
  <2> QED
    BY <2>1, NoRowFields DEF Exists
<1>4. CASE row'[s] = row[s]
  BY <1>4 DEF Exists, Live
<1>5. CASE row'[s].dek = 0 /\ row'[s].shredded = TRUE
  BY <1>3, <1>5 DEF Live
<1>6. ASSUME NEW t \in Threads, UpsertSubjectKey(t) \/ RewrapUpsert(t),
             th[t].subject = s, th[t].dek \in DEKs,
             row'[s].dek = th[t].dek, row'[s].kek = th[t].kek, row'[s].shredded = row[s].shredded
      PROVE  /\ Exists(s)' /\ (row[s].shredded => row'[s].shredded)
             /\ \E u \in Threads :
                      /\ UpsertSubjectKey(u) \/ RewrapUpsert(u)
                      /\ th[u].subject = s /\ row'[s].dek = th[u].dek /\ row'[s].kek = th[u].kek
                      /\ row'[s].shredded = row[s].shredded
  <2>1. th[t].dek # 0
    BY <1>6, ShredderAssumption, SMTT(30), SMTT(60) DEF DEKs
  <2>2. Exists(s)'
    BY <1>3, <1>6, <2>1
  <2> QED
    BY <1>6, <2>2
<1> QED
  BY <1>4, <1>5, <1>6, RowSteps

\* How a call moves on.
LEMMA ThreadSteps ==
    ASSUME BaseInv, [Next]_vars, NEW t \in Threads
    PROVE  \/ th'[t] = th[t]
           \/ th'[t] = Idle
           \/ \E s \in Subjects : EncryptMiss(t, s) \/ DecryptMiss(t, s) \/ ForgetSubject(t, s)
           \/ StartRewrap(t) \/ StartSweep(t)
           \/ GetSubjectKey(t) \/ WrapDEK(t) \/ UpsertSubjectKey(t)
           \/ ListStaleSubjectKeys(t) \/ RewrapNext(t) \/ RewrapUpsert(t)
           \/ ListSubjectsCreatedBefore(t) \/ SweepForget(t) \/ SweepEvict(t)
<1>0. TypeOK
  BY DEF BaseInv
<1>1. ASSUME NEW u \in Threads, Call(u) \/ Step(u) \/ Fails(u), u # t
      PROVE  th'[t] = th[t]
  <2>1. th' = th \/ Moves(u)
    BY <1>1, CallFits, StepFits DEF Fits
  <2> QED
    BY <1>1, <2>1 DEF Moves
<1>2. ASSUME CacheAndUse(t) \/ Evict(t) \/ SweepCancelled(t) \/ SweepReturns(t) \/ Fails(t)
      PROVE  th'[t] = Idle
  <2>1. Return(t)
    BY <1>2 DEF CacheAndUse, Evict, SweepCancelled, SweepReturns, Fails
  <2> QED
    BY <1>0, <2>1, Returns
<1>3. ASSUME NEW p \in Procs, Restart(p)
      PROVE  th'[t] = Idle \/ th'[t] = th[t]
  BY <1>3 DEF Restart
<1>4. ASSUME (\E p \in Procs : ClearCache(p)) \/ RotateKEK \/ UNCHANGED vars
      PROVE  th'[t] = th[t]
  BY <1>4 DEF ClearCache, RotateKEK, vars
<1>5. ASSUME NEW s \in Subjects, EncryptCached(t, s)
      PROVE  th'[t] = th[t]
  BY <1>5 DEF EncryptCached
<1> QED
  BY <1>1, <1>2, <1>3, <1>4, <1>5 DEF Next, Call, Step

\* How the calls on one subject start.
LEMMA MissStarts ==
    ASSUME TypeOK, NEW t \in Threads, NEW s \in Subjects
    PROVE  /\ EncryptMiss(t, s) => Local(t, "encrypt", "lookup", s, 0, 0)
           /\ DecryptMiss(t, s) => Local(t, "decrypt", "lookup", s, 0, 0)
           /\ ForgetSubject(t, s) => Local(t, "forget", "evict", s, 0, 0)
<1>1. /\ "encrypt" \in Calls /\ "decrypt" \in Calls /\ "forget" \in Calls
      /\ "lookup" \in PCs /\ "evict" \in PCs
  BY DEF Calls, OpKinds, PCs
<1> QED
  BY <1>1, CallStarts DEF EncryptMiss, DecryptMiss, ForgetSubject

\* The calls other than EncryptField never look like it.
LEMMA EncryptSteps ==
    ASSUME BaseInv, [Next]_vars, NEW t \in Threads, th'[t].op = "encrypt",
           th'[t].pc \in {"lookup", "wrap", "upsert"}
    PROVE  \/ th'[t] = th[t]
           \/ th'[t].pc = "lookup" /\ \E s \in Subjects : EncryptMiss(t, s) /\ th'[t].subject = s
           \/ /\ th'[t].pc = "wrap" /\ th[t].pc = "lookup" /\ th[t].op = "encrypt"
              /\ th'[t].subject = th[t].subject /\ ~Exists(th[t].subject) /\ row' = row
           \/ /\ th'[t].pc = "upsert" /\ th[t].pc = "wrap" /\ th[t].op = "encrypt"
              /\ th'[t].subject = th[t].subject /\ row' = row
<1>0. TypeOK /\ Shape(t)
  BY DEF BaseInv
<1>1. th'[t] # Idle
  BY IdleType
<1>2. ASSUME NEW s \in Subjects, EncryptMiss(t, s)
      PROVE  th'[t].pc = "lookup" /\ th'[t].subject = s
  BY <1>0, <1>2, MissStarts DEF Local
<1>3. ASSUME NEW s \in Subjects, DecryptMiss(t, s) \/ ForgetSubject(t, s)
      PROVE  FALSE
  BY <1>0, <1>3, MissStarts DEF Local
<1>4. ASSUME StartRewrap(t) \/ StartSweep(t)
      PROVE  FALSE
  BY <1>0, <1>4, RewrapStarts, SweepStarts DEF Local
<1>5. ASSUME GetSubjectKey(t)
      PROVE  /\ th'[t].pc = "wrap" /\ th[t].pc = "lookup" /\ th[t].op = "encrypt"
             /\ th'[t].subject = th[t].subject /\ ~Exists(th[t].subject) /\ row' = row
  <2>1. th[t].pc = "lookup" /\ th[t].subject \in Subjects /\ row' = row
    BY <1>0, <1>5 DEF GetSubjectKey, Shape
  <2> QED
    BY <1>0, <1>1, <1>5, <2>1, KeyLookedUp DEF Local
<1>6. ASSUME WrapDEK(t)
      PROVE  /\ th'[t].pc = "upsert" /\ th[t].pc = "wrap" /\ th[t].op = "encrypt"
             /\ th'[t].subject = th[t].subject /\ row' = row
  BY <1>0, <1>6, KeyWrapped DEF WrapDEK, Shape, Local
<1>7. ASSUME UpsertSubjectKey(t)
      PROVE  FALSE
  BY <1>0, <1>7, KeyStored DEF Local
<1>8. ASSUME ListStaleSubjectKeys(t) \/ RewrapNext(t) \/ RewrapUpsert(t)
      PROVE  FALSE
  <2>1. th[t].op = "rewrap" /\ (RewrapNext(t) => th[t].page # {})
    BY <1>0, <1>8, ZenonT(60) DEF ListStaleSubjectKeys, RewrapNext, RewrapUpsert, Rewrapping, Shape
  <2>2. th'[t].op = th[t].op
    BY <1>0, <1>1, <1>8, <2>1, StaleListed, RowRewrapped, RewrapStored DEF Local
  <2> QED
    BY <2>1, <2>2
<1>9. ASSUME ListSubjectsCreatedBefore(t) \/ SweepForget(t) \/ SweepEvict(t)
      PROVE  FALSE
  <2>1. th[t].op = "sweep" /\ (SweepForget(t) => th[t].page # {})
    BY <1>0, <1>9, ZenonT(60) DEF ListSubjectsCreatedBefore, SweepForget, SweepEvict, Shape
  <2>2. th'[t].op = th[t].op
    BY <1>0, <1>9, <2>1, ExpiredListed, SweepForgets, SweepEvicts DEF Local
  <2> QED
    BY <2>1, <2>2
<1> QED
  BY <1>1, <1>2, <1>3, <1>4, <1>5, <1>6, <1>7, <1>8, <1>9, ThreadSteps

\* How a rewrap moves on.
LEMMA RewrapSteps ==
    ASSUME BaseInv, [Next]_vars, NEW t \in Threads, Rewrapping(t)'
    PROVE  \/ th'[t] = th[t]
           \/ /\ StartRewrap(t) /\ Moves(t)
              /\ th'[t].pc = "list" /\ th'[t].page = {}
           \/ /\ Rewrapping(t) /\ row' = row
              /\ th'[t].pc = "rewrap"
              /\ \A r \in th'[t].page : Live(r.subject) /\ row[r.subject].dek = r.dek
           \/ /\ Rewrapping(t) /\ row' = row
              /\ th'[t].pc = "upsert"
              /\ FirstRow(t) \in th[t].page /\ th'[t].page \subseteq th[t].page
              /\ th'[t].subject = FirstRow(t).subject /\ th'[t].dek = FirstRow(t).dek
           \/ /\ Rewrapping(t) /\ RewrapUpsert(t)
              /\ th'[t].pc \in {"list", "rewrap"} /\ th'[t].page = th[t].page
<1>0. TypeOK /\ Shape(t) /\ th'[t].op = "rewrap"
  BY DEF BaseInv, Rewrapping
<1>1. th'[t] # Idle
  BY <1>0, IdleType
<1>2. ASSUME NEW s \in Subjects, EncryptMiss(t, s) \/ DecryptMiss(t, s) \/ ForgetSubject(t, s)
      PROVE  FALSE
  BY <1>0, <1>2, MissStarts DEF Local
<1>3. ASSUME StartRewrap(t)
      PROVE  Moves(t) /\ th'[t].pc = "list" /\ th'[t].page = {}
  BY <1>0, <1>3, RewrapStarts DEF Local
<1>4. ASSUME StartSweep(t)
      PROVE  FALSE
  BY <1>0, <1>4, SweepStarts DEF Local
<1>5. ASSUME GetSubjectKey(t) \/ WrapDEK(t) \/ UpsertSubjectKey(t)
      PROVE  FALSE
  <2>1. th[t].op \in {"encrypt", "decrypt"} /\ th[t].subject \in Subjects
    BY <1>0, <1>5 DEF GetSubjectKey, WrapDEK, UpsertSubjectKey, Shape
  <2>2. th'[t].op = th[t].op
    BY <1>0, <1>1, <1>5, <2>1, KeyLookedUp, KeyWrapped, KeyStored DEF Local
  <2> QED
    BY <1>0, <2>1, <2>2
<1>6. ASSUME ListStaleSubjectKeys(t)
      PROVE  /\ Rewrapping(t) /\ row' = row
             /\ th'[t].pc = "rewrap"
             /\ \A r \in th'[t].page : Live(r.subject) /\ row[r.subject].dek = r.dek
  <2>1. Rewrapping(t) /\ row' = row
    BY <1>0, <1>6 DEF ListStaleSubjectKeys, Shape, Rewrapping
  <2> QED
    BY <1>1, <1>6, <2>1, StaleListed DEF Local
<1>7. ASSUME RewrapNext(t)
      PROVE  /\ Rewrapping(t) /\ row' = row
             /\ th'[t].pc = "upsert"
             /\ FirstRow(t) \in th[t].page /\ th'[t].page \subseteq th[t].page
             /\ th'[t].subject = FirstRow(t).subject /\ th'[t].dek = FirstRow(t).dek
  <2>1. Rewrapping(t) /\ row' = row /\ th[t].page # {}
    BY <1>0, <1>7 DEF RewrapNext, Shape, Rewrapping
  <2>2. FirstRow(t) \in th[t].page
    BY <1>0, <2>1, FirstRowOfPage
  <2> QED
    BY <1>0, <1>1, <1>7, <2>1, <2>2, RowRewrapped DEF Local
<1>8. ASSUME RewrapUpsert(t)
      PROVE  /\ Rewrapping(t) /\ th'[t].pc \in {"list", "rewrap"} /\ th'[t].page = th[t].page
  BY <1>0, <1>8, RewrapStored DEF Local, RewrapUpsert
<1>9. ASSUME ListSubjectsCreatedBefore(t) \/ SweepForget(t) \/ SweepEvict(t)
      PROVE  FALSE
  <2>1. th[t].op = "sweep" /\ (SweepForget(t) => th[t].page # {})
    BY <1>0, <1>9, ZenonT(60) DEF ListSubjectsCreatedBefore, SweepForget, SweepEvict, Shape
  <2>2. th'[t].op = th[t].op
    BY <1>0, <1>9, <2>1, ExpiredListed, SweepForgets, SweepEvicts DEF Local
  <2> QED
    BY <1>0, <2>1, <2>2
<1> QED
  BY <1>1, <1>2, <1>3, <1>4, <1>5, <1>6, <1>7, <1>8, <1>9, ThreadSteps

-------------------------------------------------------------------------------
(* The invariants, one step at a time *)

\* A page lists subjects and their keys.
LEMMA PageSubjects ==
    ASSUME TypeOK, NEW t \in Threads, NEW r \in th[t].page
    PROVE  r.subject \in Subjects /\ r.dek \in DEKs
<1>1. th[t].page \in Pages
  BY ThreadFields
<1> QED
  BY <1>1 DEF Pages

\* Every step keeps ExistInv.
LEMMA ExistStep ==
    ASSUME BaseInv, ExistInv, [Next]_vars
    PROVE  ExistInv'
<1>0. TypeOK /\ BaseInv' /\ TypeOK'
  BY BaseStep DEF BaseInv
<1> SUFFICES ASSUME NEW t \in Threads, Rewrapping(t)'
             PROVE  /\ \A r \in th'[t].page : row'[r.subject] # NoRow
                    /\ th'[t].pc = "upsert" => row'[th'[t].subject] # NoRow
  BY DEF ExistInv, Exists
<1>1. \A s \in Subjects : Exists(s) => row'[s] # NoRow
  BY RowsStay DEF Exists
<1>2. ASSUME Rewrapping(t)
      PROVE  /\ \A r \in th[t].page : r.subject \in Subjects /\ Exists(r.subject)
             /\ th[t].pc = "upsert" => th[t].subject \in Subjects /\ Exists(th[t].subject)
  BY <1>0, <1>2, PageSubjects DEF ExistInv, BaseInv, Shape
<1>3. CASE th'[t] = th[t]
  BY <1>1, <1>2, <1>3 DEF Rewrapping
<1>4. CASE th'[t].pc = "list" /\ th'[t].page = {}
  BY <1>4
<1>5. CASE /\ row' = row /\ th'[t].pc = "rewrap"
           /\ \A r \in th'[t].page : Live(r.subject)
  BY <1>5 DEF Live, Exists
<1>6. CASE /\ Rewrapping(t) /\ row' = row
           /\ FirstRow(t) \in th[t].page /\ th'[t].page \subseteq th[t].page
           /\ th'[t].subject = FirstRow(t).subject
  BY <1>2, <1>6 DEF Exists
<1>7. CASE Rewrapping(t) /\ th'[t].pc \in {"list", "rewrap"} /\ th'[t].page = th[t].page
  BY <1>1, <1>2, <1>7
<1> QED
  BY <1>3, <1>4, <1>5, <1>6, <1>7, RewrapSteps

\* Every step keeps CreateInv, where first keys are made one at a time.
LEMMA CreateStep ==
    ASSUME OneCreator, BaseInv, ExistInv, CreateInv, [Next]_vars
    PROVE  CreateInv'
<1>0. TypeOK /\ BaseInv' /\ \A t \in Threads : Shape(t) /\ Shape(t)'
  BY BaseStep DEF BaseInv
<1>1. ASSUME NEW t \in Threads, th'[t].op = "encrypt", th'[t].pc \in {"wrap", "upsert"}
      PROVE  row'[th'[t].subject] = NoRow
  <2>1. PICK s \in Subjects : s = th'[t].subject
    BY <1>0, <1>1 DEF Shape
  <2>2. CASE th'[t] = th[t]
    <3>1. Creating(t, s) /\ ~Exists(s)
      BY <1>1, <2>1, <2>2 DEF CreateInv, Creating
    <3>2. ASSUME NEW u \in Threads, UpsertSubjectKey(u), th[u].subject = s
          PROVE  FALSE
      <4>1. Creating(u, s)
        BY <3>1, <3>2 DEF UpsertSubjectKey, Creating
      <4>2. u = t
        BY <3>1, <4>1 DEF CreateInv
      <4> QED
        BY <1>0, <1>1, <3>2, <4>2, KeyStored DEF Local
    <3>3. ASSUME NEW u \in Threads, RewrapUpsert(u), th[u].subject = s
          PROVE  FALSE
      BY <3>1, <3>3 DEF RewrapUpsert, ExistInv
    <3>4. row'[s] = row[s]
      BY <3>1, <3>2, <3>3, RowSteps
    <3> QED
      BY <2>1, <3>1, <3>4 DEF Exists
  <2>3. CASE th'[t] # th[t]
    <3>1. row' = row /\ ~Exists(s)
      BY <1>1, <2>1, <2>3, EncryptSteps DEF CreateInv
    <3> QED
      BY <2>1, <3>1 DEF Exists
  <2> QED
    BY <2>2, <2>3
<1>2. ASSUME NEW t \in Threads, NEW s \in Subjects, Creating(t, s)'
      PROVE  Creating(t, s) \/ EncryptMiss(t, s)
  <2>1. /\ th'[t].op = "encrypt" /\ th'[t].pc \in {"lookup", "wrap", "upsert"} /\ th'[t].subject = s
        /\ ~Exists(s)
    BY <1>2, RowsStay DEF Creating
  <2> QED
    BY <2>1, EncryptSteps DEF Creating
<1>3. ASSUME NEW t \in Threads, NEW u \in Threads, NEW s \in Subjects,
             Creating(t, s)', Creating(u, s)', EncryptMiss(t, s)
      PROVE  t = u
  <2>1. SUFFICES ASSUME t # u PROVE FALSE
    OBVIOUS
  <2>2. th'[u] = th[u]
    BY <1>0, <1>3, <2>1, MissStarts, SMTT(30), SMTT(60) DEF Local, Moves
  <2>3. Creating(u, s)
    BY <1>3, <2>2, RowsStay DEF Creating
  <2> QED
    BY <1>3, <2>3 DEF EncryptMiss
<1>4. ASSUME NEW t \in Threads, NEW u \in Threads, NEW s \in Subjects, Creating(t, s)', Creating(u, s)'
      PROVE  t = u
  BY <1>2, <1>3, <1>4 DEF CreateInv
<1> QED
  BY <1>1, <1>4 DEF CreateInv, Exists

\* The key of a subject that RewrapDEKs has read stays, until the subject is forgotten.
LEMMA RewrapKeeps ==
    ASSUME BaseInv, CreateInv, RewrapInv, [Next]_vars, NEW s \in Subjects, Exists(s), Live(s)'
    PROVE  Live(s) /\ row'[s].dek = row[s].dek
<1>1. Live(s)
  BY RowsStay DEF Live
<1>2. CASE row'[s] = row[s]
  BY <1>1, <1>2
<1>3. ASSUME NEW u \in Threads, UpsertSubjectKey(u), th[u].subject = s
      PROVE  FALSE
  BY <1>3 DEF UpsertSubjectKey, CreateInv
<1>4. ASSUME NEW u \in Threads, RewrapUpsert(u), th[u].subject = s, row'[s].dek = th[u].dek
      PROVE  row'[s].dek = row[s].dek
  BY <1>1, <1>4 DEF RewrapUpsert, RewrapInv
<1> QED
  BY <1>1, <1>2, <1>3, <1>4, RowsStay

\* Every step keeps RewrapInv.
LEMMA RewrapStep ==
    ASSUME BaseInv, ExistInv, CreateInv, RewrapInv, [Next]_vars
    PROVE  RewrapInv'
<1> DEFINE Stays(s) == row'[s] # NoRow /\ ~row'[s].shredded
<1>0. TypeOK /\ BaseInv' /\ \A t \in Threads : Shape(t)
  BY BaseStep DEF BaseInv
<1>1. ASSUME NEW s \in Subjects, Exists(s), Stays(s)
      PROVE  Live(s) /\ row'[s].dek = row[s].dek
  BY <1>1, RewrapKeeps DEF Live, Exists
<1>2. ASSUME NEW t \in Threads, Rewrapping(t)'
      PROVE  /\ \A r \in th'[t].page : Stays(r.subject) => row'[r.subject].dek = r.dek
             /\ th'[t].pc = "upsert" /\ Stays(th'[t].subject) => row'[th'[t].subject].dek = th'[t].dek
  <2>1. ASSUME Rewrapping(t)
        PROVE  /\ \A r \in th[t].page : Stays(r.subject) => row'[r.subject].dek = r.dek
               /\ th[t].pc = "upsert" /\ Stays(th[t].subject) => row'[th[t].subject].dek = th[t].dek
    <3>1. \A r \in th[t].page : /\ r.subject \in Subjects /\ Exists(r.subject)
                                /\ Live(r.subject) => row[r.subject].dek = r.dek
      BY <1>0, <2>1, PageSubjects DEF RewrapInv, ExistInv
    <3>2. th[t].pc = "upsert" => /\ th[t].subject \in Subjects /\ Exists(th[t].subject)
                                 /\ Live(th[t].subject) => row[th[t].subject].dek = th[t].dek
      BY <1>0, <2>1 DEF RewrapInv, ExistInv, Shape
    <3> HIDE DEF Stays
    <3> QED
      BY <1>1, <3>1, <3>2
  <2> HIDE DEF Stays
  <2>2. CASE th'[t] = th[t]
    BY <1>2, <2>1, <2>2 DEF Rewrapping
  <2>3. CASE th'[t].pc = "list" /\ th'[t].page = {}
    BY <2>3
  <2>4. CASE /\ row' = row /\ th'[t].pc = "rewrap"
             /\ \A r \in th'[t].page : Live(r.subject) /\ row[r.subject].dek = r.dek
    BY <2>4
  <2>5. CASE /\ Rewrapping(t) /\ FirstRow(t) \in th[t].page /\ th'[t].page \subseteq th[t].page
             /\ th'[t].subject = FirstRow(t).subject /\ th'[t].dek = FirstRow(t).dek
    BY <2>1, <2>5
  <2>6. CASE Rewrapping(t) /\ th'[t].pc \in {"list", "rewrap"} /\ th'[t].page = th[t].page
    BY <2>1, <2>6
  <2> QED
    BY <1>2, <2>2, <2>3, <2>4, <2>5, <2>6, RewrapSteps
<1> QED
  BY <1>2 DEF RewrapInv, Live, Exists, Rewrapping

-------------------------------------------------------------------------------
(* One key per subject *)

\* How an entry of a cache changes.
LEMMA CacheSteps ==
    ASSUME BaseInv, [Next]_vars, NEW p \in Procs, NEW s \in Subjects
    PROVE  \/ cache'[p][s] \in {0, cache[p][s]}
           \/ \E t \in Threads : /\ th[t].pc = "cache" /\ th[t].subject = s /\ ProcOf[t] = p
                                 /\ cache'[p][s] = th[t].dek
<1>0. TypeOK /\ \A t \in Threads : ProcOf[t] \in Procs /\ Shape(t)
  BY ShredderAssumption DEF BaseInv
<1>1. ASSUME NEW t \in Threads, CacheAndUse(t)
      PROVE  \/ cache'[p][s] = cache[p][s]
             \/ th[t].pc = "cache" /\ th[t].subject = s /\ ProcOf[t] = p /\ cache'[p][s] = th[t].dek
  <2>1. /\ th[t].subject \in Subjects /\ th[t].dek \in 0..MaxKeys /\ th[t].pc = "cache"
        /\ cache' = [cache EXCEPT ![ProcOf[t]][th[t].subject] = th[t].dek]
    BY <1>0, <1>1, ThreadFields DEF CacheAndUse, Shape
  <2> QED
    BY <1>0, <2>1, CacheSet, SMTT(30), SMTT(60)
<1>2. ASSUME NEW t \in Threads, Evict(t) \/ SweepEvict(t)
      PROVE  cache'[p][s] \in {0, cache[p][s]}
  <2>1. /\ th[t].subject \in Subjects /\ 0 \in 0..MaxKeys
        /\ cache' = [cache EXCEPT ![ProcOf[t]][th[t].subject] = 0]
    BY <1>0, <1>2, ShredderAssumption, SMTT(30), SMTT(60) DEF Evict, SweepEvict, Shape
  <2> QED
    BY <1>0, <2>1, CacheSet, SMTT(30), SMTT(60)
<1>3. ASSUME NEW q \in Procs, ClearCache(q) \/ Restart(q)
      PROVE  cache'[p][s] \in {0, cache[p][s]}
  BY <1>0, <1>3, CacheCleared DEF ClearCache, Restart
<1>4. \/ cache' = cache
      \/ \E t \in Threads : CacheAndUse(t) \/ Evict(t) \/ SweepEvict(t)
      \/ \E q \in Procs : ClearCache(q) \/ Restart(q)
  <2>1. ASSUME NEW t \in Threads, Call(t) \/ Fails(t)
        PROVE  cache' = cache
    BY <2>1 DEF Call, EncryptCached, EncryptMiss, DecryptMiss, ForgetSubject, StartRewrap, StartSweep, Fails
  <2>2. ASSUME NEW t \in Threads, Step(t)
        PROVE  cache' = cache \/ CacheAndUse(t) \/ Evict(t) \/ SweepEvict(t)
    BY <2>2 DEF Step, GetSubjectKey, WrapDEK, UpsertSubjectKey, ListStaleSubjectKeys,
        RewrapNext, RewrapUpsert, SweepCancelled, ListSubjectsCreatedBefore, SweepForget, SweepReturns
  <2> QED
    BY <2>1, <2>2 DEF Next, RotateKEK, vars
<1> QED
  BY <1>1, <1>2, <1>3, <1>4

\* How a field gets sealed.
LEMMA SealSteps ==
    ASSUME BaseInv, [Next]_vars, NEW c \in sealed', c \notin sealed
    PROVE  \/ \E p \in Procs : \E s \in Subjects :
                  cache[p][s] # 0 /\ c = [subject |-> s, dek |-> cache[p][s]]
           \/ \E t \in Threads :
                  /\ th[t].pc = "cache" /\ th[t].subject \in Subjects
                  /\ c = [subject |-> th[t].subject, dek |-> th[t].dek]
<1>0. \A t \in Threads : ProcOf[t] \in Procs /\ Shape(t)
  BY ShredderAssumption DEF BaseInv
<1>1. ASSUME NEW t \in Threads, NEW s \in Subjects, EncryptCached(t, s)
      PROVE  \E p \in Procs : cache[p][s] # 0 /\ c = [subject |-> s, dek |-> cache[p][s]]
  BY <1>0, <1>1 DEF EncryptCached, Cached
<1>2. ASSUME NEW t \in Threads, CacheAndUse(t)
      PROVE  /\ th[t].pc = "cache" /\ th[t].subject \in Subjects
             /\ c = [subject |-> th[t].subject, dek |-> th[t].dek]
  BY <1>0, <1>2 DEF CacheAndUse, Shape
<1>3. \E t \in Threads : CacheAndUse(t) \/ \E s \in Subjects : EncryptCached(t, s)
  <2>1. ASSUME NEW t \in Threads, Call(t) \/ Fails(t)
        PROVE  sealed' = sealed \/ \E s \in Subjects : EncryptCached(t, s)
    BY <2>1 DEF Call, EncryptMiss, DecryptMiss, ForgetSubject, StartRewrap, StartSweep, Fails
  <2>2. ASSUME NEW t \in Threads, Step(t)
        PROVE  sealed' = sealed \/ CacheAndUse(t)
    BY <2>2 DEF Step, GetSubjectKey, WrapDEK, UpsertSubjectKey, Evict, SweepEvict, ListStaleSubjectKeys,
        RewrapNext, RewrapUpsert, SweepCancelled, ListSubjectsCreatedBefore, SweepForget, SweepReturns
  <2> QED
    BY <2>1, <2>2 DEF Next, ClearCache, Restart, RotateKEK, vars
<1> QED
  BY <1>1, <1>2, <1>3

\* How a call comes to hold a key.
LEMMA HoldSteps ==
    ASSUME BaseInv, [Next]_vars, NEW t \in Threads, th'[t].pc = "cache"
    PROVE  \/ th'[t] = th[t]
           \/ /\ th'[t].subject = th[t].subject /\ th[t].subject \in Subjects
              /\ Live(th[t].subject) /\ th'[t].dek = row[th[t].subject].dek
           \/ UpsertSubjectKey(t) /\ th'[t].subject = th[t].subject /\ th'[t].dek = th[t].dek
<1>0. TypeOK /\ Shape(t)
  BY DEF BaseInv
<1>1. th'[t] # Idle
  BY IdleType
<1>2. ASSUME NEW s \in Subjects, EncryptMiss(t, s) \/ DecryptMiss(t, s) \/ ForgetSubject(t, s)
      PROVE  FALSE
  BY <1>0, <1>2, MissStarts DEF Local
<1>3. ASSUME StartRewrap(t) \/ StartSweep(t)
      PROVE  FALSE
  BY <1>0, <1>3, RewrapStarts, SweepStarts DEF Local
<1>4. ASSUME GetSubjectKey(t)
      PROVE  /\ th'[t].subject = th[t].subject /\ th[t].subject \in Subjects
             /\ Live(th[t].subject) /\ th'[t].dek = row[th[t].subject].dek
  <2>1. th[t].subject \in Subjects
    BY <1>0, <1>4 DEF GetSubjectKey, Shape
  <2> QED
    BY <1>0, <1>1, <1>4, <2>1, KeyLookedUp DEF Local
<1>5. ASSUME UpsertSubjectKey(t)
      PROVE  th'[t].subject = th[t].subject /\ th'[t].dek = th[t].dek
  BY <1>0, <1>5, KeyStored DEF Local
<1>6. ASSUME WrapDEK(t)
      PROVE  FALSE
  BY <1>0, <1>6, KeyWrapped DEF Local
<1>7. ASSUME ListStaleSubjectKeys(t) \/ RewrapUpsert(t) \/ ListSubjectsCreatedBefore(t) \/ SweepEvict(t)
      PROVE  FALSE
  BY <1>0, <1>1, <1>7, StaleListed, RewrapStored, ExpiredListed, SweepEvicts DEF Local, AfterForget
<1>8. ASSUME RewrapNext(t) \/ SweepForget(t)
      PROVE  FALSE
  <2>1. th[t].page # {}
    BY <1>0, <1>8 DEF RewrapNext, SweepForget, Shape
  <2> QED
    BY <1>0, <1>1, <1>8, <2>1, RowRewrapped, SweepForgets DEF Local
<1> QED
  BY <1>1, <1>2, <1>3, <1>4, <1>5, <1>6, <1>7, <1>8, ThreadSteps

\* A key comes from nowhere but the first encryption's upsert.
LEMMA UsesStep ==
    ASSUME BaseInv, ExistInv, RewrapInv, [Next]_vars, NEW s \in Subjects, NEW k \in DEKs, Uses(s, k)'
    PROVE  \/ Uses(s, k)
           \/ \E t \in Threads : UpsertSubjectKey(t) /\ th[t].subject = s /\ th[t].dek = k
<1>0. k # 0
  BY ShredderAssumption, SMTT(30), SMTT(60) DEF DEKs
<1>1. CASE Live(s)' /\ row'[s].dek = k
  <2>1. CASE row'[s] = row[s]
    BY <1>1, <2>1 DEF Live, Exists, Uses
  <2>2. ASSUME NEW t \in Threads, RewrapUpsert(t), th[t].subject = s, row'[s].dek = th[t].dek
        PROVE  Uses(s, k)
    <3>1. Live(s)
      BY <1>1, <2>2, RowsStay DEF RewrapUpsert, ExistInv, Live
    <3> QED
      BY <1>1, <2>2, <3>1 DEF RewrapUpsert, RewrapInv, Uses
  <2> QED
    BY <1>1, <2>1, <2>2, RowsStay
<1>2. ASSUME NEW p \in Procs, cache'[p][s] = k
      PROVE  Uses(s, k)
  BY <1>0, <1>2, CacheSteps, SMTT(30), SMTT(60) DEF Uses
<1>3. ASSUME NEW t \in Threads, th'[t].pc = "cache", th'[t].subject = s, th'[t].dek = k
      PROVE  Uses(s, k) \/ (UpsertSubjectKey(t) /\ th[t].subject = s /\ th[t].dek = k)
  BY <1>3, HoldSteps DEF Uses
<1>4. ASSUME [subject |-> s, dek |-> k] \in sealed'
      PROVE  Uses(s, k)
  <2> DEFINE c == [subject |-> s, dek |-> k]
  <2>0. c.subject = s /\ c.dek = k
    OBVIOUS
  <2> HIDE DEF c
  <2>1. CASE c \in sealed
    BY <2>1 DEF Uses, c
  <2>2. ASSUME NEW p \in Procs, NEW x \in Subjects, c = [subject |-> x, dek |-> cache[p][x]]
        PROVE  Uses(s, k)
    <3>1. x = s /\ cache[p][x] = k
      BY <2>0, <2>2
    <3> QED
      BY <3>1 DEF Uses
  <2>3. ASSUME NEW t \in Threads, th[t].pc = "cache", c = [subject |-> th[t].subject, dek |-> th[t].dek]
        PROVE  Uses(s, k)
    <3>1. th[t].subject = s /\ th[t].dek = k
      BY <2>0, <2>3
    <3> QED
      BY <2>3, <3>1 DEF Uses
  <2>4. c \in sealed'
    BY <1>4 DEF c
  <2>5. CASE c \notin sealed
    <3>1. \/ \E p \in Procs : \E x \in Subjects : c = [subject |-> x, dek |-> cache[p][x]]
          \/ \E t \in Threads : th[t].pc = "cache" /\ c = [subject |-> th[t].subject, dek |-> th[t].dek]
      BY <2>4, <2>5, SealSteps, ZenonT(60)
    <3> QED
      BY <2>2, <2>3, <3>1
  <2> QED
    BY <2>1, <2>5
<1> QED
  BY <1>1, <1>2, <1>3, <1>4 DEF Uses

\* Every step keeps OneKey.
LEMMA OneKeyStep ==
    ASSUME BaseInv, ExistInv, CreateInv, RewrapInv, OneKey, [Next]_vars
    PROVE  OneKey'
<1> SUFFICES ASSUME NEW s \in Subjects, NEW j \in DEKs, NEW k \in DEKs, Uses(s, j)', Uses(s, k)'
             PROVE  j = k /\ Exists(s)'
  BY DEF OneKey
<1>0. BaseInv' /\ \A t \in Threads : Shape(t)
  BY BaseStep DEF BaseInv
<1>1. ASSUME NEW t \in Threads, UpsertSubjectKey(t), th[t].subject = s
      PROVE  ~Exists(s) /\ Creating(t, s) /\ Exists(s)'
  <2>1. ~Exists(s) /\ Creating(t, s) /\ th[t].dek \in DEKs /\ th[t].kek \in Versions
    BY <1>0, <1>1, ThreadFields DEF UpsertSubjectKey, CreateInv, Creating, Shape, BaseInv
  <2>2. row'[s].dek = th[t].dek
    BY <1>1, <2>1, RowUpserted, SMTT(30), SMTT(60) DEF UpsertSubjectKey, OneRow, BaseInv
  <2>3. row'[s] # NoRow
    BY <2>1, <2>2, ShredderAssumption, SMTT(30), SMTT(60) DEF NoRow, DEKs
  <2> QED
    BY <2>1, <2>3 DEF Exists
<1>2. ASSUME NEW x \in DEKs, Uses(s, x)
      PROVE  Exists(s)
  BY <1>2 DEF OneKey
<1>3. CASE Uses(s, j) /\ Uses(s, k)
  BY <1>3, RowsStay DEF OneKey
<1>4. CASE ~(Uses(s, j) /\ Uses(s, k))
  <2>1. PICK t \in Threads : UpsertSubjectKey(t) /\ th[t].subject = s
    BY <1>4, UsesStep
  <2>2. ~Exists(s) /\ ~Uses(s, j) /\ ~Uses(s, k) /\ Exists(s)'
    BY <1>1, <1>2, <2>1
  <2>3. \A u \in Threads : UpsertSubjectKey(u) /\ th[u].subject = s => u = t
    BY <1>1, <2>1 DEF CreateInv
  <2> QED
    BY <2>2, <2>3, UsesStep, SMTT(30), SMTT(60)
<1> QED
  BY <1>3, <1>4

\* With one key a subject's fields open, and caches are right.
LEMMA OneKeyOpensAll ==
    ASSUME BaseInv, OneKey
    PROVE  KeyKept /\ CacheRight
<1>0. TypeOK
  BY DEF BaseInv
<1>1. ASSUME NEW c \in sealed
      PROVE  c.subject \in Subjects /\ c.dek \in DEKs /\ Uses(c.subject, c.dek)
  <2>1. c \in [subject : Subjects, dek : DEKs]
    BY <1>0 DEF TypeOK
  <2>2. c = [subject |-> c.subject, dek |-> c.dek] /\ c.subject \in Subjects /\ c.dek \in DEKs
    BY <2>1
  <2> QED
    BY <1>1, <2>2 DEF Uses
<1>2. ASSUME NEW c \in sealed, Live(c.subject)
      PROVE  row[c.subject].dek = c.dek
  <2>1. PICK s \in Subjects : s = c.subject
    BY <1>1
  <2>2. row[s].dek \in DEKs /\ Uses(s, row[s].dek)
    BY <1>2, <2>1 DEF BaseInv, Uses
  <2> QED
    BY <1>1, <2>1, <2>2, ZenonT(60) DEF OneKey
<1>3. ASSUME NEW p \in Procs, NEW c \in sealed, cache[p][c.subject] # 0
      PROVE  cache[p][c.subject] = c.dek
  <2>1. PICK s \in Subjects : s = c.subject
    BY <1>1
  <2>2. cache[p][s] \in DEKs
    BY <1>0, <1>3, <2>1, ShredderAssumption, SMTT(30), SMTT(60) DEF TypeOK, DEKs
  <2>3. Uses(s, cache[p][s])
    BY DEF Uses
  <2> QED
    BY <1>1, <2>1, <2>2, <2>3 DEF OneKey
<1> QED
  BY <1>2, <1>3 DEF KeyKept, CacheRight

-------------------------------------------------------------------------------
(* The retention sweep *)

\* How a sweep moves on.
LEMMA SweepSteps ==
    ASSUME BaseInv, [Next]_vars, NEW t \in Threads, th'[t].op = "sweep"
    PROVE  \/ th'[t] = th[t]
           \/ th'[t].pc = "scan" /\ \A s \in th'[t].due : s \in Subjects /\ Exists(s)
           \/ /\ th[t].op = "sweep" /\ row' = row /\ th'[t].due = th[t].due
              /\ th'[t].pc \in {"swept", "forget"}
              /\ th'[t].pc = "swept" => \A s \in th[t].due : ~Live(s)
              /\ ~th'[t].full => \A s \in th[t].due : Live(s) => \E r \in th'[t].page : r.subject = s
           \/ /\ th[t].op = "sweep" /\ th[t].pc = "forget" /\ th'[t].pc = "evict"
              /\ th'[t].due = th[t].due /\ th'[t].full = th[t].full
              /\ FirstRow(t) \in th[t].page /\ th'[t].page = th[t].page \ {FirstRow(t)}
              /\ row' = Forgotten(FirstRow(t).subject)
           \/ /\ th[t].op = "sweep" /\ th[t].pc = "evict" /\ row' = row
              /\ th'[t].pc = AfterForget(t) /\ th'[t].page = th[t].page
              /\ th'[t].due = th[t].due /\ th'[t].full = th[t].full
<1>0. TypeOK /\ Shape(t)
  BY DEF BaseInv
<1>1. th'[t] # Idle
  BY IdleType
<1>2. ASSUME NEW s \in Subjects, EncryptMiss(t, s) \/ DecryptMiss(t, s) \/ ForgetSubject(t, s)
      PROVE  FALSE
  BY <1>0, <1>2, MissStarts DEF Local
<1>3. ASSUME StartRewrap(t)
      PROVE  FALSE
  BY <1>0, <1>3, RewrapStarts DEF Local
<1>4. ASSUME StartSweep(t)
      PROVE  th'[t].pc = "scan" /\ \A s \in th'[t].due : s \in Subjects /\ Exists(s)
  BY <1>0, <1>4, SweepStarts DEF Local
<1>5. ASSUME GetSubjectKey(t) \/ WrapDEK(t) \/ UpsertSubjectKey(t)
      PROVE  FALSE
  <2>1. th[t].op \in {"encrypt", "decrypt"} /\ th[t].subject \in Subjects
    BY <1>0, <1>5 DEF GetSubjectKey, WrapDEK, UpsertSubjectKey, Shape
  <2>2. th'[t].op = th[t].op
    BY <1>0, <1>1, <1>5, <2>1, KeyLookedUp, KeyWrapped, KeyStored DEF Local
  <2> QED
    BY <2>1, <2>2
<1>6. ASSUME ListStaleSubjectKeys(t) \/ RewrapNext(t) \/ RewrapUpsert(t)
      PROVE  FALSE
  <2>1. th[t].op = "rewrap" /\ (RewrapNext(t) => th[t].page # {})
    BY <1>0, <1>6, ZenonT(60) DEF ListStaleSubjectKeys, RewrapNext, RewrapUpsert, Rewrapping, Shape
  <2>2. th'[t].op = th[t].op
    BY <1>0, <1>1, <1>6, <2>1, StaleListed, RowRewrapped, RewrapStored, ZenonT(60) DEF Local
  <2> QED
    BY <2>1, <2>2
<1>7. ASSUME ListSubjectsCreatedBefore(t)
      PROVE  /\ th[t].op = "sweep" /\ row' = row /\ th'[t].due = th[t].due
             /\ th'[t].pc \in {"swept", "forget"}
             /\ th'[t].pc = "swept" => \A s \in th[t].due : ~Live(s)
             /\ ~th'[t].full => \A s \in th[t].due : Live(s) => \E r \in th'[t].page : r.subject = s
  <2> DEFINE expired == {s \in th[t].due : Live(s)}
  <2>1. th[t].op = "sweep" /\ row' = row
    BY <1>0, <1>7 DEF ListSubjectsCreatedBefore, Shape
  <2>2. /\ th'[t].pc = IF expired = {} THEN "swept" ELSE "forget"
        /\ th'[t].due = th[t].due /\ th'[t].page = PageOf(expired)
        /\ ~th'[t].full => \A s \in expired : \E r \in PageOf(expired) : r.subject = s
    BY <1>7, ExpiredListed DEF Local
  <2>3. \A s \in th[t].due : Live(s) => s \in expired
    OBVIOUS
  <2> HIDE DEF expired
  <2> QED
    BY <2>1, <2>2, <2>3
<1>8. ASSUME SweepForget(t)
      PROVE  /\ th[t].op = "sweep" /\ th[t].pc = "forget" /\ th'[t].pc = "evict"
             /\ th'[t].due = th[t].due /\ th'[t].full = th[t].full
             /\ FirstRow(t) \in th[t].page /\ th'[t].page = th[t].page \ {FirstRow(t)}
             /\ row' = Forgotten(FirstRow(t).subject)
  <2>1. /\ th[t].op = "sweep" /\ th[t].pc = "forget" /\ th[t].page # {}
        /\ row' = Forgotten(FirstRow(t).subject)
    BY <1>0, <1>8 DEF SweepForget, Shape
  <2> QED
    BY <1>0, <1>8, <2>1, SweepForgets, FirstRowOfPage DEF Local
<1>9. ASSUME SweepEvict(t)
      PROVE  /\ th[t].op = "sweep" /\ th[t].pc = "evict" /\ row' = row
             /\ th'[t].pc = AfterForget(t) /\ th'[t].page = th[t].page
             /\ th'[t].due = th[t].due /\ th'[t].full = th[t].full
  BY <1>0, <1>9, SweepEvicts, ZenonT(60) DEF SweepEvict, Local
<1> QED
  BY <1>1, <1>2, <1>3, <1>4, <1>5, <1>6, <1>7, <1>8, <1>9, ThreadSteps

\* Every step keeps SweepInv.
LEMMA SweepStep ==
    ASSUME BaseInv, SweepInv, [Next]_vars
    PROVE  SweepInv'
<1> SUFFICES ASSUME NEW t \in Threads, th'[t].op = "sweep"
             PROVE  /\ \A s \in th'[t].due : row'[s] # NoRow
                    /\ th'[t].pc = "swept" => \A s \in th'[t].due : row'[s].shredded
                    /\ th'[t].pc \in {"forget", "evict"} /\ ~th'[t].full =>
                           \A s \in th'[t].due : row'[s].shredded \/ \E r \in th'[t].page : r.subject = s
  BY DEF SweepInv, Exists
<1>0. TypeOK
  BY DEF BaseInv
<1>1. \A s \in Subjects : /\ Exists(s) => row'[s] # NoRow
                          /\ row[s].shredded => row'[s].shredded
  BY RowsStay DEF Exists
<1>2. ASSUME th[t].op = "sweep"
      PROVE  /\ \A s \in th[t].due : s \in Subjects /\ Exists(s)
             /\ th[t].pc = "swept" => \A s \in th[t].due : row[s].shredded
             /\ th[t].pc \in {"forget", "evict"} /\ ~th[t].full =>
                    \A s \in th[t].due : row[s].shredded \/ \E r \in th[t].page : r.subject = s
  BY <1>0, <1>2, ThreadFields DEF SweepInv
<1>3. CASE th'[t] = th[t]
  BY <1>1, <1>2, <1>3
<1>4. CASE th'[t].pc = "scan" /\ \A s \in th'[t].due : s \in Subjects /\ Exists(s)
  BY <1>1, <1>4
<1>5. CASE /\ th[t].op = "sweep" /\ row' = row /\ th'[t].due = th[t].due
           /\ th'[t].pc \in {"swept", "forget"}
           /\ th'[t].pc = "swept" => \A s \in th[t].due : ~Live(s)
           /\ ~th'[t].full => \A s \in th[t].due : Live(s) => \E r \in th'[t].page : r.subject = s
  BY <1>2, <1>5 DEF Live, Exists
<1>6. CASE /\ th[t].op = "sweep" /\ th[t].pc = "forget" /\ th'[t].pc = "evict"
           /\ th'[t].due = th[t].due /\ th'[t].full = th[t].full
           /\ FirstRow(t) \in th[t].page /\ th'[t].page = th[t].page \ {FirstRow(t)}
           /\ row' = Forgotten(FirstRow(t).subject)
  <2>1. PICK f \in th[t].page : f = FirstRow(t)
    BY <1>6
  <2>2. f.subject \in Subjects /\ th'[t].page = th[t].page \ {f} /\ row' = Forgotten(f.subject)
    BY <1>0, <1>6, <2>1, PageSubjects
  <2>3. Exists(f.subject) => row'[f.subject].shredded
    BY <1>0, <2>2, RowForgotten, ZenonT(60) DEF OneRow
  <2>4. ASSUME NEW s \in th[t].due, ~th[t].full
        PROVE  row'[s].shredded \/ \E r \in th'[t].page : r.subject = s
    <3>1. s \in Subjects /\ Exists(s) /\ (row[s].shredded \/ \E r \in th[t].page : r.subject = s)
      BY <1>2, <1>6, <2>4
    <3>2. CASE f.subject = s
      BY <2>3, <3>1, <3>2
    <3>3. CASE f.subject # s
      BY <1>1, <2>2, <3>1, <3>3
    <3> QED
      BY <3>2, <3>3
  <2> QED
    BY <1>1, <1>2, <1>6, <2>4
<1>7. CASE /\ th[t].op = "sweep" /\ th[t].pc = "evict" /\ row' = row
           /\ th'[t].pc = AfterForget(t) /\ th'[t].page = th[t].page
           /\ th'[t].due = th[t].due /\ th'[t].full = th[t].full
  BY <1>2, <1>7, ZenonT(60) DEF AfterForget, Exists
<1> QED
  BY <1>3, <1>4, <1>5, <1>6, <1>7, SweepSteps

-------------------------------------------------------------------------------
(* The theorems *)

INSTANCE OrderingProofs

\* The facts about pages, from OrderingProofs.
LEMMA PageFactsHold == PageFacts
<1> SUFFICES ASSUME NEW S \in SUBSET Subjects
             PROVE  /\ Cardinality(S) \in Nat
                    /\ S # {} => FirstOf(S, PageSize) # {} /\ \E x \in S : \A y \in S : x <= y
                    /\ Cardinality(S) < PageSize => FirstOf(S, PageSize) = S
  BY DEF PageFacts
<1>1. S \in SUBSET Nat /\ IsFiniteSet(S) /\ PageSize \in Nat \ {0} /\ \A x \in S : x \in Nat
  BY ShredderAssumption, FS_Subset
<1>2. Cardinality(S) \in Nat
  BY <1>1, FS_CardinalityType
<1>3. ASSUME S # {}
      PROVE  FirstOf(S, PageSize) # {} /\ \E x \in S : \A y \in S : x <= y
  <2>1. PICK x \in S : \A y \in S : x <= y
    BY <1>1, <1>3, SmallestIn
  <2>2. {y \in S : y <= x} = {x}
    <3>1. \A y \in S : y <= x <=> y = x
      BY <1>1, <2>1, SMTT(30), SMTT(60)
    <3> QED
      BY <3>1
  <2>3. x \in FirstOf(S, PageSize)
    BY <1>1, <2>2, FS_Singleton, SMTT(30), SMTT(60) DEF FirstOf, Rank
  <2> QED
    BY <2>1, <2>3
<1>4. ASSUME Cardinality(S) < PageSize
      PROVE  FirstOf(S, PageSize) = S
  <2>1. ASSUME NEW s \in S
        PROVE  s \in FirstOf(S, PageSize)
    <3>1. Rank(S, s) \in Nat /\ Rank(S, s) <= Cardinality(S)
      BY <1>1, RankType
    <3> QED
      BY <1>1, <1>2, <1>4, <3>1, SMTT(30), SMTT(60) DEF FirstOf
  <2> QED
    BY <2>1 DEF FirstOf
<1> QED
  BY <1>2, <1>3, <1>4

\* The initial state.
LEMMA ShredderInit ==
    ASSUME Init
    PROVE  /\ BaseInv /\ ExistInv /\ CreateInv /\ RewrapInv /\ OneKey /\ SweepInv
<1>1. \A t \in Threads : th[t] = Idle
  BY DEF Init
<1>2. NoRow \in KeyRow /\ NoRow.shredded = FALSE /\ NoRow.dek = 0
  BY ShredderAssumption, SMTT(30), SMTT(60) DEF NoRow, KeyRow, Versions
<1>3. \A s \in Subjects : row[s] = NoRow
  BY DEF Init
<1>4. \A s \in Subjects : ~Exists(s) /\ ~Live(s)
  BY <1>3 DEF Exists, Live
<1>5. TypeOK
  BY <1>2, IdleType, ShredderAssumption, SMTT(30), SMTT(60) DEF Init, TypeOK, Versions, DEKs
<1>6. \A t \in Threads : Shape(t) /\ ~Rewrapping(t)
  BY <1>1, IdleType DEF Shape, Rewrapping
<1>7. BaseInv
  BY <1>4, <1>5, <1>6, PageFactsHold, ZenonT(60) DEF BaseInv
<1>8. /\ ExistInv
      /\ RewrapInv
  <2>1. ExistInv
    BY <1>6 DEF ExistInv
  <2>2. RewrapInv
    BY <1>6 DEF RewrapInv
  <2> QED
    BY <2>1, <2>2
<1>9. /\ CreateInv
      /\ SweepInv
  <2>1. \A t \in Threads : th[t].op = "none" /\ th[t].pc = "idle"
    BY <1>1, IdleType
  <2>2. CreateInv
    BY <2>1 DEF CreateInv, Creating
  <2>4. SweepInv
    BY <2>1 DEF SweepInv
  <2> QED
    BY <2>2, <2>4
<1>10. OneKey
  <2>1. ASSUME NEW s \in Subjects, NEW k \in DEKs
        PROVE  ~Uses(s, k)
    <3>1. k # 0
      BY ShredderAssumption, SMTT(30), SMTT(60) DEF DEKs
    <3>2. \A p \in Procs : cache[p][s] = 0
      BY DEF Init
    <3>3. \A t \in Threads : th[t].pc # "cache"
      BY <1>1, IdleType
    <3>4. sealed = {}
      BY DEF Init
    <3>5. ~\E p \in Procs : cache[p][s] = k
      BY <3>1, <3>2
    <3> QED
      BY <1>4, <3>3, <3>4, <3>5 DEF Uses
  <2> QED
    BY <2>1 DEF OneKey
<1> QED
  BY <1>7, <1>8, <1>9, <1>10

\* What holds whatever the deployment keeps apart.
LEMMA AnyDeployment == Spec => [](BaseInv /\ ExistInv /\ SweepInv)
<1>1. Init => BaseInv /\ ExistInv /\ SweepInv
  BY ShredderInit
<1>2. BaseInv /\ ExistInv /\ SweepInv /\ [Next]_vars => BaseInv' /\ ExistInv' /\ SweepInv'
  BY BaseStep, ExistStep, SweepStep
<1> QED
  BY <1>1, <1>2, PTL DEF Spec

\* What holds where first keys are made one at a time.
LEMMA KeysStay ==
    ASSUME OneCreator
    PROVE  Spec => [](CreateInv /\ RewrapInv /\ OneKey)
<1>1. Init => CreateInv /\ RewrapInv /\ OneKey
  BY ShredderInit
<1>2. /\ BaseInv /\ ExistInv /\ CreateInv /\ RewrapInv /\ OneKey /\ [Next]_vars
      => CreateInv' /\ RewrapInv' /\ OneKey'
  BY CreateStep, RewrapStep, OneKeyStep
<1> QED
  BY <1>1, <1>2, AnyDeployment, PTL DEF Spec

\* Subject keys, caches and the local variables of the calls keep their types;
\* in particular, a page of ListStaleSubjectKeys carries no destroyed key.
THEOREM ShredderTypeCorrect == Spec => []TypeOK
<1>1. BaseInv => TypeOK
  BY DEF BaseInv
<1> QED
  BY <1>1, AnyDeployment, PTL

\* RetentionWorker.RunOnce: a sweep that comes to the end of its pages has forgotten
\* everything that was due, whatever else runs meanwhile; one that is cancelled or
\* fails has not.
THEOREM SweepForgetsAll == Spec => []SweepComplete
<1>1. BaseInv /\ SweepInv => SweepComplete
  BY DEF BaseInv, Shape, SweepInv, SweepComplete
<1> QED
  BY <1>1, AnyDeployment, PTL

\* GetSubjectKey: if first encryptions of a subject do not overlap, the stored key
\* opens all that was encrypted for the subject, across any number of processes,
\* restarts, rotations and re-wrappings, forgetting in the midst of them included.
THEOREM KeysOpenAll ==
    ASSUME OneCreator
    PROVE  Spec => []KeyKept
<1>1. BaseInv /\ OneKey => KeyKept
  BY OneKeyOpensAll
<1> QED
  BY <1>1, AnyDeployment, KeysStay, PTL

\* EncryptField and DecryptField on a cache hit: under the same condition a key
\* that a process has in its cache, however long ago it was put there, is the one
\* that opens all that was encrypted for the subject.
THEOREM CachedKeysOpenAll ==
    ASSUME OneCreator
    PROVE  Spec => []CacheRight
<1>1. BaseInv /\ OneKey => CacheRight
  BY OneKeyOpensAll
<1> QED
  BY <1>1, AnyDeployment, KeysStay, PTL
===============================================================================
