------------------------- MODULE EventStoreRefinement -------------------------
(***************************************************************************)
(* The event store implements EventLog: its committed rows in global       *)
(* position order are the log, unique_claims is the ownership, and what a  *)
(* follower has been handed is its view.                                   *)
(***************************************************************************)
EXTENDS EventStore

\* The event at global position p.
EntryAt(p) ==
    LET s == CHOOSE s \in Streams : \E v \in Versions(s) : events[s][v].pos = p
        v == CHOOSE v \in Versions(s) : events[s][v].pos = p
    IN  [stream |-> s, payload |-> events[s][v].payload]

\* The events whose positions are in P, by position.
EntriesAt(P) == Selected(P, MaxPosition, [p \in P |-> EntryAt(p)])

Log == INSTANCE EventLog
    WITH log <- EntriesAt(Committed),
         owner <- claims,
         view <- [f \in Followers |-> EntriesAt(seen[f])]

\* Every behaviour of the store is one in which commands run one at a time on
\* the current state of their stream, events only join the end of one log, and
\* followers hold prefixes of it.  (This is Log!Spec: a step that leaves alone
\* the variables that log, owner and view are made of stutters.  Most do, and TLC
\* need not compute the log for them.)
ImplementsLog == Log!Init /\ [][UNCHANGED <<events, claims, seen>> \/ Log!Next]_(Log!vars)
===============================================================================
