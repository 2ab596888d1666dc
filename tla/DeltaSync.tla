------------------------------ MODULE DeltaSync ------------------------------
(***************************************************************************)
(* A client's copy of the library, kept by GET /v1/manifest.  A delta      *)
(* answer is three separate reads of the database, with no transaction     *)
(* around them: the served rows past `since`, then the coverage start, then*)
(* the tombstones past `since`.  A full sync is as many reads as it has    *)
(* pages.  The writers of DeletionJournal run between any two of them.     *)
(*                                                                         *)
(* The client is not in this repository; it is the one PROTOCOL.md has the *)
(* bridge serve: it holds a cursor, a watermark it was told before it      *)
(* began (library.changed), it escalates to a full sync on deltaIncomplete,*)
(* and it keeps its cursor when an answer does not arrive.                 *)
(***************************************************************************)
EXTENDS DeletionJournal

CONSTANTS
  PageLimit,   \* rows in a page of a full sync
  DeletedCap   \* manifestDeltaDeletedCap

ASSUME LimitsAssumption == PageLimit \in Nat \ {0} /\ DeletedCap \in Nat

VARIABLES
  phase,      \* where the client's sync is
  since,      \* the cursor of the last sync that completed, 0 before the first
  nextSince,  \* the cursor this sync will leave
  library,    \* the client's copy: what it shows for a path, or None
  received,   \* the rows of the answer so far
  after,      \* the path cursor of a full sync
  pruneRaced  \* history: tombstones a delta answer still needed were pruned
              \* after it read the coverage

clientVars == <<phase, since, nextSince, library, received, after>>
vars       == <<storeVars, clientVars, pruneRaced>>

Phases  == {"idle", "rows", "coverage", "deleted", "page"}
Nothing == [p \in Paths |-> None]

ClientTypeOK ==
  /\ phase      \in Phases
  /\ since      \in Nat
  /\ nextSince  \in Nat
  /\ library    \in [Paths -> Contents \cup {None}]
  /\ received   \in [Paths -> Contents \cup {None}]
  /\ after      \in Nat \cup {-1}
  /\ pruneRaced \in BOOLEAN

TypeOK == StoreTypeOK /\ ClientTypeOK

Init ==
  /\ StoreInit
  /\ phase = "idle" /\ since = 0 /\ nextSince = 0
  /\ library = Nothing /\ received = Nothing /\ after = -1
  /\ pruneRaced = FALSE

-----------------------------------------------------------------------------
\* Mutant: the journal is taken as complete for every cursor.
AlwaysCovered == TRUE

\* The journal is complete for the client's cursor.
DeltaSinceCovered == since >= coverage

\* Mutant: the list starts at the cursor the sync will leave.
DeletedSinceNext == {p \in Tombs : deleted_at[p] > nextSince /\ p \notin Served}

\* DeletedSince: the tombstones newer than the cursor, without a path that a
\* served row carries.
DeletedSince == {p \in Tombs : deleted_at[p] > since /\ p \notin Served}

\* The copy with the rows received put into it.
Merged == [p \in Paths |-> IF received[p] # None THEN received[p] ELSE library[p]]

\* The client begins a sync: a full one if it never completed one.  The cursor it
\* will leave is a watermark it has been told, which may be an old one.
SyncStart ==
  /\ phase = "idle"
  /\ \E w \in LibraryWatermark : \E s \in 1..w :
       /\ s >= since
       /\ nextSince' = s
  /\ phase'    = IF since = 0 THEN "page" ELSE "rows"
  /\ received' = Nothing
  /\ after'    = -1
  /\ UNCHANGED <<since, library>>

\* writeManifestGated's row stream: one SELECT, so one snapshot.
ReadRows ==
  /\ phase = "rows"
  /\ received' = [p \in Paths |-> IF p \in Served /\ indexed_at[p] > since
                                  THEN track[p] ELSE None]
  /\ phase' = "coverage"
  /\ UNCHANGED <<since, nextSince, library, after>>

\* The sync is over, and what it held of it is forgotten.
SyncEnd ==
  /\ phase'     = "idle"
  /\ nextSince' = 0
  /\ received'  = Nothing
  /\ after'     = -1

\* deltaIncomplete: the rows are valid, and the removals need a full sync.
Escalate ==
  /\ library' = Merged
  /\ since'   = 0
  /\ SyncEnd

\* deltaDeletionFields, its first read.
ReadCoverage ==
  /\ phase = "coverage"
  /\ IF DeltaSinceCovered
     THEN phase' = "deleted" /\ UNCHANGED <<since, nextSince, library, received, after>>
     ELSE Escalate

\* The tombstone list, and the answer applied.  Nothing says which of the two the
\* client takes for a path in both.
ReadDeleted ==
  /\ phase = "deleted"
  /\ IF Cardinality(DeletedSince) > DeletedCap
     THEN Escalate
     ELSE \E wins \in SUBSET {p \in DeletedSince : received[p] # None} :
            /\ library' = [p \in Paths |-> IF p \in DeletedSince \ wins
                                           THEN None ELSE Merged[p]]
            /\ since' = nextSince
            /\ SyncEnd

\* The served paths past the page cursor, and the first PageLimit of them.
Rest == {p \in Served : p > after}
Page == {p \in Rest : Cardinality({q \in Rest : q < p}) < PageLimit}

\* The rows received, with those of a page added.
Listed(page) == [p \in Paths |-> IF p \in page THEN track[p] ELSE received[p]]

\* A page of a full sync.  A read that finds no more rows than a page holds is the
\* last, and the list it ends is authoritative.
ReadPage ==
  /\ phase = "page"
  /\ IF Cardinality(Rest) > PageLimit
     THEN /\ received' = Listed(Page)
          /\ after' \in Maxima(Page)
          /\ UNCHANGED <<phase, since, nextSince, library>>
     ELSE /\ library' = Listed(Rest)
          /\ since'   = nextSince
          /\ SyncEnd

\* The connection drops, and the client keeps what it had.  nextSince stays too:
\* an answer that changes nothing is then another step than one that is lost.
SyncLost ==
  /\ phase # "idle"
  /\ phase'    = "idle"
  /\ received' = Nothing
  /\ after'    = -1
  /\ UNCHANGED <<since, nextSince, library>>

Read       == ReadRows \/ ReadCoverage \/ ReadDeleted \/ ReadPage
ClientNext == SyncStart \/ Read \/ SyncLost

\* A tombstone past the cursor leaves the journal after the answer was found
\* covered and before its list is read, and the cursor the sync will leave is not
\* before the coverage start that replaced it.
DropsNeededTombstone ==
  /\ phase = "deleted"
  /\ \E p \in Tombs : /\ deleted_at[p] > since
                      /\ deleted_at'[p] = 0
                      /\ p \notin Served'
  /\ coverage' <= nextSince

StoreStep ==
  /\ StoreNext
  /\ pruneRaced' = (pruneRaced \/ DropsNeededTombstone)
  /\ UNCHANGED clientVars

ClientStep(A) == A /\ UNCHANGED <<storeVars, pruneRaced>>

Next == StoreStep \/ ClientStep(ClientNext)

Spec == Init /\ [][Next]_vars

\* A client keeps syncing, and after some time its connection holds.
Fairness ==
  /\ WF_vars(ClientStep(SyncStart))
  /\ WF_vars(ClientStep(Read))
  /\ <>[][~ClientStep(SyncLost)]_vars

FairSpec == Spec /\ Fairness

-----------------------------------------------------------------------------
(***************************************************************************)
(* Properties                                                              *)
(***************************************************************************)

\* A delta from cursor s would bring what the path shows now: its row is past s,
\* or its tombstone is, or the answer would send the client to a full sync.
Deliverable(p, s) ==
  \/ s < coverage
  \/ p \in Served    /\ indexed_at[p] > s
  \/ p \notin Served /\ deleted_at[p] > s

\* Nothing is lost between a client and the library: wherever its copy differs
\* from what the bridge serves, the next delta from its cursor will say so
\* (deletion_journal.go: a client gets a complete list or deltaIncomplete).
DeltaComplete ==
  since > 0 => \A p \in Paths : library[p] = Wire(p) \/ Deliverable(p, since)

\* DeltaComplete, for as long as neither of the two interleavings that break it
\* has happened.
DeltaCompleteUnlessRaced == ~erased /\ ~pruneRaced => DeltaComplete

\* The client catches up once the library stops changing, and keeps up: with
\* every loss of an answer, escalation and page boundary on the way.
Converges == <>[](erased \/ pruneRaced \/ library = [p \in Paths |-> Wire(p)])

\* deletion_journal.go: a client is given a complete list or deltaIncomplete; here
\* for every interleaving of a duplicate stamping pass.
CompleteDespiteStamping == ~pruneRaced => DeltaComplete
=============================================================================
