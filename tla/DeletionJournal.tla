--------------------------- MODULE DeletionJournal ---------------------------
(***************************************************************************)
(* The manifest store as a delta client can see it: the track rows, the    *)
(* duplicate-suppression flag that decides which of them are served, and   *)
(* the deletion journal (manifest_deletions and the instant from which it  *)
(* is complete).  Every writer runs in one transaction under Store.mu, so  *)
(* one writer is one action.  The one writer that is not is the duplicate  *)
(* stamping pass: it reads the library without the lock, elects, and       *)
(* commits what it decided later (ElectDuplicates, ApplyDupeStamps).       *)
(*                                                                         *)
(* A time is a natural number.  s.now() is the wall clock: it may stand    *)
(* still, and it may step back, so a writer reads any value of Clock.      *)
(***************************************************************************)
EXTENDS Integers, FiniteSets

CONSTANTS
  Paths,        \* track paths, numbered in the order of ORDER BY path
  Routed,       \* the paths of upnp_track_routing: served by an upstream
  Contents,     \* what a row says of its track on the wire
  None,         \* no row
  MassDivisor,  \* deletionJournalMassOpLibraryDivisor
  MassAbsolute, \* deletionJournalMassOpAbsolute
  Clock,        \* the readings of s.now()
  MaxStamp      \* bound: no writer runs past this stamp

ASSUME PathsAssumption    == Paths \subseteq Nat /\ IsFiniteSet(Paths)
ASSUME RoutedAssumption   == Routed \subseteq Paths
ASSUME ContentsAssumption == None \notin Contents
ASSUME MassAssumption     == MassDivisor \in Nat /\ MassAbsolute \in Nat
ASSUME ClockAssumption    == Clock \subseteq Nat /\ MaxStamp \in Nat

VARIABLES
  track,       \* tracks.tags_json: what the row of a path says, or None
  indexed_at,  \* tracks.indexed_at, 0 where there is no row
  suppressed,  \* the paths whose row has dupe_suppressed = 1
  deleted_at,  \* manifest_deletions.deleted_at, 0 where there is no tombstone
  coverage,    \* deletion_journal_coverage_start_ns
  stamps,      \* the duplicate stamps a pass has decided and not yet written
  erased       \* history: a stale stamp cleared the tombstone of a gone row

storeVars == <<track, indexed_at, suppressed, deleted_at, coverage, stamps, erased>>

Rows      == {p \in Paths : track[p] # None}
Tombs     == {p \in Paths : deleted_at[p] > 0}
Served    == Rows \ suppressed
Wire(p)   == IF p \in Served THEN track[p] ELSE None

\* What a stamping pass may have decided for a row: nothing, a plain stamp of a
\* row that stays served, a lifted suppression, a new suppression.
StampKinds == {"none", "keep", "lift", "hide"}
NoStamps   == [p \in Paths |-> "none"]

StoreTypeOK ==
  /\ track      \in [Paths -> Contents \cup {None}]
  /\ indexed_at \in [Paths -> Nat]
  /\ suppressed \in SUBSET Rows
  /\ deleted_at \in [Paths -> Nat]
  /\ coverage   \in Nat
  /\ stamps     \in [Paths -> StampKinds]
  /\ erased     \in BOOLEAN

-----------------------------------------------------------------------------
\* The largest element of S, as a set of one.
Maxima(S) == {m \in S : \A x \in S : x <= m}

\* Every value the library watermark is the maximum of.
Stamps == {indexed_at[p] : p \in Paths} \cup {deleted_at[p] : p \in Paths} \cup {coverage}

LibraryWatermark == Maxima(Stamps)

\* Mutant: the stamp looks at the rows and not at the journal.
StampPastRowsOnly(now) == Maxima({now} \cup {indexed_at[p] + 1 : p \in Paths})

\* The later of the clock and one past each arm of the watermark.
NextDeltaStamp(now) == Maxima({now} \cup {x + 1 : x \in Stamps})

StampsOf(D, stamp, f) == [p \in Paths |-> IF p \in D THEN stamp ELSE f[p]]

\* Mutant: the duplicate flag of a row outlives the row.
KeepSuppressed(D, stamp) ==
  /\ deleted_at' = StampsOf(D, stamp, deleted_at)
  /\ track'      = [p \in Paths |-> IF p \in D THEN None ELSE track[p]]
  /\ indexed_at' = StampsOf(D, 0, indexed_at)
  /\ UNCHANGED suppressed

\* INSERT INTO manifest_deletions ... ON CONFLICT DO UPDATE, then the DELETE of
\* the same rows.  A deleted row leaves every set that was about it.
JournalAndDelete(D, stamp) ==
  /\ deleted_at' = StampsOf(D, stamp, deleted_at)
  /\ track'      = [p \in Paths |-> IF p \in D THEN None ELSE track[p]]
  /\ indexed_at' = StampsOf(D, 0, indexed_at)
  /\ suppressed' = suppressed \ D

\* Mutant: the coverage start is read after the tombstones it has to pass are gone.
ResetAfterWipe(D, stamp) ==
  /\ deleted_at' = [p \in Paths |-> 0]
  /\ coverage'   \in Maxima({x + 1 : x \in {indexed_at[p] : p \in Paths} \cup {coverage}})
  /\ track'      = [p \in Paths |-> IF p \in D THEN None ELSE track[p]]
  /\ indexed_at' = StampsOf(D, 0, indexed_at)
  /\ suppressed' = suppressed \ D

\* Wipe every tombstone, restart the coverage past everything it erases, and
\* delete the rows D without a tombstone.
ResetCoverageAndDelete(D, stamp) ==
  /\ deleted_at' = [p \in Paths |-> 0]
  /\ coverage'   = stamp
  /\ track'      = [p \in Paths |-> IF p \in D THEN None ELSE track[p]]
  /\ indexed_at' = StampsOf(D, 0, indexed_at)
  /\ suppressed' = suppressed \ D

\* Mutant: an upsert leaves the journal as it was.
KeepTombstones(served) == deleted_at

\* clearAllServedTombstonesSQL: the journal without the tombstone of any served row.
ClearServedTombstones(served) == StampsOf(served, 0, deleted_at)

-----------------------------------------------------------------------------
StoreInit ==
  /\ track      = [p \in Paths |-> None]
  /\ indexed_at = [p \in Paths |-> 0]
  /\ suppressed = {}
  /\ deleted_at = [p \in Paths |-> 0]
  /\ coverage   = 1
  /\ stamps     = NoStamps
  /\ erased     = FALSE

\* No stamping pass is between its snapshot and its commit.
NoPass == stamps = NoStamps

\* UpsertTrackBatch: one stamp for the batch, the dupe columns left alone, and
\* every tombstone of a served row swept.  Filesystem rows are written by a scan,
\* which no stamping pass overlaps: a pass in a scan's tail runs after its writer,
\* and a pass outside a scan stands down.
UpsertTrackBatch(batch, now) ==
  \E stamp \in NextDeltaStamp(now) :
    LET B == DOMAIN batch IN
    /\ stamp <= MaxStamp
    /\ NoPass \/ B \subseteq Routed
    /\ track'      = [p \in Paths |-> IF p \in B THEN batch[p] ELSE track[p]]
    /\ indexed_at' = StampsOf(B, stamp, indexed_at)
    /\ deleted_at' = ClearServedTombstones((Rows \cup B) \ suppressed)
    /\ UNCHANGED <<suppressed, coverage, stamps, erased>>

\* MarkEnriched, and with it every UPDATE that sets indexed_at to the advance:
\* the row is still at the version the caller read, or nothing is written.
MarkEnriched(p, c, now) ==
  \E stamp \in NextDeltaStamp(now) :
    /\ p \in Rows
    /\ stamp <= MaxStamp
    /\ track'      = [track EXCEPT ![p] = c]
    /\ indexed_at' = [indexed_at EXCEPT ![p] = stamp]
    /\ UNCHANGED <<suppressed, deleted_at, coverage, stamps, erased>>

\* More rows than the journal should hold in one go: above the absolute bound, or
\* above the library's share.
MassDelete(n) ==
  \/ n > MassAbsolute
  \/ Cardinality(Rows) > 0 /\ n * MassDivisor > Cardinality(Rows)

\* DeleteTracksBatch: an explicit list of paths, of which some may have no row.
DeleteTracksBatch(D, now) ==
  \E stamp \in NextDeltaStamp(now) :
    /\ D # {}
    /\ stamp <= MaxStamp
    /\ IF MassDelete(Cardinality(D))
       THEN ResetCoverageAndDelete(D, stamp)
       ELSE JournalAndDelete(D \cap Rows, stamp) /\ UNCHANGED coverage
    /\ UNCHANGED <<stamps, erased>>

\* DeleteTracksByPrefix: the rows of a removed library root.
DeleteTracksByPrefix(D, now) ==
  \E stamp \in NextDeltaStamp(now) :
    /\ D # {} /\ D \subseteq Rows
    /\ stamp <= MaxStamp
    /\ JournalAndDelete(D, stamp)
    /\ UNCHANGED <<coverage, stamps, erased>>

\* IncrementMissingTracks: of the paths a scan or the console's delete did not
\* find, the ones at the threshold, and never a routed row.
IncrementMissingTracks(D, now) ==
  \E stamp \in NextDeltaStamp(now) :
    /\ D # {} /\ D \subseteq Rows \ Routed
    /\ stamp <= MaxStamp
    /\ JournalAndDelete(D, stamp)
    /\ UNCHANGED <<coverage, stamps, erased>>

\* RecordFirstIndexedCarryAndWipe: a change of the number of library roots changes
\* the form of every filesystem path.
WipeFilesystemTracks(now) ==
  \E stamp \in NextDeltaStamp(now) :
    /\ stamp <= MaxStamp
    /\ ResetCoverageAndDelete(Rows \ Routed, stamp)
    /\ UNCHANGED <<stamps, erased>>

\* PruneDeletionJournal: drop the tombstones older than the retention, and move
\* the coverage to the horizon if there were any.
PruneDeletionJournal(cutoff) ==
  LET old == {p \in Tombs : deleted_at[p] < cutoff} IN
  /\ cutoff <= MaxStamp
  /\ old # {}
  /\ deleted_at' = StampsOf(old, 0, deleted_at)
  /\ coverage'   = IF cutoff > coverage THEN cutoff ELSE coverage
  /\ UNCHANGED <<track, indexed_at, suppressed, stamps, erased>>

\* restampDuplicates up to its commit: the rows as they are now, and what the
\* election asks of each.  Only filesystem rows are stamped; a suppression is
\* lifted from a suppressed row, and the others are for a row that is served.
ElectDuplicates(plan) ==
  /\ NoPass
  /\ \A p \in Paths :
       /\ plan[p] # "none"           => p \in Rows \ Routed
       /\ plan[p] = "lift"           => p \in suppressed
       /\ plan[p] \in {"keep", "hide"} => p \notin suppressed
  /\ stamps' = plan
  /\ UNCHANGED <<track, indexed_at, suppressed, deleted_at, coverage, erased>>

\* ErrDupeRestampDeferred, or a pass whose context ended.
AbandonDupeStamps ==
  /\ ~NoPass
  /\ stamps' = NoStamps
  /\ UNCHANGED <<track, indexed_at, suppressed, deleted_at, coverage, erased>>

\* ApplyDupeStamps: the UPDATE finds no row that was deleted since the snapshot,
\* and so does the journal INSERT; the clear of a stamp that does not suppress
\* does not look at the row.
ApplyDupeStamps(now) ==
  \E stamp \in NextDeltaStamp(now) :
    LET lifted  == {p \in Paths : stamps[p] = "lift"}
        hidden  == {p \in Rows  : stamps[p] = "hide"}
        cleared == {p \in Paths : stamps[p] \in {"keep", "lift"}} IN
    /\ ~NoPass
    /\ stamp <= MaxStamp
    /\ indexed_at' = StampsOf(lifted \cap Rows, stamp, indexed_at)
    /\ suppressed' = (suppressed \ lifted) \cup hidden
    /\ deleted_at' = StampsOf(hidden, stamp, StampsOf(cleared, 0, deleted_at))
    /\ stamps'     = NoStamps
    /\ erased'     = (erased \/ (cleared \cap Tombs) \ Rows # {})
    /\ UNCHANGED <<track, coverage>>

Batches == UNION {[B -> Contents] : B \in (SUBSET Paths) \ {{}}}

StoreNext ==
  \/ \E now \in Clock :
       \/ \E batch \in Batches : UpsertTrackBatch(batch, now)
       \/ \E p \in Paths, c \in Contents : MarkEnriched(p, c, now)
       \/ \E D \in SUBSET Paths :
            \/ DeleteTracksBatch(D, now)
            \/ DeleteTracksByPrefix(D, now)
            \/ IncrementMissingTracks(D, now)
       \/ WipeFilesystemTracks(now)
       \/ ApplyDupeStamps(now)
  \/ \E cutoff \in Clock : PruneDeletionJournal(cutoff)
  \/ \E plan \in [Paths -> StampKinds] : ElectDuplicates(plan)
  \/ AbandonDupeStamps

StoreSpec == StoreInit /\ [][StoreNext]_storeVars

-----------------------------------------------------------------------------
(***************************************************************************)
(* Properties                                                              *)
(***************************************************************************)

\* A served path carries no tombstone, whatever writer made it served: the sweep of
\* an upsert, or the clear of a stamp that lifts a suppression (dupe_stamps.go:
\* "serving and being tombstoned are mutually exclusive").
ServedHasNoTombstone == Tombs \cap Served = {}

\* Every path whose face to a client this step changes has a stamp past
\* everything a client can hold: on its row if it is served after the step, on a
\* tombstone or a new coverage start if it is not.
StampedChange ==
  \A p \in Paths :
    Wire(p) # Wire(p)' =>
      IF p \in Served'
      THEN \A x \in Stamps : indexed_at'[p] > x
      ELSE \/ \A x \in Stamps : deleted_at'[p] > x
           \/ \A x \in Stamps : coverage' > x

\* Whatever changes in what a path shows a client, the change is stamped past
\* everything any client can hold as its cursor (nextDeltaStampSQL).
ChangesAreStamped == [][StampedChange]_storeVars

\* No stamp is above every stamp after the step.
NoRewind == \A x \in Stamps : \E y \in Stamps' : x <= y

\* The watermark a client was given is never ahead of the store again, unless a
\* stale stamp erased a tombstone (libraryWatermark; the reset reads its stamp
\* before it deletes the tombstones for this).
WatermarkNeverRewinds == [][~erased' => NoRewind]_storeVars
=============================================================================
