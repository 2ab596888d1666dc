--------------------------- MODULE DeltaSyncProofs ---------------------------
(***************************************************************************)
(* The journal's properties, and that a delta client loses nothing, for    *)
(* every library, clock, page size, cap and interleaving with the writers. *)
(*                                                                         *)
(* StoreInv adds to the store's type and to ServedHasNoTombstone what a    *)
(* stamping pass may still assume of a row when it commits: that no other  *)
(* writer moved its suppression since the snapshot.  DeltaComplete speaks  *)
(* of a client at rest; SyncInv adds what the answer in flight holds after *)
(* each of its reads, and that no cursor is past the library.              *)
(***************************************************************************)
EXTENDS DeltaSync, TLAPS, FiniteSetTheorems

\* What a pass has decided of a row is still so.
PlanFresh ==
  \A p \in Paths :
    /\ stamps[p] # "none"             => p \notin Routed
    /\ p \in Rows /\ stamps[p] = "lift" => p \in suppressed
    /\ p \in Rows /\ stamps[p] \in {"keep", "hide"} => p \notin suppressed

StoreInv == StoreTypeOK /\ ServedHasNoTombstone /\ PlanFresh

\* A stamp is past every row, every tombstone and the coverage start
\* (nextDeltaStampSQL).
LEMMA StampIsPast ==
  ASSUME StoreTypeOK, NEW now \in Clock, NEW stamp \in NextDeltaStamp(now)
  PROVE  /\ stamp \in Nat
         /\ stamp > coverage
         /\ \A p \in Paths : stamp > indexed_at[p] /\ stamp > deleted_at[p]
         /\ \A x \in Stamps : stamp > x
<1>1. \A x \in Stamps : x \in Nat
  BY DEF Stamps, StoreTypeOK
<1>2. stamp \in Nat
  BY <1>1, ClockAssumption DEF NextDeltaStamp, Maxima
<1>3. \A x \in Stamps : stamp > x
  BY <1>1, <1>2 DEF NextDeltaStamp, Maxima
<1>4. coverage \in Stamps /\ \A p \in Paths : indexed_at[p] \in Stamps /\ deleted_at[p] \in Stamps
  BY DEF Stamps
<1> QED BY <1>2, <1>3, <1>4

\* What every writer that deletes rows does: D is journaled, or the journal is
\* restarted past it.
Deletes(D, stamp) ==
  /\ \/ JournalAndDelete(D, stamp) /\ D \subseteq Rows /\ UNCHANGED coverage
     \/ ResetCoverageAndDelete(D, stamp)
  /\ UNCHANGED <<stamps, erased>>

\* The four writers that delete rows are cases of Deletes (DeleteTracksBatch,
\* DeleteTracksByPrefix, IncrementMissingTracks, RecordFirstIndexedCarryAndWipe).
LEMMA DeletersDelete ==
  ASSUME NEW now \in Clock,
         \/ \E D \in SUBSET Paths : \/ DeleteTracksBatch(D, now)
                                    \/ DeleteTracksByPrefix(D, now)
                                    \/ IncrementMissingTracks(D, now)
         \/ WipeFilesystemTracks(now)
  PROVE  \E D \in SUBSET Paths, stamp \in NextDeltaStamp(now) : Deletes(D, stamp)
<1>1. ASSUME NEW D \in SUBSET Paths, DeleteTracksBatch(D, now)
      PROVE  \E E \in SUBSET Paths, stamp \in NextDeltaStamp(now) : Deletes(E, stamp)
  <2>1. PICK stamp \in NextDeltaStamp(now) : DeleteTracksBatch(D, now)!(stamp)
    BY <1>1 DEF DeleteTracksBatch
  <2>2. CASE MassDelete(Cardinality(D))
    BY <2>1, <2>2 DEF Deletes
  <2>3. CASE ~MassDelete(Cardinality(D))
    <3>1. Deletes(D \cap Rows, stamp)
      BY <2>1, <2>3 DEF Deletes
    <3> QED BY <3>1
  <2> QED BY <2>2, <2>3
<1>2. ASSUME NEW D \in SUBSET Paths, DeleteTracksByPrefix(D, now) \/ IncrementMissingTracks(D, now)
      PROVE  \E E \in SUBSET Paths, stamp \in NextDeltaStamp(now) : Deletes(E, stamp)
  BY <1>2 DEF DeleteTracksByPrefix, IncrementMissingTracks, Deletes
<1>3. ASSUME WipeFilesystemTracks(now)
      PROVE  \E E \in SUBSET Paths, stamp \in NextDeltaStamp(now) : Deletes(E, stamp)
  <2>1. Rows \ Routed \in SUBSET Paths
    BY DEF Rows
  <2> QED BY <1>3, <2>1 DEF WipeFilesystemTracks, Deletes
<1> QED BY <1>1, <1>2, <1>3

\* What a step of StoreNext is, with the writers that delete taken together.
LEMMA StoreStepCases ==
  ASSUME [StoreNext]_storeVars
  PROVE  \/ \E now \in Clock, batch \in Batches : UpsertTrackBatch(batch, now)
         \/ \E now \in Clock, p \in Paths, c \in Contents : MarkEnriched(p, c, now)
         \/ \E now \in Clock : \E D \in SUBSET Paths, stamp \in NextDeltaStamp(now) : Deletes(D, stamp)
         \/ \E now \in Clock : ApplyDupeStamps(now)
         \/ \E cutoff \in Clock : PruneDeletionJournal(cutoff)
         \/ \E plan \in [Paths -> StampKinds] : ElectDuplicates(plan)
         \/ AbandonDupeStamps
         \/ UNCHANGED storeVars
BY DeletersDelete DEF StoreNext

\* What an upsert of the paths B with one stamp does.
Upserts(batch, B, stamp) ==
  /\ batch \in [B -> Contents]
  /\ NoPass \/ B \subseteq Routed
  /\ track'      = [p \in Paths |-> IF p \in B THEN batch[p] ELSE track[p]]
  /\ indexed_at' = StampsOf(B, stamp, indexed_at)
  /\ deleted_at' = ClearServedTombstones((Rows \cup B) \ suppressed)
  /\ UNCHANGED <<suppressed, coverage, stamps, erased>>

\* An upsert has some rows to write and one stamp for them (UpsertTrackBatch).
LEMMA UpsertShape ==
  ASSUME NEW now \in Clock, NEW batch \in Batches, UpsertTrackBatch(batch, now)
  PROVE  \E stamp \in NextDeltaStamp(now), B \in (SUBSET Paths) \ {{}} : Upserts(batch, B, stamp)
<1>1. PICK stamp \in NextDeltaStamp(now) : UpsertTrackBatch(batch, now)!(stamp)
  BY DEF UpsertTrackBatch
<1>2. PICK B \in (SUBSET Paths) \ {{}} : batch \in [B -> Contents]
  BY DEF Batches
<1>3. DOMAIN batch = B
  BY <1>2
<1> QED BY <1>1, <1>2, <1>3 DEF Upserts

-----------------------------------------------------------------------------
\* The columns keep their type in every step (StoreTypeOK).
LEMMA StoreTypeStep ==
  ASSUME StoreTypeOK, [StoreNext]_storeVars
  PROVE  StoreTypeOK'
<1>1. ASSUME NEW now \in Clock, NEW batch \in Batches, UpsertTrackBatch(batch, now)
      PROVE  StoreTypeOK'
  BY <1>1, UpsertShape, StampIsPast, ContentsAssumption
     DEF Upserts, StoreTypeOK, StampsOf, ClearServedTombstones, Rows
<1>2. ASSUME NEW now \in Clock, NEW p \in Paths, NEW c \in Contents, MarkEnriched(p, c, now)
      PROVE  StoreTypeOK'
  BY <1>2, StampIsPast, ContentsAssumption DEF MarkEnriched, StoreTypeOK, Rows
<1>3. ASSUME NEW now \in Clock, NEW D \in SUBSET Paths, NEW stamp \in NextDeltaStamp(now),
             Deletes(D, stamp)
      PROVE  StoreTypeOK'
  BY <1>3, StampIsPast
     DEF Deletes, StoreTypeOK, JournalAndDelete, ResetCoverageAndDelete, StampsOf, Rows
<1>4. ASSUME NEW now \in Clock, ApplyDupeStamps(now)
      PROVE  StoreTypeOK'
  <2>1. PICK stamp \in NextDeltaStamp(now) : ApplyDupeStamps(now)!(stamp)
    BY <1>4 DEF ApplyDupeStamps
  <2>2. stamp \in Nat
    BY StampIsPast
  <2> QED
    BY <2>1, <2>2 DEF StoreTypeOK, StampsOf, NoStamps, StampKinds, Rows
<1>5. ASSUME NEW cutoff \in Clock, PruneDeletionJournal(cutoff)
      PROVE  StoreTypeOK'
  BY <1>5, ClockAssumption DEF PruneDeletionJournal, StoreTypeOK, StampsOf, Rows
<1>6. ASSUME NEW plan \in [Paths -> StampKinds], ElectDuplicates(plan)
      PROVE  StoreTypeOK'
  BY <1>6 DEF ElectDuplicates, StoreTypeOK, Rows
<1>7. ASSUME AbandonDupeStamps
      PROVE  StoreTypeOK'
  BY <1>7 DEF AbandonDupeStamps, StoreTypeOK, NoStamps, StampKinds, Rows
<1>8. ASSUME UNCHANGED storeVars
      PROVE  StoreTypeOK'
  BY <1>8 DEF storeVars, StoreTypeOK, Rows
<1> QED
  BY <1>1, <1>2, <1>3, <1>4, <1>5, <1>6, <1>7, <1>8, StoreStepCases

\* A served row stays without a tombstone (clearAllServedTombstonesSQL,
\* ApplyDupeStamps).
LEMMA ServedStep ==
  ASSUME StoreInv, [StoreNext]_storeVars
  PROVE  ServedHasNoTombstone'
<1> USE DEF StoreInv
<1>1. ASSUME NEW now \in Clock, NEW batch \in Batches, UpsertTrackBatch(batch, now)
      PROVE  ServedHasNoTombstone'
  BY <1>1, UpsertShape, ContentsAssumption
     DEF Upserts, ServedHasNoTombstone, StoreTypeOK, StampsOf, ClearServedTombstones, Served, Tombs, Rows
<1>2. ASSUME NEW now \in Clock, NEW p \in Paths, NEW c \in Contents, MarkEnriched(p, c, now)
      PROVE  ServedHasNoTombstone'
  BY <1>2, ContentsAssumption DEF MarkEnriched, ServedHasNoTombstone, StoreTypeOK, Served, Tombs, Rows
<1>3. ASSUME NEW now \in Clock, NEW D \in SUBSET Paths, NEW stamp \in NextDeltaStamp(now),
             Deletes(D, stamp)
      PROVE  ServedHasNoTombstone'
  BY <1>3 DEF Deletes, JournalAndDelete, ResetCoverageAndDelete, StampsOf,
              ServedHasNoTombstone, StoreTypeOK, Served, Tombs, Rows
<1>4. ASSUME NEW now \in Clock, ApplyDupeStamps(now)
      PROVE  ServedHasNoTombstone'
  <2>1. PICK stamp \in NextDeltaStamp(now) : ApplyDupeStamps(now)!(stamp)
    BY <1>4 DEF ApplyDupeStamps
  <2>2. SUFFICES ASSUME NEW p \in Paths, p \in Served'
                 PROVE  ~(deleted_at'[p] > 0)
    BY DEF ServedHasNoTombstone, Tombs
  <2>3. p \in Rows /\ ~(p \in Rows /\ stamps[p] = "hide")
    BY <2>1, <2>2 DEF Served, Rows
  <2>4. CASE stamps[p] \in {"keep", "lift"}
    BY <2>1, <2>3, <2>4 DEF StampsOf
  <2>5. CASE stamps[p] = "none"
    <3>1. p \in Served
      BY <2>1, <2>2, <2>3, <2>5 DEF Served, Rows
    <3>2. deleted_at'[p] = deleted_at[p]
      BY <2>1, <2>3, <2>5 DEF StampsOf
    <3> QED BY <3>1, <3>2 DEF ServedHasNoTombstone, Tombs
  <2> QED BY <2>3, <2>4, <2>5 DEF StoreTypeOK, StampKinds
<1>5. ASSUME NEW cutoff \in Clock, PruneDeletionJournal(cutoff)
      PROVE  ServedHasNoTombstone'
  BY <1>5 DEF PruneDeletionJournal, StampsOf, ServedHasNoTombstone, StoreTypeOK, Served, Tombs, Rows
<1>6. ASSUME NEW plan \in [Paths -> StampKinds], ElectDuplicates(plan)
      PROVE  ServedHasNoTombstone'
  BY <1>6 DEF ElectDuplicates, ServedHasNoTombstone, Served, Tombs, Rows
<1>7. ASSUME AbandonDupeStamps
      PROVE  ServedHasNoTombstone'
  BY <1>7 DEF AbandonDupeStamps, ServedHasNoTombstone, Served, Tombs, Rows
<1>8. ASSUME UNCHANGED storeVars
      PROVE  ServedHasNoTombstone'
  BY <1>8 DEF storeVars, ServedHasNoTombstone, Served, Tombs, Rows
<1> QED
  BY <1>1, <1>2, <1>3, <1>4, <1>5, <1>6, <1>7, <1>8, StoreStepCases

\* No writer moves the suppression of a row under a pass that has decided it
\* (UpsertTrackBatch leaves the dupe columns alone; ErrDupeRestampDeferred).
LEMMA PlanStep ==
  ASSUME StoreInv, [StoreNext]_storeVars
  PROVE  PlanFresh'
<1> USE DEF StoreInv
<1>1. ASSUME NEW now \in Clock, NEW batch \in Batches, UpsertTrackBatch(batch, now)
      PROVE  PlanFresh'
  BY <1>1, UpsertShape DEF Upserts, PlanFresh, NoPass, NoStamps, StoreTypeOK, Rows
<1>2. ASSUME NEW now \in Clock, NEW p \in Paths, NEW c \in Contents, MarkEnriched(p, c, now)
      PROVE  PlanFresh'
  BY <1>2, ContentsAssumption DEF MarkEnriched, PlanFresh, StoreTypeOK, Rows
<1>3. ASSUME NEW now \in Clock, NEW D \in SUBSET Paths, NEW stamp \in NextDeltaStamp(now),
             Deletes(D, stamp)
      PROVE  PlanFresh'
  BY <1>3 DEF Deletes, JournalAndDelete, ResetCoverageAndDelete, PlanFresh, StoreTypeOK, Rows
<1>4. ASSUME NEW now \in Clock, ApplyDupeStamps(now)
      PROVE  PlanFresh'
  BY <1>4 DEF ApplyDupeStamps, PlanFresh, NoStamps
<1>5. ASSUME NEW cutoff \in Clock, PruneDeletionJournal(cutoff)
      PROVE  PlanFresh'
  BY <1>5 DEF PruneDeletionJournal, PlanFresh, Rows
<1>6. ASSUME NEW plan \in [Paths -> StampKinds], ElectDuplicates(plan)
      PROVE  PlanFresh'
  BY <1>6 DEF ElectDuplicates, PlanFresh, Rows
<1>7. ASSUME AbandonDupeStamps
      PROVE  PlanFresh'
  BY <1>7 DEF AbandonDupeStamps, PlanFresh, NoStamps
<1>8. ASSUME UNCHANGED storeVars
      PROVE  PlanFresh'
  BY <1>8 DEF storeVars, PlanFresh, Rows
<1> QED
  BY <1>1, <1>2, <1>3, <1>4, <1>5, <1>6, <1>7, <1>8, StoreStepCases

\* StoreInv holds of an empty library, whose coverage starts at the migration.
LEMMA StoreInitInv ==
  ASSUME StoreInit
  PROVE  StoreInv
BY DEF StoreInit, StoreInv, StoreTypeOK, ServedHasNoTombstone, PlanFresh, NoStamps,
       StampKinds, Served, Tombs, Rows

\* StoreInv is inductive.
LEMMA StoreInvStep ==
  ASSUME StoreInv, [StoreNext]_storeVars
  PROVE  StoreInv'
<1>1. StoreTypeOK
  BY DEF StoreInv
<1>2. StoreTypeOK'
  BY <1>1, StoreTypeStep
<1> QED BY <1>2, ServedStep, PlanStep DEF StoreInv

\* Every reachable store satisfies StoreInv.
LEMMA StoreInvariant == StoreSpec => []StoreInv
<1>1. StoreInit => StoreInv
  BY StoreInitInv
<1>2. StoreInv /\ [StoreNext]_storeVars => StoreInv'
  BY StoreInvStep
<1> QED BY <1>1, <1>2, PTL DEF StoreSpec

\* The store's columns have their types, and only a row is ever suppressed
\* (migrations v31 and v41, the writers of DeletionJournal).
THEOREM StoreTypeCorrect == StoreSpec => []StoreTypeOK
<1>1. StoreInv => StoreTypeOK
  BY DEF StoreInv
<1> QED BY <1>1, StoreInvariant, PTL

\* No library, clock or interleaving with a stamping pass leaves a tombstone on a
\* served path (clearAllServedTombstonesSQL, ApplyDupeStamps).
THEOREM ServedUntombstoned == StoreSpec => []ServedHasNoTombstone
<1>1. StoreInv => ServedHasNoTombstone
  BY DEF StoreInv
<1> QED BY <1>1, StoreInvariant, PTL

-----------------------------------------------------------------------------
\* A change of what a client can see is stamped past every cursor: the shape of
\* nextDeltaStampSQL, and that a pass hides only a row that is served.
LEMMA ChangeStep ==
  ASSUME StoreInv, [StoreNext]_storeVars
  PROVE  StampedChange
<1> USE DEF StoreInv
<1> SUFFICES ASSUME NEW q \in Paths, Wire(q) # Wire(q)'
             PROVE  IF q \in Served'
                    THEN \A x \in Stamps : indexed_at'[q] > x
                    ELSE \/ \A x \in Stamps : deleted_at'[q] > x
                         \/ \A x \in Stamps : coverage' > x
  BY DEF StampedChange
<1> DEFINE Goal == IF q \in Served'
                   THEN \A x \in Stamps : indexed_at'[q] > x
                   ELSE \/ \A x \in Stamps : deleted_at'[q] > x
                        \/ \A x \in Stamps : coverage' > x
<1>1. ASSUME NEW now \in Clock, NEW batch \in Batches, UpsertTrackBatch(batch, now)
      PROVE  Goal
  <2>1. PICK stamp \in NextDeltaStamp(now), B \in (SUBSET Paths) \ {{}} :
             Upserts(batch, B, stamp)
    BY <1>1, UpsertShape
  <2>2. q \in B
    BY <2>1 DEF Upserts, Wire, Served, Rows
  <2>3. q \in Served'
    <3>1. track'[q] # None
      BY <2>1, <2>2, ContentsAssumption DEF Upserts
    <3> QED BY <2>1, <3>1 DEF Upserts, Wire, Served, Rows
  <2>4. indexed_at'[q] = stamp
    BY <2>1, <2>2 DEF Upserts, StampsOf
  <2> QED BY <2>3, <2>4, StampIsPast
<1>2. ASSUME NEW now \in Clock, NEW p \in Paths, NEW c \in Contents, MarkEnriched(p, c, now)
      PROVE  Goal
  <2>1. PICK stamp \in NextDeltaStamp(now) : MarkEnriched(p, c, now)!(stamp)
    BY <1>2 DEF MarkEnriched
  <2>2. q = p /\ q \in Served'
    BY <2>1, ContentsAssumption DEF Wire, Served, Rows, StoreTypeOK
  <2>3. indexed_at'[q] = stamp
    BY <2>1, <2>2 DEF StoreTypeOK
  <2> QED BY <2>2, <2>3, StampIsPast
<1>3. ASSUME NEW now \in Clock, NEW D \in SUBSET Paths, NEW stamp \in NextDeltaStamp(now),
             Deletes(D, stamp)
      PROVE  Goal
  <2>1. q \in D /\ q \notin Served'
    BY <1>3 DEF Deletes, JournalAndDelete, ResetCoverageAndDelete, Wire, Served, Rows, StoreTypeOK
  <2>2. deleted_at'[q] = stamp \/ coverage' = stamp
    BY <1>3, <2>1 DEF Deletes, JournalAndDelete, ResetCoverageAndDelete, StampsOf
  <2> QED BY <2>1, <2>2, StampIsPast
<1>4. ASSUME NEW now \in Clock, ApplyDupeStamps(now)
      PROVE  Goal
  <2>1. PICK stamp \in NextDeltaStamp(now) : ApplyDupeStamps(now)!(stamp)
    BY <1>4 DEF ApplyDupeStamps
  <2>2. q \in Rows /\ stamps[q] \in {"lift", "hide"}
    BY <2>1 DEF Wire, Served, Rows, StoreTypeOK, StampKinds
  <2>3. CASE stamps[q] = "lift"
    <3>1. q \in Served' /\ indexed_at'[q] = stamp
      BY <2>1, <2>2, <2>3 DEF Served, Rows, StampsOf
    <3> QED BY <3>1, StampIsPast
  <2>4. CASE stamps[q] = "hide"
    <3>1. q \notin Served' /\ deleted_at'[q] = stamp
      BY <2>1, <2>2, <2>4 DEF Served, Rows, StampsOf
    <3> QED BY <3>1, StampIsPast
  <2> QED BY <2>2, <2>3, <2>4
<1>5. ASSUME NEW cutoff \in Clock, PruneDeletionJournal(cutoff)
      PROVE  Goal
  BY <1>5 DEF PruneDeletionJournal, Wire, Served, Rows
<1>6. ASSUME NEW plan \in [Paths -> StampKinds], ElectDuplicates(plan)
      PROVE  Goal
  BY <1>6 DEF ElectDuplicates, Wire, Served, Rows
<1>7. ASSUME AbandonDupeStamps
      PROVE  Goal
  BY <1>7 DEF AbandonDupeStamps, Wire, Served, Rows
<1>8. ASSUME UNCHANGED storeVars
      PROVE  Goal
  BY <1>8 DEF storeVars, Wire, Served, Rows
<1> QED
  BY <1>1, <1>2, <1>3, <1>4, <1>5, <1>6, <1>7, <1>8, StoreStepCases

\* A stamp among the new ones is above every old one.
LEMMA StampedIsNoRewind ==
  ASSUME StoreTypeOK, NEW now \in Clock, NEW stamp \in NextDeltaStamp(now),
         \/ coverage' = stamp
         \/ \E p \in Paths : indexed_at'[p] = stamp \/ deleted_at'[p] = stamp
  PROVE  NoRewind
<1>1. stamp \in Stamps'
  BY DEF Stamps
<1>2. \A x \in Stamps : x \in Nat
  BY DEF Stamps, StoreTypeOK
<1> QED BY <1>1, <1>2, StampIsPast DEF NoRewind

\* A step that changes no stamp rewinds nothing.
LEMMA SameStampsNoRewind ==
  ASSUME StoreTypeOK, UNCHANGED <<indexed_at, deleted_at, coverage>>
  PROVE  NoRewind
<1>1. Stamps' = Stamps
  BY DEF Stamps
<1>2. \A x \in Stamps : x \in Nat
  BY DEF Stamps, StoreTypeOK
<1> QED BY <1>1, <1>2 DEF NoRewind

\* The watermark moves forward, but for a tombstone a stale stamp erased: a pass
\* that clears one otherwise clears a served row's, which has none.
LEMMA WatermarkStep ==
  ASSUME StoreInv, [StoreNext]_storeVars, ~erased'
  PROVE  NoRewind
<1> USE DEF StoreInv
<1>1. ASSUME NEW now \in Clock, NEW batch \in Batches, UpsertTrackBatch(batch, now)
      PROVE  NoRewind
  <2>1. PICK stamp \in NextDeltaStamp(now), B \in (SUBSET Paths) \ {{}} :
             Upserts(batch, B, stamp)
    BY <1>1, UpsertShape
  <2>2. PICK p \in B : p \in Paths
    BY <2>1
  <2>3. indexed_at'[p] = stamp
    BY <2>1, <2>2 DEF Upserts, StampsOf
  <2> QED BY <2>1, <2>2, <2>3, StampedIsNoRewind
<1>2. ASSUME NEW now \in Clock, NEW p \in Paths, NEW c \in Contents, MarkEnriched(p, c, now)
      PROVE  NoRewind
  <2>1. PICK stamp \in NextDeltaStamp(now) : indexed_at' = [indexed_at EXCEPT ![p] = stamp]
    BY <1>2 DEF MarkEnriched
  <2> QED BY <2>1, StampedIsNoRewind DEF StoreTypeOK
<1>3. ASSUME NEW now \in Clock, NEW D \in SUBSET Paths, NEW stamp \in NextDeltaStamp(now),
             Deletes(D, stamp)
      PROVE  NoRewind
  <2>1. CASE ResetCoverageAndDelete(D, stamp)
    BY <2>1, StampedIsNoRewind DEF ResetCoverageAndDelete
  <2>2. CASE D = {} /\ JournalAndDelete(D, stamp) /\ UNCHANGED coverage
    <3>1. UNCHANGED <<indexed_at, deleted_at>>
      BY <2>2 DEF JournalAndDelete, StampsOf, StoreTypeOK
    <3> QED BY <2>2, <3>1, SameStampsNoRewind
  <2>3. CASE D # {} /\ JournalAndDelete(D, stamp)
    <3>1. PICK p \in D : p \in Paths /\ deleted_at'[p] = stamp
      BY <2>3 DEF JournalAndDelete, StampsOf
    <3> QED BY <3>1, StampedIsNoRewind
  <2> QED BY <1>3, <2>1, <2>2, <2>3 DEF Deletes
<1>4. ASSUME NEW now \in Clock, ApplyDupeStamps(now)
      PROVE  NoRewind
  <2>1. PICK stamp \in NextDeltaStamp(now) : ApplyDupeStamps(now)!(stamp)
    BY <1>4 DEF ApplyDupeStamps
  <2>2. CASE \E p \in Rows : stamps[p] = "lift"
    <3>1. PICK p \in Paths : indexed_at'[p] = stamp
      BY <2>1, <2>2 DEF StampsOf, Rows
    <3> QED BY <3>1, StampedIsNoRewind
  <2>3. CASE \E p \in Rows : stamps[p] = "hide"
    <3>1. PICK p \in Paths : deleted_at'[p] = stamp
      BY <2>1, <2>3 DEF StampsOf, Rows
    <3> QED BY <3>1, StampedIsNoRewind
  <2>4. CASE \A p \in Rows : stamps[p] \notin {"lift", "hide"}
    <3>1. indexed_at' = indexed_at
      BY <2>1, <2>4 DEF StampsOf, StoreTypeOK
    <3>2. ASSUME NEW p \in Paths, stamps[p] \in {"keep", "lift"}
          PROVE  deleted_at[p] = 0
      <4>1. CASE p \in Rows
        <5>1. p \in Served
          BY <2>4, <3>2, <4>1 DEF PlanFresh, Served
        <5> QED BY <5>1 DEF ServedHasNoTombstone, Tombs, StoreTypeOK
      <4>2. CASE p \notin Rows
        <5>1. erased' = (erased \/ ({r \in Paths : stamps[r] \in {"keep", "lift"}} \cap Tombs) \ Rows # {})
          BY <2>1
        <5>2. p \notin Tombs
          BY <3>2, <4>2, <5>1, Zenon
        <5> QED BY <5>2 DEF Tombs, StoreTypeOK
      <4> QED BY <4>1, <4>2
    <3>3. deleted_at' = deleted_at
      BY <2>1, <2>4, <3>2 DEF StampsOf, StoreTypeOK
    <3> QED BY <2>1, <3>1, <3>3, SameStampsNoRewind
  <2> QED BY <2>2, <2>3, <2>4
<1>5. ASSUME NEW cutoff \in Clock, PruneDeletionJournal(cutoff)
      PROVE  NoRewind
  <2>1. cutoff \in Nat /\ coverage' \in Nat /\ coverage' >= cutoff /\ coverage' >= coverage
    BY <1>5, ClockAssumption DEF PruneDeletionJournal, StoreTypeOK
  <2>2. \A p \in Paths : deleted_at'[p] = deleted_at[p] \/ deleted_at[p] < cutoff
    BY <1>5 DEF PruneDeletionJournal, StampsOf, StoreTypeOK
  <2>3. SUFFICES ASSUME NEW x \in Stamps
                 PROVE  \E y \in Stamps' : x <= y
    BY DEF NoRewind
  <2>4. CASE \E p \in Paths : x = indexed_at[p]
    BY <1>5, <2>4 DEF PruneDeletionJournal, Stamps, StoreTypeOK
  <2>5. CASE x = coverage
    BY <2>1, <2>5 DEF Stamps
  <2>6. CASE \E p \in Paths : x = deleted_at[p]
    <3>1. PICK p \in Paths : x = deleted_at[p]
      BY <2>6
    <3>2. x \in Nat
      BY <3>1 DEF StoreTypeOK
    <3>3. CASE deleted_at'[p] = deleted_at[p]
      BY <3>1, <3>2, <3>3 DEF Stamps
    <3>4. CASE deleted_at[p] < cutoff
      BY <2>1, <3>1, <3>2, <3>4 DEF Stamps
    <3> QED BY <2>2, <3>3, <3>4
  <2> QED BY <2>4, <2>5, <2>6 DEF Stamps
<1>6. ASSUME NEW plan \in [Paths -> StampKinds], ElectDuplicates(plan)
      PROVE  NoRewind
  BY <1>6, SameStampsNoRewind DEF ElectDuplicates
<1>7. ASSUME AbandonDupeStamps
      PROVE  NoRewind
  BY <1>7, SameStampsNoRewind DEF AbandonDupeStamps
<1>8. ASSUME UNCHANGED storeVars
      PROVE  NoRewind
  BY <1>8, SameStampsNoRewind DEF storeVars
<1> QED
  BY <1>1, <1>2, <1>3, <1>4, <1>5, <1>6, <1>7, <1>8, StoreStepCases

\* No change of the served set is stamped where a client's cursor may already be
\* (nextDeltaStampSQL).
THEOREM ChangesStamped == StoreSpec => ChangesAreStamped
<1>1. StoreInv /\ [StoreNext]_storeVars => [StampedChange]_storeVars
  BY ChangeStep
<1> QED BY <1>1, StoreInvariant, PTL DEF StoreSpec, ChangesAreStamped

\* No client ever holds a watermark ahead of the store (libraryWatermark).
THEOREM WatermarkMonotone == StoreSpec => WatermarkNeverRewinds
<1>1. StoreInv /\ [StoreNext]_storeVars => [~erased' => NoRewind]_storeVars
  BY WatermarkStep
<1> QED BY <1>1, StoreInvariant, PTL DEF StoreSpec, WatermarkNeverRewinds

-----------------------------------------------------------------------------
(***************************************************************************)
(* The delta client                                                        *)
(***************************************************************************)
\* The tombstone list past s has p.
Removed(p, s) == p \notin Served /\ deleted_at[p] > s

\* The client has what p shows, or a later delta will bring it, or the tombstone
\* list of this answer will.
HeldOrDue(p) ==
  \/ Merged[p] = Wire(p)
  \/ Deliverable(p, nextSince)
  \/ received[p] = None /\ Removed(p, since)

\* No cursor is past what the library had at some instant.
CursorsKnown ==
  /\ \E x \in Stamps : since <= x
  /\ \E x \in Stamps : nextSince <= x

AnswerHolds ==
  /\ phase = "rows"     => since > 0
  /\ phase = "coverage" => \A p \in Paths : HeldOrDue(p) \/ since < coverage
  /\ phase = "deleted"  => \A p \in Paths : HeldOrDue(p)
  /\ phase = "page"     =>
       \A p \in Paths : IF p <= after
                        THEN received[p] = Wire(p) \/ Deliverable(p, nextSince)
                        ELSE received[p] = None

SyncInv ==
  /\ StoreInv
  /\ ClientTypeOK
  /\ ~erased /\ ~pruneRaced => CursorsKnown /\ AnswerHolds /\ DeltaComplete

-----------------------------------------------------------------------------
(***************************************************************************)
(* What one writer does to what a cursor s is owed                         *)
(***************************************************************************)

\* What a writer does to a tombstone, and that the coverage start only advances: a
\* tombstone goes when its path is served again, or with a coverage start past it.
LEMMA TombstoneMoves ==
  ASSUME StoreInv, [StoreNext]_storeVars, ~erased', NEW p \in Paths
  PROVE  /\ coverage' >= coverage
         /\ \/ deleted_at'[p] = deleted_at[p]
            \/ \A x \in Stamps : deleted_at'[p] > x
            \/ p \in Served'
            \/ deleted_at'[p] = 0 /\ coverage' > deleted_at[p]
<1> USE DEF StoreInv
<1> DEFINE Moves == \/ deleted_at'[p] = deleted_at[p]
                    \/ \A x \in Stamps : deleted_at'[p] > x
                    \/ p \in Served'
                    \/ deleted_at'[p] = 0 /\ coverage' > deleted_at[p]
<1>0. coverage \in Nat /\ deleted_at[p] \in Nat
  BY DEF StoreTypeOK
<1>1. ASSUME NEW now \in Clock, NEW batch \in Batches, UpsertTrackBatch(batch, now)
      PROVE  coverage' >= coverage /\ Moves
  <2>1. PICK stamp \in NextDeltaStamp(now), B \in (SUBSET Paths) \ {{}} : Upserts(batch, B, stamp)
    BY <1>1, UpsertShape
  <2>2. CASE p \in (Rows \cup B) \ suppressed
    BY <1>0, <2>1, <2>2, ContentsAssumption DEF Upserts, Served, Rows
  <2>3. CASE p \notin (Rows \cup B) \ suppressed
    BY <1>0, <2>1, <2>3 DEF Upserts, ClearServedTombstones, StampsOf
  <2> QED BY <2>2, <2>3
<1>2. ASSUME NEW now \in Clock, NEW q \in Paths, NEW c \in Contents, MarkEnriched(q, c, now)
      PROVE  coverage' >= coverage /\ Moves
  BY <1>0, <1>2 DEF MarkEnriched
<1>3. ASSUME NEW now \in Clock, NEW D \in SUBSET Paths, NEW stamp \in NextDeltaStamp(now),
             Deletes(D, stamp)
      PROVE  coverage' >= coverage /\ Moves
  <2>1. CASE ResetCoverageAndDelete(D, stamp)
    BY <1>0, <2>1, StampIsPast DEF ResetCoverageAndDelete
  <2>2. CASE JournalAndDelete(D, stamp) /\ UNCHANGED coverage
    BY <1>0, <2>2, StampIsPast DEF JournalAndDelete, StampsOf
  <2> QED BY <1>3, <2>1, <2>2 DEF Deletes
<1>4. ASSUME NEW now \in Clock, ApplyDupeStamps(now)
      PROVE  coverage' >= coverage /\ Moves
  <2>1. PICK stamp \in NextDeltaStamp(now) : ApplyDupeStamps(now)!(stamp)
    BY <1>4 DEF ApplyDupeStamps
  <2>2. CASE p \in Rows /\ stamps[p] = "hide"
    BY <1>0, <2>1, <2>2, StampIsPast DEF StampsOf
  <2>3. CASE p \in Rows /\ stamps[p] \in {"keep", "lift"}
    BY <1>0, <2>1, <2>3 DEF PlanFresh, Served, Rows
  <2>4. CASE p \notin Rows /\ stamps[p] \in {"keep", "lift"}
    <3>1. erased' = (erased \/ ({r \in Paths : stamps[r] \in {"keep", "lift"}} \cap Tombs) \ Rows # {})
      BY <2>1
    <3>2. p \notin Tombs
      BY <2>4, <3>1, Zenon
    <3>3. deleted_at'[p] = 0
      BY <2>1, <2>4 DEF StampsOf
    <3> QED BY <1>0, <2>1, <3>2, <3>3 DEF Tombs
  <2>5. CASE stamps[p] \notin {"keep", "lift"} /\ ~(p \in Rows /\ stamps[p] = "hide")
    BY <1>0, <2>1, <2>5 DEF StampsOf
  <2> QED BY <2>2, <2>3, <2>4, <2>5
<1>5. ASSUME NEW cutoff \in Clock, PruneDeletionJournal(cutoff)
      PROVE  coverage' >= coverage /\ Moves
  BY <1>0, <1>5, ClockAssumption DEF PruneDeletionJournal, StampsOf
<1>6. ASSUME NEW plan \in [Paths -> StampKinds], ElectDuplicates(plan)
      PROVE  coverage' >= coverage /\ Moves
  BY <1>0, <1>6 DEF ElectDuplicates
<1>7. ASSUME AbandonDupeStamps
      PROVE  coverage' >= coverage /\ Moves
  BY <1>0, <1>7 DEF AbandonDupeStamps
<1>8. ASSUME UNCHANGED storeVars
      PROVE  coverage' >= coverage /\ Moves
  BY <1>0, <1>8 DEF storeVars
<1> QED
  BY <1>1, <1>2, <1>3, <1>4, <1>5, <1>6, <1>7, <1>8, StoreStepCases

\* What a writer does to the stamp of a row that is still there after it.
LEMMA RowMoves ==
  ASSUME StoreInv, [StoreNext]_storeVars, NEW p \in Paths, p \in Rows'
  PROVE  indexed_at'[p] = indexed_at[p] \/ \A x \in Stamps : indexed_at'[p] > x
<1> USE DEF StoreInv
<1> DEFINE Moves == indexed_at'[p] = indexed_at[p] \/ \A x \in Stamps : indexed_at'[p] > x
<1>1. ASSUME NEW now \in Clock, NEW batch \in Batches, UpsertTrackBatch(batch, now)
      PROVE  Moves
  <2>1. PICK stamp \in NextDeltaStamp(now), B \in (SUBSET Paths) \ {{}} : Upserts(batch, B, stamp)
    BY <1>1, UpsertShape
  <2> QED BY <2>1, StampIsPast DEF Upserts, StampsOf
<1>2. ASSUME NEW now \in Clock, NEW q \in Paths, NEW c \in Contents, MarkEnriched(q, c, now)
      PROVE  Moves
  BY <1>2, StampIsPast DEF MarkEnriched, StoreTypeOK
<1>3. ASSUME NEW now \in Clock, NEW D \in SUBSET Paths, NEW stamp \in NextDeltaStamp(now),
             Deletes(D, stamp)
      PROVE  Moves
  BY <1>3 DEF Deletes, JournalAndDelete, ResetCoverageAndDelete, StampsOf, Rows
<1>4. ASSUME NEW now \in Clock, ApplyDupeStamps(now)
      PROVE  Moves
  BY <1>4, StampIsPast DEF ApplyDupeStamps, StampsOf
<1>5. ASSUME NEW cutoff \in Clock, PruneDeletionJournal(cutoff)
      PROVE  Moves
  BY <1>5 DEF PruneDeletionJournal
<1>6. ASSUME NEW plan \in [Paths -> StampKinds], ElectDuplicates(plan)
      PROVE  Moves
  BY <1>6 DEF ElectDuplicates
<1>7. ASSUME AbandonDupeStamps
      PROVE  Moves
  BY <1>7 DEF AbandonDupeStamps
<1>8. ASSUME UNCHANGED storeVars
      PROVE  Moves
  BY <1>8 DEF storeVars
<1> QED
  BY <1>1, <1>2, <1>3, <1>4, <1>5, <1>6, <1>7, <1>8, StoreStepCases

\* No step forgets that a stale stamp erased a tombstone.
LEMMA ErasedStays ==
  ASSUME StoreTypeOK, [StoreNext]_storeVars, ~erased'
  PROVE  ~erased
BY StoreStepCases, UpsertShape, Zenon
   DEF Upserts, MarkEnriched, Deletes, ApplyDupeStamps, PruneDeletionJournal, ElectDuplicates,
       AbandonDupeStamps, storeVars

\* A served path shows something, and what is not served shows nothing.
LEMMA WireOfServed ==
  ASSUME StoreTypeOK, NEW p \in Paths
  PROVE  p \in Served <=> Wire(p) # None
BY DEF Wire, Served, Rows

\* What a delta from s owes the client it still owes after a writer's step, and it
\* owes what the step changed.
LEMMA StillDeliverable ==
  ASSUME StoreInv, StoreInv', [StoreNext]_storeVars, ~erased', NEW p \in Paths,
         NEW s \in Nat, \E x \in Stamps : s <= x,
         Deliverable(p, s) \/ Wire(p) # Wire(p)'
  PROVE  Deliverable(p, s)'
<1>1. PICK x \in Stamps : s <= x /\ x \in Nat
  BY DEF Stamps, StoreInv, StoreTypeOK
<1>2. /\ coverage \in Nat /\ coverage' \in Nat
      /\ indexed_at[p] \in Nat /\ indexed_at'[p] \in Nat
      /\ deleted_at[p] \in Nat /\ deleted_at'[p] \in Nat
  BY DEF StoreInv, StoreTypeOK
<1>3. CASE Wire(p) # Wire(p)'
  <2>1. StampedChange
    BY ChangeStep
  <2>2. IF p \in Served' THEN indexed_at'[p] > x ELSE deleted_at'[p] > x \/ coverage' > x
    BY <1>1, <1>3, <2>1 DEF StampedChange
  <2> QED BY <1>1, <1>2, <2>2 DEF Deliverable
<1>4. CASE Wire(p) = Wire(p)' /\ Deliverable(p, s)
  <2>1. p \in Served <=> p \in Served'
    BY <1>4, WireOfServed, StoreTypeStep DEF StoreInv, Wire, Served, Rows
  <2>2. CASE s < coverage
    BY <1>2, <2>2, TombstoneMoves DEF Deliverable
  <2>3. CASE p \in Served /\ indexed_at[p] > s
    <3>1. p \in Rows'
      BY <2>1, <2>3 DEF Served
    <3>2. indexed_at'[p] = indexed_at[p] \/ indexed_at'[p] > x
      BY <1>1, <3>1, RowMoves
    <3> QED BY <1>1, <1>2, <2>1, <2>3, <3>2 DEF Deliverable
  <2>4. CASE p \notin Served /\ deleted_at[p] > s
    <3>1. \/ deleted_at'[p] = deleted_at[p]
          \/ deleted_at'[p] > x
          \/ coverage' > deleted_at[p]
      BY <1>1, <2>1, <2>4, TombstoneMoves
    <3> QED BY <1>1, <1>2, <2>1, <2>4, <3>1 DEF Deliverable
  <2> QED BY <1>4, <2>2, <2>3, <2>4 DEF Deliverable
<1> QED BY <1>3, <1>4

-----------------------------------------------------------------------------
\* The client's variables keep their types in every step (ClientTypeOK).
LEMMA ClientTypeStep ==
  ASSUME TypeOK, [Next]_vars
  PROVE  ClientTypeOK'
<1> USE DEF TypeOK, ClientTypeOK, Phases
<1>0. \A p \in Paths : track[p] \in Contents \cup {None}
  BY DEF StoreTypeOK
<1>1. CASE StoreStep
  BY <1>1 DEF StoreStep, clientVars, DropsNeededTombstone
<1>2. CASE ClientStep(SyncStart)
  <2>1. \A w \in LibraryWatermark : w \in Nat
    BY DEF LibraryWatermark, Maxima, Stamps, StoreTypeOK
  <2>2. nextSince' \in Nat
    BY <1>2, <2>1 DEF ClientStep, SyncStart
  <2> QED BY <1>2, <2>2 DEF ClientStep, SyncStart, Nothing
<1>3. CASE ClientStep(ReadRows)
  BY <1>0, <1>3 DEF ClientStep, ReadRows
<1>4. CASE ClientStep(ReadCoverage)
  BY <1>4 DEF ClientStep, ReadCoverage, Escalate, SyncEnd, Merged, Nothing
<1>5. CASE ClientStep(ReadDeleted)
  BY <1>5 DEF ClientStep, ReadDeleted, Escalate, SyncEnd, Merged, Nothing
<1>6. CASE ClientStep(ReadPage)
  <2>1. \A E \in SUBSET Paths : Listed(E) \in [Paths -> Contents \cup {None}]
    BY <1>0 DEF Listed
  <2>2. Rest \in SUBSET Paths /\ Page \in SUBSET Paths
    BY DEF Rest, Page, Served, Rows
  <2>3. \A m \in Maxima(Page) : m \in Nat
    BY <2>2, PathsAssumption DEF Maxima
  <2>4. CASE Cardinality(Rest) > PageLimit
    BY <1>6, <2>1, <2>2, <2>3, <2>4 DEF ClientStep, ReadPage
  <2>5. CASE ~(Cardinality(Rest) > PageLimit)
    BY <1>6, <2>1, <2>2, <2>5 DEF ClientStep, ReadPage, SyncEnd, Nothing
  <2> QED BY <2>4, <2>5
<1>7. CASE ClientStep(SyncLost)
  BY <1>7 DEF ClientStep, SyncLost, Nothing
<1>8. CASE UNCHANGED vars
  BY <1>8 DEF vars, clientVars
<1> QED
  BY <1>1, <1>2, <1>3, <1>4, <1>5, <1>6, <1>7, <1>8 DEF Next, ClientStep, ClientNext, Read

\* A step of the client is a stutter of the store.
LEMMA StepOfStore ==
  ASSUME [Next]_vars
  PROVE  [StoreNext]_storeVars
BY DEF Next, StoreStep, ClientStep, vars

\* What the client holds, and is owed, survives a writer's step: the writer stamps
\* what it changes past both cursors, and drops a tombstone only under a coverage
\* start, or a served row, that stands for it.
LEMMA StoreKeepsSync ==
  ASSUME SyncInv, StoreInv', [StoreNext]_storeVars, UNCHANGED clientVars,
         ~erased, ~pruneRaced, ~erased', ~DropsNeededTombstone
  PROVE  (CursorsKnown /\ AnswerHolds /\ DeltaComplete)'
<1>1. PICK n \in Nat, s \in Nat : /\ n = nextSince /\ n = nextSince'
                                  /\ s = since /\ s = since'
  BY DEF SyncInv, ClientTypeOK, clientVars
<1>2. (\E x \in Stamps : s <= x) /\ (\E x \in Stamps : n <= x)
  BY <1>1 DEF SyncInv, CursorsKnown
<1>3. ASSUME NEW p \in Paths, Deliverable(p, n) \/ Wire(p) # Wire(p)'
      PROVE  Deliverable(p, n)'
  BY <1>2, <1>3, StillDeliverable DEF SyncInv
<1>4. ASSUME NEW p \in Paths, Deliverable(p, s) \/ Wire(p) # Wire(p)'
      PROVE  Deliverable(p, s)'
  BY <1>2, <1>4, StillDeliverable DEF SyncInv
<1>5. CursorsKnown'
  <2>1. NoRewind
    BY WatermarkStep DEF SyncInv
  <2>2. \A x \in Stamps : x \in Nat
    BY DEF Stamps, SyncInv, StoreInv, StoreTypeOK
  <2>3. \A y \in Stamps' : y \in Nat
    BY DEF Stamps, StoreInv, StoreTypeOK
  <2> QED BY <1>1, <1>2, <2>1, <2>2, <2>3 DEF NoRewind, CursorsKnown
<1>6. DeltaComplete'
  <2>1. \A p \in Paths : library'[p] = library[p]
    BY DEF clientVars
  <2>2. since > 0 => \A p \in Paths : library[p] = Wire(p) \/ Deliverable(p, s)
    BY <1>1 DEF SyncInv, DeltaComplete
  <2>3. since > 0 => \A p \in Paths : library'[p] = Wire(p)' \/ Deliverable(p, s)'
    BY <1>4, <2>1, <2>2
  <2> QED BY <1>1, <2>3 DEF DeltaComplete
<1>7. AnswerHolds'
  <2>1. phase' = "rows" => since' > 0
    BY DEF SyncInv, AnswerHolds, clientVars
  <2>2. \A p \in Paths : Merged'[p] = Merged[p] /\ received'[p] = received[p]
    BY DEF Merged, clientVars
  <2>3. ASSUME NEW p \in Paths, HeldOrDue(p), ~Removed(p, s) \/ received[p] # None \/ Wire(p) # Wire(p)'
        PROVE  HeldOrDue(p)'
    BY <1>1, <1>3, <2>2, <2>3 DEF HeldOrDue
  <2>4. ASSUME NEW p \in Paths, Removed(p, s), Wire(p) = Wire(p)'
        PROVE  /\ Removed(p, s)' \/ s < coverage'
               /\ phase = "deleted" => Removed(p, s)' \/ n < coverage'
    <3>1. p \notin Served /\ p \notin Served'
      BY <2>4, WireOfServed, StoreTypeStep DEF Removed, SyncInv, StoreInv, Wire, Served, Rows
    <3>2. PICK x \in Stamps : s <= x /\ x \in Nat
      BY <1>2 DEF Stamps, SyncInv, StoreInv, StoreTypeOK
    <3>3. /\ coverage' \in Nat /\ deleted_at[p] \in Nat /\ deleted_at'[p] \in Nat
      BY DEF SyncInv, StoreInv, StoreTypeOK
    <3>4. CASE deleted_at'[p] = deleted_at[p] \/ deleted_at'[p] > x
      BY <2>4, <3>1, <3>2, <3>3, <3>4 DEF Removed
    <3>5. CASE deleted_at'[p] = 0 /\ coverage' > deleted_at[p]
      <4>1. s < coverage' /\ p \in Tombs
        BY <2>4, <3>3, <3>5 DEF Removed, Tombs
      <4>2. phase = "deleted" => ~(coverage' <= nextSince)
        BY <1>1, <2>4, <3>1, <3>5, <4>1 DEF DropsNeededTombstone, Removed
      <4> QED BY <1>1, <3>3, <4>1, <4>2
    <3> QED BY <3>1, <3>2, <3>4, <3>5, TombstoneMoves DEF SyncInv
  <2>5. ASSUME NEW p \in Paths, phase = "coverage", HeldOrDue(p) \/ since < coverage
        PROVE  (HeldOrDue(p) \/ since < coverage)'
    <3>1. CASE since < coverage
      <4>1. since \in Nat /\ coverage \in Nat /\ coverage' \in Nat /\ coverage' >= coverage
        BY TombstoneMoves DEF SyncInv, StoreInv, StoreTypeOK, ClientTypeOK
      <4> QED BY <1>1, <3>1, <4>1
    <3>2. CASE HeldOrDue(p) /\ Removed(p, s) /\ received[p] = None /\ Wire(p) = Wire(p)'
      BY <1>1, <2>2, <2>4, <3>2 DEF HeldOrDue
    <3> QED BY <2>3, <2>5, <3>1, <3>2
  <2>6. ASSUME NEW p \in Paths, phase = "deleted", HeldOrDue(p)
        PROVE  HeldOrDue(p)'
    <3>1. CASE Removed(p, s) /\ received[p] = None /\ Wire(p) = Wire(p)'
      <4>1. Removed(p, s)' \/ n < coverage'
        BY <2>4, <2>6, <3>1
      <4> QED BY <1>1, <2>2, <3>1, <4>1 DEF HeldOrDue, Deliverable
    <3> QED BY <2>3, <2>6, <3>1
  <2>7. ASSUME NEW p \in Paths, received[p] = Wire(p) \/ Deliverable(p, nextSince)
        PROVE  received'[p] = Wire(p)' \/ Deliverable(p, nextSince)'
    BY <1>1, <1>3, <2>2, <2>7
  <2>8. phase' = phase /\ after' = after
    BY DEF clientVars
  <2> QED BY <2>1, <2>2, <2>5, <2>6, <2>7, <2>8 DEF SyncInv, AnswerHolds
<1> QED BY <1>5, <1>6, <1>7

-----------------------------------------------------------------------------
(***************************************************************************)
(* What the client's own steps do                                          *)
(***************************************************************************)

\* A client's step leaves the library as it is.
LEMMA ClientLeavesStore ==
  ASSUME NEW p \in Paths, UNCHANGED storeVars
  PROVE  /\ Wire(p)' = Wire(p) /\ Stamps' = Stamps
         /\ Served' = Served /\ Tombs' = Tombs
BY DEF storeVars, Wire, Stamps, Served, Tombs, Rows

\* A page is the lower part of what is left to read: up to its last path it leaves
\* out no served path (listTracksPage).
LEMMA PageIsLowerPart ==
  ASSUME NEW m \in Maxima(Page), NEW p \in Paths, p \in Rest, p <= m
  PROVE  p \in Page
<1>1. Page \subseteq Rest /\ Rest \subseteq Paths /\ m \in Page
  BY DEF Page, Rest, Served, Rows, Maxima
<1>2. IsFiniteSet({q \in Rest : q < m})
  BY <1>1, PathsAssumption, FS_Subset
<1>3. {q \in Rest : q < p} \subseteq {q \in Rest : q < m}
  <2>1. m \in Nat /\ p \in Nat /\ \A q \in Rest : q \in Nat
    BY <1>1, PathsAssumption
  <2>2. \A q \in Rest : q < p => q < m
    BY <2>1
  <2> QED BY <2>2
<1>4. /\ Cardinality({q \in Rest : q < p}) <= Cardinality({q \in Rest : q < m})
      /\ IsFiniteSet({q \in Rest : q < p})
  BY <1>2, <1>3, FS_Subset
<1>5. Cardinality({q \in Rest : q < m}) \in Nat /\ Cardinality({q \in Rest : q < p}) \in Nat
  BY <1>2, <1>4, FS_CardinalityType
<1>6. Cardinality({q \in Rest : q < m}) < PageLimit
  BY <1>1 DEF Page
<1> QED BY <1>4, <1>5, <1>6, LimitsAssumption DEF Page

\* SyncStart: nothing received yet, and a cursor the library had.
LEMMA StartKeepsSync ==
  ASSUME SyncInv, ~erased, ~pruneRaced, ClientStep(SyncStart)
  PROVE  (CursorsKnown /\ AnswerHolds /\ DeltaComplete)'
<1>1. \A x \in Stamps : x \in Nat
  BY DEF Stamps, SyncInv, StoreInv, StoreTypeOK
<1>2. PICK w \in Stamps : nextSince' <= w
  BY DEF ClientStep, SyncStart, LibraryWatermark, Maxima
<1>3. Stamps' = Stamps
  BY DEF ClientStep, storeVars, Stamps
<1>4. CursorsKnown'
  BY <1>2, <1>3 DEF SyncInv, CursorsKnown, ClientStep, SyncStart
<1>5. DeltaComplete'
  BY ClientLeavesStore DEF SyncInv, DeltaComplete, Deliverable, ClientStep, SyncStart, storeVars
<1>6. AnswerHolds'
  <2>1. phase' = "rows" => since' > 0
    BY DEF ClientStep, SyncStart, SyncInv, ClientTypeOK
  <2>2. \A p \in Paths : p > after' /\ received'[p] = None
    BY PathsAssumption DEF ClientStep, SyncStart, Nothing
  <2>3. phase' \in {"rows", "page"}
    BY DEF ClientStep, SyncStart
  <2>4. \A p \in Paths : ~(p <= after')
    BY PathsAssumption DEF ClientStep, SyncStart
  <2> QED BY <2>1, <2>2, <2>3, <2>4 DEF AnswerHolds
<1> QED BY <1>4, <1>5, <1>6

\* ReadRows: a row past the cursor is received as it is served, and what the cursor
\* is owed beyond that is a removal.
LEMMA RowsKeepSync ==
  ASSUME SyncInv, ~erased, ~pruneRaced, ClientStep(ReadRows)
  PROVE  (CursorsKnown /\ AnswerHolds /\ DeltaComplete)'
<1>1. CursorsKnown'
  BY ClientLeavesStore DEF SyncInv, CursorsKnown, ClientStep, ReadRows, storeVars, Stamps
<1>2. DeltaComplete'
  BY ClientLeavesStore DEF SyncInv, DeltaComplete, Deliverable, ClientStep, ReadRows, storeVars
<1>3. AnswerHolds'
  <2>1. since > 0 /\ phase' = "coverage" /\ UNCHANGED <<since, coverage>>
    BY DEF SyncInv, AnswerHolds, ClientStep, ReadRows, storeVars
  <2>2. SUFFICES ASSUME NEW p \in Paths, ~(since < coverage)
                 PROVE  HeldOrDue(p)'
    BY <2>1 DEF AnswerHolds
  <2>3. library[p] = Wire(p) \/ Deliverable(p, since)
    BY <2>1 DEF SyncInv, DeltaComplete
  <2>4. received'[p] = IF p \in Served /\ indexed_at[p] > since THEN track[p] ELSE None
    BY DEF ClientStep, ReadRows
  <2>5. Merged'[p] = IF received'[p] # None THEN received'[p] ELSE library[p]
    BY DEF Merged, ClientStep, ReadRows
  <2>6. Wire(p)' = Wire(p) /\ Removed(p, since)' = Removed(p, since)
    BY <2>1, ClientLeavesStore DEF ClientStep, Removed, storeVars
  <2>7. CASE p \in Served /\ indexed_at[p] > since
    BY <2>4, <2>5, <2>6, <2>7 DEF Wire, Served, Rows, HeldOrDue
  <2>8. CASE ~(p \in Served /\ indexed_at[p] > since)
    <3>1. received'[p] = None /\ Merged'[p] = library[p]
      BY <2>4, <2>5, <2>8
    <3>2. library[p] = Wire(p) \/ Removed(p, since)
      BY <2>2, <2>3, <2>8 DEF Deliverable, Removed
    <3> QED BY <2>6, <3>1, <3>2 DEF HeldOrDue
  <2> QED BY <2>7, <2>8
<1> QED BY <1>1, <1>2, <1>3

\* The end of a sync leaves nothing in flight.
LEMMA SyncEndHolds ==
  ASSUME SyncEnd
  PROVE  AnswerHolds'
BY DEF SyncEnd, AnswerHolds

\* A cursor that goes back to none is no cursor past the library.
LEMMA EndKnowsCursors ==
  ASSUME SyncInv, ~erased, ~pruneRaced, UNCHANGED storeVars, SyncEnd,
         since' \in {0, since, nextSince}
  PROVE  CursorsKnown'
<1>1. coverage \in Stamps /\ 0 <= coverage /\ Stamps' = Stamps
  BY DEF Stamps, storeVars, SyncInv, StoreInv, StoreTypeOK
<1> QED BY <1>1 DEF SyncInv, CursorsKnown, SyncEnd

\* ReadCoverage: an answer that is covered owes no more than its tombstone list, and
\* one that is not leaves a client without a cursor.
LEMMA CoverageKeepsSync ==
  ASSUME SyncInv, ~erased, ~pruneRaced, ClientStep(ReadCoverage)
  PROVE  (CursorsKnown /\ AnswerHolds /\ DeltaComplete)'
<1>1. UNCHANGED storeVars /\ phase = "coverage"
  BY DEF ClientStep, ReadCoverage
<1>2. CASE DeltaSinceCovered
  <2>1. phase' = "deleted" /\ UNCHANGED <<since, nextSince, library, received, after>>
    BY <1>2 DEF ClientStep, ReadCoverage
  <2>2. CursorsKnown' /\ DeltaComplete'
    BY <1>1, <2>1, ClientLeavesStore DEF SyncInv, CursorsKnown, DeltaComplete, Deliverable, storeVars, Stamps
  <2>3. ~(since < coverage)
    BY <1>2 DEF DeltaSinceCovered, SyncInv, ClientTypeOK, StoreInv, StoreTypeOK
  <2>4. ASSUME NEW p \in Paths
        PROVE  HeldOrDue(p)'
    <3>1. HeldOrDue(p)
      BY <1>1, <2>3 DEF SyncInv, AnswerHolds
    <3>2. Merged' = Merged
      BY <2>1 DEF Merged
    <3> QED BY <1>1, <2>1, <3>1, <3>2, ClientLeavesStore DEF HeldOrDue, Deliverable, Removed, storeVars
  <2> QED BY <2>1, <2>2, <2>4 DEF AnswerHolds
<1>3. CASE ~DeltaSinceCovered
  <2>1. since' = 0 /\ SyncEnd
    BY <1>3 DEF ClientStep, ReadCoverage, Escalate
  <2> QED BY <1>1, <2>1, SyncEndHolds, EndKnowsCursors DEF DeltaComplete
<1> QED BY <1>2, <1>3

\* ReadDeleted: a removed path goes from the copy, or its row is one that a later
\* delta removes.
LEMMA DeletedKeepsSync ==
  ASSUME SyncInv, ~erased, ~pruneRaced, ClientStep(ReadDeleted)
  PROVE  (CursorsKnown /\ AnswerHolds /\ DeltaComplete)'
<1>1. UNCHANGED storeVars /\ phase = "deleted"
  BY DEF ClientStep, ReadDeleted
<1>2. CASE Cardinality(DeletedSince) > DeletedCap
  <2>1. since' = 0 /\ SyncEnd
    BY <1>2 DEF ClientStep, ReadDeleted, Escalate
  <2> QED BY <1>1, <2>1, SyncEndHolds, EndKnowsCursors DEF DeltaComplete
<1>3. CASE ~(Cardinality(DeletedSince) > DeletedCap)
  <2>1. PICK wins \in SUBSET {p \in DeletedSince : received[p] # None} :
             library' = [p \in Paths |-> IF p \in DeletedSince \ wins THEN None ELSE Merged[p]]
    BY <1>3 DEF ClientStep, ReadDeleted
  <2>2. since' = nextSince /\ SyncEnd
    BY <1>3 DEF ClientStep, ReadDeleted
  <2>3. ASSUME NEW p \in Paths
        PROVE  library'[p] = Wire(p) \/ Deliverable(p, nextSince)
    <3>1. HeldOrDue(p)
      BY <1>1 DEF SyncInv, AnswerHolds
    <3>2. CASE p \in DeletedSince \ wins
      BY <2>1, <3>2 DEF DeletedSince, Wire
    <3>3. CASE p \notin DeletedSince
      <4>1. ~Removed(p, since)
        BY <3>3 DEF Removed, DeletedSince, Tombs, SyncInv, ClientTypeOK, StoreInv, StoreTypeOK
      <4> QED BY <2>1, <3>1, <3>3, <4>1 DEF HeldOrDue
    <3>4. CASE p \in wins
      BY <2>1, <3>1, <3>4 DEF HeldOrDue
    <3> QED BY <3>2, <3>3, <3>4
  <2>4. DeltaComplete'
    BY <1>1, <2>2, <2>3, ClientLeavesStore DEF DeltaComplete, Deliverable, storeVars
  <2> QED BY <1>1, <2>2, <2>4, SyncEndHolds, EndKnowsCursors
<1> QED BY <1>2, <1>3

\* ReadPage: up to the cursor of the next page, the pages hold what is served, and
\* the last page holds the rest.
LEMMA PageKeepsSync ==
  ASSUME SyncInv, ~erased, ~pruneRaced, ClientStep(ReadPage)
  PROVE  (CursorsKnown /\ AnswerHolds /\ DeltaComplete)'
<1>1. UNCHANGED storeVars /\ phase = "page"
  BY DEF ClientStep, ReadPage
<1>2. \A p \in Paths : IF p <= after
                       THEN received[p] = Wire(p) \/ Deliverable(p, nextSince)
                       ELSE received[p] = None
  BY <1>1 DEF SyncInv, AnswerHolds
<1>3. after \in Int /\ \A p \in Paths : p \in Int
  BY PathsAssumption DEF SyncInv, ClientTypeOK
<1>4. \A p \in Rest : track[p] = Wire(p)
  BY DEF Rest, Wire
<1>5. \A p \in Paths : p \notin Rest /\ p > after => Wire(p) = None
  BY DEF Rest, Wire
<1>6. CASE Cardinality(Rest) > PageLimit
  <2>1. PICK m \in Maxima(Page) : after' = m
    BY <1>6 DEF ClientStep, ReadPage
  <2>2. received' = Listed(Page) /\ UNCHANGED <<phase, since, nextSince, library>>
    BY <1>6 DEF ClientStep, ReadPage
  <2>3. CursorsKnown' /\ DeltaComplete'
    BY <1>1, <2>2, ClientLeavesStore DEF SyncInv, CursorsKnown, DeltaComplete, Deliverable, storeVars, Stamps
  <2>4. m \in Page /\ Page \subseteq Rest /\ m \in Int /\ m > after
    BY <1>3 DEF Page, Rest, Maxima, Served, Rows
  <2>5. ASSUME NEW p \in Paths
        PROVE  IF p <= m
               THEN received'[p] = Wire(p) \/ Deliverable(p, nextSince)
               ELSE received'[p] = None
    <3>1. CASE p \in Page
      <4>1. p <= m
        BY <3>1 DEF Maxima
      <4> QED BY <1>4, <2>2, <2>4, <3>1, <4>1 DEF Listed
    <3>2. CASE p \notin Page /\ p <= m
      <4>1. p \notin Rest
        BY <3>2, PageIsLowerPart
      <4> QED BY <1>2, <1>3, <1>5, <2>2, <3>2, <4>1 DEF Listed
    <3>3. CASE p \notin Page /\ ~(p <= m)
      BY <1>2, <1>3, <2>2, <2>4, <3>3 DEF Listed
    <3> QED BY <3>1, <3>2, <3>3
  <2> QED BY <1>1, <2>1, <2>2, <2>3, <2>5, ClientLeavesStore DEF AnswerHolds, Deliverable, storeVars
<1>7. CASE ~(Cardinality(Rest) > PageLimit)
  <2>1. library' = Listed(Rest) /\ since' = nextSince /\ SyncEnd
    BY <1>7 DEF ClientStep, ReadPage
  <2>2. \A p \in Paths : library'[p] = Wire(p) \/ Deliverable(p, nextSince)
    BY <1>2, <1>3, <1>4, <1>5, <2>1 DEF Listed
  <2>3. DeltaComplete'
    BY <1>1, <2>1, <2>2, ClientLeavesStore DEF DeltaComplete, Deliverable, storeVars
  <2> QED BY <1>1, <2>1, <2>3, SyncEndHolds, EndKnowsCursors
<1> QED BY <1>6, <1>7

\* SyncLost: the client keeps its cursor and its copy.
LEMMA LostKeepsSync ==
  ASSUME SyncInv, ~erased, ~pruneRaced, ClientStep(SyncLost)
  PROVE  (CursorsKnown /\ AnswerHolds /\ DeltaComplete)'
<1>1. phase' = "idle" /\ UNCHANGED storeVars /\ UNCHANGED <<since, nextSince, library>>
  BY DEF ClientStep, SyncLost
<1>2. DeltaComplete'
  BY <1>1, ClientLeavesStore DEF SyncInv, DeltaComplete, Deliverable, storeVars
<1>3. AnswerHolds'
  BY <1>1 DEF AnswerHolds
<1>4. CursorsKnown'
  BY <1>1, ClientLeavesStore DEF SyncInv, CursorsKnown, Stamps, storeVars
<1> QED BY <1>2, <1>3, <1>4

-----------------------------------------------------------------------------
\* SyncInv holds of an empty library and a client that never synced.
LEMMA SyncInit ==
  ASSUME Init
  PROVE  SyncInv
<1>1. StoreInv
  BY StoreInitInv DEF Init
<1>2. ClientTypeOK
  BY DEF Init, ClientTypeOK, Phases, Nothing
<1>3. CursorsKnown
  BY DEF Init, StoreInit, CursorsKnown, Stamps
<1> QED BY <1>1, <1>2, <1>3 DEF Init, SyncInv, AnswerHolds, DeltaComplete

\* SyncInv is inductive.
LEMMA SyncStep ==
  ASSUME SyncInv, [Next]_vars
  PROVE  SyncInv'
<1>1. StoreInv'
  BY StepOfStore, StoreInvStep DEF SyncInv
<1>2. ClientTypeOK'
  BY ClientTypeStep DEF SyncInv, TypeOK, StoreInv
<1>3. ASSUME ~erased', ~pruneRaced'
      PROVE  (CursorsKnown /\ AnswerHolds /\ DeltaComplete)'
  <2>1. ~erased
    BY <1>3, StepOfStore, ErasedStays DEF SyncInv, StoreInv
  <2>2. CASE StoreStep
    <3>1. pruneRaced' = (pruneRaced \/ DropsNeededTombstone) /\ StoreNext /\ UNCHANGED clientVars
      BY <2>2 DEF StoreStep
    <3>2. ~pruneRaced /\ ~DropsNeededTombstone
      BY <1>3, <3>1, Zenon
    <3> QED BY <1>1, <1>3, <2>1, <3>1, <3>2, StoreKeepsSync
  <2>3. CASE ClientStep(ClientNext)
    <3>1. ~pruneRaced
      BY <1>3, <2>3 DEF ClientStep
    <3> QED
      BY <2>1, <2>3, <3>1, StartKeepsSync, RowsKeepSync, CoverageKeepsSync, DeletedKeepsSync,
         PageKeepsSync, LostKeepsSync DEF ClientStep, ClientNext, Read
  <2>4. CASE UNCHANGED vars
    <3>1. UNCHANGED storeVars /\ UNCHANGED clientVars /\ ~pruneRaced
      BY <1>3, <2>4 DEF vars
    <3>2. ~DropsNeededTombstone
      BY <3>1 DEF DropsNeededTombstone, storeVars, Tombs
    <3> QED BY <1>1, <1>3, <2>1, <3>1, <3>2, StoreKeepsSync
  <2> QED BY <2>2, <2>3, <2>4 DEF Next
<1> QED BY <1>1, <1>2, <1>3 DEF SyncInv

\* Every reachable state of the library and its client satisfies SyncInv.
LEMMA SyncInvariant == Spec => []SyncInv
<1>1. Init => SyncInv
  BY SyncInit
<1>2. SyncInv /\ [Next]_vars => SyncInv'
  BY SyncStep
<1> QED BY <1>1, <1>2, PTL DEF Spec

\* The store's and the client's variables have their types.
THEOREM TypeCorrect == Spec => []TypeOK
<1>1. SyncInv => TypeOK
  BY DEF SyncInv, StoreInv, TypeOK
<1> QED BY <1>1, SyncInvariant, PTL

\* A delta client never misses a change for good, however its reads, its pages, its
\* escalations and its lost answers interleave with the writers, in a library of any
\* size: but for the two interleavings the flags name (DeltaSinceCovered,
\* DeletedSince, nextDeltaStampSQL).
THEOREM NothingIsLost == Spec => []DeltaCompleteUnlessRaced
<1>1. SyncInv => DeltaCompleteUnlessRaced
  BY DEF SyncInv, DeltaCompleteUnlessRaced
<1> QED BY <1>1, SyncInvariant, PTL
=============================================================================
