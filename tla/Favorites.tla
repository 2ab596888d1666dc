------------------------------ MODULE Favorites ------------------------------
(***************************************************************************)
(* The favorites a bridge keeps for all paired devices: one document of    *)
(* live keys (tracks and albums alike) and of tombstones, under a revision.*)
(* A device of the revision protocol reads the document and sends back the *)
(* one it wants stored with the revision it read; a 2.1 device sends its   *)
(* own hearts, which are only ever added.  A save first collects the old   *)
(* tombstones, in a transaction of its own, then merges and writes, all    *)
(* under the store's mutex; a read takes no mutex.  Requests are retried   *)
(* when their answer is lost, the bridge may stop between any two          *)
(* transactions, and a backup may be restored under the devices.           *)
(***************************************************************************)
EXTENDS Integers, FiniteSets

CONSTANTS
  Keys,        \* what can be a favorite
  Revisioned,  \* devices that send baseRevision
  Legacy,      \* devices that do not (2.1)
  Hearts,      \* what each of those hearts, and sends whole with every save
  None,
  Cap,         \* maxFavoriteTracks: live keys and tombstones together
  Retention,   \* favoriteTombstoneRetention
  MaxTime, MaxRevision, MaxEpoch  \* bounds

Devices == Revisioned \cup Legacy

ASSUME FavoritesAssumption ==
  /\ Revisioned \cap Legacy = {} /\ None \notin Nat
  /\ IsFiniteSet(Keys) /\ Hearts \in [Legacy -> SUBSET Keys]
  /\ Cap \in Nat \ {0} /\ Retention \in Nat \ {0}
  /\ MaxTime \in Nat /\ MaxRevision \in Nat /\ MaxEpoch \in Nat

VARIABLES
  doc,      \* the stored document
  epoch,    \* backup_epoch: the history the document belongs to
  putAt,    \* favorite_sync_devices: legacy_put_at of each row, or None
  clock,    \* the bridge's clock
  saving,   \* the save that holds s.mu, past its collection, or None
  copy,     \* what each device of the protocol last read, and in which epoch
  backup,   \* the database file of the last backup
  owed,     \* history: when a key a 2.1 device hearts was removed, or None
  lastPut   \* history: the last save of a 2.1 device that still has its row

vars == <<doc, epoch, putAt, clock, saving, copy, backup, owed, lastPut>>

\* A key has a tombstone, with the time of its removal, or none.
Times      == 0..MaxTime
Documents  == [revision : Nat, live : SUBSET Keys, removedAt : [Keys -> Times \cup {None}]]
NoDocument == [revision |-> 0, live |-> {}, removedAt |-> [k \in Keys |-> None]]
Gone(d)    == {k \in Keys : d.removedAt[k] /= None}

Saves == [device : Devices, base : Nat \cup {None}, live : SUBSET Keys, gone : SUBSET Keys]

\* Every variable keeps its type.
TypeOK ==
  /\ doc \in Documents /\ epoch \in 0..MaxEpoch /\ clock \in Times
  /\ putAt \in [Legacy -> Times \cup {None}]
  /\ saving \in Saves \cup {None}
  /\ copy \in [Revisioned -> [doc : Documents, epoch : 0..MaxEpoch]]
  /\ backup \in [doc : Documents, putAt : [Legacy -> Times \cup {None}]]
  /\ owed \in [Legacy -> [Keys -> Times \cup {None}]]
  /\ lastPut \in [Legacy -> Times \cup {None}]

NothingOwed == [d \in Legacy |-> [k \in Keys |-> None]]

Init ==
  /\ doc = NoDocument /\ epoch = 0 /\ clock = 0
  /\ putAt = [d \in Legacy |-> None]
  /\ saving = None
  /\ copy = [d \in Revisioned |-> [doc |-> NoDocument, epoch |-> 0]]
  /\ backup = [doc |-> NoDocument, putAt |-> putAt]
  /\ owed = NothingOwed /\ lastPut = [d \in Legacy |-> None]

-----------------------------------------------------------------------------
\* The devices.
Read(d) ==
  /\ copy' = [copy EXCEPT ![d] = [doc |-> doc, epoch |-> epoch]]
  /\ UNCHANGED <<doc, epoch, putAt, clock, saving, backup, owed, lastPut>>

\* putFavorites refuses a body with a key both listed and removed, or with more
\* entries than the cap.
Acceptable(live, gone) == live \cap gone = {} /\ Cardinality(live) + Cardinality(gone) <= Cap

\* A request is made from the copy of its device, which stays as it is until the
\* answer: one that is delayed, lost or retried is another of the same copy.
\* A device lists as removed what its copy had live or removed.
Requests(d) ==
  IF d \in Legacy
  THEN {[device |-> d, base |-> None, live |-> Hearts[d], gone |-> {}]}
  ELSE [device : {d}, base : {copy[d].doc.revision}, live : SUBSET Keys,
        gone : SUBSET (Gone(copy[d].doc) \cup copy[d].doc.live)]

-----------------------------------------------------------------------------
\* SaveFavorites: the collection, which commits on its own.
\* A 2.1 device that has saved since the cutoff keeps every tombstone.
Pinned == \E d \in Legacy : putAt[d] /= None /\ putAt[d] > clock - Retention

Collectible == IF Pinned THEN {} ELSE {k \in Gone(doc) : doc.removedAt[k] <= clock - Retention}

Without(f, S) == [k \in Keys |-> IF k \in S THEN None ELSE f[k]]

\* Mutant: the collection leaves the revision.
CollectUnseen(d) ==
  /\ saving = None
  /\ saving' \in {r \in Requests(d) : Acceptable(r.live, r.gone)}
  /\ doc' = [doc EXCEPT !.removedAt = Without(@, Collectible)]
  /\ UNCHANGED <<epoch, putAt, clock, copy, backup, owed, lastPut>>

Collect(d) ==
  /\ saving = None
  /\ saving' \in {r \in Requests(d) : Acceptable(r.live, r.gone)}
  /\ doc' = IF Collectible = {} THEN doc
            ELSE [doc EXCEPT !.removedAt = Without(@, Collectible), !.revision = @ + 1]
  /\ UNCHANGED <<epoch, putAt, clock, copy, backup, owed, lastPut>>

\* Mutant: the merged document may fill the cap with live keys alone.
MergesToCap ==
  LET incoming == (saving.live \ Gone(doc)) \ doc.live
      full     == Cardinality(doc.live \cup incoming) > Cap
  IN {[doc EXCEPT !.live = @ \cup added] : added \in
        {S \in SUBSET incoming :
           IF full THEN Cardinality(doc.live \cup S) = Cap ELSE S = incoming}}

\* mergeLegacyFavorites: what is stored stays, and what is new fills the rest
\* of the cap in the order the body has it.
LegacyMerges ==
  LET room     == Cap - Cardinality(Gone(doc))
      incoming == (saving.live \ Gone(doc)) \ doc.live
      full     == Cardinality(doc.live \cup incoming) > room
  IN {[doc EXCEPT !.live = @ \cup added] : added \in
        {S \in SUBSET incoming :
           IF full THEN Cardinality(doc.live \cup S) = room ELSE S = incoming}}

\* mergeRevisionedFavorites: a tombstone stays as it was stored, is new where
\* its key was live, and is dropped where the key was neither.
RevisionedMerge ==
  [doc EXCEPT !.live = saving.live,
     !.removedAt = [k \in Keys |->
                      IF k \notin saving.gone THEN None
                      ELSE IF k \in doc.live \ Gone(doc) THEN clock ELSE doc.removedAt[k]]]

IsLegacy    == saving.base = None
Merges      == IF IsLegacy THEN LegacyMerges ELSE {RevisionedMerge}

\* Mutant: a body with the same favorites passes whatever it removes.
StaleByLive(next) == ~IsLegacy /\ saving.base /= doc.revision /\ next.live /= doc.live

Stale(next) == ~IsLegacy /\ saving.base /= doc.revision /\ next /= doc

\* The write moves the revision if it changes the document, or stores the first.
Written(next) ==
  IF next = doc /\ doc.revision > 0 THEN doc ELSE [next EXCEPT !.revision = doc.revision + 1]

\* Mutant: COALESCE with its arguments exchanged.
NoteFirst(times) ==
  IF IsLegacy /\ times[saving.device] = None THEN [times EXCEPT ![saving.device] = clock] ELSE times

\* Every legacy save is recorded, one that changes nothing too.
NoteDevice(times) == IF IsLegacy THEN [times EXCEPT ![saving.device] = clock] ELSE times

\* What a removal leaves for the 2.1 devices that heart the key.
Owe(next) ==
  IF IsLegacy THEN owed
  ELSE [e \in Legacy |-> [k \in Keys |->
          IF k \notin Gone(next) THEN None
          ELSE IF k \in doc.live /\ k \in Hearts[e] THEN clock ELSE owed[e][k]]]

\* The device learns the document from the answer, unless it is lost.
Answer(known) ==
  \/ UNCHANGED copy
  \/ /\ ~IsLegacy
     /\ copy' = [copy EXCEPT ![saving.device] = [doc |-> known, epoch |-> epoch]]

Save ==
  /\ saving /= None
  /\ \E next \in Merges :
       /\ ~Stale(next)
       /\ doc' = Written(next)
       /\ owed' = Owe(next)
  /\ putAt' = NoteDevice(putAt) /\ lastPut' = [d \in Legacy |-> IF saving.device = d THEN clock ELSE lastPut[d]]
  /\ Answer(doc')
  /\ saving' = None
  /\ UNCHANGED <<epoch, clock, backup>>

\* 409, with the stored document.
Refuse ==
  /\ saving /= None
  /\ \E next \in Merges : Stale(next)
  /\ Answer(doc)
  /\ saving' = None
  /\ UNCHANGED <<doc, epoch, putAt, clock, backup, owed, lastPut>>

-----------------------------------------------------------------------------
\* The registration sweeps delete the row of a device whose registration went:
\* any device, at any time between two saves.
Reap(d) ==
  /\ saving = None /\ putAt[d] /= None
  /\ putAt' = [putAt EXCEPT ![d] = None]
  /\ lastPut' = [lastPut EXCEPT ![d] = None]
  /\ UNCHANGED <<doc, epoch, clock, saving, copy, backup, owed>>

\* The bridge stops, between two transactions of a save perhaps.
Restart ==
  /\ saving /= None
  /\ saving' = None
  /\ UNCHANGED <<doc, epoch, putAt, clock, copy, backup, owed, lastPut>>

Backup ==
  /\ epoch < MaxEpoch /\ backup.doc = NoDocument
  /\ backup' = [doc |-> doc, putAt |-> putAt]
  /\ UNCHANGED <<doc, epoch, putAt, clock, saving, copy, owed, lastPut>>

\* bridge restore, with the bridge stopped: the file of the backup, and a new epoch.
Restore ==
  /\ epoch < MaxEpoch /\ saving = None
  /\ epoch' = epoch + 1 /\ doc' = backup.doc /\ putAt' = backup.putAt
  /\ owed' = NothingOwed /\ lastPut' = backup.putAt
  /\ UNCHANGED <<clock, saving, copy, backup>>

\* Time passes in units longer than any request.
Tick ==
  /\ clock < MaxTime /\ saving = None
  /\ clock' = clock + 1
  /\ UNCHANGED <<doc, epoch, putAt, saving, copy, backup, owed, lastPut>>

Next ==
  \/ \E d \in Revisioned : Read(d)
  \/ \E d \in Devices : Collect(d)
  \/ \E d \in Legacy : Reap(d)
  \/ Save \/ Refuse \/ Restart \/ Backup \/ Restore \/ Tick

Spec == Init /\ [][Next]_vars

\* Bound: no run beyond MaxRevision changes of the document.
WithinRevisions == doc.revision <= MaxRevision

-----------------------------------------------------------------------------
\* A device can always send the document back: no key both listed and removed,
\* and no more entries than a PUT may have, though a 2.1 device only ever adds.
Echoable == Acceptable(doc.live, Gone(doc))

\* The ETag tells the content: a device whose copy has the epoch and the
\* revision of the document has the document, tombstones included.
EtagIsHonest ==
  \A d \in Revisioned :
    copy[d].epoch = epoch /\ copy[d].doc.revision = doc.revision => copy[d].doc = doc

\* A 2.1 device does not bring back what another device removed, while the
\* removal is younger than the retention or the device has saved within it.
RemovalSurvivesLegacy ==
  [][\A d \in Legacy, k \in Keys :
       LET within(t) == t /= None /\ clock - t < Retention
       IN ~( /\ saving /= None /\ saving.device = d /\ k \in doc'.live \ doc.live /\ owed[d][k] /= None
             /\ within(owed[d][k]) \/ within(lastPut[d]) )]_vars

\* The bridge keeps what SharedFavorites promises.
Shared == INSTANCE SharedFavorites WITH
  Devices   <- Revisioned,
  live      <- doc.live,
  gone      <- Gone(doc),
  current   <- {d \in Revisioned : copy[d].epoch = epoch /\ copy[d].doc.revision = doc.revision},
  strangers <- {d \in Revisioned : copy[d].epoch /= epoch}

KeepsSharedFavorites == Shared!Spec
=============================================================================
