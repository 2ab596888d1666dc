---------------------------- MODULE FavoritesProofs ----------------------------
(***************************************************************************)
(* The favorites of a bridge, for any keys, devices, cap and retention:    *)
(* the document can always be sent back, its revision tells its content, a *)
(* removal survives the 2.1 devices, and the devices of the protocol see   *)
(* nothing but the steps of SharedFavorites.                               *)
(*                                                                         *)
(* The first two rest on what the save under way may be: a request that    *)
(* was acceptable, made from the copy of its device, which may have been   *)
(* read anew since.  The third rests on the cap: a key that was collected  *)
(* and not brought back leaves a 2.1 device that saves no room for it.     *)
(***************************************************************************)
EXTENDS Favorites, FiniteSetTheorems, TLAPS

\* A time that is past the retention, or none.
Old(t) == t # None => t <= clock - Retention

\* Everything a document may become is acceptable.
EchoInv ==
  /\ Acceptable(doc.live, Gone(doc))
  /\ Acceptable(backup.doc.live, Gone(backup.doc))
  /\ saving # None => Acceptable(saving.live, saving.gone)

\* The save under way, and what became of the copy it was made from.
SavingInv ==
  saving # None =>
    /\ IsLegacy => saving.device \in Legacy /\ saving.live = Hearts[saving.device]
    /\ ~IsLegacy =>
         /\ saving.device \in Revisioned
         /\ \/ copy[saving.device].epoch # epoch
            \/ copy[saving.device].doc.revision \in {saving.base, doc.revision}

\* No copy is ahead of the document, and a copy of its revision is the document.
CopyInv ==
  \A d \in Revisioned :
    /\ copy[d].epoch <= epoch
    /\ copy[d].epoch = epoch =>
         /\ copy[d].doc.revision <= doc.revision
         /\ copy[d].doc.revision = doc.revision => copy[d].doc = doc

\* A removal a 2.1 device could undo has its tombstone, or is past the retention with
\* that device's last save, or leaves that device no room.
OweInv ==
  \A d \in Legacy, k \in Keys :
    owed[d][k] # None =>
      /\ k \in Hearts[d]
      /\ k \in Gone(doc) => doc.removedAt[k] = owed[d][k]
      /\ k \notin Gone(doc) \cup doc.live =>
           /\ Old(owed[d][k])
           /\ Old(putAt[d]) \/ Cardinality(doc.live) + Cardinality(Gone(doc)) >= Cap

PutInv == lastPut = putAt

FavInv == TypeOK /\ EchoInv /\ SavingInv /\ CopyInv /\ OweInv /\ PutInv

-----------------------------------------------------------------------------
LEMMA Constants ==
  /\ Revisioned \cap Legacy = {} /\ None \notin Nat /\ None \notin Times
  /\ IsFiniteSet(Keys) /\ Hearts \in [Legacy -> SUBSET Keys]
  /\ Cap \in Nat /\ Retention \in Nat /\ Retention > 0 /\ MaxTime \in Nat /\ MaxEpoch \in Nat
  BY FavoritesAssumption DEF Times

\* A document is its three fields.
LEMMA DocFacts ==
  ASSUME NEW d \in Documents
  PROVE  /\ d.revision \in Nat /\ d.live \in SUBSET Keys
         /\ d.removedAt \in [Keys -> Times \cup {None}]
         /\ Gone(d) \in SUBSET Keys
  BY DEF Documents, Gone

LEMMA WithLive ==
  ASSUME NEW d \in Documents, NEW l \in SUBSET Keys
  PROVE  /\ [d EXCEPT !.live = l] \in Documents
         /\ [d EXCEPT !.live = l].live = l
         /\ [d EXCEPT !.live = l].removedAt = d.removedAt
         /\ [d EXCEPT !.live = l].revision = d.revision
         /\ Gone([d EXCEPT !.live = l]) = Gone(d)
  BY DEF Documents, Gone

LEMMA WithRevision ==
  ASSUME NEW d \in Documents, NEW n \in Nat
  PROVE  /\ [d EXCEPT !.revision = n] \in Documents
         /\ [d EXCEPT !.revision = n].live = d.live
         /\ [d EXCEPT !.revision = n].removedAt = d.removedAt
         /\ [d EXCEPT !.revision = n].revision = n
         /\ Gone([d EXCEPT !.revision = n]) = Gone(d)
  BY DEF Documents, Gone

LEMMA WithTombstones ==
  ASSUME NEW d \in Documents, NEW f \in [Keys -> Times \cup {None}]
  PROVE  /\ [d EXCEPT !.removedAt = f] \in Documents
         /\ [d EXCEPT !.removedAt = f].live = d.live
         /\ [d EXCEPT !.removedAt = f].removedAt = f
         /\ [d EXCEPT !.removedAt = f].revision = d.revision
         /\ Gone([d EXCEPT !.removedAt = f]) = {k \in Keys : f[k] # None}
  BY DEF Documents, Gone

\* Sets of keys are finite, and fewer keys count less.
LEMMA Counts ==
  ASSUME NEW S \in SUBSET Keys, NEW T \in SUBSET S
  PROVE  /\ Cardinality(S) \in Nat /\ Cardinality(T) \in Nat
         /\ Cardinality(T) <= Cardinality(S)
         /\ Cardinality(T) = Cardinality(S) => T = S
  BY Constants, FS_Subset, FS_CardinalityType

\* What is acceptable stays so with less.
LEMMA AcceptableLess ==
  ASSUME NEW l \in SUBSET Keys, NEW g \in SUBSET Keys, Acceptable(l, g),
         NEW m \in SUBSET l, NEW h \in SUBSET g
  PROVE  Acceptable(m, h)
<1>1. /\ Cardinality(l) \in Nat /\ Cardinality(m) \in Nat /\ Cardinality(m) <= Cardinality(l)
      /\ Cardinality(g) \in Nat /\ Cardinality(h) \in Nat /\ Cardinality(h) <= Cardinality(g)
  BY Counts
<1>2. m \cap h = {}
  BY DEF Acceptable
<1> QED BY <1>1, <1>2, Constants DEF Acceptable

-----------------------------------------------------------------------------
(***************************************************************************)
(* What a save may write                                                   *)
(***************************************************************************)
LEMMA SaveFacts ==
  ASSUME TypeOK, saving # None
  PROVE  /\ saving \in Saves /\ doc \in Documents /\ clock \in Times
         /\ saving.live \in SUBSET Keys /\ saving.gone \in SUBSET Keys
         /\ saving.device \in Devices /\ saving.base \in Nat \cup {None}
  BY DEF TypeOK, Saves

LEMMA LegacyFacts ==
  ASSUME TypeOK, EchoInv, saving # None, NEW next \in LegacyMerges
  PROVE  /\ next \in Documents /\ next.revision = doc.revision
         /\ next.removedAt = doc.removedAt /\ Gone(next) = Gone(doc)
         /\ doc.live \subseteq next.live /\ next.live \cap Gone(doc) = {}
         /\ next.live \subseteq doc.live \cup saving.live
         /\ Acceptable(next.live, Gone(next))
         /\ \/ saving.live \subseteq next.live \cup Gone(doc)
            \/ Cardinality(next.live) + Cardinality(Gone(doc)) = Cap
<1> DEFINE room     == Cap - Cardinality(Gone(doc))
           incoming == (saving.live \ Gone(doc)) \ doc.live
           full     == Cardinality(doc.live \cup incoming) > room
<1>1. doc \in Documents /\ saving.live \in SUBSET Keys
  BY SaveFacts
<1>2. doc.live \in SUBSET Keys /\ Gone(doc) \in SUBSET Keys
  BY <1>1, DocFacts
<1>3. PICK added \in SUBSET incoming :
        /\ next = [doc EXCEPT !.live = @ \cup added]
        /\ IF full THEN Cardinality(doc.live \cup added) = room ELSE added = incoming
  BY DEF LegacyMerges
<1>4. doc.live \cup added \in SUBSET Keys /\ doc.live \cup incoming \in SUBSET Keys
  BY <1>1, <1>2
<1>5. next = [doc EXCEPT !.live = doc.live \cup added]
  BY <1>3
<1>6. /\ next \in Documents /\ next.revision = doc.revision /\ next.live = doc.live \cup added
      /\ next.removedAt = doc.removedAt /\ Gone(next) = Gone(doc)
  BY <1>1, <1>4, <1>5, WithLive
<1>7. doc.live \cap Gone(doc) = {}
  BY DEF EchoInv, Acceptable
<1>8. /\ Cardinality(doc.live \cup added) \in Nat /\ Cardinality(Gone(doc)) \in Nat
      /\ Cardinality(doc.live \cup incoming) \in Nat
  BY <1>2, <1>4, Counts
<1>9. CASE full
  <2>1. Cardinality(next.live) + Cardinality(Gone(doc)) = Cap
    BY <1>3, <1>6, <1>8, <1>9, Constants
  <2> QED BY <1>6, <1>7, <2>1, Constants DEF Acceptable
<1>10. CASE ~full
  <2>1. next.live = doc.live \cup incoming
    BY <1>3, <1>6, <1>10
  <2>2. Cardinality(next.live) + Cardinality(Gone(doc)) <= Cap
    BY <1>8, <1>10, <2>1, Constants
  <2> QED BY <1>6, <1>7, <2>1, <2>2 DEF Acceptable
<1> QED BY <1>9, <1>10

LEMMA RevisionedFacts ==
  ASSUME TypeOK, EchoInv, saving # None, NEW next, next = RevisionedMerge
  PROVE  /\ next \in Documents /\ next.revision = doc.revision /\ next.live = saving.live
         /\ Gone(next) \subseteq saving.gone \cap (Gone(doc) \cup doc.live)
         /\ \A k \in Gone(next) :
              next.removedAt[k] = IF k \in doc.live \ Gone(doc) THEN clock ELSE doc.removedAt[k]
         /\ Acceptable(next.live, Gone(next))
<1> DEFINE f == [k \in Keys |-> IF k \notin saving.gone THEN None
                               ELSE IF k \in doc.live \ Gone(doc) THEN clock ELSE doc.removedAt[k]]
           d == [doc EXCEPT !.live = saving.live]
<1>1. /\ doc \in Documents /\ saving.live \in SUBSET Keys /\ saving.gone \in SUBSET Keys
      /\ clock \in Times
  BY SaveFacts
<1>2. doc.removedAt \in [Keys -> Times \cup {None}]
  BY <1>1, DocFacts
<1>3. f \in [Keys -> Times \cup {None}]
  BY <1>1, <1>2
<1>4. d \in Documents /\ d.live = saving.live /\ d.revision = doc.revision
  BY <1>1, WithLive
<1>5. next = [d EXCEPT !.removedAt = f]
  BY DEF RevisionedMerge
<1> HIDE DEF d, f
<1>6. /\ next \in Documents /\ next.live = saving.live /\ next.revision = doc.revision
      /\ next.removedAt = f /\ Gone(next) = {k \in Keys : f[k] # None}
  BY <1>3, <1>4, <1>5, WithTombstones
<1>7. Gone(next) \subseteq saving.gone \cap (Gone(doc) \cup doc.live)
  BY <1>6 DEF f, Gone
<1>8. \A k \in Gone(next) :
        next.removedAt[k] = IF k \in doc.live \ Gone(doc) THEN clock ELSE doc.removedAt[k]
  BY <1>6, <1>7 DEF f
<1>9. Acceptable(saving.live, Gone(next))
  <2>1. Gone(next) \subseteq saving.gone
    BY <1>7
  <2>2. Acceptable(saving.live, saving.gone)
    BY DEF EchoInv
  <2> QED BY <1>1, <2>1, <2>2, AcceptableLess
<1> QED BY <1>6, <1>7, <1>8, <1>9

LEMMA WrittenFacts ==
  ASSUME doc \in Documents, NEW next \in Documents, next.revision = doc.revision
  PROVE  /\ Written(next) \in Documents /\ Written(next).live = next.live
         /\ Written(next).removedAt = next.removedAt /\ Gone(Written(next)) = Gone(next)
         /\ \/ Written(next) = doc /\ next = doc
            \/ Written(next).revision = doc.revision + 1
<1>1. doc.revision \in Nat /\ doc.revision + 1 \in Nat
  BY DocFacts
<1>2. CASE next = doc /\ doc.revision > 0
  BY <1>2 DEF Written
<1>3. CASE ~(next = doc /\ doc.revision > 0)
  <2>1. Written(next) = [next EXCEPT !.revision = doc.revision + 1]
    BY <1>3 DEF Written
  <2> QED BY <1>1, <2>1, WithRevision
<1> QED BY <1>2, <1>3

\* The document a save leaves.
LEMMA MergeFacts ==
  ASSUME TypeOK, EchoInv, saving # None, NEW next \in Merges
  PROVE  /\ next \in Documents /\ next.revision = doc.revision
         /\ Acceptable(next.live, Gone(next))
         /\ Gone(next) \subseteq Gone(doc) \cup doc.live
  BY LegacyFacts, RevisionedFacts DEF Merges

LEMMA CollectFacts ==
  ASSUME TypeOK, NEW d \in Devices, Collect(d)
  PROVE  /\ doc' \in Documents /\ doc'.live = doc.live
         /\ Gone(doc') = Gone(doc) \ Collectible
         /\ \A k \in Gone(doc') : doc'.removedAt[k] = doc.removedAt[k]
         /\ \/ doc' = doc /\ Collectible = {}
            \/ Collectible # {} /\ doc'.revision = doc.revision + 1
<1>1. doc \in Documents /\ doc.revision \in Nat
      /\ doc.removedAt \in [Keys -> Times \cup {None}]
  BY DocFacts DEF TypeOK
<1>2. CASE Collectible = {}
  <2>1. doc' = doc
    BY <1>2 DEF Collect
  <2> QED BY <1>1, <1>2, <2>1
<1>3. CASE Collectible # {}
  <2> DEFINE f == Without(doc.removedAt, Collectible)
             e == [doc EXCEPT !.removedAt = f]
  <2>1. f \in [Keys -> Times \cup {None}]
    BY <1>1 DEF Without
  <2>2. doc' = [e EXCEPT !.revision = doc.revision + 1]
    BY <1>1, <1>3 DEF Collect, Documents
  <2>3. {k \in Keys : f[k] # None} = Gone(doc) \ Collectible
    BY DEF Without, Gone
  <2>4. \A k \in Gone(doc) \ Collectible : f[k] = doc.removedAt[k]
    BY DEF Without, Gone
  <2> HIDE DEF f
  <2>5. /\ e \in Documents /\ e.live = doc.live /\ e.removedAt = f
        /\ Gone(e) = Gone(doc) \ Collectible
    BY <1>1, <2>1, <2>3, WithTombstones
  <2> HIDE DEF e
  <2>6. /\ doc' \in Documents /\ doc'.live = e.live /\ doc'.removedAt = e.removedAt
        /\ doc'.revision = doc.revision + 1 /\ Gone(doc') = Gone(e)
    BY <1>1, <2>2, <2>5, WithRevision
  <2> QED BY <1>3, <2>4, <2>5, <2>6
<1> QED BY <1>2, <1>3

-----------------------------------------------------------------------------
(***************************************************************************)
(* Types                                                                   *)
(***************************************************************************)
LEMMA InitType == Init => TypeOK
<1>1. NoDocument \in Documents
  BY DEF NoDocument, Documents
<1>2. 0 \in Times /\ 0 \in 0..MaxEpoch
  BY Constants DEF Times
<1> QED BY <1>1, <1>2 DEF Init, TypeOK, NothingOwed

\* What the answer of a save leaves of the copies.
LEMMA AnswerFacts ==
  ASSUME TypeOK, SavingInv, saving # None, NEW known, Answer(known)
  PROVE  \/ copy' = copy
         \/ /\ ~IsLegacy /\ saving.device \in Revisioned
            /\ copy' = [copy EXCEPT ![saving.device] = [doc |-> known, epoch |-> epoch]]
  BY DEF Answer, SavingInv

LEMMA AnswerType ==
  ASSUME TypeOK, SavingInv, saving # None, NEW known \in Documents, Answer(known)
  PROVE  copy' \in [Revisioned -> [doc : Documents, epoch : 0..MaxEpoch]]
<1>1. copy \in [Revisioned -> [doc : Documents, epoch : 0..MaxEpoch]] /\ epoch \in 0..MaxEpoch
  BY DEF TypeOK
<1>2. [doc |-> known, epoch |-> epoch] \in [doc : Documents, epoch : 0..MaxEpoch]
  BY <1>1
<1> QED BY <1>1, <1>2, AnswerFacts

LEMMA RequestFacts ==
  ASSUME TypeOK, NEW d \in Devices, NEW r \in Requests(d)
  PROVE  /\ r \in Saves /\ r.device = d
         /\ d \in Legacy => r.base = None /\ r.live = Hearts[d]
         /\ d \notin Legacy => /\ d \in Revisioned /\ r.base # None
                              /\ r.base = copy[d].doc.revision
<1>1. CASE d \in Legacy
  BY <1>1, Constants DEF Requests, Saves
<1>2. CASE d \notin Legacy
  <2>1. d \in Revisioned
    BY <1>2 DEF Devices
  <2>2. copy[d].doc \in Documents
    BY <2>1 DEF TypeOK
  <2>3. /\ copy[d].doc.revision \in Nat /\ copy[d].doc.live \in SUBSET Keys
        /\ Gone(copy[d].doc) \in SUBSET Keys
    BY <2>2, DocFacts
  <2>4. r \in [device : {d}, base : {copy[d].doc.revision}, live : SUBSET Keys,
               gone : SUBSET (Gone(copy[d].doc) \cup copy[d].doc.live)]
    BY <1>2 DEF Requests
  <2> QED BY <1>2, <2>1, <2>3, <2>4, Constants DEF Saves
<1> QED BY <1>1, <1>2

LEMMA SaveType == ASSUME TypeOK, EchoInv, SavingInv, Save PROVE TypeOK'
<1>1. PICK next \in Merges : ~Stale(next) /\ doc' = Written(next) /\ owed' = Owe(next)
  BY DEF Save
<1>2. saving # None /\ doc \in Documents /\ clock \in Times
  BY SaveFacts DEF Save
<1>3. doc' \in Documents
  BY <1>1, <1>2, MergeFacts, WrittenFacts
<1>4. copy' \in [Revisioned -> [doc : Documents, epoch : 0..MaxEpoch]]
  BY <1>2, <1>3, AnswerType DEF Save
<1>5. owed' \in [Legacy -> [Keys -> Times \cup {None}]]
  BY <1>1, <1>2 DEF Owe, TypeOK
<1>6. putAt' \in [Legacy -> Times \cup {None}] /\ lastPut' \in [Legacy -> Times \cup {None}]
  BY <1>2 DEF Save, NoteDevice, TypeOK
<1> QED BY <1>3, <1>4, <1>5, <1>6 DEF Save, TypeOK

LEMMA NextType == ASSUME TypeOK, EchoInv, SavingInv, [Next]_vars PROVE TypeOK'
<1>1. ASSUME NEW d \in Revisioned, Read(d) PROVE TypeOK'
  BY <1>1 DEF Read, TypeOK
<1>2. ASSUME NEW d \in Devices, Collect(d) PROVE TypeOK'
  <2>1. doc' \in Documents
    BY <1>2, CollectFacts
  <2>2. saving' \in Saves
    BY <1>2, RequestFacts DEF Collect
  <2> QED BY <1>2, <2>1, <2>2 DEF Collect, TypeOK
<1>3. CASE Refuse
  <2>1. saving # None /\ doc \in Documents
    BY <1>3 DEF Refuse, TypeOK
  <2>2. copy' \in [Revisioned -> [doc : Documents, epoch : 0..MaxEpoch]]
    BY <1>3, <2>1, AnswerType DEF Refuse
  <2> QED BY <1>3, <2>2 DEF Refuse, TypeOK
<1>4. ASSUME NEW d \in Legacy, Reap(d) PROVE TypeOK'
  BY <1>4 DEF Reap, TypeOK
<1>5. CASE Restart
  BY <1>5 DEF Restart, TypeOK
<1>6. CASE Backup
  BY <1>6 DEF Backup, TypeOK
<1>7. CASE Restore
  <2>1. epoch' \in 0..MaxEpoch
    BY <1>7, Constants DEF Restore, TypeOK
  <2> QED BY <1>7, <2>1 DEF Restore, TypeOK, NothingOwed
<1>8. CASE Tick
  <2>1. clock' \in Times
    BY <1>8, Constants DEF Tick, TypeOK, Times
  <2> QED BY <1>8, <2>1 DEF Tick, TypeOK
<1>9. CASE UNCHANGED vars
  BY <1>9 DEF vars, TypeOK
<1> QED BY <1>1, <1>2, <1>3, <1>4, <1>5, <1>6, <1>7, <1>8, <1>9, SaveType DEF Next

-----------------------------------------------------------------------------
(***************************************************************************)
(* The document can be sent back                                           *)
(***************************************************************************)
LEMMA InitInv == Init => EchoInv /\ SavingInv /\ CopyInv /\ OweInv /\ PutInv
<1> SUFFICES ASSUME Init PROVE EchoInv /\ SavingInv /\ CopyInv /\ OweInv /\ PutInv
  OBVIOUS
<1>1. doc = NoDocument /\ doc.live = {} /\ Gone(doc) = {} /\ backup.doc = doc /\ saving = None
  BY DEF Init, NoDocument, Gone
<1>2. Cardinality({}) = 0
  BY FS_EmptySet
<1>3. EchoInv
  <2>1. Acceptable({}, {})
    BY <1>2, Constants DEF Acceptable
  <2> QED BY <1>1, <2>1 DEF EchoInv
<1>4. CopyInv
  <2>1. \A d \in Revisioned : copy[d].doc = doc /\ copy[d].epoch = 0
    BY DEF Init
  <2>2. epoch = 0 /\ doc.revision = 0
    BY DEF Init, NoDocument
  <2> QED BY <2>1, <2>2 DEF CopyInv
<1>5. OweInv
  BY DEF Init, OweInv, NothingOwed
<1> QED BY <1>1, <1>3, <1>4, <1>5 DEF SavingInv, PutInv, Init

LEMMA NextEcho == ASSUME TypeOK, EchoInv, [Next]_vars PROVE EchoInv'
<1>1. doc \in Documents /\ doc.live \in SUBSET Keys /\ Gone(doc) \in SUBSET Keys
  BY DocFacts DEF TypeOK
<1>2. Acceptable(doc.live, Gone(doc)) /\ Acceptable(backup.doc.live, Gone(backup.doc))
      /\ (saving # None => Acceptable(saving.live, saving.gone))
  BY DEF EchoInv
<1>3. ASSUME doc' = doc, backup' = backup, saving' = None \/ saving' = saving PROVE EchoInv'
  BY <1>2, <1>3 DEF EchoInv, Gone
<1>4. ASSUME NEW d \in Devices, Collect(d) PROVE EchoInv'
  <2>1. doc'.live = doc.live /\ Gone(doc') \subseteq Gone(doc) /\ backup' = backup
        /\ Acceptable(saving'.live, saving'.gone)
    BY <1>4, CollectFacts DEF Collect
  <2>2. Acceptable(doc'.live, Gone(doc'))
    BY <1>1, <1>2, <2>1, AcceptableLess
  <2> QED BY <1>2, <2>1, <2>2 DEF EchoInv, Gone
<1>5. CASE Save
  <2>1. PICK next \in Merges : doc' = Written(next) /\ saving' = None /\ backup' = backup
    BY <1>5 DEF Save
  <2>2. next \in Documents /\ next.revision = doc.revision /\ Acceptable(next.live, Gone(next))
    BY <1>5, MergeFacts DEF Save
  <2>3. doc'.live = next.live /\ Gone(doc') = Gone(next)
    BY <1>1, <2>1, <2>2, WrittenFacts
  <2> QED BY <1>2, <2>1, <2>2, <2>3 DEF EchoInv, Gone
<1>6. CASE Backup
  <2>1. backup'.doc = doc /\ doc' = doc /\ saving' = saving
    BY <1>6 DEF Backup
  <2> QED BY <1>2, <2>1 DEF EchoInv, Gone
<1>7. CASE Restore
  <2>1. doc' = backup.doc /\ backup' = backup /\ saving' = None
    BY <1>7 DEF Restore
  <2> QED BY <1>2, <2>1 DEF EchoInv, Gone
<1>8. CASE Refuse \/ Restart \/ Tick \/ UNCHANGED vars
           \/ (\E d \in Revisioned : Read(d)) \/ (\E d \in Legacy : Reap(d))
  BY <1>3, <1>8 DEF Refuse, Restart, Tick, Read, Reap, vars
<1> QED BY <1>4, <1>5, <1>6, <1>7, <1>8 DEF Next

LEMMA NextSaving == ASSUME TypeOK, SavingInv, [Next]_vars PROVE SavingInv'
<1>1. ASSUME NEW d \in Devices, Collect(d) PROVE SavingInv'
  <2>1. saving' \in Requests(d) /\ copy' = copy /\ epoch' = epoch
    BY <1>1 DEF Collect
  <2>2. /\ saving'.device = d
        /\ d \in Legacy => saving'.base = None /\ saving'.live = Hearts[d]
        /\ d \notin Legacy => d \in Revisioned /\ saving'.base # None
                              /\ saving'.base = copy[d].doc.revision
    BY <2>1, RequestFacts
  <2> QED BY <2>1, <2>2 DEF SavingInv, IsLegacy
<1>2. ASSUME NEW d \in Revisioned, Read(d) PROVE SavingInv'
  <2>1. /\ saving' = saving /\ doc' = doc /\ epoch' = epoch
        /\ copy' = [copy EXCEPT ![d] = [doc |-> doc, epoch |-> epoch]]
    BY <1>2 DEF Read
  <2>2. copy \in [Revisioned -> [doc : Documents, epoch : 0..MaxEpoch]]
    BY DEF TypeOK
  <2>3. \A e \in Revisioned : copy'[e] = copy[e] \/ copy'[e].doc.revision = doc.revision
    BY <2>1, <2>2
  <2> QED BY <2>1, <2>3 DEF SavingInv, IsLegacy
<1>3. CASE Save \/ Refuse \/ Restart
  BY <1>3 DEF Save, Refuse, Restart, SavingInv
<1>4. CASE Restore \/ Tick \/ (\E d \in Legacy : Reap(d))
  BY <1>4 DEF Restore, Tick, Reap, SavingInv
<1>5. CASE Backup \/ UNCHANGED vars
  BY <1>5 DEF Backup, vars, SavingInv, IsLegacy
<1> QED BY <1>1, <1>2, <1>3, <1>4, <1>5 DEF Next

LEMMA NextCopy == ASSUME TypeOK, EchoInv, SavingInv, CopyInv, [Next]_vars PROVE CopyInv'
<1>1. /\ copy \in [Revisioned -> [doc : Documents, epoch : 0..MaxEpoch]]
      /\ epoch \in 0..MaxEpoch /\ doc \in Documents /\ doc.revision \in Nat
  BY DocFacts DEF TypeOK
<1>2. \A d \in Revisioned : copy[d].epoch \in Nat /\ copy[d].doc.revision \in Nat
  <2>1. \A d \in Revisioned : copy[d].doc \in Documents /\ copy[d].epoch \in 0..MaxEpoch
    BY <1>1
  <2> QED BY <2>1, DocFacts, Constants
\* The document of the same revision is the same, and a copy is kept or is the document.
<1>3. ASSUME epoch' = epoch, doc' = doc \/ doc'.revision = doc.revision + 1,
             NEW d \in Revisioned, NEW known, known = doc',
             copy' = copy \/ copy' = [copy EXCEPT ![d] = [doc |-> known, epoch |-> epoch]]
      PROVE  CopyInv'
  <2>1. ASSUME NEW e \in Revisioned
        PROVE  /\ copy'[e].epoch <= epoch
               /\ copy'[e].epoch = epoch =>
                    /\ copy'[e].doc.revision <= doc'.revision
                    /\ copy'[e].doc.revision = doc'.revision => copy'[e].doc = doc'
    <3>1. doc'.revision \in Nat /\ doc'.revision >= doc.revision
      BY <1>1, <1>3
    <3>2. CASE copy'[e] = copy[e]
      BY <1>1, <1>2, <1>3, <3>1, <3>2 DEF CopyInv
    <3>3. CASE copy'[e] = [doc |-> doc', epoch |-> epoch]
      BY <1>1, <3>1, <3>3
    <3> QED BY <1>1, <1>3, <3>2, <3>3
  <2> QED BY <1>3, <2>1 DEF CopyInv
<1>4. ASSUME epoch' = epoch, doc' = doc \/ doc'.revision = doc.revision + 1, copy' = copy
      PROVE  CopyInv'
  <2>1. CASE Revisioned = {}
    BY <2>1 DEF CopyInv
  <2>2. CASE Revisioned # {}
    BY <1>3, <1>4, <2>2
  <2> QED BY <2>1, <2>2
<1>5. ASSUME NEW d \in Revisioned, Read(d) PROVE CopyInv'
  BY <1>3, <1>5 DEF Read
<1>6. ASSUME NEW d \in Devices, Collect(d) PROVE CopyInv'
  <2>1. doc' = doc \/ doc'.revision = doc.revision + 1
    BY <1>6, CollectFacts
  <2> QED BY <1>4, <1>6, <2>1 DEF Collect
<1>7. CASE Save
  <2>1. PICK next \in Merges : doc' = Written(next)
    BY <1>7 DEF Save
  <2>2. doc' = doc \/ doc'.revision = doc.revision + 1
    BY <1>1, <1>7, <2>1, MergeFacts, WrittenFacts DEF Save
  <2>3. Answer(doc') /\ epoch' = epoch /\ saving # None
    BY <1>7 DEF Save
  <2> QED BY <1>3, <1>4, <2>2, <2>3, AnswerFacts
<1>8. CASE Refuse
  <2>1. Answer(doc) /\ epoch' = epoch /\ saving # None /\ doc' = doc
    BY <1>8 DEF Refuse
  <2> QED BY <1>3, <1>4, <2>1, AnswerFacts
<1>9. CASE Restore
  <2>1. epoch' = epoch + 1 /\ copy' = copy
    BY <1>9 DEF Restore
  <2>2. \A d \in Revisioned : copy[d].epoch <= epoch
    BY DEF CopyInv
  <2>3. \A d \in Revisioned : copy'[d].epoch < epoch'
    BY <1>1, <1>2, <2>1, <2>2
  <2>4. epoch' \in Nat
    BY <1>1, <2>1
  <2> QED BY <1>2, <2>1, <2>3, <2>4 DEF CopyInv
<1>10. CASE Restart \/ Backup \/ Tick \/ UNCHANGED vars \/ (\E d \in Legacy : Reap(d))
  BY <1>4, <1>10 DEF Restart, Backup, Tick, vars, Reap
<1> QED BY <1>5, <1>6, <1>7, <1>8, <1>9, <1>10 DEF Next

-----------------------------------------------------------------------------
(***************************************************************************)
(* What is owed to a removal                                               *)
(***************************************************************************)
LEMMA NextPut == ASSUME TypeOK, SavingInv, PutInv, [Next]_vars PROVE PutInv'
<1>1. CASE Save
  <2>1. /\ putAt' = NoteDevice(putAt)
        /\ lastPut' = [d \in Legacy |-> IF saving.device = d THEN clock ELSE lastPut[d]]
    BY <1>1 DEF Save
  <2>2. putAt \in [Legacy -> Times \cup {None}] /\ lastPut = putAt
    BY DEF TypeOK, PutInv
  <2>3. IsLegacy <=> saving.device \in Legacy
    BY <1>1, Constants DEF Save, SavingInv
  <2>4. lastPut' = putAt'
    BY <2>1, <2>2, <2>3 DEF NoteDevice
  <2> QED BY <2>4 DEF PutInv
<1>2. CASE Restore
  BY <1>2 DEF Restore, PutInv
<1>3. ASSUME NEW d \in Legacy, Reap(d) PROVE PutInv'
  BY <1>3 DEF Reap, PutInv
<1>4. CASE Refuse \/ Restart \/ Backup \/ Tick \/ UNCHANGED vars
           \/ (\E d \in Revisioned : Read(d)) \/ (\E d \in Devices : Collect(d))
  BY <1>4 DEF Refuse, Restart, Backup, Tick, vars, Read, Collect, PutInv
<1> QED BY <1>1, <1>2, <1>3, <1>4 DEF Next

\* What is past the retention stays past it.
LEMMA OldFacts ==
  ASSUME TypeOK, clock' \in Int, clock' >= clock, NEW t \in Times \cup {None}, Old(t)
  PROVE  Old(t)'
<1>1. clock \in Int /\ (t # None => t \in Int)
  BY DEF TypeOK, Times
<1> QED BY <1>1, Constants DEF Old

LEMMA SaveOwes ==
  ASSUME TypeOK, EchoInv, SavingInv, OweInv, Save
  PROVE  OweInv'
<1>1. PICK next \in Merges : doc' = Written(next) /\ owed' = Owe(next)
  BY DEF Save
<1>2. /\ saving # None /\ doc \in Documents /\ clock \in Times /\ clock' = clock
      /\ putAt' = NoteDevice(putAt)
  BY SaveFacts DEF Save
<1>3. /\ next \in Documents /\ Gone(next) \subseteq Gone(doc) \cup doc.live
      /\ next.live \in SUBSET Keys /\ Gone(next) \in SUBSET Keys
  BY <1>1, <1>2, MergeFacts, DocFacts
<1>4. doc'.live = next.live /\ doc'.removedAt = next.removedAt /\ Gone(doc') = Gone(next)
  BY <1>1, <1>2, MergeFacts, WrittenFacts
<1>5. doc.live \cap Gone(doc) = {} /\ doc.live \in SUBSET Keys /\ Gone(doc) \in SUBSET Keys
  BY <1>2, DocFacts DEF EchoInv, Acceptable
<1>6. \A t : Old(t)' <=> Old(t)
  BY <1>2 DEF Old
<1> SUFFICES ASSUME NEW d \in Legacy, NEW k \in Keys, owed'[d][k] # None
             PROVE  /\ k \in Hearts[d]
                    /\ k \in Gone(next) => next.removedAt[k] = owed'[d][k]
                    /\ k \notin Gone(next) \cup next.live =>
                         /\ Old(owed'[d][k])
                         /\ \/ Old(putAt'[d])
                            \/ Cardinality(next.live) + Cardinality(Gone(next)) >= Cap
  BY <1>4, <1>6 DEF OweInv
<1>7. CASE IsLegacy
  <2>1. owed' = owed
    BY <1>1, <1>7 DEF Owe
  <2>2. /\ next.removedAt = doc.removedAt /\ Gone(next) = Gone(doc) /\ doc.live \subseteq next.live
        /\ \/ saving.live \subseteq next.live \cup Gone(doc)
           \/ Cardinality(next.live) + Cardinality(Gone(doc)) = Cap
    BY <1>1, <1>2, <1>7, LegacyFacts DEF Merges
  <2>3. /\ k \in Hearts[d] /\ (k \in Gone(doc) => doc.removedAt[k] = owed[d][k])
        /\ k \notin Gone(doc) \cup doc.live =>
             /\ Old(owed[d][k])
             /\ Old(putAt[d]) \/ Cardinality(doc.live) + Cardinality(Gone(doc)) >= Cap
    BY <2>1 DEF OweInv
  <2>4. ASSUME k \notin Gone(next) \cup next.live
        PROVE  \/ Old(putAt'[d])
               \/ Cardinality(next.live) + Cardinality(Gone(next)) >= Cap
    <3>1. CASE d = saving.device
      <4>1. saving.live = Hearts[d]
        BY <1>2, <1>7, <3>1 DEF SavingInv
      <4>2. Cardinality(next.live) + Cardinality(Gone(next)) = Cap
        BY <2>2, <2>3, <2>4, <4>1
      <4> QED BY <4>2, Constants
    <3>2. CASE d # saving.device
      <4>1. putAt'[d] = putAt[d]
        BY <1>2, <3>2 DEF NoteDevice, TypeOK
      <4>2. Cardinality(doc.live) \in Nat /\ Cardinality(next.live) \in Nat
            /\ Cardinality(Gone(doc)) \in Nat /\ Cardinality(doc.live) <= Cardinality(next.live)
        BY <1>3, <1>5, <2>2, Counts
      <4>3. Old(putAt[d]) \/ Cardinality(doc.live) + Cardinality(Gone(doc)) >= Cap
        BY <2>2, <2>3, <2>4
      <4> QED BY <2>2, <4>1, <4>2, <4>3, Constants
    <3> QED BY <3>1, <3>2
  <2> QED BY <2>1, <2>2, <2>3, <2>4
<1>8. CASE ~IsLegacy
  <2>1. owed'[d][k] = IF k \notin Gone(next) THEN None
                      ELSE IF k \in doc.live /\ k \in Hearts[d] THEN clock ELSE owed[d][k]
    BY <1>1, <1>8 DEF Owe
  <2>2. k \in Gone(next)
    BY <2>1
  <2>3. next.removedAt[k] = IF k \in doc.live \ Gone(doc) THEN clock ELSE doc.removedAt[k]
    BY <1>1, <1>2, <1>8, <2>2, RevisionedFacts DEF Merges
  <2>4. CASE k \in doc.live
    <3>1. k \in Hearts[d]
      BY <2>1, <2>2, <2>4 DEF OweInv
    <3> QED BY <1>5, <2>1, <2>2, <2>3, <2>4, <3>1
  <2>5. CASE k \notin doc.live
    <3>1. owed'[d][k] = owed[d][k] /\ k \in Gone(doc)
      BY <1>3, <2>1, <2>2, <2>5
    <3> QED BY <2>2, <2>3, <2>5, <3>1 DEF OweInv
  <2> QED BY <2>4, <2>5
<1> QED BY <1>7, <1>8

\* Nothing changes of the document, of what it owes and of the saves but that time
\* passes, or a registration goes.
LEMMA QuietOwes ==
  ASSUME TypeOK, OweInv, doc' = doc, owed' = owed, clock' \in Int, clock' >= clock,
         \A d \in Legacy : putAt'[d] \in {putAt[d], None}
  PROVE  OweInv'
<1>1. /\ putAt \in [Legacy -> Times \cup {None}]
      /\ owed \in [Legacy -> [Keys -> Times \cup {None}]]
  BY DEF TypeOK
<1> SUFFICES ASSUME NEW d \in Legacy, NEW k \in Keys, owed[d][k] # None
             PROVE  /\ k \in Hearts[d]
                    /\ k \in Gone(doc) => doc.removedAt[k] = owed[d][k]
                    /\ k \notin Gone(doc) \cup doc.live =>
                         /\ Old(owed[d][k])'
                         /\ \/ Old(putAt[d])'
                            \/ Cardinality(doc.live) + Cardinality(Gone(doc)) >= Cap
  BY DEF OweInv, Gone
<1>2. owed[d][k] \in Times \cup {None} /\ putAt[d] \in Times \cup {None}
  BY <1>1
<1>3. Old(owed[d][k]) => Old(owed[d][k])'
  <2>1. owed'[d][k] = owed[d][k]
    OBVIOUS
  <2> QED BY <1>2, <2>1, OldFacts DEF Old
<1>4. Old(putAt[d]) => Old(putAt[d])'
  BY <1>2, OldFacts DEF Old
<1> QED BY <1>3, <1>4 DEF OweInv

LEMMA CollectOwes ==
  ASSUME TypeOK, EchoInv, OweInv, NEW e \in Devices, Collect(e)
  PROVE  OweInv'
<1>1. /\ clock' = clock /\ putAt' = putAt /\ owed' = owed
  BY DEF Collect
<1>2. /\ doc'.live = doc.live /\ Gone(doc') = Gone(doc) \ Collectible
      /\ \A k \in Gone(doc') : doc'.removedAt[k] = doc.removedAt[k]
  BY CollectFacts
<1>3. \A t : Old(t)' <=> Old(t)
  BY <1>1 DEF Old
<1>4. putAt \in [Legacy -> Times \cup {None}] /\ clock \in Int
  BY DEF TypeOK, Times
<1> SUFFICES ASSUME NEW d \in Legacy, NEW k \in Keys, owed[d][k] # None
             PROVE  /\ k \in Hearts[d]
                    /\ k \in Gone(doc') => doc'.removedAt[k] = owed[d][k]
                    /\ k \notin Gone(doc') \cup doc.live =>
                         /\ Old(owed[d][k])
                         /\ \/ Old(putAt[d])
                            \/ Cardinality(doc.live) + Cardinality(Gone(doc')) >= Cap
  BY <1>1, <1>2, <1>3 DEF OweInv, Gone
<1>5. /\ k \in Hearts[d] /\ (k \in Gone(doc) => doc.removedAt[k] = owed[d][k])
      /\ k \notin Gone(doc) \cup doc.live =>
           /\ Old(owed[d][k])
           /\ Old(putAt[d]) \/ Cardinality(doc.live) + Cardinality(Gone(doc)) >= Cap
  BY DEF OweInv
<1>6. CASE Collectible = {}
  BY <1>2, <1>5, <1>6
<1>7. CASE Collectible # {}
  <2>1. ~Pinned /\ \A j \in Collectible : doc.removedAt[j] <= clock - Retention
    BY <1>7 DEF Collectible
  <2>2. Old(putAt[d])
    <3>1. putAt[d] # None => putAt[d] \in Int
      BY <1>4 DEF Times
    <3> QED BY <1>4, <2>1, <3>1, Constants DEF Pinned, Old
  <2>3. k \notin Gone(doc') \cup doc.live => Old(owed[d][k])
    BY <1>2, <1>5, <2>1 DEF Old, Collectible
  <2> QED BY <1>2, <1>5, <2>2, <2>3
<1> QED BY <1>6, <1>7

LEMMA NextOwes == ASSUME TypeOK, EchoInv, SavingInv, OweInv, [Next]_vars PROVE OweInv'
<1>1. clock \in Int
  BY DEF TypeOK, Times
<1>2. CASE Restore
  BY <1>2 DEF Restore, OweInv, NothingOwed
<1>3. CASE Tick
  BY <1>1, <1>3, QuietOwes DEF Tick
<1>4. ASSUME NEW d \in Legacy, Reap(d) PROVE OweInv'
  <2>1. /\ doc' = doc /\ owed' = owed /\ clock' = clock
        /\ putAt' = [putAt EXCEPT ![d] = None] /\ putAt \in [Legacy -> Times \cup {None}]
    BY <1>4 DEF Reap, TypeOK
  <2>2. \A e \in Legacy : putAt'[e] \in {putAt[e], None}
    BY <2>1
  <2> QED BY <1>1, <2>1, <2>2, QuietOwes
<1>5. CASE Refuse \/ Restart \/ Backup \/ UNCHANGED vars \/ (\E d \in Revisioned : Read(d))
  <2>1. doc' = doc /\ owed' = owed /\ clock' = clock /\ putAt' = putAt
    BY <1>5 DEF Refuse, Restart, Backup, vars, Read
  <2> QED BY <1>1, <2>1, QuietOwes
<1> QED BY <1>2, <1>3, <1>4, <1>5, SaveOwes, CollectOwes DEF Next

-----------------------------------------------------------------------------
LEMMA Invariance == Spec => []FavInv
<1>1. Init => FavInv
  BY InitType, InitInv DEF FavInv
<1>2. FavInv /\ [Next]_vars => FavInv'
  BY NextType, NextEcho, NextSaving, NextCopy, NextOwes, NextPut DEF FavInv
<1> QED BY <1>1, <1>2, PTL DEF Spec

\* Type correctness, for any keys, devices and bounds.
THEOREM FavoritesType == Spec => []TypeOK
<1>1. FavInv => TypeOK
  BY DEF FavInv
<1> QED BY <1>1, Invariance, PTL

\* A device can always send the document back (favorites_rev.go: live keys and
\* tombstones share the cap), whichever devices save and whatever is restored.
THEOREM DocumentIsEchoable == Spec => []Echoable
<1>1. FavInv => Echoable
  BY DEF FavInv, EchoInv, Echoable
<1> QED BY <1>1, Invariance, PTL

\* Epoch and revision tell the content of the document, tombstones included
\* (api.go's ETag of the favorites).
THEOREM RevisionTellsContent == Spec => []EtagIsHonest
<1>1. FavInv => EtagIsHonest
  BY DEF FavInv, CopyInv, EtagIsHonest
<1> QED BY <1>1, Invariance, PTL

\* Only a save of its own 2.1 device adds a key of a removal, and then it is past the
\* retention, with that device's last save.
LEMMA NoRevival ==
  ASSUME FavInv, Save, NEW d \in Legacy, NEW k \in Keys,
         saving.device = d, k \in doc'.live \ doc.live, owed[d][k] # None
  PROVE  Old(owed[d][k]) /\ Old(putAt[d])
<1>1. PICK next \in Merges : doc' = Written(next)
  BY DEF Save
<1>2. /\ TypeOK /\ EchoInv /\ SavingInv /\ OweInv /\ saving # None /\ doc \in Documents
      /\ IsLegacy
  BY Constants, SaveFacts DEF FavInv, Save, SavingInv
<1>3. /\ next \in Documents /\ next.revision = doc.revision /\ Gone(next) = Gone(doc)
      /\ doc.live \subseteq next.live /\ next.live \cap Gone(doc) = {}
      /\ Acceptable(next.live, Gone(next))
  BY <1>1, <1>2, LegacyFacts DEF Merges
<1>4. doc'.live = next.live
  BY <1>1, <1>2, <1>3, WrittenFacts
<1>5. k \notin Gone(doc) \cup doc.live
  BY <1>3, <1>4
<1>6. Old(owed[d][k]) /\ (Old(putAt[d]) \/ Cardinality(doc.live) + Cardinality(Gone(doc)) >= Cap)
  BY <1>2, <1>5 DEF OweInv
<1>7. ASSUME Cardinality(doc.live) + Cardinality(Gone(doc)) >= Cap PROVE FALSE
  <2>1. next.live \in SUBSET Keys /\ Gone(doc) \in SUBSET Keys
    BY <1>2, <1>3, DocFacts
  <2>2. /\ Cardinality(next.live) \in Nat /\ Cardinality(doc.live) \in Nat
        /\ Cardinality(Gone(doc)) \in Nat /\ Cardinality(doc.live) <= Cardinality(next.live)
        /\ Cardinality(doc.live) = Cardinality(next.live) => doc.live = next.live
    BY <1>3, <2>1, Counts
  <2>3. Cardinality(next.live) + Cardinality(Gone(doc)) <= Cap
    BY <1>3 DEF Acceptable
  <2>4. doc.live = next.live
    BY <1>7, <2>2, <2>3, Constants
  <2> QED BY <1>4, <2>4
<1> QED BY <1>6, <1>7

\* A 2.1 device does not bring back what was removed, while the removal or its own last
\* save is within the retention (favorites_rev.go: a tombstone is kept that long).
THEOREM RemovalsSurvive == Spec => RemovalSurvivesLegacy
<1> DEFINE within(t) == t /= None /\ clock - t < Retention
<1>1. ASSUME FavInv, [Next]_vars, NEW d \in Legacy, NEW k \in Keys,
             saving # None, saving.device = d, k \in doc'.live \ doc.live, owed[d][k] # None
      PROVE  ~within(owed[d][k]) /\ ~within(lastPut[d])
  <2>1. doc'.live # doc.live /\ saving # None
    BY <1>1
  <2>2. TypeOK /\ lastPut = putAt /\ clock \in Int
        /\ putAt \in [Legacy -> Times \cup {None}] /\ owed \in [Legacy -> [Keys -> Times \cup {None}]]
    BY <1>1 DEF FavInv, TypeOK, PutInv, Times
  <2>3. Save
    <3>1. ~(\E e \in Devices : Collect(e))
      BY <2>1 DEF Collect
    <3>2. ~(Refuse \/ Restart \/ Backup \/ Restore \/ Tick \/ UNCHANGED vars)
      BY <2>1 DEF Refuse, Restart, Backup, Restore, Tick, vars
    <3>3. ~(\E e \in Revisioned : Read(e)) /\ ~(\E e \in Legacy : Reap(e))
      BY <2>1 DEF Read, Reap
    <3> QED BY <1>1, <3>1, <3>2, <3>3 DEF Next
  <2>4. Old(owed[d][k]) /\ Old(putAt[d])
    BY <1>1, <2>3, NoRevival
  <2>5. (owed[d][k] # None => owed[d][k] \in Int) /\ (putAt[d] # None => putAt[d] \in Int)
    BY <2>2 DEF Times
  <2> QED BY <2>2, <2>4, <2>5, Constants DEF Old
<1>2. FavInv /\ [Next]_vars =>
        [\A d \in Legacy, k \in Keys :
           LET win(t) == t /= None /\ clock - t < Retention
           IN ~( /\ saving /= None /\ saving.device = d /\ k \in doc'.live \ doc.live /\ owed[d][k] /= None
                 /\ win(owed[d][k]) \/ win(lastPut[d]) )]_vars
  BY <1>1
<1> QED BY <1>2, Invariance, PTL DEF Spec, RemovalSurvivesLegacy

-----------------------------------------------------------------------------
(***************************************************************************)
(* The bridge keeps what SharedFavorites promises                          *)
(***************************************************************************)

\* The refinement mapping: the devices whose copy is the document, or of another history.
Current   == {d \in Revisioned : copy[d].epoch = epoch /\ copy[d].doc.revision = doc.revision}
Strangers == {d \in Revisioned : copy[d].epoch /= epoch}

LEMMA Mapped ==
  /\ Shared!sharedVars = <<doc.live, Gone(doc), Current, Strangers>>
  /\ Shared!SharedNext <=> \/ Shared!Learn \/ Shared!Replace \/ Shared!Add
                          \/ Shared!Forget \/ Shared!Restored
  BY DEF Shared!sharedVars, Shared!SharedNext, Current, Strangers

\* A step that leaves the document and the copies alone is none of the abstract one's.
LEMMA Stutters ==
  ASSUME doc' = doc, copy' = copy, epoch' = epoch
  PROVE  UNCHANGED Shared!sharedVars
  BY DEF Shared!sharedVars, Gone

LEMMA RefinesInit == Init => Shared!SharedInit
<1> SUFFICES ASSUME Init PROVE Shared!SharedInit
  OBVIOUS
<1>1. doc.live = {} /\ Gone(doc) = {} /\ doc.revision = 0 /\ epoch = 0
  BY DEF Init, NoDocument, Gone
<1>2. \A d \in Revisioned : copy[d].doc = doc /\ copy[d].epoch = epoch
  BY <1>1 DEF Init
<1> QED BY <1>1, <1>2 DEF Shared!SharedInit

\* A device whose copy becomes the document, which does not change.
LEMMA LearnsDocument ==
  ASSUME TypeOK, doc' = doc, epoch' = epoch, NEW d \in Revisioned,
         copy' = [copy EXCEPT ![d] = [doc |-> doc, epoch |-> epoch]]
  PROVE  Shared!Learn
<1>1. copy \in [Revisioned -> [doc : Documents, epoch : 0..MaxEpoch]]
  BY DEF TypeOK
<1>2. \A e \in Revisioned : copy'[e] = IF e = d THEN [doc |-> doc, epoch |-> epoch] ELSE copy[e]
  BY <1>1
<1>3. Current' = Current \cup {d} /\ Strangers' = Strangers \ {d}
  BY <1>2 DEF Current, Strangers
<1>4. Gone(doc') = Gone(doc)
  OBVIOUS
<1> QED BY <1>3, <1>4 DEF Shared!Learn, Current, Strangers, Gone

\* No copy has the revision a change moves to, but the writer's that had the answer.
LEMMA Outdated ==
  ASSUME FavInv, epoch' = epoch, doc'.revision = doc.revision + 1
  PROVE  /\ copy' = copy => Current' = {} /\ Strangers' = Strangers
         /\ \A d \in Revisioned :
              copy' = [copy EXCEPT ![d] = [doc |-> doc', epoch |-> epoch]]
                => Current' = {d} /\ Strangers' = Strangers \ {d}
<1>1. /\ copy \in [Revisioned -> [doc : Documents, epoch : 0..MaxEpoch]] /\ doc \in Documents
      /\ CopyInv
  BY DEF FavInv, TypeOK
<1>2. /\ doc.revision \in Nat
      /\ \A d \in Revisioned : copy[d].doc \in Documents
  BY <1>1, DocFacts
<1>3. \A d \in Revisioned : copy[d].doc.revision \in Nat
  BY <1>2, DocFacts
<1>4. \A d \in Revisioned : copy[d].epoch = epoch => copy[d].doc.revision # doc'.revision
  BY <1>1, <1>2, <1>3 DEF CopyInv
<1>5. ASSUME copy' = copy PROVE Current' = {} /\ Strangers' = Strangers
  BY <1>4, <1>5 DEF Current, Strangers
<1>6. ASSUME NEW d \in Revisioned, copy' = [copy EXCEPT ![d] = [doc |-> doc', epoch |-> epoch]]
      PROVE  Current' = {d} /\ Strangers' = Strangers \ {d}
  <2>1. \A e \in Revisioned : copy'[e] = IF e = d THEN [doc |-> doc', epoch |-> epoch] ELSE copy[e]
    BY <1>1, <1>6
  <2> QED BY <1>4, <2>1 DEF Current, Strangers
<1> QED BY <1>5, <1>6

LEMMA CollectRefines ==
  ASSUME FavInv, NEW d \in Devices, Collect(d)
  PROVE  Shared!Forget \/ UNCHANGED Shared!sharedVars
<1>1. copy' = copy /\ epoch' = epoch
  BY DEF Collect
<1>2. CASE doc' = doc
  BY <1>1, <1>2, Stutters
<1>3. CASE doc' # doc
  <2>1. doc'.live = doc.live /\ Gone(doc') \subseteq Gone(doc) /\ doc'.revision = doc.revision + 1
    BY <1>3, CollectFacts DEF FavInv
  <2>2. Current' = {} /\ Strangers' = Strangers
    BY <1>1, <2>1, Outdated
  <2> QED BY <2>1, <2>2 DEF Shared!Forget, Current, Strangers, Gone
<1> QED BY <1>2, <1>3

LEMMA SaveRefines ==
  ASSUME FavInv, Save
  PROVE  \/ Shared!Learn \/ Shared!Add \/ Shared!Replace
         \/ UNCHANGED Shared!sharedVars
<1>1. PICK next \in Merges : ~Stale(next) /\ doc' = Written(next)
  BY DEF Save
<1>2. /\ TypeOK /\ EchoInv /\ SavingInv /\ CopyInv /\ saving # None /\ doc \in Documents
      /\ Answer(doc') /\ epoch' = epoch
  BY SaveFacts DEF FavInv, Save
<1>3. /\ next \in Documents /\ next.revision = doc.revision
      /\ Acceptable(next.live, Gone(next)) /\ Gone(next) \subseteq Gone(doc) \cup doc.live
  BY <1>1, <1>2, MergeFacts
<1>4. /\ doc'.live = next.live /\ Gone(doc') = Gone(next)
      /\ \/ doc' = doc \/ doc'.revision = doc.revision + 1
  BY <1>1, <1>2, <1>3, WrittenFacts
<1>5. Shared!Legal(doc'.live, Gone(doc'))
  BY <1>3, <1>4, DocFacts DEF Acceptable, Shared!Legal
<1>6. \/ copy' = copy
      \/ /\ ~IsLegacy /\ saving.device \in Revisioned
         /\ copy' = [copy EXCEPT ![saving.device] = [doc |-> doc', epoch |-> epoch]]
  BY <1>2, AnswerFacts
<1>7. CASE doc' = doc
  BY <1>2, <1>6, <1>7, Stutters, LearnsDocument
<1>8. CASE doc'.revision = doc.revision + 1 /\ IsLegacy
  <2>1. copy' = copy /\ Gone(next) = Gone(doc) /\ doc.live \subseteq next.live
    BY <1>1, <1>2, <1>6, <1>8, LegacyFacts DEF Merges
  <2>2. Current' = {} /\ Strangers' = Strangers
    BY <1>2, <1>8, <2>1, Outdated
  <2>3. Shared!Legal(doc'.live, Gone(doc))
    BY <1>4, <1>5, <2>1
  <2> QED BY <1>4, <2>1, <2>2, <2>3 DEF Shared!Add, Current, Strangers, Gone
<1>9. CASE doc'.revision = doc.revision + 1 /\ doc' # doc /\ ~IsLegacy
  <2> DEFINE d == saving.device
  <2>1. d \in Revisioned /\ (copy[d].epoch # epoch \/ copy[d].doc.revision \in {saving.base, doc.revision})
    BY <1>2, <1>9 DEF SavingInv
  <2>2. d \in Current \cup Strangers
    <3>1. CASE saving.base = doc.revision
      BY <2>1, <3>1 DEF Current, Strangers
    <3>2. CASE saving.base # doc.revision
      \* The document is as it was, and none was stored before.
      <4>1. next = doc
        BY <1>1, <1>9, <3>2 DEF Stale
      <4>2. doc.revision = 0
        <5>1. doc.revision \in Nat
          BY <1>2, DocFacts
        <5> QED BY <1>1, <1>9, <4>1, <5>1 DEF Written
      <4>3. copy[d].doc \in Documents
        BY <1>2, <2>1 DEF TypeOK
      <4>4. copy[d].doc.revision \in Nat
        BY <4>3, DocFacts
      <4>5. copy[d].epoch = epoch => copy[d].doc.revision = doc.revision
        BY <1>2, <2>1, <4>2, <4>4 DEF CopyInv
      <4> QED BY <2>1, <4>5 DEF Current, Strangers
    <3> QED BY <3>1, <3>2
  <2>3. \/ Current' = {d} /\ Strangers' = Strangers \ {d}
        \/ Current' = {} /\ Strangers' = Strangers
    BY <1>2, <1>6, <1>9, <2>1, Outdated
  <2>4. Gone(doc') \subseteq Gone(doc) \cup doc.live
    BY <1>3, <1>4
  <2> HIDE DEF d
  <2>5. Shared!Replace
    BY <1>5, <2>2, <2>3, <2>4 DEF Shared!Replace, Current, Strangers, Gone
  <2> QED BY <2>5
<1> QED BY <1>4, <1>7, <1>8, <1>9

LEMMA RestoreRefines == ASSUME FavInv, Restore PROVE Shared!Restored
<1>1. /\ doc' = backup.doc /\ copy' = copy /\ epoch' = epoch + 1
      /\ Acceptable(backup.doc.live, Gone(backup.doc)) /\ backup.doc \in Documents
      /\ epoch \in Nat /\ \A d \in Revisioned : copy[d].epoch \in Nat
  BY Constants DEF FavInv, Restore, EchoInv, TypeOK
<1>2. \A d \in Revisioned : copy[d].epoch <= epoch
  BY DEF FavInv, CopyInv
<1>3. \A d \in Revisioned : copy'[d].epoch # epoch'
  BY <1>1, <1>2
<1>4. Current' = {} /\ Strangers' = Revisioned
  BY <1>3 DEF Current, Strangers
<1>5. Shared!Legal(doc'.live, Gone(doc'))
  BY <1>1, DocFacts DEF Acceptable, Shared!Legal
<1> QED BY <1>4, <1>5 DEF Shared!Restored, Current, Strangers, Gone

LEMMA NextRefines == ASSUME FavInv, [Next]_vars PROVE [Shared!SharedNext]_(Shared!sharedVars)
<1>1. TypeOK /\ SavingInv
  BY DEF FavInv
<1>2. ASSUME NEW d \in Revisioned, Read(d) PROVE Shared!SharedNext
  BY <1>1, <1>2, LearnsDocument DEF Read, Shared!SharedNext
<1>3. ASSUME NEW d \in Devices, Collect(d) PROVE Shared!SharedNext \/ UNCHANGED Shared!sharedVars
  BY <1>3, CollectRefines DEF Shared!SharedNext
<1>4. CASE Save
  BY <1>4, SaveRefines DEF Shared!SharedNext
<1>5. CASE Refuse
  <2>1. saving # None /\ Answer(doc) /\ doc' = doc /\ epoch' = epoch
    BY <1>5 DEF Refuse
  <2>2. CASE copy' = copy
    BY <2>1, <2>2, Stutters
  <2>3. CASE copy' # copy
    BY <1>1, <2>1, <2>3, AnswerFacts, LearnsDocument DEF Shared!SharedNext
  <2> QED BY <2>2, <2>3
<1>6. CASE Restore
  BY <1>6, RestoreRefines DEF Shared!SharedNext
<1>7. CASE Restart \/ Backup \/ Tick \/ UNCHANGED vars \/ (\E d \in Legacy : Reap(d))
  <2>1. doc' = doc /\ copy' = copy /\ epoch' = epoch
    BY <1>7 DEF Restart, Backup, Tick, vars, Reap
  <2> QED BY <2>1, Stutters
<1> QED BY <1>2, <1>3, <1>4, <1>5, <1>6, <1>7 DEF Next

\* Favorites implements SharedFavorites: collections, merges, refusals, lost answers,
\* restarts and restores are its steps or stutters.
THEOREM FavoritesRefine == Spec => KeepsSharedFavorites
<1>1. Init => Shared!SharedInit
  BY RefinesInit
<1>2. FavInv /\ [Next]_vars => [Shared!SharedNext]_(Shared!sharedVars)
  BY NextRefines
<1> QED BY <1>1, <1>2, Invariance, PTL DEF Spec, KeepsSharedFavorites, Shared!Spec
=============================================================================
