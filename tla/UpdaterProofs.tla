---------------------------- MODULE UpdaterProofs ----------------------------
(***************************************************************************)
(* The safety of the updater for any number of releases, any schemas that  *)
(* do not fall from one release to the next, any settings, any limit and   *)
(* any number of events.                                                   *)
(*                                                                         *)
(* The argument has three parts.  The lock: while an install or a rollback *)
(* is between two of its writes the marker says so, and nothing else does. *)
(* The count: a start that the marker counts against an install either     *)
(* ended uncleanly or is the one that runs, so a count at the limit is     *)
(* deserved.  The store: a backup on disk is either of a release that has  *)
(* kept up with the store, or refused by a marker that says who opened the *)
(* data directory; and a release the store is ahead of is not the binary.  *)
(* The third part holds until the marker of an install drops a record that *)
(* is still needed, which the history variable lapsed tells.               *)
(***************************************************************************)
EXTENDS Updater, TLAPS

\* The steps of an install and of the operator's rollback, by what is done.
Swapping    == {"marked", "armed", "unlinked", "linked"}
RollingBack == {"recorded", "renamed"}

\* The lock.  A sequence that holds it has put in the marker what its later
\* steps rely on, and the process that runs it is up.
LockInv ==
  /\ installer.step /= "idle" => serve.phase \notin Locking
  /\ installer.step \in Swapping =>
       /\ installer.op = "install" /\ installer.target \in Versions
       /\ marker.status = "installing" /\ marker.target = installer.target
       /\ marker.failed = 0 /\ marker.opened = None /\ marker.veto = None
       /\ marker.recent /\ (installer.step /= "marked" => marker.swap)
  /\ installer.step \in RollingBack =>
       /\ installer.op = "rollback" /\ installer.by = "serve"
       /\ marker.status = "" /\ (marker.target /= None => marker.rolling)
  /\ installer.step = "idle" => installer.op = "none" /\ installer.by = "none"
  /\ installer.step /= "idle" => installer.by /= "none"
  /\ installer.by = "serve" => serve.phase = "serving"
  /\ installer.step = "recorded" => bak /= None
  /\ installer.step = "renamed" => bak \in {None, bin}
  /\ installer.step = "linked" => bak = bin
  /\ serve.phase \in {"early", "crash"} =>
       /\ bak /= None
       /\ marker.status = "" /\ marker.rolling
       /\ marker.target = serve.image /\ marker.veto = marker.target
  /\ serve.phase \in {"restoring", "restored"} => marker.status = "installing"
  /\ serve.phase = "restoring" => marker.veto = marker.target
  /\ installer.step = "recorded" =>
       marker.opened = None /\ (marker.target /= None => marker.veto = marker.target)
  /\ serve.phase = "restored" => bak \in {None, bin}
  /\ serve.phase = "down" <=> serve.image = None

\* While the hold of a rollback should stand, it is the marker's.
HoldInv ==
  undone.version /= None => marker.rejected = undone.version /\ marker.digest = undone.digest

\* The start that runs is the last one counted.
Counting == Running /\ serve.image = marker.target /\ serve.counted = marker.failed /\ marker.failed > 0

\* The count is covered by unclean ends, but for the start that runs.
Deserved ==
  \/ unclean[marker.target] >= Limit
  \/ marker.failed <= unclean[marker.target]
  \/ Counting /\ marker.failed <= unclean[marker.target] + 1

\* A confirmed install counts no start, and a rollback that is done leaves no
\* backup but the binary.
AtRest == marker.status = "" /\ ~marker.rolling

RestInv ==
  /\ marker.status = "installed" => marker.failed = 0
  /\ AtRest /\ marker.target /= None => bak \in {None, bin}

\* Where a crash rollback could put the backup back, the count is deserved.
CountInv ==
  /\ marker.target /= None
  /\ bak = marker.prev /\ marker.prev \notin {None, marker.target}
  /\ marker.target \in {serve.image, bin}
  => Deserved

\* The store, and what the migrations that run will make of it, is within n.
Level(n) ==
  /\ store <= n
  /\ serve.phase = "migrating" => Schema[serve.image] <= n
  /\ command.phase = "migrating" => Schema[command.image] <= n

\* The phases of a start whose image can still matter to the backup.
Starting == {"exec", "refused", "admitted", "migrating", "opened", "early", "crash", "restoring"}

\* There is no backup that is not the binary.
Quiet == bak \in {None, bin}

\* The marker refuses the operator's rollback and the boot one.
Refusing == marker.opened \notin {None, marker.prev}

\* The backup is one a rollback may find: no install is about to unlink it.
Linked == bak /= None /\ installer.step \notin {"marked", "armed"}

\* No release is ahead of the latest, nor a swap behind the binary.
LatestInv ==
  /\ bin <= latest /\ bak <= latest
  /\ installer.step \in Swapping =>
       /\ bin <= installer.target /\ installer.target <= latest
       /\ installer.by = "cli" => bin < installer.target

\* The marker of an install names two releases, and vetoes none but its own.
MarkInv ==
  /\ InstallArmed(marker) => marker.target /= None
  /\ marker.target /= None => marker.prev /= marker.target
  /\ marker.opened /= None => marker.opened /= marker.prev
  /\ marker.target /= None => marker.veto \in {None, marker.target}

\* serve's release is none newer than the binary, nor, unless it is the
\* binary's, than a backup it may put back.
ImageInv ==
  /\ serve.image <= bin
  /\ Linked => serve.image <= bak \/ serve.image = bin
  /\ installer.step \in Swapping => serve.image < installer.target /\ marker.prev <= bin
  /\ Linked /\ marker.target /= None => marker.prev <= bak
  /\ installer.step = "recorded" \/ serve.phase = "restoring" => bak = None \/ serve.image <= bak

\* Beside a backup that is not the binary, the binary is the marker's target,
\* and so is a start of it that the marker's age does not excuse.
SwapInv ==
  /\ installer.step /= "marked" /\ marker.target /= None => marker.swap
  /\ marker.target /= None /\ installer.step \notin Swapping => bin = marker.target \/ Quiet
  /\ /\ serve.phase \in Starting /\ marker.target /= None /\ installer.step \notin Swapping
     /\ ~marker.recent \/ marker.status /= "installing"
     => serve.image = bin \/ Quiet

\* A release that is past its admission is on record beside such a backup.
OpenedInv ==
  /\ Running /\ serve.image = marker.target /\ ~AtRest => marker.opened /= None \/ Quiet
  /\ ~InstallArmed(marker) => Quiet \/ Refusing

\* A command of a release newer than the binary is vetoed before it migrates.
CommandInv ==
  /\ command.phase = "opening" /\ Schema[command.image] > Schema[bin]
       => marker.veto = command.image /\ bak = None
  /\ Linked /\ command.phase = "opening" => Schema[command.image] <= Schema[bak] \/ command.image = bin
  /\ command.phase = "idle" <=> command.image = None

\* Whether or not anything has been dropped, a command that runs has an image.
CallInv == command.phase = "idle" <=> command.image = None

\* The store is within the binary, and within the backup unless it is refused.
LevelInv ==
  /\ Level(Schema[bin])
  /\ installer.step = "recorded" \/ serve.phase \in {"early", "crash", "restoring"}
       => bak = None \/ Level(Schema[bak])
  /\ Linked => \/ Level(Schema[bak])
               \/ Refusing /\ (InstallArmed(marker) /\ bak = marker.prev => marker.migrated /= None)

SafeInv  == ImageInv /\ SwapInv /\ OpenedInv /\ CommandInv /\ LevelInv
StoreInv == lapsed \/ SafeInv

-----------------------------------------------------------------------------
\* What the type says, in the forms the steps use: the numbers are integers,
\* each record is its fields, and the releases are releases.
Numbers ==
  /\ bin \in Int /\ bak \in Int /\ store \in Int /\ latest \in Int /\ events \in Int
  /\ serve.image \in Int /\ serve.counted \in Int /\ installer.image \in Int /\ installer.target \in Int
  /\ command.image \in Int
  /\ marker.target \in Int /\ marker.prev \in Int /\ marker.opened \in Int /\ marker.veto \in Int
  /\ marker.failed \in Int /\ marker.migrated \in Int /\ marker.rejected \in Int
  /\ bin >= 1 /\ bak >= 0 /\ latest >= 1 /\ serve.image >= 0 /\ command.image >= 0 /\ marker.prev >= 0
  /\ marker.failed >= 0

Records ==
  /\ marker = [status |-> marker.status, target |-> marker.target, prev |-> marker.prev,
               swap |-> marker.swap, recent |-> marker.recent, rejected |-> marker.rejected,
               digest |-> marker.digest, opened |-> marker.opened, rolling |-> marker.rolling,
               veto |-> marker.veto, failed |-> marker.failed, migrated |-> marker.migrated,
               refused |-> marker.refused, token |-> marker.token]
  /\ serve = [phase |-> serve.phase, image |-> serve.image, counted |-> serve.counted,
              hold |-> serve.hold, pending |-> serve.pending]
  /\ installer = [op |-> installer.op, by |-> installer.by, auto |-> installer.auto,
                  image |-> installer.image, target |-> installer.target,
                  step |-> installer.step]
  /\ command = [phase |-> command.phase, image |-> command.image]

Flags ==
  /\ marker.recent \in BOOLEAN /\ marker.swap \in BOOLEAN /\ marker.rolling \in BOOLEAN
  /\ marker.status \in {"", "installing", "installed"}
  /\ installer.by \in {"none", "serve", "cli"}
  /\ installer.step \in {"idle", "marked", "armed", "unlinked", "linked", "recorded", "renamed"}

UncleanCounts ==
  /\ unclean = [v \in Versions |-> unclean[v]]
  /\ \A v \in Versions : unclean[v] \in Int /\ unclean[v] >= 0
  /\ Limit \in Int /\ Limit > 0
  /\ marker.target /= None => marker.target \in Versions
  /\ serve.image /= None => serve.image \in Versions

SchemaOrder ==
  /\ \A v \in Versions : Schema[v] \in Int
  /\ \A v, w \in Versions : v <= w => Schema[v] <= Schema[w]

\* What the ends of a start leave of the marker.
KeepsInstall ==
  /\ marker'.status = marker.status /\ marker'.target = marker.target /\ marker'.prev = marker.prev
  /\ marker'.swap = marker.swap /\ marker'.rejected = marker.rejected /\ marker'.digest = marker.digest
  /\ marker'.opened = marker.opened /\ marker'.rolling = marker.rolling /\ marker'.veto = marker.veto
  /\ marker'.migrated = marker.migrated

Images ==
  /\ bin \in Versions /\ bak \in Versions \cup {None}
  /\ serve.image \in Versions \cup {None} /\ command.image \in Versions \cup {None}

-----------------------------------------------------------------------------
\* Types.

Serves == [phase : Phases, image : Releases, counted : 0..FailedCap,
           hold : BOOLEAN, pending : {"none", "swap", "restart"}]
Installs == [op : {"none", "install", "rollback"}, by : {"none", "serve", "cli"},
             auto : BOOLEAN, image : Releases, target : Releases,
             step : {"idle", "marked", "armed", "unlinked", "linked", "recorded", "renamed"}]

\* The constants and the releases are the numbers they are taken for.
LEMMA Bounds ==
  /\ None \in Releases /\ Versions \subseteq Releases /\ Releases \subseteq Int
  /\ Limit \in Int /\ Limit > 0 /\ FailedCap \in Int /\ FailedCap = Limit + 1
  /\ 0 \in 0..FailedCap
  /\ \A v \in Versions : v >= 1 /\ Schema[v] \in Nat
  /\ \A v \in Releases : v >= 0
<1>1. Newest \in Nat /\ Newest >= 1 /\ Limit \in Int /\ Limit > 0
  BY UpdaterAssumption
<1>2. \A v \in Versions : Schema[v] \in Nat
  BY UpdaterAssumption
<1> QED BY <1>1, <1>2 DEF Releases, Versions, None, FailedCap

\* The marker that each step writes is one, whatever of it the step sets.
LEMMA NoMarkerType == NoMarker \in Markers
  BY Bounds DEF NoMarker, Markers, AnySettings

LEMMA MarkerWith ==
  ASSUME NEW m \in Markers, NEW v \in Releases, NEW s \in Settings \cup {AnySettings}, NEW b \in BOOLEAN
  PROVE  /\ [m EXCEPT !.rejected = v, !.digest = s] \in Markers
         /\ [m EXCEPT !.swap = b] \in Markers
         /\ [m EXCEPT !.rolling = b] \in Markers
         /\ [m EXCEPT !.refused = b] \in Markers
         /\ [m EXCEPT !.recent = b] \in Markers
         /\ [m EXCEPT !.veto = v] \in Markers
         /\ [m EXCEPT !.opened = v] \in Markers
  BY DEF Markers

LEMMA ConfirmedType ==
  ASSUME NEW m \in Markers
  PROVE  [m EXCEPT !.status = "installed", !.failed = 0, !.refused = FALSE, !.token = FALSE] \in Markers
  BY Bounds DEF Markers

LEMMA FreshMarkerType ==
  ASSUME NEW i, i.image \in Releases, NEW v \in Releases
  PROVE  FreshMarker(i, v) \in Markers
  BY Bounds DEF FreshMarker, NoMarker, Markers, AnySettings

LEMMA RecordTypes ==
  ASSUME NEW m \in Markers, NEW v \in Releases, NEW s \in Settings \cup {AnySettings}
  PROVE  /\ OperatorRollbackRecord(m, v) \in Markers
         /\ RollbackRecord(m, v, s) \in Markers
         /\ CrashRollbackRecord(m, v) \in Markers
         /\ ProbationOverRollback(m) \in Markers
         /\ ClearInstall(m) \in Markers
         /\ Migrating(m, v) \in Markers
<1>1. OperatorRollbackRecord(m, v) \in Markers
  BY Bounds DEF OperatorRollbackRecord, Markers, AnySettings
<1>2. RollbackRecord(m, v, s) \in Markers
  BY Bounds DEF RollbackRecord, NoMarker, Markers, AnySettings
<1>3. CrashRollbackRecord(m, v) \in Markers
  BY Bounds DEF CrashRollbackRecord, Markers, AnySettings
<1>4. ProbationOverRollback(m) \in Markers
  BY Bounds DEF ProbationOverRollback, Markers, AnySettings
<1>5. ClearInstall(m) \in Markers
  BY Bounds DEF ClearInstall, NoMarker, Markers, AnySettings
<1>6. Migrating(m, v) \in Markers
  BY Bounds DEF Migrating, Markers
<1> QED BY <1>1, <1>2, <1>3, <1>4, <1>5, <1>6

LEMMA AdmittedType ==
  ASSUME NEW m \in Markers, NEW v \in Releases
  PROVE  Admitted(m, v) \in Markers
<1>1. CappedNext(m.failed) \in 0..FailedCap
  <2>1. m.failed \in 0..FailedCap
    BY DEF Markers
  <2> QED BY <2>1, Bounds DEF CappedNext
<1>2. (m.token \/ CountsStart(m, v)) \in BOOLEAN
  OBVIOUS
<1> QED BY <1>1, <1>2, Bounds DEF Admitted, Markers

LEMMA TakeBackType ==
  ASSUME NEW m \in Markers, serve.counted \in 0..FailedCap
  PROVE  TakeBackFailedStart(m) \in Markers
<1>1. CASE CountsStart(m, serve.image) /\ serve.counted > 0 /\ m.failed = serve.counted
  <2>3. m.failed \in 0..FailedCap
    BY DEF Markers
  <2>1. m.failed - 1 \in 0..FailedCap
    BY <1>1, <2>3, Bounds
  <2>2. [m EXCEPT !.failed = @ - 1, !.token = FALSE] \in Markers
    BY <2>1 DEF Markers
  <2> QED BY <1>1, <2>2 DEF TakeBackFailedStart
<1>2. CASE ~(CountsStart(m, serve.image) /\ serve.counted > 0 /\ m.failed = serve.counted)
  BY <1>2 DEF TakeBackFailedStart
<1> QED BY <1>1, <1>2

Steps == {"idle", "marked", "armed", "unlinked", "linked", "recorded", "renamed"}
Calls == [phase : {"idle", "opening", "migrating"}, image : Releases]
Holds == [version : Releases, digest : Settings \cup {AnySettings}]

Typed ==
  /\ bin \in Versions /\ bak \in Releases /\ store \in Nat
  /\ settings \in Settings /\ marker \in Markers /\ serve \in Serves
  /\ installer \in Installs /\ command \in Calls
  /\ latest \in Versions /\ events \in 0..MaxEvents /\ lapsed \in BOOLEAN
  /\ unclean \in [Versions -> 0..Limit] /\ undone \in Holds

\* The type by the names of its records is TypeOK.
LEMMA TypedIsTypeOK == Typed <=> TypeOK
  BY DEF Typed, TypeOK, Serves, Installs, Calls, Holds

\* What an idle process is, and how a step of one changes its record.
LEMMA Idlers == Down \in Serves /\ Idle \in Installs /\ NoUndo \in Holds /\ NoCommand \in Calls
  BY Bounds DEF Down, Idle, Serves, Installs, Phases, NoUndo, NoCommand, Holds, Calls

LEMMA ServeWith ==
  ASSUME NEW s \in Serves, NEW p \in Phases, NEW q \in {"none", "swap", "restart"},
         NEW b \in BOOLEAN, NEW n \in 0..FailedCap, NEW v \in Releases
  PROVE  /\ [s EXCEPT !.phase = p] \in Serves
         /\ [s EXCEPT !.pending = q] \in Serves
         /\ [s EXCEPT !.phase = p, !.hold = b, !.counted = n] \in Serves
         /\ [s EXCEPT !.phase = p, !.image = v] \in Serves
  BY DEF Serves

LEMMA InstallWith ==
  ASSUME NEW i \in Installs, NEW x \in Steps
  PROVE  [i EXCEPT !.step = x] \in Installs
  BY DEF Installs, Steps

LEMMA PhaseNames ==
  /\ \A p \in {"down", "exec", "refused", "admitted", "migrating", "opened", "serving",
               "early", "crash", "restoring", "restored"} : p \in Phases
  /\ \A x \in {"idle", "marked", "armed", "unlinked", "linked", "recorded", "renamed"} : x \in Steps
  BY DEF Phases, Locking, Steps

\* An event takes one of those left; a count of unclean ends stops at Limit.
LEMMA EventType == ASSUME events \in 0..MaxEvents, Event PROVE events' \in 0..MaxEvents
  BY UpdaterAssumption DEF Event

LEMMA CountType ==
  ASSUME unclean \in [Versions -> 0..Limit]
  PROVE  /\ CountUnclean \in [Versions -> 0..Limit]
         /\ \A v \in Versions : [unclean EXCEPT ![v] = 0] \in [Versions -> 0..Limit]
<1>1. \A v \in Versions : (IF unclean[v] < Limit THEN unclean[v] + 1 ELSE unclean[v]) \in 0..Limit
  BY Bounds
<1>2. 0 \in 0..Limit
  BY Bounds
<1>3. CountUnclean \in [Versions -> 0..Limit]
  BY <1>1 DEF CountUnclean
<1> QED BY <1>2, <1>3

LEMMA LaterType == ASSUME NEW m \in Nat, NEW n \in Nat PROVE Later(n, m) \in Nat
  BY DEF Later

\* A rename of the backup leaves a binary.
LEMMA RestoreType ==
  ASSUME bin \in Versions, bak \in Releases, bak /= None, Restore PROVE bin' \in Versions /\ bak' \in Releases
  BY Bounds DEF Restore, Releases

\* The fields of the records, and where a release is meant none of them is None.
LEMMA Fields ==
  ASSUME Typed
  PROVE  /\ serve.image \in Releases /\ serve.counted \in 0..FailedCap /\ serve.phase \in Phases
         /\ installer.target \in Releases /\ installer.step \in Steps
         /\ command.image \in Releases
         /\ marker.target \in Releases /\ marker.prev \in Releases /\ marker.failed \in 0..FailedCap
         /\ (serve.image /= None => serve.image \in Versions)
         /\ (command.image /= None => command.image \in Versions)
         /\ (installer.target /= None => installer.target \in Versions)
         /\ (bak /= None => bak \in Versions)
  BY DEF Typed, Serves, Installs, Steps, Calls, Markers, Releases

LEMMA SettingTypes ==
  /\ AnySettings \in Settings \cup {AnySettings}
  /\ \A s \in Settings : s \in Settings \cup {AnySettings}
  OBVIOUS

\* Each action keeps the types.
LEMMA TypeInstallMark == ASSUME Typed, InstallMark PROVE Typed'
<1>1. PICK i \in Installers, v \in Versions :
        /\ marker' = FreshMarker(i, v)
        /\ installer' = [op |-> "install", by |-> i.by, auto |-> i.auto, image |-> i.image,
                         target |-> v, step |-> "marked"]
  BY DEF InstallMark
<1>2. i.by \in {"cli", "serve"} /\ i.auto \in BOOLEAN /\ i.image \in Releases
  <2>1. CASE i \in {[by |-> "cli", auto |-> FALSE, image |-> bin]}
    <3>1. i.by = "cli" /\ i.auto = FALSE /\ i.image = bin
      BY <2>1
    <3>2. bin \in Releases
      BY Bounds DEF Typed
    <3> QED BY <3>1, <3>2
  <2>2. CASE i \in {j \in [by : {"serve"}, auto : BOOLEAN, image : {serve.image}] : serve.phase = "serving"}
    BY <2>2, Fields
  <2> QED BY <2>1, <2>2 DEF Installers
<1>3. marker' \in Markers
  BY <1>1, <1>2, FreshMarkerType, Bounds
<1>4. installer' \in Installs
  BY <1>1, <1>2, Bounds DEF Installs
<1>5. lapsed' \in BOOLEAN
  BY DEF InstallMark, VetoNeeded, Typed
<1> QED BY <1>3, <1>4, <1>5, EventType, Idlers DEF InstallMark, Typed

LEMMA TypeCandidateRefused == ASSUME Typed, CandidateRefused PROVE Typed'
<1>1. PICK v \in Versions : marker' = [marker EXCEPT !.rejected = v, !.digest = settings]
  BY DEF CandidateRefused
<1>2. marker' \in Markers
  BY <1>1, MarkerWith, Bounds DEF Typed
<1> QED BY <1>2, EventType, Idlers DEF CandidateRefused, Typed

LEMMA TypeSwapFails == ASSUME Typed, SwapFails PROVE Typed'
  BY EventType, Bounds DEF SwapFails, Typed

LEMMA TypeArmSwap == ASSUME Typed, ArmSwap PROVE Typed'
<1>1. marker' \in Markers /\ installer' \in Installs
  BY MarkerWith, InstallWith, PhaseNames, Bounds DEF ArmSwap, Typed
<1> QED BY <1>1 DEF ArmSwap, Typed

LEMMA TypeUnlink == ASSUME Typed, Unlink PROVE Typed'
  BY InstallWith, PhaseNames, Bounds DEF Unlink, Typed

LEMMA TypeLink == ASSUME Typed, Link PROVE Typed'
  BY InstallWith, PhaseNames, Bounds DEF Link, Typed

LEMMA TypeReplace == ASSUME Typed, LockInv, Replace PROVE Typed'
<1>1. installer.target \in Versions
  BY DEF LockInv, Replace, Swapping
<1>2. serve' \in Serves
  <2>1. \A q \in {"swap", "restart"} : [serve EXCEPT !.pending = q] \in Serves
    BY DEF Typed, Serves
  <2> QED BY <2>1 DEF Replace, Typed
<1>3. unclean' \in [Versions -> 0..Limit]
  BY <1>1, CountType DEF Replace, Typed
<1> QED BY <1>1, <1>2, <1>3, Idlers DEF Replace, Typed

LEMMA TypeRollbackRecorded == ASSUME Typed, RollbackRecorded PROVE Typed'
<1>1. RejectedVersionOf \in Releases
  BY Fields DEF RejectedVersionOf
<1>2. marker' \in Markers
  BY <1>1, RecordTypes, SettingTypes DEF RollbackRecorded, Typed
<1>3. installer' \in Installs
  BY Bounds DEF RollbackRecorded, Idle, Installs
<1>4. undone' \in Holds
  BY <1>1 DEF RollbackRecorded, Holds
<1> QED BY <1>2, <1>3, <1>4, EventType DEF RollbackRecorded, Typed

LEMMA TypeRollbackRename == ASSUME Typed, LockInv, RollbackRename PROVE Typed'
<1>1. bin' \in Versions /\ bak' \in Releases
  BY RestoreType DEF LockInv, RollbackRename, Typed
<1>2. installer' \in Installs
  BY InstallWith, PhaseNames DEF RollbackRename, Typed
<1> QED BY <1>1, <1>2 DEF RollbackRename, Typed

LEMMA TypeRollbackDone == ASSUME Typed, RollbackDone PROVE Typed'
<1>1. marker' \in Markers
  BY MarkerWith, Bounds DEF RollbackDone, Typed
<1>2. serve' \in Serves
  BY DEF RollbackDone, Typed, Serves
<1> QED BY <1>1, <1>2, Idlers DEF RollbackDone, Typed

LEMMA TypeExec == ASSUME Typed, Exec PROVE Typed'
<1>1. serve' \in Serves
  <2>1. bin \in Releases /\ "exec" \in Phases
    BY Bounds, PhaseNames DEF Typed
  <2>2. \A v \in Releases : [Down EXCEPT !.phase = "exec", !.image = v] \in Serves
    BY Idlers DEF Serves, Phases
  <2> QED BY <2>1, <2>2 DEF Exec
<1> QED BY <1>1 DEF Exec, Typed, installVars, fixed

LEMMA TypeEarlyRecord == ASSUME Typed, EarlyRecord PROVE Typed'
<1>1. marker' \in Markers
  BY Fields, RecordTypes DEF EarlyRecord, Typed
<1>2. serve' \in Serves
  BY DEF EarlyRecord, Typed, Serves, Phases, Locking
<1>3. undone' \in Holds
  BY Fields DEF EarlyRecord, Holds, Typed
<1> QED BY <1>1, <1>2, <1>3 DEF EarlyRecord, Typed, fixed

LEMMA TypeRefusedExit == ASSUME Typed, RefusedExit PROVE Typed'
  BY Idlers DEF RefusedExit, Typed, installVars, fixed

LEMMA TypeCrashRecord == ASSUME Typed, CrashRecord PROVE Typed'
<1>1. marker' \in Markers
  BY Fields, RecordTypes, SettingTypes DEF CrashRecord, Typed
<1>2. serve' \in Serves
  BY DEF CrashRecord, Typed, Serves, Phases, Locking
<1>3. undone' \in Holds
  BY Fields DEF CrashRecord, Holds, Typed
<1> QED BY <1>1, <1>2, <1>3 DEF CrashRecord, Typed, fixed

LEMMA TypeCrashRefused == ASSUME Typed, CrashRefused PROVE Typed'
<1>1. marker' \in Markers
  BY MarkerWith, Bounds DEF CrashRefused, Typed
<1>2. serve' \in Serves
  BY DEF CrashRefused, Typed, Serves, Phases
<1> QED BY <1>1, <1>2 DEF CrashRefused, Typed, fixed

LEMMA TypePutBackFails == ASSUME Typed, PutBackFails PROVE Typed'
<1>1. marker' \in Markers
  BY MarkerWith, Bounds DEF PutBackFails, Typed
<1>2. serve' \in Serves
  <2>1. [serve EXCEPT !.phase = "refused"] \in Serves
    BY DEF Typed, Serves, Phases
  <2> QED BY <2>1, Idlers DEF PutBackFails
<1> QED BY <1>1, <1>2, EventType DEF PutBackFails, Typed, fixed

LEMMA TypePutBack == ASSUME Typed, LockInv, PutBack PROVE Typed'
<1>1. bin' \in Versions /\ bak' \in Releases
  BY RestoreType DEF LockInv, PutBack, Typed
<1> QED BY <1>1, Idlers DEF PutBack, Typed, fixed

LEMMA TypeAdmitBoot == ASSUME Typed, AdmitBoot PROVE Typed'
<1>1. marker' \in Markers
  BY Fields, AdmittedType DEF AdmitBoot, Typed
<1>2. marker'.failed \in 0..FailedCap
  BY <1>1 DEF Markers
<1>3. serve' \in Serves
  <2>1. \A b \in BOOLEAN, n \in 0..FailedCap :
          [serve EXCEPT !.phase = "admitted", !.hold = b, !.counted = n] \in Serves
    BY DEF Typed, Serves, Phases
  <2>2. CountsStart(marker, serve.image) \in BOOLEAN
    BY DEF CountsStart, InstallArmed
  <2>3. (IF CountsStart(marker, serve.image) THEN marker'.failed ELSE 0) \in 0..FailedCap
    BY <1>2, Bounds
  <2> QED BY <2>1, <2>2, <2>3 DEF AdmitBoot
<1> QED BY <1>1, <1>3 DEF AdmitBoot, Typed, fixed

LEMMA TypeOpenStore == ASSUME Typed, OpenStore PROVE Typed'
<1>1. marker' \in Markers
  BY Fields, RecordTypes, SettingTypes DEF OpenStore, Typed
<1>2. serve' \in Serves
  <2>1. \A p \in {"opened", "migrating"} : [serve EXCEPT !.phase = p] \in Serves
    BY DEF Typed, Serves, Phases
  <2> QED BY <2>1 DEF OpenStore
<1> QED BY <1>1, <1>2 DEF OpenStore, Typed, fixed

LEMMA TypeMigrate == ASSUME Typed, LockInv, Migrate PROVE Typed'
<1>1. serve.image \in Versions
  BY Fields DEF LockInv, Migrate
<1>2. store' \in Nat
  BY <1>1, Bounds, LaterType DEF Migrate, Typed
<1>3. serve' \in Serves
  BY DEF Migrate, Typed, Serves, Phases
<1> QED BY <1>2, <1>3 DEF Migrate, Typed, fixed, installVars

LEMMA BootsType ==
  ASSUME Typed, NEW p \in {"serving", "restoring", "restored"}, Boots(p)
  PROVE  serve' \in Serves
  BY DEF Boots, Typed, Serves, Phases, Locking

LEMMA TypeBootNoop == ASSUME Typed, BootNoop PROVE Typed'
  BY BootsType DEF BootNoop, Typed, fixed, installVars

LEMMA TypeBootCleanupBak == ASSUME Typed, BootCleanupBak PROVE Typed'
<1>1. marker' \in Markers
  <2>1. [marker EXCEPT !.opened = None] \in Markers
    BY MarkerWith, Bounds, SettingTypes DEF Typed
  <2> QED BY <2>1, RecordTypes, SettingTypes, Bounds DEF BootCleanupBak
<1> QED BY <1>1, BootsType, Bounds DEF BootCleanupBak, Typed, fixed

LEMMA TypeBootClear == ASSUME Typed, BootClear PROVE Typed'
<1>1. marker' \in Markers
  BY RecordTypes, SettingTypes, Bounds DEF BootClear, Typed
<1> QED BY <1>1, BootsType DEF BootClear, Typed, fixed

LEMMA TypeBootVeto == ASSUME Typed, BootVeto PROVE Typed'
<1>1. marker' \in Markers
  BY MarkerWith, SettingTypes, Fields DEF BootVeto, Typed
<1> QED BY <1>1, BootsType DEF BootVeto, Typed, fixed

LEMMA TypeBootRestore == ASSUME Typed, BootRestore PROVE Typed'
<1>1. bin' \in Versions /\ bak' \in Releases
  BY RestoreType DEF BootRestore, Typed
<1> QED BY <1>1, BootsType DEF BootRestore, Typed, fixed

LEMMA TypeBootRestored == ASSUME Typed, BootRestored PROVE Typed'
<1>1. marker' \in Markers
  BY RecordTypes, SettingTypes, Bounds DEF BootRestored, Typed
<1> QED BY <1>1, BootsType DEF BootRestored, Typed, fixed

LEMMA TypeBootRollbackOvertaken == ASSUME Typed, BootRollbackOvertaken PROVE Typed'
<1>1. marker' \in Markers
  BY RecordTypes, SettingTypes, Bounds DEF BootRollbackOvertaken, Typed
<1> QED BY <1>1, BootsType, Idlers DEF BootRollbackOvertaken, Typed, fixed

LEMMA TypeBootRollbackFinished == ASSUME Typed, BootRollbackFinished PROVE Typed'
<1>1. marker' \in Markers
  BY RecordTypes, SettingTypes, Bounds DEF BootRollbackFinished, Typed
<1> QED BY <1>1, BootsType DEF BootRollbackFinished, Typed, fixed

LEMMA TypeConfirmInstall == ASSUME Typed, LockInv, ConfirmInstall PROVE Typed'
<1>1. serve.image \in Versions
  BY Fields DEF LockInv, ConfirmInstall
<1>2. marker' \in Markers
  BY ConfirmedType DEF ConfirmInstall, Typed
<1>3. unclean' \in [Versions -> 0..Limit]
  BY <1>1, CountType DEF ConfirmInstall, Typed
<1> QED BY <1>2, <1>3 DEF ConfirmInstall, Typed, fixed

LEMMA EndType ==
  ASSUME Typed, NEW b, EndInstaller(b)
  PROVE  installer' \in Installs /\ lapsed' \in BOOLEAN
  BY Idlers DEF EndInstaller, Typed

LEMMA TypeStop == ASSUME Typed, Stop PROVE Typed'
<1>1. marker' \in Markers
  BY TakeBackType, Fields DEF Stop, Typed
<1>2. unclean' \in [Versions -> 0..Limit]
  BY CountType DEF Stop, Typed
<1> QED BY <1>1, <1>2, EndType, EventType, Idlers DEF Stop, Typed, fixed

LEMMA TypeRestartWhenDrained == ASSUME Typed, RestartWhenDrained PROVE Typed'
<1>1. [marker EXCEPT !.recent = marker.recent \/ marker.status = "installing"] \in Markers
  BY DEF Typed, Markers
<1>2. marker' \in Markers
  BY <1>1, TakeBackType, Fields DEF RestartWhenDrained
<1> QED BY <1>2, Idlers DEF RestartWhenDrained, Typed, fixed

LEMMA EndUncleanType ==
  ASSUME Typed, EndUnclean, events' \in 0..MaxEvents PROVE Typed'
<1>1. unclean' \in [Versions -> 0..Limit]
  BY CountType DEF EndUnclean, Typed
<1> QED BY <1>1, EndType, Idlers DEF EndUnclean, Typed, fixed, installVars

LEMMA TypeKill == ASSUME Typed, Kill PROVE Typed'
  BY EndUncleanType, EventType DEF Kill, Typed

LEMMA TypeCrash == ASSUME Typed, Crash PROVE Typed'
  BY EndUncleanType DEF Crash, Typed

LEMMA TypeKillUpdate == ASSUME Typed, KillUpdate PROVE Typed'
  BY EndType, EventType DEF KillUpdate, Typed, fixed, installVars

LEMMA TypeCommandStart == ASSUME Typed, CommandStart PROVE Typed'
<1>1. command' \in Calls
  BY Bounds DEF CommandStart, Typed, Calls
<1> QED BY <1>1, EventType DEF CommandStart, Typed, installVars

LEMMA TypeCommandOpen == ASSUME Typed, CommandOpen PROVE Typed'
<1>1. marker' \in Markers
  BY Fields, RecordTypes, SettingTypes DEF CommandOpen, Typed
<1>2. command' \in Calls
  <2>1. [command EXCEPT !.phase = "migrating"] \in Calls
    BY DEF Typed, Calls
  <2> QED BY <2>1, Idlers DEF CommandOpen
<1> QED BY <1>1, <1>2 DEF CommandOpen, Typed

LEMMA TypeCommandMigrate == ASSUME Typed, CallInv, CommandMigrate PROVE Typed'
<1>1. command.image \in Versions
  BY Fields DEF CallInv, CommandMigrate
<1>2. store' \in Nat
  BY <1>1, Bounds, LaterType DEF CommandMigrate, Typed
<1> QED BY <1>2, Idlers DEF CommandMigrate, Typed, installVars

LEMMA TypeEditSettings == ASSUME Typed, EditSettings PROVE Typed'
  BY EventType DEF EditSettings, Typed, installVars

LEMMA TypePublish == ASSUME Typed, Publish PROVE Typed'
<1>1. latest' \in Versions
  BY UpdaterAssumption DEF Publish, Typed, Versions
<1> QED BY <1>1 DEF Publish, Typed, installVars

LEMMA TypeAge == ASSUME Typed, Age PROVE Typed'
<1>1. marker' \in Markers
  BY MarkerWith, SettingTypes, Bounds DEF Age, Typed
<1> QED BY <1>1 DEF Age, Typed, fixed

\* Every step keeps the types.
LEMMA TypedStep == ASSUME Typed, LockInv, CallInv, [Next]_vars PROVE Typed'
<1>1. CASE InstallMark
  BY <1>1, TypeInstallMark
<1>2. CASE CandidateRefused
  BY <1>2, TypeCandidateRefused
<1>3. CASE SwapFails
  BY <1>3, TypeSwapFails
<1>4. CASE ArmSwap
  BY <1>4, TypeArmSwap
<1>5. CASE Unlink
  BY <1>5, TypeUnlink
<1>6. CASE Link
  BY <1>6, TypeLink
<1>7. CASE Replace
  BY <1>7, TypeReplace
<1>8. CASE RollbackRecorded
  BY <1>8, TypeRollbackRecorded
<1>9. CASE RollbackRename
  BY <1>9, TypeRollbackRename
<1>10. CASE RollbackDone
  BY <1>10, TypeRollbackDone
<1>11. CASE Exec
  BY <1>11, TypeExec
<1>12. CASE EarlyRecord
  BY <1>12, TypeEarlyRecord
<1>13. CASE RefusedExit
  BY <1>13, TypeRefusedExit
<1>14. CASE CrashRecord
  BY <1>14, TypeCrashRecord
<1>15. CASE CrashRefused
  BY <1>15, TypeCrashRefused
<1>16. CASE PutBackFails
  BY <1>16, TypePutBackFails
<1>17. CASE PutBack
  BY <1>17, TypePutBack
<1>18. CASE AdmitBoot
  BY <1>18, TypeAdmitBoot
<1>19. CASE OpenStore
  BY <1>19, TypeOpenStore
<1>20. CASE Migrate
  BY <1>20, TypeMigrate
<1>21. CASE BootNoop
  BY <1>21, TypeBootNoop
<1>22. CASE BootCleanupBak
  BY <1>22, TypeBootCleanupBak
<1>23. CASE BootClear
  BY <1>23, TypeBootClear
<1>24. CASE BootVeto
  BY <1>24, TypeBootVeto
<1>25. CASE BootRestore
  BY <1>25, TypeBootRestore
<1>26. CASE BootRestored
  BY <1>26, TypeBootRestored
<1>27. CASE BootRollbackOvertaken
  BY <1>27, TypeBootRollbackOvertaken
<1>28. CASE BootRollbackFinished
  BY <1>28, TypeBootRollbackFinished
<1>29. CASE ConfirmInstall
  BY <1>29, TypeConfirmInstall
<1>30. CASE Stop
  BY <1>30, TypeStop
<1>31. CASE RestartWhenDrained
  BY <1>31, TypeRestartWhenDrained
<1>32. CASE Kill
  BY <1>32, TypeKill
<1>33. CASE Crash
  BY <1>33, TypeCrash
<1>34. CASE KillUpdate
  BY <1>34, TypeKillUpdate
<1>35. CASE CommandStart
  BY <1>35, TypeCommandStart
<1>36. CASE CommandOpen
  BY <1>36, TypeCommandOpen
<1>37. CASE CommandMigrate
  BY <1>37, TypeCommandMigrate
<1>38. CASE EditSettings
  BY <1>38, TypeEditSettings
<1>39. CASE Publish
  BY <1>39, TypePublish
<1>40. CASE Age
  BY <1>40, TypeAge
<1>41. CASE UNCHANGED vars
  BY <1>41 DEF vars, Typed
<1> QED
  BY <1>1, <1>2, <1>3, <1>4, <1>5, <1>6, <1>7, <1>8, <1>9, <1>10, <1>11, <1>12, <1>13, <1>14,
    <1>15, <1>16, <1>17, <1>18, <1>19, <1>20, <1>21, <1>22, <1>23, <1>24, <1>25, <1>26, <1>27,
    <1>28, <1>29, <1>30, <1>31, <1>32, <1>33, <1>34, <1>35, <1>36, <1>37, <1>38, <1>39, <1>40,
    <1>41 DEF Next, Install, Rollback, Start, Housekeeping, End, Commands

-----------------------------------------------------------------------------
\* What a state of its type is, in the forms the steps use.

\* The forms above, from the type.
LEMMA TypedNumbers == ASSUME Typed PROVE Numbers
<1>1. /\ serve.image \in Releases /\ serve.counted \in 0..FailedCap
      /\ installer.image \in Releases /\ installer.target \in Releases /\ command.image \in Releases
  BY DEF Typed, Serves, Installs, Calls
<1>2. /\ marker.target \in Releases /\ marker.prev \in Releases /\ marker.opened \in Releases
      /\ marker.veto \in Releases /\ marker.migrated \in Releases /\ marker.rejected \in Releases
      /\ marker.failed \in 0..FailedCap
  BY DEF Typed, Markers
<1>3. bin \in Int /\ bin >= 1 /\ latest \in Int /\ latest >= 1 /\ bak \in Int /\ bak >= 0
  BY Bounds DEF Typed
<1>4. store \in Int /\ events \in Int
  BY UpdaterAssumption DEF Typed
<1>5. \A n \in 0..FailedCap : n \in Int /\ n >= 0
  BY Bounds
<1> QED BY <1>1, <1>2, <1>3, <1>4, <1>5, Bounds DEF Numbers

LEMMA TypedRecords == ASSUME Typed PROVE Records
<1>1. serve \in Serves /\ installer \in Installs /\ command \in Calls /\ marker \in Markers
  BY DEF Typed
<1>2. serve = [phase |-> serve.phase, image |-> serve.image, counted |-> serve.counted,
               hold |-> serve.hold, pending |-> serve.pending]
  BY <1>1 DEF Serves
<1>3. installer = [op |-> installer.op, by |-> installer.by, auto |-> installer.auto,
                   image |-> installer.image, target |-> installer.target,
                   step |-> installer.step]
  BY <1>1 DEF Installs
<1>4. command = [phase |-> command.phase, image |-> command.image]
  BY <1>1 DEF Calls
<1>5. marker = [status |-> marker.status, target |-> marker.target, prev |-> marker.prev,
                swap |-> marker.swap, recent |-> marker.recent, rejected |-> marker.rejected,
                digest |-> marker.digest, opened |-> marker.opened, rolling |-> marker.rolling,
                veto |-> marker.veto, failed |-> marker.failed, migrated |-> marker.migrated,
                refused |-> marker.refused, token |-> marker.token]
  BY <1>1 DEF Markers
<1> QED BY <1>2, <1>3, <1>4, <1>5 DEF Records

LEMMA TypedFlags == ASSUME Typed PROVE Flags
<1>1. /\ marker.recent \in BOOLEAN /\ marker.swap \in BOOLEAN /\ marker.rolling \in BOOLEAN
      /\ marker.status \in {"", "installing", "installed"}
  BY DEF Typed, Markers
<1>2. /\ installer.by \in {"none", "serve", "cli"}
      /\ installer.step \in {"idle", "marked", "armed", "unlinked", "linked", "recorded", "renamed"}
  BY DEF Typed, Installs
<1> QED BY <1>1, <1>2 DEF Flags

LEMMA TypedImages == ASSUME Typed PROVE Images
<1>1. serve.image \in Releases /\ command.image \in Releases /\ bin \in Versions /\ bak \in Releases
  BY DEF Typed, Serves, Calls
<1> QED BY <1>1 DEF Images, Releases

LEMMA TypedUncleanCounts == ASSUME Typed PROVE UncleanCounts
<1>1. unclean \in [Versions -> 0..Limit]
  BY DEF Typed
<1>2. \A v \in Versions : unclean[v] \in Int /\ unclean[v] >= 0
  BY <1>1, Bounds
<1>3. /\ marker.target /= None => marker.target \in Versions
      /\ serve.image /= None => serve.image \in Versions
  BY Fields DEF Releases
<1> QED BY <1>1, <1>2, <1>3, Bounds DEF UncleanCounts

LEMMA SchemaOrders == SchemaOrder
  BY UpdaterAssumption DEF SchemaOrder

LEMMA TypedUncleanCountsNext == ASSUME Typed' PROVE UncleanCounts'
<1>1. unclean' \in [Versions -> 0..Limit]
  BY DEF Typed
<1>2. \A v \in Versions : unclean'[v] \in Int /\ unclean'[v] >= 0
  BY <1>1, Bounds
<1>3. /\ marker'.target \in Releases /\ serve'.image \in Releases
  BY DEF Typed, Markers, Serves
<1> QED BY <1>1, <1>2, <1>3, Bounds DEF UncleanCounts, Releases

-----------------------------------------------------------------------------
\* What each of the larger steps sets.

\* An install marks the latest release, and nothing else of the store's records stays.
LEMMA InstallMarkSets ==
  ASSUME Numbers, InstallMark
  PROVE  /\ Unlocked /\ installer'.step = "marked" /\ installer'.op = "install"
         /\ installer'.by \in {"serve", "cli"}
         /\ (installer'.by = "serve" => serve.phase = "serving")
         /\ installer'.target = latest /\ marker'.target = latest
         /\ marker'.status = "installing" /\ marker'.failed = 0
         /\ marker'.opened = None /\ marker'.veto = None /\ marker'.migrated = None
         /\ ~marker'.rolling /\ ~marker'.swap /\ marker'.recent
         /\ marker'.prev < latest /\ marker'.prev \in {bin, serve.image}
         /\ (marker'.prev = bin => bin < latest)
         /\ undone' = NoUndo /\ lapsed' = (lapsed \/ VetoNeeded)
         /\ UNCHANGED <<bin, bak, store, latest, serve, command, unclean>>
<1>1. PICK i \in Installers, v \in Versions :
        /\ MayInstall(i, v)
        /\ marker' = FreshMarker(i, v)
        /\ installer' = [op |-> "install", by |-> i.by, auto |-> i.auto, image |-> i.image,
                         target |-> v, step |-> "marked"]
  BY DEF InstallMark
<1>2. v = latest /\ i.image < v /\ Unlocked
  <2>1. i.image \in Int /\ v \in Int
    BY DEF Installers, Numbers, Versions
  <2> QED BY <2>1, <1>1 DEF MayInstall
<1>3. i.by \in {"serve", "cli"} /\ (i.by = "serve" => serve.phase = "serving")
      /\ i.image \in {bin, serve.image}
  BY DEF Installers
<1>4. /\ marker'.target = v /\ marker'.prev = i.image
      /\ marker'.status = "installing" /\ marker'.failed = 0
      /\ marker'.opened = None /\ marker'.veto = None /\ marker'.migrated = None
      /\ ~marker'.rolling /\ ~marker'.swap /\ marker'.recent
  BY <1>1 DEF FreshMarker, NoMarker, None
<1>5. /\ installer'.step = "marked" /\ installer'.op = "install" /\ installer'.by = i.by
      /\ installer'.target = v
  BY <1>1
<1> QED
  BY <1>2, <1>3, <1>4, <1>5 DEF InstallMark

\* A start that is taken back changes the count alone.
LEMMA TakeBackSets ==
  ASSUME NEW m, m = [status |-> m.status, target |-> m.target, prev |-> m.prev, swap |-> m.swap,
                     recent |-> m.recent, rejected |-> m.rejected, digest |-> m.digest,
                     opened |-> m.opened, rolling |-> m.rolling, veto |-> m.veto,
                     failed |-> m.failed, migrated |-> m.migrated, refused |-> m.refused,
                     token |-> m.token]
  PROVE  LET n == TakeBackFailedStart(m) IN
         /\ n.status = m.status /\ n.target = m.target /\ n.prev = m.prev
         /\ n.swap = m.swap /\ n.rejected = m.rejected /\ n.digest = m.digest
         /\ n.opened = m.opened /\ n.rolling = m.rolling /\ n.veto = m.veto
         /\ n.migrated = m.migrated /\ n.recent = m.recent
         /\ n.failed = IF CountsStart(m, serve.image) /\ serve.counted > 0 /\ m.failed = serve.counted
                       THEN m.failed - 1 ELSE m.failed
  BY DEF TakeBackFailedStart

\* The end of a start keeps the install on record, and takes the work under way with it.
LEMMA EndSets ==
  ASSUME Records, Flags, LockInv, Stop \/ RestartWhenDrained \/ Kill \/ Crash
  PROVE  /\ serve.phase /= "down" /\ serve'.phase = "down" /\ serve'.image = None
         /\ UNCHANGED <<bin, bak, store, settings, latest, command, undone>>
         /\ KeepsInstall
         /\ marker'.recent = marker.recent \/ marker.status = "installing"
         /\ \/ installer' = installer /\ installer.by /= "serve"
            \/ installer' = Idle /\ installer.by = "serve" /\ (installer.op = "install" => lapsed')
         /\ lapsed => lapsed'
<1>1. CASE Stop
  <2>1. KeepsInstall /\ marker'.recent = marker.recent
    BY <1>1, TakeBackSets DEF Stop, Records, KeepsInstall
  <2> QED BY <1>1, <2>1 DEF Stop, Down, EndInstaller, Running, fixed
<1>2. CASE RestartWhenDrained
  <2> DEFINE m == [marker EXCEPT !.recent = @ \/ marker.status = "installing"]
  <2>1. m.status = marker.status /\ m.target = marker.target /\ m.prev = marker.prev
        /\ m.swap = marker.swap /\ m.rejected = marker.rejected /\ m.digest = marker.digest
        /\ m.opened = marker.opened /\ m.rolling = marker.rolling /\ m.veto = marker.veto
        /\ m.migrated = marker.migrated /\ m.failed = marker.failed
        /\ m.recent = (marker.recent \/ marker.status = "installing")
    BY DEF Records
  <2>2. m = [status |-> m.status, target |-> m.target, prev |-> m.prev, swap |-> m.swap,
             recent |-> m.recent, rejected |-> m.rejected, digest |-> m.digest,
             opened |-> m.opened, rolling |-> m.rolling, veto |-> m.veto, failed |-> m.failed,
             migrated |-> m.migrated, refused |-> m.refused, token |-> m.token]
    BY DEF Records
  <2>3. marker' = TakeBackFailedStart(m)
    BY <1>2 DEF RestartWhenDrained
  <2> HIDE DEF m
  <2>4. KeepsInstall /\ marker'.recent = m.recent
    BY <2>1, <2>2, <2>3, TakeBackSets DEF KeepsInstall
  <2>5. marker'.recent = marker.recent \/ marker.status = "installing"
    BY <2>1, <2>4 DEF Flags
  <2> QED BY <1>2, <2>4, <2>5 DEF RestartWhenDrained, LockInv, Unlocked, Down, fixed
<1>3. CASE Kill
  BY <1>3 DEF Kill, EndUnclean, Down, EndInstaller, KeepsInstall, installVars, fixed
<1>4. CASE Crash
  BY <1>4 DEF Crash, EndUnclean, Down, EndInstaller, KeepsInstall, installVars, fixed
<1> QED BY <1>1, <1>2, <1>3, <1>4

\* A rename that fails changes nothing a rollback looks at.
LEMMA PutBackFailsSets ==
  ASSUME Records, PutBackFails
  PROVE  /\ Unlocked /\ serve.phase = "exec"
         /\ UNCHANGED <<bin, bak, store, settings, command, latest, installer, lapsed, unclean, undone>>
         /\ KeepsInstall /\ marker'.recent = marker.recent /\ marker'.failed = marker.failed
         /\ \/ serve'.phase = "down" /\ serve'.image = None
            \/ serve'.phase = "refused" /\ serve'.image = serve.image
<1>1. CASE serve' = Down /\ marker' = marker
  BY <1>1 DEF PutBackFails, Down, KeepsInstall, fixed
<1>2. CASE serve' = [serve EXCEPT !.phase = "refused"] /\ marker' = [marker EXCEPT !.refused = TRUE]
  <2>1. serve'.phase = "refused" /\ serve'.image = serve.image
    BY <1>2 DEF Records
  <2>2. KeepsInstall /\ marker'.recent = marker.recent /\ marker'.failed = marker.failed
    BY <1>2 DEF Records, KeepsInstall
  <2> QED BY <2>1, <2>2 DEF PutBackFails, fixed
<1> QED BY <1>1, <1>2 DEF PutBackFails

\* The swap puts the target in place of the binary, which is the backup.
LEMMA ReplaceSets ==
  ASSUME Records, LockInv, Replace
  PROVE  /\ installer.step = "linked" /\ installer' = Idle /\ bin' = installer.target /\ bak = bin
         /\ serve.phase \notin Locking /\ serve'.phase = serve.phase /\ serve'.image = serve.image
         /\ serve'.counted = serve.counted
         /\ marker.target = installer.target /\ marker.status = "installing" /\ marker.recent /\ marker.swap
         /\ marker.failed = 0 /\ marker.opened = None /\ marker.veto = None
         /\ unclean' = [unclean EXCEPT ![installer.target] = 0]
         /\ UNCHANGED <<bak, marker, store, settings, command, latest, lapsed, undone>>
<1>1. serve'.phase = serve.phase /\ serve'.image = serve.image /\ serve'.counted = serve.counted
  BY DEF Replace, Records
<1> QED BY <1>1 DEF Replace, LockInv, Swapping

\* The operator's rollback vetoes and holds the release it leaves.
LEMMA RollbackRecordedSets ==
  ASSUME Records, RollbackRecorded
  PROVE  /\ Unlocked /\ serve.phase = "serving" /\ bak /= None /\ ~RollbackRefusal(marker)
         /\ installer'.op = "rollback" /\ installer'.by = "serve" /\ installer'.step = "recorded"
         /\ marker'.status = "" /\ marker'.rolling = (marker.target /= None)
         /\ marker'.veto = IF marker.target /= None THEN marker.target ELSE serve.image
         /\ marker'.target = marker.target /\ marker'.prev = marker.prev /\ marker'.swap = marker.swap
         /\ marker'.recent = marker.recent /\ marker'.opened = marker.opened
         /\ marker'.migrated = marker.migrated /\ marker'.failed = marker.failed
         /\ UNCHANGED <<bin, bak, store, settings, command, latest, serve, lapsed, unclean>>
<1>1. /\ installer'.op = "rollback" /\ installer'.by = "serve" /\ installer'.step = "recorded"
  BY DEF RollbackRecorded, Idle
<1>2. /\ marker'.status = "" /\ marker'.rolling = (marker.target /= None)
      /\ marker'.veto = IF marker.target /= None THEN marker.target ELSE serve.image
      /\ marker'.target = marker.target /\ marker'.prev = marker.prev /\ marker'.swap = marker.swap
      /\ marker'.recent = marker.recent /\ marker'.opened = marker.opened
      /\ marker'.migrated = marker.migrated /\ marker'.failed = marker.failed
  BY DEF RollbackRecorded, OperatorRollbackRecord, RejectedVersionOf, Records
<1> QED BY <1>1, <1>2 DEF RollbackRecorded

\* A migration is recorded before its first step.
LEMMA MigratingSets ==
  ASSUME Records, NEW v, marker' = Migrating(marker, v)
  PROVE  /\ marker'.status = marker.status /\ marker'.target = marker.target /\ marker'.prev = marker.prev
         /\ marker'.swap = marker.swap /\ marker'.recent = marker.recent /\ marker'.rolling = marker.rolling
         /\ marker'.veto = marker.veto /\ marker'.failed = marker.failed
         /\ marker'.opened = IF ArmsDataDirRecord(marker, v) THEN v ELSE marker.opened
         /\ marker'.migrated = IF ArmsStoreRecord(marker, v) THEN v ELSE marker.migrated
  BY DEF Migrating, Records

\* A rename of the backup: the binary is the backup, and no other backup is left.
LEMMA RestoreSets ==
  ASSUME Restore
  PROVE  /\ bin' = bak /\ bak' \in {None, bin'}
         /\ bak' /= None => bak' = bak /\ bak = bin
  BY DEF Restore

-----------------------------------------------------------------------------
\* The lock, the releases in their order and the marker.

\* The steps that take, pass on or let go what the invariants are about.
LEMMA LockInstallMark == ASSUME Numbers, Records, LockInv, LatestInv, InstallMark PROVE LockInv'
<1>1. /\ installer.step = "idle" /\ serve.phase \notin Locking
      /\ serve' = serve /\ bak' = bak /\ bin' = bin
  BY InstallMarkSets DEF Unlocked
<1>2. /\ installer'.step = "marked" /\ installer'.op = "install" /\ installer'.by \in {"serve", "cli"}
      /\ installer'.by = "serve" => serve.phase = "serving"
      /\ marker'.status = "installing" /\ marker'.target = installer'.target /\ marker'.recent
      /\ marker'.failed = 0 /\ marker'.opened = None /\ marker'.veto = None
      /\ installer'.target \in Versions
  BY InstallMarkSets DEF InstallMark, LatestInv
<1> QED BY <1>1, <1>2 DEF LockInv, Swapping, RollingBack, Locking

LEMMA LockRollbackRecorded ==
  ASSUME Records, LockInv, MarkInv, RollbackRecorded PROVE LockInv'
<1>1. marker'.opened = None
  BY RollbackRecordedSets DEF MarkInv, RollbackRefusal
<1> QED BY <1>1, RollbackRecordedSets DEF LockInv, Unlocked, Swapping, RollingBack, Locking

LEMMA LockExec == ASSUME Numbers, Records, LockInv, Exec PROVE LockInv'
<1>1. /\ serve.phase = "down" /\ serve'.phase = "exec" /\ serve'.image = bin
      /\ UNCHANGED <<bin, bak, marker, installer>>
  BY DEF Exec, Down, installVars
<1>2. bin /= None
  BY DEF Numbers, None
<1>3. installer.step \notin RollingBack
  BY <1>1 DEF LockInv
<1> QED BY <1>1, <1>2, <1>3 DEF LockInv, Locking, Swapping, RollingBack

LEMMA LockPutBackFails == ASSUME Records, LockInv, PutBackFails PROVE LockInv'
  BY PutBackFailsSets DEF LockInv, KeepsInstall, Unlocked, Locking, Swapping, RollingBack

LEMMA LatestPutBack == ASSUME Numbers, LockInv, LatestInv, PutBack PROVE LatestInv'
<1>1. installer' = installer /\ installer.step = "idle" /\ latest' = latest
  BY DEF PutBack, LockInv, Locking, fixed
<1> QED BY <1>1, RestoreSets DEF PutBack, LatestInv, Numbers, Swapping, None

LEMMA LatestBootRestore == ASSUME Numbers, LockInv, LatestInv, BootRestore PROVE LatestInv'
<1>1. installer' = installer /\ installer.step = "idle" /\ latest' = latest
  BY DEF BootRestore, LockInv, Locking, fixed
<1> QED BY <1>1, RestoreSets DEF BootRestore, LatestInv, Numbers, Swapping, None

LEMMA MarkInstallMark == ASSUME Numbers, MarkInv, InstallMark PROVE MarkInv'
<1>1. /\ marker'.target = latest /\ marker'.prev \in Int /\ marker'.prev < latest
      /\ marker'.opened = None /\ marker'.veto = None
  BY InstallMarkSets DEF Numbers
<1>2. latest \in Int /\ latest >= 1
  BY DEF Numbers
<1> QED BY <1>1, <1>2 DEF MarkInv, None

\* The lock serializes the sequences, and a process that ends lets it go.
LEMMA LockStep ==
  ASSUME Numbers, Records, Flags, Images, SchemaOrder, LockInv, RestInv, LatestInv, MarkInv,
    [Next]_vars
  PROVE  LockInv'
<1>1. CASE InstallMark
  BY <1>1, LockInstallMark
<1>2. CASE CandidateRefused
  BY <1>2 DEF CandidateRefused, LockInv, Records
<1>3. CASE SwapFails
  BY <1>3 DEF SwapFails, Event, Installers, MayInstall, Unlocked, SwapAwaitingRestart, HeldBack,
    Locking, LockInv
<1>4. CASE ArmSwap
  BY <1>4 DEF ArmSwap, LockInv, Swapping, RollingBack, Records
<1>5. CASE Unlink
  BY <1>5 DEF Unlink, LockInv, Swapping, RollingBack, Records
<1>6. CASE Link
  BY <1>6 DEF Link, LockInv, Swapping, RollingBack, Records
<1>7. CASE Replace
  BY <1>7 DEF Replace, Idle, LockInv, Locking, Swapping, RollingBack, Records
<1>8. CASE RollbackRecorded
  BY <1>8, LockRollbackRecorded
<1>9. CASE RollbackRename
  BY <1>9 DEF RollbackRename, Restore, LockInv, Swapping, RollingBack, Records
<1>10. CASE RollbackDone
  BY <1>10 DEF RollbackDone, Idle, LockInv, Swapping, RollingBack, Records
<1>11. CASE Exec
  BY <1>11, LockExec
<1>12. CASE EarlyRecord
  BY <1>12 DEF EarlyRecord, Accepts, MayRestoreEarly, RollbackRecord, fixed, Unlocked,
    EarlyRollback, NoMarker, Locking, InstallArmed, LockInv, Records
<1>13. CASE RefusedExit
  BY <1>13 DEF RefusedExit, Down, installVars, fixed, Locking, InstallArmed, LockInv
<1>14. CASE CrashRecord
  BY <1>14 DEF CrashRecord, Accepts, Unlocked, MayPutBack, CrashRollbackRecord, fixed, Locking,
    CrashRollback, CrashRollbackAtLimit, InstallArmed, LockInv, Records
<1>15. CASE CrashRefused
  BY <1>15 DEF CrashRefused, fixed, Locking, InstallArmed, LockInv, Records
<1>16. CASE PutBackFails
  BY <1>16, LockPutBackFails
<1>17. CASE PutBack
  BY <1>17 DEF PutBack, Restore, Down, fixed, LockInv, Locking
<1>18. CASE AdmitBoot
  BY <1>18 DEF AdmitBoot, Unlocked, Admitted, fixed, InstallArmed, Locking, ArmsDataDirRecord,
    LockInv, Records
<1>19. CASE OpenStore
  BY <1>19 DEF OpenStore, Unlocked, Migrating, fixed, Locking, ArmsDataDirRecord, ArmsStoreRecord,
    InstallArmed, LockInv, Records
<1>20. CASE Migrate
  BY <1>20 DEF Migrate, installVars, fixed, LockInv, Locking, Records
<1>21. CASE BootNoop
  BY <1>21 DEF BootNoop, Boots, installVars, fixed, LockInv, Locking, Records
<1>22. CASE BootCleanupBak
  BY <1>22 DEF BootCleanupBak, Booting, ClearInstall, Boots, fixed, NoMarker, Locking, LockInv,
    Swapping, RollingBack, Records
<1>23. CASE BootClear
  BY <1>23 DEF BootClear, Booting, RunsTarget, ClearInstall, Boots, fixed, Unlocked, NoMarker,
    Locking, LockInv, RollingBack
<1>24. CASE BootVeto
  BY <1>24 DEF BootVeto, Booting, RunsTarget, Boots, fixed, Unlocked, Locking, LockInv, Records
<1>25. CASE BootRestore
  BY <1>25 DEF BootRestore, Restore, Boots, fixed, LockInv, Locking, Records
<1>26. CASE BootRestored
  BY <1>26 DEF BootRestored, ClearInstall, Boots, fixed, NoMarker, LockInv, Locking, Records
<1>27. CASE BootRollbackOvertaken
  BY <1>27 DEF BootRollbackOvertaken, Booting, RunsTarget, ProbationOverRollback, Boots, fixed,
    Locking, LockInv, Records
<1>28. CASE BootRollbackFinished
  BY <1>28 DEF BootRollbackFinished, Booting, RunsTarget, ClearInstall, Boots, fixed, NoMarker,
    Locking, LockInv, Records
<1>29. CASE ConfirmInstall
  BY <1>29 DEF ConfirmInstall, Unlocked, fixed, Locking, LockInv
<1>30. CASE Stop
  BY <1>30 DEF Stop, Running, Unlocked, Down, EndInstaller, fixed, Locking, Idle, InstallArmed,
    LockInv, Swapping, RollingBack
<1>31. CASE RestartWhenDrained
  BY <1>31 DEF RestartWhenDrained, Unlocked, Down, fixed, Locking, InstallArmed, LockInv
<1>32. CASE Kill
  BY <1>32 DEF Kill, EndUnclean, Down, Running, EndInstaller, installVars, fixed, Idle, LockInv,
    Locking, Swapping, RollingBack
<1>33. CASE Crash
  BY <1>33 DEF Crash, EndUnclean, Down, Running, EndInstaller, installVars, fixed, Idle, LockInv,
    Locking, Swapping, RollingBack
<1>34. CASE KillUpdate
  BY <1>34 DEF KillUpdate, EndInstaller, installVars, fixed, Idle, LockInv, Swapping, RollingBack
<1>35. CASE CommandStart
  BY <1>35 DEF CommandStart, installVars, LockInv
<1>36. CASE CommandOpen
  BY <1>36 DEF CommandOpen, NoCommand, Unlocked, Migrating, Locking, ArmsDataDirRecord,
    ArmsStoreRecord, InstallArmed, LockInv
<1>37. CASE CommandMigrate
  BY <1>37 DEF CommandMigrate, NoCommand, installVars, LockInv
<1>38. CASE EditSettings
  BY <1>38 DEF EditSettings, installVars, LockInv
<1>39. CASE Publish
  BY <1>39 DEF Publish, installVars, LockInv
<1>40. CASE Age
  BY <1>40 DEF Age, fixed, LockInv
<1>41. CASE UNCHANGED vars
  BY <1>41 DEF vars, LockInv
<1> QED
  BY <1>1, <1>2, <1>3, <1>4, <1>5, <1>6, <1>7, <1>8, <1>9, <1>10, <1>11, <1>12, <1>13, <1>14,
    <1>15, <1>16, <1>17, <1>18, <1>19, <1>20, <1>21, <1>22, <1>23, <1>24, <1>25, <1>26, <1>27,
    <1>28, <1>29, <1>30, <1>31, <1>32, <1>33, <1>34, <1>35, <1>36, <1>37, <1>38, <1>39, <1>40,
    <1>41 DEF Next, Install, Rollback, Start, Housekeeping, End, Commands

\* No step runs ahead of the latest release.
LEMMA LatestStep ==
  ASSUME Numbers, Records, Flags, Images, SchemaOrder, LockInv, RestInv, LatestInv, MarkInv,
    [Next]_vars
  PROVE  LatestInv'
<1>1. CASE InstallMark
  BY <1>1 DEF InstallMark, Event, Installers, MayInstall, FreshMarker, NoUndo, VetoNeeded,
    SwapAwaitingRestart, HeldBack, NoMarker, LatestInv, Numbers
<1>2. CASE CandidateRefused
  BY <1>2 DEF CandidateRefused, LatestInv
<1>3. CASE SwapFails
  BY <1>3 DEF SwapFails, LatestInv, None, Numbers
<1>4. CASE ArmSwap
  BY <1>4 DEF ArmSwap, LatestInv, Swapping
<1>5. CASE Unlink
  BY <1>5 DEF Unlink, LatestInv, Swapping, None, Numbers
<1>6. CASE Link
  BY <1>6 DEF Link, LatestInv, Swapping
<1>7. CASE Replace
  BY <1>7 DEF Replace, Idle, LatestInv, Swapping
<1>8. CASE RollbackRecorded
  BY <1>8 DEF RollbackRecorded, OperatorRollbackRecord, LatestInv, Swapping
<1>9. CASE RollbackRename
  BY <1>9 DEF RollbackRename, Restore, LatestInv, Swapping, None, Numbers
<1>10. CASE RollbackDone
  BY <1>10 DEF RollbackDone, Idle, LatestInv, Swapping
<1>11. CASE Exec
  BY <1>11 DEF Exec, installVars, fixed, LatestInv
<1>12. CASE EarlyRecord
  BY <1>12 DEF EarlyRecord, RollbackRecord, fixed, NoMarker, InstallArmed, LatestInv
<1>13. CASE RefusedExit
  BY <1>13 DEF RefusedExit, installVars, fixed, InstallArmed, LatestInv
<1>14. CASE CrashRecord
  BY <1>14 DEF CrashRecord, CrashRollbackRecord, fixed, InstallArmed, LatestInv
<1>15. CASE CrashRefused
  BY <1>15 DEF CrashRefused, fixed, InstallArmed, LatestInv
<1>16. CASE PutBackFails
  BY <1>16 DEF PutBackFails, fixed, InstallArmed, LatestInv
<1>17. CASE PutBack
  BY <1>17, LatestPutBack
<1>18. CASE AdmitBoot
  BY <1>18 DEF AdmitBoot, Admitted, fixed, InstallArmed, ArmsDataDirRecord, LatestInv
<1>19. CASE OpenStore
  BY <1>19 DEF OpenStore, Migrating, fixed, ArmsDataDirRecord, ArmsStoreRecord, InstallArmed,
    LatestInv
<1>20. CASE Migrate
  BY <1>20 DEF Migrate, installVars, fixed, LatestInv
<1>21. CASE BootNoop
  BY <1>21 DEF BootNoop, Boots, installVars, fixed, LatestInv
<1>22. CASE BootCleanupBak
  BY <1>22 DEF BootCleanupBak, ClearInstall, Boots, fixed, NoMarker, LatestInv, None, Numbers
<1>23. CASE BootClear
  BY <1>23 DEF BootClear, ClearInstall, Boots, fixed, NoMarker, LatestInv
<1>24. CASE BootVeto
  BY <1>24 DEF BootVeto, Boots, fixed, LatestInv
<1>25. CASE BootRestore
  BY <1>25, LatestBootRestore
<1>26. CASE BootRestored
  BY <1>26 DEF BootRestored, ClearInstall, Boots, fixed, NoMarker, LatestInv
<1>27. CASE BootRollbackOvertaken
  BY <1>27 DEF BootRollbackOvertaken, ProbationOverRollback, Boots, fixed, LatestInv
<1>28. CASE BootRollbackFinished
  BY <1>28 DEF BootRollbackFinished, ClearInstall, Boots, fixed, NoMarker, LatestInv
<1>29. CASE ConfirmInstall
  BY <1>29 DEF ConfirmInstall, fixed, LatestInv
<1>30. CASE Stop
  BY <1>30 DEF Stop, Running, Down, EndInstaller, fixed, Idle, InstallArmed, LatestInv, Swapping
<1>31. CASE RestartWhenDrained
  BY <1>31 DEF RestartWhenDrained, fixed, InstallArmed, LatestInv
<1>32. CASE Kill
  BY <1>32 DEF Kill, EndUnclean, Down, Running, EndInstaller, installVars, fixed, Idle, LatestInv,
    Swapping
<1>33. CASE Crash
  BY <1>33 DEF Crash, EndUnclean, Down, Running, EndInstaller, installVars, fixed, Idle,
    LatestInv, Swapping
<1>34. CASE KillUpdate
  BY <1>34 DEF KillUpdate, EndInstaller, installVars, fixed, Idle, LatestInv, Swapping
<1>35. CASE CommandStart
  BY <1>35 DEF CommandStart, installVars, LatestInv
<1>36. CASE CommandOpen
  BY <1>36 DEF CommandOpen, NoCommand, Migrating, ArmsDataDirRecord, ArmsStoreRecord,
    InstallArmed, LatestInv
<1>37. CASE CommandMigrate
  BY <1>37 DEF CommandMigrate, NoCommand, installVars, LatestInv
<1>38. CASE EditSettings
  BY <1>38 DEF EditSettings, installVars, LatestInv
<1>39. CASE Publish
  BY <1>39 DEF Publish, installVars, LatestInv, Numbers
<1>40. CASE Age
  BY <1>40 DEF Age, fixed, LatestInv
<1>41. CASE UNCHANGED vars
  BY <1>41 DEF vars, LatestInv
<1> QED
  BY <1>1, <1>2, <1>3, <1>4, <1>5, <1>6, <1>7, <1>8, <1>9, <1>10, <1>11, <1>12, <1>13, <1>14,
    <1>15, <1>16, <1>17, <1>18, <1>19, <1>20, <1>21, <1>22, <1>23, <1>24, <1>25, <1>26, <1>27,
    <1>28, <1>29, <1>30, <1>31, <1>32, <1>33, <1>34, <1>35, <1>36, <1>37, <1>38, <1>39, <1>40,
    <1>41 DEF Next, Install, Rollback, Start, Housekeeping, End, Commands

\* The marker of an install names two releases.
LEMMA MarkStep ==
  ASSUME Numbers, Records, Flags, Images, SchemaOrder, LockInv, RestInv, LatestInv, MarkInv,
    [Next]_vars
  PROVE  MarkInv'
<1>1. CASE InstallMark
  BY <1>1, MarkInstallMark
<1>2. CASE CandidateRefused
  BY <1>2 DEF CandidateRefused, MarkInv, InstallArmed, Records
<1>3. CASE SwapFails
  BY <1>3 DEF SwapFails, MarkInv, InstallArmed
<1>4. CASE ArmSwap
  BY <1>4 DEF ArmSwap, MarkInv, InstallArmed, Records
<1>5. CASE Unlink
  BY <1>5 DEF Unlink, MarkInv, InstallArmed
<1>6. CASE Link
  BY <1>6 DEF Link, MarkInv, InstallArmed
<1>7. CASE Replace
  BY <1>7 DEF Replace, MarkInv, InstallArmed
<1>8. CASE RollbackRecorded
  BY <1>8 DEF RollbackRecorded, Event, RollbackRefusal, OperatorRollbackRecord, RejectedVersionOf,
    MarkInv, InstallArmed, Records
<1>9. CASE RollbackRename
  BY <1>9 DEF RollbackRename, Restore, MarkInv, InstallArmed
<1>10. CASE RollbackDone
  BY <1>10 DEF RollbackDone, MarkInv, InstallArmed, Records
<1>11. CASE Exec
  BY <1>11 DEF Exec, installVars, fixed, MarkInv, InstallArmed
<1>12. CASE EarlyRecord
  BY <1>12 DEF EarlyRecord, Accepts, MayRestoreEarly, RollbackRecord, fixed, EarlyRollback,
    NoMarker, InstallArmed, MarkInv
<1>13. CASE RefusedExit
  BY <1>13 DEF RefusedExit, installVars, fixed, InstallArmed, MarkInv
<1>14. CASE CrashRecord
  BY <1>14 DEF CrashRecord, Accepts, MayPutBack, CrashRollbackRecord, fixed, CrashRollback,
    CrashRollbackAtLimit, InstallArmed, MarkInv, Records
<1>15. CASE CrashRefused
  BY <1>15 DEF CrashRefused, fixed, InstallArmed, MarkInv, Records
<1>16. CASE PutBackFails
  BY <1>16 DEF PutBackFails, fixed, InstallArmed, MarkInv, Records
<1>17. CASE PutBack
  BY <1>17 DEF PutBack, Restore, fixed, MarkInv, InstallArmed
<1>18. CASE AdmitBoot
  BY <1>18 DEF AdmitBoot, Admitted, fixed, InstallArmed, ArmsDataDirRecord, MarkInv, Records
<1>19. CASE OpenStore
  BY <1>19 DEF OpenStore, Migrating, fixed, ArmsDataDirRecord, ArmsStoreRecord, InstallArmed,
    MarkInv, Records
<1>20. CASE Migrate
  BY <1>20 DEF Migrate, installVars, fixed, MarkInv, InstallArmed
<1>21. CASE BootNoop
  BY <1>21 DEF BootNoop, Boots, installVars, fixed, MarkInv, InstallArmed
<1>22. CASE BootCleanupBak
  BY <1>22 DEF BootCleanupBak, ClearInstall, Boots, fixed, NoMarker, MarkInv, InstallArmed, Records
<1>23. CASE BootClear
  BY <1>23 DEF BootClear, ClearInstall, Boots, fixed, NoMarker, MarkInv, InstallArmed
<1>24. CASE BootVeto
  BY <1>24 DEF BootVeto, Boots, fixed, MarkInv, InstallArmed, Records
<1>25. CASE BootRestore
  BY <1>25 DEF BootRestore, Restore, Boots, fixed, MarkInv, InstallArmed
<1>26. CASE BootRestored
  BY <1>26 DEF BootRestored, ClearInstall, Boots, fixed, NoMarker, MarkInv, InstallArmed
<1>27. CASE BootRollbackOvertaken
  BY <1>27 DEF BootRollbackOvertaken, Booting, RunsTarget, ProbationOverRollback, Boots, fixed,
    MarkInv, InstallArmed, Records
<1>28. CASE BootRollbackFinished
  BY <1>28 DEF BootRollbackFinished, ClearInstall, Boots, fixed, NoMarker, MarkInv, InstallArmed
<1>29. CASE ConfirmInstall
  BY <1>29 DEF ConfirmInstall, fixed, MarkInv, InstallArmed, Records
<1>30. CASE Stop
  BY <1>30 DEF Stop, Event, TakeBackFailedStart, CountUnclean, fixed, CountsStart, InstallArmed,
    MarkInv, Records
<1>31. CASE RestartWhenDrained
  BY <1>31 DEF RestartWhenDrained, TakeBackFailedStart, fixed, CountsStart, InstallArmed, MarkInv,
    Records
<1>32. CASE Kill
  BY <1>32 DEF Kill, EndUnclean, installVars, fixed, MarkInv, InstallArmed
<1>33. CASE Crash
  BY <1>33 DEF Crash, EndUnclean, installVars, fixed, MarkInv, InstallArmed
<1>34. CASE KillUpdate
  BY <1>34 DEF KillUpdate, installVars, fixed, MarkInv, InstallArmed
<1>35. CASE CommandStart
  BY <1>35 DEF CommandStart, installVars, MarkInv, InstallArmed
<1>36. CASE CommandOpen
  BY <1>36 DEF CommandOpen, NoCommand, Migrating, ArmsDataDirRecord, ArmsStoreRecord,
    InstallArmed, MarkInv, Records
<1>37. CASE CommandMigrate
  BY <1>37 DEF CommandMigrate, NoCommand, installVars, MarkInv, InstallArmed
<1>38. CASE EditSettings
  BY <1>38 DEF EditSettings, installVars, MarkInv, InstallArmed
<1>39. CASE Publish
  BY <1>39 DEF Publish, installVars, MarkInv, InstallArmed
<1>40. CASE Age
  BY <1>40 DEF Age, fixed, MarkInv, InstallArmed, Records
<1>41. CASE UNCHANGED vars
  BY <1>41 DEF vars, MarkInv, InstallArmed
<1> QED
  BY <1>1, <1>2, <1>3, <1>4, <1>5, <1>6, <1>7, <1>8, <1>9, <1>10, <1>11, <1>12, <1>13, <1>14,
    <1>15, <1>16, <1>17, <1>18, <1>19, <1>20, <1>21, <1>22, <1>23, <1>24, <1>25, <1>26, <1>27,
    <1>28, <1>29, <1>30, <1>31, <1>32, <1>33, <1>34, <1>35, <1>36, <1>37, <1>38, <1>39, <1>40,
    <1>41 DEF Next, Install, Rollback, Start, Housekeeping, End, Commands

-----------------------------------------------------------------------------
\* The hold and the count of unclean starts.

\* What a rollback holds back stays in the marker.
LEMMA HoldStep ==
  ASSUME Numbers, Records, Flags, Images, SchemaOrder, LockInv, RestInv, LatestInv, MarkInv, HoldInv,
    [Next]_vars
  PROVE  HoldInv'
<1>1. CASE InstallMark
  BY <1>1 DEF InstallMark, Event, Installers, MayInstall, FreshMarker, NoUndo, VetoNeeded,
    SwapAwaitingRestart, HeldBack, NoMarker, HoldInv
<1>2. CASE CandidateRefused
  BY <1>2 DEF CandidateRefused, Event, Installers, MayInstall, NoUndo, SwapAwaitingRestart,
    HeldBack, HoldInv
<1>3. CASE SwapFails
  BY <1>3 DEF SwapFails, HoldInv
<1>4. CASE ArmSwap
  BY <1>4 DEF ArmSwap, HoldInv
<1>5. CASE Unlink
  BY <1>5 DEF Unlink, HoldInv
<1>6. CASE Link
  BY <1>6 DEF Link, HoldInv
<1>7. CASE Replace
  BY <1>7 DEF Replace, HoldInv
<1>8. CASE RollbackRecorded
  BY <1>8 DEF RollbackRecorded, OperatorRollbackRecord, HoldInv
<1>9. CASE RollbackRename
  BY <1>9 DEF RollbackRename, Restore, HoldInv
<1>10. CASE RollbackDone
  BY <1>10 DEF RollbackDone, HoldInv
<1>11. CASE Exec
  BY <1>11 DEF Exec, installVars, fixed, HoldInv
<1>12. CASE EarlyRecord
  BY <1>12 DEF EarlyRecord, RollbackRecord, fixed, NoMarker, InstallArmed, HoldInv
<1>13. CASE RefusedExit
  BY <1>13 DEF RefusedExit, installVars, fixed, InstallArmed, HoldInv
<1>14. CASE CrashRecord
  BY <1>14 DEF CrashRecord, CrashRollbackRecord, fixed, InstallArmed, HoldInv
<1>15. CASE CrashRefused
  BY <1>15 DEF CrashRefused, fixed, InstallArmed, HoldInv
<1>16. CASE PutBackFails
  BY <1>16 DEF PutBackFails, fixed, InstallArmed, HoldInv, Records
<1>17. CASE PutBack
  BY <1>17 DEF PutBack, Restore, fixed, HoldInv
<1>18. CASE AdmitBoot
  BY <1>18 DEF AdmitBoot, Admitted, fixed, InstallArmed, ArmsDataDirRecord, HoldInv
<1>19. CASE OpenStore
  BY <1>19 DEF OpenStore, Migrating, fixed, ArmsDataDirRecord, ArmsStoreRecord, InstallArmed,
    HoldInv, Records
<1>20. CASE Migrate
  BY <1>20 DEF Migrate, installVars, fixed, HoldInv
<1>21. CASE BootNoop
  BY <1>21 DEF BootNoop, Boots, installVars, fixed, HoldInv
<1>22. CASE BootCleanupBak
  BY <1>22 DEF BootCleanupBak, ClearInstall, Boots, fixed, NoMarker, HoldInv
<1>23. CASE BootClear
  BY <1>23 DEF BootClear, ClearInstall, Boots, fixed, NoMarker, HoldInv
<1>24. CASE BootVeto
  BY <1>24 DEF BootVeto, Boots, fixed, HoldInv
<1>25. CASE BootRestore
  BY <1>25 DEF BootRestore, Restore, Boots, fixed, HoldInv
<1>26. CASE BootRestored
  BY <1>26 DEF BootRestored, ClearInstall, Boots, fixed, NoMarker, HoldInv
<1>27. CASE BootRollbackOvertaken
  BY <1>27 DEF BootRollbackOvertaken, ProbationOverRollback, NoUndo, Boots, fixed, HoldInv
<1>28. CASE BootRollbackFinished
  BY <1>28 DEF BootRollbackFinished, ClearInstall, Boots, fixed, NoMarker, HoldInv
<1>29. CASE ConfirmInstall
  BY <1>29 DEF ConfirmInstall, fixed, HoldInv
<1>30. CASE Stop
  BY <1>30 DEF Stop, Event, TakeBackFailedStart, CountUnclean, fixed, CountsStart, InstallArmed,
    HoldInv, Records
<1>31. CASE RestartWhenDrained
  BY <1>31 DEF RestartWhenDrained, TakeBackFailedStart, fixed, CountsStart, InstallArmed, HoldInv,
    Records
<1>32. CASE Kill
  BY <1>32 DEF Kill, EndUnclean, installVars, fixed, HoldInv
<1>33. CASE Crash
  BY <1>33 DEF Crash, EndUnclean, installVars, fixed, HoldInv
<1>34. CASE KillUpdate
  BY <1>34 DEF KillUpdate, installVars, fixed, HoldInv
<1>35. CASE CommandStart
  BY <1>35 DEF CommandStart, installVars, HoldInv
<1>36. CASE CommandOpen
  BY <1>36 DEF CommandOpen, NoCommand, Migrating, ArmsDataDirRecord, ArmsStoreRecord,
    InstallArmed, HoldInv, Records
<1>37. CASE CommandMigrate
  BY <1>37 DEF CommandMigrate, NoCommand, installVars, HoldInv
<1>38. CASE EditSettings
  BY <1>38 DEF EditSettings, installVars, HoldInv
<1>39. CASE Publish
  BY <1>39 DEF Publish, installVars, HoldInv
<1>40. CASE Age
  BY <1>40 DEF Age, fixed, HoldInv
<1>41. CASE UNCHANGED vars
  BY <1>41 DEF vars, HoldInv
<1> QED
  BY <1>1, <1>2, <1>3, <1>4, <1>5, <1>6, <1>7, <1>8, <1>9, <1>10, <1>11, <1>12, <1>13, <1>14,
    <1>15, <1>16, <1>17, <1>18, <1>19, <1>20, <1>21, <1>22, <1>23, <1>24, <1>25, <1>26, <1>27,
    <1>28, <1>29, <1>30, <1>31, <1>32, <1>33, <1>34, <1>35, <1>36, <1>37, <1>38, <1>39, <1>40,
    <1>41 DEF Next, Install, Rollback, Start, Housekeeping, End, Commands

\* A confirmation and a finished rollback leave nothing to undo.
LEMMA RestStep ==
  ASSUME Numbers, Records, Flags, Images, SchemaOrder, LockInv, RestInv, LatestInv, MarkInv,
    [Next]_vars
  PROVE  RestInv'
<1>1. CASE InstallMark
  BY <1>1 DEF InstallMark, Event, Installers, MayInstall, FreshMarker, NoUndo, VetoNeeded,
    SwapAwaitingRestart, HeldBack, NoMarker, RestInv, AtRest
<1>2. CASE CandidateRefused
  BY <1>2 DEF CandidateRefused, RestInv, AtRest, Records
<1>3. CASE SwapFails
  BY <1>3 DEF SwapFails, RestInv, AtRest
<1>4. CASE ArmSwap
  BY <1>4 DEF ArmSwap, RestInv, AtRest, Records
<1>5. CASE Unlink
  BY <1>5 DEF Unlink, RestInv, AtRest
<1>6. CASE Link
  BY <1>6 DEF Link, RestInv, AtRest
<1>7. CASE Replace
  BY <1>7 DEF Replace, RestInv, AtRest, LockInv, Swapping
<1>8. CASE RollbackRecorded
  BY <1>8 DEF RollbackRecorded, OperatorRollbackRecord, RestInv, AtRest, Records
<1>9. CASE RollbackRename
  BY <1>9 DEF RollbackRename, Restore, RestInv, AtRest
<1>10. CASE RollbackDone
  BY <1>10 DEF RollbackDone, RestInv, AtRest, LockInv, Records
<1>11. CASE Exec
  BY <1>11 DEF Exec, installVars, fixed, RestInv, AtRest
<1>12. CASE EarlyRecord
  BY <1>12 DEF EarlyRecord, RollbackRecord, fixed, NoMarker, InstallArmed, RestInv, AtRest
<1>13. CASE RefusedExit
  BY <1>13 DEF RefusedExit, installVars, fixed, InstallArmed, RestInv, AtRest
<1>14. CASE CrashRecord
  BY <1>14 DEF CrashRecord, CrashRollbackRecord, fixed, InstallArmed, RestInv, AtRest, Records
<1>15. CASE CrashRefused
  BY <1>15 DEF CrashRefused, fixed, InstallArmed, RestInv, AtRest, Records
<1>16. CASE PutBackFails
  BY <1>16 DEF PutBackFails, fixed, InstallArmed, RestInv, AtRest, Records
<1>17. CASE PutBack
  BY <1>17 DEF PutBack, Restore, fixed, RestInv, AtRest
<1>18. CASE AdmitBoot
  BY <1>18 DEF AdmitBoot, Accepts, CountsStart, Admitted, fixed, InstallArmed, ArmsDataDirRecord,
    CappedNext, RestInv, AtRest, Records
<1>19. CASE OpenStore
  BY <1>19 DEF OpenStore, Migrating, fixed, ArmsDataDirRecord, ArmsStoreRecord, InstallArmed,
    RestInv, AtRest, Records
<1>20. CASE Migrate
  BY <1>20 DEF Migrate, installVars, fixed, RestInv, AtRest
<1>21. CASE BootNoop
  BY <1>21 DEF BootNoop, Boots, installVars, fixed, RestInv, AtRest
<1>22. CASE BootCleanupBak
  BY <1>22 DEF BootCleanupBak, ClearInstall, Boots, fixed, NoMarker, RestInv, AtRest
<1>23. CASE BootClear
  BY <1>23 DEF BootClear, ClearInstall, Boots, fixed, NoMarker, RestInv, AtRest
<1>24. CASE BootVeto
  BY <1>24 DEF BootVeto, Boots, fixed, RestInv, AtRest, Records
<1>25. CASE BootRestore
  BY <1>25 DEF BootRestore, Restore, Boots, fixed, RestInv, AtRest
<1>26. CASE BootRestored
  BY <1>26 DEF BootRestored, ClearInstall, Boots, fixed, NoMarker, RestInv, AtRest
<1>27. CASE BootRollbackOvertaken
  BY <1>27 DEF BootRollbackOvertaken, ProbationOverRollback, Boots, fixed, RestInv, AtRest, Records
<1>28. CASE BootRollbackFinished
  BY <1>28 DEF BootRollbackFinished, ClearInstall, Boots, fixed, NoMarker, RestInv, AtRest
<1>29. CASE ConfirmInstall
  BY <1>29 DEF ConfirmInstall, fixed, RestInv, AtRest, Records
<1>30. CASE Stop
  BY <1>30 DEF Stop, Event, TakeBackFailedStart, CountUnclean, fixed, CountsStart, InstallArmed,
    RestInv, AtRest, Records
<1>31. CASE RestartWhenDrained
  BY <1>31 DEF RestartWhenDrained, TakeBackFailedStart, fixed, CountsStart, InstallArmed, RestInv,
    AtRest, Records
<1>32. CASE Kill
  BY <1>32 DEF Kill, EndUnclean, installVars, fixed, RestInv, AtRest
<1>33. CASE Crash
  BY <1>33 DEF Crash, EndUnclean, installVars, fixed, RestInv, AtRest
<1>34. CASE KillUpdate
  BY <1>34 DEF KillUpdate, installVars, fixed, RestInv, AtRest
<1>35. CASE CommandStart
  BY <1>35 DEF CommandStart, installVars, RestInv, AtRest
<1>36. CASE CommandOpen
  BY <1>36 DEF CommandOpen, NoCommand, Migrating, ArmsDataDirRecord, ArmsStoreRecord,
    InstallArmed, RestInv, AtRest, Records
<1>37. CASE CommandMigrate
  BY <1>37 DEF CommandMigrate, NoCommand, installVars, RestInv, AtRest
<1>38. CASE EditSettings
  BY <1>38 DEF EditSettings, installVars, RestInv, AtRest
<1>39. CASE Publish
  BY <1>39 DEF Publish, installVars, RestInv, AtRest
<1>40. CASE Age
  BY <1>40 DEF Age, fixed, RestInv, AtRest, Records
<1>41. CASE UNCHANGED vars
  BY <1>41 DEF vars, RestInv, AtRest
<1> QED
  BY <1>1, <1>2, <1>3, <1>4, <1>5, <1>6, <1>7, <1>8, <1>9, <1>10, <1>11, <1>12, <1>13, <1>14,
    <1>15, <1>16, <1>17, <1>18, <1>19, <1>20, <1>21, <1>22, <1>23, <1>24, <1>25, <1>26, <1>27,
    <1>28, <1>29, <1>30, <1>31, <1>32, <1>33, <1>34, <1>35, <1>36, <1>37, <1>38, <1>39, <1>40,
    <1>41 DEF Next, Install, Rollback, Start, Housekeeping, End, Commands

\* A start that ends was clean, and is taken back, or is counted as unclean.
LEMMA EndCounts ==
  ASSUME Records, UncleanCounts, LockInv, Stop \/ RestartWhenDrained \/ Kill \/ Crash
  PROVE  \/ /\ marker'.failed = marker.failed
            /\ unclean' = IF Running THEN CountUnclean ELSE unclean
         \/ /\ unclean' = unclean
            /\ marker'.failed = IF CountsStart(marker, serve.image) /\ serve.counted > 0 /\ marker.failed = serve.counted
                                THEN marker.failed - 1 ELSE marker.failed
<1>1. CASE Stop
  BY <1>1, TakeBackSets DEF Stop, Records
<1>2. CASE RestartWhenDrained
  <2> DEFINE m == [marker EXCEPT !.recent = @ \/ marker.status = "installing"]
  <2>1. m.status = marker.status /\ m.target = marker.target
        /\ m.failed = marker.failed /\ m.rolling = marker.rolling
    BY DEF Records
  <2>2. m = [status |-> m.status, target |-> m.target, prev |-> m.prev, swap |-> m.swap,
             recent |-> m.recent, rejected |-> m.rejected, digest |-> m.digest,
             opened |-> m.opened, rolling |-> m.rolling, veto |-> m.veto, failed |-> m.failed,
             migrated |-> m.migrated, refused |-> m.refused, token |-> m.token]
    BY DEF Records
  <2>3. marker' = TakeBackFailedStart(m) /\ unclean' = unclean
    BY <1>2 DEF RestartWhenDrained
  <2> HIDE DEF m
  <2>4. CountsStart(m, serve.image) = CountsStart(marker, serve.image)
    BY <2>1 DEF CountsStart, InstallArmed
  <2>5. TakeBackFailedStart(m).failed
          = IF CountsStart(m, serve.image) /\ serve.counted > 0 /\ m.failed = serve.counted
            THEN m.failed - 1 ELSE m.failed
    BY <2>2, TakeBackSets
  <2> QED BY <2>1, <2>3, <2>4, <2>5
<1>3. CASE Kill
  BY <1>3 DEF Kill, EndUnclean, installVars
<1>4. CASE Crash
  BY <1>4 DEF Crash, EndUnclean, installVars
<1> QED BY <1>1, <1>2, <1>3, <1>4

\* An unclean end raises the count of its release, up to Limit.
LEMMA CountUncleanCounts ==
  ASSUME UncleanCounts, serve.image \in Versions, unclean' = CountUnclean
  PROVE  /\ \A v \in Versions : unclean'[v] \in Int /\ unclean'[v] >= unclean[v]
         /\ unclean'[serve.image] >= Limit \/ unclean'[serve.image] = unclean[serve.image] + 1
<1>1. \A v \in Versions : unclean'[v] = IF v = serve.image
                            THEN IF unclean[v] < Limit THEN unclean[v] + 1 ELSE unclean[v]
                            ELSE unclean[v]
  BY DEF UncleanCounts, CountUnclean
<1> QED BY <1>1 DEF UncleanCounts

\* Either way the count stays covered.
LEMMA EndDeserved ==
  ASSUME Numbers, Records, Flags, UncleanCounts, LockInv, RestInv, CountInv,
         Stop \/ RestartWhenDrained \/ Kill \/ Crash
  PROVE  CountInv'
<1> SUFFICES ASSUME marker'.target /= None, bak' = marker'.prev,
                    marker'.prev \notin {None, marker'.target}, marker'.target \in {serve'.image, bin'}
             PROVE  Deserved'
  BY DEF CountInv
<1>1. /\ serve'.image = None /\ bin' = bin /\ bak' = bak
      /\ marker'.target = marker.target /\ marker'.prev = marker.prev
  BY EndSets DEF KeepsInstall
<1>2. marker.target = bin /\ marker.target \in Versions /\ bak = marker.prev
      /\ marker.prev \notin {None, marker.target} /\ marker.target /= None
  BY <1>1 DEF UncleanCounts
<1>3. Deserved
  BY <1>2 DEF CountInv
<1>4. unclean[bin] \in Int /\ unclean[bin] >= 0 /\ Limit \in Int /\ marker.failed \in Int
  BY <1>2 DEF UncleanCounts, Numbers
<1>5. marker.failed > 0 => InstallArmed(marker)
  <2>1. marker.failed /= 0 => marker.status /= "installed"
    BY DEF RestInv
  <2>2. ~AtRest
    BY <1>2 DEF RestInv
  <2>3. marker.failed > 0 => marker.status /= "installed"
    BY <1>4, <2>1
  <2>4. marker.status = "" => marker.rolling
    BY <2>2 DEF AtRest
  <2>5. marker.status /= "installed" => InstallArmed(marker)
    BY <2>4 DEF InstallArmed, Flags
  <2> QED BY <2>3, <2>5
<1>6. CASE marker'.failed = marker.failed /\ unclean' = IF Running THEN CountUnclean ELSE unclean
  <2>1. CASE ~Running
    BY <1>1, <1>2, <1>3, <1>6, <2>1 DEF Deserved, Counting
  <2>2. CASE Running
    <3>1. serve.image \in Versions
      BY <2>2 DEF Running, LockInv, UncleanCounts
    <3>2. unclean'[bin] \in Int /\ unclean'[bin] >= unclean[bin]
      BY <1>2, <1>6, <2>2, <3>1, CountUncleanCounts
    <3>3. serve.image = bin => unclean'[bin] >= Limit \/ unclean'[bin] = unclean[bin] + 1
      BY <1>2, <1>6, <2>2, <3>1, CountUncleanCounts
    <3> QED BY <1>1, <1>2, <1>3, <1>4, <1>6, <3>2, <3>3 DEF Deserved, Counting
  <2> QED BY <2>1, <2>2
<1>7. CASE /\ unclean' = unclean
           /\ marker'.failed = IF CountsStart(marker, serve.image) /\ serve.counted > 0 /\ marker.failed = serve.counted
                               THEN marker.failed - 1 ELSE marker.failed
  <2>1. CASE Counting
    <3>1. CountsStart(marker, serve.image) /\ serve.counted > 0 /\ marker.failed = serve.counted
      BY <1>4, <1>5, <2>1 DEF Counting, CountsStart
    <3> QED BY <1>1, <1>2, <1>3, <1>4, <1>7, <3>1 DEF Deserved
  <2>2. CASE ~Counting
    BY <1>1, <1>2, <1>3, <1>4, <1>7, <2>2 DEF Deserved
  <2> QED BY <2>1, <2>2
<1> QED BY <1>6, <1>7, EndCounts

\* An admission counts the start that it admits.
LEMMA AdmitSets ==
  ASSUME Records, AdmitBoot
  PROVE  /\ Unlocked /\ serve.phase \in {"exec", "refused"}
         /\ serve'.phase = "admitted" /\ serve'.image = serve.image
         /\ UNCHANGED <<bin, bak, store, settings, command, latest, installer, lapsed, unclean, undone>>
         /\ marker'.status = marker.status /\ marker'.target = marker.target /\ marker'.prev = marker.prev
         /\ marker'.swap = marker.swap /\ marker'.recent = marker.recent /\ marker'.rolling = marker.rolling
         /\ marker'.migrated = marker.migrated
         /\ marker'.opened = IF ArmsDataDirRecord(marker, serve.image) THEN serve.image
                               ELSE marker.opened
         /\ marker'.veto = IF marker.veto = serve.image THEN None ELSE marker.veto
         /\ IF CountsStart(marker, serve.image)
            THEN marker'.failed = CappedNext(marker.failed) /\ serve'.counted = marker'.failed
            ELSE marker'.failed = marker.failed
<1>1. marker' = Admitted(marker, serve.image)
  BY DEF AdmitBoot
<1>2. /\ marker'.status = marker.status /\ marker'.target = marker.target /\ marker'.prev = marker.prev
      /\ marker'.swap = marker.swap /\ marker'.recent = marker.recent /\ marker'.rolling = marker.rolling
      /\ marker'.migrated = marker.migrated
      /\ marker'.opened = IF ArmsDataDirRecord(marker, serve.image) THEN serve.image
                            ELSE marker.opened
      /\ marker'.veto = IF marker.veto = serve.image THEN None ELSE marker.veto
      /\ marker'.failed = IF CountsStart(marker, serve.image) THEN CappedNext(marker.failed)
                            ELSE marker.failed
  BY <1>1 DEF Admitted, Records
<1>3. /\ serve'.phase = "admitted" /\ serve'.image = serve.image
      /\ serve'.counted = IF CountsStart(marker, serve.image) THEN marker'.failed ELSE 0
  BY DEF AdmitBoot, Records
<1> QED BY <1>2, <1>3 DEF AdmitBoot, fixed

\* The start admitted last may be counted without an unclean end: it runs.
LEMMA AdmitDeserved ==
  ASSUME Numbers, Records, Flags, UncleanCounts, LockInv, RestInv, CountInv, AdmitBoot
  PROVE  CountInv'
<1> SUFFICES ASSUME marker'.target /= None, bak' = marker'.prev,
                    marker'.prev \notin {None, marker'.target}, marker'.target \in {serve'.image, bin'}
             PROVE  Deserved'
  BY DEF CountInv
<1>1. /\ serve'.image = serve.image /\ serve'.phase = "admitted" /\ unclean' = unclean
      /\ marker'.target = marker.target /\ ~Running
  BY AdmitSets DEF Running
<1>2. Deserved /\ marker.target \in Versions
  BY AdmitSets DEF CountInv, UncleanCounts
<1>3. unclean[marker.target] \in Int /\ Limit \in Int /\ marker.failed \in Int /\ marker.failed >= 0
  BY <1>2 DEF UncleanCounts, Numbers
<1>4. unclean[marker.target] >= Limit \/ marker.failed <= unclean[marker.target]
  BY <1>1, <1>2 DEF Deserved, Counting
<1>5. CASE CountsStart(marker, serve.image)
  <2>1. marker'.failed = CappedNext(marker.failed) /\ serve'.counted = marker'.failed
        /\ serve.image = marker.target
    BY <1>5, AdmitSets DEF CountsStart
  <2>2. CASE marker.failed < FailedCap
    <3>1. marker'.failed = marker.failed + 1
      BY <2>1, <2>2 DEF CappedNext
    <3> QED BY <1>1, <1>3, <1>4, <2>1, <3>1 DEF Deserved, Counting, Running
  <2>3. CASE ~(marker.failed < FailedCap)
    <3>1. marker'.failed = marker.failed
      BY <2>1, <2>3 DEF CappedNext
    <3> QED BY <1>1, <1>3, <1>4, <2>1, <3>1 DEF Deserved
  <2> QED BY <2>2, <2>3
<1>6. CASE ~CountsStart(marker, serve.image)
  BY <1>1, <1>3, <1>4, <1>6, AdmitSets DEF Deserved
<1> QED BY <1>5, <1>6

\* A count of none is covered.
LEMMA ZeroDeserved ==
  ASSUME UncleanCounts', marker'.failed = 0
  PROVE  CountInv'
  BY DEF UncleanCounts, CountInv, Deserved

\* The steps that begin a count anew.
LEMMA CountInstallMark == ASSUME Numbers, UncleanCounts', InstallMark PROVE CountInv'
  BY InstallMarkSets, ZeroDeserved
LEMMA CountLink == ASSUME UncleanCounts', LockInv, Link PROVE CountInv'
  BY ZeroDeserved DEF Link, LockInv, Swapping
LEMMA CountReplace == ASSUME Records, UncleanCounts', LockInv, Replace PROVE CountInv'
  BY ReplaceSets, ZeroDeserved
LEMMA CountEarlyRecord == ASSUME UncleanCounts', EarlyRecord PROVE CountInv'
  BY ZeroDeserved DEF EarlyRecord, RollbackRecord, NoMarker
LEMMA CountConfirmInstall == ASSUME Records, UncleanCounts', ConfirmInstall PROVE CountInv'
  BY ZeroDeserved DEF ConfirmInstall, Records

\* A start that is counted is one that has not ended cleanly.
LEMMA CountStep ==
  ASSUME Numbers, Records, Flags, Images, SchemaOrder, LockInv, RestInv, LatestInv, MarkInv, CountInv,
    UncleanCounts, UncleanCounts', [Next]_vars
  PROVE  CountInv'
<1>1. CASE InstallMark
  BY <1>1, CountInstallMark
<1>2. CASE CandidateRefused
  BY <1>2 DEF CandidateRefused, CountInv, Deserved, Counting, Running
<1>3. CASE SwapFails
  BY <1>3 DEF SwapFails, CountInv, Deserved, Counting, Running
<1>4. CASE ArmSwap
  BY <1>4 DEF ArmSwap, CountInv, Deserved, Counting, Running
<1>5. CASE Unlink
  BY <1>5 DEF Unlink, CountInv, Deserved, Counting
<1>6. CASE Link
  BY <1>6, CountLink
<1>7. CASE Replace
  BY <1>7, CountReplace
<1>8. CASE RollbackRecorded
  BY <1>8 DEF RollbackRecorded, OperatorRollbackRecord, CountInv, Deserved, Counting, Running
<1>9. CASE RollbackRename
  BY <1>9 DEF RollbackRename, Restore, CountInv, Deserved, Counting
<1>10. CASE RollbackDone
  BY <1>10 DEF RollbackDone, CountInv, Deserved, Counting, Running
<1>11. CASE Exec
  BY <1>11 DEF Exec, installVars, fixed, CountInv, Deserved, Counting, Running
<1>12. CASE EarlyRecord
  BY <1>12, CountEarlyRecord
<1>13. CASE RefusedExit
  BY <1>13 DEF RefusedExit, Down, installVars, fixed, InstallArmed, CountInv, Deserved, Counting,
    Running
<1>14. CASE CrashRecord
  BY <1>14 DEF CrashRecord, CrashRollbackRecord, fixed, InstallArmed, CountInv, Deserved,
    Counting, Running
<1>15. CASE CrashRefused
  BY <1>15 DEF CrashRefused, fixed, InstallArmed, CountInv, Deserved, Counting, Running
<1>16. CASE PutBackFails
  BY <1>16 DEF PutBackFails, Down, fixed, InstallArmed, CountInv, Deserved, Counting, Running, Records
<1>17. CASE PutBack
  BY <1>17 DEF PutBack, Restore, fixed, CountInv, Deserved, Counting
<1>18. CASE AdmitBoot
  BY <1>18, AdmitDeserved
<1>19. CASE OpenStore
  BY <1>19 DEF OpenStore, Migrating, fixed, ArmsDataDirRecord, ArmsStoreRecord, InstallArmed,
    CountInv, Deserved, Counting, Running, Records
<1>20. CASE Migrate
  BY <1>20 DEF Migrate, installVars, fixed, CountInv, Deserved, Counting, Running
<1>21. CASE BootNoop
  BY <1>21 DEF BootNoop, Boots, installVars, fixed, CountInv, Deserved, Counting, Running, Records
<1>22. CASE BootCleanupBak
  BY <1>22 DEF BootCleanupBak, ClearInstall, Boots, fixed, NoMarker, CountInv, Deserved, Counting
<1>23. CASE BootClear
  BY <1>23 DEF BootClear, ClearInstall, Boots, fixed, NoMarker, CountInv, Deserved, Counting
<1>24. CASE BootVeto
  BY <1>24 DEF BootVeto, Booting, RunsTarget, Boots, fixed, CountInv, Deserved, Counting
<1>25. CASE BootRestore
  BY <1>25 DEF BootRestore, Restore, Boots, fixed, CountInv, Deserved, Counting
<1>26. CASE BootRestored
  BY <1>26 DEF BootRestored, ClearInstall, Boots, fixed, NoMarker, CountInv, Deserved, Counting
<1>27. CASE BootRollbackOvertaken
  BY <1>27 DEF BootRollbackOvertaken, ProbationOverRollback, Boots, fixed, CountInv, Deserved,
    Counting, Running, Records
<1>28. CASE BootRollbackFinished
  BY <1>28 DEF BootRollbackFinished, ClearInstall, Boots, fixed, NoMarker, CountInv, Deserved,
    Counting
<1>29. CASE ConfirmInstall
  BY <1>29, CountConfirmInstall
<1>30. CASE Stop
  BY <1>30, EndDeserved
<1>31. CASE RestartWhenDrained
  BY <1>31, EndDeserved
<1>32. CASE Kill
  BY <1>32, EndDeserved
<1>33. CASE Crash
  BY <1>33, EndDeserved
<1>34. CASE KillUpdate
  BY <1>34 DEF KillUpdate, EndInstaller, installVars, fixed, CountInv, Deserved, Counting, Running
<1>35. CASE CommandStart
  BY <1>35 DEF CommandStart, installVars, CountInv, Deserved, Counting, Running
<1>36. CASE CommandOpen
  BY <1>36 DEF CommandOpen, NoCommand, Migrating, ArmsDataDirRecord, ArmsStoreRecord,
    InstallArmed, CountInv, Deserved, Counting, Running, Records
<1>37. CASE CommandMigrate
  BY <1>37 DEF CommandMigrate, NoCommand, installVars, CountInv, Deserved, Counting, Running
<1>38. CASE EditSettings
  BY <1>38 DEF EditSettings, installVars, CountInv, Deserved, Counting, Running
<1>39. CASE Publish
  BY <1>39 DEF Publish, installVars, CountInv, Deserved, Counting, Running
<1>40. CASE Age
  BY <1>40 DEF Age, fixed, CountInv, Deserved, Counting, Running
<1>41. CASE UNCHANGED vars
  BY <1>41 DEF vars, CountInv, Deserved, Counting, Running
<1> QED
  BY <1>1, <1>2, <1>3, <1>4, <1>5, <1>6, <1>7, <1>8, <1>9, <1>10, <1>11, <1>12, <1>13, <1>14,
    <1>15, <1>16, <1>17, <1>18, <1>19, <1>20, <1>21, <1>22, <1>23, <1>24, <1>25, <1>26, <1>27,
    <1>28, <1>29, <1>30, <1>31, <1>32, <1>33, <1>34, <1>35, <1>36, <1>37, <1>38, <1>39, <1>40,
    <1>41 DEF Next, Install, Rollback, Start, Housekeeping, End, Commands

-----------------------------------------------------------------------------
\* The store, while nothing it needs has been dropped.

\* The release serve runs, where an install, a rollback or an end could change its place.
LEMMA ImageInstallMark ==
  ASSUME Numbers, LatestInv, ImageInv, InstallMark PROVE ImageInv'
<1>1. /\ installer'.step = "marked" /\ installer'.target = latest /\ marker'.target = latest
      /\ marker'.prev \in {bin, serve.image} /\ marker'.prev < latest
          /\ (marker'.prev = bin => bin < latest)
      /\ UNCHANGED <<bin, bak, serve>> /\ Unlocked
  BY InstallMarkSets
<1>2. serve.image <= bin /\ bin <= latest
  BY DEF ImageInv, LatestInv
<1>3. serve.image < latest /\ marker'.prev <= bin
  BY <1>1, <1>2 DEF Numbers
<1> QED BY <1>1, <1>2, <1>3 DEF ImageInv, Linked, Unlocked, Locking

LEMMA ImageReplace ==
  ASSUME Numbers, Records, LockInv, LatestInv, ImageInv, Replace PROVE ImageInv'
<1>1. bin <= installer.target /\ marker.prev <= bin /\ serve.image <= bin
  BY ReplaceSets DEF LatestInv, ImageInv, Swapping
<1> QED BY <1>1, ReplaceSets DEF ImageInv, Linked, Idle, Swapping, Locking, Numbers

LEMMA ImageRollbackRecorded ==
  ASSUME Numbers, Records, Flags, LockInv, MarkInv, RestInv, ImageInv, SwapInv, OpenedInv, RollbackRecorded
  PROVE  ImageInv' /\ (marker.target = None => Quiet)
<1>1. installer.step = "idle" /\ Linked
  BY RollbackRecordedSets DEF Unlocked, Linked
<1>2. marker.opened = None
  BY RollbackRecordedSets DEF MarkInv, RollbackRefusal
<1>3. ~InstallArmed(marker) => Quiet
  BY <1>2 DEF OpenedInv, Refusing
<1>4. marker.target = None => Quiet
  BY <1>3 DEF MarkInv
<1>5. serve.image <= bak
  <2>1. CASE Quiet
    BY <2>1, RollbackRecordedSets DEF Quiet, ImageInv
  <2>2. CASE ~Quiet
    <3>1. bin = marker.target /\ InstallArmed(marker)
      BY <1>1, <1>3, <1>4, <2>2 DEF SwapInv, Swapping
    <3>2. serve.image /= marker.target
      BY <1>2, <2>2, <3>1, RollbackRecordedSets DEF OpenedInv, Running, AtRest, InstallArmed
    <3> QED BY <1>1, <3>1, <3>2 DEF ImageInv
  <2> QED BY <2>1, <2>2
<1> QED BY <1>1, <1>4, <1>5, RollbackRecordedSets DEF ImageInv, Linked, Swapping

LEMMA ImageExec ==
  ASSUME Numbers, Flags, LockInv, LatestInv, ImageInv, Exec PROVE ImageInv'
<1>1. /\ serve.phase = "down" /\ serve'.phase = "exec" /\ serve'.image = bin
      /\ UNCHANGED <<bin, bak, marker, installer>>
  BY DEF Exec, Down, installVars
<1>2. installer.step \in Swapping => bin < installer.target
  <2>1. installer.step \in Swapping => installer.by = "cli"
    BY <1>1 DEF LockInv, Swapping, Flags
  <2> QED BY <2>1 DEF LatestInv
<1>3. installer.step /= "recorded"
  BY <1>1 DEF LockInv, RollingBack
<1> QED BY <1>1, <1>2, <1>3 DEF ImageInv, Linked, Numbers

\* Without a start, only the order of the releases is left to keep.
LEMMA ImageDown ==
  ASSUME Numbers, LockInv, LatestInv, ImageInv, serve'.image = None, serve'.phase = "down",
         UNCHANGED <<bin, bak>>, marker'.target = marker.target, marker'.prev = marker.prev,
         installer' = installer \/ (installer' = Idle /\ installer.step \notin Swapping)
  PROVE  ImageInv'
<1>1. installer.step \in Swapping => 0 < installer.target
  BY DEF LatestInv, Numbers
<1>2. Linked' => Linked /\ bak >= 0
  BY DEF Linked, Idle, Swapping, Numbers
<1>3. installer'.step \in Swapping => installer' = installer /\ installer.step \in Swapping
  BY DEF Idle, Swapping
<1> QED BY <1>1, <1>2, <1>3 DEF ImageInv, Numbers, None

LEMMA ImagePutBackFails ==
  ASSUME Numbers, Records, LockInv, LatestInv, ImageInv, PutBackFails PROVE ImageInv'
<1>1. CASE serve'.phase = "down" /\ serve'.image = None
  <2>1. UNCHANGED <<bin, bak>> /\ marker'.target = marker.target /\ marker'.prev = marker.prev
        /\ installer' = installer
    BY PutBackFailsSets DEF KeepsInstall
  <2> QED BY <1>1, <2>1, ImageDown
<1>2. CASE serve'.phase = "refused" /\ serve'.image = serve.image
  BY <1>2, PutBackFailsSets DEF KeepsInstall, ImageInv, Linked, Unlocked, Swapping
<1> QED BY <1>1, <1>2, PutBackFailsSets

LEMMA ImageRefusedExit ==
  ASSUME Numbers, LockInv, LatestInv, ImageInv, RefusedExit PROVE ImageInv'
<1>1. /\ serve'.image = None /\ serve'.phase = "down" /\ UNCHANGED <<bin, bak>>
      /\ marker' = marker /\ installer' = installer
  BY DEF RefusedExit, Down, installVars
<1> QED BY <1>1, ImageDown

\* An end that drops nothing cut no install off before its swap.
LEMMA EndsNoSwap ==
  ASSUME Records, Flags, LockInv, Stop \/ RestartWhenDrained \/ Kill \/ Crash, ~lapsed'
  PROVE  installer' = installer \/ (installer' = Idle /\ installer.step \notin Swapping)
<1>1. \/ installer' = installer
      \/ installer' = Idle /\ (installer.op = "install" => lapsed')
  BY EndSets
<1>2. installer.step \in Swapping => installer.op = "install"
  BY DEF LockInv
<1> QED BY <1>1, <1>2

LEMMA ImageEnds ==
  ASSUME Numbers, Records, Flags, LockInv, LatestInv, ImageInv,
         Stop \/ RestartWhenDrained \/ Kill \/ Crash, ~lapsed'
  PROVE  ImageInv'
  BY EndSets, EndsNoSwap, ImageDown DEF KeepsInstall

LEMMA ImageBootVeto ==
  ASSUME Numbers, Records, LockInv, MarkInv, ImageInv, SwapInv, BootVeto PROVE ImageInv'
<1>1. /\ installer.step = "idle" /\ serve.phase = "opened" /\ serve.image /= marker.target
      /\ marker.status = "installing" /\ serve'.phase = "restoring" /\ serve'.image = serve.image
      /\ marker'.target = marker.target /\ marker'.prev = marker.prev
      /\ UNCHANGED <<bin, bak, installer>>
  BY DEF BootVeto, Booting, Boots, RunsTarget, Unlocked, Records
<1>2. bak = None \/ serve.image <= bak
  <2>1. marker.target /= None
    BY <1>1 DEF MarkInv, InstallArmed
  <2>2. bin = marker.target \/ Quiet
    BY <1>1, <2>1 DEF SwapInv, Swapping
  <2> QED BY <1>1, <2>2 DEF ImageInv, Linked, Quiet, Numbers
<1> QED BY <1>1, <1>2 DEF ImageInv, Linked, Swapping

\* The marker's release, where the steps change the marker or the binary.
LEMMA SwapPutBackFails ==
  ASSUME Records, SwapInv, PutBackFails PROVE SwapInv'
<1>1. CASE serve'.phase = "down"
  BY <1>1, PutBackFailsSets DEF KeepsInstall, SwapInv, Starting, Quiet
<1>2. CASE serve'.phase = "refused" /\ serve'.image = serve.image
  BY <1>2, PutBackFailsSets DEF KeepsInstall, SwapInv, Starting, Quiet
<1> QED BY <1>1, <1>2, PutBackFailsSets

LEMMA OpenedPutBackFails ==
  ASSUME Records, OpenedInv, PutBackFails PROVE OpenedInv'
  BY PutBackFailsSets DEF KeepsInstall, OpenedInv, Running, Quiet, Refusing, InstallArmed

LEMMA OpenedInstallMark ==
  ASSUME Numbers, LatestInv, ImageInv, InstallMark PROVE OpenedInv'
<1>1. serve'.image /= marker'.target /\ InstallArmed(marker)'
  <2>1. /\ marker'.target = latest /\ serve' = serve /\ marker'.status = "installing"
        /\ marker'.prev \in {bin, serve.image} /\ marker'.prev < latest
            /\ (marker'.prev = bin => bin < latest)
    BY InstallMarkSets
  <2>2. serve.image < latest
    BY <2>1 DEF ImageInv, LatestInv, Numbers
  <2> QED BY <2>1, <2>2 DEF Numbers, InstallArmed
<1> QED BY <1>1 DEF OpenedInv

LEMMA OpenedReplace ==
  ASSUME Numbers, Records, LockInv, ImageInv, Replace PROVE OpenedInv'
<1>1. serve'.image < marker'.target /\ InstallArmed(marker)'
  BY ReplaceSets DEF ImageInv, Swapping, InstallArmed
<1> QED BY <1>1, ReplaceSets DEF OpenedInv, Numbers

\* A command beside a new backup: the marker of an install vetoes none, so it is not newer.
LEMMA CommandLink ==
  ASSUME Numbers, Images, SchemaOrder, LockInv, CommandInv, Link PROVE CommandInv'
<1>1. /\ marker.veto = None /\ bak' = bin /\ UNCHANGED <<bin, marker, command>>
  BY DEF Link, LockInv, Swapping
<1>2. command.phase = "opening" => Schema[command.image] <= Schema[bin]
  <2> SUFFICES ASSUME command.phase = "opening" PROVE Schema[command.image] <= Schema[bin]
    OBVIOUS
  <2>1. command.image \in Versions /\ bin \in Versions
    BY DEF CommandInv, Images
  <2>2. Schema[command.image] \in Int /\ Schema[bin] \in Int
    BY <2>1 DEF SchemaOrder
  <2>3. ~(Schema[command.image] > Schema[bin])
    BY <1>1, <2>1 DEF CommandInv, Versions, None
  <2> QED BY <2>2, <2>3
<1> QED
  <2>1. command.phase = "opening" => ~(Schema[command.image] > Schema[bin])
    <3> SUFFICES ASSUME command.phase = "opening" PROVE ~(Schema[command.image] > Schema[bin])
      OBVIOUS
    <3>1. command.image \in Versions
      BY DEF CommandInv, Images
    <3> QED BY <1>1, <3>1 DEF CommandInv, Versions, None
  <2> QED BY <1>1, <1>2, <2>1 DEF CommandInv

LEMMA CommandReplace ==
  ASSUME Numbers, Records, Images, SchemaOrder, LockInv, LatestInv, CommandInv, Replace PROVE CommandInv'
<1>1. /\ marker.veto = None /\ bak' = bin /\ bak = bin /\ bin' = installer.target /\ marker' = marker
      /\ command' = command /\ installer.target \in Versions /\ bin <= installer.target
  BY ReplaceSets DEF LockInv, LatestInv, Swapping
<1>2. ASSUME command.phase = "opening"
      PROVE  /\ Schema[command.image] <= Schema[bin]
             /\ ~(Schema[command.image] > Schema[installer.target])
  <2>1. command.image \in Versions /\ bin \in Versions
    BY <1>2 DEF CommandInv, Images
  <2>2. Schema[command.image] \in Int /\ Schema[bin] \in Int /\ Schema[installer.target] \in Int
        /\ Schema[bin] <= Schema[installer.target]
    BY <1>1, <2>1 DEF SchemaOrder
  <2>3. ~(Schema[command.image] > Schema[bin])
    BY <1>1, <1>2, <2>1 DEF CommandInv, Versions, None
  <2> QED BY <2>2, <2>3
<1> QED BY <1>1, <1>2 DEF CommandInv

\* The backup is back: a command past it is of the binary that was there.
LEMMA CommandRestored ==
  ASSUME Numbers, Images, SchemaOrder, CommandInv, SwapInv, Linked, Restore,
         marker' = marker, command' = command, installer.step \notin Swapping,
         (marker.target /= None => marker.veto = marker.target) /\ (marker.target = None => Quiet)
  PROVE  CommandInv'
<1>1. bin' = bak /\ bak' \in {None, bin'} /\ (bak' /= None => bak = bin)
  BY RestoreSets
<1>2. ASSUME command.phase = "opening", Schema[command.image] > Schema[bak]
      PROVE  marker.veto = command.image /\ bak' = None
  <2>1. command.image \in Versions /\ bak \in Versions /\ bak /= None
    BY <1>2 DEF CommandInv, Images, Linked
  <2>2. Schema[command.image] \in Int /\ Schema[bak] \in Int
    BY <2>1 DEF SchemaOrder
  <2>3. command.image = bin
    BY <1>2, <2>2 DEF CommandInv
  <2>4. bak /= bin
    BY <1>2, <2>2, <2>3
  <2>5. bin = marker.target
    BY <2>1, <2>4 DEF SwapInv, Quiet
  <2>6. marker.target /= None
    BY <2>1, <2>4 DEF Quiet
  <2> QED BY <1>1, <2>3, <2>4, <2>5, <2>6
<1>3. ASSUME command.phase = "opening", bak' /= None
      PROVE  Schema[command.image] <= Schema[bak'] \/ command.image = bin'
  BY <1>1, <1>3, RestoreSets DEF CommandInv
<1> QED BY <1>1, <1>2, <1>3 DEF CommandInv, Linked

\* The three renames of a rollback, and the starts that lift a veto.
LEMMA CommandRollbackRename ==
  ASSUME Numbers, Images, SchemaOrder, LockInv, MarkInv, SwapInv, OpenedInv, CommandInv, RollbackRename
  PROVE  CommandInv'
<1>1. /\ installer.step = "recorded" /\ Restore /\ marker' = marker /\ command' = command
  BY DEF RollbackRename
<1>2. /\ bak /= None /\ marker.opened = None /\ marker.status = ""
      /\ marker.target /= None => marker.veto = marker.target
  BY <1>1 DEF LockInv, RollingBack
<1>3. marker.target = None => Quiet
  BY <1>2 DEF MarkInv, OpenedInv, Refusing
<1>4. Linked /\ installer.step \notin Swapping
  BY <1>1, <1>2 DEF Linked, Swapping
<1> QED BY <1>1, <1>2, <1>3, <1>4, CommandRestored

LEMMA CommandPutBack ==
  ASSUME Numbers, Images, SchemaOrder, LockInv, MarkInv, SwapInv, CommandInv, PutBack
  PROVE  CommandInv'
<1>1. /\ Restore /\ marker' = marker /\ command' = command /\ serve.phase \in {"early", "crash"}
  BY DEF PutBack, fixed
<1>2. /\ bak /= None /\ installer.step = "idle" /\ marker.veto = marker.target
      /\ marker.target = serve.image /\ serve.image /= None
  BY <1>1 DEF LockInv, Locking
<1>3. Linked /\ installer.step \notin Swapping
  BY <1>2 DEF Linked, Swapping
<1> QED BY <1>1, <1>2, <1>3, CommandRestored

LEMMA CommandBootRestore ==
  ASSUME Numbers, Images, SchemaOrder, LockInv, MarkInv, SwapInv, CommandInv, BootRestore
  PROVE  CommandInv'
<1>1. marker' = marker /\ command' = command /\ installer' = installer /\ serve.phase = "restoring"
  BY DEF BootRestore, fixed
<1>2. /\ installer.step = "idle" /\ marker.veto = marker.target /\ marker.status = "installing"
  BY <1>1 DEF LockInv, Locking
<1>3. marker.target /= None
  BY <1>2 DEF MarkInv, InstallArmed
<1>4. CASE bak = None
  BY <1>1, <1>4 DEF BootRestore, CommandInv, Linked
<1>5. CASE bak /= None
  <2>1. Linked /\ installer.step \notin Swapping /\ Restore
    BY <1>2, <1>5 DEF Linked, Swapping, BootRestore
  <2> QED BY <1>1, <1>2, <1>3, <2>1, CommandRestored
<1> QED BY <1>4, <1>5

\* No command newer than the binary is of the release that starts.
LEMMA NotVetoed ==
  ASSUME Numbers, Images, SchemaOrder, ImageInv, CommandInv, serve.image /= None,
         command.phase = "opening", Schema[command.image] > Schema[bin]
  PROVE  command.image /= serve.image
<1>1. serve.image \in Versions /\ bin \in Versions /\ serve.image <= bin
  BY DEF Images, ImageInv
<1>2. Schema[serve.image] \in Int /\ Schema[bin] \in Int /\ Schema[serve.image] <= Schema[bin]
  BY <1>1 DEF SchemaOrder
<1> QED BY <1>2

LEMMA CommandAdmitBoot ==
  ASSUME Numbers, Records, Images, SchemaOrder, LockInv, ImageInv, CommandInv, AdmitBoot
  PROVE  CommandInv'
<1>1. /\ serve.phase /= "down" /\ UNCHANGED <<bin, bak, command, installer>>
      /\ marker'.veto = IF marker.veto = serve.image THEN None ELSE marker.veto
  BY AdmitSets
<1>2. serve.image /= None
  BY <1>1 DEF LockInv
<1>3. ASSUME command.phase = "opening", Schema[command.image] > Schema[bin]
      PROVE  marker'.veto = command.image
  BY <1>1, <1>2, <1>3, NotVetoed DEF CommandInv
<1> QED BY <1>1, <1>3 DEF CommandInv, Linked

LEMMA CommandBootRollbackOvertaken ==
  ASSUME Numbers, Records, Images, SchemaOrder, LockInv, ImageInv, CommandInv, BootRollbackOvertaken
  PROVE  CommandInv'
<1>1. /\ serve.phase = "opened" /\ UNCHANGED <<bin, bak, command, installer>> /\ marker.target = serve.image
      /\ marker'.veto = IF marker.veto = marker.target THEN None ELSE marker.veto
  BY DEF BootRollbackOvertaken, Booting, RunsTarget, ProbationOverRollback, Records, fixed
<1>2. serve.image /= None
  BY <1>1 DEF LockInv
<1>3. ASSUME command.phase = "opening", Schema[command.image] > Schema[bin]
      PROVE  marker'.veto = command.image
  BY <1>1, <1>2, <1>3, NotVetoed DEF CommandInv
<1> QED BY <1>1, <1>3 DEF CommandInv, Linked

LEMMA CommandBootVeto ==
  ASSUME Numbers, Records, Images, MarkInv, CommandInv, BootVeto
  PROVE  CommandInv'
<1>1. /\ UNCHANGED <<bin, bak, command, installer>> /\ marker'.veto = marker.target
      /\ marker.status = "installing"
  BY DEF BootVeto, Booting, Records, fixed
<1>2. marker.veto \in {None, marker.target}
  BY <1>1 DEF MarkInv, InstallArmed
<1>3. ASSUME command.phase = "opening", Schema[command.image] > Schema[bin]
      PROVE  marker'.veto = command.image
  BY <1>1, <1>2, <1>3 DEF CommandInv
<1> QED BY <1>1, <1>3 DEF CommandInv, Linked

\* The ends of a start, and the commands' own steps.
LEMMA CommandEnds ==
  ASSUME Records, Flags, LockInv, CommandInv,
         Stop \/ RestartWhenDrained \/ Kill \/ Crash, ~lapsed'
  PROVE  CommandInv'
<1>1. UNCHANGED <<bin, bak, command>> /\ marker'.veto = marker.veto
  BY EndSets DEF KeepsInstall
<1>2. Linked' => Linked
  BY <1>1, EndsNoSwap DEF Linked, Idle, Swapping
<1> QED BY <1>1, <1>2 DEF CommandInv

LEMMA CommandCommandStart ==
  ASSUME Images, SchemaOrder, CommandInv, CommandStart
  PROVE  CommandInv'
<1>1. /\ UNCHANGED <<bin, bak, marker, installer>>
      /\ command'.phase = "opening" /\ command'.image = bin
  BY DEF CommandStart, installVars
<1>2. bin /= None /\ ~(Schema[bin] > Schema[bin])
  BY DEF Images, SchemaOrder, Versions, None
<1> QED BY <1>1, <1>2 DEF CommandInv

LEMMA CommandCommandOpen ==
  ASSUME Records, CommandInv, CommandOpen
  PROVE  CommandInv'
<1>1. CASE command' = NoCommand
  BY <1>1 DEF CommandInv, NoCommand
<1>2. CASE command' = [command EXCEPT !.phase = "migrating"]
  <2>1. command'.phase = "migrating" /\ command'.image = command.image
    BY <1>2 DEF Records
  <2> QED BY <2>1 DEF CommandInv, CommandOpen
<1> QED BY <1>1, <1>2 DEF CommandOpen

\* A killed bridge update was an install before its swap.
LEMMA KillUpdateLapses ==
  ASSUME Flags, LockInv, KillUpdate PROVE lapsed'
<1>1. installer.by = "cli"
  BY DEF KillUpdate
<1>2. installer.op = "install"
  BY <1>1 DEF LockInv, Swapping, RollingBack, Flags
<1> QED BY <1>1, <1>2 DEF KillUpdate, EndInstaller

\* The marker of an install drops no refusal that a backup which may be put back relies on.
LEMMA LevelInstallMark ==
  ASSUME Numbers, LevelInv, InstallMark PROVE LevelInv'
<1>1. /\ installer'.step = "marked" /\ UNCHANGED <<bin, bak, store, serve, command>> /\ Unlocked
  BY InstallMarkSets
<1> QED BY <1>1 DEF LevelInv, Level, Linked, Unlocked, Locking

\* A level of a release is one of every later release.
LEMMA LevelRises ==
  ASSUME Numbers, Images, SchemaOrder, CommandInv, LockInv, NEW v \in Versions, NEW w \in Versions,
         v <= w, Level(Schema[v])
  PROVE  Level(Schema[w])
<1>1. Schema[v] \in Int /\ Schema[w] \in Int /\ Schema[v] <= Schema[w]
  BY DEF SchemaOrder
<1>2. serve.phase = "migrating" => Schema[serve.image] \in Int
  BY DEF LockInv, Images, SchemaOrder
<1>3. command.phase = "migrating" => Schema[command.image] \in Int
  BY DEF CommandInv, Images, SchemaOrder
<1> QED BY <1>1, <1>2, <1>3 DEF Level, Numbers

\* A swap puts a later release over the binary.
LEMMA LevelReplace ==
  ASSUME Numbers, Records, Images, SchemaOrder, LockInv, LatestInv, CommandInv, LevelInv, Replace
  PROVE  LevelInv'
<1>1. /\ bin' = installer.target /\ bak = bin /\ installer.step = "linked"
      /\ serve.phase \notin Locking /\ serve'.phase = serve.phase /\ serve'.image = serve.image
      /\ UNCHANGED <<bak, store, command, marker>> /\ installer'.step = "idle"
  BY ReplaceSets DEF Idle
<1>3. installer.target \in Versions /\ bin <= installer.target
  BY <1>1 DEF LockInv, LatestInv, Swapping
<1>2. Level(Schema[bin]) /\ Level(Schema[installer.target])
  <2>1. bin \in Versions /\ Level(Schema[bin])
    BY DEF Images, LevelInv
  <2> QED BY <1>3, <2>1, LevelRises
<1> QED BY <1>1, <1>2 DEF LevelInv, Level, Locking

LEMMA LevelPutBackFails ==
  ASSUME Records, LevelInv, PutBackFails PROVE LevelInv'
<1>1. /\ serve'.phase \in {"down", "refused"} /\ KeepsInstall /\ Unlocked
      /\ UNCHANGED <<bin, bak, store, command, installer>>
  BY PutBackFailsSets
<1> QED BY <1>1 DEF LevelInv, Level, Linked, Refusing, InstallArmed, KeepsInstall, Unlocked

\* A release that begins a migration past the backup leaves it refused.
LEMMA MigratingRefuses ==
  ASSUME Records, Flags, Images, LockInv, MarkInv, RestInv, SwapInv, NEW v \in Versions,
         v = bin, ~Quiet, installer.step \notin Swapping,
         marker' = Migrating(marker, v), UNCHANGED <<bin, bak>>,
         ~InstallArmed(marker) => Refusing
  PROVE  Refusing' /\ (InstallArmed(marker)' /\ bak' = marker'.prev => marker'.migrated /= None)
<1>1. v /= None
  BY DEF Versions, None
<1>2. /\ marker'.prev = marker.prev /\ (InstallArmed(marker)' <=> InstallArmed(marker))
      /\ marker'.opened = IF ArmsDataDirRecord(marker, v) THEN v ELSE marker.opened
      /\ marker'.migrated = IF ArmsStoreRecord(marker, v) THEN v ELSE marker.migrated
  BY MigratingSets DEF InstallArmed
<1>3. CASE ~InstallArmed(marker)
  BY <1>2, <1>3 DEF Refusing, ArmsDataDirRecord
<1>4. CASE InstallArmed(marker)
  <2>1. marker.target = v /\ marker.prev /= v
    BY <1>4 DEF MarkInv, SwapInv
  <2>2. marker'.opened /= None /\ marker'.opened /= marker.prev
    BY <1>1, <1>2, <1>4, <2>1 DEF ArmsDataDirRecord, MarkInv
  <2>3. marker'.migrated /= None
    BY <1>1, <1>2, <1>4, <2>1 DEF ArmsStoreRecord
  <2> QED BY <1>2, <2>2, <2>3 DEF Refusing
<1> QED BY <1>3, <1>4

\* What a migration leaves alone stays refused.
LEMMA StaysRefusing ==
  ASSUME Records, Refusing, NEW v, marker' = Migrating(marker, v), bak' = bak, v /= None,
         InstallArmed(marker) /\ bak = marker.prev => marker.migrated /= None
  PROVE  Refusing' /\ (InstallArmed(marker)' /\ bak' = marker'.prev => marker'.migrated /= None)
<1>1. /\ marker'.prev = marker.prev /\ (InstallArmed(marker)' <=> InstallArmed(marker))
      /\ marker'.opened = IF ArmsDataDirRecord(marker, v) THEN v ELSE marker.opened
      /\ marker'.migrated = IF ArmsStoreRecord(marker, v) THEN v ELSE marker.migrated
  BY MigratingSets DEF InstallArmed
<1> QED BY <1>1 DEF Refusing, ArmsDataDirRecord, ArmsStoreRecord

\* A backup that a migration goes past is one that serve's own release keeps.
LEMMA LevelOpenStore ==
  ASSUME Numbers, Records, Flags, Images, SchemaOrder, LockInv, MarkInv, RestInv, ImageInv, SwapInv,
         OpenedInv, CommandInv, LevelInv, OpenStore
  PROVE  LevelInv'
<1>1. /\ serve.phase = "admitted" /\ UNCHANGED <<bin, bak, store, command, installer>>
      /\ serve'.image = serve.image /\ serve'.phase \in {"opened", "migrating"}
  BY DEF OpenStore, fixed, Records
<1>2. serve.image \in Versions /\ serve.image <= bin /\ Running
  BY <1>1 DEF LockInv, Images, ImageInv, Running
<1>3. CASE serve'.phase = "opened" /\ marker' = marker
  BY <1>1, <1>3 DEF LevelInv, Level, Linked, Refusing
<1>4. CASE Unlocked /\ marker' = Migrating(marker, serve.image) /\ serve'.phase = "migrating"
  <2>1. installer.step = "idle"
    BY <1>4 DEF Unlocked
  <2>2. Level(Schema[bin])'
    <3>1. Schema[serve.image] <= Schema[bin]
      BY <1>2 DEF SchemaOrder, Images
    <3> QED BY <1>1, <3>1 DEF LevelInv, Level
  <2>3. ASSUME Linked
        PROVE  \/ Level(Schema[bak])'
               \/ Refusing' /\ (InstallArmed(marker)' /\ bak' = marker'.prev => marker'.migrated /= None)
    <3>1. CASE Refusing /\ (InstallArmed(marker) /\ bak = marker.prev => marker.migrated /= None)
      BY <1>1, <1>2, <1>4, <3>1, StaysRefusing DEF Versions, None
    <3>2. CASE Level(Schema[bak]) /\ serve.image <= bak
      <4>1. Schema[serve.image] <= Schema[bak]
        BY <1>2, <2>3, <3>2 DEF SchemaOrder, Images, Linked
      <4> QED BY <1>1, <3>2, <4>1 DEF Level
    <3>3. CASE Level(Schema[bak]) /\ serve.image = bin /\ Quiet
      <4>1. bak = serve.image
        BY <2>3, <3>3 DEF Linked, Quiet
      <4>2. Schema[serve.image] <= Schema[bak]
        BY <1>2, <4>1 DEF SchemaOrder
      <4> QED BY <1>1, <3>3, <4>2 DEF Level
    <3>4. CASE serve.image = bin /\ ~Quiet
      <4>1. ~InstallArmed(marker) => Refusing
        BY <3>4 DEF OpenedInv
      <4> QED BY <1>1, <1>2, <1>4, <2>1, <3>4, <4>1, MigratingRefuses DEF Swapping
    <3> QED BY <2>3, <3>1, <3>2, <3>3, <3>4 DEF LevelInv, ImageInv
  <2> QED BY <1>1, <1>4, <2>1, <2>2, <2>3 DEF LevelInv, Linked, Locking
<1> QED BY <1>3, <1>4 DEF OpenStore, Records

\* A command that migrates is of the binary's release, or of one the backup keeps up with.
LEMMA LevelCommandOpen ==
  ASSUME Numbers, Records, Flags, Images, SchemaOrder, LockInv, MarkInv, RestInv, ImageInv, SwapInv,
         OpenedInv, CommandInv, LevelInv, CommandOpen
  PROVE  LevelInv'
<1>1. /\ command.phase = "opening" /\ UNCHANGED <<bin, bak, store, serve, installer>>
  BY DEF CommandOpen
<1>2. command.image \in Versions
  BY <1>1 DEF CommandInv, Images
<1>3. CASE command' = NoCommand /\ marker' = marker
  BY <1>1, <1>3 DEF LevelInv, Level, Linked, Refusing, NoCommand
<1>4. CASE /\ Unlocked /\ ~CommandRefused /\ marker' = Migrating(marker, command.image)
           /\ command' = [command EXCEPT !.phase = "migrating"]
  <2>1. installer.step = "idle" /\ serve.phase \notin Locking
    BY <1>4 DEF Unlocked
  <2>2. command'.phase = "migrating" /\ command'.image = command.image
    BY <1>4 DEF Records
  <2>3. Schema[command.image] \in Int /\ Schema[bin] \in Int /\ (bak /= None => Schema[bak] \in Int)
    BY <1>2 DEF SchemaOrder, Images
  <2>4. Level(Schema[bin])'
    <3>1. ~(Schema[command.image] > Schema[bin])
      BY <1>1, <1>4 DEF CommandInv, CommandRefused, MigrationVetoed
    <3> QED BY <1>1, <2>2, <2>3, <3>1 DEF LevelInv, Level
  <2>5. ASSUME Linked
        PROVE  \/ Level(Schema[bak])'
               \/ Refusing' /\ (InstallArmed(marker)' /\ bak' = marker'.prev => marker'.migrated /= None)
    <3>1. CASE Refusing /\ (InstallArmed(marker) /\ bak = marker.prev => marker.migrated /= None)
      BY <1>1, <1>2, <1>4, <3>1, StaysRefusing DEF Versions, None
    <3>2. CASE Level(Schema[bak]) /\ Schema[command.image] <= Schema[bak]
      BY <1>1, <2>2, <3>2 DEF Level
    <3>3. CASE Level(Schema[bak]) /\ ~(Schema[command.image] <= Schema[bak])
      <4>1. command.image = bin
        BY <1>1, <2>5, <3>3 DEF CommandInv
      <4>2. ~Quiet
        BY <2>3, <2>5, <3>3, <4>1 DEF Quiet, Linked
      <4>3. ~InstallArmed(marker) => Refusing
        BY <4>2 DEF OpenedInv
      <4> QED BY <1>1, <1>2, <1>4, <2>1, <4>1, <4>2, <4>3, MigratingRefuses DEF Swapping
    <3> QED BY <2>5, <3>1, <3>2, <3>3 DEF LevelInv
  <2> QED BY <1>1, <2>1, <2>4, <2>5 DEF LevelInv, Linked, Locking
<1> QED BY <1>3, <1>4 DEF CommandOpen

\* No step runs serve from a release newer than the binary.
LEMMA ImageStep ==
  ASSUME Numbers, Records, Flags, Images, SchemaOrder, LockInv, RestInv, LatestInv, MarkInv, ImageInv,
    SwapInv, OpenedInv, CommandInv, LevelInv, ~lapsed', [Next]_vars
  PROVE  ImageInv'
<1>1. CASE InstallMark
  BY <1>1, ImageInstallMark
<1>2. CASE CandidateRefused
  BY <1>2 DEF CandidateRefused, ImageInv, Linked
<1>3. CASE SwapFails
  BY <1>3 DEF SwapFails, ImageInv, Linked
<1>4. CASE ArmSwap
  BY <1>4 DEF ArmSwap, ImageInv, Linked, Swapping
<1>5. CASE Unlink
  BY <1>5 DEF Unlink, ImageInv, Linked, Swapping
<1>6. CASE Link
  BY <1>6 DEF Link, ImageInv, Linked, Swapping
<1>7. CASE Replace
  BY <1>7, ImageReplace
<1>8. CASE RollbackRecorded
  BY <1>8, ImageRollbackRecorded
<1>9. CASE RollbackRename
  BY <1>9 DEF RollbackRename, Restore, ImageInv, Linked, Swapping, LockInv, Records, Numbers
<1>10. CASE RollbackDone
  BY <1>10 DEF RollbackDone, Idle, ImageInv, Linked, Swapping
<1>11. CASE Exec
  BY <1>11, ImageExec
<1>12. CASE EarlyRecord
  BY <1>12 DEF EarlyRecord, RollbackRecord, fixed, NoMarker, InstallArmed, ImageInv, Linked
<1>13. CASE RefusedExit
  BY <1>13, ImageRefusedExit
<1>14. CASE CrashRecord
  BY <1>14 DEF CrashRecord, CrashRollbackRecord, fixed, InstallArmed, ImageInv, Linked
<1>15. CASE CrashRefused
  BY <1>15 DEF CrashRefused, fixed, InstallArmed, ImageInv, Linked
<1>16. CASE PutBackFails
  BY <1>16, ImagePutBackFails
<1>17. CASE PutBack
  BY <1>17 DEF PutBack, Restore, Down, fixed, ImageInv, Linked, LockInv, None, Numbers
<1>18. CASE AdmitBoot
  BY <1>18 DEF AdmitBoot, Admitted, fixed, InstallArmed, ArmsDataDirRecord, ImageInv, Linked
<1>19. CASE OpenStore
  BY <1>19 DEF OpenStore, Migrating, fixed, ArmsDataDirRecord, ArmsStoreRecord, InstallArmed,
    ImageInv, Linked, Records
<1>20. CASE Migrate
  BY <1>20 DEF Migrate, installVars, fixed, ImageInv, Linked
<1>21. CASE BootNoop
  BY <1>21 DEF BootNoop, Boots, installVars, fixed, ImageInv, Linked, Records
<1>22. CASE BootCleanupBak
  BY <1>22 DEF BootCleanupBak, Booting, ClearInstall, Boots, fixed, Unlocked, NoMarker, Locking,
    ImageInv, Linked, Swapping
<1>23. CASE BootClear
  BY <1>23 DEF BootClear, Booting, RunsTarget, ClearInstall, Boots, fixed, Unlocked, NoMarker,
    Locking, ImageInv, Linked, Swapping
<1>24. CASE BootVeto
  BY <1>24, ImageBootVeto
<1>25. CASE BootRestore
  BY <1>25 DEF BootRestore, Restore, Boots, fixed, ImageInv, Linked, LockInv, Locking, Records,
    Numbers
<1>26. CASE BootRestored
  BY <1>26 DEF BootRestored, ClearInstall, Boots, fixed, NoMarker, ImageInv, Linked, LockInv,
    Locking, Records, Numbers
<1>27. CASE BootRollbackOvertaken
  BY <1>27 DEF BootRollbackOvertaken, ProbationOverRollback, Boots, fixed, ImageInv, Linked, Records
<1>28. CASE BootRollbackFinished
  BY <1>28 DEF BootRollbackFinished, Booting, RunsTarget, ClearInstall, Boots, fixed, Unlocked,
    NoMarker, Locking, ImageInv, Linked, Swapping, Records
<1>29. CASE ConfirmInstall
  BY <1>29 DEF ConfirmInstall, fixed, ImageInv, Linked
<1>30. CASE Stop
  BY <1>30, ImageEnds
<1>31. CASE RestartWhenDrained
  BY <1>31, ImageEnds
<1>32. CASE Kill
  BY <1>32, ImageEnds
<1>33. CASE Crash
  BY <1>33, ImageEnds
<1>34. CASE KillUpdate
  BY <1>34 DEF KillUpdate, EndInstaller, installVars, fixed, Idle, ImageInv, Linked, Swapping,
    LockInv, Numbers
<1>35. CASE CommandStart
  BY <1>35 DEF CommandStart, installVars, ImageInv, Linked
<1>36. CASE CommandOpen
  BY <1>36 DEF CommandOpen, NoCommand, Migrating, ArmsDataDirRecord, ArmsStoreRecord,
    InstallArmed, ImageInv, Linked, Records
<1>37. CASE CommandMigrate
  BY <1>37 DEF CommandMigrate, NoCommand, installVars, ImageInv, Linked
<1>38. CASE EditSettings
  BY <1>38 DEF EditSettings, installVars, ImageInv, Linked
<1>39. CASE Publish
  BY <1>39 DEF Publish, installVars, ImageInv, Linked
<1>40. CASE Age
  BY <1>40 DEF Age, fixed, ImageInv, Linked
<1>41. CASE UNCHANGED vars
  BY <1>41 DEF vars, ImageInv, Linked
<1> QED
  BY <1>1, <1>2, <1>3, <1>4, <1>5, <1>6, <1>7, <1>8, <1>9, <1>10, <1>11, <1>12, <1>13, <1>14,
    <1>15, <1>16, <1>17, <1>18, <1>19, <1>20, <1>21, <1>22, <1>23, <1>24, <1>25, <1>26, <1>27,
    <1>28, <1>29, <1>30, <1>31, <1>32, <1>33, <1>34, <1>35, <1>36, <1>37, <1>38, <1>39, <1>40,
    <1>41 DEF Next, Install, Rollback, Start, Housekeeping, End, Commands

\* The binary is the one the marker speaks of.
LEMMA SwapStep ==
  ASSUME Numbers, Records, Flags, Images, SchemaOrder, LockInv, RestInv, LatestInv, MarkInv, ImageInv,
    SwapInv, OpenedInv, CommandInv, LevelInv, ~lapsed', [Next]_vars
  PROVE  SwapInv'
<1>1. CASE InstallMark
  BY <1>1 DEF InstallMark, FreshMarker, NoMarker, SwapInv, Swapping, Quiet, Starting
<1>2. CASE CandidateRefused
  BY <1>2 DEF CandidateRefused, SwapInv, Quiet, Starting
<1>3. CASE SwapFails
  BY <1>3 DEF SwapFails, SwapInv, Quiet, Starting
<1>4. CASE ArmSwap
  BY <1>4 DEF ArmSwap, SwapInv, Swapping, Quiet, Starting
<1>5. CASE Unlink
  BY <1>5 DEF Unlink, SwapInv, Quiet, Starting
<1>6. CASE Link
  BY <1>6 DEF Link, SwapInv, Quiet, Starting
<1>7. CASE Replace
  BY <1>7 DEF Replace, SwapInv, Swapping, Quiet, Starting, LockInv
<1>8. CASE RollbackRecorded
  BY <1>8 DEF RollbackRecorded, Unlocked, OperatorRollbackRecord, Locking, SwapInv, Swapping,
    Quiet, Starting
<1>9. CASE RollbackRename
  BY <1>9 DEF RollbackRename, Restore, SwapInv, Quiet, Starting
<1>10. CASE RollbackDone
  BY <1>10 DEF RollbackDone, SwapInv, Swapping, Quiet, Starting
<1>11. CASE Exec
  BY <1>11 DEF Exec, installVars, fixed, SwapInv, Quiet, Starting
<1>12. CASE EarlyRecord
  BY <1>12 DEF EarlyRecord, Accepts, MayRestoreEarly, RollbackRecord, fixed, EarlyRollback,
    NoMarker, InstallArmed, SwapInv, Quiet, Starting, Records
<1>13. CASE RefusedExit
  BY <1>13 DEF RefusedExit, Down, installVars, fixed, InstallArmed, SwapInv, Quiet, Starting
<1>14. CASE CrashRecord
  BY <1>14 DEF CrashRecord, Accepts, MayPutBack, CrashRollbackRecord, fixed, CrashRollback,
    CrashRollbackAtLimit, InstallArmed, SwapInv, Quiet, Starting, Records
<1>15. CASE CrashRefused
  BY <1>15 DEF CrashRefused, fixed, InstallArmed, SwapInv, Quiet, Starting
<1>16. CASE PutBackFails
  BY <1>16, SwapPutBackFails
<1>17. CASE PutBack
  BY <1>17 DEF PutBack, Restore, fixed, SwapInv, Quiet, Starting
<1>18. CASE AdmitBoot
  BY <1>18 DEF AdmitBoot, Admitted, fixed, InstallArmed, ArmsDataDirRecord, SwapInv, Quiet,
    Starting
<1>19. CASE OpenStore
  BY <1>19 DEF OpenStore, Migrating, fixed, ArmsDataDirRecord, ArmsStoreRecord, InstallArmed,
    SwapInv, Quiet, Starting, Records
<1>20. CASE Migrate
  BY <1>20 DEF Migrate, installVars, fixed, SwapInv, Quiet, Starting
<1>21. CASE BootNoop
  BY <1>21 DEF BootNoop, Boots, installVars, fixed, SwapInv, Quiet, Starting, Records
<1>22. CASE BootCleanupBak
  BY <1>22 DEF BootCleanupBak, ClearInstall, Boots, fixed, NoMarker, SwapInv, Quiet, Starting
<1>23. CASE BootClear
  BY <1>23 DEF BootClear, ClearInstall, Boots, fixed, NoMarker, SwapInv, Quiet, Starting
<1>24. CASE BootVeto
  BY <1>24 DEF BootVeto, Booting, RunsTarget, Boots, fixed, SwapInv, Quiet, Starting
<1>25. CASE BootRestore
  BY <1>25 DEF BootRestore, Restore, Boots, fixed, SwapInv, Quiet, Starting
<1>26. CASE BootRestored
  BY <1>26 DEF BootRestored, ClearInstall, Boots, fixed, NoMarker, SwapInv, Quiet, Starting
<1>27. CASE BootRollbackOvertaken
  BY <1>27 DEF BootRollbackOvertaken, ProbationOverRollback, Boots, fixed, SwapInv, Quiet,
    Starting, Records
<1>28. CASE BootRollbackFinished
  BY <1>28 DEF BootRollbackFinished, ClearInstall, Boots, fixed, NoMarker, SwapInv, Quiet,
    Starting
<1>29. CASE ConfirmInstall
  BY <1>29 DEF ConfirmInstall, fixed, SwapInv, Quiet, Starting
<1>30. CASE Stop
  BY <1>30 DEF Stop, Event, Running, TakeBackFailedStart, CountUnclean, Down, EndInstaller, fixed,
    CountsStart, Idle, InstallArmed, SwapInv, Swapping, Quiet, Starting, LockInv, Records
<1>31. CASE RestartWhenDrained
  BY <1>31 DEF RestartWhenDrained, TakeBackFailedStart, Down, fixed, CountsStart, InstallArmed,
    SwapInv, Quiet, Starting, Records
<1>32. CASE Kill
  BY <1>32 DEF Kill, EndUnclean, Down, Running, EndInstaller, installVars, fixed, Idle, SwapInv,
    Swapping, Quiet, Starting, LockInv
<1>33. CASE Crash
  BY <1>33 DEF Crash, EndUnclean, Down, Running, EndInstaller, installVars, fixed, Idle, SwapInv,
    Swapping, Quiet, Starting, LockInv
<1>34. CASE KillUpdate
  BY <1>34 DEF KillUpdate, EndInstaller, installVars, fixed, SwapInv, Swapping, Quiet, Starting,
    LockInv
<1>35. CASE CommandStart
  BY <1>35 DEF CommandStart, installVars, SwapInv, Quiet, Starting
<1>36. CASE CommandOpen
  BY <1>36 DEF CommandOpen, NoCommand, Migrating, ArmsDataDirRecord, ArmsStoreRecord,
    InstallArmed, SwapInv, Quiet, Starting, Records
<1>37. CASE CommandMigrate
  BY <1>37 DEF CommandMigrate, NoCommand, installVars, SwapInv, Quiet, Starting
<1>38. CASE EditSettings
  BY <1>38 DEF EditSettings, installVars, SwapInv, Quiet, Starting
<1>39. CASE Publish
  BY <1>39 DEF Publish, installVars, SwapInv, Quiet, Starting
<1>40. CASE Age
  BY <1>40 DEF Age, fixed, SwapInv, Quiet, Starting
<1>41. CASE UNCHANGED vars
  BY <1>41 DEF vars, SwapInv, Quiet, Starting
<1> QED
  BY <1>1, <1>2, <1>3, <1>4, <1>5, <1>6, <1>7, <1>8, <1>9, <1>10, <1>11, <1>12, <1>13, <1>14,
    <1>15, <1>16, <1>17, <1>18, <1>19, <1>20, <1>21, <1>22, <1>23, <1>24, <1>25, <1>26, <1>27,
    <1>28, <1>29, <1>30, <1>31, <1>32, <1>33, <1>34, <1>35, <1>36, <1>37, <1>38, <1>39, <1>40,
    <1>41 DEF Next, Install, Rollback, Start, Housekeeping, End, Commands

\* Who opened the data directory is on record.
LEMMA OpenedStep ==
  ASSUME Numbers, Records, Flags, Images, SchemaOrder, LockInv, RestInv, LatestInv, MarkInv, ImageInv,
    SwapInv, OpenedInv, CommandInv, LevelInv, ~lapsed', [Next]_vars
  PROVE  OpenedInv'
<1>1. CASE InstallMark
  BY <1>1, OpenedInstallMark
<1>2. CASE CandidateRefused
  BY <1>2 DEF CandidateRefused, OpenedInv, Running, AtRest, Quiet, InstallArmed, Refusing, Records
<1>3. CASE SwapFails
  BY <1>3 DEF SwapFails, OpenedInv, Running, AtRest, Quiet, InstallArmed, Refusing
<1>4. CASE ArmSwap
  BY <1>4 DEF ArmSwap, OpenedInv, Running, AtRest, Quiet, InstallArmed, Refusing, Records
<1>5. CASE Unlink
  BY <1>5 DEF Unlink, OpenedInv, AtRest, Quiet, InstallArmed, Refusing
<1>6. CASE Link
  BY <1>6 DEF Link, OpenedInv, AtRest, Quiet, InstallArmed, Refusing
<1>7. CASE Replace
  BY <1>7, OpenedReplace
<1>8. CASE RollbackRecorded
  BY <1>8 DEF RollbackRecorded, OperatorRollbackRecord, OpenedInv, Running, AtRest, Quiet,
    InstallArmed, Refusing, ImageInv, Linked, SwapInv, Starting, LockInv, MarkInv, Records, Numbers
<1>9. CASE RollbackRename
  BY <1>9 DEF RollbackRename, Restore, OpenedInv, AtRest, Quiet, InstallArmed, Refusing
<1>10. CASE RollbackDone
  BY <1>10 DEF RollbackDone, OpenedInv, AtRest, Quiet, InstallArmed, Refusing, LockInv
<1>11. CASE Exec
  BY <1>11 DEF Exec, Down, installVars, fixed, OpenedInv, Running, AtRest, Quiet, InstallArmed,
    Refusing
<1>12. CASE EarlyRecord
  BY <1>12 DEF EarlyRecord, RollbackRecord, fixed, NoMarker, InstallArmed, OpenedInv, Running,
    AtRest, Quiet, Refusing, Records
<1>13. CASE RefusedExit
  BY <1>13 DEF RefusedExit, Down, installVars, fixed, InstallArmed, OpenedInv, Running, AtRest,
    Quiet, Refusing
<1>14. CASE CrashRecord
  BY <1>14 DEF CrashRecord, CrashRollbackRecord, fixed, InstallArmed, OpenedInv, Running, AtRest,
    Quiet, Refusing, Records
<1>15. CASE CrashRefused
  BY <1>15 DEF CrashRefused, fixed, InstallArmed, OpenedInv, Running, AtRest, Quiet, Refusing, Records
<1>16. CASE PutBackFails
  BY <1>16, OpenedPutBackFails
<1>17. CASE PutBack
  BY <1>17 DEF PutBack, Restore, fixed, OpenedInv, AtRest, Quiet, InstallArmed, Refusing
<1>18. CASE AdmitBoot
  BY <1>18 DEF AdmitBoot, Admitted, fixed, InstallArmed, ArmsDataDirRecord, OpenedInv, AtRest,
    Quiet, Refusing, ImageInv, Linked, SwapInv, Starting, LockInv, MarkInv, Records, Numbers
<1>19. CASE OpenStore
  BY <1>19 DEF OpenStore, Migrating, fixed, ArmsDataDirRecord, ArmsStoreRecord, InstallArmed,
    OpenedInv, Running, AtRest, Quiet, Refusing, Records
<1>20. CASE Migrate
  BY <1>20 DEF Migrate, installVars, fixed, OpenedInv, Running, AtRest, Quiet, InstallArmed,
    Refusing, Records
<1>21. CASE BootNoop
  BY <1>21 DEF BootNoop, Boots, installVars, fixed, OpenedInv, Running, AtRest, Quiet,
    InstallArmed, Refusing, Records
<1>22. CASE BootCleanupBak
  BY <1>22 DEF BootCleanupBak, ClearInstall, Boots, fixed, NoMarker, OpenedInv, AtRest, Quiet,
    InstallArmed, Refusing
<1>23. CASE BootClear
  BY <1>23 DEF BootClear, Booting, RunsTarget, ClearInstall, Boots, fixed, Unlocked, NoMarker,
    RollbackRefusal, Locking, OpenedInv, AtRest, Quiet, InstallArmed, Refusing, ImageInv, Linked,
    SwapInv, Starting, LockInv, MarkInv, Numbers
<1>24. CASE BootVeto
  BY <1>24 DEF BootVeto, Booting, RunsTarget, Boots, fixed, OpenedInv, AtRest, Quiet,
    InstallArmed, Refusing, Records
<1>25. CASE BootRestore
  BY <1>25 DEF BootRestore, Restore, Boots, fixed, OpenedInv, AtRest, Quiet, InstallArmed,
    Refusing
<1>26. CASE BootRestored
  BY <1>26 DEF BootRestored, ClearInstall, Boots, fixed, NoMarker, OpenedInv, AtRest, Quiet,
    InstallArmed, Refusing, LockInv
<1>27. CASE BootRollbackOvertaken
  BY <1>27 DEF BootRollbackOvertaken, Booting, RunsTarget, ProbationOverRollback, Boots, fixed,
    OpenedInv, Running, AtRest, Quiet, InstallArmed, Refusing, Records
<1>28. CASE BootRollbackFinished
  BY <1>28 DEF BootRollbackFinished, Booting, RunsTarget, ClearInstall, Boots, fixed, NoMarker,
    OpenedInv, AtRest, Quiet, InstallArmed, Refusing, ImageInv, Linked, SwapInv, Starting,
    LockInv, MarkInv, Numbers
<1>29. CASE ConfirmInstall
  BY <1>29 DEF ConfirmInstall, AwaitsConfirmation, fixed, OpenedInv, Running, AtRest, Quiet,
    InstallArmed, Refusing, ImageInv, Linked, SwapInv, Starting, LockInv, MarkInv, Numbers
<1>30. CASE Stop
  BY <1>30 DEF Stop, Event, Running, TakeBackFailedStart, CountUnclean, Down, EndInstaller, fixed,
    CountsStart, Idle, InstallArmed, OpenedInv, AtRest, Quiet, Refusing, Records
<1>31. CASE RestartWhenDrained
  BY <1>31 DEF RestartWhenDrained, TakeBackFailedStart, Down, fixed, CountsStart, InstallArmed,
    OpenedInv, Running, AtRest, Quiet, Refusing, Records
<1>32. CASE Kill
  BY <1>32 DEF Kill, EndUnclean, Down, Running, EndInstaller, installVars, fixed, Idle, OpenedInv,
    AtRest, Quiet, InstallArmed, Refusing
<1>33. CASE Crash
  BY <1>33 DEF Crash, EndUnclean, Down, Running, EndInstaller, installVars, fixed, Idle,
    OpenedInv, AtRest, Quiet, InstallArmed, Refusing
<1>34. CASE KillUpdate
  BY <1>34 DEF KillUpdate, EndInstaller, installVars, fixed, OpenedInv, Running, AtRest, Quiet,
    InstallArmed, Refusing
<1>35. CASE CommandStart
  BY <1>35 DEF CommandStart, installVars, OpenedInv, Running, AtRest, Quiet, InstallArmed,
    Refusing
<1>36. CASE CommandOpen
  BY <1>36 DEF CommandOpen, NoCommand, Migrating, ArmsDataDirRecord, ArmsStoreRecord,
    InstallArmed, OpenedInv, Running, AtRest, Quiet, Refusing, Records
<1>37. CASE CommandMigrate
  BY <1>37 DEF CommandMigrate, NoCommand, installVars, OpenedInv, Running, AtRest, Quiet,
    InstallArmed, Refusing
<1>38. CASE EditSettings
  BY <1>38 DEF EditSettings, installVars, OpenedInv, Running, AtRest, Quiet, InstallArmed,
    Refusing
<1>39. CASE Publish
  BY <1>39 DEF Publish, installVars, OpenedInv, Running, AtRest, Quiet, InstallArmed, Refusing
<1>40. CASE Age
  BY <1>40 DEF Age, fixed, OpenedInv, Running, AtRest, Quiet, InstallArmed, Refusing, Records
<1>41. CASE UNCHANGED vars
  BY <1>41 DEF vars, OpenedInv, Running, AtRest, Quiet, InstallArmed, Refusing
<1> QED
  BY <1>1, <1>2, <1>3, <1>4, <1>5, <1>6, <1>7, <1>8, <1>9, <1>10, <1>11, <1>12, <1>13, <1>14,
    <1>15, <1>16, <1>17, <1>18, <1>19, <1>20, <1>21, <1>22, <1>23, <1>24, <1>25, <1>26, <1>27,
    <1>28, <1>29, <1>30, <1>31, <1>32, <1>33, <1>34, <1>35, <1>36, <1>37, <1>38, <1>39, <1>40,
    <1>41 DEF Next, Install, Rollback, Start, Housekeeping, End, Commands

\* A command newer than the binary is vetoed.
LEMMA CommandStep ==
  ASSUME Numbers, Records, Flags, Images, SchemaOrder, LockInv, RestInv, LatestInv, MarkInv, ImageInv,
    SwapInv, OpenedInv, CommandInv, LevelInv, ~lapsed', [Next]_vars
  PROVE  CommandInv'
<1>1. CASE InstallMark
  BY <1>1 DEF InstallMark, Event, Installers, MayInstall, FreshMarker, NoUndo, VetoNeeded,
    Unlocked, SwapAwaitingRestart, HeldBack, NoMarker, Locking, CommandInv, Linked
<1>2. CASE CandidateRefused
  BY <1>2 DEF CandidateRefused, CommandInv, Linked
<1>3. CASE SwapFails
  BY <1>3 DEF SwapFails, CommandInv, Linked
<1>4. CASE ArmSwap
  BY <1>4 DEF ArmSwap, CommandInv, Linked
<1>5. CASE Unlink
  BY <1>5 DEF Unlink, CommandInv, Linked
<1>6. CASE Link
  BY <1>6, CommandLink
<1>7. CASE Replace
  BY <1>7, CommandReplace
<1>8. CASE RollbackRecorded
  BY <1>8 DEF RollbackRecorded, Unlocked, OperatorRollbackRecord, Locking, CommandInv, Linked
<1>9. CASE RollbackRename
  BY <1>9, CommandRollbackRename
<1>10. CASE RollbackDone
  BY <1>10 DEF RollbackDone, CommandInv, Linked
<1>11. CASE Exec
  BY <1>11 DEF Exec, installVars, fixed, CommandInv, Linked
<1>12. CASE EarlyRecord
  BY <1>12 DEF EarlyRecord, Accepts, MayRestoreEarly, RollbackRecord, fixed, EarlyRollback,
    NoMarker, InstallArmed, CommandInv, Linked
<1>13. CASE RefusedExit
  BY <1>13 DEF RefusedExit, installVars, fixed, InstallArmed, CommandInv, Linked
<1>14. CASE CrashRecord
  BY <1>14 DEF CrashRecord, Accepts, MayPutBack, CrashRollbackRecord, fixed, CrashRollback,
    CrashRollbackAtLimit, InstallArmed, CommandInv, Linked
<1>15. CASE CrashRefused
  BY <1>15 DEF CrashRefused, fixed, InstallArmed, CommandInv, Linked
<1>16. CASE PutBackFails
  BY <1>16 DEF PutBackFails, fixed, InstallArmed, CommandInv, Linked, Records
<1>17. CASE PutBack
  BY <1>17, CommandPutBack
<1>18. CASE AdmitBoot
  BY <1>18, CommandAdmitBoot
<1>19. CASE OpenStore
  BY <1>19 DEF OpenStore, Migrating, fixed, ArmsDataDirRecord, ArmsStoreRecord, InstallArmed,
    CommandInv, Linked, Records
<1>20. CASE Migrate
  BY <1>20 DEF Migrate, installVars, fixed, CommandInv, Linked
<1>21. CASE BootNoop
  BY <1>21 DEF BootNoop, Boots, installVars, fixed, CommandInv, Linked
<1>22. CASE BootCleanupBak
  BY <1>22 DEF BootCleanupBak, ClearInstall, Boots, fixed, NoMarker, CommandInv, Linked
<1>23. CASE BootClear
  BY <1>23 DEF BootClear, ClearInstall, Boots, fixed, NoMarker, CommandInv, Linked
<1>24. CASE BootVeto
  BY <1>24, CommandBootVeto
<1>25. CASE BootRestore
  BY <1>25, CommandBootRestore
<1>26. CASE BootRestored
  BY <1>26 DEF BootRestored, ClearInstall, Boots, fixed, NoMarker, CommandInv, Linked
<1>27. CASE BootRollbackOvertaken
  BY <1>27, CommandBootRollbackOvertaken
<1>28. CASE BootRollbackFinished
  BY <1>28 DEF BootRollbackFinished, ClearInstall, Boots, fixed, NoMarker, CommandInv, Linked
<1>29. CASE ConfirmInstall
  BY <1>29 DEF ConfirmInstall, fixed, CommandInv, Linked
<1>30. CASE Stop
  BY <1>30, CommandEnds
<1>31. CASE RestartWhenDrained
  BY <1>31 DEF RestartWhenDrained, TakeBackFailedStart, fixed, CountsStart, InstallArmed,
    CommandInv, Linked, Records
<1>32. CASE Kill
  BY <1>32, CommandEnds
<1>33. CASE Crash
  BY <1>33, CommandEnds
<1>34. CASE KillUpdate
  BY <1>34, KillUpdateLapses
<1>35. CASE CommandStart
  BY <1>35, CommandCommandStart
<1>36. CASE CommandOpen
  BY <1>36, CommandCommandOpen
<1>37. CASE CommandMigrate
  BY <1>37 DEF CommandMigrate, NoCommand, installVars, CommandInv, Linked
<1>38. CASE EditSettings
  BY <1>38 DEF EditSettings, installVars, CommandInv, Linked
<1>39. CASE Publish
  BY <1>39 DEF Publish, installVars, CommandInv, Linked
<1>40. CASE Age
  BY <1>40 DEF Age, fixed, CommandInv, Linked
<1>41. CASE UNCHANGED vars
  BY <1>41 DEF vars, CommandInv, Linked
<1> QED
  BY <1>1, <1>2, <1>3, <1>4, <1>5, <1>6, <1>7, <1>8, <1>9, <1>10, <1>11, <1>12, <1>13, <1>14,
    <1>15, <1>16, <1>17, <1>18, <1>19, <1>20, <1>21, <1>22, <1>23, <1>24, <1>25, <1>26, <1>27,
    <1>28, <1>29, <1>30, <1>31, <1>32, <1>33, <1>34, <1>35, <1>36, <1>37, <1>38, <1>39, <1>40,
    <1>41 DEF Next, Install, Rollback, Start, Housekeeping, End, Commands

\* The store stays within the binary, and a backup it has left is refused.
LEMMA LevelStep ==
  ASSUME Numbers, Records, Flags, Images, SchemaOrder, LockInv, RestInv, LatestInv, MarkInv, ImageInv,
    SwapInv, OpenedInv, CommandInv, LevelInv, ~lapsed', [Next]_vars
  PROVE  LevelInv'
<1>1. CASE InstallMark
  BY <1>1, LevelInstallMark
<1>2. CASE CandidateRefused
  BY <1>2 DEF CandidateRefused, LevelInv, Level, Linked, Refusing, InstallArmed, Records
<1>3. CASE SwapFails
  BY <1>3 DEF SwapFails, LevelInv, Level, Linked, Refusing, InstallArmed
<1>4. CASE ArmSwap
  BY <1>4 DEF ArmSwap, LevelInv, Level, Linked, Refusing, InstallArmed
<1>5. CASE Unlink
  BY <1>5 DEF Unlink, LevelInv, Level, Linked, Refusing, InstallArmed
<1>6. CASE Link
  BY <1>6 DEF Link, LevelInv, Level, Linked, Refusing, InstallArmed
<1>7. CASE Replace
  BY <1>7, LevelReplace
<1>8. CASE RollbackRecorded
  BY <1>8 DEF RollbackRecorded, Event, Unlocked, RollbackRefusal, OperatorRollbackRecord,
    RejectedVersionOf, Locking, LevelInv, Level, Linked, Refusing, InstallArmed
<1>9. CASE RollbackRename
  BY <1>9 DEF RollbackRename, Restore, LevelInv, Level, Linked, Refusing, InstallArmed, LockInv,
    Numbers
<1>10. CASE RollbackDone
  BY <1>10 DEF RollbackDone, Idle, LevelInv, Level, Linked, Refusing, InstallArmed, Records
<1>11. CASE Exec
  BY <1>11 DEF Exec, Down, installVars, fixed, LevelInv, Level, Linked, Refusing, InstallArmed
<1>12. CASE EarlyRecord
  BY <1>12 DEF EarlyRecord, Accepts, MayRestoreEarly, RollbackRecord, fixed, Unlocked,
    EarlyRollback, NoMarker, Locking, InstallArmed, LevelInv, Level, Linked, Refusing, Records
<1>13. CASE RefusedExit
  BY <1>13 DEF RefusedExit, Down, installVars, fixed, InstallArmed, LevelInv, Level, Linked,
    Refusing
<1>14. CASE CrashRecord
  BY <1>14 DEF CrashRecord, Accepts, Unlocked, MayPutBack, CrashRollbackRecord, fixed, Locking,
    CrashRollback, CrashRollbackAtLimit, InstallArmed, LevelInv, Level, Linked, Refusing, Records
<1>15. CASE CrashRefused
  BY <1>15 DEF CrashRefused, fixed, InstallArmed, LevelInv, Level, Linked, Refusing, Records
<1>16. CASE PutBackFails
  BY <1>16, LevelPutBackFails
<1>17. CASE PutBack
  BY <1>17 DEF PutBack, Restore, Down, fixed, LevelInv, Level, Linked, Refusing, InstallArmed,
    LockInv, Numbers
<1>18. CASE AdmitBoot
  BY <1>18 DEF AdmitBoot, Admitted, fixed, InstallArmed, ArmsDataDirRecord, LevelInv, Level,
    Linked, Refusing, Records
<1>19. CASE OpenStore
  BY <1>19, LevelOpenStore
<1>20. CASE Migrate
  BY <1>20 DEF Migrate, Later, installVars, fixed, LevelInv, Level, Linked, Refusing,
    InstallArmed, Records
<1>21. CASE BootNoop
  BY <1>21 DEF BootNoop, Boots, installVars, fixed, LevelInv, Level, Linked, Refusing,
    InstallArmed, Records
<1>22. CASE BootCleanupBak
  BY <1>22 DEF BootCleanupBak, ClearInstall, Boots, fixed, NoMarker, LevelInv, Level, Linked,
    Refusing, InstallArmed, Records
<1>23. CASE BootClear
  BY <1>23 DEF BootClear, ClearInstall, Boots, fixed, NoMarker, RollbackRefusal, LevelInv, Level,
    Linked, Refusing, InstallArmed, Records
<1>24. CASE BootVeto
  BY <1>24 DEF BootVeto, Booting, RunsTarget, Boots, fixed, Unlocked, Locking, LevelInv, Level,
    Linked, Refusing, InstallArmed, Records
<1>25. CASE BootRestore
  BY <1>25 DEF BootRestore, Restore, Boots, fixed, LevelInv, Level, Linked, Refusing,
    InstallArmed, Records
<1>26. CASE BootRestored
  BY <1>26 DEF BootRestored, ClearInstall, Boots, fixed, NoMarker, RollbackRefusal, LevelInv,
    Level, Linked, Refusing, InstallArmed, Records
<1>27. CASE BootRollbackOvertaken
  BY <1>27 DEF BootRollbackOvertaken, Booting, RunsTarget, ProbationOverRollback, Boots, fixed,
    LevelInv, Level, Linked, Refusing, InstallArmed, Records
<1>28. CASE BootRollbackFinished
  BY <1>28 DEF BootRollbackFinished, ClearInstall, Boots, fixed, NoMarker, RollbackRefusal,
    LevelInv, Level, Linked, Refusing, InstallArmed, Records
<1>29. CASE ConfirmInstall
  BY <1>29 DEF ConfirmInstall, fixed, LevelInv, Level, Linked, Refusing, InstallArmed, Records
<1>30. CASE Stop
  BY <1>30 DEF Stop, Event, Running, TakeBackFailedStart, CountUnclean, Down, EndInstaller, fixed,
    CountsStart, Idle, InstallArmed, LevelInv, Level, Linked, Refusing, LockInv, Swapping, Records,
    Numbers
<1>31. CASE RestartWhenDrained
  BY <1>31 DEF RestartWhenDrained, TakeBackFailedStart, Down, fixed, CountsStart, InstallArmed,
    LevelInv, Level, Linked, Refusing, Records
<1>32. CASE Kill
  BY <1>32 DEF Kill, EndUnclean, Down, Running, EndInstaller, installVars, fixed, Idle, LevelInv,
    Level, Linked, Refusing, InstallArmed, LockInv, Swapping, Numbers
<1>33. CASE Crash
  BY <1>33 DEF Crash, EndUnclean, Down, Running, EndInstaller, installVars, fixed, Idle, LevelInv,
    Level, Linked, Refusing, InstallArmed, LockInv, Swapping, Numbers
<1>34. CASE KillUpdate
  BY <1>34 DEF KillUpdate, EndInstaller, installVars, fixed, Idle, LevelInv, Level, Linked,
    Refusing, InstallArmed, LockInv, Swapping, Numbers
<1>35. CASE CommandStart
  BY <1>35 DEF CommandStart, installVars, LevelInv, Level, Linked, Refusing, InstallArmed
<1>36. CASE CommandOpen
  BY <1>36, LevelCommandOpen
<1>37. CASE CommandMigrate
  BY <1>37 DEF CommandMigrate, Later, NoCommand, installVars, LevelInv, Level, Linked, Refusing,
    InstallArmed
<1>38. CASE EditSettings
  BY <1>38 DEF EditSettings, installVars, LevelInv, Level, Linked, Refusing, InstallArmed
<1>39. CASE Publish
  BY <1>39 DEF Publish, installVars, LevelInv, Level, Linked, Refusing, InstallArmed
<1>40. CASE Age
  BY <1>40 DEF Age, fixed, LevelInv, Level, Linked, Refusing, InstallArmed, Records
<1>41. CASE UNCHANGED vars
  BY <1>41 DEF vars, LevelInv, Level, Linked, Refusing, InstallArmed
<1> QED
  BY <1>1, <1>2, <1>3, <1>4, <1>5, <1>6, <1>7, <1>8, <1>9, <1>10, <1>11, <1>12, <1>13, <1>14,
    <1>15, <1>16, <1>17, <1>18, <1>19, <1>20, <1>21, <1>22, <1>23, <1>24, <1>25, <1>26, <1>27,
    <1>28, <1>29, <1>30, <1>31, <1>32, <1>33, <1>34, <1>35, <1>36, <1>37, <1>38, <1>39, <1>40,
    <1>41 DEF Next, Install, Rollback, Start, Housekeeping, End, Commands

-----------------------------------------------------------------------------
\* The steps that are neither, and the theorems.

\* The crash rollback finds its count covered.
LEMMA CrashRecordDeserved ==
  ASSUME Numbers, UncleanCounts, LockInv, MarkInv, CountInv, CrashRecord
  PROVE  unclean[serve.image] >= Limit
<1>1. /\ serve.phase = "exec" /\ InstallArmed(marker) /\ marker.target = serve.image
      /\ marker.prev \notin {None, marker.target} /\ bak = marker.prev /\ marker.failed >= Limit
  BY DEF CrashRecord, MayPutBack, CrashRollback, CrashRollbackAtLimit
<1>2. Deserved /\ marker.target \in Versions
  BY <1>1 DEF MarkInv, CountInv, UncleanCounts
<1>3. ~Counting
  BY <1>1 DEF Counting, Running
<1>4. unclean[serve.image] \in Int
  BY <1>1, <1>2 DEF UncleanCounts
<1> QED BY <1>1, <1>2, <1>3, <1>4 DEF Deserved, Numbers, UncleanCounts

\* The automatic installer finds the hold that should stand.
LEMMA InstallMarkHeld ==
  ASSUME Numbers, HoldInv, InstallMark, installer'.auto
  PROVE  \/ undone.version = None \/ installer'.target > undone.version
         \/ undone.digest \notin {AnySettings, settings}
<1>1. PICK i \in Installers, v \in Versions :
        /\ MayInstall(i, v)
        /\ installer' = [op |-> "install", by |-> i.by, auto |-> i.auto, image |-> i.image,
                         target |-> v, step |-> "marked"]
  BY DEF InstallMark
<1>2. ~HeldBack(v) /\ installer'.target = v
  BY <1>1 DEF MayInstall
<1>3. v \in Int /\ marker.rejected \in Int
  BY DEF Versions, Numbers
<1> QED BY <1>2, <1>3 DEF HeldBack, HoldInv

\* The invariant at the start, with release 1 alone.
LEMMA InitHolds ==
  ASSUME Init
  PROVE  Typed /\ LockInv /\ HoldInv /\ RestInv /\ CountInv /\ LatestInv /\ MarkInv /\ CallInv /\ SafeInv
<1>1. Newest \in Nat /\ Newest >= 1 /\ 1 \in Versions /\ Schema[1] \in Nat /\ MaxEvents \in 0..MaxEvents
  BY UpdaterAssumption DEF Versions
<1>2. Typed
  <2>1. settings \in Settings
    BY <1>1, UpdaterAssumption DEF Init
  <2>2. unclean \in [Versions -> 0..Limit]
    BY Bounds DEF Init
  <2>3. /\ bin \in Versions /\ bak \in Releases /\ store \in Nat /\ marker \in Markers
        /\ serve \in Serves /\ installer \in Installs /\ command \in Calls
        /\ latest \in Versions /\ events \in 0..MaxEvents /\ lapsed \in BOOLEAN /\ undone \in Holds
    BY <1>1, NoMarkerType, Idlers, Bounds DEF Init
  <2> QED BY <2>1, <2>2, <2>3 DEF Typed
<1>3. LockInv
  BY DEF Init, LockInv, NoMarker, Down, Idle, Swapping, RollingBack, Locking
<1>4. HoldInv
  BY DEF Init, HoldInv, NoUndo
<1>5. RestInv
  BY DEF Init, RestInv, NoMarker, AtRest
<1>6. CountInv
  BY DEF Init, CountInv, NoMarker
<1>7. LatestInv
  BY DEF Init, LatestInv, Idle, Swapping, None
<1>8. MarkInv
  BY DEF Init, MarkInv, NoMarker, InstallArmed
<1>9. CallInv
  BY DEF Init, CallInv, NoCommand
<1>10. ImageInv
  BY DEF Init, ImageInv, Down, Idle, Linked, Swapping, None
<1>11. SwapInv
  BY DEF Init, SwapInv, NoMarker, Down, Idle, Swapping, Quiet
<1>12. OpenedInv
  BY DEF Init, OpenedInv, NoMarker, Quiet
<1>13. CommandInv
  BY DEF Init, CommandInv, NoCommand
<1>14. LevelInv
  BY <1>1 DEF Init, LevelInv, Level, NoCommand, Linked, Idle, Down
<1> QED BY <1>2, <1>3, <1>4, <1>5, <1>6, <1>7, <1>8, <1>9, <1>10, <1>11, <1>12, <1>13, <1>14
  DEF SafeInv

\* A command that runs has an image.
LEMMA CallStep == ASSUME Numbers, Records, CallInv, [Next]_vars PROVE CallInv'
<1>1. CASE CommandStart
  BY <1>1 DEF CommandStart, CallInv, Numbers, None
<1>2. CASE CommandOpen
  BY <1>2 DEF CommandOpen, CallInv, NoCommand, Records
<1>3. CASE CommandMigrate
  BY <1>3 DEF CommandMigrate, CallInv, NoCommand
<1>4. CASE Install \/ Rollback
  BY <1>4 DEF CallInv, Install, InstallMark, CandidateRefused, SwapFails, ArmSwap, Unlink, Link, Replace,
    Rollback, RollbackRecorded, RollbackRename, RollbackDone
<1>5. CASE Housekeeping
  BY <1>5 DEF CallInv, Housekeeping, BootNoop, BootCleanupBak, BootClear, BootVeto, BootRestore,
    BootRestored, BootRollbackOvertaken, BootRollbackFinished, fixed
<1>6. CASE Start
  BY <1>5, <1>6 DEF CallInv, Start, Exec, EarlyRecord, RefusedExit, CrashRecord, CrashRefused,
    PutBackFails, PutBack, AdmitBoot, OpenStore, Migrate, fixed
<1>7. CASE ConfirmInstall \/ End
  BY <1>7 DEF CallInv, ConfirmInstall, End, Stop, RestartWhenDrained, Kill, Crash, EndUnclean, KillUpdate, fixed
<1>8. CASE EditSettings \/ Publish \/ Age \/ UNCHANGED vars
  BY <1>8 DEF CallInv, EditSettings, Publish, Age, fixed, vars
<1> QED BY <1>1, <1>2, <1>3, <1>4, <1>6, <1>7, <1>8 DEF Next, Commands

\* What a history has recorded stays recorded.
LEMMA LapsedStays == ASSUME lapsed, [Next]_vars PROVE lapsed'
<1>1. CASE Install \/ Rollback
  BY <1>1 DEF Install, InstallMark, CandidateRefused, SwapFails, ArmSwap, Unlink, Link, Replace,
    Rollback, RollbackRecorded, RollbackRename, RollbackDone
<1>2. CASE Housekeeping
  BY <1>2 DEF Housekeeping, BootNoop, BootCleanupBak, BootClear, BootVeto, BootRestore,
    BootRestored, BootRollbackOvertaken, BootRollbackFinished
<1>3. CASE Start
  BY <1>2, <1>3 DEF Start, Exec, EarlyRecord, RefusedExit, CrashRecord, CrashRefused,
    PutBackFails, PutBack, AdmitBoot, OpenStore, Migrate
<1>4. CASE ConfirmInstall \/ End
  BY <1>4 DEF ConfirmInstall, End, Stop, RestartWhenDrained, Kill, Crash, EndUnclean, KillUpdate, EndInstaller
<1>5. CASE Commands
  BY <1>5 DEF Commands, CommandStart, CommandOpen, CommandMigrate
<1>6. CASE EditSettings \/ Publish \/ Age \/ UNCHANGED vars
  BY <1>6 DEF EditSettings, Publish, Age, vars
<1> QED BY <1>1, <1>3, <1>4, <1>5, <1>6 DEF Next

\* Which steps start a crash rollback, and which an install.
LEMMA OnlyCrashRecord ==
  ASSUME Records, serve.phase = "exec", serve'.phase = "crash", [Next]_vars
  PROVE  CrashRecord
<1> SUFFICES ASSUME ~CrashRecord PROVE FALSE
  OBVIOUS
<1>1. CASE Install \/ Rollback
  BY <1>1 DEF Records, Install, InstallMark, CandidateRefused, SwapFails, ArmSwap, Unlink, Link, Replace,
    Rollback, RollbackRecorded, RollbackRename, RollbackDone
<1>2. CASE Housekeeping
  BY <1>2 DEF Records, Boots, Housekeeping, BootNoop, BootCleanupBak, BootClear, BootVeto, BootRestore,
    BootRestored, BootRollbackOvertaken, BootRollbackFinished
<1>3. CASE Start
  <2>1. CASE Exec \/ RefusedExit \/ PutBack
    BY <2>1 DEF Exec, RefusedExit, PutBack, Down
  <2>2. CASE EarlyRecord \/ CrashRefused \/ AdmitBoot
    BY <2>2 DEF Records, EarlyRecord, CrashRefused, AdmitBoot
  <2>3. CASE PutBackFails
    BY <2>3, PutBackFailsSets
  <2>4. CASE OpenStore \/ Migrate
    BY <2>4 DEF OpenStore, Migrate
  <2> QED BY <1>2, <1>3, <2>1, <2>2, <2>3, <2>4 DEF Start
<1>4. CASE ConfirmInstall \/ End
  BY <1>4 DEF Down, ConfirmInstall, End, Stop, RestartWhenDrained, Kill, Crash, EndUnclean, KillUpdate
<1>5. CASE Commands
  BY <1>5 DEF Commands, CommandStart, CommandOpen, CommandMigrate
<1>6. CASE EditSettings \/ Publish \/ Age \/ UNCHANGED vars
  BY <1>6 DEF EditSettings, Publish, Age, vars
<1> QED BY <1>1, <1>3, <1>4, <1>5, <1>6 DEF Next

LEMMA OnlyInstallMark ==
  ASSUME Records, installer.step = "idle", installer'.step = "marked", [Next]_vars
  PROVE  InstallMark
<1> SUFFICES ASSUME ~InstallMark PROVE FALSE
  OBVIOUS
<1>1. CASE Install \/ Rollback
  BY <1>1 DEF Records, Idle, Install, CandidateRefused, SwapFails, ArmSwap, Unlink, Link, Replace,
    Rollback, RollbackRecorded, RollbackRename, RollbackDone
<1>2. CASE Housekeeping
  BY <1>2 DEF Housekeeping, BootNoop, BootCleanupBak, BootClear, BootVeto, BootRestore,
    BootRestored, BootRollbackOvertaken, BootRollbackFinished, installVars
<1>3. CASE Start
  BY <1>2, <1>3 DEF Start, Exec, EarlyRecord, RefusedExit, CrashRecord, CrashRefused,
    PutBackFails, PutBack, AdmitBoot, OpenStore, Migrate
<1>4. CASE ConfirmInstall \/ End
  BY <1>4 DEF Idle, ConfirmInstall, End, Stop, RestartWhenDrained, Kill, Crash, EndUnclean, KillUpdate, EndInstaller
<1>5. CASE Commands
  BY <1>5 DEF Commands, CommandStart, CommandOpen, CommandMigrate
<1>6. CASE EditSettings \/ Publish \/ Age \/ UNCHANGED vars
  BY <1>6 DEF EditSettings, Publish, Age, vars
<1> QED BY <1>1, <1>3, <1>4, <1>5, <1>6 DEF Next

\* The invariant: it holds at the start, every step keeps it, and the
\* properties follow from it.
Inv ==
  /\ Typed /\ LockInv /\ HoldInv /\ RestInv /\ CountInv /\ LatestInv /\ MarkInv /\ CallInv
  /\ StoreInv

\* What the invariant says of the types.
LEMMA InvFacts ==
  ASSUME Inv PROVE Numbers /\ Records /\ Flags /\ Images /\ UncleanCounts /\ SchemaOrder
  BY TypedNumbers, TypedRecords, TypedFlags, TypedImages, TypedUncleanCounts, SchemaOrders DEF Inv

\* The third part, step by step while nothing has been dropped.
LEMMA StoreStep == ASSUME Inv, [Next]_vars PROVE StoreInv'
<1>1. CASE lapsed'
  BY <1>1 DEF StoreInv
<1>2. CASE ~lapsed'
  <2>1. SafeInv
    BY <1>2, LapsedStays DEF Inv, StoreInv
  <2>2. /\ ImageInv /\ SwapInv /\ OpenedInv /\ CommandInv /\ LevelInv
    BY <2>1 DEF SafeInv
  <2>3. LockInv /\ RestInv /\ LatestInv /\ MarkInv
    BY DEF Inv
  <2>4. ImageInv' /\ SwapInv' /\ OpenedInv' /\ CommandInv' /\ LevelInv'
    BY <1>2, <2>2, <2>3, InvFacts, ImageStep, SwapStep, OpenedStep, CommandStep, LevelStep
  <2> QED BY <2>4 DEF StoreInv, SafeInv
<1> QED BY <1>1, <1>2

\* Every step keeps the invariant.
LEMMA InvStep == ASSUME Inv, [Next]_vars PROVE Inv'
<1>1. /\ Typed /\ LockInv /\ HoldInv /\ RestInv /\ CountInv /\ LatestInv /\ MarkInv /\ CallInv
  BY DEF Inv
<1>2. Typed'
  BY <1>1, TypedStep
<1>3. UncleanCounts'
  BY <1>2, TypedUncleanCountsNext
<1>4. LockInv' /\ LatestInv' /\ MarkInv'
  BY <1>1, InvFacts, LockStep, LatestStep, MarkStep
<1>5. HoldInv' /\ RestInv' /\ CallInv'
  BY <1>1, InvFacts, HoldStep, RestStep, CallStep
<1>6. CountInv'
  BY <1>1, <1>3, InvFacts, CountStep
<1>7. StoreInv'
  BY StoreStep
<1> QED BY <1>2, <1>4, <1>5, <1>6, <1>7 DEF Inv

\* So it holds throughout.
LEMMA InvHolds == Spec => []Inv
<1>1. Init => Inv
  BY InitHolds DEF Inv, StoreInv
<1>2. Inv /\ [Next]_vars => Inv'
  BY InvStep
<1> QED BY <1>1, <1>2, PTL DEF Spec

\* Every variable keeps its type under every step of an install, a rollback,
\* a start, an end and a command.
THEOREM UpdaterTypeCorrect == Spec => []TypeOK
<1>1. Inv => TypeOK
  BY TypedIsTypeOK DEF Inv
<1> QED BY <1>1, InvHolds, PTL

\* No rollback leaves on disk a binary whose schema the store is past: not the
\* early one, the crash one, the boot one or the operator's, whoever migrated,
\* however the processes are killed between two writes.
THEOREM UpdaterStoreFitsBinary == Spec => []StoreFitsBinary
<1>1. Inv => StoreFitsBinary
  BY DEF Inv, StoreInv, SafeInv, LevelInv, Level, StoreFitsBinary
<1> QED BY <1>1, InvHolds, PTL

\* The crash rollback of serve's start takes back only a release that Limit of
\* its own starts left without a clean end.
THEOREM UpdaterCrashRollbackDeserved == Spec => CrashRollbackDeserved
<1>1. Inv /\ [Next]_vars
    => (serve.phase = "exec" /\ serve'.phase = "crash" => unclean[serve.image] >= Limit)
  <2> SUFFICES ASSUME Inv, [Next]_vars, serve.phase = "exec", serve'.phase = "crash"
               PROVE  unclean[serve.image] >= Limit
    OBVIOUS
  <2>1. CrashRecord
    BY InvFacts, OnlyCrashRecord
  <2> QED BY <2>1, InvFacts, CrashRecordDeserved DEF Inv
<1>2. Inv /\ [Next]_vars
    => [serve.phase = "exec" /\ serve'.phase = "crash" => unclean[serve.image] >= Limit]_vars
  BY <1>1
<1> QED BY <1>2, InvHolds, PTL DEF Spec, CrashRollbackDeserved

\* The automatic installer takes no release at or below one that was rolled
\* back while its hold stands, however often serve starts and is killed.
THEOREM UpdaterRolledBackStaysHeld == Spec => RolledBackStaysHeld
<1> DEFINE Held == \/ undone.version = None \/ installer'.target > undone.version
                   \/ undone.digest \notin {AnySettings, settings}
           A == installer.step = "idle" /\ installer'.step = "marked" /\ installer'.auto => Held
<1>1. Inv /\ [Next]_vars => A
  <2> SUFFICES ASSUME Inv, [Next]_vars, installer.step = "idle", installer'.step = "marked", installer'.auto
               PROVE  Held
    OBVIOUS
  <2>1. InstallMark
    BY InvFacts, OnlyInstallMark
  <2> QED BY <2>1, InvFacts, InstallMarkHeld DEF Inv
<1>2. Inv /\ [Next]_vars => [A]_vars
  BY <1>1
<1>3. Spec => [][A]_vars
  <2> HIDE DEF A
  <2> QED BY <1>2, InvHolds, PTL DEF Spec
<1> QED BY <1>3 DEF RolledBackStaysHeld
=============================================================================
