------------------------------- MODULE Updater -------------------------------
(***************************************************************************)
(* A self-update of the bridge: the binary, its backup, the install marker *)
(* (update-state.json) and the schema of the store, with the processes that*)
(* change them.  An install replaces the binary under the running `serve`; *)
(* the next start runs it, counts itself against the install, may migrate  *)
(* the store, and confirms the install once it answered and stayed up.     *)
(* Four rollbacks put the backup back: the early one (the new version      *)
(* refuses the settings), the crash one (its starts do not end cleanly),   *)
(* the boot one (another version came up) and the operator's.  None of them*)
(* may put a version back over a store a newer one has begun to migrate.   *)
(*                                                                         *)
(* Each durable write is a step of its own, a process can be killed between*)
(* any two of them, and the install marker's lock serializes the sequences *)
(* that hold it.  A killed process lets its locks go.                      *)
(***************************************************************************)
EXTENDS Integers

CONSTANTS
  Newest,     \* the releases are 1..Newest
  Schema,     \* the store version each release migrates the store to
  Settings,   \* what bridge.yaml may say
  Loads,      \* the settings each release accepts
  Crashing,   \* the releases whose serve dies before it answers
  Limit,      \* ProbationFailedStarts
  MaxEvents   \* bound: installs, rollbacks, edits, kills, stops and commands

Versions == 1..Newest
None     == 0

ASSUME UpdaterAssumption ==
  /\ Newest \in Nat \ {0} /\ Limit \in Nat \ {0} /\ MaxEvents \in Nat
  /\ Schema \in [Versions -> Nat]
  /\ \A v, w \in Versions : v <= w => Schema[v] <= Schema[w]
  /\ Loads \in [Versions -> SUBSET Settings]
  /\ Crashing \subseteq Versions

VARIABLES
  bin,       \* the release at the binary's path
  bak,       \* the release in the backup beside it, or None
  store,     \* the newest schema a migration of the store has begun
  settings,  \* bridge.yaml
  marker,    \* update-state.json; the zero record when there is none
  serve,     \* the bridge serve process
  installer, \* the install or the operator's rollback in its critical section
  command,   \* another command of the bridge that opens the store
  latest,    \* the latest release
  events,    \* the events left of MaxEvents
  lapsed,    \* history: an install's marker dropped a record that was still needed:
             \* it was cut off before its swap, or a command of the release a
             \* rollback vetoed had yet to open the store
  unclean,   \* history: unclean ends of a release's starts since its swap
  undone     \* history: the last rollback, while its hold should stand

vars == <<bin, bak, store, settings, marker, serve, installer, command,
          latest, events, lapsed, unclean, undone>>

AnySettings == "any"  \* a hold with no digest
FailedCap   == Limit + 1  \* past the limit the count decides nothing more

NoMarker ==
  [status |-> "", target |-> None, prev |-> None, swap |-> FALSE, recent |-> FALSE,
   rejected |-> None, digest |-> AnySettings, opened |-> None, rolling |-> FALSE,
   veto |-> None, failed |-> 0, migrated |-> None, refused |-> FALSE, token |-> FALSE]

Down == [phase |-> "down", image |-> None, counted |-> 0, hold |-> FALSE, pending |-> "none"]
Idle == [op |-> "none", by |-> "none", auto |-> FALSE, image |-> None, target |-> None,
         step |-> "idle"]
NoUndo    == [version |-> None, digest |-> AnySettings]
NoCommand == [phase |-> "idle", image |-> None]

Locking == {"early", "crash", "restoring", "restored"}
Phases  == {"down", "exec", "refused", "admitted", "migrating", "opened", "serving"} \cup Locking
Releases == Versions \cup {None}

Markers ==
  [status : {"", "installing", "installed"}, target : Releases, prev : Releases,
   swap : BOOLEAN, recent : BOOLEAN, rejected : Releases,
   digest : Settings \cup {AnySettings}, opened : Releases, rolling : BOOLEAN,
   veto : Releases, failed : 0..FailedCap, migrated : Releases, refused : BOOLEAN,
   token : BOOLEAN]

\* Every variable keeps its type: the record each process and the marker keep.
TypeOK ==
  /\ bin \in Versions /\ bak \in Releases /\ store \in Nat
  /\ settings \in Settings /\ marker \in Markers
  /\ serve \in [phase : Phases, image : Releases, counted : 0..FailedCap,
                hold : BOOLEAN, pending : {"none", "swap", "restart"}]
  /\ installer \in [op : {"none", "install", "rollback"}, by : {"none", "serve", "cli"},
                    auto : BOOLEAN, image : Releases, target : Releases,
                    step : {"idle", "marked", "armed", "unlinked", "linked", "recorded", "renamed"}]
  /\ command \in [phase : {"idle", "opening", "migrating"}, image : Releases]
  /\ latest \in Versions /\ events \in 0..MaxEvents
  /\ lapsed \in BOOLEAN
  /\ unclean \in [Versions -> 0..Limit]
  /\ undone \in [version : Releases, digest : Settings \cup {AnySettings}]

Init ==
  /\ bin = 1 /\ bak = None /\ store = Schema[1]
  /\ settings \in Loads[1]
  /\ marker = NoMarker /\ serve = Down /\ installer = Idle /\ command = NoCommand
  /\ latest = 1 /\ events = MaxEvents
  /\ lapsed = FALSE /\ unclean = [v \in Versions |-> 0] /\ undone = NoUndo

-----------------------------------------------------------------------------
\* The marker's lock is held over every sequence of more than one write.
Unlocked == installer.step = "idle" /\ serve.phase \notin Locking

Event == events > 0 /\ events' = events - 1

InstallArmed(m)      == m.status = "installing" \/ (m.status = "" /\ m.rolling)
AwaitsConfirmation(m, v) == m.status = "installing" /\ m.target = v
CountsStart(m, v)    == InstallArmed(m) /\ m.target = v
ArmsDataDirRecord(m, v) == InstallArmed(m) /\ m.opened = None /\ m.prev /= v
ArmsStoreRecord(m, v)   == InstallArmed(m) /\ m.migrated = None /\ m.prev /= v
RollbackRefusal(m)   == m.opened /= None /\ m.opened /= m.prev

\* Mutant: the record of who opened the data directory goes with the install.
ClearAllButHold(m) == [NoMarker EXCEPT !.rejected = m.rejected, !.digest = m.digest, !.veto = m.veto]

\* Mutant: the hold goes with the install.
ClearAllButOpened(m) ==
  [NoMarker EXCEPT !.veto = m.veto,
     !.opened = IF RollbackRefusal(m) THEN m.opened ELSE None,
     !.prev   = IF RollbackRefusal(m) THEN m.prev ELSE None]

\* The marker ClearInstall leaves: the hold, the veto and, beside a backup it
\* may leave in place, the version that opened the data directory.
ClearInstall(m) ==
  [NoMarker EXCEPT !.rejected = m.rejected, !.digest = m.digest, !.veto = m.veto,
     !.opened = IF RollbackRefusal(m) THEN m.opened ELSE None,
     !.prev   = IF RollbackRefusal(m) THEN m.prev ELSE None]

\* A rename of the backup over the binary.  The two may be names of one file,
\* where an install was cut off after it linked them: the rename does nothing.
Restore ==
  /\ bin' = bak
  /\ bak' \in {None} \cup ({bak} \cap {bin})

EarlyRollback(m, v) ==
  /\ InstallArmed(m) /\ m.target = v
  /\ m.swap /\ m.prev \notin {None, v} /\ m.recent /\ m.opened = None

CrashRollbackAtLimit(m, v) ==
  /\ InstallArmed(m) /\ m.target = v
  /\ m.swap /\ m.prev \notin {None, v} /\ m.migrated = None /\ m.opened \in {None, v}

CrashRollback(m, v) == CrashRollbackAtLimit(m, v) /\ m.failed >= Limit

RollbackRecord(m, v, s) ==
  [NoMarker EXCEPT !.target = m.target, !.prev = m.prev, !.recent = m.recent,
     !.swap = m.swap, !.rolling = TRUE, !.rejected = v, !.digest = s, !.veto = m.target]

CrashRollbackRecord(m, v) ==
  [m EXCEPT !.status = "", !.rolling = TRUE, !.rejected = v, !.digest = AnySettings,
     !.veto = m.target, !.refused = FALSE]

OperatorRollbackRecord(m, v) ==
  [m EXCEPT !.status = "", !.rolling = (m.target /= None), !.rejected = v,
     !.digest = AnySettings, !.veto = v]

-----------------------------------------------------------------------------
\* The install: `bridge update`, or serve's own, the operator's or automatic.
\* It replaces the release it is itself, which need not be the one on disk.
HeldBack(v) ==
  /\ marker.rejected /= None /\ v <= marker.rejected
  /\ marker.digest \in {AnySettings, settings}

SwapAwaitingRestart(v, pending) ==
  /\ marker.status = "installing" /\ marker.swap /\ marker.target = v
  /\ pending \/ marker.recent

Installers ==
  {[by |-> "cli", auto |-> FALSE, image |-> bin]} \cup
  {i \in [by : {"serve"}, auto : BOOLEAN, image : {serve.image}] : serve.phase = "serving"}

\* What decideUnderLock lets pass.
MayInstall(i, v) ==
  /\ Unlocked
  /\ v = latest /\ v > i.image
  /\ ~SwapAwaitingRestart(v, i.by = "serve" /\ serve.pending /= "none")
  /\ i.auto => serve.pending /= "restart" /\ ~HeldBack(v)

\* A command of the release that was rolled back has yet to open the store.
VetoNeeded == command.phase = "opening" /\ marker.veto = command.image

FreshMarker(i, v) ==
  [NoMarker EXCEPT !.status = "installing", !.target = v, !.prev = i.image, !.recent = TRUE]

InstallMark ==
  /\ Event
  /\ \E i \in Installers, v \in Versions :
       /\ MayInstall(i, v) /\ settings \in Loads[v]
       /\ marker' = FreshMarker(i, v)
       /\ installer' = [op |-> "install", by |-> i.by, auto |-> i.auto, image |-> i.image,
                        target |-> v, step |-> "marked"]
  /\ undone' = NoUndo
  /\ lapsed' = (lapsed \/ VetoNeeded)
  /\ UNCHANGED <<bin, bak, store, settings, latest, serve, command, unclean>>

\* The candidate's own check refuses the settings: nothing is installed, and
\* the refusal takes the place of the hold.
CandidateRefused ==
  /\ Event
  /\ \E i \in Installers, v \in Versions :
       /\ MayInstall(i, v) /\ settings \notin Loads[v]
       /\ marker' = [marker EXCEPT !.rejected = v, !.digest = settings]
  /\ undone' = NoUndo
  /\ UNCHANGED <<bin, bak, store, settings, latest, serve, installer, command, lapsed, unclean>>

\* A swap that fails puts the marker back as it was and, where it failed after
\* the link, has lost the backup.
SwapFails ==
  /\ Event
  /\ \E i \in Installers, v \in Versions : MayInstall(i, v) /\ settings \in Loads[v]
  /\ bak' \in {bak, None}
  /\ UNCHANGED <<bin, store, settings, latest, marker, serve, installer, command, lapsed, unclean, undone>>

ArmSwap ==
  /\ installer.step = "marked"
  /\ marker' = [marker EXCEPT !.swap = TRUE]
  /\ installer' = [installer EXCEPT !.step = "armed"]
  /\ UNCHANGED <<bin, bak, store, settings, latest, serve, command, events, lapsed, unclean, undone>>

\* link answers that a backup of an earlier install is there.
Unlink ==
  /\ installer.step = "armed" /\ bak /= None
  /\ bak' = None
  /\ installer' = [installer EXCEPT !.step = "unlinked"]
  /\ UNCHANGED <<bin, store, settings, latest, marker, serve, command, events, lapsed, unclean, undone>>

Link ==
  /\ installer.step = "unlinked" \/ (installer.step = "armed" /\ bak = None)
  /\ bak' = bin
  /\ installer' = [installer EXCEPT !.step = "linked"]
  /\ UNCHANGED <<bin, store, settings, latest, marker, serve, command, events, lapsed, unclean, undone>>

Replace ==
  /\ installer.step = "linked"
  /\ bin' = installer.target
  /\ serve' = IF installer.by = "cli" THEN serve
              ELSE [serve EXCEPT !.pending = IF installer.auto THEN "restart" ELSE "swap"]
  /\ installer' = Idle
  /\ unclean' = [unclean EXCEPT ![installer.target] = 0]
  /\ UNCHANGED <<bak, store, settings, latest, marker, command, events, lapsed, undone>>

\* The operator's rollback, in serve.
RejectedVersionOf == IF marker.target /= None THEN marker.target ELSE serve.image

RollbackRecorded ==
  /\ Event /\ Unlocked /\ serve.phase = "serving"
  /\ ~RollbackRefusal(marker) /\ bak /= None
  /\ marker' = OperatorRollbackRecord(marker, RejectedVersionOf)
  /\ installer' = [Idle EXCEPT !.op = "rollback", !.by = "serve", !.step = "recorded"]
  /\ undone' = [version |-> RejectedVersionOf, digest |-> AnySettings]
  /\ UNCHANGED <<bin, bak, store, settings, latest, serve, command, lapsed, unclean>>

RollbackRename ==
  /\ installer.step = "recorded"
  /\ Restore
  /\ installer' = [installer EXCEPT !.step = "renamed"]
  /\ UNCHANGED <<store, settings, latest, marker, serve, command, events, lapsed, unclean, undone>>

RollbackDone ==
  /\ installer.step = "renamed"
  /\ marker' = [marker EXCEPT !.rolling = FALSE]
  /\ serve' = [serve EXCEPT !.pending = "none"]
  /\ installer' = Idle
  /\ UNCHANGED <<bin, bak, store, settings, latest, command, events, lapsed, unclean, undone>>

-----------------------------------------------------------------------------
\* The serve process.  Its start: the settings, the data directory's lock, the
\* crash rollback, the admission, the store, the housekeeping, the listeners.
installVars == <<bin, bak, marker>>
fixed       == <<settings, command, latest>>

Exec ==
  /\ serve.phase = "down"
  /\ serve' = [Down EXCEPT !.phase = "exec", !.image = bin]
  /\ UNCHANGED <<installVars, fixed, store, installer, events, lapsed, unclean, undone>>

Accepts == settings \in Loads[serve.image]

MayRestoreEarly == Unlocked /\ EarlyRollback(marker, serve.image) /\ bak = marker.prev

EarlyRecord ==
  /\ serve.phase = "exec" /\ ~Accepts /\ MayRestoreEarly
  /\ marker' = RollbackRecord(marker, serve.image, settings)
  /\ serve' = [serve EXCEPT !.phase = "early"]
  /\ undone' = [version |-> serve.image, digest |-> settings]
  /\ UNCHANGED <<bin, bak, fixed, store, installer, events, lapsed, unclean>>

\* The settings are refused and there is nothing to put back.
RefusedExit ==
  /\ serve.phase = "exec" /\ ~Accepts /\ ~MayRestoreEarly
  /\ serve' = Down
  /\ UNCHANGED <<installVars, fixed, store, installer, events, lapsed, unclean, undone>>

MayPutBack == CrashRollback(marker, serve.image) /\ bak = marker.prev /\ settings \in Loads[bak]

CrashRecord ==
  /\ serve.phase = "exec" /\ Accepts /\ Unlocked
  /\ MayPutBack
  /\ marker' = CrashRollbackRecord(marker, serve.image)
  /\ serve' = [serve EXCEPT !.phase = "crash"]
  /\ undone' = [version |-> serve.image, digest |-> AnySettings]
  /\ UNCHANGED <<bin, bak, fixed, store, installer, events, lapsed, unclean>>

\* The limit is reached and the backup stays: why is recorded, and the start
\* goes on.
CrashRefused ==
  /\ serve.phase = "exec" /\ Accepts /\ Unlocked
  /\ CountsStart(marker, serve.image) /\ marker.failed >= Limit /\ ~MayPutBack
  /\ marker' = [marker EXCEPT !.refused = TRUE]
  /\ serve' = [serve EXCEPT !.phase = "refused"]
  /\ UNCHANGED <<bin, bak, fixed, store, installer, events, lapsed, unclean, undone>>

\* The rename of the backup fails, and the marker is put back as it was.
PutBackFails ==
  /\ Event
  /\ serve.phase = "exec" /\ Unlocked
  /\ \/ ~Accepts /\ MayRestoreEarly /\ serve' = Down /\ UNCHANGED marker
     \/ /\ Accepts /\ MayPutBack
        /\ serve' = [serve EXCEPT !.phase = "refused"]
        /\ marker' = [marker EXCEPT !.refused = TRUE]
  /\ UNCHANGED <<bin, bak, fixed, store, installer, lapsed, unclean, undone>>

\* Both rollbacks exit once the backup is back, for the service manager to
\* start it.
PutBack ==
  /\ serve.phase \in {"early", "crash"}
  /\ Restore
  /\ serve' = Down
  /\ UNCHANGED <<marker, fixed, store, installer, events, lapsed, unclean, undone>>

CappedNext(n) == IF n < FailedCap THEN n + 1 ELSE n

\* Mutant: a start that finds the record of the one before it is not counted.
CountedOnce(m, v) ==
  [m EXCEPT !.opened = IF ArmsDataDirRecord(m, v) THEN v ELSE @,
            !.veto   = IF @ = v THEN None ELSE @,
            !.failed = IF ArmsDataDirRecord(m, v) /\ CountsStart(m, v) THEN CappedNext(@) ELSE @,
            !.token  = @ \/ CountsStart(m, v)]

\* AdmitBoot: before this start's first write to the data directory, in one.
Admitted(m, v) ==
  [m EXCEPT !.opened = IF ArmsDataDirRecord(m, v) THEN v ELSE @,
            !.veto   = IF @ = v THEN None ELSE @,
            !.failed = IF CountsStart(m, v) THEN CappedNext(@) ELSE @,
            !.token  = @ \/ CountsStart(m, v)]

AdmitBoot ==
  /\ \/ serve.phase = "refused"
     \/ serve.phase = "exec" /\ Accepts
        /\ ~(CountsStart(marker, serve.image) /\ marker.failed >= Limit)
  /\ Unlocked
  /\ marker' = Admitted(marker, serve.image)
  /\ LET counts == CountsStart(marker, serve.image)
     IN serve' = [serve EXCEPT !.phase = "admitted", !.hold = counts,
                    !.counted = IF counts THEN marker'.failed ELSE 0]
  /\ UNCHANGED <<bin, bak, fixed, store, installer, events, lapsed, unclean, undone>>

MigrationVetoed(m, v) == m.veto = v

MigrationHeld(m, v) ==
  /\ AwaitsConfirmation(m, v) /\ CrashRollbackAtLimit(m, v)
  /\ m.failed > IF m.token /\ serve.hold THEN 1 ELSE 0

\* Before the first step of a migration: who opened the data directory and who
\* began it.
Migrating(m, v) ==
  [m EXCEPT !.opened   = IF ArmsDataDirRecord(m, v) THEN v ELSE @,
            !.migrated = IF ArmsStoreRecord(m, v) THEN v ELSE @]

OpenStore ==
  /\ serve.phase = "admitted"
  /\ IF Schema[serve.image] <= store
     THEN serve' = [serve EXCEPT !.phase = "opened"] /\ UNCHANGED marker
     ELSE /\ Unlocked /\ ~MigrationVetoed(marker, serve.image)
          /\ marker' = Migrating(marker, serve.image)
          /\ serve' = [serve EXCEPT !.phase = "migrating"]
  /\ UNCHANGED <<bin, bak, fixed, store, installer, events, lapsed, unclean, undone>>

Later(n, m) == IF n < m THEN m ELSE n

Migrate ==
  /\ serve.phase = "migrating"
  /\ store' = Later(store, Schema[serve.image])
  /\ serve' = [serve EXCEPT !.phase = "opened"]
  /\ UNCHANGED <<installVars, fixed, installer, events, lapsed, unclean, undone>>

\* The housekeeping of the boot, by what the marker says (DecideBootAction).
Booting(S) == serve.phase = "opened" /\ Unlocked /\ marker.status \in S

RunsTarget == serve.image = marker.target
Boots(next) == serve' = [serve EXCEPT !.phase = next]

\* No marker, an install on probation, a hold alone, or the record of a
\* rollback this start cannot show it overtook.
BootNoop ==
  /\ serve.phase = "opened"
  /\ \/ marker.status = "installing" /\ RunsTarget
     \/ /\ marker.status = ""
        /\ ~marker.rolling \/ serve.image \notin {marker.target, marker.prev}
           \/ (RunsTarget /\ marker.opened /= marker.target)
  /\ Boots("serving")
  /\ UNCHANGED <<installVars, fixed, store, installer, events, lapsed, unclean, undone>>

\* The boot after the confirmation.
BootCleanupBak ==
  /\ Booting({"installed"})
  /\ bak' = None
  /\ marker' = ClearInstall([marker EXCEPT !.opened = None])
  /\ Boots("serving")
  /\ UNCHANGED <<bin, fixed, store, installer, events, lapsed, unclean, undone>>

\* Another version came up: nothing is put back where the install is old, never
\* reached its swap, or its version opened the data directory.
BootClear ==
  /\ Booting({"installing"}) /\ ~RunsTarget
  /\ ~marker.recent \/ ~marker.swap \/ marker.opened /= None
  /\ marker' = ClearInstall(marker)
  /\ Boots("serving")
  /\ UNCHANGED <<bin, bak, fixed, store, installer, events, lapsed, unclean, undone>>

BootVeto ==
  /\ Booting({"installing"}) /\ ~RunsTarget
  /\ marker.recent /\ marker.swap /\ marker.opened = None
  /\ marker' = [marker EXCEPT !.veto = marker.target]
  /\ Boots("restoring")
  /\ UNCHANGED <<bin, bak, fixed, store, installer, events, lapsed, unclean, undone>>

BootRestore ==
  /\ serve.phase = "restoring"
  /\ IF bak = None THEN UNCHANGED <<bin, bak>> ELSE Restore
  /\ Boots("restored")
  /\ UNCHANGED <<marker, fixed, store, installer, events, lapsed, unclean, undone>>

BootRestored ==
  /\ serve.phase = "restored"
  /\ marker' = ClearInstall(marker)
  /\ Boots("serving")
  /\ UNCHANGED <<bin, bak, fixed, store, installer, events, lapsed, unclean, undone>>

ProbationOverRollback(m) ==
  [m EXCEPT !.status = "installing", !.rolling = FALSE,
     !.rejected = IF @ = m.target THEN None ELSE @,
     !.digest   = IF m.rejected = m.target THEN AnySettings ELSE @,
     !.veto     = IF @ = m.target THEN None ELSE @]

\* The version a rollback was leaving has started after all.
BootRollbackOvertaken ==
  /\ Booting({""}) /\ marker.rolling /\ RunsTarget /\ marker.opened = marker.target
  /\ marker' = ProbationOverRollback(marker)
  /\ undone' = NoUndo
  /\ Boots("serving")
  /\ UNCHANGED <<bin, bak, fixed, store, installer, events, lapsed, unclean>>

BootRollbackFinished ==
  /\ Booting({""}) /\ marker.rolling /\ ~RunsTarget /\ serve.image = marker.prev
  /\ marker' = ClearInstall(marker)
  /\ Boots("serving")
  /\ UNCHANGED <<bin, bak, fixed, store, installer, events, lapsed, unclean, undone>>

Housekeeping ==
  \/ BootNoop \/ BootCleanupBak \/ BootClear \/ BootVeto \/ BootRestore \/ BootRestored
  \/ BootRollbackOvertaken \/ BootRollbackFinished

-----------------------------------------------------------------------------
\* The probation, and the ends of a start.

\* The start has answered and stayed up for ProbationWindow.
ConfirmInstall ==
  /\ serve.phase = "serving" /\ Unlocked
  /\ serve.image \notin Crashing /\ AwaitsConfirmation(marker, serve.image)
  /\ marker' = [marker EXCEPT !.status = "installed", !.failed = 0, !.refused = FALSE,
                  !.token = FALSE]
  /\ unclean' = [unclean EXCEPT ![serve.image] = 0]
  /\ UNCHANGED <<bin, bak, fixed, store, serve, installer, events, lapsed, undone>>

\* Mutant: a stop leaves its start counted.
KeepCount(m) == [m EXCEPT !.token = FALSE]

TakeBackFailedStart(m) ==
  IF CountsStart(m, serve.image) /\ serve.counted > 0 /\ m.failed = serve.counted
  THEN [m EXCEPT !.failed = @ - 1, !.token = FALSE]
  ELSE m

Running == serve.phase \in {"admitted", "migrating", "opened", "serving"}

CountUnclean == [unclean EXCEPT ![serve.image] = IF @ < Limit THEN @ + 1 ELSE @]

\* The locks and the work of a process that ends go with it.  An install cut
\* off before its swap has dropped the record of who opened the data directory
\* and the veto, and may leave the backup of an earlier one.
EndInstaller(by) ==
  /\ installer' = IF installer.by = by THEN Idle ELSE installer
  /\ lapsed' = (lapsed \/ (installer.by = by /\ installer.op = "install"))

\* A stop that cannot have the marker's lock counts as an unclean end.
Stop ==
  /\ Event /\ Running
  /\ IF Unlocked
     THEN marker' = TakeBackFailedStart(marker) /\ UNCHANGED unclean
     ELSE unclean' = CountUnclean /\ UNCHANGED marker
  /\ serve' = Down
  /\ EndInstaller("serve")
  /\ UNCHANGED <<bin, bak, fixed, store, undone>>

\* The automatic install restarts serve once its downloads have drained.
RestartWhenDrained ==
  /\ serve.phase = "serving" /\ serve.pending = "restart" /\ Unlocked
  /\ marker' = TakeBackFailedStart(
                 [marker EXCEPT !.recent = @ \/ marker.status = "installing"])
  /\ serve' = Down
  /\ UNCHANGED <<bin, bak, fixed, store, installer, events, lapsed, unclean, undone>>

EndUnclean ==
  /\ serve' = Down
  /\ unclean' = IF Running THEN CountUnclean ELSE unclean
  /\ EndInstaller("serve")
  /\ UNCHANGED <<installVars, fixed, store, undone>>

Kill  == Event /\ serve.phase /= "down" /\ EndUnclean
Crash == serve.phase = "serving" /\ serve.image \in Crashing /\ EndUnclean /\ UNCHANGED events

KillUpdate ==
  /\ Event /\ installer.by = "cli"
  /\ EndInstaller("cli")
  /\ UNCHANGED <<installVars, fixed, store, serve, unclean, undone>>

-----------------------------------------------------------------------------
\* Another command of the bridge, which runs from its own image.
CommandStart ==
  /\ Event /\ command.phase = "idle"
  /\ command' = [phase |-> "opening", image |-> bin]
  /\ UNCHANGED <<installVars, settings, latest, store, serve, installer, lapsed, unclean, undone>>

CommandRefused ==
  MigrationVetoed(marker, command.image) \/ MigrationHeld(marker, command.image)

CommandOpen ==
  /\ command.phase = "opening"
  /\ \/ Schema[command.image] <= store /\ command' = NoCommand /\ UNCHANGED marker
     \/ /\ Schema[command.image] > store /\ Unlocked
        /\ IF CommandRefused
           THEN command' = NoCommand /\ UNCHANGED marker
           ELSE /\ marker' = Migrating(marker, command.image)
                /\ command' = [command EXCEPT !.phase = "migrating"]
  /\ UNCHANGED <<bin, bak, settings, latest, store, serve, installer, events, lapsed, unclean, undone>>

CommandMigrate ==
  /\ command.phase = "migrating"
  /\ store' = Later(store, Schema[command.image])
  /\ command' = NoCommand
  /\ UNCHANGED <<installVars, settings, latest, serve, installer, events, lapsed, unclean, undone>>

EditSettings ==
  /\ Event
  /\ settings' \in Settings \ {settings}
  /\ UNCHANGED <<installVars, store, latest, serve, installer, command, lapsed, unclean, undone>>

\* A release comes out; none is withdrawn.
Publish ==
  /\ latest < Newest
  /\ latest' = latest + 1
  /\ UNCHANGED <<installVars, settings, store, serve, installer, command, events, lapsed, unclean, undone>>

\* recencyWindow, six hours, passes, which no start and no swap takes.
Age ==
  /\ marker.recent /\ serve.phase \in {"down", "serving"} /\ installer.step = "idle"
  /\ marker' = [marker EXCEPT !.recent = FALSE]
  /\ UNCHANGED <<bin, bak, fixed, store, serve, installer, events, lapsed, unclean, undone>>

Install  == InstallMark \/ CandidateRefused \/ SwapFails \/ ArmSwap \/ Unlink \/ Link \/ Replace
Rollback == RollbackRecorded \/ RollbackRename \/ RollbackDone
Start ==
  \/ Exec \/ EarlyRecord \/ RefusedExit \/ CrashRecord \/ CrashRefused \/ PutBackFails
  \/ PutBack \/ AdmitBoot \/ OpenStore \/ Migrate \/ Housekeeping
End      == Stop \/ RestartWhenDrained \/ Kill \/ Crash \/ KillUpdate
Commands == CommandStart \/ CommandOpen \/ CommandMigrate

Next == Install \/ Rollback \/ Start \/ ConfirmInstall \/ End \/ Commands \/ EditSettings \/ Publish \/ Age

\* The service manager starts serve again; a process that is not killed goes
\* on; a release that crashes does.
Fairness ==
  /\ WF_vars(Start /\ events' = events)
  /\ WF_vars((ArmSwap \/ Unlink \/ Link \/ Replace) \/ RollbackRename \/ RollbackDone)
  /\ WF_vars(Crash)

Spec == Init /\ [][Next]_vars /\ Fairness

-----------------------------------------------------------------------------
\* No rollback puts a release back over a store that a newer one has begun to
\* migrate, whichever of the four it is and whoever migrated: the store is
\* within what the binary on disk reads.  Excepted is what the fresh marker of
\* an install dropped while it was needed: the record of who opened the data
\* directory, where the install was cut off before its swap, and the veto of a
\* command that had yet to open the store.
StoreFitsBinary == lapsed \/ store <= Schema[bin]

\* What ClearInstall's comment says of an install that never swapped: the
\* record stays beside the backup, so the operator's rollback is no downgrade.
OperatorStaysWithinStore ==
  [][installer.step = "recorded" /\ installer'.step = "renamed" => store <= Schema[bin']]_vars

\* A crash rollback is deserved: Limit starts of the release, since its swap
\* and its last confirmation, did not end cleanly.
CrashRollbackDeserved ==
  [][serve.phase = "exec" /\ serve'.phase = "crash" => unclean[serve.image] >= Limit]_vars

\* Of a release that was rolled back, the automatic installer takes no build
\* until the settings it refused change, another release is tried, or the
\* install is resumed, however often serve starts, stops and is killed.
RolledBackStaysHeld ==
  [][ installer.step = "idle" /\ installer'.step = "marked" /\ installer'.auto
      => \/ undone.version = None \/ installer'.target > undone.version
         \/ undone.digest \notin {AnySettings, settings} ]_vars

\* An install that serve has been started on and whose starts crash, and which
\* nothing forbids to take back, does not stay.
CanBeTakenBack ==
  /\ bin \in Crashing /\ marker.target = bin /\ InstallArmed(marker)
  /\ serve.image \in {None, bin}
  /\ marker.swap /\ bak = marker.prev /\ bak \notin {None, bin} /\ marker.migrated = None
  /\ marker.opened \in {None, bin} /\ Schema[bin] <= store
  /\ settings \in Loads[bin] \cap Loads[bak]

BadInstallIsUndone == []<>~CanBeTakenBack
=============================================================================
