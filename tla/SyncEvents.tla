------------------------------ MODULE SyncEvents ------------------------------
(***************************************************************************)
(* When library.changed goes out.  A writer commits, reads the watermark   *)
(* and notes it while it still holds Store.mu.  The publisher arms one     *)
(* shared timer that every further note starts again; while a full scan is *)
(* advertised it drops the note instead and cancels the timer, because the *)
(* end of the scan publishes the watermark once.                           *)
(*                                                                         *)
(* Four things run at once: the writers, the timer's goroutines (one that  *)
(* time.Timer.Stop came too late for still runs), the scan, and the scan's *)
(* deferred calls, which publish after its flag has cleared.               *)
(***************************************************************************)
EXTENDS Integers

CONSTANTS
  MaxStamp,      \* bound: commits that change the library
  MaxGeneration  \* bound: no scan starts past this generation of the timer

ASSUME BoundsAssumption == MaxStamp \in Nat /\ MaxGeneration \in Nat

VARIABLES
  watermark,   \* libraryWatermark: the stamp of the last commit
  noting,      \* the watermark a writer still has to note, or 0
  scan,        \* the full scan, and the deferred calls it returns through
  scanNS,      \* the watermark publishWatermark read
  pendingNS,   \* SyncEventPublisher.pendingNS
  generation,  \* SyncEventPublisher.generation
  armed,       \* the generation whose timer is running, or 0
  firing,      \* the generations whose fireDebounce has not taken the lock yet
  outgoing,    \* the watermarks fireDebounce took and has not published yet
  told,        \* the latest watermark published
  owed,        \* history: the latest watermark the running scan suppressed, or 0
  lost         \* history: the latest watermark owed by a scan that failed, or 0

timerVars == <<pendingNS, generation, armed, firing>>
notesVars == <<watermark, noting, scan, scanNS, timerVars, outgoing, told, owed, lost>>

Phases  == {"none", "running", "stalled", "cleared", "cancelled", "read"}
Larger(a, b) == IF a > b THEN a ELSE b

NotesTypeOK ==
  /\ watermark \in Nat /\ noting \in Nat /\ told \in Nat
  /\ scan \in Phases /\ scanNS \in Nat
  /\ pendingNS \in Nat /\ generation \in Nat /\ armed \in Nat
  /\ owed \in Nat /\ lost \in Nat
  /\ firing \subseteq Nat /\ outgoing \subseteq Nat

NotesInit ==
  /\ watermark = 0 /\ noting = 0
  /\ scan = "none" /\ scanNS = 0
  /\ pendingNS = 0 /\ generation = 0 /\ armed = 0 /\ firing = {}
  /\ outgoing = {} /\ told = 0 /\ owed = 0 /\ lost = 0

-----------------------------------------------------------------------------
\* Mutant: the flag clears after the scan-end event, not before it.
UntilScanReturns == scan \in {"running", "cleared", "cancelled", "read"}

\* AdvertisedScanning: running and not stalled.
AdvertisedScanning == scan = "running"

\* A commit that moves a stamp.  Store.mu is held until the note is made, so the
\* watermark noteLibrary reads is this commit's.
Commit ==
  /\ noting = 0
  /\ watermark < MaxStamp
  /\ watermark' = watermark + 1
  /\ noting'    = watermark + 1
  /\ UNCHANGED <<scan, scanNS, timerVars, outgoing, told, owed, lost>>

\* cancelTimerLocked.  Stop does not reach a goroutine that is already firing.
CancelTimer ==
  /\ generation' = generation + 1
  /\ armed'      = 0
  /\ pendingNS'  = 0
  /\ UNCHANGED firing

\* Mutant: a burst is told of by its first note.
KeepFirstNote ==
  /\ IF armed # 0 THEN UNCHANGED <<pendingNS, generation, armed>>
     ELSE pendingNS' = noting /\ generation' = generation + 1 /\ armed' = generation + 1
  /\ UNCHANGED firing

\* The rest of NoteLibrary: stop the timer there is, and start one.
ArmTimer ==
  /\ generation' = generation + 1
  /\ armed'      = generation + 1
  /\ pendingNS'  = noting
  /\ UNCHANGED firing

NoteLibrary ==
  /\ noting # 0
  /\ noting' = 0
  /\ IF AdvertisedScanning
     THEN CancelTimer /\ owed' = noting
     ELSE ArmTimer /\ UNCHANGED owed
  /\ UNCHANGED <<watermark, scan, scanNS, outgoing, told, lost>>

\* The library has been quiet for libraryChangeDebounce.
TimerFires ==
  /\ armed # 0
  /\ firing' = firing \cup {armed}
  /\ armed'  = 0
  /\ UNCHANGED <<watermark, noting, scan, scanNS, pendingNS, generation, outgoing, told, owed, lost>>

\* Mutant: a goroutine does not ask whether its timer was started again.
AnyGeneration(gen) == TRUE

\* gen == p.generation, under p.mu.
CurrentGeneration(gen) == gen = generation

\* fireDebounce up to its unlock.
FireDebounce(gen) ==
  /\ gen \in firing
  /\ firing' = firing \ {gen}
  /\ IF CurrentGeneration(gen)
     THEN /\ pendingNS' = 0
          /\ armed'     = 0
          /\ IF AdvertisedScanning
             THEN owed' = Larger(owed, pendingNS) /\ UNCHANGED outgoing
             ELSE outgoing' = outgoing \cup ({pendingNS} \ {0}) /\ UNCHANGED owed
     ELSE UNCHANGED <<pendingNS, armed, outgoing, owed>>
  /\ UNCHANGED <<watermark, noting, scan, scanNS, generation, told, lost>>

\* publishLibrary, after fireDebounce's unlock.
PublishDebounced(ns) ==
  /\ ns \in outgoing
  /\ outgoing' = outgoing \ {ns}
  /\ told'     = Larger(told, ns)
  /\ UNCHANGED <<watermark, noting, scan, scanNS, timerVars, owed, lost>>

ScanStarts ==
  /\ scan = "none"
  /\ generation < MaxGeneration
  /\ scan' = "running"
  /\ UNCHANGED <<watermark, noting, scanNS, timerVars, outgoing, told, owed, lost>>

\* Nothing committed for scanStallThreshold, and progress again.
ScanStalls ==
  /\ scan = "running"
  /\ scan' = "stalled"
  /\ UNCHANGED <<watermark, noting, scanNS, timerVars, outgoing, told, owed, lost>>

ScanResumes ==
  /\ scan = "stalled"
  /\ scan' = "running"
  /\ UNCHANGED <<watermark, noting, scanNS, timerVars, outgoing, told, owed, lost>>

\* Scan returns an error, or its context has ended: the flag clears, and the
\* deferred call publishes nothing.
ScanFails ==
  /\ scan \in {"running", "stalled"}
  /\ scan' = "none"
  /\ lost' = Larger(lost, owed)
  /\ owed' = 0
  /\ UNCHANGED <<watermark, noting, scanNS, timerVars, outgoing, told>>

\* The deferred scanning.Store(false) of a scan that succeeded.
ScanSucceeds ==
  /\ scan \in {"running", "stalled"}
  /\ scan' = "cleared"
  /\ UNCHANGED <<watermark, noting, scanNS, timerVars, outgoing, told, owed, lost>>

\* ScanEnded, under p.mu.
ScanEnded ==
  /\ scan = "cleared"
  /\ scan' = "cancelled"
  /\ owed' = Larger(owed, pendingNS)
  /\ CancelTimer
  /\ UNCHANGED <<watermark, noting, scanNS, outgoing, told, lost>>

\* publishWatermark: the read, and the event.
ReadWatermark ==
  /\ scan = "cancelled"
  /\ scan'   = "read"
  /\ scanNS' = watermark
  /\ UNCHANGED <<watermark, noting, timerVars, outgoing, told, owed, lost>>

PublishWatermark ==
  /\ scan = "read"
  /\ scan'   = "none"
  /\ told'   = Larger(told, scanNS)
  /\ scanNS' = 0
  /\ owed'   = 0
  /\ UNCHANGED <<watermark, noting, timerVars, outgoing, lost>>

Fire == \E gen \in firing : FireDebounce(gen)
Send == \E ns \in outgoing : PublishDebounced(ns)
ScanReturns == ScanFails \/ ScanSucceeds
ScanTail == ScanEnded \/ ReadWatermark \/ PublishWatermark

NotesNext ==
  \/ Commit \/ NoteLibrary
  \/ TimerFires \/ Fire \/ Send
  \/ ScanStarts \/ ScanStalls \/ ScanResumes \/ ScanReturns \/ ScanTail

NotesSpec == NotesInit /\ [][NotesNext]_notesVars

\* Each goroutine gets to run, a timer fires, and a scan returns: one that never
\* does is the wedged scan the stall is for.
NotesFairness ==
  /\ WF_notesVars(NoteLibrary) /\ WF_notesVars(TimerFires) /\ WF_notesVars(Fire) /\ WF_notesVars(Send)
  /\ WF_notesVars(ScanReturns) /\ WF_notesVars(ScanTail)

NotesFairSpec == NotesSpec /\ NotesFairness

-----------------------------------------------------------------------------
(***************************************************************************)
(* Properties                                                              *)
(***************************************************************************)

\* A note of w is on its way: the writer is about to make it, the timer that is
\* running or firing is the last one started, or its goroutine is about to send.
NoteUnderWay(w) ==
  \/ noting = w
  \/ pendingNS = w /\ generation \in firing \cup {armed}
  \/ w \in outgoing

\* The scan's end will cover w: a note of it was suppressed, or the read of the
\* watermark found it.
ScanWillTell(w) ==
  \/ owed = w /\ scan \in {"running", "stalled", "cleared", "cancelled"}
  \/ scanNS = w /\ scan = "read"

\* No change of the library is forgotten: as long as clients were not told of the
\* latest one, something is under way that will tell them, or a scan that failed
\* took it with it (NoteLibrary, fireDebounce, ScanEnded).
ChangeIsUnderWay ==
  told < watermark =>
    NoteUnderWay(watermark) \/ ScanWillTell(watermark) \/ lost = watermark

\* A debounced event is sent for the last note of a burst and after its own timer,
\* although Stop does not stop a goroutine that has begun (fireDebounce's
\* generation).
OnlyAfterQuiet == [][\A ns \in outgoing' \ outgoing : generation \in firing /\ ns = pendingNS]_notesVars

\* Clients are told of the last change.
ClientsAreTold == <>[](told = watermark \/ lost = watermark)
=============================================================================
