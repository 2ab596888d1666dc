------------------------------- MODULE Transport -------------------------------
(***************************************************************************)
(* The player's transport: one owner, which takes one command or message   *)
(* at a time, and the playback sessions it starts and releases at a        *)
(* backend that may refuse, fail, hang, or answer late.  Starting and      *)
(* releasing take time, so a command that asks for playback waits, behind  *)
(* a release or for its session's start, while other commands, edits, the  *)
(* output and a maintenance hold change what is to play.  What it waits    *)
(* for is decided once: by its session being heard, or by the first reason *)
(* why it will not be.                                                     *)
(*                                                                         *)
(* The owner's state is one record, o, and what a handler does to it one   *)
(* operator, as the handlers call each other.  A call to the backend is    *)
(* under way from the step that makes it until the step that takes its     *)
(* answer or its deadline.                                                 *)
(***************************************************************************)
EXTENDS Integers, Sequences, FiniteSets

CONSTANTS
  Controllers,  \* the callers of commands, each with one at a time
  Entries,      \* the queue's entries, numbers in queue order
  None,         \* no command, no call, no waiter
  MaxSessions,  \* bound: sessions that a run can come to
  MaxCommands   \* bound: commands asked of the engine

ASSUME EntriesAssumption == Entries \subseteq Nat \ {0} /\ IsFiniteSet(Entries)
ASSUME BoundsAssumption  == MaxSessions \in Nat /\ MaxCommands \in Nat

VARIABLES
  o,       \* owner, as the fields of TypeOK
  asked,   \* commands asked so far
  wanted   \* history: a command asked for playback, and nothing ended it since

vars == <<o, asked, wanted>>

Sessions == 1..MaxSessions
Phases   == {"none", "starting", "live", "releasing", "unconfirmed", "acked"}
States   == {"stopped", "playing", "paused", "releasing", "maintenance"}
Intents  == {"stop", "play", "pause"}
Commands == {<<"play">>, <<"pause">>, <<"stop">>, <<"next">>, <<"seek">>, <<"enter">>}
              \cup {<<"playID", e>> : e \in Entries}
Waiter   == [play : BOOLEAN, sess : 0..MaxSessions, carried : BOOLEAN,
             outcome : {"none", "began", "failed"}]

\* The owner's state.
Owner == [queue : SUBSET Entries, selected : Entries \cup {0}, pass : SUBSET Entries,
          state : States, then : Intents, output : {"unknown", "available", "gone"},
          sessions : 0..MaxSessions, sess : 0..MaxSessions, phase : [Sessions -> Phases],
          paused : BOOLEAN, devReleased : BOOLEAN, pauseArmed : BOOLEAN,
          call : {None} \cup [kind : {"pause", "resume"}, waiter : Controllers],
          unconfirmed : 0..MaxSessions, unconfirmedPaused : BOOLEAN,
          seek : Entries \cup {0},
          maint : {"none", "entering", "unconfirmed", "confirmed"},
          cmd : [Controllers -> Commands \cup {None}],
          waiter : [Controllers -> Waiter \cup {None}],
          parked : Seq(Controllers), missed : BOOLEAN]

TypeOK == o \in Owner /\ asked \in 0..MaxCommands /\ wanted \in BOOLEAN

\* start: any queue, nothing selected or the entry the queue file names, and
\* an output that nobody reported yet.
Init ==
  /\ \E q \in SUBSET Entries, e \in Entries \cup {0} :
       /\ e \in q \cup {0}
       /\ o = [queue |-> q, selected |-> e, pass |-> {},
               state |-> "stopped", then |-> "stop", output |-> "unknown",
               sessions |-> 0, sess |-> 0, phase |-> [s \in Sessions |-> "none"],
               paused |-> FALSE, devReleased |-> FALSE, pauseArmed |-> FALSE, call |-> None,
               unconfirmed |-> 0, unconfirmedPaused |-> FALSE, seek |-> 0, maint |-> "none",
               cmd |-> [c \in Controllers |-> None], waiter |-> [c \in Controllers |-> None],
               parked |-> <<>>, missed |-> FALSE]
  /\ asked = 0 /\ wanted = FALSE
-----------------------------------------------------------------------------
(***************************************************************************)
(* The queue                                                               *)
(***************************************************************************)
Least(S) == IF S = {} THEN 0 ELSE CHOOSE e \in S : \A f \in S : e <= f

\* queue.first; queue.after, which begins at the first; and following, which
\* passes over the entries refused in this pass.
First(p)        == Least(p.queue)
After(p, e)     == Least({f \in p.queue : f > e})
Following(p, e) == Least({f \in p.queue \ p.pass : f > e})
AllFailed(p)    == p.queue # {} /\ p.queue \subseteq p.pass

(***************************************************************************)
(* Sessions and the commands that wait for them                            *)
(***************************************************************************)
\* The session playing or starting (current).
Live(p) == p.sess # 0 /\ p.phase[p.sess] \in {"starting", "live"}
Held(p) == p.state = "playing" \/ (p.state = "paused" /\ Live(p))
Busy(p) == p.sess # 0 /\ p.phase[p.sess] \in {"starting", "releasing"}

Answer(p, C) ==
  [p EXCEPT !.cmd    = [c \in Controllers |-> IF c \in C THEN None ELSE p.cmd[c]],
            !.waiter = [c \in Controllers |-> IF c \in C THEN None ELSE p.waiter[c]]]

\* wait; a seek that plays waits as a command carried on (waitCarried).
Wait(p, c, play, carried) ==
  [p EXCEPT !.waiter[c] = [play |-> play, sess |-> 0, carried |-> carried, outcome |-> "none"]]

\* The play commands with no outcome yet.
Undecided(p) == {c \in Controllers :
  p.waiter[c] # None /\ p.waiter[c].play /\ p.waiter[c].outcome = "none"}
StartedFor(p, s) == {c \in Undecided(p) : p.waiter[c].sess = s}

\* The first outcome is the answer, whatever comes later.
Decide(p, C, outcome) ==
  [p EXCEPT !.waiter = [c \in Controllers |->
     IF c \in C THEN [p.waiter[c] EXCEPT !.outcome = outcome] ELSE p.waiter[c]]]

\* playFailed and superseded; replaced; replacedCarry; playBegan.
PlayFailed(p)    == Decide(p, Undecided(p), "failed")
Replaced(p)      == Decide(p, StartedFor(p, p.sess), "failed")
ReplacedCarry(p) == Decide(p, {c \in Undecided(p) : p.waiter[c].carried}, "failed")
PlayBegan(p)     == Decide(p, StartedFor(p, p.sess), "began")

\* carry: their playback goes on in the session that follows.
Carry(p) ==
  LET on == StartedFor(p, p.sess) IN
  [p EXCEPT !.waiter = [c \in Controllers |->
     IF c \in on THEN [p.waiter[c] EXCEPT !.sess = 0, !.carried = TRUE] ELSE p.waiter[c]]]

\* setIntent: a pending play that is replaced is superseded.
SetIntent(p, then) ==
  LET q == IF then # "play" /\ p.then = "play" THEN PlayFailed(p) ELSE p
  IN [q EXCEPT !.then = then]

\* Mutant: the Pause or Resume under way is dropped with the session, unanswered.
ReleaseSessionUnanswered(p, then) ==
  IF ~Live(p) THEN SetIntent(p, then)
  ELSE [IF then = "play" THEN p ELSE PlayFailed(p) EXCEPT
          !.phase[p.sess] = "releasing", !.call = None, !.pauseArmed = FALSE,
          !.then = then, !.state = IF p.maint = "none" THEN "releasing" ELSE @]

\* releaseSession: nothing is released twice.  The Pause or Resume under way is
\* answered, and released to anything but play the waiting plays are superseded.
ReleaseSession(p, then) ==
  IF ~Live(p) THEN SetIntent(p, then)
  ELSE LET q == IF then = "play" THEN p ELSE PlayFailed(p)
           r == IF p.call = None THEN q ELSE Answer(q, {p.call.waiter})
       IN [r EXCEPT !.phase[p.sess] = "releasing", !.call = None, !.pauseArmed = FALSE,
                    !.then = then, !.state = IF p.maint = "none" THEN "releasing" ELSE @]

\* startSession: for the plays with none started for them, and at the target of
\* a seek if the entry is the seek's.
StartSession(p, target) ==
  LET n == p.sessions + 1 IN
  [p EXCEPT !.sessions = n, !.sess = n, !.phase[n] = "starting", !.seek = 0,
            !.state = "playing", !.then = "stop", !.selected = target,
            !.paused = FALSE, !.devReleased = FALSE,
            !.waiter = [c \in Controllers |->
               IF p.waiter[c] # None /\ p.waiter[c].play /\ p.waiter[c].sess = 0
               THEN [p.waiter[c] EXCEPT !.sess = n, !.carried = FALSE] ELSE p.waiter[c]]]

\* What a start at the selection would play.
Target(p) == IF p.selected # 0 THEN p.selected ELSE First(p)

\* afterRelease: the pending intent, in maintenance none.
AfterRelease(p) ==
  LET q == [p EXCEPT !.then = "stop"]
      stopped == [q EXCEPT !.state = "stopped"]
  IN CASE p.maint # "none" -> q
       [] p.maint = "none" /\ p.then = "play" ->
            IF p.output # "available" \/ Target(p) = 0 THEN PlayFailed(stopped)
            ELSE StartSession(q, Target(p))
       [] p.maint = "none" /\ p.then = "pause" -> [q EXCEPT !.state = "paused"]
       [] p.maint = "none" /\ p.then = "stop"  -> stopped

\* A hold learns whether the release is confirmed, and its holder.
HoldSettles(p, confirmed) ==
  LET q == Answer(p, {c \in Controllers : p.cmd[c] = <<"enter">>})
  IN [q EXCEPT !.maint = IF confirmed THEN "confirmed" ELSE "unconfirmed"]

\* acked: in time, and the intent is run, or late, and there is none.
Acked(p, s) ==
  LET known == p.unconfirmed = s
      q == [p EXCEPT !.phase[s] = "acked", !.sess = IF @ = s THEN 0 ELSE @,
                     !.unconfirmed = IF known THEN 0 ELSE @,
                     !.unconfirmedPaused = IF known THEN FALSE ELSE @]
      r == IF p.maint # "none" /\ (p.phase[s] = "releasing" \/ q.unconfirmed = 0)
           THEN HoldSettles(q, q.unconfirmed = 0) ELSE q
  IN IF p.phase[s] = "releasing" THEN AfterRelease(r) ELSE r

\* releaseDeadline: the intent is dropped, and nothing opens the device.
PassDeadline(p, s) ==
  LET q == IF p.then = "play" THEN PlayFailed(p) ELSE p
      r == [q EXCEPT !.phase[s] = "unconfirmed", !.sess = 0, !.then = "stop",
                     !.unconfirmed = s, !.unconfirmedPaused = FALSE,
                     !.state = IF p.maint = "none" THEN "stopped" ELSE @]
  IN IF p.maint = "entering" THEN HoldSettles(r, FALSE) ELSE r
-----------------------------------------------------------------------------
(***************************************************************************)
(* Commands                                                                *)
(***************************************************************************)
\* Mutant: a release that nobody acknowledged refuses nothing.
CannotOpenButOnOutput(p) == p.output # "available"

\* What opens the device is refused while a release is unconfirmed, and while the
\* output is unknown or unavailable.
CannotOpen(p) == p.unconfirmed # 0 \/ p.output # "available"

\* supersedeParked: a Stop, or the output going away, overtakes them.
SupersedeParked(p) == [Answer(p, {p.parked[i] : i \in DOMAIN p.parked}) EXCEPT !.parked = <<>>]

\* actRelease, actIntent and actStop to stop: a Stop, and a Next past the end.
StopPlaying(p, c) ==
  CASE Held(p)               -> Wait(ReleaseSession(p, "stop"), c, FALSE, FALSE)
    [] p.state = "releasing" -> Wait(SetIntent(p, "stop"), c, FALSE, FALSE)
    [] OTHER                 -> Answer([p EXCEPT !.state = "stopped"], {c})

Play(p, c) ==
  LET e == Target(p)
      q == [p EXCEPT !.selected = e]
  IN IF p.state = "playing" \/ CannotOpen(p) THEN Answer(p, {c})
     ELSE IF p.state = "paused" /\ Live(p) THEN [p EXCEPT !.call = [kind |-> "resume", waiter |-> c]]
     ELSE IF e = 0 THEN Answer(p, {c})
     ELSE IF p.state = "releasing"
          THEN Wait(SetIntent(IF q # p THEN ReplacedCarry(q) ELSE q, "play"), c, TRUE, FALSE)
     ELSE StartSession(Wait(q, c, TRUE, FALSE), e)

\* Next, Previous, PlayID and PlayIndex select e and play it, in every state; the
\* target of a seek no session plays yet goes.
PlayEntry(p, c, e) ==
  LET q == IF p.seek # 0 THEN [ReplacedCarry(p) EXCEPT !.seek = 0] ELSE p
      r == [q EXCEPT !.selected = e]
  IN CASE Held(p) -> Wait(ReleaseSession(Replaced(r), "play"), c, TRUE, FALSE)
       [] p.state = "releasing" ->
            Wait(SetIntent(IF e # p.selected THEN ReplacedCarry(r) ELSE r, "play"), c, TRUE, FALSE)
       [] OTHER -> StartSession(Wait(r, c, TRUE, FALSE), e)

\* Past the end there is nothing to open.
PastEnd(p) == p.selected # 0 /\ After(p, p.selected) = 0 /\ p.unconfirmed = 0
PlayNext(p, c) ==
  LET e == After(p, p.selected) IN
  IF PastEnd(p) THEN StopPlaying(p, c)
  ELSE IF e = 0 \/ CannotOpen(p) THEN Answer(p, {c})
  ELSE PlayEntry(p, c, e)

PlayID(p, c, e) == IF e \notin p.queue \/ CannotOpen(p) THEN Answer(p, {c}) ELSE PlayEntry(p, c, e)

Pause(p, c) ==
  IF p.state = "playing" THEN [p EXCEPT !.call = [kind |-> "pause", waiter |-> c]]
  ELSE Answer(p, {c})

\* seek: to a target in the track that plays, or for one no session plays yet.
Seek(p, c) ==
  LET q == [p EXCEPT !.seek = p.selected] IN
  CASE p.state = "playing" ->
         IF CannotOpen(p) THEN Answer(p, {c})
         ELSE Wait(ReleaseSession(Carry(q), "play"), c, TRUE, TRUE)
    [] p.state = "paused" /\ Live(p) -> Wait(ReleaseSession(q, "pause"), c, FALSE, FALSE)
    [] p.seek # 0 /\ (p.state = "releasing" \/ (p.state = "paused" /\ ~Live(p))) ->
         IF p.state = "releasing" /\ p.then = "play" THEN Wait(p, c, TRUE, TRUE)
         ELSE Wait(p, c, FALSE, FALSE)
    [] OTHER -> Answer(p, {c})

\* enterMaintenance: everybody who waits is answered, and the session released.
EnterMaintenance(p, c) ==
  LET waiting == {d \in Controllers : p.waiter[d] # None} \cup {p.parked[i] : i \in DOMAIN p.parked}
      q == [Answer(p, waiting) EXCEPT !.parked = <<>>, !.maint = "entering",
                                      !.then = "stop", !.state = "maintenance"]
      r == IF Live(q) THEN ReleaseSession(q, "stop") ELSE q
  IN IF r.sess # 0 THEN r ELSE HoldSettles(r, r.unconfirmed = 0)

\* dispatch
Dispatch(p, c) ==
  LET op == p.cmd[c] IN
  IF p.maint # "none" THEN Answer(p, {c})
  ELSE CASE op = <<"enter">> -> EnterMaintenance(p, c)
         [] op = <<"stop">>  -> StopPlaying(SupersedeParked(p), c)
         [] op = <<"play">>  -> Play(p, c)
         [] op = <<"pause">> -> Pause(p, c)
         [] op = <<"next">>  -> PlayNext(p, c)
         [] op = <<"seek">>  -> Seek(p, c)
         [] OTHER            -> PlayID(p, c, op[2])

\* blocked: Play, Pause and the seeks, by a call under way or a start.
Blocked(p, op) ==
  /\ p.sess # 0
  /\ op \in {<<"play">>, <<"pause">>, <<"seek">>}
  /\ p.call # None \/ (op # <<"play">> /\ p.phase[p.sess] = "starting")
Runnable(p) == p.parked # <<>> /\ ~Blocked(p, p.cmd[Head(p.parked)])

\* waits: the transport's lane; a Stop and the maintenance commands have none.
MustWait(p, op) ==
  op \notin {<<"stop">>, <<"enter">>} /\ p.maint = "none" /\ (p.parked # <<>> \/ Blocked(p, op))

\* seekPending
SeekPending(p) ==
  /\ p.maint = "none" /\ p.selected = p.seek /\ p.seek \in p.queue
  /\ \/ p.state = "releasing" /\ p.then # "stop"
     \/ p.state = "paused" /\ p.sess = 0

\* settleWaiters, and whether a play command with no outcome recorded was there to
\* be answered with the reason of last resort.
SettleWaiters(p) ==
  IF Busy(p) THEN p
  ELSE LET all == {c \in Controllers : p.waiter[c] # None}
           kept == {c \in Undecided(p) : p.state # "playing" \/ p.sess # p.waiter[c].sess}
       IN [Answer(p, all) EXCEPT !.missed = @ \/ kept # {}]

\* advance: parked commands first, one step each.
Advance(p) ==
  IF Runnable(p) THEN p
  ELSE SettleWaiters(IF SeekPending(p) THEN p ELSE [p EXCEPT !.seek = 0])
\* The owner's step: a handler and what it made possible, within the bound on the
\* sessions.
Step(q) == ~Runnable(o) /\ \E p \in {q} : p.sessions <= MaxSessions /\ o' = Advance(p)

\* History: the command asks for playback, and nothing refuses it out of hand; or
\* it ends what another asked for.
WantedBy(p, op) ==
  IF p.maint # "none" THEN wanted
  ELSE IF op \in {<<"stop">>, <<"enter">>} \/ (op = <<"next">> /\ PastEnd(p)) THEN FALSE
  ELSE wanted \/ (op \notin {<<"pause">>, <<"seek">>} /\ ~CannotOpen(p))

\* admit
Ask(c, op) ==
  /\ asked < MaxCommands /\ asked' = asked + 1
  /\ o.cmd[c] = None
  /\ LET p == [o EXCEPT !.cmd[c] = op] IN
       IF MustWait(p, op)
       THEN Step([p EXCEPT !.parked = Append(@, c)]) /\ UNCHANGED wanted
       ELSE Step(Dispatch(p, c)) /\ wanted' = WantedBy(o, op)

\* drainParked, one command at a time.
Drain ==
  /\ Runnable(o)
  /\ LET c == Head(o.parked) IN
       /\ \E p \in {Dispatch([o EXCEPT !.parked = Tail(@)], c)} :
            p.sessions <= MaxSessions /\ o' = Advance(p)
       /\ wanted' = WantedBy(o, o.cmd[c])
  /\ UNCHANGED asked

\* Mutant: whoever waits for the entry is not told.
ReselectQuietly(p, e) ==
  LET q == [p EXCEPT !.selected = e] IN
  CASE p.state = "playing" /\ Live(p) -> ReleaseSession(q, IF e # 0 THEN "play" ELSE "stop")
    [] p.state = "paused" /\ Live(p)  -> ReleaseSession(q, IF e # 0 THEN "pause" ELSE "stop")
    [] p.state = "releasing" /\ e = 0 -> SetIntent(q, "stop")
    [] OTHER -> q

\* selectionDeleted: what followed the entry is selected, and plays if it played.
Reselect(p, e) ==
  LET q == [PlayFailed(p) EXCEPT !.selected = e] IN
  CASE p.state = "playing" /\ Live(p) -> ReleaseSession(q, IF e # 0 THEN "play" ELSE "stop")
    [] p.state = "paused" /\ Live(p)  -> ReleaseSession(q, IF e # 0 THEN "pause" ELSE "stop")
    [] p.state = "paused" /\ ~Live(p) /\ e = 0 -> [q EXCEPT !.state = "stopped"]
    [] p.state = "releasing" /\ e = 0 -> SetIntent(q, "stop")
    [] OTHER -> q

\* delete; the values of the edits are those of PlayerIDs.
Delete(e) ==
  /\ e \in o.queue /\ o.maint = "none"
  /\ LET q == [o EXCEPT !.queue = @ \ {e}, !.pass = {}]
         next == After(q, e)
     IN /\ Step(IF o.selected = e THEN Reselect(q, next) ELSE q)
        /\ wanted' = (wanted /\ ~(o.selected = e /\ next = 0))
  /\ UNCHANGED asked

DeleteAll ==
  /\ o.queue # {} /\ o.maint = "none"
  /\ LET q == [o EXCEPT !.queue = {}, !.pass = {}, !.selected = 0] IN
       Step(IF Live(o) THEN ReleaseSession(q, "stop")
            ELSE IF o.state = "releasing" THEN SetIntent(q, "stop")
            ELSE [q EXCEPT !.state = IF @ = "paused" THEN "stopped" ELSE @])
  /\ wanted' = FALSE
  /\ UNCHANGED asked

\* reportOutput: its return plays nothing.
OutputReturns ==
  /\ o.output # "available"
  /\ Step([o EXCEPT !.output = "available"])
  /\ UNCHANGED <<asked, wanted>>

\* Mutant: the play that waits for a release is left to its start's own check.
OutputGoneWhilePlaying ==
  /\ \E out \in {"gone", "available"} :
       LET q == SupersedeParked([o EXCEPT !.output = out]) IN
         Step(IF Live(o) THEN ReleaseSession(PlayFailed(q), "stop")
              ELSE [q EXCEPT !.state = IF @ = "paused" THEN "stopped" ELSE @])
  /\ wanted' = FALSE
  /\ UNCHANGED asked

\* outputGone, of an output that is not there, or is another unit's.
OutputGone ==
  /\ \E out \in {"gone", "available"} :
       LET q == SupersedeParked([o EXCEPT !.output = out]) IN
         Step(IF Live(o) THEN ReleaseSession(PlayFailed(q), "stop")
              ELSE IF o.state = "releasing" /\ o.then # "stop" THEN SetIntent(PlayFailed(q), "stop")
              ELSE [q EXCEPT !.state = IF @ = "paused" THEN "stopped" ELSE @])
  /\ wanted' = FALSE
  /\ UNCHANGED asked
-----------------------------------------------------------------------------
(***************************************************************************)
(* The backend's answers and events, and the deadlines                     *)
(***************************************************************************)
Starting == o.sess # 0 /\ o.phase[o.sess] = "starting"
Playing  == o.sess # 0 /\ o.phase[o.sess] = "live"

\* The session ends for good.
Ends(q) == Step(ReleaseSession(q, "stop")) /\ wanted' = FALSE /\ UNCHANGED asked

\* startDone: the session plays, and a new pass begins.
StartSucceeds ==
  /\ Starting
  /\ Step([o EXCEPT !.phase[o.sess] = "live", !.pass = {}])
  /\ UNCHANGED <<asked, wanted>>

\* skipAtStart: the entry is refused, and what follows plays in a session of its own.
StartRefused ==
  /\ Starting
  /\ LET q == [o EXCEPT !.pass = @ \cup {o.selected}]
         next == Following(q, o.selected)
     IN IF next = 0 \/ AllFailed(q) THEN Ends(PlayFailed(q))
        ELSE /\ Step(ReleaseSession([Carry(q) EXCEPT !.selected = next], "play"))
             /\ UNCHANGED <<asked, wanted>>

\* startDone and callExpired: the start failed, or its deadline passed.
StartFails == Starting /\ Ends(PlayFailed(o))

\* pauseDone, resumeDone: the backend refused.
CallRefused ==
  /\ o.call # None
  /\ Step(Answer([o EXCEPT !.call = None], {o.call.waiter}))
  /\ UNCHANGED <<asked, wanted>>

PauseSucceeds ==
  /\ o.call # None /\ o.call.kind = "pause"
  /\ Step([Answer(o, {o.call.waiter}) EXCEPT !.call = None, !.state = "paused",
                                             !.paused = TRUE, !.pauseArmed = TRUE])
  /\ wanted' = FALSE
  /\ UNCHANGED asked

ResumeSucceeds ==
  /\ o.call # None /\ o.call.kind = "resume"
  /\ Step([Answer(o, {o.call.waiter}) EXCEPT !.call = None, !.state = "playing",
             !.paused = FALSE, !.devReleased = FALSE, !.pauseArmed = FALSE])
  /\ UNCHANGED <<asked, wanted>>

\* callExpired: a Pause or a Resume past its deadline.
CallExpires ==
  /\ o.call # None
  /\ Ends(PlayFailed(Answer([o EXCEPT !.call = None], {o.call.waiter})))

\* onAudible: of the session's first occurrence, or of one that follows.
Audible ==
  /\ Starting \/ Playing
  /\ \E e \in o.queue :
       /\ e = o.selected \/ (Playing /\ e > o.selected)
       /\ Step(PlayBegan([o EXCEPT !.selected = e]))
  /\ UNCHANGED <<asked, wanted>>

\* onAudible: of an occurrence an edit removed, or made no longer next.
RemovedAudible == Playing /\ Ends(o)

\* onRefused: a successor is skipped.
SuccessorRefused ==
  /\ Playing
  /\ \E e \in o.queue \ o.pass : e > o.selected /\ Step([o EXCEPT !.pass = @ \cup {e}])
  /\ UNCHANGED <<asked, wanted>>

\* onFinished: nothing follows; or the backend took no successor, and what follows
\* plays in a session of its own, even if the last one was paused as it ran out.
FinishedAll == Playing /\ Ends(o)
FinishedNoMore ==
  /\ Playing /\ Following(o, o.selected) # 0
  /\ Step(ReleaseSession([o EXCEPT !.selected = Following(o, @)], "play"))
  /\ wanted' = TRUE
  /\ UNCHANGED asked

\* onFault
Fault == (Starting \/ Playing) /\ Ends(PlayFailed(o))

\* onDeviceReleased: a paused session gave up the device.
DeviceReleased ==
  /\ (Starting \/ Playing) /\ o.paused
  /\ LET late == o.unconfirmedPaused /\ o.unconfirmed = o.sess IN
       Step([o EXCEPT !.devReleased = TRUE, !.pauseArmed = FALSE,
                      !.unconfirmed = IF late THEN 0 ELSE @, !.unconfirmedPaused = @ /\ ~late])
  /\ UNCHANGED <<asked, wanted>>

\* pauseOverdue: it did not.
PauseOverdue ==
  /\ Playing /\ o.paused /\ o.pauseArmed /\ ~o.devReleased /\ o.unconfirmed = 0
  /\ Step([o EXCEPT !.unconfirmed = o.sess, !.unconfirmedPaused = TRUE, !.pauseArmed = FALSE])
  /\ UNCHANGED <<asked, wanted>>

\* ackAt, of a release in time, or after its deadline was applied.
ReleaseDone ==
  /\ \E s \in Sessions :
       o.phase[s] \in {"releasing", "unconfirmed"} /\ Step(Acked(o, s))
  /\ UNCHANGED <<asked, wanted>>

\* releaseDeadline
ReleaseDeadline ==
  /\ o.sess # 0 /\ o.phase[o.sess] = "releasing"
  /\ Step(PassDeadline(o, o.sess))
  /\ wanted' = FALSE
  /\ UNCHANGED asked

\* endMaintenance: by the holder, or as the hold expires.
EndMaintenance ==
  /\ o.maint # "none"
  /\ Step([Answer(o, {c \in Controllers : o.cmd[c] = <<"enter">>}) EXCEPT
             !.maint = "none",
             !.state = IF o.sess # 0 /\ o.phase[o.sess] = "releasing" THEN "releasing" ELSE "stopped"])
  /\ UNCHANGED <<asked, wanted>>
-----------------------------------------------------------------------------
Edits   == DeleteAll \/ \E e \in Entries : Delete(e)
Output  == OutputReturns \/ OutputGone
Session == \/ StartSucceeds \/ StartRefused \/ StartFails
           \/ Audible \/ RemovedAudible \/ SuccessorRefused \/ FinishedAll \/ FinishedNoMore \/ Fault
           \/ DeviceReleased \/ PauseOverdue \/ ReleaseDone \/ ReleaseDeadline
Call    == CallRefused \/ PauseSucceeds \/ ResumeSucceeds \/ CallExpires

Next ==
  \/ \E c \in Controllers, op \in Commands : Ask(c, op)
  \/ Drain \/ Edits \/ Output \/ Session \/ Call \/ EndMaintenance

Spec == Init /\ [][Next]_vars

\* The owner runs, and its deadlines pass; the backend may answer nothing, ever.
Deadline == StartFails \/ CallExpires \/ ReleaseDeadline

FairSpec == Spec /\ WF_vars(Drain \/ Deadline)
-----------------------------------------------------------------------------
(***************************************************************************)
(* Properties                                                              *)
(***************************************************************************)

\* Two never hold or race for the device: whatever is asked, and whoever is late, a
\* session starts only when every one before it acknowledged its release, and a hold
\* is confirmed only when all of them did (startSession: "only with no other session
\* unacknowledged"; EnterMaintenance).
Holding == {s \in Sessions : o.phase[s] \notin {"none", "acked"}}
OneHolder ==
  /\ \A s, t \in Holding : s = t
  /\ o.maint = "confirmed" => Holding = {}

\* A session starts only while a command asked for playback and nothing has ended
\* it since: no Stop, pause, fault, timeout, hold or loss of the output, though it
\* be back (outputGone: "never autoplay").  What follows a session that took no
\* successor is wanted too: onFinished does not ask whether it was paused.
NothingPlaysUnasked ==
  [][o'.sessions > o.sessions => wanted' /\ o'.output = "available"]_vars

\* Every path that ends without a command's playback records why before the command
\* is answered (settleWaiters: its reason of last resort is never needed).
ReasonIsRecorded == ~o.missed

\* Every command is answered, whatever the backend never answers.
CommandsAreAnswered == \A c \in Controllers : o.cmd[c] # None ~> o.cmd[c] = None

\* snapshot.go: an unconfirmed release is one until whose acknowledgement nothing
\* opens the device.
UnconfirmedIsSilent == o.unconfirmed # 0 => o.state # "playing"
=============================================================================
