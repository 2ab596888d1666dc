---------------------------- MODULE TransportProofs ----------------------------
(***************************************************************************)
(* The proofs of the transport's safety: TransportInv is inductive, and    *)
(* OneHolder, ReasonIsRecorded and NothingPlaysUnasked follow from it, for *)
(* every queue, every number of callers and any bounds.                    *)
(*                                                                         *)
(* A handler is an operator on the owner's record, so most lemmas are      *)
(* about one operator: what it makes of any record p.  Side(p, q) is a     *)
(* change the invariant does not look at, Leads(p, q) one that a handler   *)
(* may make, and Outcome what a whole step comes to.                       *)
(***************************************************************************)
EXTENDS Transport, TLAPS, WellFoundedInduction

(***************************************************************************)
(* The inductive invariant                                                 *)
(***************************************************************************)
\* The one session that may still hold the device.
Holder(p) == IF p.sess # 0 THEN p.sess ELSE p.unconfirmed

\* Sessions to come are untouched; of the others only the holder may be anything but
\* acknowledged, and it is the session of its phase.
HolderShape(p) ==
  /\ \A s \in Sessions : s > p.sessions => p.phase[s] = "none"
  /\ \A s \in Sessions : p.phase[s] \notin {"none", "acked"} => s = Holder(p)
  /\ p.sess # 0 => /\ p.sess <= p.sessions
                   /\ p.phase[p.sess] \in {"starting", "live", "releasing"}
                   /\ p.unconfirmed \in {0, p.sess}
  /\ p.sess = 0 /\ p.unconfirmed # 0 => /\ p.unconfirmed <= p.sessions
                                        /\ p.phase[p.unconfirmed] = "unconfirmed"

\* What each state says of the session, and that only a release has a play pending.
StateShape(p) ==
  /\ p.state = "playing" => Live(p)
  /\ p.state = "paused" /\ p.sess # 0 => p.phase[p.sess] = "live"
  /\ p.state = "releasing" => p.sess # 0 /\ p.phase[p.sess] = "releasing"
  /\ p.state = "stopped" => p.sess = 0
  /\ p.then = "play" => p.state = "releasing"

\* A maintenance hold starts nothing, and is settled when the session is gone.
HoldShape(p) ==
  /\ p.state = "maintenance" <=> p.maint # "none"
  /\ p.maint # "none" => p.sess = 0 \/ p.phase[p.sess] = "releasing"
  /\ p.maint \in {"unconfirmed", "confirmed"} => p.sess = 0
  /\ p.maint = "confirmed" => p.unconfirmed = 0

\* A Pause or a Resume is of a session that has started.
CallShape(p) ==
  p.call # None => /\ p.sess # 0 /\ p.phase[p.sess] = "live"
                   /\ p.call.kind = "pause" => p.state = "playing"
                   /\ p.call.kind = "resume" => p.state = "paused"

Shape(p) == HolderShape(p) /\ StateShape(p) /\ HoldShape(p) /\ CallShape(p)

\* Whoever waits to be heard waits behind a release that plays, or for the session
\* that plays.
Waits(p) ==
  /\ \A c \in Undecided(p) :
       \/ p.waiter[c].sess = 0 /\ p.then = "play"
       \/ p.waiter[c].sess # 0 /\ p.waiter[c].sess = p.sess /\ p.state = "playing"
  /\ ~p.missed

\* What plays or starts was selected.
Chosen(p) == Live(p) => p.selected # 0

\* What every operator of the owner keeps of a record.
Safe(p) == p \in Owner /\ Shape(p) /\ Chosen(p) /\ Waits(p)

\* Playback is on, or asked of a release, or of the backend.
Asking(p) == p.state = "playing" \/ p.then = "play" \/ (p.call # None /\ p.call.kind = "resume")

\* Between two steps nobody waits for a session that neither starts nor releases.
Resting(p) == ~Runnable(p) /\ ~Busy(p) => \A c \in Controllers : p.waiter[c] = None

\* The inductive invariant.
TransportInv == TypeOK /\ Shape(o) /\ Chosen(o) /\ Waits(o) /\ Resting(o) /\ (Asking(o) => wanted)

\* What the invariant says of q's sessions, it says of p's.
SameSessions(p, q) ==
  /\ q.sessions = p.sessions /\ q.sess = p.sess /\ q.phase = p.phase
  /\ q.call = p.call /\ q.unconfirmed = p.unconfirmed /\ q.maint = p.maint
  /\ q.missed = p.missed /\ (q.selected = 0 => p.selected = 0)

\* Nor anything of the state, nor of the output.
Same(p, q) == SameSessions(p, q) /\ q.state = p.state /\ q.then = p.then
Kept(p, q) == Same(p, q) /\ q.output = p.output

\* Nobody waits in q who did not in p, and for nothing else.
Fewer(p, q) ==
  \A c \in Undecided(q) : c \in Undecided(p) /\ q.waiter[c].sess = p.waiter[c].sess

\* A change that the invariant does not look at.
Side(p, q) == q \in Owner /\ Kept(p, q) /\ Fewer(p, q)

\* What a handler may make of p: a session starts only to play, on an output that is
\* there.
Leads(p, q) ==
  Safe(q) /\ (q.sessions # p.sessions => q.state = "playing" /\ q.output = "available")

\* What every step comes to.
Outcome ==
  /\ Safe(o') /\ Resting(o') /\ (Asking(o') => wanted')
  /\ o'.sessions > o.sessions => wanted' /\ o'.output = "available"

-----------------------------------------------------------------------------
(***************************************************************************)
(* The owner's fields                                                      *)
(***************************************************************************)
\* One field set to a value of its type leaves an owner.
LEMMA OwnerUpdate ==
  ASSUME NEW p \in Owner
  PROVE  /\ \A v \in SUBSET Entries : [p EXCEPT !.queue = v] \in Owner
         /\ \A v \in Entries \cup {0} : [p EXCEPT !.selected = v] \in Owner
         /\ \A v \in SUBSET Entries : [p EXCEPT !.pass = v] \in Owner
         /\ \A v \in States : [p EXCEPT !.state = v] \in Owner
         /\ \A v \in Intents : [p EXCEPT !.then = v] \in Owner
         /\ \A v \in {"unknown", "available", "gone"} : [p EXCEPT !.output = v] \in Owner
         /\ \A v \in 0..MaxSessions : [p EXCEPT !.sessions = v] \in Owner
         /\ \A v \in 0..MaxSessions : [p EXCEPT !.sess = v] \in Owner
         /\ \A v \in [Sessions -> Phases] : [p EXCEPT !.phase = v] \in Owner
         /\ \A v \in BOOLEAN : [p EXCEPT !.paused = v] \in Owner
         /\ \A v \in BOOLEAN : [p EXCEPT !.devReleased = v] \in Owner
         /\ \A v \in BOOLEAN : [p EXCEPT !.pauseArmed = v] \in Owner
         /\ \A v \in {None} \cup [kind : {"pause", "resume"}, waiter : Controllers] :
              [p EXCEPT !.call = v] \in Owner
         /\ \A v \in 0..MaxSessions : [p EXCEPT !.unconfirmed = v] \in Owner
         /\ \A v \in BOOLEAN : [p EXCEPT !.unconfirmedPaused = v] \in Owner
         /\ \A v \in Entries \cup {0} : [p EXCEPT !.seek = v] \in Owner
         /\ \A v \in {"none", "entering", "unconfirmed", "confirmed"} : [p EXCEPT !.maint = v] \in Owner
         /\ \A v \in [Controllers -> Commands \cup {None}] : [p EXCEPT !.cmd = v] \in Owner
         /\ \A v \in [Controllers -> Waiter \cup {None}] : [p EXCEPT !.waiter = v] \in Owner
         /\ \A v \in Seq(Controllers) : [p EXCEPT !.parked = v] \in Owner
         /\ \A v \in BOOLEAN : [p EXCEPT !.missed = v] \in Owner
<1>1. \A v \in SUBSET Entries : [p EXCEPT !.queue = v] \in Owner BY DEF Owner
<1>2. \A v \in Entries \cup {0} : [p EXCEPT !.selected = v] \in Owner BY DEF Owner
<1>3. \A v \in SUBSET Entries : [p EXCEPT !.pass = v] \in Owner BY DEF Owner
<1>4. \A v \in States : [p EXCEPT !.state = v] \in Owner BY DEF Owner
<1>5. \A v \in Intents : [p EXCEPT !.then = v] \in Owner BY DEF Owner
<1>6. \A v \in {"unknown", "available", "gone"} : [p EXCEPT !.output = v] \in Owner
  BY DEF Owner
<1>7. \A v \in 0..MaxSessions : [p EXCEPT !.sessions = v] \in Owner BY DEF Owner
<1>8. \A v \in 0..MaxSessions : [p EXCEPT !.sess = v] \in Owner BY DEF Owner
<1>9. \A v \in [Sessions -> Phases] : [p EXCEPT !.phase = v] \in Owner BY DEF Owner
<1>10. \A v \in BOOLEAN : [p EXCEPT !.paused = v] \in Owner BY DEF Owner
<1>11. \A v \in BOOLEAN : [p EXCEPT !.devReleased = v] \in Owner BY DEF Owner
<1>12. \A v \in BOOLEAN : [p EXCEPT !.pauseArmed = v] \in Owner BY DEF Owner
<1>13. \A v \in {None} \cup [kind : {"pause", "resume"}, waiter : Controllers] :
        [p EXCEPT !.call = v] \in Owner
  BY DEF Owner
<1>14. \A v \in 0..MaxSessions : [p EXCEPT !.unconfirmed = v] \in Owner BY DEF Owner
<1>15. \A v \in BOOLEAN : [p EXCEPT !.unconfirmedPaused = v] \in Owner BY DEF Owner
<1>16. \A v \in Entries \cup {0} : [p EXCEPT !.seek = v] \in Owner BY DEF Owner
<1>17. \A v \in {"none", "entering", "unconfirmed", "confirmed"} : [p EXCEPT !.maint = v] \in Owner
  BY DEF Owner
<1>18. \A v \in [Controllers -> Commands \cup {None}] : [p EXCEPT !.cmd = v] \in Owner
  BY DEF Owner
<1>19. \A v \in [Controllers -> Waiter \cup {None}] : [p EXCEPT !.waiter = v] \in Owner
  BY DEF Owner
<1>20. \A v \in Seq(Controllers) : [p EXCEPT !.parked = v] \in Owner BY DEF Owner
<1>21. \A v \in BOOLEAN : [p EXCEPT !.missed = v] \in Owner BY DEF Owner
<1> QED BY <1>1, <1>2, <1>3, <1>4, <1>5, <1>6, <1>7, <1>8, <1>9, <1>10,
   <1>11, <1>12, <1>13, <1>14, <1>15, <1>16, <1>17, <1>18, <1>19, <1>20, <1>21

\* The least of some entries is one of them: queue.after finds an entry.
LEMMA LeastIsMember ==
  ASSUME NEW S \in SUBSET Entries
  PROVE  Least(S) \in Entries \cup {0} /\ (S # {} => Least(S) \in S)
<1>1. CASE S = {} BY <1>1 DEF Least
<1>2. CASE S # {}
  <2>0. S \subseteq Nat BY EntriesAssumption
  <2>1. \E x \in S : \A y \in S : ~(<<y, x>> \in OpToRel(<, Nat))
    BY <1>2, <2>0, NatLessThanWellFounded, WFMin
  <2>2. PICK x \in S : \A y \in S : ~(<<y, x>> \in OpToRel(<, Nat)) BY <2>1
  <2>3. ASSUME NEW y \in S, y < x PROVE FALSE
    <3>1. <<y, x>> \in Nat \X Nat BY <2>0
    <3>2. <<y, x>>[1] < <<y, x>>[2] BY <2>3
    <3>3. <<y, x>> \in {ss \in Nat \X Nat : ss[1] < ss[2]} BY <3>1, <3>2
    <3> QED BY <2>2, <3>3 DEF OpToRel
  <2>4. \A y \in S : x <= y BY <2>0, <2>3
  <2> QED BY <1>2, <2>4 DEF Least
<1> QED BY <1>1, <1>2

\* What the queue is asked for is an entry, or none.
LEMMA QueueLookups ==
  ASSUME NEW p \in Owner, NEW e \in Entries \cup {0}
  PROVE  /\ First(p) \in Entries \cup {0}
         /\ After(p, e) \in Entries \cup {0}
         /\ Following(p, e) \in Entries \cup {0}
         /\ Target(p) \in Entries \cup {0}
<1>1. p.queue \subseteq Entries /\ p.selected \in Entries \cup {0} BY DEF Owner
<1>2. First(p) \in Entries \cup {0} BY <1>1, LeastIsMember DEF First
<1>3. After(p, e) \in Entries \cup {0} BY <1>1, LeastIsMember DEF After
<1>4. Following(p, e) \in Entries \cup {0}
  <2>1. {f \in p.queue \ p.pass : f > e} \in SUBSET Entries BY <1>1
  <2> QED BY <2>1, LeastIsMember DEF Following
<1> QED BY <1>1, <1>2, <1>3, <1>4 DEF Target

-----------------------------------------------------------------------------
(***************************************************************************)
(* The commands that wait                                                  *)
(***************************************************************************)
\* Who is answered waits no more, and nothing else changes of what the owner does.
LEMMA AnswerStep ==
  ASSUME NEW p \in Owner, NEW C
  PROVE  LET q == Answer(p, C) IN
         /\ q \in Owner /\ Kept(p, q) /\ q.parked = p.parked
         /\ \A c \in Controllers : q.waiter[c] = IF c \in C THEN None ELSE p.waiter[c]
<1>1. Answer(p, C) \in Owner BY DEF Owner, Answer
<1> QED BY <1>1 DEF Owner, Answer, Kept, Same, SameSessions

\* Nobody waits for having been answered.
LEMMA AnswerFewer ==
  ASSUME NEW p \in Owner, NEW C
  PROVE  Fewer(p, Answer(p, C))
<1> DEFINE q == Answer(p, C)
<1>1. ASSUME NEW c \in Undecided(q)
      PROVE  c \in Undecided(p) /\ q.waiter[c].sess = p.waiter[c].sess
  <2>1. c \in Controllers /\ q.waiter[c] # None BY DEF Undecided
  <2>2. q.waiter[c] = p.waiter[c] BY <2>1, AnswerStep
  <2> QED BY <2>1, <2>2 DEF Undecided
<1> QED BY <1>1 DEF Fewer

\* A waiter for another session, or decided, is a waiter.
LEMMA WaiterUpdate ==
  ASSUME NEW w \in Waiter, NEW n \in 0..MaxSessions, NEW b \in BOOLEAN,
         NEW r \in {"none", "began", "failed"}
  PROVE  /\ [w EXCEPT !.sess = n, !.carried = b] \in Waiter
         /\ [w EXCEPT !.sess = n, !.carried = b].sess = n
         /\ [w EXCEPT !.outcome = r] \in Waiter
         /\ [w EXCEPT !.outcome = r].outcome = r
<1>1. ASSUME NEW v \in Waiter PROVE [v EXCEPT !.sess = n] \in Waiter BY DEF Waiter
<1>2. ASSUME NEW v \in Waiter PROVE [v EXCEPT !.carried = b] \in Waiter BY DEF Waiter
<1>3. ASSUME NEW v \in Waiter PROVE [v EXCEPT !.outcome = r] \in Waiter BY DEF Waiter
<1>4. [w EXCEPT !.sess = n, !.carried = b] \in Waiter BY <1>1, <1>2
<1>5. [w EXCEPT !.sess = n, !.carried = b].sess = n BY DEF Waiter
<1>6. [w EXCEPT !.outcome = r].outcome = r BY DEF Waiter
<1> QED BY <1>3, <1>4, <1>5, <1>6

\* A decision leaves no waiter without its outcome, and disturbs nobody else.
LEMMA DecideStep ==
  ASSUME NEW p \in Owner, NEW C, C \subseteq Undecided(p), NEW r \in {"began", "failed"}
  PROVE  LET q == Decide(p, C, r) IN
         /\ q \in Owner /\ Kept(p, q) /\ q.parked = p.parked /\ Fewer(p, q)
         /\ Undecided(q) \cap C = {}
<1> DEFINE w == [c \in Controllers |->
                   IF c \in C THEN [p.waiter[c] EXCEPT !.outcome = r] ELSE p.waiter[c]]
           q == [p EXCEPT !.waiter = w]
<1>1. p.waiter \in [Controllers -> Waiter \cup {None}] BY DEF Owner
<1>2. ASSUME NEW c \in C PROVE p.waiter[c] \in Waiter BY <1>1 DEF Undecided
<1>3. ASSUME NEW c \in C
      PROVE  [p.waiter[c] EXCEPT !.outcome = r] \in Waiter /\ [p.waiter[c] EXCEPT !.outcome = r].outcome = r
  <2>1. p.waiter[c] \in Waiter BY <1>2
  <2>2. 0 \in 0..MaxSessions BY BoundsAssumption
  <2> QED BY <2>1, <2>2, WaiterUpdate
<1>4. w \in [Controllers -> Waiter \cup {None}] BY <1>1, <1>3
<1>5. q = Decide(p, C, r) BY DEF Decide
<1>6. q.waiter = w BY DEF Owner
<1>7. q \in Owner
  <2> HIDE DEF w
  <2> QED BY <1>4, OwnerUpdate
<1>8. Kept(p, q) /\ q.parked = p.parked BY DEF Owner, Kept, Same, SameSessions
<1>9. ASSUME NEW c \in Undecided(q)
      PROVE  c \notin C /\ c \in Undecided(p) /\ q.waiter[c] = p.waiter[c]
  <2>1. c \in Controllers /\ w[c] # None /\ w[c].play /\ w[c].outcome = "none"
    BY <1>6 DEF Undecided
  <2>2. c \notin C BY <2>1, <1>3
  <2>3. w[c] = p.waiter[c] BY <2>1, <2>2
  <2> QED BY <2>1, <2>2, <2>3, <1>6 DEF Undecided
<1>10. Fewer(p, q) BY <1>9 DEF Fewer
<1>11. Undecided(q) \cap C = {} BY <1>9
<1> HIDE DEF q
<1> QED BY <1>5, <1>7, <1>8, <1>10, <1>11

\* wait adds its command to those who wait, for no session yet, and only to play.
LEMMA WaitStep ==
  ASSUME NEW p \in Owner, NEW c \in Controllers, NEW play \in BOOLEAN, NEW carried \in BOOLEAN
  PROVE  LET q == Wait(p, c, play, carried) IN
         /\ q \in Owner /\ Kept(p, q) /\ q.parked = p.parked
         /\ \A d \in Undecided(q) :
              \/ d \in Undecided(p) /\ q.waiter[d].sess = p.waiter[d].sess
              \/ play /\ d = c /\ q.waiter[d].sess = 0
<1> DEFINE w == [p.waiter EXCEPT ![c] =
                   [play |-> play, sess |-> 0, carried |-> carried, outcome |-> "none"]]
           q == [p EXCEPT !.waiter = w]
<1>1. p.waiter \in [Controllers -> Waiter \cup {None}] BY DEF Owner
<1>2. [play |-> play, sess |-> 0, carried |-> carried, outcome |-> "none"] \in Waiter
  BY BoundsAssumption DEF Waiter
<1>3. w \in [Controllers -> Waiter \cup {None}] BY <1>1, <1>2
<1>4. q = Wait(p, c, play, carried) BY DEF Wait
<1>5. q \in Owner
  <2> HIDE DEF w
  <2> QED BY <1>3, OwnerUpdate
<1>6. Kept(p, q) /\ q.parked = p.parked BY DEF Owner, Kept, Same, SameSessions
<1>7. q.waiter = w BY DEF Owner
<1>8. ASSUME NEW d \in Undecided(q)
      PROVE  \/ d \in Undecided(p) /\ q.waiter[d].sess = p.waiter[d].sess
             \/ play /\ d = c /\ q.waiter[d].sess = 0
  <2>1. d \in Controllers /\ w[d] # None /\ w[d].play /\ w[d].outcome = "none"
    BY <1>7 DEF Undecided
  <2>2. CASE d = c
    <3>1. w[d] = [play |-> play, sess |-> 0, carried |-> carried, outcome |-> "none"]
      BY <1>1, <2>1, <2>2
    <3> QED BY <2>1, <2>2, <3>1, <1>7
  <2>3. CASE d # c
    <3>1. w[d] = p.waiter[d] BY <1>1, <2>1, <2>3
    <3> QED BY <2>1, <3>1, <1>7 DEF Undecided
  <2> QED BY <2>2, <2>3
<1> HIDE DEF q
<1> QED BY <1>4, <1>5, <1>6, <1>8

\* After carry nobody waits for the session.
LEMMA CarryStep ==
  ASSUME NEW p \in Owner
  PROVE  LET q == Carry(p) IN
         /\ q \in Owner /\ Kept(p, q) /\ q.parked = p.parked
         /\ \A c \in Undecided(q) :
              /\ c \in Undecided(p)
              /\ q.waiter[c].sess = IF p.waiter[c].sess = p.sess THEN 0 ELSE p.waiter[c].sess
<1> DEFINE on == StartedFor(p, p.sess)
           w == [c \in Controllers |->
                   IF c \in on THEN [p.waiter[c] EXCEPT !.sess = 0, !.carried = TRUE] ELSE p.waiter[c]]
           q == [p EXCEPT !.waiter = w]
<1>1. p.waiter \in [Controllers -> Waiter \cup {None}] BY DEF Owner
<1>2. ASSUME NEW c \in on
      PROVE  /\ [p.waiter[c] EXCEPT !.sess = 0, !.carried = TRUE] \in Waiter
             /\ [p.waiter[c] EXCEPT !.sess = 0, !.carried = TRUE].sess = 0
  <2>1. p.waiter[c] \in Waiter BY <1>1 DEF StartedFor, Undecided
  <2>2. 0 \in 0..MaxSessions BY BoundsAssumption
  <2> QED BY <2>1, <2>2, WaiterUpdate
<1>3. w \in [Controllers -> Waiter \cup {None}] BY <1>1, <1>2
<1>4. q = Carry(p) BY DEF Carry
<1>5. q \in Owner
  <2> HIDE DEF w
  <2> QED BY <1>3, OwnerUpdate
<1>6. Kept(p, q) /\ q.parked = p.parked BY DEF Owner, Kept, Same, SameSessions
<1>7. q.waiter = w BY DEF Owner
<1>8. ASSUME NEW c \in Undecided(q)
      PROVE  /\ c \in Undecided(p)
             /\ q.waiter[c].sess = IF p.waiter[c].sess = p.sess THEN 0 ELSE p.waiter[c].sess
  <2>1. c \in Controllers /\ w[c] # None /\ w[c].play /\ w[c].outcome = "none"
    BY <1>7 DEF Undecided
  <2>2. CASE c \in on BY <2>2, <1>2, <1>7, <2>1 DEF StartedFor
  <2>3. CASE c \notin on
    <3>1. w[c] = p.waiter[c] BY <2>1, <2>3
    <3>2. c \in Undecided(p) BY <2>1, <3>1 DEF Undecided
    <3>3. p.waiter[c].sess # p.sess BY <2>3, <3>2 DEF StartedFor
    <3>4. q.waiter[c] = p.waiter[c] BY <3>1, <1>7
    <3> HIDE DEF q, w
    <3> QED BY <3>2, <3>3, <3>4
  <2> QED BY <2>2, <2>3
<1> HIDE DEF q
<1> QED BY <1>4, <1>5, <1>6, <1>8

\* What each decision leaves: nobody after playFailed, and nobody who waits for the
\* session that plays after replaced.
LEMMA DecideAll ==
  ASSUME NEW p \in Owner
  PROVE  /\ LET q == PlayFailed(p) IN
              q \in Owner /\ Kept(p, q) /\ q.parked = p.parked /\ Undecided(q) = {}
         /\ LET q == Replaced(p) IN
              /\ q \in Owner /\ Kept(p, q) /\ q.parked = p.parked /\ Fewer(p, q)
              /\ \A c \in Undecided(q) : q.waiter[c].sess # p.sess
         /\ LET q == ReplacedCarry(p) IN
              q \in Owner /\ Kept(p, q) /\ q.parked = p.parked /\ Fewer(p, q)
         /\ LET q == PlayBegan(p) IN
              q \in Owner /\ Kept(p, q) /\ q.parked = p.parked /\ Fewer(p, q)
<1>1. LET q == PlayFailed(p) IN
        q \in Owner /\ Kept(p, q) /\ q.parked = p.parked /\ Undecided(q) = {}
  <2>1. LET q == PlayFailed(p) IN
          /\ q \in Owner /\ Kept(p, q) /\ q.parked = p.parked /\ Fewer(p, q)
          /\ Undecided(q) \cap Undecided(p) = {}
    BY DecideStep DEF PlayFailed
  <2> QED BY <2>1 DEF Fewer
<1>2. LET q == Replaced(p) IN
        /\ q \in Owner /\ Kept(p, q) /\ q.parked = p.parked /\ Fewer(p, q)
        /\ \A c \in Undecided(q) : q.waiter[c].sess # p.sess
  <2>1. StartedFor(p, p.sess) \subseteq Undecided(p) BY DEF StartedFor
  <2>2. LET q == Replaced(p) IN
          /\ q \in Owner /\ Kept(p, q) /\ q.parked = p.parked /\ Fewer(p, q)
          /\ Undecided(q) \cap StartedFor(p, p.sess) = {}
    BY <2>1, DecideStep DEF Replaced
  <2> QED BY <2>2 DEF Fewer, StartedFor
<1>3. LET q == ReplacedCarry(p) IN
        q \in Owner /\ Kept(p, q) /\ q.parked = p.parked /\ Fewer(p, q)
  BY DecideStep DEF ReplacedCarry
<1>4. LET q == PlayBegan(p) IN
        q \in Owner /\ Kept(p, q) /\ q.parked = p.parked /\ Fewer(p, q)
  <2>1. StartedFor(p, p.sess) \subseteq Undecided(p) BY DEF StartedFor
  <2> QED BY <2>1, DecideStep DEF PlayBegan
<1> QED BY <1>1, <1>2, <1>3, <1>4

\* setIntent: a pending play that is replaced leaves nobody who waits for it.
LEMMA SetIntentStep ==
  ASSUME NEW p \in Owner, NEW then \in Intents
  PROVE  LET q == SetIntent(p, then) IN
         /\ q \in Owner /\ SameSessions(p, q) /\ q.output = p.output /\ q.parked = p.parked
         /\ q.state = p.state /\ q.then = then /\ Fewer(p, q)
         /\ then # "play" /\ p.then = "play" => Undecided(q) = {}
<1> DEFINE r == IF then # "play" /\ p.then = "play" THEN PlayFailed(p) ELSE p
           q == [r EXCEPT !.then = then]
<1>1. r \in Owner /\ Kept(p, r) /\ r.parked = p.parked /\ Fewer(p, r)
  BY DecideAll DEF Kept, Same, SameSessions, Fewer
<1>2. then # "play" /\ p.then = "play" => Undecided(r) = {} BY DecideAll
<1>3. q = SetIntent(p, then) BY DEF SetIntent
<1> HIDE DEF r
<1>4. q \in Owner BY <1>1, OwnerUpdate
<1>5. SameSessions(p, q) /\ q.output = p.output /\ q.parked = p.parked /\ q.state = p.state /\ q.then = then
      /\ q.waiter = r.waiter
  BY <1>1 DEF Owner, Kept, Same, SameSessions
<1>6. Undecided(q) = Undecided(r) BY <1>5 DEF Undecided
<1> HIDE DEF q
<1> QED BY <1>1, <1>2, <1>3, <1>4, <1>5, <1>6 DEF Fewer

\* What a release leaves of the session: it, its call and its intent.
LEMMA ReleaseStep ==
  ASSUME NEW p \in Owner, NEW then \in Intents, Live(p)
  PROVE  LET q == ReleaseSession(p, then) IN
         /\ q \in Owner /\ q.parked = p.parked
         /\ q.sessions = p.sessions /\ q.sess = p.sess /\ q.unconfirmed = p.unconfirmed
         /\ q.maint = p.maint /\ q.output = p.output /\ q.missed = p.missed
         /\ q.phase = [p.phase EXCEPT ![p.sess] = "releasing"] /\ q.call = None
         /\ q.then = then /\ q.state = IF p.maint = "none" THEN "releasing" ELSE p.state
         /\ Fewer(p, q) /\ (then # "play" => Undecided(q) = {})
<1> DEFINE a == IF then = "play" THEN p ELSE PlayFailed(p)
           r == IF p.call = None THEN a ELSE Answer(a, {p.call.waiter})
           ph == [r.phase EXCEPT ![p.sess] = "releasing"]
           st == IF p.maint = "none" THEN "releasing" ELSE r.state
           q == [r EXCEPT !.phase = ph, !.call = None, !.pauseArmed = FALSE,
                          !.then = then, !.state = st]
<1>1. a \in Owner /\ Kept(p, a) /\ a.parked = p.parked /\ Fewer(p, a)
      /\ (then # "play" => Undecided(a) = {})
  BY DecideAll DEF Kept, Same, SameSessions, Fewer
<1> HIDE DEF a
<1>2. r \in Owner /\ Kept(p, r) /\ r.parked = p.parked /\ Fewer(p, r)
      /\ (then # "play" => Undecided(r) = {})
  BY <1>1, AnswerStep, AnswerFewer DEF Kept, Same, SameSessions, Fewer
<1>3. q = ReleaseSession(p, then) BY DEF ReleaseSession, a
<1> HIDE DEF r
<1>4. ph \in [Sessions -> Phases] BY <1>2 DEF Owner, Phases
<1>5. st \in States BY <1>2 DEF Owner, States
<1>6. ph = [p.phase EXCEPT ![p.sess] = "releasing"]
      /\ st = IF p.maint = "none" THEN "releasing" ELSE p.state
  BY <1>2 DEF Kept, Same, SameSessions
<1> HIDE DEF ph, st
<1>7. None \in {None} \cup [kind : {"pause", "resume"}, waiter : Controllers] OBVIOUS
<1>8. q \in Owner BY <1>2, <1>4, <1>5, <1>7, OwnerUpdate
<1>9. /\ q.sessions = r.sessions /\ q.sess = r.sess /\ q.unconfirmed = r.unconfirmed
      /\ q.maint = r.maint /\ q.output = r.output /\ q.missed = r.missed
      /\ q.phase = ph /\ q.call = None /\ q.then = then /\ q.state = st
      /\ q.waiter = r.waiter /\ q.parked = r.parked
  BY <1>2 DEF Owner
<1>10. Undecided(q) = Undecided(r) BY <1>9 DEF Undecided
<1> HIDE DEF q
<1> QED BY <1>2, <1>3, <1>6, <1>8, <1>9, <1>10 DEF Fewer, Kept, Same, SameSessions

\* A hold that settles answers its holder and changes nothing but what it knows.
LEMMA HoldSettlesStep ==
  ASSUME NEW p \in Owner, NEW confirmed \in BOOLEAN
  PROVE  LET q == HoldSettles(p, confirmed) IN
         /\ q \in Owner /\ q.parked = p.parked
         /\ q.sessions = p.sessions /\ q.sess = p.sess /\ q.unconfirmed = p.unconfirmed
         /\ q.output = p.output /\ q.missed = p.missed /\ q.phase = p.phase /\ q.call = p.call
         /\ q.then = p.then /\ q.state = p.state /\ Fewer(p, q)
         /\ q.maint = IF confirmed THEN "confirmed" ELSE "unconfirmed"
<1> DEFINE r == Answer(p, {c \in Controllers : p.cmd[c] = <<"enter">>})
           q == [r EXCEPT !.maint = IF confirmed THEN "confirmed" ELSE "unconfirmed"]
<1>1. r \in Owner /\ Kept(p, r) /\ r.parked = p.parked /\ Fewer(p, r)
  BY AnswerStep, AnswerFewer
<1>2. q = HoldSettles(p, confirmed) BY DEF HoldSettles
<1> HIDE DEF r
<1>3. q \in Owner BY <1>1, OwnerUpdate
<1>4. /\ q.sessions = r.sessions /\ q.sess = r.sess /\ q.unconfirmed = r.unconfirmed
      /\ q.output = r.output /\ q.missed = r.missed /\ q.phase = r.phase /\ q.call = r.call
      /\ q.then = r.then /\ q.state = r.state /\ q.waiter = r.waiter /\ q.parked = r.parked
      /\ q.maint = IF confirmed THEN "confirmed" ELSE "unconfirmed"
  BY <1>1 DEF Owner
<1>5. Undecided(q) = Undecided(r) BY <1>4 DEF Undecided
<1> HIDE DEF q
<1> QED BY <1>1, <1>2, <1>3, <1>4, <1>5 DEF Fewer, Kept, Same, SameSessions

\* supersedeParked answers who is parked.
LEMMA SupersedeStep ==
  ASSUME NEW p \in Owner
  PROVE  LET q == SupersedeParked(p) IN
         q \in Owner /\ Kept(p, q) /\ Fewer(p, q) /\ q.parked = <<>>
<1> DEFINE r == Answer(p, {p.parked[i] : i \in DOMAIN p.parked})
           q == [r EXCEPT !.parked = <<>>]
<1>1. r \in Owner /\ Kept(p, r) /\ Fewer(p, r) BY AnswerStep, AnswerFewer
<1>2. q = SupersedeParked(p) BY DEF SupersedeParked
<1> HIDE DEF r
<1>3. <<>> \in Seq(Controllers) OBVIOUS
<1>4. q \in Owner BY <1>1, <1>3, OwnerUpdate
<1>5. Kept(r, q) /\ q.waiter = r.waiter /\ q.parked = <<>> BY <1>1 DEF Owner, Kept, Same, SameSessions
<1>6. Undecided(q) = Undecided(r) BY <1>5 DEF Undecided
<1> HIDE DEF q
<1> QED BY <1>1, <1>2, <1>4, <1>5, <1>6 DEF Fewer, Kept, Same, SameSessions

\* Nothing holds the device, and whoever waits waits for a session to start.
Ready(p) ==
  /\ p \in Owner /\ p.sess = 0 /\ p.unconfirmed = 0 /\ p.maint = "none" /\ p.call = None
  /\ ~p.missed /\ HolderShape(p)
  /\ \A c \in Undecided(p) : p.waiter[c].sess = 0

\* startSession: nobody else holds the device, and everybody who waits is heard by
\* this session or by none.
LEMMA StartStep ==
  ASSUME NEW p, Ready(p), NEW e \in Entries, StartSession(p, e).sessions <= MaxSessions
  PROVE  LET q == StartSession(p, e) IN
         Safe(q) /\ q.sessions = p.sessions + 1 /\ q.state = "playing" /\ q.output = p.output
<1> DEFINE n == p.sessions + 1
           w == [c \in Controllers |->
               IF p.waiter[c] # None /\ p.waiter[c].play /\ p.waiter[c].sess = 0
               THEN [p.waiter[c] EXCEPT !.sess = n, !.carried = FALSE] ELSE p.waiter[c]]
           ph == [p.phase EXCEPT ![n] = "starting"]
           q == [p EXCEPT !.sessions = n, !.sess = n, !.phase = ph, !.seek = 0,
            !.state = "playing", !.then = "stop", !.selected = e,
            !.paused = FALSE, !.devReleased = FALSE, !.waiter = w]
<1>0. p \in Owner BY DEF Ready
<1>1. q = StartSession(p, e) BY DEF StartSession
<1>2. p.waiter \in [Controllers -> Waiter \cup {None}] /\ p.phase \in [Sessions -> Phases]
      /\ p.sessions \in 0..MaxSessions
  BY <1>0 DEF Owner
<1>3. q.sessions = n /\ q.sess = n /\ q.phase = ph /\ q.state = "playing" /\ q.then = "stop"
      /\ q.waiter = w /\ q.output = p.output /\ q.call = p.call /\ q.maint = p.maint
      /\ q.unconfirmed = p.unconfirmed /\ q.missed = p.missed /\ q.selected = e
  BY <1>0 DEF Owner
<1>4. n \in 0..MaxSessions /\ n \in Sessions
  <2>1. n <= MaxSessions BY <1>1, <1>3
  <2> QED BY <1>2, <2>1, BoundsAssumption DEF Sessions
<1>5. ph \in [Sessions -> Phases] BY <1>2, <1>4 DEF Phases
<1>6. ASSUME NEW c \in Controllers, p.waiter[c] # None
      PROVE  /\ [p.waiter[c] EXCEPT !.sess = n, !.carried = FALSE] \in Waiter
             /\ [p.waiter[c] EXCEPT !.sess = n, !.carried = FALSE].sess = n
  <2>1. p.waiter[c] \in Waiter BY <1>2, <1>6
  <2> HIDE DEF n
  <2> QED BY <2>1, <1>4, WaiterUpdate
<1>7. w \in [Controllers -> Waiter \cup {None}] BY <1>2, <1>6
<1>8. q \in Owner
  <2>1. "playing" \in States /\ "stop" \in Intents /\ 0 \in Entries \cup {0}
    BY DEF States, Intents
  <2> HIDE DEF w, ph, n
  <2> QED BY <1>0, <1>4, <1>5, <1>7, <2>1, OwnerUpdate
<1>9. ASSUME NEW c \in Undecided(q) PROVE q.waiter[c].sess = n
  <2>1. c \in Controllers /\ w[c] # None /\ w[c].play /\ w[c].outcome = "none"
    BY <1>3, <1>9 DEF Undecided
  <2>2. CASE p.waiter[c] # None /\ p.waiter[c].play /\ p.waiter[c].sess = 0
    <3>1. w[c] = [p.waiter[c] EXCEPT !.sess = n, !.carried = FALSE] BY <2>1, <2>2
    <3>2. w[c].sess = n BY <2>1, <2>2, <3>1, <1>6
    <3> HIDE DEF w, q
    <3> QED BY <3>2, <1>3
  <2>3. CASE ~(p.waiter[c] # None /\ p.waiter[c].play /\ p.waiter[c].sess = 0)
    <3>1. w[c] = p.waiter[c] BY <2>1, <2>3
    <3>2. c \in Undecided(p) BY <2>1, <3>1 DEF Undecided
    <3>3. p.waiter[c].sess = 0 BY <3>2 DEF Ready
    <3> QED BY <2>1, <2>3, <3>1, <3>3
  <2> QED BY <2>2, <2>3
<1>4a. n # 0 BY <1>4 DEF Sessions
<1>4b. ph[n] = "starting" /\ \A s \in Sessions : s # n => ph[s] = p.phase[s] BY <1>2, <1>4
<1>10. Waits(q)
  <2> HIDE DEF q, w, n, ph
  <2> QED BY <1>3, <1>4a, <1>9 DEF Waits, Ready
<1>11. HolderShape(q)
  <2> HIDE DEF q, w, ph
  <2>1. \A s \in Sessions : s > q.sessions => q.phase[s] = "none"
    BY <1>2, <1>3, <1>4, <1>4b DEF Ready, HolderShape, Sessions
  <2>2. \A s \in Sessions : q.phase[s] \notin {"none", "acked"} => s = Holder(q)
    <3>1. ASSUME NEW s \in Sessions, s # n PROVE q.phase[s] \in {"none", "acked"}
      <4>1. q.phase[s] = p.phase[s] BY <1>3, <1>4b, <3>1
      <4>2. 0 \notin Sessions BY BoundsAssumption DEF Sessions
      <4> QED BY <4>1, <4>2 DEF Ready, HolderShape, Holder
    <3> QED BY <3>1, <1>3, <1>4a DEF Holder
  <2> QED BY <1>3, <1>4a, <1>4b, <1>4, <2>1, <2>2 DEF Ready, HolderShape
<1>12. StateShape(q) /\ HoldShape(q) /\ CallShape(q)
  <2> HIDE DEF q, w, ph, n
  <2>1. q.phase[q.sess] = "starting" /\ q.sess # 0 BY <1>3, <1>4a, <1>4b
  <2> QED BY <1>3, <2>1 DEF StateShape, HoldShape, CallShape, Ready, Live
<1> HIDE DEF q
<1>13. Chosen(q) BY <1>3, EntriesAssumption DEF Chosen
<1> QED BY <1>1, <1>3, <1>8, <1>10, <1>11, <1>12, <1>13 DEF Safe, Shape

-----------------------------------------------------------------------------
(***************************************************************************)
(* What keeps the invariant                                                *)
(***************************************************************************)
\* Whatever changes in neither sessions nor state, with nobody more to wait, is safe.
LEMMA SafeFrame ==
  ASSUME NEW p, Safe(p), NEW q \in Owner, Same(p, q), Fewer(p, q)
  PROVE  Safe(q) /\ (Asking(q) <=> Asking(p))
<1>1. HolderShape(q) BY DEF Safe, Shape, HolderShape, Holder, Same, SameSessions
<1>2. StateShape(q) /\ HoldShape(q) /\ CallShape(q)
  BY DEF Safe, Shape, StateShape, HoldShape, CallShape, Live, Same, SameSessions
<1>3. Waits(q) BY DEF Safe, Waits, Fewer, Same, SameSessions
<1>4. (Asking(q) <=> Asking(p)) BY DEF Asking, Same, SameSessions
<1>5. Chosen(q) BY DEF Safe, Chosen, Live, Same, SameSessions
<1> QED BY <1>1, <1>2, <1>3, <1>4, <1>5 DEF Safe, Shape

\* A command may wait to play while the release plays when it is done.
LEMMA SafeWait ==
  ASSUME NEW p, Safe(p), NEW c \in Controllers, NEW play \in BOOLEAN, NEW carried \in BOOLEAN,
         play => p.then = "play"
  PROVE  LET q == Wait(p, c, play, carried) IN
         Safe(q) /\ (Asking(q) <=> Asking(p)) /\ q.sessions = p.sessions
<1> DEFINE q == Wait(p, c, play, carried)
<1>0. p \in Owner BY DEF Safe
<1>1. q \in Owner /\ Kept(p, q) /\ \A d \in Undecided(q) :
              \/ d \in Undecided(p) /\ q.waiter[d].sess = p.waiter[d].sess
              \/ play /\ d = c /\ q.waiter[d].sess = 0
  BY <1>0, WaitStep
<1> HIDE DEF q
<1>2. HolderShape(q) BY <1>1 DEF Safe, Shape, HolderShape, Holder, Kept, Same, SameSessions
<1>3. StateShape(q) /\ HoldShape(q) /\ CallShape(q)
  BY <1>1 DEF Safe, Shape, StateShape, HoldShape, CallShape, Live, Kept, Same, SameSessions
<1>4. Waits(q) BY <1>1 DEF Safe, Waits, Kept, Same, SameSessions
<1>5. (Asking(q) <=> Asking(p)) /\ q.sessions = p.sessions BY <1>1 DEF Asking, Kept, Same, SameSessions
<1>6. Chosen(q) BY <1>1 DEF Safe, Chosen, Live, Kept, Same, SameSessions
<1>7. Safe(q) BY <1>1, <1>2, <1>3, <1>4, <1>6 DEF Safe, Shape
<1> QED BY <1>5, <1>7 DEF q

\* The intent of a release may be replaced at any time.
LEMMA SafeIntent ==
  ASSUME NEW p, Safe(p), p.state = "releasing", NEW then \in Intents
  PROVE  LET q == SetIntent(p, then) IN
         /\ Safe(q) /\ q.state = "releasing" /\ q.then = then /\ q.sessions = p.sessions
         /\ then # "play" => ~Asking(q)
<1> DEFINE q == SetIntent(p, then)
<1>0. p \in Owner BY DEF Safe
<1>1. /\ q \in Owner /\ SameSessions(p, q) /\ q.state = p.state /\ q.then = then /\ Fewer(p, q)
      /\ then # "play" /\ p.then = "play" => Undecided(q) = {}
  BY <1>0, SetIntentStep
<1> HIDE DEF q
<1>2. HolderShape(q) BY <1>1 DEF Safe, Shape, HolderShape, Holder, SameSessions
<1>3. StateShape(q) /\ HoldShape(q) /\ CallShape(q)
  BY <1>1 DEF Safe, Shape, StateShape, HoldShape, CallShape, Live, SameSessions
<1>4. Waits(q) BY <1>1 DEF Safe, Waits, SameSessions, Fewer
<1>5. q.call = None
  BY <1>1 DEF Safe, Shape, CallShape, StateShape, SameSessions
<1>6. then # "play" => ~Asking(q) BY <1>1, <1>5 DEF Asking
<1>7. Chosen(q) BY <1>1 DEF Safe, Chosen, Live, SameSessions
<1>8. Safe(q) BY <1>1, <1>2, <1>3, <1>4, <1>7 DEF Safe, Shape
<1> QED BY <1>1, <1>6, <1>8 DEF SameSessions, q

\* A session plays or starts in no maintenance hold.
LEMMA LiveIsInNoHold ==
  ASSUME NEW p, Shape(p), Live(p)
  PROVE  p.maint = "none"
BY DEF Shape, HoldShape, Live

\* releaseSession, of a session that plays or starts, while nobody waits for it.
LEMMA SafeRelease ==
  ASSUME NEW p \in Owner, Shape(p), ~p.missed, Live(p), NEW then \in Intents,
         then = "play" => \A c \in Undecided(p) : p.waiter[c].sess = 0
  PROVE  LET q == ReleaseSession(p, then) IN
         /\ Safe(q) /\ q.state = "releasing" /\ q.then = then /\ q.sessions = p.sessions
         /\ then # "play" => ~Asking(q)
<1> DEFINE q == ReleaseSession(p, then)
<1>0. p.maint = "none" BY LiveIsInNoHold
<1>1. /\ q \in Owner
      /\ q.sessions = p.sessions /\ q.sess = p.sess /\ q.unconfirmed = p.unconfirmed
      /\ q.maint = p.maint /\ q.missed = p.missed
      /\ q.phase = [p.phase EXCEPT ![p.sess] = "releasing"] /\ q.call = None
      /\ q.then = then /\ q.state = "releasing"
      /\ Fewer(p, q) /\ (then # "play" => Undecided(q) = {})
  BY <1>0, ReleaseStep
<1> HIDE DEF q
<1>2. p.phase \in [Sessions -> Phases] /\ p.sess \in Sessions
  BY BoundsAssumption DEF Owner, Live, Sessions
<1>3. q.phase[p.sess] = "releasing" /\ \A s \in Sessions : s # p.sess => q.phase[s] = p.phase[s]
  BY <1>1, <1>2
<1>4. HolderShape(q)
  <2>1. \A s \in Sessions : s > q.sessions => q.phase[s] = "none"
    BY <1>1, <1>2, <1>3 DEF Shape, HolderShape, Live, Sessions, Owner
  <2> QED BY <1>1, <1>2, <1>3, <2>1 DEF Shape, HolderShape, Holder, Live
<1>5. StateShape(q) /\ HoldShape(q) /\ CallShape(q)
  BY <1>0, <1>1, <1>2, <1>3 DEF Shape, StateShape, HoldShape, CallShape, Live
<1>6. Waits(q) BY <1>1 DEF Waits, Fewer
<1>7. then # "play" => ~Asking(q) BY <1>1 DEF Asking
<1>8. Safe(q)
  <2>1. Chosen(q) BY <1>1, <1>3 DEF Chosen, Live
  <2> QED BY <1>1, <1>4, <1>5, <1>6, <2>1 DEF Safe, Shape
<1> QED BY <1>1, <1>7, <1>8 DEF q

\* A command may wait for an end at any time.
LEMMA WaitsForTheEnd ==
  ASSUME NEW p, Safe(p), NEW c \in Controllers
  PROVE  LET q == Wait(p, c, FALSE, FALSE) IN
         Safe(q) /\ (Asking(q) <=> Asking(p)) /\ q.sessions = p.sessions
BY SafeWait, FALSE \in BOOLEAN

\* And for playback, while the release that it waits for plays.
LEMMA WaitsToPlay ==
  ASSUME NEW p, Safe(p), p.then = "play", NEW c \in Controllers, NEW carried \in BOOLEAN
  PROVE  LET q == Wait(p, c, TRUE, carried) IN
         Safe(q) /\ (Asking(q) <=> Asking(p)) /\ q.sessions = p.sessions
BY SafeWait, TRUE \in BOOLEAN

\* Fields that the invariant says nothing of may change.
LEMMA SideUpdates ==
  ASSUME NEW p \in Owner
  PROVE  /\ \A v \in Entries : Side(p, [p EXCEPT !.selected = v])
         /\ \A v \in Entries \cup {0} : Side(p, [p EXCEPT !.seek = v])
         /\ \A v \in SUBSET Entries : Side(p, [p EXCEPT !.pass = v])
         /\ \A v \in SUBSET Entries : Side(p, [p EXCEPT !.queue = v])
         /\ \A v \in BOOLEAN : Side(p, [p EXCEPT !.devReleased = v])
         /\ \A v \in BOOLEAN : Side(p, [p EXCEPT !.pauseArmed = v])
         /\ \A v \in BOOLEAN : Side(p, [p EXCEPT !.paused = v])
         /\ \A v \in BOOLEAN : Side(p, [p EXCEPT !.unconfirmedPaused = v])
         /\ \A v \in Seq(Controllers) : Side(p, [p EXCEPT !.parked = v])
         /\ \A v \in [Controllers -> Commands \cup {None}] : Side(p, [p EXCEPT !.cmd = v])
<1>1. ASSUME NEW q \in Owner, Kept(p, q), q.waiter = p.waiter PROVE Side(p, q)
  BY <1>1 DEF Side, Fewer, Undecided
<1>2. ASSUME NEW v \in Entries PROVE Side(p, [p EXCEPT !.selected = v])
  <2> DEFINE q == [p EXCEPT !.selected = v]
  <2>1. q \in Owner BY OwnerUpdate
  <2>2. Kept(p, q) /\ q.waiter = p.waiter BY EntriesAssumption DEF Owner, Kept, Same, SameSessions
  <2> HIDE DEF q
  <2>3. Side(p, q) BY <1>1, <2>1, <2>2
  <2> QED BY <2>3 DEF q
<1>3. ASSUME NEW v \in Entries \cup {0} PROVE Side(p, [p EXCEPT !.seek = v])
  <2> DEFINE q == [p EXCEPT !.seek = v]
  <2>1. q \in Owner BY OwnerUpdate
  <2>2. Kept(p, q) /\ q.waiter = p.waiter BY DEF Owner, Kept, Same, SameSessions
  <2> HIDE DEF q
  <2>3. Side(p, q) BY <1>1, <2>1, <2>2
  <2> QED BY <2>3 DEF q
<1>4. ASSUME NEW v \in SUBSET Entries PROVE Side(p, [p EXCEPT !.pass = v])
  <2> DEFINE q == [p EXCEPT !.pass = v]
  <2>1. q \in Owner BY OwnerUpdate
  <2>2. Kept(p, q) /\ q.waiter = p.waiter BY DEF Owner, Kept, Same, SameSessions
  <2> HIDE DEF q
  <2>3. Side(p, q) BY <1>1, <2>1, <2>2
  <2> QED BY <2>3 DEF q
<1>5. ASSUME NEW v \in SUBSET Entries PROVE Side(p, [p EXCEPT !.queue = v])
  <2> DEFINE q == [p EXCEPT !.queue = v]
  <2>1. q \in Owner BY OwnerUpdate
  <2>2. Kept(p, q) /\ q.waiter = p.waiter BY DEF Owner, Kept, Same, SameSessions
  <2> HIDE DEF q
  <2>3. Side(p, q) BY <1>1, <2>1, <2>2
  <2> QED BY <2>3 DEF q
<1>6. ASSUME NEW v \in BOOLEAN PROVE Side(p, [p EXCEPT !.devReleased = v])
  <2> DEFINE q == [p EXCEPT !.devReleased = v]
  <2>1. q \in Owner BY OwnerUpdate
  <2>2. Kept(p, q) /\ q.waiter = p.waiter BY DEF Owner, Kept, Same, SameSessions
  <2> HIDE DEF q
  <2>3. Side(p, q) BY <1>1, <2>1, <2>2
  <2> QED BY <2>3 DEF q
<1>7. ASSUME NEW v \in BOOLEAN PROVE Side(p, [p EXCEPT !.pauseArmed = v])
  <2> DEFINE q == [p EXCEPT !.pauseArmed = v]
  <2>1. q \in Owner BY OwnerUpdate
  <2>2. Kept(p, q) /\ q.waiter = p.waiter BY DEF Owner, Kept, Same, SameSessions
  <2> HIDE DEF q
  <2>3. Side(p, q) BY <1>1, <2>1, <2>2
  <2> QED BY <2>3 DEF q
<1>8. ASSUME NEW v \in BOOLEAN PROVE Side(p, [p EXCEPT !.paused = v])
  <2> DEFINE q == [p EXCEPT !.paused = v]
  <2>1. q \in Owner BY OwnerUpdate
  <2>2. Kept(p, q) /\ q.waiter = p.waiter BY DEF Owner, Kept, Same, SameSessions
  <2> HIDE DEF q
  <2>3. Side(p, q) BY <1>1, <2>1, <2>2
  <2> QED BY <2>3 DEF q
<1>9. ASSUME NEW v \in BOOLEAN PROVE Side(p, [p EXCEPT !.unconfirmedPaused = v])
  <2> DEFINE q == [p EXCEPT !.unconfirmedPaused = v]
  <2>1. q \in Owner BY OwnerUpdate
  <2>2. Kept(p, q) /\ q.waiter = p.waiter BY DEF Owner, Kept, Same, SameSessions
  <2> HIDE DEF q
  <2>3. Side(p, q) BY <1>1, <2>1, <2>2
  <2> QED BY <2>3 DEF q
<1>10. ASSUME NEW v \in Seq(Controllers) PROVE Side(p, [p EXCEPT !.parked = v])
  <2> DEFINE q == [p EXCEPT !.parked = v]
  <2>1. q \in Owner BY OwnerUpdate
  <2>2. Kept(p, q) /\ q.waiter = p.waiter BY DEF Owner, Kept, Same, SameSessions
  <2> HIDE DEF q
  <2>3. Side(p, q) BY <1>1, <2>1, <2>2
  <2> QED BY <2>3 DEF q
<1>11. ASSUME NEW v \in [Controllers -> Commands \cup {None}] PROVE Side(p, [p EXCEPT !.cmd = v])
  <2> DEFINE q == [p EXCEPT !.cmd = v]
  <2>1. q \in Owner BY OwnerUpdate
  <2>2. Kept(p, q) /\ q.waiter = p.waiter BY DEF Owner, Kept, Same, SameSessions
  <2> HIDE DEF q
  <2>3. Side(p, q) BY <1>1, <2>1, <2>2
  <2> QED BY <2>3 DEF q
<1> QED BY <1>2, <1>3, <1>4, <1>5, <1>6, <1>7, <1>8, <1>9, <1>10, <1>11

\* Such changes compose.
LEMMA SideTrans ==
  ASSUME NEW p, NEW q, NEW r, Side(p, q), Side(q, r)
  PROVE  Side(p, r)
BY DEF Side, Kept, Same, SameSessions, Fewer

\* No change is one.
LEMMA SideRefl == ASSUME NEW p \in Owner PROVE Side(p, p)
BY DEF Side, Kept, Same, SameSessions, Fewer

\* So are answers and decisions.
LEMMA SideSteps ==
  ASSUME NEW p \in Owner
  PROVE  /\ \A C : Side(p, Answer(p, C))
         /\ Side(p, PlayFailed(p)) /\ Side(p, Replaced(p)) /\ Side(p, ReplacedCarry(p))
         /\ Side(p, PlayBegan(p)) /\ Side(p, SupersedeParked(p))
<1>1. \A C : Side(p, Answer(p, C)) BY AnswerStep, AnswerFewer DEF Side
<1>2. Fewer(p, PlayFailed(p)) BY DecideAll DEF Fewer
<1> QED BY <1>1, <1>2, DecideAll, SupersedeStep DEF Side

\* And they keep the invariant.
LEMMA SafeSide ==
  ASSUME NEW p, Safe(p), NEW q, Side(p, q)
  PROVE  Safe(q) /\ (Asking(q) <=> Asking(p)) /\ Leads(p, q)
<1>1. Safe(q) /\ (Asking(q) <=> Asking(p)) BY SafeFrame DEF Side, Kept
<1>2. q.sessions = p.sessions BY DEF Side, Kept, Same, SameSessions
<1> QED BY <1>1, <1>2 DEF Leads

\* Who stops, or is paused with no session, plays nothing more.
LEMMA StopIdle ==
  ASSUME NEW p, Safe(p), p.sess = 0, p.maint = "none", NEW st \in {"stopped", "paused"},
         NEW q \in Owner, SameSessions(p, q), q.state = st, q.then = p.then, Fewer(p, q)
  PROVE  Safe(q) /\ ~Asking(q)
<1>1. p.state \in {"stopped", "paused"}
  BY DEF Safe, Owner, States, Shape, StateShape, HoldShape, Live
<1>2. p.then # "play" /\ p.call = None BY <1>1 DEF Safe, Shape, StateShape, CallShape
<1>3. HolderShape(q) BY DEF Safe, Shape, HolderShape, Holder, SameSessions
<1>4. StateShape(q) /\ HoldShape(q) /\ CallShape(q)
  BY <1>1, <1>2 DEF Safe, Shape, StateShape, HoldShape, CallShape, Live, SameSessions
<1>5. Waits(q) BY <1>1, <1>2 DEF Safe, Waits, SameSessions, Fewer
<1>6. ~Asking(q) BY <1>2 DEF Asking, SameSessions
<1>7. Chosen(q) BY DEF Chosen, Live, SameSessions
<1> QED BY <1>3, <1>4, <1>5, <1>6, <1>7 DEF Safe, Shape

\* What the state's own field changes.
LEMMA SetState ==
  ASSUME NEW p \in Owner, NEW st \in States
  PROVE  LET q == [p EXCEPT !.state = st] IN
         /\ q \in Owner /\ SameSessions(p, q) /\ q.state = st /\ q.then = p.then /\ Fewer(p, q)
         /\ q.output = p.output
<1> DEFINE q == [p EXCEPT !.state = st]
<1>1. q \in Owner BY OwnerUpdate
<1>2. SameSessions(p, q) /\ q.state = st /\ q.then = p.then /\ q.waiter = p.waiter
      /\ q.output = p.output
  BY DEF Owner, SameSessions
<1> HIDE DEF q
<1>3. Fewer(p, q) BY <1>2 DEF Fewer, Undecided
<1> QED BY <1>1, <1>2, <1>3 DEF q

\* Held, and with no session though paused.
LEMMA HeldIsLive ==
  ASSUME NEW p, Shape(p)
  PROVE  /\ Held(p) => Live(p)
         /\ p.maint = "none" /\ p \in Owner /\ ~Held(p) /\ p.state # "releasing" =>
              p.sess = 0 /\ p.state \in {"stopped", "paused"}
         /\ p.state = "paused" /\ ~Live(p) => p.sess = 0
BY DEF Shape, StateShape, HoldShape, Held, Live, Owner, States

-----------------------------------------------------------------------------
(***************************************************************************)
(* Commands                                                                *)
(***************************************************************************)
\* A Stop, in every state, asks for nothing more to play.
LEMMA StopPlayingStep ==
  ASSUME NEW p, Safe(p), p.maint = "none", NEW c \in Controllers
  PROVE  LET q == StopPlaying(p, c) IN Safe(q) /\ ~Asking(q) /\ q.sessions = p.sessions
<1>0. p \in Owner /\ Shape(p) /\ ~p.missed BY DEF Safe, Waits
<1>a. "stop" \in Intents /\ "stopped" \in States BY DEF Intents, States
<1>1. CASE Held(p)
  <2> DEFINE r == ReleaseSession(p, "stop")
  <2>1. Live(p) BY <1>0, <1>1, HeldIsLive
  <2>2. Safe(r) /\ ~Asking(r) /\ r.sessions = p.sessions BY <1>0, <1>a, <2>1, SafeRelease
  <2>3. StopPlaying(p, c) = Wait(r, c, FALSE, FALSE) BY <1>1 DEF StopPlaying, Held
  <2> HIDE DEF r
  <2>4. LET q == Wait(r, c, FALSE, FALSE) IN
          Safe(q) /\ (Asking(q) <=> Asking(r)) /\ q.sessions = r.sessions
    BY <2>2, WaitsForTheEnd
  <2> QED BY <2>2, <2>3, <2>4
<1>2. CASE p.state = "releasing"
  <2> DEFINE r == SetIntent(p, "stop")
  <2>2. Safe(r) /\ ~Asking(r) /\ r.sessions = p.sessions BY <1>a, <1>2, SafeIntent
  <2>3. StopPlaying(p, c) = Wait(r, c, FALSE, FALSE) BY <1>2 DEF StopPlaying, Held
  <2> HIDE DEF r
  <2>4. LET q == Wait(r, c, FALSE, FALSE) IN
          Safe(q) /\ (Asking(q) <=> Asking(r)) /\ q.sessions = r.sessions
    BY <2>2, WaitsForTheEnd
  <2> QED BY <2>2, <2>3, <2>4
<1>3. CASE ~Held(p) /\ p.state # "releasing"
  <2> DEFINE r == [p EXCEPT !.state = "stopped"]
  <2>1. p.sess = 0 BY <1>0, <1>3, HeldIsLive
  <2>2. r \in Owner /\ SameSessions(p, r) /\ r.state = "stopped" /\ r.then = p.then /\ Fewer(p, r)
    BY <1>0, <1>a, SetState
  <2>3. StopPlaying(p, c) = Answer(r, {c}) BY <1>3 DEF StopPlaying
  <2> HIDE DEF r
  <2>4. Safe(r) /\ ~Asking(r) BY <2>1, <2>2, StopIdle
  <2>5. Side(r, Answer(r, {c})) BY <2>2, SideSteps
  <2>6. r.sessions = p.sessions BY <2>2 DEF SameSessions
  <2>7. Answer(r, {c}).sessions = r.sessions BY <2>5 DEF Side, Kept, Same, SameSessions
  <2> QED BY <2>3, <2>4, <2>5, <2>6, <2>7, SafeSide
<1> QED BY <1>1, <1>2, <1>3

\* What starts at once: everybody before it let the device go.
LEMMA ReadyToStart ==
  ASSUME NEW p, Safe(p), ~Held(p), p.state # "releasing", p.maint = "none", p.unconfirmed = 0,
         NEW r, Side(p, r), NEW c \in Controllers, NEW b \in BOOLEAN
  PROVE  Ready(Wait(r, c, TRUE, b)) /\ Wait(r, c, TRUE, b).output = p.output
         /\ Wait(r, c, TRUE, b).sessions = p.sessions
<1> DEFINE q == Wait(r, c, TRUE, b)
<1>1. p \in Owner /\ Shape(p) /\ ~p.missed BY DEF Safe, Waits
<1>2. p.sess = 0 /\ p.state \in {"stopped", "paused"} BY <1>1, HeldIsLive
<1>3. p.call = None /\ p.then # "play" BY <1>1, <1>2 DEF Shape, CallShape, StateShape
<1>4. Undecided(p) = {} BY <1>2, <1>3 DEF Safe, Waits
<1>5. r \in Owner /\ Kept(p, r) /\ Undecided(r) = {} BY <1>4 DEF Side, Fewer
<1>6. /\ q \in Owner /\ Kept(r, q)
      /\ \A d \in Undecided(q) :
           \/ d \in Undecided(r) /\ q.waiter[d].sess = r.waiter[d].sess
           \/ TRUE /\ d = c /\ q.waiter[d].sess = 0
  <2>1. r \in Owner BY <1>5
  <2>2. TRUE \in BOOLEAN OBVIOUS
  <2> QED BY <2>1, <2>2, WaitStep
<1> HIDE DEF q
<1>7. \A d \in Undecided(q) : q.waiter[d].sess = 0 BY <1>5, <1>6
<1>8. HolderShape(q) BY <1>1, <1>5, <1>6 DEF Shape, HolderShape, Holder, Kept, Same, SameSessions
<1>9. q.sess = 0 /\ q.unconfirmed = 0 /\ q.maint = "none" /\ q.call = None /\ ~q.missed
      /\ q.output = p.output /\ q.sessions = p.sessions
  BY <1>1, <1>2, <1>3, <1>5, <1>6 DEF Kept, Same, SameSessions
<1>10. Ready(q) BY <1>6, <1>7, <1>8, <1>9 DEF Ready
<1> QED BY <1>9, <1>10 DEF q

\* A session that starts at once is safe: whoever opens the device was admitted.
LEMMA StartAtOnce ==
  ASSUME NEW p, Safe(p), ~Held(p), p.state # "releasing", p.maint = "none", ~CannotOpen(p),
         NEW r, Side(p, r), NEW c \in Controllers, NEW e \in Entries,
         StartSession(Wait(r, c, TRUE, FALSE), e).sessions <= MaxSessions
  PROVE  Leads(p, StartSession(Wait(r, c, TRUE, FALSE), e))
<1>1. p.unconfirmed = 0 /\ p.output = "available" BY DEF CannotOpen
<1> DEFINE q == Wait(r, c, TRUE, FALSE)
<1>2. Ready(q) /\ q.output = p.output BY <1>1, ReadyToStart
<1> HIDE DEF q
<1>3. Safe(StartSession(q, e)) /\ StartSession(q, e).state = "playing"
      /\ StartSession(q, e).output = q.output
  BY <1>2, StartStep DEF q
<1> QED BY <1>1, <1>2, <1>3 DEF Leads, q

\* A call to the backend is made of the session that plays or is paused.
LEMMA CallMade ==
  ASSUME NEW p, Safe(p), NEW c \in Controllers, NEW kind \in {"pause", "resume"},
         kind = "pause" => p.state = "playing", kind = "resume" => p.state = "paused",
         p.sess # 0, p.phase[p.sess] = "live"
  PROVE  LET q == [p EXCEPT !.call = [kind |-> kind, waiter |-> c]] IN
         Leads(p, q) /\ (Asking(q) => Asking(p) \/ kind = "resume")
<1> DEFINE q == [p EXCEPT !.call = [kind |-> kind, waiter |-> c]]
<1>0. p \in Owner BY DEF Safe
<1>1. [kind |-> kind, waiter |-> c] \in {None} \cup [kind : {"pause", "resume"}, waiter : Controllers]
  OBVIOUS
<1>2. q \in Owner BY <1>0, <1>1, OwnerUpdate
<1>3. /\ q.sessions = p.sessions /\ q.sess = p.sess /\ q.phase = p.phase
      /\ q.unconfirmed = p.unconfirmed /\ q.maint = p.maint /\ q.missed = p.missed
      /\ q.state = p.state /\ q.then = p.then /\ q.waiter = p.waiter
      /\ q.call.kind = kind /\ q.selected = p.selected
  BY <1>0 DEF Owner
<1> HIDE DEF q
<1>4. HolderShape(q) BY <1>3 DEF Safe, Shape, HolderShape, Holder
<1>5. StateShape(q) /\ HoldShape(q) BY <1>3 DEF Safe, Shape, StateShape, HoldShape, Live
<1>6. CallShape(q) BY <1>3 DEF CallShape
<1>7. Waits(q) BY <1>3 DEF Safe, Waits, Undecided
<1>8. Safe(q)
  <2>1. Chosen(q) BY <1>3 DEF Safe, Chosen, Live
  <2> QED BY <1>2, <1>4, <1>5, <1>6, <1>7, <2>1 DEF Safe, Shape
<1>9. Asking(q) => Asking(p) \/ kind = "resume" BY <1>3 DEF Asking
<1> QED BY <1>3, <1>8, <1>9 DEF Leads, q

\* Play starts, resumes, or waits for what follows a release; refused, it asks nothing.
LEMMA PlayStep ==
  ASSUME NEW p, Safe(p), p.maint = "none", NEW c \in Controllers,
         Play(p, c).sessions <= MaxSessions
  PROVE  Leads(p, Play(p, c)) /\ (Asking(Play(p, c)) => Asking(p) \/ ~CannotOpen(p))
<1> DEFINE e == Target(p)
           q == [p EXCEPT !.selected = e]
<1>0. p \in Owner /\ Shape(p) BY DEF Safe
<1>1. 0 \in Entries \cup {0} OBVIOUS
<1>2. e \in Entries \cup {0} BY <1>0, <1>1, QueueLookups
<1>3. e # 0 => e \in Entries /\ Side(p, q) BY <1>0, <1>2, SideUpdates
<1>4. Leads(p, Answer(p, {c})) /\ (Asking(Answer(p, {c})) <=> Asking(p))
  BY <1>0, SideSteps, SafeSide
<1>5. CASE p.state = "playing" \/ CannotOpen(p)
  BY <1>4, <1>5 DEF Play
<1>6. CASE ~(p.state = "playing" \/ CannotOpen(p)) /\ p.state = "paused" /\ Live(p)
  <2>1. Play(p, c) = [p EXCEPT !.call = [kind |-> "resume", waiter |-> c]] BY <1>6 DEF Play
  <2>2. p.sess # 0 /\ p.phase[p.sess] = "live" BY <1>0, <1>6 DEF Shape, StateShape, Live
  <2>3. Leads(p, [p EXCEPT !.call = [kind |-> "resume", waiter |-> c]])
    BY <1>6, <2>2, CallMade
  <2> QED BY <1>6, <2>1, <2>3
<1>7. CASE ~(p.state = "playing" \/ CannotOpen(p)) /\ ~(p.state = "paused" /\ Live(p)) /\ e = 0
  BY <1>4, <1>7 DEF Play
<1>8. CASE ~CannotOpen(p) /\ p.state = "releasing" /\ e # 0
  <2> DEFINE r == IF q # p THEN ReplacedCarry(q) ELSE q
             s == SetIntent(r, "play")
  <2>1. Side(p, r) BY <1>3, <1>8, SideSteps, SideTrans DEF Side
  <2>2. Play(p, c) = Wait(s, c, TRUE, FALSE) BY <1>8 DEF Play
  <2> HIDE DEF r, q
  <2>3. Safe(r) /\ r.state = "releasing" /\ r.sessions = p.sessions
    BY <1>8, <2>1, SafeSide DEF Side, Kept, Same, SameSessions
  <2>4. Safe(s) /\ s.then = "play" /\ s.sessions = p.sessions BY <2>3, SafeIntent DEF Intents
  <2> HIDE DEF s
  <2>5. FALSE \in BOOLEAN OBVIOUS
  <2>6. Safe(Wait(s, c, TRUE, FALSE)) /\ Wait(s, c, TRUE, FALSE).sessions = s.sessions
    BY <2>4, <2>5, WaitsToPlay
  <2> QED BY <1>8, <2>2, <2>4, <2>6 DEF Leads
<1>9. CASE ~CannotOpen(p) /\ p.state \notin {"playing", "releasing"}
           /\ ~(p.state = "paused" /\ Live(p)) /\ e # 0
  <2>1. Play(p, c) = StartSession(Wait(q, c, TRUE, FALSE), e) BY <1>9 DEF Play
  <2>2. ~Held(p) BY <1>9 DEF Held
  <2> HIDE DEF q, e
  <2>3. Leads(p, StartSession(Wait(q, c, TRUE, FALSE), e))
    BY <1>2, <1>3, <1>9, <2>1, <2>2, StartAtOnce
  <2> QED BY <1>9, <2>1, <2>3
<1> QED BY <1>5, <1>6, <1>7, <1>8, <1>9

\* A release that nobody waits for, and one more who waits for what follows.
LEMMA ReleaseToPlay ==
  ASSUME NEW p, Shape(p), ~p.missed, p \in Owner, Live(p), NEW c \in Controllers,
         NEW b \in BOOLEAN, \A d \in Undecided(p) : p.waiter[d].sess = 0
  PROVE  LET q == Wait(ReleaseSession(p, "play"), c, TRUE, b) IN Safe(q) /\ q.sessions = p.sessions
<1> DEFINE r == ReleaseSession(p, "play")
<1>1. Safe(r) /\ r.then = "play" /\ r.sessions = p.sessions BY SafeRelease DEF Intents
<1> HIDE DEF r
<1>2. Safe(Wait(r, c, TRUE, b)) /\ Wait(r, c, TRUE, b).sessions = r.sessions
  BY <1>1, WaitsToPlay
<1> QED BY <1>1, <1>2 DEF r

\* Next, Previous and PlayID, of an entry the device may be opened for.
LEMMA PlayEntryStep ==
  ASSUME NEW p, Safe(p), p.maint = "none", ~CannotOpen(p), NEW c \in Controllers, NEW e \in Entries,
         PlayEntry(p, c, e).sessions <= MaxSessions
  PROVE  Leads(p, PlayEntry(p, c, e))
<1> DEFINE q == IF p.seek # 0 THEN [ReplacedCarry(p) EXCEPT !.seek = 0] ELSE p
           r == [q EXCEPT !.selected = e]
<1>0. p \in Owner /\ Shape(p) /\ ~p.missed BY DEF Safe, Waits
<1>1. Side(p, q)
  <2>1. Side(p, ReplacedCarry(p)) BY <1>0, SideSteps
  <2>2. ReplacedCarry(p) \in Owner BY <2>1 DEF Side
  <2>3. Side(ReplacedCarry(p), [ReplacedCarry(p) EXCEPT !.seek = 0]) BY <2>2, SideUpdates
  <2> QED BY <1>0, <2>1, <2>3, SideTrans, SideRefl
<1>2. Side(p, r)
  <2>1. q \in Owner BY <1>1 DEF Side
  <2> HIDE DEF q
  <2>2. Side(q, r) BY <2>1, SideUpdates
  <2> QED BY <1>1, <2>2, SideTrans
<1>3. PlayEntry(p, c, e) =
        CASE Held(p) -> Wait(ReleaseSession(Replaced(r), "play"), c, TRUE, FALSE)
          [] p.state = "releasing" ->
               Wait(SetIntent(IF e # p.selected THEN ReplacedCarry(r) ELSE r, "play"), c, TRUE, FALSE)
          [] OTHER -> StartSession(Wait(r, c, TRUE, FALSE), e)
  BY DEF PlayEntry
<1>4. FALSE \in BOOLEAN OBVIOUS
<1> HIDE DEF q, r
<1>5. r \in Owner /\ Safe(r) /\ Kept(p, r) BY <1>2, SafeSide DEF Side
<1>6. CASE Held(p)
  <2> DEFINE s == Replaced(r)
  <2>1. /\ s \in Owner /\ Kept(r, s) /\ Fewer(r, s) /\ \A d \in Undecided(s) : s.waiter[d].sess # r.sess
    BY <1>5, DecideAll
  <2>2. Safe(s) /\ s.sessions = p.sessions /\ s.sess = p.sess /\ s.phase = p.phase /\ s.sess = r.sess
    BY <1>5, <2>1, SafeFrame DEF Kept, Same, SameSessions
  <2>3. Live(s) BY <1>0, <1>6, <2>2, HeldIsLive DEF Live
  <2>4. \A d \in Undecided(s) : s.waiter[d].sess = 0
    BY <2>1, <2>2 DEF Safe, Waits
  <2> HIDE DEF s
  <2>5. LET t == Wait(ReleaseSession(s, "play"), c, TRUE, FALSE) IN Safe(t) /\ t.sessions = s.sessions
    BY <1>4, <2>2, <2>3, <2>4, ReleaseToPlay DEF Safe, Waits
  <2>6. PlayEntry(p, c, e) = Wait(ReleaseSession(s, "play"), c, TRUE, FALSE)
    BY <1>3, <1>6 DEF s, Held
  <2> QED BY <2>2, <2>5, <2>6 DEF Leads
<1>7. CASE p.state = "releasing"
  <2> DEFINE s == IF e # p.selected THEN ReplacedCarry(r) ELSE r
             t == SetIntent(s, "play")
  <2>1. Side(p, s) BY <1>2, <1>5, SideSteps, SideTrans
  <2>2. PlayEntry(p, c, e) = Wait(t, c, TRUE, FALSE) BY <1>3, <1>7 DEF Held
  <2> HIDE DEF s
  <2>3. Safe(s) /\ s.state = "releasing" /\ s.sessions = p.sessions
    BY <1>7, <2>1, SafeSide DEF Side, Kept, Same, SameSessions
  <2>4. Safe(t) /\ t.then = "play" /\ t.sessions = p.sessions BY <2>3, SafeIntent DEF Intents
  <2> HIDE DEF t
  <2>5. Safe(Wait(t, c, TRUE, FALSE)) /\ Wait(t, c, TRUE, FALSE).sessions = t.sessions
    BY <1>4, <2>4, WaitsToPlay
  <2> QED BY <2>2, <2>4, <2>5 DEF Leads
<1>8. CASE ~Held(p) /\ p.state # "releasing"
  <2>1. PlayEntry(p, c, e) = StartSession(Wait(r, c, TRUE, FALSE), e) BY <1>3, <1>8
  <2> QED BY <1>2, <1>8, <2>1, StartAtOnce
<1> QED BY <1>6, <1>7, <1>8

\* Pause calls the backend only for a session that plays and has started.
LEMMA PauseStep ==
  ASSUME NEW p, Safe(p), NEW c \in Controllers, ~Blocked(p, <<"pause">>)
  PROVE  Leads(p, Pause(p, c)) /\ (Asking(Pause(p, c)) => Asking(p))
<1>0. p \in Owner /\ Shape(p) BY DEF Safe
<1>1. CASE p.state = "playing"
  <2>1. p.sess # 0 /\ p.phase[p.sess] = "live" BY <1>0, <1>1 DEF Shape, StateShape, Live, Blocked
  <2>2. Pause(p, c) = [p EXCEPT !.call = [kind |-> "pause", waiter |-> c]] BY <1>1 DEF Pause
  <2>3. LET q == [p EXCEPT !.call = [kind |-> "pause", waiter |-> c]] IN
          Leads(p, q) /\ (Asking(q) => Asking(p) \/ "pause" = "resume")
    BY <1>1, <2>1, CallMade
  <2> QED BY <2>2, <2>3
<1>2. CASE p.state # "playing"
  <2>1. Pause(p, c) = Answer(p, {c}) BY <1>2 DEF Pause
  <2> QED BY <1>0, <2>1, SideSteps, SafeSide
<1> QED BY <1>1, <1>2

\* A seek asks for no playback that was not on already.
LEMMA SeekStep ==
  ASSUME NEW p, Safe(p), p.maint = "none", NEW c \in Controllers
  PROVE  Leads(p, Seek(p, c)) /\ (Asking(Seek(p, c)) => Asking(p))
<1> DEFINE q == [p EXCEPT !.seek = p.selected]
<1>0. p \in Owner /\ Shape(p) /\ ~p.missed BY DEF Safe, Waits
<1>1. Side(p, q)
  <2>1. p.selected \in Entries \cup {0} BY <1>0 DEF Owner
  <2> QED BY <1>0, <2>1, SideUpdates
<1>2. Leads(p, Answer(p, {c})) /\ (Asking(Answer(p, {c})) <=> Asking(p))
  BY <1>0, SideSteps, SafeSide
<1>3. TRUE \in BOOLEAN /\ FALSE \in BOOLEAN OBVIOUS
<1> HIDE DEF q
<1>4. q \in Owner /\ Safe(q) /\ Kept(p, q) BY <1>1, SafeSide DEF Side
<1>5. CASE p.state = "playing" /\ CannotOpen(p)
  <2>1. Seek(p, c) = Answer(p, {c}) BY <1>5 DEF Seek
  <2> QED BY <1>2, <2>1
<1>6. CASE p.state = "playing" /\ ~CannotOpen(p)
  <2> DEFINE s == Carry(q)
  <2>1. /\ s \in Owner /\ Kept(q, s)
        /\ \A d \in Undecided(s) :
              /\ d \in Undecided(q)
              /\ s.waiter[d].sess = IF q.waiter[d].sess = q.sess THEN 0 ELSE q.waiter[d].sess
    BY <1>4, CarryStep
  <2>2. \A d \in Undecided(s) : s.waiter[d].sess = 0 BY <1>4, <2>1 DEF Safe, Waits
  <2>3. Shape(s)
    BY <1>4, <2>1 DEF Safe, Shape, HolderShape, Holder, StateShape, HoldShape, CallShape, Live,
                      Kept, Same, SameSessions
  <2>4. Live(s) /\ ~s.missed /\ s.sessions = p.sessions
    BY <1>0, <1>4, <1>6, <2>1 DEF Shape, StateShape, Live, Kept, Same, SameSessions
  <2>5. Seek(p, c) = Wait(ReleaseSession(s, "play"), c, TRUE, TRUE) BY <1>6 DEF Seek, q
  <2> HIDE DEF s
  <2>6. LET t == Wait(ReleaseSession(s, "play"), c, TRUE, TRUE) IN Safe(t) /\ t.sessions = s.sessions
    BY <1>3, <2>1, <2>2, <2>3, <2>4, ReleaseToPlay
  <2>7. Asking(p) BY <1>6 DEF Asking
  <2> QED BY <2>4, <2>5, <2>6, <2>7 DEF Leads
<1>7. CASE p.state = "paused" /\ Live(p)
  <2> DEFINE s == ReleaseSession(q, "pause")
  <2>1. Live(q) /\ q.sessions = p.sessions BY <1>4, <1>7 DEF Live, Kept, Same, SameSessions
  <2>2. Safe(s) /\ ~Asking(s) /\ s.sessions = q.sessions
    BY <1>4, <2>1, SafeRelease DEF Safe, Waits, Intents
  <2>3. Seek(p, c) = Wait(s, c, FALSE, FALSE) BY <1>7 DEF Seek, q
  <2> HIDE DEF s
  <2>4. LET t == Wait(s, c, FALSE, FALSE) IN
          Safe(t) /\ (Asking(t) <=> Asking(s)) /\ t.sessions = s.sessions
    BY <2>2, WaitsForTheEnd
  <2> QED BY <2>1, <2>2, <2>3, <2>4 DEF Leads
<1>8. CASE p.state = "releasing" \/ (p.state = "paused" /\ ~Live(p))
  <2>1. \/ p.then = "play" /\ Seek(p, c) = Wait(p, c, TRUE, TRUE)
        \/ Seek(p, c) = Wait(p, c, FALSE, FALSE)
        \/ Seek(p, c) = Answer(p, {c})
    BY <1>8 DEF Seek
  <2>2. CASE p.then = "play" /\ Seek(p, c) = Wait(p, c, TRUE, TRUE)
    <3>1. LET t == Wait(p, c, TRUE, TRUE) IN
            Safe(t) /\ (Asking(t) <=> Asking(p)) /\ t.sessions = p.sessions
      BY <1>3, <2>2, WaitsToPlay
    <3> QED BY <2>2, <3>1 DEF Leads
  <2>3. CASE Seek(p, c) = Wait(p, c, FALSE, FALSE)
    <3>1. LET t == Wait(p, c, FALSE, FALSE) IN
            Safe(t) /\ (Asking(t) <=> Asking(p)) /\ t.sessions = p.sessions
      BY WaitsForTheEnd
    <3> QED BY <2>3, <3>1 DEF Leads
  <2>4. CASE Seek(p, c) = Answer(p, {c}) BY <1>2, <2>4
  <2> QED BY <2>1, <2>2, <2>3, <2>4
<1>9. CASE p.state \notin {"playing", "releasing", "paused"}
  <2>1. Seek(p, c) = Answer(p, {c}) BY <1>9 DEF Seek
  <2> QED BY <1>2, <2>1
<1> QED BY <1>5, <1>6, <1>7, <1>8, <1>9

\* Everybody who waits is answered, and nobody else.
LEMMA AnswerWaiting ==
  ASSUME NEW p \in Owner, NEW C, {d \in Controllers : p.waiter[d] # None} \subseteq C
  PROVE  \A d \in Controllers : Answer(p, C).waiter[d] = None
BY AnswerStep

\* A hold ends playback, and is confirmed at once only when nobody holds the device.
LEMMA EnterMaintenanceStep ==
  ASSUME NEW p, Safe(p), p.maint = "none", NEW c \in Controllers
  PROVE  LET q == EnterMaintenance(p, c) IN Safe(q) /\ ~Asking(q) /\ q.sessions = p.sessions
<1> DEFINE C == {d \in Controllers : p.waiter[d] # None} \cup {p.parked[i] : i \in DOMAIN p.parked}
           a == Answer(p, C)
           q == [a EXCEPT !.parked = <<>>, !.maint = "entering", !.then = "stop",
                          !.state = "maintenance"]
           r == IF Live(q) THEN ReleaseSession(q, "stop") ELSE q
<1>0. p \in Owner /\ Shape(p) /\ ~p.missed BY DEF Safe, Waits
<1>1. EnterMaintenance(p, c) = IF r.sess # 0 THEN r ELSE HoldSettles(r, r.unconfirmed = 0)
  BY DEF EnterMaintenance
<1>2. a \in Owner /\ Kept(p, a) BY <1>0, AnswerStep
<1>3. \A d \in Controllers : a.waiter[d] = None
  <2> HIDE DEF a
  <2>1. {d \in Controllers : p.waiter[d] # None} \subseteq C OBVIOUS
  <2> HIDE DEF C
  <2> QED BY <1>0, <2>1, AnswerWaiting DEF a
<1> HIDE DEF a
<1>4. q \in Owner
  <2>1. <<>> \in Seq(Controllers) /\ "stop" \in Intents /\ "maintenance" \in States
    BY DEF Intents, States
  <2> QED BY <1>2, <2>1, OwnerUpdate
<1>5. /\ q.sessions = p.sessions /\ q.sess = p.sess /\ q.phase = p.phase /\ q.call = p.call
      /\ q.unconfirmed = p.unconfirmed /\ q.missed = p.missed /\ q.maint = "entering"
      /\ q.state = "maintenance" /\ q.then = "stop" /\ q.waiter = a.waiter
  BY <1>2 DEF Owner, Kept, Same, SameSessions
<1>6. Undecided(q) = {} BY <1>3, <1>5 DEF Undecided
<1> HIDE DEF q
<1>7. /\ r \in Owner /\ HolderShape(r) /\ Undecided(r) = {} /\ ~r.missed /\ r.call = None
      /\ r.state = "maintenance" /\ r.maint = "entering" /\ r.then = "stop"
      /\ r.sessions = p.sessions
      /\ r.sess # 0 => r.phase[r.sess] = "releasing"
  <2>1. CASE Live(q)
    <3>1. /\ r \in Owner /\ r.sessions = q.sessions /\ r.sess = q.sess
          /\ r.unconfirmed = q.unconfirmed /\ r.maint = q.maint /\ r.missed = q.missed
          /\ r.phase = [q.phase EXCEPT ![q.sess] = "releasing"] /\ r.call = None
          /\ r.then = "stop" /\ r.state = q.state /\ Undecided(r) = {}
      BY <1>4, <1>5, <2>1, ReleaseStep DEF Intents
    <3> HIDE DEF r
    <3>2. q.phase \in [Sessions -> Phases] /\ q.sess \in Sessions
      BY <1>4, <2>1, BoundsAssumption DEF Owner, Live, Sessions
    <3>3. r.phase[r.sess] = "releasing" /\ \A s \in Sessions : s # r.sess => r.phase[s] = p.phase[s]
      BY <1>5, <3>1, <3>2
    <3>4. HolderShape(q) BY <1>0, <1>5 DEF Shape, HolderShape, Holder
    <3>5. \A s \in Sessions : s > r.sessions => r.phase[s] = "none"
      BY <1>4, <1>5, <2>1, <3>1, <3>2, <3>3, <3>4 DEF HolderShape, Live, Sessions, Owner
    <3>6. HolderShape(r)
      BY <1>5, <2>1, <3>1, <3>2, <3>3, <3>4, <3>5 DEF HolderShape, Holder, Live
    <3> QED BY <1>0, <1>5, <3>1, <3>3, <3>6
  <2>2. CASE ~Live(q)
    <3>1. HolderShape(q) BY <1>0, <1>5 DEF Shape, HolderShape, Holder
    <3>2. q.call = None BY <1>0, <1>5, <2>2 DEF Shape, CallShape, Live
    <3>3. q.sess # 0 => q.phase[q.sess] = "releasing"
      BY <1>0, <1>5, <2>2 DEF Shape, HolderShape, Live
    <3> QED BY <1>0, <1>4, <1>5, <1>6, <2>2, <3>1, <3>2, <3>3
  <2> QED BY <2>1, <2>2
<1> HIDE DEF r
<1>8. CASE r.sess # 0
  <2>1. Shape(r) BY <1>7, <1>8 DEF Shape, StateShape, HoldShape, CallShape
  <2>2. Waits(r) BY <1>7 DEF Waits
  <2>3. ~Asking(r) BY <1>7 DEF Asking
  <2>4. Chosen(r) BY <1>7, <1>8 DEF Chosen, Live
  <2> QED BY <1>1, <1>7, <1>8, <2>1, <2>2, <2>3, <2>4 DEF Safe
<1>9. CASE r.sess = 0
  <2> DEFINE t == HoldSettles(r, r.unconfirmed = 0)
  <2>1. (r.unconfirmed = 0) \in BOOLEAN OBVIOUS
  <2>2. /\ t \in Owner
        /\ t.sessions = r.sessions /\ t.sess = r.sess /\ t.unconfirmed = r.unconfirmed
        /\ t.missed = r.missed /\ t.phase = r.phase /\ t.call = r.call
        /\ t.then = r.then /\ t.state = r.state /\ Fewer(r, t)
        /\ t.maint = IF r.unconfirmed = 0 THEN "confirmed" ELSE "unconfirmed"
    BY <1>7, <2>1, HoldSettlesStep
  <2> HIDE DEF t
  <2>3. HolderShape(t) BY <1>7, <2>2 DEF HolderShape, Holder
  <2>4. Shape(t) BY <1>7, <1>9, <2>2, <2>3 DEF Shape, StateShape, HoldShape, CallShape
  <2>5. Waits(t) BY <1>7, <2>2 DEF Waits, Fewer
  <2>6. ~Asking(t) BY <1>7, <2>2 DEF Asking
  <2>7. Chosen(t) BY <1>9, <2>2 DEF Chosen, Live
  <2> QED BY <1>1, <1>7, <1>9, <2>2, <2>4, <2>5, <2>6, <2>7 DEF Safe, t
<1> QED BY <1>8, <1>9

\* What a command of op asked in p may end or ask for.
Wants(p, op) ==
  IF p.maint # "none" THEN Asking(p)
  ELSE IF op \in {<<"stop">>, <<"enter">>} \/ (op = <<"next">> /\ PastEnd(p)) THEN FALSE
  ELSE Asking(p) \/ (op \notin {<<"pause">>, <<"seek">>} /\ ~CannotOpen(p))

\* Next past the end stops.
LEMMA PlayNextStep ==
  ASSUME NEW p, Safe(p), p.maint = "none", NEW c \in Controllers,
         PlayNext(p, c).sessions <= MaxSessions
  PROVE  /\ Leads(p, PlayNext(p, c))
         /\ Asking(PlayNext(p, c)) => ~PastEnd(p) /\ (Asking(p) \/ ~CannotOpen(p))
<1> DEFINE e == After(p, p.selected)
<1>0. p \in Owner /\ p.selected \in Entries \cup {0} BY DEF Safe, Owner
<1>1. e \in Entries \cup {0} BY <1>0, QueueLookups
<1>2. CASE PastEnd(p)
  <2>1. PlayNext(p, c) = StopPlaying(p, c) BY <1>2 DEF PlayNext
  <2>2. LET q == StopPlaying(p, c) IN Safe(q) /\ ~Asking(q) /\ q.sessions = p.sessions
    BY StopPlayingStep
  <2> QED BY <2>1, <2>2 DEF Leads
<1>3. CASE ~PastEnd(p) /\ (e = 0 \/ CannotOpen(p))
  <2>1. PlayNext(p, c) = Answer(p, {c}) BY <1>3 DEF PlayNext
  <2> QED BY <1>0, <1>3, <2>1, SideSteps, SafeSide
<1>4. CASE ~PastEnd(p) /\ e # 0 /\ ~CannotOpen(p)
  <2>1. PlayNext(p, c) = PlayEntry(p, c, e) BY <1>4 DEF PlayNext
  <2>2. e \in Entries BY <1>1, <1>4
  <2> HIDE DEF e
  <2> QED BY <1>4, <2>1, <2>2, PlayEntryStep
<1> QED BY <1>2, <1>3, <1>4

\* PlayID of an entry that is not queued is refused.
LEMMA PlayIDStep ==
  ASSUME NEW p, Safe(p), p.maint = "none", NEW c \in Controllers, NEW e,
         PlayID(p, c, e).sessions <= MaxSessions
  PROVE  /\ Leads(p, PlayID(p, c, e))
         /\ Asking(PlayID(p, c, e)) => Asking(p) \/ ~CannotOpen(p)
<1>0. p \in Owner BY DEF Safe
<1>1. CASE e \notin p.queue \/ CannotOpen(p)
  <2>1. PlayID(p, c, e) = Answer(p, {c}) BY <1>1 DEF PlayID
  <2> QED BY <1>0, <2>1, SideSteps, SafeSide
<1>2. CASE e \in p.queue /\ ~CannotOpen(p)
  <2>1. PlayID(p, c, e) = PlayEntry(p, c, e) BY <1>2 DEF PlayID
  <2>2. e \in Entries BY <1>0, <1>2 DEF Owner
  <2> QED BY <1>2, <2>1, <2>2, PlayEntryStep
<1> QED BY <1>1, <1>2

\* dispatch keeps the invariant, and asks for playback only as its command does.
LEMMA DispatchStep ==
  ASSUME NEW p, Safe(p), NEW c \in Controllers,
         p.maint = "none" => ~Blocked(p, p.cmd[c]),
         Dispatch(p, c).sessions <= MaxSessions
  PROVE  Leads(p, Dispatch(p, c)) /\ (Asking(Dispatch(p, c)) => Wants(p, p.cmd[c]))
<1> DEFINE op == p.cmd[c]
           q == Dispatch(p, c)
<1>0. p \in Owner BY DEF Safe
<1>1. CASE p.maint # "none"
  <2>1. q = Answer(p, {c}) BY <1>1 DEF Dispatch
  <2> QED BY <1>0, <1>1, <2>1, SideSteps, SafeSide DEF Wants
<1>2. CASE p.maint = "none" /\ op = <<"enter">>
  <2>1. q = EnterMaintenance(p, c) BY <1>2 DEF Dispatch
  <2>2. LET r == EnterMaintenance(p, c) IN Safe(r) /\ ~Asking(r) /\ r.sessions = p.sessions
    BY <1>2, EnterMaintenanceStep
  <2> QED BY <2>1, <2>2 DEF Leads
<1>3. CASE p.maint = "none" /\ op = <<"stop">>
  <2> DEFINE s == SupersedeParked(p)
  <2>1. q = StopPlaying(s, c) BY <1>3 DEF Dispatch
  <2>2. Safe(s) /\ s.maint = "none" /\ s.sessions = p.sessions
    BY <1>0, <1>3, SideSteps, SafeSide DEF Side, Kept, Same, SameSessions
  <2> HIDE DEF s
  <2>3. LET r == StopPlaying(s, c) IN Safe(r) /\ ~Asking(r) /\ r.sessions = s.sessions
    BY <2>2, StopPlayingStep
  <2> QED BY <2>1, <2>2, <2>3 DEF Leads
<1>4. CASE p.maint = "none" /\ op = <<"play">>
  <2>1. q = Play(p, c) BY <1>4 DEF Dispatch
  <2> QED BY <1>4, <2>1, PlayStep DEF Wants
<1>5. CASE p.maint = "none" /\ op = <<"pause">>
  <2>1. q = Pause(p, c) BY <1>5 DEF Dispatch
  <2> QED BY <1>5, <2>1, PauseStep DEF Wants
<1>6. CASE p.maint = "none" /\ op = <<"next">>
  <2>1. q = PlayNext(p, c) BY <1>6 DEF Dispatch
  <2> QED BY <1>6, <2>1, PlayNextStep DEF Wants
<1>7. CASE p.maint = "none" /\ op = <<"seek">>
  <2>1. q = Seek(p, c) BY <1>7 DEF Dispatch
  <2> QED BY <1>7, <2>1, SeekStep DEF Wants
<1>8. CASE p.maint = "none" /\ op \notin {<<"enter">>, <<"stop">>, <<"play">>, <<"pause">>,
                                          <<"next">>, <<"seek">>}
  <2>1. q = PlayID(p, c, op[2]) BY <1>8 DEF Dispatch
  <2> HIDE DEF op
  <2>2. Leads(p, PlayID(p, c, op[2]))
        /\ (Asking(PlayID(p, c, op[2])) => Asking(p) \/ ~CannotOpen(p))
    BY <1>8, <2>1, PlayIDStep
  <2>3. Wants(p, op) <=> Asking(p) \/ ~CannotOpen(p) BY <1>8 DEF Wants
  <2> QED BY <2>1, <2>2, <2>3 DEF op
<1> QED BY <1>1, <1>2, <1>3, <1>4, <1>5, <1>6, <1>7, <1>8

\* What advance leaves of p: nobody waits for what neither starts nor releases, and
\* nobody who has no outcome is answered with the reason of last resort.
LEMMA SettleStep ==
  ASSUME NEW p, Safe(p)
  PROVE  LET q == SettleWaiters(p) IN
         /\ Safe(q) /\ Kept(p, q) /\ (Asking(q) <=> Asking(p))
         /\ ~Busy(q) => \A c \in Controllers : q.waiter[c] = None
<1>0. p \in Owner BY DEF Safe
<1>1. CASE Busy(p)
  <2>1. SettleWaiters(p) = p BY <1>1 DEF SettleWaiters
  <2> QED BY <1>1, <2>1 DEF Kept, Same, SameSessions
<1>2. CASE ~Busy(p)
  <2> DEFINE all == {c \in Controllers : p.waiter[c] # None}
             a == Answer(p, all)
             kept == {c \in Undecided(p) : p.state # "playing" \/ p.sess # p.waiter[c].sess}
             q == [a EXCEPT !.missed = a.missed \/ kept # {}]
  <2>1. SettleWaiters(p) = q BY <1>2 DEF SettleWaiters
  <2>2. kept = {}
    <3>1. ASSUME NEW c \in Undecided(p) PROVE p.state = "playing" /\ p.sess = p.waiter[c].sess
      BY <1>2 DEF Safe, Waits, Shape, StateShape, Busy
    <3> QED BY <3>1
  <2>3. Side(p, a) /\ Safe(a) /\ (Asking(a) <=> Asking(p)) BY <1>0, SideSteps, SafeSide
  <2>4. \A c \in Controllers : a.waiter[c] = None BY <1>0, AnswerWaiting
  <2>5. a.missed = FALSE /\ a \in Owner BY <2>3 DEF Safe, Waits, Owner
  <2> HIDE DEF a, kept
  <2>6. q = [a EXCEPT !.missed = FALSE] BY <2>2, <2>5
  <2>7. q = a BY <2>5, <2>6 DEF Owner
  <2> QED BY <2>1, <2>3, <2>4, <2>7 DEF Side
<1> QED BY <1>1, <1>2

\* advance keeps the invariant, and then nobody waits for nothing.
LEMMA AdvanceStep ==
  ASSUME NEW p, Safe(p)
  PROVE  LET q == Advance(p) IN
         Safe(q) /\ Kept(p, q) /\ (Asking(q) <=> Asking(p)) /\ Resting(q)
<1> DEFINE r == IF SeekPending(p) THEN p ELSE [p EXCEPT !.seek = 0]
           q == SettleWaiters(r)
<1>0. p \in Owner BY DEF Safe
<1>1. CASE Runnable(p)
  <2>1. Advance(p) = p BY <1>1 DEF Advance
  <2> QED BY <1>1, <2>1 DEF Kept, Same, SameSessions, Resting
<1>2. CASE ~Runnable(p)
  <2>1. Advance(p) = q BY <1>2 DEF Advance
  <2>2. Side(p, r) BY <1>0, SideUpdates, SideRefl
  <2>3. Safe(r) /\ (Asking(r) <=> Asking(p)) /\ Kept(p, r) BY <2>2, SafeSide DEF Side
  <2> HIDE DEF r
  <2>4. /\ Safe(q) /\ Kept(r, q) /\ (Asking(q) <=> Asking(r))
        /\ ~Busy(q) => \A c \in Controllers : q.waiter[c] = None
    BY <2>3, SettleStep
  <2> HIDE DEF q
  <2>5. Kept(p, q) BY <2>3, <2>4 DEF Kept, Same, SameSessions
  <2> QED BY <2>1, <2>3, <2>4, <2>5 DEF Resting
<1> QED BY <1>1, <1>2

-----------------------------------------------------------------------------
(***************************************************************************)
(* The steps of the backend, its deadlines, the output and the edits       *)
(***************************************************************************)
\* What the action's proofs use of the invariant.
LEMMA InvFacts ==
  ASSUME TransportInv
  PROVE  Safe(o) /\ o \in Owner /\ Shape(o) /\ ~o.missed /\ (Asking(o) => wanted) /\ Side(o, o)
BY SideRefl DEF TransportInv, TypeOK, Safe, Waits

\* A step is good when what the handler made of the owner's state is, before advance.
LEMMA StepOutcome ==
  ASSUME NEW q, Step(q), q.sessions <= MaxSessions => Leads(o, q) /\ (Asking(q) => wanted')
  PROVE  Outcome
<1>1. q.sessions <= MaxSessions /\ o' = Advance(q) BY DEF Step
<1>2. Leads(o, q) /\ (Asking(q) => wanted') BY <1>1
<1>3. Safe(o') /\ Kept(q, o') /\ (Asking(o') <=> Asking(q)) /\ Resting(o')
  BY <1>1, <1>2, AdvanceStep DEF Leads
<1>4. o'.sessions # o.sessions => q.state = "playing" /\ q.output = "available"
  BY <1>2, <1>3 DEF Leads, Kept, Same, SameSessions
<1>5. q.state = "playing" => wanted' BY <1>2 DEF Asking
<1>6. o'.sessions > o.sessions => o'.sessions # o.sessions
  <2>1. CASE o'.sessions = o.sessions
    <3>1. o'.sessions \in Int BY <1>3, BoundsAssumption DEF Safe, Owner
    <3> QED BY <2>1, <3>1
  <2> QED BY <2>1
<1> QED BY <1>2, <1>3, <1>4, <1>5, <1>6 DEF Outcome, Kept

\* The session ends for good.
LEMMA ReleaseEnds ==
  ASSUME NEW p \in Owner, Shape(p), ~p.missed, Live(p)
  PROVE  Leads(p, ReleaseSession(p, "stop")) /\ ~Asking(ReleaseSession(p, "stop"))
BY SafeRelease DEF Leads, Intents

\* A session that ends for good, whatever was decided before.
LEMMA EndsOutcome ==
  ASSUME TransportInv, NEW q, Side(o, q), Live(o), Ends(q)
  PROVE  Outcome
<1>1. Safe(q) /\ Live(q) /\ q.sessions = o.sessions
  BY InvFacts, SafeSide DEF Live, Side, Kept, Same, SameSessions
<1>2. Leads(q, ReleaseSession(q, "stop")) /\ ~Asking(ReleaseSession(q, "stop"))
  BY <1>1, ReleaseEnds DEF Safe, Waits
<1>3. Leads(o, ReleaseSession(q, "stop"))
  <2>1. LET r == ReleaseSession(q, "stop") IN r.sessions = q.sessions
    BY <1>1, ReleaseStep DEF Intents, Safe
  <2> QED BY <1>1, <1>2, <2>1 DEF Leads
<1> QED BY <1>2, <1>3, StepOutcome DEF Ends

\* A step that changes nothing the invariant speaks of.
LEMMA SideOutcome ==
  ASSUME TransportInv, NEW q, Side(o, q), Step(q), wanted' = wanted
  PROVE  Outcome
<1>1. Leads(o, q) /\ (Asking(q) => wanted') BY InvFacts, SafeSide
<1> QED BY <1>1, StepOutcome

\* startDone: the session plays.
LEMMA StartSucceedsOutcome ==
  ASSUME TransportInv, StartSucceeds
  PROVE  Outcome
<1> DEFINE ph == [o.phase EXCEPT ![o.sess] = "live"]
           q == [o EXCEPT !.phase = ph, !.pass = {}]
<1>0. o \in Owner /\ Shape(o) /\ o.sess # 0 /\ o.phase[o.sess] = "starting"
  BY InvFacts DEF StartSucceeds, Starting
<1>1. o.sess \in Sessions /\ o.phase \in [Sessions -> Phases]
  BY <1>0, BoundsAssumption DEF Owner, Sessions
<1>2. ph \in [Sessions -> Phases] /\ ph[o.sess] = "live"
      /\ \A s \in Sessions : s # o.sess => ph[s] = o.phase[s]
  BY <1>1 DEF Phases
<1>3. Step(q) /\ wanted' = wanted BY DEF StartSucceeds
<1> HIDE DEF ph
<1>4. q \in Owner BY <1>0, <1>2, OwnerUpdate
<1>5. /\ q.sessions = o.sessions /\ q.sess = o.sess /\ q.phase = ph
      /\ q.unconfirmed = o.unconfirmed /\ q.maint = o.maint /\ q.missed = o.missed
      /\ q.state = o.state /\ q.then = o.then /\ q.waiter = o.waiter
      /\ q.call = o.call /\ q.selected = o.selected
  BY <1>0 DEF Owner
<1> HIDE DEF q
<1>6. HolderShape(q)
  <2>1. \A s \in Sessions : s > q.sessions => q.phase[s] = "none"
    BY <1>0, <1>1, <1>2, <1>5 DEF Shape, HolderShape, Sessions, Owner
  <2> QED BY <1>0, <1>1, <1>2, <1>5, <2>1 DEF Shape, HolderShape, Holder
<1>7. StateShape(q) /\ HoldShape(q) /\ CallShape(q)
  BY <1>0, <1>1, <1>2, <1>5 DEF Shape, StateShape, HoldShape, CallShape, Live
<1>8. Chosen(q)
  BY <1>0, <1>5, InvFacts DEF Safe, Chosen, Live
<1>9. Waits(q) BY <1>5, InvFacts DEF Safe, Waits, Undecided
<1>10. Leads(o, q) BY <1>4, <1>5, <1>6, <1>7, <1>8, <1>9 DEF Leads, Safe, Shape
<1>11. Asking(q) => wanted' BY <1>3, <1>5, InvFacts DEF Asking
<1> QED BY <1>3, <1>10, <1>11, StepOutcome

\* skipAtStart: what follows plays in a session of its own, or nothing does.
LEMMA StartRefusedOutcome ==
  ASSUME TransportInv, StartRefused
  PROVE  Outcome
<1> DEFINE q == [o EXCEPT !.pass = o.pass \cup {o.selected}]
           next == Following(q, o.selected)
<1>0. o \in Owner /\ Safe(o) /\ o.sess # 0 /\ o.phase[o.sess] = "starting" /\ Live(o)
  BY InvFacts DEF StartRefused, Starting, Live
<1>1. o.selected \in Entries BY <1>0 DEF Safe, Chosen, Owner
<1>2. Side(o, q)
  <2>1. o.pass \cup {o.selected} \in SUBSET Entries BY <1>0, <1>1 DEF Owner
  <2> QED BY <1>0, <2>1, SideUpdates
<1>3. next \in Entries \cup {0} BY <1>1, <1>2, QueueLookups DEF Side
<1>4. \/ Ends(PlayFailed(q))
      \/ /\ next # 0 /\ wanted' = wanted
         /\ Step(ReleaseSession([Carry(q) EXCEPT !.selected = next], "play"))
  BY DEF StartRefused
<1> HIDE DEF q, next
<1>5. CASE Ends(PlayFailed(q))
  <2>1. Side(o, PlayFailed(q)) BY <1>2, SideSteps, SideTrans DEF Side
  <2> QED BY <1>0, <1>5, <2>1, EndsOutcome
<1>6. CASE /\ next # 0 /\ wanted' = wanted
           /\ Step(ReleaseSession([Carry(q) EXCEPT !.selected = next], "play"))
  <2> DEFINE s == Carry(q)
             t == [s EXCEPT !.selected = next]
             r == ReleaseSession(t, "play")
  <2>0. q \in Owner /\ Safe(q) /\ Kept(o, q) BY <1>0, <1>2, SafeSide DEF Side
  <2>1. /\ s \in Owner /\ Kept(q, s)
        /\ \A d \in Undecided(s) :
              /\ d \in Undecided(q)
              /\ s.waiter[d].sess = IF q.waiter[d].sess = q.sess THEN 0 ELSE q.waiter[d].sess
    BY <2>0, CarryStep
  <2> HIDE DEF s
  <2>2. \A d \in Undecided(s) : s.waiter[d].sess = 0 BY <2>0, <2>1 DEF Safe, Waits
  <2>3. Side(s, t) BY <1>3, <1>6, <2>1, SideUpdates
  <2> HIDE DEF t
  <2>4. t \in Owner /\ \A d \in Undecided(t) : t.waiter[d].sess = 0
    BY <2>2, <2>3 DEF Side, Fewer
  <2>5. Same(o, t) BY <2>0, <2>1, <2>3 DEF Side, Kept, Same, SameSessions
  <2>6. Shape(t)
    BY <1>0, <2>5 DEF Safe, Shape, HolderShape, Holder, StateShape, HoldShape, CallShape, Live,
                      Same, SameSessions
  <2>7. Live(t) /\ ~t.missed /\ t.sessions = o.sessions
    BY <1>0, <2>5 DEF Live, Safe, Waits, Same, SameSessions
  <2>8. Safe(r) /\ r.sessions = t.sessions
    BY <2>4, <2>6, <2>7, SafeRelease DEF Intents
  <2>9. wanted' BY <1>0, <1>6, InvFacts DEF Asking, Safe, Shape, StateShape, HoldShape, Owner, States
  <2>10. Leads(o, r) BY <2>7, <2>8 DEF Leads
  <2>11. Step(r) BY <1>6 DEF s, t
  <2> HIDE DEF r
  <2> QED BY <2>9, <2>10, <2>11, StepOutcome
<1> QED BY <1>4, <1>5, <1>6

\* A call under way is of a session that has started; a Resume was asked for.
LEMMA CallFacts ==
  ASSUME TransportInv, o.call # None
  PROVE  /\ Live(o) /\ o.sess # 0 /\ o.phase[o.sess] = "live" /\ o.then # "play"
         /\ o.call.kind = "pause" => o.state = "playing"
         /\ o.call.kind = "resume" => o.state = "paused" /\ wanted
         /\ o.call.kind \in {"pause", "resume"} /\ o.call.waiter \in Controllers
<1>1. o \in Owner /\ Shape(o) /\ (Asking(o) => wanted) BY InvFacts
<1>2. o.sess # 0 /\ o.phase[o.sess] = "live" BY <1>1 DEF Shape, CallShape
<1>3. o.then # "play" BY <1>1, <1>2 DEF Shape, StateShape
<1>4. o.call \in [kind : {"pause", "resume"}, waiter : Controllers] BY <1>1 DEF Owner
<1>5. o.call.kind = "resume" => Asking(o) BY DEF Asking
<1> QED BY <1>1, <1>2, <1>3, <1>4, <1>5 DEF Live, Shape, CallShape

\* What a call's answer leaves.
LEMMA CallOver ==
  ASSUME TransportInv, NEW p, Side(o, p)
  PROVE  LET q == [p EXCEPT !.call = None] IN
         /\ Leads(o, q) /\ (Asking(q) => Asking(o))
         /\ q \in Owner /\ q.call = None /\ q.waiter = p.waiter /\ q.state = p.state
         /\ q.sessions = p.sessions /\ q.sess = p.sess /\ q.phase = p.phase
         /\ q.unconfirmed = p.unconfirmed /\ q.maint = p.maint /\ q.missed = p.missed
         /\ q.then = p.then /\ q.selected = p.selected
<1> DEFINE q == [p EXCEPT !.call = None]
<1>1. p \in Owner /\ Safe(p) /\ Kept(o, p) /\ (Asking(p) <=> Asking(o))
  BY InvFacts, SafeSide DEF Side
<1>2. q \in Owner
  <2>1. None \in {None} \cup [kind : {"pause", "resume"}, waiter : Controllers] OBVIOUS
  <2> QED BY <1>1, <2>1, OwnerUpdate
<1>3. /\ q.sessions = p.sessions /\ q.sess = p.sess /\ q.phase = p.phase
      /\ q.unconfirmed = p.unconfirmed /\ q.maint = p.maint /\ q.missed = p.missed
      /\ q.state = p.state /\ q.then = p.then /\ q.waiter = p.waiter
      /\ q.call = None /\ q.selected = p.selected
  BY <1>1 DEF Owner
<1> HIDE DEF q
<1>4. HolderShape(q) BY <1>1, <1>3 DEF Safe, Shape, HolderShape, Holder
<1>5. StateShape(q) /\ HoldShape(q) BY <1>1, <1>3 DEF Safe, Shape, StateShape, HoldShape, Live
<1>6. CallShape(q) /\ Chosen(q) BY <1>1, <1>3 DEF Safe, CallShape, Chosen, Live
<1>7. Waits(q) BY <1>1, <1>3 DEF Safe, Waits, Undecided
<1>8. Leads(o, q)
  BY <1>1, <1>2, <1>3, <1>4, <1>5, <1>6, <1>7 DEF Leads, Safe, Shape, Kept, Same, SameSessions
<1>9. Asking(q) => Asking(o) BY <1>1, <1>3 DEF Asking
<1> QED BY <1>2, <1>3, <1>8, <1>9 DEF q

\* pauseDone and resumeDone of a refusal.
LEMMA CallRefusedOutcome ==
  ASSUME TransportInv, CallRefused
  PROVE  Outcome
<1> DEFINE p == [o EXCEPT !.call = None]
           q == Answer(p, {o.call.waiter})
<1>1. Step(q) /\ wanted' = wanted BY DEF CallRefused
<1>2. Leads(o, p) /\ (Asking(p) => Asking(o)) /\ p \in Owner /\ p.sessions = o.sessions
  BY InvFacts, CallOver
<1> HIDE DEF p
<1>3. Side(p, q) BY <1>2, SideSteps
<1>4. Safe(q) /\ (Asking(q) <=> Asking(p)) BY <1>2, <1>3, SafeSide DEF Leads
<1>5. q.sessions = o.sessions BY <1>2, <1>3 DEF Side, Kept, Same, SameSessions
<1>6. Leads(o, q) BY <1>4, <1>5 DEF Leads
<1> HIDE DEF q
<1> QED BY <1>1, <1>2, <1>4, <1>6, InvFacts, StepOutcome

\* callExpired, of a Pause or a Resume.
LEMMA CallExpiresOutcome ==
  ASSUME TransportInv, CallExpires
  PROVE  Outcome
<1> DEFINE p == [o EXCEPT !.call = None]
           a == Answer(p, {o.call.waiter})
           f == PlayFailed(a)
           q == ReleaseSession(f, "stop")
<1>1. Step(q) /\ wanted' = FALSE /\ o.call # None BY DEF CallExpires, Ends
<1>2. Leads(o, p) /\ p \in Owner /\ p.sessions = o.sessions /\ p.sess = o.sess /\ p.phase = o.phase
  BY InvFacts, CallOver
<1> HIDE DEF p
<1>3. Side(p, a) BY <1>2, SideSteps
<1> HIDE DEF a
<1>4. Side(p, f) BY <1>3, SideSteps, SideTrans DEF Side
<1> HIDE DEF f
<1>5. Safe(f) /\ f.sessions = o.sessions /\ Live(f)
  BY <1>1, <1>2, <1>4, CallFacts, SafeSide DEF Leads, Live, Side, Kept, Same, SameSessions
<1>6. Safe(q) /\ ~Asking(q) /\ q.sessions = f.sessions
  BY <1>5, SafeRelease DEF Safe, Waits, Intents
<1>7. Leads(o, q) BY <1>5, <1>6 DEF Leads
<1> HIDE DEF q
<1> QED BY <1>1, <1>6, <1>7, StepOutcome

\* While a call is under way its session is live, and nobody waits for it.
LEMMA NobodyWaits ==
  ASSUME TransportInv, ~Runnable(o), o.sess = 0 \/ o.phase[o.sess] = "live"
  PROVE  Undecided(o) = {}
BY DEF TransportInv, Resting, Busy, Undecided

\* pauseDone: nobody waits for a session that has started.
LEMMA PauseSucceedsOutcome ==
  ASSUME TransportInv, PauseSucceeds
  PROVE  Outcome
<1> DEFINE a == Answer(o, {o.call.waiter})
           p == [a EXCEPT !.call = None]
           q == [a EXCEPT !.call = None, !.state = "paused", !.paused = TRUE, !.pauseArmed = TRUE]
<1>1. Step(q) /\ wanted' = FALSE /\ o.call # None /\ o.call.kind = "pause" BY DEF PauseSucceeds
<1>2. o \in Owner BY InvFacts
<1>3. Side(o, a) BY <1>2, SideSteps
<1>4. Live(o) /\ o.sess # 0 /\ o.phase[o.sess] = "live" /\ o.state = "playing" /\ o.then # "play"
  BY <1>1, CallFacts
<1>5. Undecided(a) = {}
  <2>1. ~Runnable(o) BY <1>1 DEF Step
  <2> QED BY <1>3, <1>4, <2>1, NobodyWaits DEF Side, Fewer
<1>6. a \in Owner /\ Safe(a) /\ Kept(o, a) BY <1>3, InvFacts, SafeSide DEF Side
<1> HIDE DEF a
<1>7. q \in Owner
  <2>1. None \in {None} \cup [kind : {"pause", "resume"}, waiter : Controllers] OBVIOUS
  <2>2. "paused" \in States /\ TRUE \in BOOLEAN BY DEF States
  <2> QED BY <1>6, <2>1, <2>2, OwnerUpdate
<1>8. /\ q.sessions = a.sessions /\ q.sess = a.sess /\ q.phase = a.phase
      /\ q.unconfirmed = a.unconfirmed /\ q.maint = a.maint /\ q.missed = a.missed
      /\ q.state = "paused" /\ q.then = a.then /\ q.waiter = a.waiter
      /\ q.call = None /\ q.selected = a.selected
  BY <1>6 DEF Owner
<1> HIDE DEF q
<1>9. a.sess # 0 /\ a.phase[a.sess] = "live" /\ a.state = "playing" /\ a.then # "play"
      /\ a.sessions = o.sessions
  BY <1>4, <1>6 DEF Kept, Same, SameSessions
<1>10. HolderShape(q) BY <1>6, <1>8 DEF Safe, Shape, HolderShape, Holder
<1>11. StateShape(q) /\ HoldShape(q) /\ CallShape(q)
  BY <1>6, <1>8, <1>9 DEF Safe, Shape, StateShape, HoldShape, CallShape, Live
<1>12. Chosen(q) /\ Waits(q) BY <1>5, <1>6, <1>8 DEF Safe, Chosen, Live, Waits, Undecided
<1>13. ~Asking(q) BY <1>8, <1>9 DEF Asking
<1>14. Leads(o, q) BY <1>7, <1>8, <1>9, <1>10, <1>11, <1>12 DEF Leads, Safe, Shape
<1> QED BY <1>1, <1>13, <1>14, StepOutcome

\* resumeDone: the Resume was asked for, and nothing ended it since.
LEMMA ResumeSucceedsOutcome ==
  ASSUME TransportInv, ResumeSucceeds
  PROVE  Outcome
<1> DEFINE a == Answer(o, {o.call.waiter})
           q == [a EXCEPT !.call = None, !.state = "playing",
                          !.paused = FALSE, !.devReleased = FALSE, !.pauseArmed = FALSE]
<1>1. Step(q) /\ wanted' = wanted /\ o.call # None /\ o.call.kind = "resume" BY DEF ResumeSucceeds
<1>2. o \in Owner BY InvFacts
<1>3. Side(o, a) BY <1>2, SideSteps
<1>4. Live(o) /\ o.sess # 0 /\ o.phase[o.sess] = "live" /\ o.state = "paused" /\ o.then # "play"
      /\ wanted
  BY <1>1, CallFacts
<1>5. Undecided(a) = {}
  <2>1. ~Runnable(o) BY <1>1 DEF Step
  <2> QED BY <1>3, <1>4, <2>1, NobodyWaits DEF Side, Fewer
<1>6. a \in Owner /\ Safe(a) /\ Kept(o, a) BY <1>3, InvFacts, SafeSide DEF Side
<1> HIDE DEF a
<1>7. q \in Owner
  <2>1. None \in {None} \cup [kind : {"pause", "resume"}, waiter : Controllers] OBVIOUS
  <2>2. "playing" \in States /\ FALSE \in BOOLEAN BY DEF States
  <2> QED BY <1>6, <2>1, <2>2, OwnerUpdate
<1>8. /\ q.sessions = a.sessions /\ q.sess = a.sess /\ q.phase = a.phase
      /\ q.unconfirmed = a.unconfirmed /\ q.maint = a.maint /\ q.missed = a.missed
      /\ q.state = "playing" /\ q.then = a.then /\ q.waiter = a.waiter
      /\ q.call = None /\ q.selected = a.selected
  BY <1>6 DEF Owner
<1> HIDE DEF q
<1>9. a.sess # 0 /\ a.phase[a.sess] = "live" /\ a.state = "paused" /\ a.then # "play"
      /\ a.sessions = o.sessions
  BY <1>4, <1>6 DEF Kept, Same, SameSessions
<1>10. HolderShape(q) BY <1>6, <1>8 DEF Safe, Shape, HolderShape, Holder
<1>11. StateShape(q) /\ HoldShape(q) /\ CallShape(q)
  BY <1>6, <1>8, <1>9 DEF Safe, Shape, StateShape, HoldShape, CallShape, Live
<1>12. Chosen(q) /\ Waits(q) BY <1>5, <1>6, <1>8 DEF Safe, Chosen, Live, Waits, Undecided
<1>13. Leads(o, q) BY <1>7, <1>8, <1>9, <1>10, <1>11, <1>12 DEF Leads, Safe, Shape
<1> QED BY <1>1, <1>4, <1>13, StepOutcome

\* onAudible: whoever waits for the session is told.
LEMMA AudibleOutcome ==
  ASSUME TransportInv, Audible
  PROVE  Outcome
<1>1. PICK e \in o.queue : Step(PlayBegan([o EXCEPT !.selected = e]))
  BY DEF Audible
<1>2. wanted' = wanted BY DEF Audible
<1>3. e \in Entries /\ o \in Owner BY InvFacts DEF Owner
<1> DEFINE p == [o EXCEPT !.selected = e]
<1>4. Side(o, p) BY <1>3, SideUpdates
<1>5. Step(PlayBegan(p)) BY <1>1
<1> HIDE DEF p
<1>6. Side(o, PlayBegan(p)) BY <1>4, SideSteps, SideTrans DEF Side
<1> QED BY <1>2, <1>5, <1>6, SideOutcome

\* onRefused: only the pass changes.
LEMMA SuccessorRefusedOutcome ==
  ASSUME TransportInv, SuccessorRefused
  PROVE  Outcome
<1>1. PICK e \in o.queue \ o.pass : Step([o EXCEPT !.pass = o.pass \cup {e}])
  BY DEF SuccessorRefused
<1>2. wanted' = wanted BY DEF SuccessorRefused
<1>3. o.pass \cup {e} \in SUBSET Entries /\ o \in Owner BY InvFacts DEF Owner
<1>4. Side(o, [o EXCEPT !.pass = o.pass \cup {e}]) BY <1>3, SideUpdates
<1> QED BY <1>1, <1>2, <1>4, SideOutcome

\* What ends the session: a fault, its last entry, or a start that failed.
LEMMA SessionEndsOutcome ==
  ASSUME TransportInv, RemovedAudible \/ FinishedAll \/ StartFails \/ Fault
  PROVE  Outcome
<1>1. Live(o) BY DEF RemovedAudible, FinishedAll, StartFails, Fault, Starting, Playing, Live
<1>2. Ends(o) \/ Ends(PlayFailed(o)) BY DEF RemovedAudible, FinishedAll, StartFails, Fault
<1>3. Side(o, o) /\ Side(o, PlayFailed(o)) BY InvFacts, SideSteps
<1> QED BY <1>1, <1>2, <1>3, EndsOutcome

\* onFinished: what follows plays in a session of its own.
LEMMA FinishedNoMoreOutcome ==
  ASSUME TransportInv, FinishedNoMore
  PROVE  Outcome
<1> DEFINE next == Following(o, o.selected)
           p == [o EXCEPT !.selected = next]
           q == ReleaseSession(p, "play")
<1>0. o \in Owner /\ Shape(o) /\ Safe(o) BY InvFacts
<1>1. Step(q) /\ wanted' = TRUE /\ next # 0 /\ o.sess # 0 /\ o.phase[o.sess] = "live"
  BY DEF FinishedNoMore, Playing
<1>2. next \in Entries
  <2>1. o.selected \in Entries \cup {0} BY <1>0 DEF Owner
  <2> QED BY <1>0, <1>1, <2>1, QueueLookups
<1> HIDE DEF next
<1>3. Undecided(o) = {}
  <2>1. ~Runnable(o) BY <1>1 DEF Step
  <2> QED BY <1>1, <2>1, NobodyWaits
<1>4. Side(o, p) BY <1>0, <1>2, SideUpdates
<1> HIDE DEF p
<1>5. Safe(p) /\ Undecided(p) = {} /\ Live(p) /\ p.sessions = o.sessions
  BY <1>0, <1>1, <1>3, <1>4, SafeSide DEF Side, Fewer, Live, Kept, Same, SameSessions
<1>6. Safe(q) /\ q.sessions = p.sessions
  BY <1>5, SafeRelease DEF Safe, Waits, Intents
<1>7. Leads(o, q) BY <1>5, <1>6 DEF Leads
<1> HIDE DEF q
<1> QED BY <1>1, <1>7, StepOutcome

\* Of a paused session, what is known of its release may change.
LEMMA PauseKnown ==
  ASSUME TransportInv, o.sess # 0, NEW n \in {0, o.sess}, NEW q \in Owner,
         q.sessions = o.sessions, q.sess = o.sess, q.phase = o.phase, q.call = o.call,
         q.maint = o.maint, q.missed = o.missed, q.state = o.state, q.then = o.then,
         q.waiter = o.waiter, q.selected = o.selected, q.unconfirmed = n,
         q.maint # "confirmed"
  PROVE  Leads(o, q) /\ (Asking(q) => wanted)
<1>1. HolderShape(q) BY InvFacts DEF Shape, HolderShape, Holder
<1>2. StateShape(q) /\ HoldShape(q) /\ CallShape(q)
  BY InvFacts DEF Shape, StateShape, HoldShape, CallShape, Live
<1>3. Chosen(q) /\ Waits(q) BY InvFacts DEF Safe, Chosen, Live, Waits, Undecided
<1>4. Asking(q) => wanted BY InvFacts DEF Asking
<1> QED BY <1>1, <1>2, <1>3, <1>4 DEF Leads, Safe, Shape

\* onDeviceReleased, in time or late.
LEMMA DeviceReleasedOutcome ==
  ASSUME TransportInv, DeviceReleased
  PROVE  Outcome
<1> DEFINE late == o.unconfirmedPaused /\ o.unconfirmed = o.sess
           n == IF late THEN 0 ELSE o.unconfirmed
           up == o.unconfirmedPaused /\ ~late
           q == [o EXCEPT !.devReleased = TRUE, !.pauseArmed = FALSE,
                          !.unconfirmed = n, !.unconfirmedPaused = up]
<1>0. o \in Owner /\ Shape(o) BY InvFacts
<1>1. Step(q) /\ wanted' = wanted /\ o.sess # 0 /\ Live(o)
  BY DEF DeviceReleased, Starting, Playing, Live
<1>2. n \in {0, o.sess} /\ n \in 0..MaxSessions
  BY <1>0, <1>1, BoundsAssumption DEF Shape, HolderShape, Owner
<1>3. up \in BOOLEAN BY <1>0 DEF Owner
<1> HIDE DEF n, up
<1>4. q \in Owner
  <2>1. TRUE \in BOOLEAN /\ FALSE \in BOOLEAN OBVIOUS
  <2> QED BY <1>0, <1>2, <1>3, <2>1, OwnerUpdate
<1>5. /\ q.sessions = o.sessions /\ q.sess = o.sess /\ q.phase = o.phase /\ q.call = o.call
      /\ q.maint = o.maint /\ q.missed = o.missed /\ q.state = o.state /\ q.then = o.then
      /\ q.waiter = o.waiter /\ q.selected = o.selected /\ q.unconfirmed = n
  BY <1>0 DEF Owner
<1>6. o.maint = "none" BY <1>0, <1>1, LiveIsInNoHold
<1> HIDE DEF q
<1>7. Leads(o, q) /\ (Asking(q) => wanted) BY <1>1, <1>2, <1>4, <1>5, <1>6, PauseKnown
<1> QED BY <1>1, <1>7, StepOutcome

\* pauseOverdue: the release of a paused session is unconfirmed.
LEMMA PauseOverdueOutcome ==
  ASSUME TransportInv, PauseOverdue
  PROVE  Outcome
<1> DEFINE q == [o EXCEPT !.unconfirmed = o.sess, !.unconfirmedPaused = TRUE, !.pauseArmed = FALSE]
<1>0. o \in Owner /\ Shape(o) BY InvFacts
<1>1. Step(q) /\ wanted' = wanted /\ o.sess # 0 /\ Live(o)
  BY DEF PauseOverdue, Playing, Live
<1>2. o.sess \in 0..MaxSessions BY <1>0 DEF Owner
<1>4. q \in Owner
  <2>1. TRUE \in BOOLEAN /\ FALSE \in BOOLEAN OBVIOUS
  <2> QED BY <1>0, <1>2, <2>1, OwnerUpdate
<1>5. /\ q.sessions = o.sessions /\ q.sess = o.sess /\ q.phase = o.phase /\ q.call = o.call
      /\ q.maint = o.maint /\ q.missed = o.missed /\ q.state = o.state /\ q.then = o.then
      /\ q.waiter = o.waiter /\ q.selected = o.selected /\ q.unconfirmed = o.sess
  BY <1>0 DEF Owner
<1>6. o.maint = "none" BY <1>0, <1>1, LiveIsInNoHold
<1> HIDE DEF q
<1>7. Leads(o, q) /\ (Asking(q) => wanted) BY <1>1, <1>4, <1>5, <1>6, PauseKnown
<1> QED BY <1>1, <1>7, StepOutcome

\* acked, whenever it comes: nobody holds the device any more.
LEMMA AckedFrees ==
  ASSUME TransportInv, NEW s \in Sessions, o.phase[s] \in {"releasing", "unconfirmed"}
  PROVE  \E r \in Owner :
           /\ Acked(o, s) = IF o.phase[s] = "releasing" THEN AfterRelease(r) ELSE r
           /\ r.sess = 0 /\ r.unconfirmed = 0 /\ r.call = None /\ ~r.missed
           /\ r.sessions = o.sessions /\ r.state = o.state /\ r.then = o.then
           /\ r.output = o.output /\ r.maint = (IF o.maint = "none" THEN "none" ELSE "confirmed")
           /\ HolderShape(r) /\ Fewer(o, r)
<1> DEFINE known == o.unconfirmed = s
           ph == [o.phase EXCEPT ![s] = "acked"]
           se == IF o.sess = s THEN 0 ELSE o.sess
           un == IF known THEN 0 ELSE o.unconfirmed
           up == IF known THEN FALSE ELSE o.unconfirmedPaused
           q == [o EXCEPT !.phase = ph, !.sess = se, !.unconfirmed = un, !.unconfirmedPaused = up]
           r == IF o.maint # "none" THEN HoldSettles(q, q.unconfirmed = 0) ELSE q
<1>0. o \in Owner /\ Shape(o) /\ ~o.missed BY InvFacts
<1>1. o.phase \in [Sessions -> Phases] /\ s # 0 /\ 0 \in 0..MaxSessions
  BY <1>0, BoundsAssumption DEF Owner, Sessions
<1>2. s = Holder(o) BY <1>0 DEF Shape, HolderShape
<1>3. se = 0 /\ un = 0 /\ o.call = None
  BY <1>0, <1>1, <1>2 DEF Shape, HolderShape, CallShape, Holder
<1>4. ph \in [Sessions -> Phases] /\ \A t \in Sessions : ph[t] = IF t = s THEN "acked" ELSE o.phase[t]
  BY <1>1 DEF Phases
<1>5. up \in BOOLEAN BY <1>0 DEF Owner
<1>6. Acked(o, s) = IF o.phase[s] = "releasing" THEN AfterRelease(r) ELSE r
  <2>1. q.unconfirmed = 0 BY <1>0, <1>3 DEF Owner
  <2> QED BY <2>1 DEF Acked
<1> HIDE DEF ph, se, un, up
<1>7. q \in Owner BY <1>0, <1>1, <1>3, <1>4, <1>5, OwnerUpdate
<1>8. /\ q.sess = 0 /\ q.unconfirmed = 0 /\ q.call = None /\ q.missed = o.missed
      /\ q.sessions = o.sessions /\ q.state = o.state /\ q.then = o.then /\ q.waiter = o.waiter
      /\ q.output = o.output /\ q.maint = o.maint /\ q.phase = ph
  BY <1>0, <1>3 DEF Owner
<1> HIDE DEF q
<1>9. /\ r \in Owner /\ r.sess = 0 /\ r.unconfirmed = 0 /\ r.call = None /\ r.missed = o.missed
      /\ r.sessions = o.sessions /\ r.state = o.state /\ r.then = o.then
      /\ r.output = o.output /\ r.maint = (IF o.maint = "none" THEN "none" ELSE "confirmed")
      /\ r.phase = ph /\ Fewer(q, r)
  <2>1. CASE o.maint = "none"
    <3>1. Fewer(q, q) BY DEF Fewer
    <3> QED BY <1>7, <1>8, <2>1, <3>1
  <2>2. CASE o.maint # "none"
    <3>1. (q.unconfirmed = 0) \in BOOLEAN OBVIOUS
    <3>2. r = HoldSettles(q, q.unconfirmed = 0) BY <2>2
    <3>3. LET t == HoldSettles(q, q.unconfirmed = 0) IN
            /\ t \in Owner /\ t.sessions = q.sessions /\ t.sess = q.sess
            /\ t.unconfirmed = q.unconfirmed /\ t.output = q.output /\ t.missed = q.missed
            /\ t.phase = q.phase /\ t.call = q.call /\ t.then = q.then /\ t.state = q.state
            /\ Fewer(q, t) /\ t.maint = IF q.unconfirmed = 0 THEN "confirmed" ELSE "unconfirmed"
      BY <1>7, <3>1, HoldSettlesStep
    <3> HIDE DEF r
    <3> QED BY <1>8, <2>2, <3>2, <3>3
  <2> QED BY <2>1, <2>2
<1> HIDE DEF r
<1>10. Fewer(o, r) BY <1>8, <1>9 DEF Fewer, Undecided
<1>11. HolderShape(r)
  <2>1. \A t \in Sessions : r.phase[t] \in {"none", "acked"}
    BY <1>0, <1>2, <1>4, <1>9 DEF Shape, HolderShape
  <2>2. \A t \in Sessions : t > r.sessions => r.phase[t] = "none"
    <3>1. s <= o.sessions
      BY <1>0, <1>1, <1>2 DEF Shape, HolderShape, Holder
    <3>2. s \in Int /\ o.sessions \in Int BY <1>0, BoundsAssumption DEF Owner, Sessions
    <3> QED BY <1>0, <1>4, <1>9, <3>1, <3>2 DEF Shape, HolderShape, Sessions
  <2> QED BY <1>9, <2>1, <2>2 DEF HolderShape
<1> QED BY <1>0, <1>6, <1>9, <1>10, <1>11

\* ackAt, in time or late: only now may another session start.
LEMMA ReleaseDoneOutcome ==
  ASSUME TransportInv, ReleaseDone
  PROVE  Outcome
<1>1. PICK s \in Sessions : o.phase[s] \in {"releasing", "unconfirmed"} /\ Step(Acked(o, s))
  BY DEF ReleaseDone
<1>2. wanted' = wanted BY DEF ReleaseDone
<1>3. PICK r \in Owner :
           /\ Acked(o, s) = IF o.phase[s] = "releasing" THEN AfterRelease(r) ELSE r
           /\ r.sess = 0 /\ r.unconfirmed = 0 /\ r.call = None /\ ~r.missed
           /\ r.sessions = o.sessions /\ r.state = o.state /\ r.then = o.then
           /\ r.output = o.output /\ r.maint = (IF o.maint = "none" THEN "none" ELSE "confirmed")
           /\ HolderShape(r) /\ Fewer(o, r)
  BY <1>1, AckedFrees
<1>0. o \in Owner /\ Shape(o) /\ ~o.missed /\ Safe(o) BY InvFacts
<1>4. s = Holder(o) /\ s # 0
  BY <1>0, <1>1, BoundsAssumption DEF Shape, HolderShape, Sessions
<1>5. CASE o.phase[s] = "unconfirmed"
  <2>1. o.sess = 0 BY <1>0, <1>4, <1>5 DEF Shape, HolderShape, Holder
  <2>2. o.state \notin {"playing", "releasing"} /\ o.then # "play"
    BY <1>0, <2>1 DEF Shape, StateShape, Live
  <2>3. Undecided(r) = {} BY <1>0, <1>3, <2>2 DEF Safe, Waits, Fewer
  <2>4. StateShape(r) /\ HoldShape(r) /\ CallShape(r)
    BY <1>0, <1>3, <2>1, <2>2 DEF Shape, StateShape, HoldShape, CallShape, Live
  <2>5. Waits(r) /\ Chosen(r) BY <1>3, <2>3 DEF Waits, Chosen, Live
  <2>6. Leads(o, r) /\ ~Asking(r)
    BY <1>3, <2>2, <2>4, <2>5 DEF Leads, Safe, Shape, Asking
  <2>7. Acked(o, s) = r BY <1>3, <1>5
  <2> QED BY <1>1, <2>6, <2>7, StepOutcome
<1>6. CASE o.phase[s] = "releasing"
  <2> DEFINE q == [r EXCEPT !.then = "stop"]
             z == [q EXCEPT !.state = "stopped"]
  <2>0. Acked(o, s) = AfterRelease(r) BY <1>3, <1>6
  <2>1. o.sess # 0 /\ o.phase[o.sess] = "releasing" /\ ~Live(o)
    BY <1>0, <1>4, <1>6 DEF Shape, HolderShape, Holder, Live
  <2>2. o.state = IF o.maint = "none" THEN "releasing" ELSE "maintenance"
    BY <1>0, <2>1 DEF Shape, StateShape, HoldShape, Owner, States
  <2>3. \A c \in Undecided(r) : r.waiter[c].sess = 0 /\ r.then = "play"
    BY <1>0, <1>3, <2>2 DEF Safe, Waits, Fewer
  <2>4. q \in Owner BY OwnerUpdate DEF Intents
  <2>5. /\ q.sess = r.sess /\ q.unconfirmed = r.unconfirmed /\ q.call = r.call
        /\ q.missed = r.missed /\ q.sessions = r.sessions /\ q.state = r.state
        /\ q.then = "stop" /\ q.output = r.output /\ q.maint = r.maint /\ q.phase = r.phase
        /\ q.waiter = r.waiter /\ q.queue = r.queue /\ q.selected = r.selected
    BY DEF Owner
  <2>6. HolderShape(q) /\ Chosen(q) BY <1>3, <2>5 DEF HolderShape, Holder, Chosen, Live
  <2>7. CASE o.maint # "none"
    <3>1. AfterRelease(r) = q BY <1>3, <2>7 DEF AfterRelease
    <3>2. r.then # "play" BY <1>0, <1>3, <2>2, <2>7 DEF Shape, StateShape
    <3> HIDE DEF q
    <3>3. Undecided(q) = {} BY <2>3, <2>5, <3>2 DEF Undecided
    <3>4. Waits(q) BY <1>3, <2>5, <3>3 DEF Waits
    <3>5. StateShape(q) /\ HoldShape(q) /\ CallShape(q)
      BY <1>3, <2>2, <2>5, <2>7 DEF StateShape, HoldShape, CallShape, Live
    <3>6. Leads(o, q) /\ ~Asking(q)
      BY <1>3, <2>2, <2>4, <2>5, <2>6, <2>7, <3>4, <3>5 DEF Leads, Safe, Shape, Asking
    <3> QED BY <1>1, <2>0, <3>1, <3>6, StepOutcome
  <2>8. CASE o.maint = "none" /\ r.then = "play"
    <3>1. AfterRelease(r) = IF r.output # "available" \/ Target(r) = 0 THEN PlayFailed(z)
                            ELSE StartSession(q, Target(r))
      BY <1>3, <2>8 DEF AfterRelease
    <3>2. wanted BY <1>0, <1>3, <2>8, InvFacts DEF Asking
    <3>3. Target(r) \in Entries \cup {0}
      <4>1. 0 \in Entries \cup {0} OBVIOUS
      <4> QED BY <4>1, QueueLookups
    <3>4. CASE r.output # "available" \/ Target(r) = 0
      <4>1. z \in Owner BY <2>4, OwnerUpdate DEF States
      <4> HIDE DEF q
      <4>2. /\ z.sess = 0 /\ z.unconfirmed = 0 /\ z.call = None /\ ~z.missed
            /\ z.sessions = o.sessions /\ z.state = "stopped" /\ z.then = "stop"
            /\ z.maint = "none" /\ z.phase = r.phase
        BY <1>3, <2>4, <2>5, <2>8 DEF Owner
      <4> HIDE DEF z
      <4>3. /\ PlayFailed(z) \in Owner /\ Kept(z, PlayFailed(z)) /\ Undecided(PlayFailed(z)) = {}
        BY <4>1, DecideAll
      <4> DEFINE f == PlayFailed(z)
      <4> HIDE DEF f
      <4>4. /\ f \in Owner /\ Undecided(f) = {}
            /\ f.sess = 0 /\ f.unconfirmed = 0 /\ f.call = None /\ ~f.missed
            /\ f.sessions = o.sessions /\ f.state = "stopped" /\ f.then = "stop"
            /\ f.maint = "none" /\ f.phase = r.phase
        BY <4>2, <4>3 DEF f, Kept, Same, SameSessions
      <4>5. HolderShape(f) BY <1>3, <4>4 DEF HolderShape, Holder
      <4>6. StateShape(f) /\ HoldShape(f) /\ CallShape(f)
        BY <4>4 DEF StateShape, HoldShape, CallShape, Live
      <4>7. Waits(f) /\ Chosen(f) BY <4>4 DEF Waits, Chosen, Live
      <4>8. Leads(o, f) BY <4>4, <4>5, <4>6, <4>7 DEF Leads, Safe, Shape
      <4>9. Acked(o, s) = f BY <2>0, <3>1, <3>4 DEF f
      <4> QED BY <1>1, <1>2, <3>2, <4>8, <4>9, StepOutcome
    <3>5. CASE r.output = "available" /\ Target(r) # 0
      <4>1. Target(r) \in Entries BY <3>3, <3>5
      <4> DEFINE e == Target(r)
      <4> HIDE DEF q, e
      <4>2. \A c \in Undecided(q) : q.waiter[c].sess = 0 BY <2>3, <2>5 DEF Undecided
      <4>3. Ready(q) BY <1>3, <2>4, <2>5, <2>6, <2>8, <4>2 DEF Ready
      <4>4. Acked(o, s) = StartSession(q, e) BY <2>0, <3>1, <3>5 DEF e
      <4>5. ASSUME StartSession(q, e).sessions <= MaxSessions
            PROVE  Leads(o, StartSession(q, e))
        <5>1. e \in Entries BY <4>1 DEF e
        <5>2. LET t == StartSession(q, e) IN Safe(t) /\ t.state = "playing" /\ t.output = q.output
          BY <4>3, <4>5, <5>1, StartStep
        <5> QED BY <2>5, <3>5, <5>2 DEF Leads
      <4> QED BY <1>1, <1>2, <3>2, <4>4, <4>5, StepOutcome
    <3> QED BY <3>4, <3>5
  <2>9. CASE o.maint = "none" /\ r.then # "play"
    <3>1. AfterRelease(r) = (IF r.then = "pause" THEN [q EXCEPT !.state = "paused"] ELSE z)
      <4>1. r.then \in {"stop", "pause"} BY <2>9 DEF Owner, Intents
      <4> QED BY <1>3, <2>9, <4>1 DEF AfterRelease
    <3> DEFINE st == IF r.then = "pause" THEN "paused" ELSE "stopped"
               f == [q EXCEPT !.state = st]
    <3>2. AfterRelease(r) = f BY <3>1
    <3>3. st \in States /\ st \in {"paused", "stopped"} BY DEF States
    <3> HIDE DEF q, st
    <3>4. f \in Owner BY <2>4, <3>3, OwnerUpdate
    <3>5. /\ f.sess = 0 /\ f.unconfirmed = 0 /\ f.call = None /\ ~f.missed
          /\ f.sessions = o.sessions /\ f.state = st /\ f.then = "stop"
          /\ f.maint = "none" /\ f.phase = r.phase /\ f.waiter = r.waiter
      BY <1>3, <2>4, <2>5, <2>9 DEF Owner
    <3> HIDE DEF f
    <3>6. Undecided(f) = {} BY <2>3, <2>9, <3>5 DEF Undecided
    <3>7. HolderShape(f) BY <1>3, <3>5 DEF HolderShape, Holder
    <3>8. StateShape(f) /\ HoldShape(f) /\ CallShape(f)
      BY <3>3, <3>5 DEF StateShape, HoldShape, CallShape, Live
    <3>9. Waits(f) /\ Chosen(f) BY <3>5, <3>6 DEF Waits, Chosen, Live
    <3>10. Leads(o, f) BY <3>4, <3>5, <3>7, <3>8, <3>9 DEF Leads, Safe, Shape
    <3>11. ~Asking(f) BY <3>3, <3>5 DEF Asking
    <3> QED BY <1>1, <2>0, <3>2, <3>10, <3>11, StepOutcome
  <2> QED BY <2>7, <2>8, <2>9
<1> QED BY <1>1, <1>5, <1>6

\* releaseDeadline: the session is unconfirmed, and the intent gone.
LEMMA ReleaseDeadlineOutcome ==
  ASSUME TransportInv, ReleaseDeadline
  PROVE  Outcome
<1> DEFINE s == o.sess
           a == IF o.then = "play" THEN PlayFailed(o) ELSE o
           ph == [a.phase EXCEPT ![s] = "unconfirmed"]
           st == IF o.maint = "none" THEN "stopped" ELSE a.state
           r == [a EXCEPT !.phase = ph, !.sess = 0, !.then = "stop",
                     !.unconfirmed = s, !.unconfirmedPaused = FALSE, !.state = st]
           t == IF o.maint = "entering" THEN HoldSettles(r, FALSE) ELSE r
<1>0. o \in Owner /\ Shape(o) /\ ~o.missed /\ Safe(o) BY InvFacts
<1>1. Step(PassDeadline(o, s)) /\ wanted' = FALSE /\ s # 0 /\ o.phase[s] = "releasing"
  BY DEF ReleaseDeadline
<1>2. PassDeadline(o, s) = t BY DEF PassDeadline
<1>3. a \in Owner /\ Kept(o, a) /\ Fewer(o, a) /\ (o.then = "play" => Undecided(a) = {})
  BY <1>0, DecideAll, SideRefl DEF Fewer, Side
<1>4. s \in Sessions /\ s \in 0..MaxSessions /\ 0 \in 0..MaxSessions
      /\ o.phase \in [Sessions -> Phases]
  BY <1>0, <1>1, BoundsAssumption DEF Owner, Sessions
<1>5. o.call = None /\ o.state # "playing"
      /\ (o.maint # "none" => o.maint = "entering" /\ o.state = "maintenance")
  BY <1>0, <1>1 DEF Shape, CallShape, StateShape, HoldShape, Live, Owner
<1>6. Undecided(a) = {} BY <1>0, <1>3, <1>5 DEF Safe, Waits, Fewer
<1> HIDE DEF a
<1>7. /\ ph \in [Sessions -> Phases]
      /\ \A n \in Sessions : ph[n] = IF n = s THEN "unconfirmed" ELSE o.phase[n]
  BY <1>3, <1>4 DEF Kept, Same, SameSessions, Phases
<1>8. st \in States /\ st = IF o.maint = "none" THEN "stopped" ELSE "maintenance"
  BY <1>3, <1>5 DEF Kept, Same, States
<1> HIDE DEF ph, st, s
<1>9. r \in Owner
  <2>1. FALSE \in BOOLEAN /\ "stop" \in Intents BY DEF Intents
  <2> QED BY <1>3, <1>4, <1>7, <1>8, <2>1, OwnerUpdate
<1>10. /\ r.sess = 0 /\ r.unconfirmed = s /\ r.phase = ph /\ r.then = "stop" /\ r.state = st
       /\ r.call = a.call /\ r.missed = a.missed /\ r.maint = a.maint /\ r.sessions = a.sessions
       /\ r.waiter = a.waiter
  BY <1>3 DEF Owner
<1> HIDE DEF r
<1>11. /\ r.sessions = o.sessions /\ r.call = None /\ ~r.missed /\ r.maint = o.maint
       /\ Undecided(r) = {}
  BY <1>0, <1>3, <1>5, <1>6, <1>10 DEF Kept, Same, SameSessions, Undecided
<1>12. /\ t \in Owner /\ t.sess = 0 /\ t.unconfirmed = s /\ t.phase = ph /\ t.then = "stop"
       /\ t.state = st /\ t.call = None /\ ~t.missed /\ t.sessions = o.sessions
       /\ Undecided(t) = {} /\ t.maint = IF o.maint = "none" THEN "none" ELSE "unconfirmed"
  <2>1. CASE o.maint = "entering"
    <3>1. FALSE \in BOOLEAN OBVIOUS
    <3>2. LET u == HoldSettles(r, FALSE) IN
            /\ u \in Owner /\ u.sessions = r.sessions /\ u.sess = r.sess
            /\ u.unconfirmed = r.unconfirmed /\ u.missed = r.missed
            /\ u.phase = r.phase /\ u.call = r.call /\ u.then = r.then /\ u.state = r.state
            /\ Fewer(r, u) /\ u.maint = IF FALSE THEN "confirmed" ELSE "unconfirmed"
      BY <1>9, <3>1, HoldSettlesStep
    <3>3. t = HoldSettles(r, FALSE) BY <2>1
    <3> HIDE DEF t
    <3> QED BY <1>10, <1>11, <2>1, <3>2, <3>3 DEF Fewer
  <2>2. CASE o.maint # "entering"
    BY <1>5, <1>9, <1>10, <1>11, <2>2
  <2> QED BY <2>1, <2>2
<1> HIDE DEF t
<1>13. HolderShape(t)
  <2>0. s # 0 /\ s <= o.sessions BY <1>0, <1>1 DEF Shape, HolderShape, s
  <2>1. \A n \in Sessions : n > t.sessions => t.phase[n] = "none"
    <3>1. s \in Int /\ o.sessions \in Int BY <1>0, <1>4, BoundsAssumption DEF Owner, Sessions
    <3> QED BY <1>0, <1>7, <1>12, <2>0, <3>1 DEF Shape, HolderShape, Sessions
  <2>2. \A n \in Sessions : t.phase[n] \notin {"none", "acked"} => n = s
    BY <1>0, <1>7, <1>12, <2>0 DEF Shape, HolderShape, Holder, s
  <2> QED BY <1>4, <1>7, <1>12, <2>0, <2>1, <2>2 DEF HolderShape, Holder
<1>14. StateShape(t) /\ HoldShape(t) /\ CallShape(t)
  BY <1>8, <1>12 DEF StateShape, HoldShape, CallShape, Live
<1>15. Waits(t) /\ Chosen(t) BY <1>12 DEF Waits, Chosen, Live
<1>16. Leads(o, t) BY <1>12, <1>13, <1>14, <1>15 DEF Leads, Safe, Shape
<1>17. ~Asking(t) BY <1>8, <1>12 DEF Asking
<1> QED BY <1>1, <1>2, <1>16, <1>17, StepOutcome

\* endMaintenance: nothing plays, and a release goes on.
LEMMA EndMaintenanceOutcome ==
  ASSUME TransportInv, EndMaintenance
  PROVE  Outcome
<1> DEFINE a == Answer(o, {c \in Controllers : o.cmd[c] = <<"enter">>})
           st == IF o.sess # 0 /\ o.phase[o.sess] = "releasing" THEN "releasing" ELSE "stopped"
           q == [a EXCEPT !.maint = "none", !.state = st]
<1>0. o \in Owner /\ Shape(o) /\ ~o.missed /\ Safe(o) BY InvFacts
<1>1. Step(q) /\ wanted' = wanted /\ o.maint # "none" BY DEF EndMaintenance
<1>2. Side(o, a) BY <1>0, SideSteps
<1>3. a \in Owner /\ Kept(o, a) /\ Fewer(o, a) BY <1>2 DEF Side
<1> HIDE DEF a
<1>4. st \in States BY DEF States
<1>5. o.state = "maintenance" /\ o.call = None /\ (o.sess # 0 => o.phase[o.sess] = "releasing")
      /\ o.then # "play"
  BY <1>0, <1>1 DEF Shape, StateShape, HoldShape, CallShape
<1>6. st = IF o.sess # 0 THEN "releasing" ELSE "stopped" BY <1>5
<1> HIDE DEF st
<1>7. q \in Owner BY <1>3, <1>4, OwnerUpdate
<1>8. /\ q.sessions = a.sessions /\ q.sess = a.sess /\ q.phase = a.phase
      /\ q.unconfirmed = a.unconfirmed /\ q.maint = "none" /\ q.missed = a.missed
      /\ q.state = st /\ q.then = a.then /\ q.waiter = a.waiter /\ q.call = a.call
  BY <1>3 DEF Owner
<1> HIDE DEF q
<1>9. /\ q.sessions = o.sessions /\ q.sess = o.sess /\ q.phase = o.phase
      /\ q.unconfirmed = o.unconfirmed /\ ~q.missed /\ q.then = o.then /\ q.call = None
  BY <1>0, <1>3, <1>5, <1>8 DEF Kept, Same, SameSessions
<1>10. Undecided(o) = {} BY <1>0, <1>5 DEF Safe, Waits
<1>11. Undecided(q) = {} BY <1>3, <1>8, <1>10 DEF Fewer, Undecided
<1>12. HolderShape(q) BY <1>0, <1>9 DEF Shape, HolderShape, Holder
<1>13. StateShape(q) /\ HoldShape(q) /\ CallShape(q)
  BY <1>5, <1>6, <1>8, <1>9 DEF StateShape, HoldShape, CallShape, Live
<1>14. Waits(q) /\ Chosen(q) BY <1>5, <1>9, <1>11 DEF Waits, Chosen, Live
<1>15. Leads(o, q) BY <1>7, <1>9, <1>12, <1>13, <1>14 DEF Leads, Safe, Shape
<1>16. ~Asking(q) BY <1>5, <1>6, <1>8, <1>9 DEF Asking
<1> QED BY <1>1, <1>15, <1>16, StepOutcome

\* An edit may also leave nothing selected.
LEMMA Deselect ==
  ASSUME NEW p, Safe(p), NEW q \in Owner, Fewer(p, q),
         q.sessions = p.sessions, q.sess = p.sess, q.phase = p.phase, q.call = p.call,
         q.unconfirmed = p.unconfirmed, q.maint = p.maint, q.missed = p.missed,
         q.state = p.state, q.then = p.then
  PROVE  /\ Shape(q) /\ ~q.missed /\ (Asking(q) <=> Asking(p)) /\ (Live(q) <=> Live(p))
         /\ ~Live(p) \/ q.selected # 0 => Safe(q)
<1>1. HolderShape(q) BY DEF Safe, Shape, HolderShape, Holder
<1>2. StateShape(q) /\ HoldShape(q) /\ CallShape(q)
  BY DEF Safe, Shape, StateShape, HoldShape, CallShape, Live
<1>3. Waits(q) BY DEF Safe, Waits, Fewer
<1>4. Asking(q) <=> Asking(p) BY DEF Asking
<1>5. Live(q) <=> Live(p) BY DEF Live
<1>6. ~Live(p) \/ q.selected # 0 => Chosen(q) BY <1>5 DEF Chosen
<1>7. ~q.missed BY <1>3 DEF Waits
<1>8. Shape(q) BY <1>1, <1>2 DEF Shape
<1>9. ~Live(p) \/ q.selected # 0 => Safe(q) BY <1>3, <1>6, <1>8 DEF Safe
<1> QED BY <1>4, <1>5, <1>7, <1>8, <1>9

\* A paused player with no session is stopped, and another is as it is.
LEMMA IdleStops ==
  ASSUME NEW p, Safe(p), ~Live(p), p.then # "play"
  PROVE  LET q == [p EXCEPT !.state = IF p.state = "paused" THEN "stopped" ELSE p.state] IN
         Safe(q) /\ ~Asking(q) /\ q.sessions = p.sessions
<1> DEFINE st == IF p.state = "paused" THEN "stopped" ELSE p.state
           q == [p EXCEPT !.state = st]
<1>0. p \in Owner /\ Shape(p) BY DEF Safe
<1>1. ~Asking(p) BY <1>0 DEF Asking, Shape, StateShape, CallShape, Live
<1>2. CASE p.state = "paused"
  <2>1. p.sess = 0 /\ p.maint = "none" BY <1>0, <1>2 DEF Shape, StateShape, HoldShape, Live
  <2>2. st = "stopped" /\ st \in States BY <1>2 DEF States
  <2> HIDE DEF st
  <2>3. /\ q \in Owner /\ SameSessions(p, q) /\ q.state = st /\ q.then = p.then /\ Fewer(p, q)
    BY <1>0, <2>2, SetState
  <2> HIDE DEF q
  <2>4. Safe(q) /\ ~Asking(q) BY <2>1, <2>2, <2>3, StopIdle
  <2> QED BY <2>3, <2>4 DEF SameSessions, q, st
<1>3. CASE p.state # "paused"
  <2>1. q = p BY <1>0, <1>3 DEF Owner
  <2> QED BY <1>1, <2>1
<1> QED BY <1>2, <1>3

\* The output alone starts and ends nothing.
LEMMA OutputSet ==
  ASSUME TransportInv, NEW out \in {"unknown", "available", "gone"}
  PROVE  LET q == [o EXCEPT !.output = out] IN
         Safe(q) /\ Same(o, q) /\ (Asking(q) <=> Asking(o))
<1> DEFINE q == [o EXCEPT !.output = out]
<1>0. o \in Owner /\ Safe(o) BY InvFacts
<1>1. q \in Owner BY <1>0, OwnerUpdate
<1>2. Same(o, q) /\ q.waiter = o.waiter BY <1>0 DEF Owner, Same, SameSessions
<1> HIDE DEF q
<1>3. Fewer(o, q) BY <1>2 DEF Fewer, Undecided
<1> QED BY <1>0, <1>1, <1>2, <1>3, SafeFrame DEF q

\* reportOutput: an output that is back plays nothing.
LEMMA OutputReturnsOutcome ==
  ASSUME TransportInv, OutputReturns
  PROVE  Outcome
<1> DEFINE q == [o EXCEPT !.output = "available"]
<1>1. Step(q) /\ wanted' = wanted BY DEF OutputReturns
<1>2. Safe(q) /\ Same(o, q) /\ (Asking(q) <=> Asking(o)) BY OutputSet
<1> HIDE DEF q
<1>3. Leads(o, q) BY <1>2 DEF Leads, Same, SameSessions
<1> QED BY <1>1, <1>2, <1>3, InvFacts, StepOutcome

\* outputGone: whatever plays, starts or was asked for ends.
LEMMA OutputGoneOutcome ==
  ASSUME TransportInv, OutputGone
  PROVE  Outcome
<1>1. PICK out \in {"gone", "available"} :
        LET q == SupersedeParked([o EXCEPT !.output = out]) IN
         Step(IF Live(o) THEN ReleaseSession(PlayFailed(q), "stop")
              ELSE IF o.state = "releasing" /\ o.then # "stop" THEN SetIntent(PlayFailed(q), "stop")
              ELSE [q EXCEPT !.state = IF q.state = "paused" THEN "stopped" ELSE q.state])
  BY DEF OutputGone
<1>2. wanted' = FALSE BY DEF OutputGone
<1> DEFINE p == [o EXCEPT !.output = out]
           q == SupersedeParked(p)
           f == PlayFailed(q)
           z == [q EXCEPT !.state = IF q.state = "paused" THEN "stopped" ELSE q.state]
<1>3. Safe(p) /\ Same(o, p) BY OutputSet
<1>4. Step(IF Live(o) THEN ReleaseSession(f, "stop")
              ELSE IF o.state = "releasing" /\ o.then # "stop" THEN SetIntent(f, "stop")
              ELSE z)
  BY <1>1
<1> HIDE DEF p
<1>5. Side(p, q) /\ Safe(q) BY <1>3, SideSteps, SafeSide DEF Safe
<1>6. Same(o, q) BY <1>3, <1>5 DEF Side, Kept, Same, SameSessions
<1> HIDE DEF q
<1>7. Side(q, f) /\ Safe(f) BY <1>5, SideSteps, SafeSide DEF Safe
<1>8. Same(o, f) BY <1>6, <1>7 DEF Side, Kept, Same, SameSessions
<1> HIDE DEF f
<1>9. o \in Owner /\ Safe(o) BY InvFacts
<1>10. CASE Live(o)
  <2> DEFINE r == ReleaseSession(f, "stop")
  <2>1. Live(f) BY <1>8, <1>10 DEF Live, Same, SameSessions
  <2>2. Safe(r) /\ ~Asking(r) /\ r.sessions = f.sessions
    BY <1>7, <2>1, SafeRelease DEF Safe, Waits, Intents
  <2>3. Step(r) BY <1>4, <1>10
  <2> HIDE DEF r
  <2>4. Leads(o, r) BY <1>8, <2>2 DEF Leads, Same, SameSessions
  <2> QED BY <2>2, <2>3, <2>4, StepOutcome
<1>11. CASE ~Live(o) /\ o.state = "releasing" /\ o.then # "stop"
  <2> DEFINE r == SetIntent(f, "stop")
  <2>1. f.state = "releasing" BY <1>8, <1>11 DEF Same
  <2>2. Safe(r) /\ ~Asking(r) /\ r.sessions = f.sessions BY <1>7, <2>1, SafeIntent DEF Intents
  <2>3. Step(r) BY <1>4, <1>11
  <2> HIDE DEF r
  <2>4. Leads(o, r) BY <1>8, <2>2 DEF Leads, Same, SameSessions
  <2> QED BY <2>2, <2>3, <2>4, StepOutcome
<1>12. CASE ~Live(o) /\ ~(o.state = "releasing" /\ o.then # "stop")
  <2>1. o.then # "play" BY <1>9, <1>12 DEF Safe, Shape, StateShape
  <2>2. ~Live(q) /\ q.then # "play" BY <1>6, <1>12, <2>1 DEF Live, Same, SameSessions
  <2>3. Safe(z) /\ ~Asking(z) /\ z.sessions = q.sessions BY <1>5, <2>2, IdleStops
  <2>4. Step(z) BY <1>4, <1>12
  <2> HIDE DEF z
  <2>5. Leads(o, z) BY <1>6, <2>3 DEF Leads, Same, SameSessions
  <2> QED BY <2>3, <2>4, <2>5, StepOutcome
<1> QED BY <1>10, <1>11, <1>12

\* Everything deleted: whatever plays ends.
LEMMA DeleteAllOutcome ==
  ASSUME TransportInv, DeleteAll
  PROVE  Outcome
<1> DEFINE q == [o EXCEPT !.queue = {}, !.pass = {}, !.selected = 0]
           z == [q EXCEPT !.state = IF q.state = "paused" THEN "stopped" ELSE q.state]
<1>0. o \in Owner /\ Safe(o) BY InvFacts
<1>1. wanted' = FALSE BY DEF DeleteAll
<1>2. Step(IF Live(o) THEN ReleaseSession(q, "stop")
            ELSE IF o.state = "releasing" THEN SetIntent(q, "stop") ELSE z)
  BY DEF DeleteAll
<1>3. q \in Owner
  <2>1. {} \in SUBSET Entries /\ 0 \in Entries \cup {0} OBVIOUS
  <2> QED BY <1>0, <2>1, OwnerUpdate
<1>4. /\ q.sessions = o.sessions /\ q.sess = o.sess /\ q.phase = o.phase /\ q.call = o.call
      /\ q.unconfirmed = o.unconfirmed /\ q.maint = o.maint /\ q.missed = o.missed
      /\ q.state = o.state /\ q.then = o.then /\ q.waiter = o.waiter
  BY <1>0 DEF Owner
<1> HIDE DEF q
<1>5. Fewer(o, q) BY <1>4 DEF Fewer, Undecided
<1>6. /\ Shape(q) /\ ~q.missed /\ (Live(q) <=> Live(o)) /\ (~Live(o) => Safe(q))
  BY <1>0, <1>3, <1>4, <1>5, Deselect
<1>7. CASE Live(o)
  <2> DEFINE r == ReleaseSession(q, "stop")
  <2>1. Safe(r) /\ ~Asking(r) /\ r.sessions = q.sessions
    BY <1>3, <1>6, <1>7, SafeRelease DEF Intents
  <2>2. Step(r) BY <1>2, <1>7
  <2> HIDE DEF r
  <2>3. Leads(o, r) BY <1>4, <2>1 DEF Leads
  <2> QED BY <2>1, <2>2, <2>3, StepOutcome
<1>8. CASE ~Live(o) /\ o.state = "releasing"
  <2> DEFINE r == SetIntent(q, "stop")
  <2>1. Safe(r) /\ ~Asking(r) /\ r.sessions = q.sessions
    BY <1>4, <1>6, <1>8, SafeIntent DEF Intents
  <2>2. Step(r) BY <1>2, <1>8
  <2> HIDE DEF r
  <2>3. Leads(o, r) BY <1>4, <2>1 DEF Leads
  <2> QED BY <2>1, <2>2, <2>3, StepOutcome
<1>9. CASE ~Live(o) /\ o.state # "releasing"
  <2>1. o.then # "play" BY <1>0, <1>9 DEF Safe, Shape, StateShape
  <2>2. Safe(z) /\ ~Asking(z) /\ z.sessions = q.sessions BY <1>4, <1>6, <1>9, <2>1, IdleStops
  <2>3. Step(z) BY <1>2, <1>9
  <2> HIDE DEF z
  <2>4. Leads(o, z) BY <1>4, <2>2 DEF Leads
  <2> QED BY <2>2, <2>3, <2>4, StepOutcome
<1> QED BY <1>7, <1>8, <1>9

\* selectionDeleted: what followed plays only if the entry played.
LEMMA ReselectStep ==
  ASSUME NEW p, Safe(p), p.maint = "none", NEW e \in Entries \cup {0}
  PROVE  LET q == Reselect(p, e) IN
         Safe(q) /\ q.sessions = p.sessions /\ (Asking(q) => Asking(p) /\ e # 0)
<1> DEFINE f == PlayFailed(p)
           q == [f EXCEPT !.selected = e]
           z == [q EXCEPT !.state = "stopped"]
           r == Reselect(p, e)
<1>0. p \in Owner /\ Shape(p) BY DEF Safe
<1>1. f \in Owner /\ Kept(p, f) /\ Undecided(f) = {} BY <1>0, DecideAll
<1>2. r = CASE p.state = "playing" /\ Live(p) -> ReleaseSession(q, IF e # 0 THEN "play" ELSE "stop")
            [] p.state = "paused" /\ Live(p)  -> ReleaseSession(q, IF e # 0 THEN "pause" ELSE "stop")
            [] p.state = "paused" /\ ~Live(p) /\ e = 0 -> z
            [] p.state = "releasing" /\ e = 0 -> SetIntent(q, "stop")
            [] OTHER -> q
  BY DEF Reselect
<1> HIDE DEF f
<1>3. q \in Owner BY <1>1, OwnerUpdate
<1>4. /\ q.sessions = p.sessions /\ q.sess = p.sess /\ q.phase = p.phase /\ q.call = p.call
      /\ q.unconfirmed = p.unconfirmed /\ q.maint = p.maint /\ q.missed = p.missed
      /\ q.state = p.state /\ q.then = p.then /\ q.selected = e /\ Undecided(q) = {}
  BY <1>1 DEF Owner, Kept, Same, SameSessions, Undecided
<1> HIDE DEF q, r
<1>5. Fewer(p, q) BY <1>4 DEF Fewer
<1>6. /\ Shape(q) /\ ~q.missed /\ (Asking(q) <=> Asking(p)) /\ (Live(q) <=> Live(p))
      /\ (~Live(p) \/ e # 0 => Safe(q))
  BY <1>3, <1>4, <1>5, Deselect
<1>7. CASE Live(p) /\ p.state = "playing"
  <2> DEFINE th == IF e # 0 THEN "play" ELSE "stop"
  <2>1. th \in Intents /\ (th = "play" <=> e # 0) BY DEF Intents
  <2>2. r = ReleaseSession(q, th) BY <1>2, <1>7
  <2> HIDE DEF th
  <2>3. LET t == ReleaseSession(q, th) IN
        Safe(t) /\ t.sessions = q.sessions /\ (th # "play" => ~Asking(t))
    BY <1>3, <1>4, <1>6, <1>7, <2>1, SafeRelease
  <2>4. Asking(p) BY <1>7 DEF Asking
  <2> QED BY <1>4, <2>1, <2>2, <2>3, <2>4 DEF r
<1>8. CASE Live(p) /\ p.state = "paused"
  <2> DEFINE th == IF e # 0 THEN "pause" ELSE "stop"
  <2>1. th \in Intents /\ th # "play" BY DEF Intents
  <2>2. r = ReleaseSession(q, th) BY <1>2, <1>8
  <2> HIDE DEF th
  <2>3. LET t == ReleaseSession(q, th) IN Safe(t) /\ t.sessions = q.sessions /\ ~Asking(t)
    BY <1>3, <1>4, <1>6, <1>8, <2>1, SafeRelease
  <2> QED BY <1>4, <2>2, <2>3 DEF r
<1>9. CASE ~Live(p) /\ p.state = "paused" /\ e = 0
  <2>1. r = z BY <1>2, <1>9
  <2>2. p.sess = 0 BY <1>0, <1>9, HeldIsLive
  <2>3. /\ z \in Owner /\ SameSessions(q, z) /\ z.state = "stopped" /\ z.then = q.then /\ Fewer(q, z)
    BY <1>3, SetState DEF States
  <2> HIDE DEF z
  <2>4. Safe(z) /\ ~Asking(z) BY <1>4, <1>6, <1>9, <2>2, <2>3, StopIdle
  <2> QED BY <1>4, <2>1, <2>3, <2>4 DEF SameSessions, r
<1>10. CASE p.state = "releasing" /\ e = 0
  <2>1. r = SetIntent(q, "stop") BY <1>2, <1>10
  <2>2. ~Live(p) BY <1>0, <1>10 DEF Shape, StateShape, Live
  <2>3. LET t == SetIntent(q, "stop") IN Safe(t) /\ t.sessions = q.sessions /\ ~Asking(t)
    BY <1>4, <1>6, <1>10, <2>2, SafeIntent DEF Intents
  <2> QED BY <1>4, <2>1, <2>3 DEF r
<1>11. CASE ~(Live(p) /\ p.state \in {"playing", "paused"})
            /\ ~(~Live(p) /\ p.state = "paused" /\ e = 0) /\ ~(p.state = "releasing" /\ e = 0)
  <2>1. r = q BY <1>2, <1>11
  <2>2. ~Live(p) BY <1>0, <1>11 DEF Shape, StateShape, HoldShape, Live, Owner, States
  <2>3. e = 0 => ~Asking(p) BY <1>0, <1>11, <2>2 DEF Asking, Shape, StateShape, CallShape, Live
  <2> QED BY <1>4, <1>6, <2>1, <2>2, <2>3 DEF r
<1> QED BY <1>7, <1>8, <1>9, <1>10, <1>11

\* delete: whoever waits for the entry is told, and what follows may play.
LEMMA DeleteOutcome ==
  ASSUME TransportInv, NEW e \in Entries, Delete(e)
  PROVE  Outcome
<1> DEFINE p == [o EXCEPT !.queue = o.queue \ {e}]
           q == [o EXCEPT !.queue = o.queue \ {e}, !.pass = {}]
           next == After(q, e)
<1>0. o \in Owner /\ Safe(o) BY InvFacts
<1>1. /\ Step(IF o.selected = e THEN Reselect(q, next) ELSE q)
      /\ wanted' = (wanted /\ ~(o.selected = e /\ next = 0)) /\ o.maint = "none"
  BY DEF Delete
<1>2. Side(o, q)
  <2>1. o.queue \ {e} \in SUBSET Entries /\ {} \in SUBSET Entries BY <1>0 DEF Owner
  <2>2. Side(o, p) BY <1>0, <2>1, SideUpdates
  <2>3. q = [p EXCEPT !.pass = {}] OBVIOUS
  <2> HIDE DEF p, q
  <2>4. Side(p, q) BY <2>1, <2>2, <2>3, SideUpdates DEF Side
  <2> QED BY <2>2, <2>4, SideTrans
<1> HIDE DEF q
<1>3. Safe(q) /\ q.maint = "none" /\ q.sessions = o.sessions /\ (Asking(q) <=> Asking(o))
  BY <1>0, <1>1, <1>2, SafeSide DEF Side, Kept, Same, SameSessions
<1>4. CASE o.selected = e
  <2> DEFINE r == Reselect(q, next)
  <2>1. next \in Entries \cup {0} BY <1>2, QueueLookups DEF Side
  <2>2. Safe(r) /\ r.sessions = q.sessions /\ (Asking(r) => Asking(q) /\ next # 0)
    <3> HIDE DEF next
    <3> QED BY <1>3, <2>1, ReselectStep
  <2>3. Step(r) BY <1>1, <1>4
  <2> HIDE DEF r
  <2>4. Asking(r) => wanted' BY <1>1, <1>3, <2>2, InvFacts
  <2>5. Leads(o, r) BY <1>3, <2>2 DEF Leads
  <2> QED BY <2>3, <2>4, <2>5, StepOutcome
<1>5. CASE o.selected # e
  <2>1. Step(q) BY <1>1, <1>5
  <2>2. Asking(q) => wanted' BY <1>1, <1>3, <1>5, InvFacts
  <2>3. Leads(o, q) BY <1>3 DEF Leads
  <2> QED BY <2>1, <2>2, <2>3, StepOutcome
<1> QED BY <1>4, <1>5

\* What a command wants as it is asked, it wants as it is dispatched.
LEMMA WantsIsWanted ==
  ASSUME TransportInv, NEW p, Side(o, p), p.selected = o.selected, p.queue = o.queue, NEW op,
         Wants(p, op)
  PROVE  WantedBy(o, op)
<1>1. p.maint = o.maint /\ p.unconfirmed = o.unconfirmed /\ p.output = o.output
  BY DEF Side, Kept, Same, SameSessions
<1>2. Asking(p) => wanted BY InvFacts, SafeSide
<1>3. PastEnd(p) <=> PastEnd(o) BY <1>1 DEF PastEnd, After
<1>4. CannotOpen(p) <=> CannotOpen(o) BY <1>1 DEF CannotOpen
<1> QED BY <1>1, <1>2, <1>3, <1>4 DEF Wants, WantedBy

\* The history stays a truth value.
LEMMA WantedByIsBoolean ==
  ASSUME TransportInv, NEW op
  PROVE  WantedBy(o, op) \in BOOLEAN
BY DEF TransportInv, TypeOK, WantedBy

\* admit: the command is parked or dispatched.
LEMMA AskOutcome ==
  ASSUME TransportInv, NEW c \in Controllers, NEW op \in Commands, Ask(c, op)
  PROVE  Outcome
<1> DEFINE cm == [o.cmd EXCEPT ![c] = op]
           p == [o EXCEPT !.cmd = cm]
           q == [p EXCEPT !.parked = Append(p.parked, c)]
<1>0. o \in Owner /\ Safe(o) BY InvFacts
<1>1. IF MustWait(p, op) THEN Step(q) /\ wanted' = wanted
      ELSE Step(Dispatch(p, c)) /\ wanted' = WantedBy(o, op)
  BY DEF Ask
<1>2. cm \in [Controllers -> Commands \cup {None}] /\ cm[c] = op BY <1>0 DEF Owner
<1> HIDE DEF cm
<1>3. Side(o, p) BY <1>0, <1>2, SideUpdates
<1>4. p.cmd = cm /\ p.selected = o.selected /\ p.queue = o.queue BY <1>0 DEF Owner
<1> HIDE DEF p
<1>5. p \in Owner /\ Safe(p) /\ p.sessions = o.sessions /\ (Asking(p) <=> Asking(o))
  BY <1>0, <1>3, SafeSide DEF Side, Kept, Same, SameSessions
<1>6. CASE MustWait(p, op)
  <2>1. Append(p.parked, c) \in Seq(Controllers)
    <3>1. p.parked \in Seq(Controllers) BY <1>5 DEF Owner
    <3> QED BY <3>1
  <2>2. Side(o, q) BY <1>3, <1>5, <2>1, SideUpdates, SideTrans
  <2> HIDE DEF q
  <2> QED BY <1>1, <1>6, <2>2, SideOutcome
<1>7. CASE ~MustWait(p, op)
  <2> DEFINE r == Dispatch(p, c)
  <2>1. p.maint = "none" => ~Blocked(p, p.cmd[c])
    <3>1. op \in {<<"stop">>, <<"enter">>} => ~Blocked(p, op) BY DEF Blocked
    <3> QED BY <1>2, <1>4, <1>7, <3>1 DEF MustWait
  <2>2. Step(r) /\ wanted' = WantedBy(o, op) BY <1>1, <1>7
  <2>3. r.sessions <= MaxSessions => Leads(p, r) /\ (Asking(r) => Wants(p, op))
    BY <1>2, <1>4, <1>5, <2>1, DispatchStep
  <2> HIDE DEF r
  <2>4. r.sessions <= MaxSessions => Leads(o, r) /\ (Asking(r) => wanted')
    BY <1>3, <1>4, <1>5, <2>2, <2>3, WantsIsWanted DEF Leads
  <2> QED BY <2>2, <2>4, StepOutcome
<1> QED BY <1>6, <1>7

\* drainParked: a parked command is dispatched as it would have been.
LEMMA DrainOutcome ==
  ASSUME TransportInv, Drain
  PROVE  Outcome
<1> DEFINE c == Head(o.parked)
           p == [o EXCEPT !.parked = Tail(o.parked)]
           q == Dispatch(p, c)
<1>0. o \in Owner /\ Safe(o) /\ o.parked \in Seq(Controllers) BY InvFacts DEF Owner
<1>1. /\ o.parked # <<>> /\ ~Blocked(o, o.cmd[c]) /\ wanted' = WantedBy(o, o.cmd[c])
      /\ q.sessions <= MaxSessions /\ o' = Advance(q)
  BY DEF Drain, Runnable
<1>2. c \in Controllers /\ Tail(o.parked) \in Seq(Controllers) BY <1>0, <1>1
<1>3. Side(o, p) BY <1>0, <1>2, SideUpdates
<1>4. p.cmd = o.cmd /\ p.selected = o.selected /\ p.queue = o.queue BY <1>0 DEF Owner
<1> HIDE DEF p, c
<1>5. Safe(p) /\ SameSessions(o, p) BY <1>0, <1>3, SafeSide DEF Side, Kept, Same
<1>6. ~Blocked(p, p.cmd[c]) BY <1>1, <1>4, <1>5 DEF Blocked, SameSessions
<1>7. Leads(p, q) /\ (Asking(q) => Wants(p, p.cmd[c]))
  BY <1>1, <1>2, <1>5, <1>6, DispatchStep
<1> HIDE DEF q
<1>8. Asking(q) => wanted' BY <1>1, <1>3, <1>4, <1>7, WantsIsWanted
<1>9. Safe(o') /\ Kept(q, o') /\ (Asking(o') <=> Asking(q)) /\ Resting(o')
  BY <1>1, <1>7, AdvanceStep DEF Leads
<1>10. o'.sessions > o.sessions => o'.sessions # o.sessions
  <2>1. CASE o'.sessions = o.sessions
    <3>1. o'.sessions \in Int BY <1>9, BoundsAssumption DEF Safe, Owner
    <3> QED BY <2>1, <3>1
  <2> QED BY <2>1
<1>11. o'.sessions # o.sessions => q.state = "playing" /\ o'.output = "available"
  BY <1>5, <1>7, <1>9 DEF Leads, Kept, Same, SameSessions
<1>12. q.state = "playing" => wanted' BY <1>8 DEF Asking
<1> QED BY <1>8, <1>9, <1>10, <1>11, <1>12 DEF Outcome

-----------------------------------------------------------------------------
(***************************************************************************)
(* The invariant, and what follows from it                                 *)
(***************************************************************************)
\* The owner starts with nobody who holds the device and nobody who waits.
LEMMA InitInvariant == Init => TransportInv
<1> SUFFICES ASSUME NEW q \in SUBSET Entries, NEW e \in Entries \cup {0},
                    o = [queue |-> q, selected |-> e, pass |-> {},
                     state |-> "stopped", then |-> "stop", output |-> "unknown",
                     sessions |-> 0, sess |-> 0, phase |-> [s \in Sessions |-> "none"],
                     paused |-> FALSE, devReleased |-> FALSE, pauseArmed |-> FALSE, call |-> None,
                     unconfirmed |-> 0, unconfirmedPaused |-> FALSE, seek |-> 0, maint |-> "none",
                     cmd |-> [c \in Controllers |-> None], waiter |-> [c \in Controllers |-> None],
                     parked |-> <<>>, missed |-> FALSE],
                    asked = 0, wanted = FALSE
             PROVE  TransportInv
  BY DEF Init
<1>1. /\ o.sess = 0 /\ o.unconfirmed = 0 /\ o.sessions = 0 /\ o.phase = [s \in Sessions |-> "none"]
      /\ o.state = "stopped" /\ o.then = "stop" /\ o.maint = "none" /\ o.call = None
      /\ o.missed = FALSE /\ o.waiter = [c \in Controllers |-> None]
  OBVIOUS
<1>2. o \in Owner
  <2>1. 0 \in 0..MaxSessions /\ <<>> \in Seq(Controllers) BY BoundsAssumption
  <2>2. /\ [s \in Sessions |-> "none"] \in [Sessions -> Phases]
        /\ [c \in Controllers |-> None] \in [Controllers -> Commands \cup {None}]
        /\ [c \in Controllers |-> None] \in [Controllers -> Waiter \cup {None}]
    BY DEF Phases
  <2> QED BY <2>1, <2>2 DEF Owner, States, Intents
<1>3. asked \in 0..MaxCommands BY BoundsAssumption
<1>7. wanted \in BOOLEAN OBVIOUS
<1>4. Undecided(o) = {} BY <1>1 DEF Undecided
<1>5. Shape(o)
  BY <1>1 DEF Shape, HolderShape, StateShape, HoldShape, CallShape, Holder
<1>6. Chosen(o) /\ Waits(o) /\ Resting(o) /\ ~Asking(o)
  BY <1>1, <1>4 DEF Chosen, Live, Waits, Resting, Asking
<1> QED BY <1>2, <1>3, <1>5, <1>6, <1>7 DEF TransportInv, TypeOK

\* Every step is good.
LEMMA NextOutcome ==
  ASSUME TransportInv, Next
  PROVE  Outcome
<1>1. CASE \E c \in Controllers, op \in Commands : Ask(c, op) BY <1>1, AskOutcome
<1>2. CASE Drain BY <1>2, DrainOutcome
<1>3. CASE Edits BY <1>3, DeleteAllOutcome, DeleteOutcome DEF Edits
<1>4. CASE Output BY <1>4, OutputReturnsOutcome, OutputGoneOutcome DEF Output
<1>5. CASE Session
  BY <1>5, StartSucceedsOutcome, StartRefusedOutcome, SessionEndsOutcome, AudibleOutcome,
     SuccessorRefusedOutcome, FinishedNoMoreOutcome, DeviceReleasedOutcome,
     PauseOverdueOutcome, ReleaseDoneOutcome, ReleaseDeadlineOutcome DEF Session
<1>6. CASE Call
  BY <1>6, CallRefusedOutcome, PauseSucceedsOutcome, ResumeSucceedsOutcome,
     CallExpiresOutcome DEF Call
<1>7. CASE EndMaintenance BY <1>7, EndMaintenanceOutcome
<1> QED BY <1>1, <1>2, <1>3, <1>4, <1>5, <1>6, <1>7 DEF Next

\* And keeps the counters' types.
LEMMA NextHistory ==
  ASSUME TransportInv, Next
  PROVE  asked' \in 0..MaxCommands /\ wanted' \in BOOLEAN
<1>0. asked \in 0..MaxCommands /\ wanted \in BOOLEAN /\ MaxCommands \in Nat
  BY BoundsAssumption DEF TransportInv, TypeOK
<1>1. ASSUME NEW c \in Controllers, NEW op \in Commands, Ask(c, op)
      PROVE  asked' \in 0..MaxCommands /\ wanted' \in BOOLEAN
  <2>1. asked < MaxCommands /\ asked' = asked + 1 BY <1>1 DEF Ask
  <2>2. wanted' = wanted \/ wanted' = WantedBy(o, op) BY <1>1 DEF Ask
  <2> QED BY <1>0, <2>1, <2>2, WantedByIsBoolean
<1>2. ASSUME Drain
      PROVE  asked' = asked /\ wanted' \in BOOLEAN
  <2>1. asked' = asked /\ wanted' = WantedBy(o, o.cmd[Head(o.parked)]) BY <1>2 DEF Drain
  <2> QED BY <2>1, WantedByIsBoolean
<1>3. ASSUME Edits
      PROVE  asked' = asked /\ wanted' \in BOOLEAN
  BY <1>0, <1>3 DEF Edits, DeleteAll, Delete
<1>4. ASSUME Output \/ Session \/ Call \/ EndMaintenance
      PROVE  asked' = asked /\ (wanted' = wanted \/ wanted' \in BOOLEAN)
  <2>1. CASE Output BY <2>1 DEF Output, OutputReturns, OutputGone
  <2>2. CASE Session
    <3>1. ASSUME NEW q, Ends(q)
          PROVE  asked' = asked /\ wanted' \in BOOLEAN
      BY <3>1 DEF Ends
    <3>2. CASE StartSucceeds BY <3>2 DEF StartSucceeds
    <3>3. CASE StartRefused BY <3>1, <3>3 DEF StartRefused
    <3>4. CASE StartFails \/ RemovedAudible \/ FinishedAll \/ Fault
      BY <3>1, <3>4 DEF StartFails, RemovedAudible, FinishedAll, Fault
    <3>5. CASE Audible \/ SuccessorRefused BY <3>5 DEF Audible, SuccessorRefused
    <3>6. CASE FinishedNoMore BY <3>6 DEF FinishedNoMore
    <3>7. CASE DeviceReleased BY <3>7 DEF DeviceReleased
    <3>8. CASE PauseOverdue BY <3>8 DEF PauseOverdue
    <3>9. CASE ReleaseDone \/ ReleaseDeadline BY <3>9 DEF ReleaseDone, ReleaseDeadline
    <3> QED BY <2>2, <3>2, <3>3, <3>4, <3>5, <3>6, <3>7, <3>8, <3>9 DEF Session
  <2>3. CASE CallRefused \/ PauseSucceeds \/ ResumeSucceeds
    BY <2>3 DEF CallRefused, PauseSucceeds, ResumeSucceeds
  <2>4. CASE CallExpires BY <2>4 DEF CallExpires, Ends
  <2>5. CASE EndMaintenance BY <2>5 DEF EndMaintenance
  <2> QED BY <1>4, <2>1, <2>2, <2>3, <2>4, <2>5 DEF Call
<1> QED BY <1>0, <1>1, <1>2, <1>3, <1>4 DEF Next

\* The invariant is inductive.
LEMMA NextInvariant == TransportInv /\ [Next]_vars => TransportInv'
<1> SUFFICES ASSUME TransportInv, [Next]_vars PROVE TransportInv' OBVIOUS
<1>1. CASE Next
  <2>1. Outcome /\ asked' \in 0..MaxCommands /\ wanted' \in BOOLEAN
    BY <1>1, NextOutcome, NextHistory
  <2>2. Safe(o') /\ Resting(o') /\ (Asking(o') => wanted') BY <2>1 DEF Outcome
  <2>3. o' \in Owner /\ Shape(o') /\ Chosen(o') /\ Waits(o') BY <2>2 DEF Safe
  <2>4. TypeOK' BY <2>1, <2>3 DEF TypeOK
  <2> QED BY <2>2, <2>3, <2>4 DEF TransportInv
<1>2. CASE UNCHANGED vars
  <2>1. o' = o /\ asked' = asked /\ wanted' = wanted BY <1>2 DEF vars
  <2>2. TypeOK' BY <2>1 DEF TransportInv, TypeOK
  <2> QED BY <2>1, <2>2 DEF TransportInv
<1> QED BY <1>1, <1>2

\* Whoever may hold the device is one session, and in a confirmed hold none.
LEMMA InvariantOneHolder == TransportInv => OneHolder
<1> SUFFICES ASSUME TransportInv PROVE OneHolder OBVIOUS
<1>1. HolderShape(o) /\ HoldShape(o) BY DEF TransportInv, Shape
<1>2. \A s \in Holding : s = Holder(o) BY <1>1 DEF Holding, HolderShape
<1>3. o.maint = "confirmed" => Holding = {}
  <2>1. o.maint = "confirmed" => Holder(o) = 0 BY <1>1 DEF HoldShape, Holder
  <2>2. 0 \notin Sessions BY DEF Sessions
  <2>3. Holding \subseteq Sessions BY DEF Holding
  <2> QED BY <1>2, <2>1, <2>2, <2>3
<1> QED BY <1>2, <1>3 DEF OneHolder

\* The invariant holds: one session at most may hold the device, whoever waits to be
\* heard waits behind a release that plays or for the session that plays, and what plays
\* or will play was asked for.
THEOREM TransportInvariant == Spec => []TransportInv
BY InitInvariant, NextInvariant, PTL DEF Spec

\* The owner's state has its type, for any queue, any callers and any run within the
\* bounds.
THEOREM TransportTypeCorrect == Spec => []TypeOK
<1>1. TransportInv => TypeOK BY DEF TransportInv
<1> QED BY <1>1, TransportInvariant, PTL

\* Two sessions never hold or race for the device, and a hold is confirmed only when
\* none does (startSession, EnterMaintenance).
THEOREM OneHolderAlways == Spec => []OneHolder
BY InvariantOneHolder, TransportInvariant, PTL

\* Every path that ends a command's playback has recorded why before the command is
\* answered (settleWaiters).
THEOREM ReasonIsRecordedAlways == Spec => []ReasonIsRecorded
<1>1. TransportInv => ReasonIsRecorded BY DEF TransportInv, Waits, ReasonIsRecorded
<1> QED BY <1>1, TransportInvariant, PTL

\* A session starts only while playback is asked for and the output is there (afterRelease,
\* outputGone: "never autoplay").
THEOREM NothingPlaysUnaskedAlways == Spec => NothingPlaysUnasked
<1>1. TransportInv /\ [Next]_vars =>
        [o'.sessions > o.sessions => wanted' /\ o'.output = "available"]_vars
  <2> SUFFICES ASSUME TransportInv, Next
               PROVE  o'.sessions > o.sessions => wanted' /\ o'.output = "available"
    OBVIOUS
  <2> QED BY NextOutcome DEF Outcome
<1> QED BY <1>1, TransportInvariant, PTL DEF Spec, NothingPlaysUnasked
=============================================================================
