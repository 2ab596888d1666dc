------------------------------- MODULE Pairing -------------------------------
(***************************************************************************)
(* Pairing by approval: pairing.Store, the token it has auth.Store mint and *)
(* revoke, and the stream on which a device waits for the verdict.         *)
(*                                                                         *)
(* A row of the store has one mutex for all its transitions and one timer. *)
(* A timer that fired waits for the mutex like any other caller, and Stop  *)
(* cannot call it back.  Two things happen outside the mutex: the revoke of*)
(* a token nobody acknowledged, and the callback that publishes a verdict. *)
(*                                                                         *)
(* Time is counted in ticks.  A request's token is named after the request:*)
(* a row is approved at most once.                                         *)
(***************************************************************************)
EXTENDS Integers, FiniteSets

CONSTANTS
  Requests,          \* the request ids, none used twice
  Streaming,         \* those whose device also opens an event stream
  MaxPending,        \* Options.MaxPending
  TTL,               \* Options.TTL, in ticks
  Grace,             \* Options.Grace, in ticks
  Backoff,           \* revokeRetryBackoff, one length for its three
  MaxRevokeAttempts  \* maxRevokeAttempts

ASSUME TimesAssumption ==
  /\ Streaming \subseteq Requests
  /\ MaxPending \in Nat
  /\ {TTL, Grace, Backoff, MaxRevokeAttempts} \subseteq Nat \ {0}

VARIABLES
  row,       \* Request.State, with "none" before it is created and "gone" after
  age,       \* now - CreatedAt, no further than Lifetime
  decided,   \* now - DecidedAt, no further than Grace
  timer,     \* the ticks left on expiryTimer, or NoTimer
  gen,       \* timerGen
  queued,    \* fired timers that wait for the mutex: request and generation
  minted,    \* the rows with a TokenID
  attempts,  \* revokeAttempts
  revoking,  \* where onTimer is with a revoke, outside the mutex
  closed,
  live,      \* the tokens auth.Store accepts
  due,       \* the verdict a callback is about to publish
  stream,    \* where the handler of a device's event stream is
  shown,     \* the state the stream last told the device
  inbox,     \* the verdicts in the subscriber's channel
  holds,     \* the devices that have their token
  acked,     \* history: the devices with a token whose DELETE succeeded
  settled,   \* history: the tokens a DELETE or the operator answers for
  byHand     \* history: the tokens revoked by hand

storeVars  == <<row, age, decided, timer, gen, queued, minted, attempts, revoking, closed>>
streamVars == <<stream, shown, inbox>>
vars       == <<storeVars, live, due, streamVars, holds, acked, settled, byHand>>

NoTimer  == -1
Lifetime == TTL + Grace
Terminal == {"declined", "expired", "certRotated"}
States   == {"pending", "approved"} \cup Terminal
Exists   == {r \in Requests : row[r] \in States}
Pending  == {r \in Requests : row[r] = "pending"}

Init ==
  /\ row       = [r \in Requests |-> "none"]
  /\ age       = [r \in Requests |-> 0]
  /\ decided   = [r \in Requests |-> 0]
  /\ timer     = [r \in Requests |-> NoTimer]
  /\ gen       = [r \in Requests |-> 0]
  /\ attempts  = [r \in Requests |-> 0]
  /\ revoking  = [r \in Requests |-> "no"]
  /\ due       = [r \in Requests |-> "none"]
  /\ stream    = [r \in Requests |-> "closed"]
  /\ shown     = [r \in Requests |-> "none"]
  /\ inbox     = [r \in Requests |-> {}]
  /\ queued = {} /\ minted = {} /\ live = {}
  /\ holds = {} /\ acked = {} /\ settled = {} /\ byHand = {}
  /\ closed = FALSE

TypeOK ==
  /\ row       \in [Requests -> States \cup {"none", "gone"}]
  /\ age       \in [Requests -> 0..Lifetime]
  /\ decided   \in [Requests -> 0..Grace]
  /\ timer     \in [Requests -> Nat \cup {NoTimer}]
  /\ gen       \in [Requests -> Nat]
  /\ attempts  \in [Requests -> Nat]
  /\ revoking  \in [Requests -> {"no", "calling", "done", "failed"}]
  /\ due       \in [Requests -> States \cup {"none"}]
  /\ stream    \in [Requests -> {"closed", "polled", "subscribed", "open"}]
  /\ shown     \in [Requests -> States \cup {"none"}]
  /\ inbox     \in [Requests -> SUBSET States]
  /\ queued    \subseteq Requests \X Nat
  /\ closed    \in BOOLEAN
  /\ minted \cup live \cup holds \cup acked \cup settled \cup byHand \subseteq Requests

-----------------------------------------------------------------------------
\* Mutant: the timer there was is stopped, and none is armed.
StopOnly(r, ticks) ==
  /\ timer' = [timer EXCEPT ![r] = NoTimer]
  /\ gen'   = [gen EXCEPT ![r] = @ + 1]

\* scheduleTimer: stop the timer there is, and arm one of the next generation.
Schedule(r, ticks) ==
  /\ timer' = [timer EXCEPT ![r] = ticks]
  /\ gen'   = [gen EXCEPT ![r] = @ + 1]

\* A verdict: the row leaves pending, and the callback will say so.
Decide(r, state, ticks) ==
  /\ row' = [row EXCEPT ![r] = state]
  /\ decided' = [decided EXCEPT ![r] = 0]
  /\ due' = [due EXCEPT ![r] = state]
  /\ Schedule(r, ticks)

\* The row leaves the store, and all that was in it.
Drop(r) ==
  /\ row'      = [row EXCEPT ![r] = "gone"]
  /\ age'      = [age EXCEPT ![r] = 0]
  /\ decided'  = [decided EXCEPT ![r] = 0]
  /\ timer'    = [timer EXCEPT ![r] = NoTimer]
  /\ gen'      = [gen EXCEPT ![r] = 0]
  /\ attempts' = [attempts EXCEPT ![r] = 0]
  /\ minted'   = minted \ {r}

\* CreateRequest.
CreateRequest(r) ==
  /\ row[r] = "none"
  /\ ~closed
  /\ Cardinality(Pending) < MaxPending
  /\ row' = [row EXCEPT ![r] = "pending"]
  /\ Schedule(r, TTL)
  /\ UNCHANGED <<age, decided, queued, minted, attempts, revoking, closed,
                 live, due, streamVars, holds, acked, settled, byHand>>

\* What the clock says, whatever the timer did: the request is past its TTL.
PastTTL(r) == age[r] >= TTL

\* Mutant: the deadline of the token is that of the request.
WithoutGrace(r) == TTL - age[r]

\* What is left of TTL and grace for the device to fetch its token.
Remaining(r) == Lifetime - age[r]

\* Approve: past the TTL the request is expired on the spot; a certificate other
\* than the request's refuses it; else the token is minted under the mutex.
\* A mint that fails changes nothing.
Approve(r) ==
  /\ row[r] = "pending"
  /\ \/ /\ PastTTL(r)
        /\ Decide(r, "expired", Grace)
        /\ UNCHANGED <<minted, live>>
     \/ /\ ~PastTTL(r)
        /\ Decide(r, "certRotated", Grace)
        /\ UNCHANGED <<minted, live>>
     \/ /\ ~PastTTL(r)
        /\ Decide(r, "approved", Remaining(r))
        /\ minted' = minted \cup {r}
        /\ live'   = live \cup {r}
  /\ UNCHANGED <<age, queued, attempts, revoking, closed,
                 streamVars, holds, acked, settled, byHand>>

\* Decline, with the same guard on the clock.
Decline(r) ==
  /\ row[r] = "pending"
  /\ Decide(r, IF PastTTL(r) THEN "expired" ELSE "declined", Grace)
  /\ UNCHANGED <<age, queued, minted, attempts, revoking, closed,
                 live, streamVars, holds, acked, settled, byHand>>

\* The token a poll returns is on its way: the device gets it or the answer is lost.
Receives(r) == holds' \in {holds, holds \cup {r}}

\* Poll, in the state that has a token.  That the token was returned is recorded in
\* the row, for a line of the log only, and left out here.
Poll(r) ==
  /\ row[r] = "approved"
  /\ Receives(r)
  /\ UNCHANGED <<storeVars, live, due, streamVars, acked, settled, byHand>>

\* Mutant: a DELETE takes the row away in any state.
NeverOwned(r) == FALSE

\* onTimer owns an expired row with a token, and a DELETE of it is refused.
OwnedByTimer(r) == row[r] = "expired" /\ r \in minted

\* Delete: a cancellation, or the device's word that it has the token.
Delete(r) ==
  /\ r \in Exists
  /\ ~OwnedByTimer(r)
  /\ Drop(r)
  /\ acked'   = IF row[r] = "approved" /\ r \in holds THEN acked \cup {r} ELSE acked
  /\ settled' = IF row[r] = "approved" THEN settled \cup {r} ELSE settled
  /\ UNCHANGED <<queued, revoking, closed, live, due, streamVars, holds, byHand>>

\* Close.
Close ==
  /\ closed' = TRUE
  /\ timer'  = [r \in Requests |-> NoTimer]
  /\ UNCHANGED <<row, age, decided, gen, queued, minted, attempts, revoking,
                 live, due, streamVars, holds, acked, settled, byHand>>

-----------------------------------------------------------------------------
\* A tick of the clock.  Timers that are due may be late.
Tick ==
  /\ age'   = [r \in Requests |-> IF r \in Exists /\ age[r] < Lifetime
                                  THEN age[r] + 1 ELSE age[r]]
  /\ decided' = [r \in Requests |-> IF row[r] \in Terminal /\ decided[r] < Grace
                                      THEN decided[r] + 1 ELSE decided[r]]
  /\ timer' = [r \in Requests |-> IF timer[r] > 0 THEN timer[r] - 1 ELSE timer[r]]
  /\ UNCHANGED <<row, gen, queued, minted, attempts, revoking, closed,
                 live, due, streamVars, holds, acked, settled, byHand>>

\* time.AfterFunc: the callback has a goroutine of its own from here on.
TimerFires(r) ==
  /\ timer[r] = 0
  /\ timer'  = [timer EXCEPT ![r] = NoTimer]
  /\ queued' = queued \cup {<<r, gen[r]>>}
  /\ UNCHANGED <<row, age, decided, gen, minted, attempts, revoking, closed,
                 live, due, streamVars, holds, acked, settled, byHand>>

\* Mutant: the generation is not looked at.
AnyGeneration(r, g) == r \in Exists

\* The callback is that of the timer armed last.
CurrentGeneration(r, g) == r \in Exists /\ gen[r] = g

\* Mutant: the row stays approved until its token is revoked.
RevokeWhileApproved(r) ==
  /\ UNCHANGED <<row, decided>>
  /\ revoking' = [revoking EXCEPT ![r] = "calling"]

\* The row is expired before its token is revoked, and keeps the TokenID.
RevokeBegins(r) ==
  /\ row'      = [row EXCEPT ![r] = "expired"]
  /\ decided'  = IF row[r] = "approved" THEN [decided EXCEPT ![r] = 0] ELSE decided
  /\ revoking' = [revoking EXCEPT ![r] = "calling"]

\* onTimer up to the end of its first critical section.
OnTimer(r, g) ==
  /\ <<r, g>> \in queued
  /\ queued' = queued \ {<<r, g>>}
  /\ \/ /\ closed \/ ~CurrentGeneration(r, g)
        /\ UNCHANGED <<row, age, decided, timer, gen, attempts, minted, due, revoking>>
     \/ /\ ~closed /\ CurrentGeneration(r, g)
        /\ \/ /\ row[r] = "pending"
              /\ Decide(r, "expired", Grace)
              /\ UNCHANGED <<age, attempts, minted, revoking>>
           \/ /\ row[r] = "approved" \/ (row[r] \in Terminal /\ r \in minted)
              /\ RevokeBegins(r)
              /\ UNCHANGED <<age, timer, gen, attempts, minted, due>>
           \/ /\ row[r] \in Terminal /\ r \notin minted
              /\ Drop(r)
              /\ UNCHANGED <<due, revoking>>
  /\ UNCHANGED <<closed, live, streamVars, holds, acked, settled, byHand>>

\* auth.Store.Revoke, called outside the mutex: the token goes, or the write fails,
\* or the token is not there any more.
Revoke(r) ==
  /\ revoking[r] = "calling"
  /\ \/ /\ r \in live
        /\ live'     = live \ {r}
        /\ revoking' = [revoking EXCEPT ![r] = "done"]
     \/ /\ live'     = live
        /\ revoking' = [revoking EXCEPT ![r] = "failed"]
  /\ UNCHANGED <<row, age, decided, timer, gen, queued, minted, attempts, closed,
                 due, streamVars, holds, acked, settled, byHand>>

\* The failure just counted is the last one allowed.
LastAttempt(r) == attempts[r] + 1 >= MaxRevokeAttempts

\* onTimer's second critical section: the row goes once the token is gone, or once
\* the attempts are used up, and the operator is told.
RevokeReturns(r) ==
  /\ revoking[r] \in {"done", "failed"}
  /\ revoking' = [revoking EXCEPT ![r] = "no"]
  /\ \/ /\ closed \/ r \notin Exists
        /\ UNCHANGED <<row, age, decided, timer, gen, attempts, minted, settled>>
     \/ /\ ~closed /\ r \in Exists /\ revoking[r] = "done"
        /\ Drop(r)
        /\ UNCHANGED settled
     \/ /\ ~closed /\ r \in Exists /\ revoking[r] = "failed" /\ LastAttempt(r)
        /\ Drop(r)
        /\ settled' = settled \cup {r}
     \/ /\ ~closed /\ r \in Exists /\ revoking[r] = "failed" /\ ~LastAttempt(r)
        /\ attempts' = [attempts EXCEPT ![r] = @ + 1]
        /\ Schedule(r, Backoff)
        /\ UNCHANGED <<row, age, decided, minted, settled>>
  /\ UNCHANGED <<queued, closed, live, due, streamVars, holds, acked, byHand>>

\* `bridge token revoke`, or the console's.
RevokeByHand(r) ==
  /\ r \in live
  /\ live'    = live \ {r}
  /\ byHand'  = byHand \cup {r}
  /\ UNCHANGED <<storeVars, due, streamVars, holds, acked, settled>>

-----------------------------------------------------------------------------
\* onStateChange, after the mutex is released: the verdict is published, and
\* reaches a stream that has subscribed.
Announce(r) ==
  /\ due[r] # "none"
  /\ due'   = [due EXCEPT ![r] = "none"]
  /\ inbox' = IF stream[r] \in {"subscribed", "open"}
              THEN [inbox EXCEPT ![r] = @ \cup {due[r]}] ELSE inbox
  /\ UNCHANGED <<storeVars, live, stream, shown, holds, acked, settled, byHand>>

\* A Poll on behalf of the stream: what it found.
PollForStream(r) == shown' = [shown EXCEPT ![r] = row[r]]

\* pairingEvents' first Poll, which authenticates the device.
StreamPolls(r) ==
  /\ stream[r] = "closed"
  /\ r \in Exists \cap Streaming
  /\ PollForStream(r)
  /\ stream' = [stream EXCEPT ![r] = "polled"]
  /\ UNCHANGED <<storeVars, live, due, inbox, holds, acked, settled, byHand>>

StreamSubscribes(r) ==
  /\ stream[r] = "polled"
  /\ stream' = [stream EXCEPT ![r] = "subscribed"]
  /\ UNCHANGED <<storeVars, live, due, shown, inbox, holds, acked, settled, byHand>>

\* Mutant: what the first Poll found is sent.
ShowFirstPoll(r) == UNCHANGED shown

\* The second Poll, and the first event: what it found, or what the first one found
\* when the row is gone.
Repoll(r) == IF r \in Exists THEN PollForStream(r) ELSE UNCHANGED shown

StreamOpens(r) ==
  /\ stream[r] = "subscribed"
  /\ stream' = [stream EXCEPT ![r] = "open"]
  /\ Repoll(r)
  /\ holds' \in {holds, holds \cup {q \in {r} : shown'[q] = "approved"}}
  /\ UNCHANGED <<storeVars, live, due, inbox, acked, settled, byHand>>

\* An event of the channel is written; that of an approval has the token in it.
StreamShows(r) ==
  /\ stream[r] = "open"
  /\ \E state \in inbox[r] :
       /\ shown' = [shown EXCEPT ![r] = state]
       /\ inbox' = [inbox EXCEPT ![r] = @ \ {state}]
       /\ IF state = "approved" THEN Receives(r) ELSE UNCHANGED holds
  /\ UNCHANGED <<storeVars, live, due, stream, acked, settled, byHand>>

\* The device leaves, the stream's deadline passes, or the process stops serving it.
StreamCloses(r) ==
  /\ stream[r] # "closed"
  /\ stream' = [stream EXCEPT ![r] = "closed"]
  /\ shown'  = [shown EXCEPT ![r] = "none"]
  /\ inbox'  = [inbox EXCEPT ![r] = {}]
  /\ UNCHANGED <<storeVars, live, due, holds, acked, settled, byHand>>

-----------------------------------------------------------------------------
\* What onTimer does with one of its fired timers.
HandleTimer(r) == \E t \in queued : t[1] = r /\ OnTimer(r, t[2])

Console(r)  == Approve(r) \/ Decline(r) \/ RevokeByHand(r)
Device(r)   == CreateRequest(r) \/ Poll(r) \/ Delete(r)
Sweep(r)    == TimerFires(r) \/ HandleTimer(r) \/ Revoke(r) \/ RevokeReturns(r)
Stream(r)   == Announce(r) \/ StreamPolls(r) \/ StreamSubscribes(r) \/ StreamOpens(r)
                 \/ StreamShows(r) \/ StreamCloses(r)

Next ==
  \/ Tick
  \/ Close
  \/ \E r \in Requests : Console(r) \/ Device(r) \/ Sweep(r) \/ Stream(r)

Spec == Init /\ [][Next]_vars

\* Time passes, the runtime runs a timer that is due and its callback, and a revoke
\* returns.  Nothing is asked of the operator or of the device.
Fairness ==
  /\ WF_vars(Tick)
  /\ \A r \in Requests : /\ WF_vars(TimerFires(r))
                         /\ WF_vars(HandleTimer(r))
                         /\ WF_vars(Revoke(r))
                         /\ WF_vars(RevokeReturns(r))

FairSpec == Spec /\ Fairness

-----------------------------------------------------------------------------
(***************************************************************************)
(* Properties                                                              *)
(***************************************************************************)

\* A timer or a callback of a timer that will act on the row is under way.
Watched(r) ==
  \/ timer[r] # NoTimer
  \/ <<r, gen[r]>> \in queued
  \/ revoking[r] # "no"

\* A token that works is never left with no one to answer for it: its row is in the
\* store with a timer or a revoke under way, or it was taken over by a device's
\* DELETE or left to the operator (onTimer, Delete: "a bare delete here would orphan
\* a still-live token").  A store that was closed gives no such promise.
TokensAreWatched ==
  \A r \in live : closed \/ r \in settled \/ (r \in Exists /\ Watched(r))

\* A token the store may still hand out is not being revoked, and one whose
\* device said it has it works until somebody revokes it by hand (onTimer: the row
\* leaves approved before the revoke begins).
AcknowledgedTokenWorks ==
  \A r \in Requests :
    /\ row[r] = "approved" => revoking[r] = "no"
    /\ r \in acked => r \in live \cup byHand

\* A device has TTL and grace from its request to fetch and acknowledge its token:
\* a revoke begins no sooner (Approve's deadline).
RevokedNoSooner ==
  \A r \in minted : row[r] = "expired" => age[r] = Lifetime

\* A verdict stays for its grace, for a late poll to see it, unless the device takes
\* it away: no timer of an earlier phase removes it (timerGen).
VerdictLingers ==
  [][\A r \in Requests :
       row[r] \in Terminal /\ r \notin minted /\ row'[r] = "gone"
         => Delete(r) \/ decided[r] = Grace]_vars

\* A stream that is open while the row is there shows its verdict, or will: none is
\* lost between the two polls and the subscription (pairingEvents).
VerdictReachesStream ==
  \A r \in Exists \ Pending :
    stream[r] = "open" => \/ shown[r] # "pending"
                          \/ inbox[r] # {}
                          \/ due[r] # "none"

\* Every request leaves the store, and there are only so many: whoever answers,
\* whatever the revoke does, and however late the timers are.
RowsAreReclaimed == <>[](closed \/ Exists = {})
=============================================================================
