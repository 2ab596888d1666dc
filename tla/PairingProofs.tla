---------------------------- MODULE PairingProofs ----------------------------
(***************************************************************************)
(* The safety of pairing for any number of requests and any times.         *)
(*                                                                         *)
(* The argument is about generations.  A row has at most one current timer *)
(* or callback: an armed timer has a generation no callback under way has, *)
(* and a revoke begins with the callback that was the current one.  So the *)
(* time on the current timer is the time the row has left, a revoke has    *)
(* its row to itself, and a row is never without a timer.                  *)
(***************************************************************************)
EXTENDS Pairing, TLAPS

\* The callback of the timer armed last waits for the mutex.
Current(r) == <<r, gen[r]>> \in queued

\* One current timer or callback; callbacks of an id come after its row.
TimersInv(r) ==
  /\ row[r] = "none" => \A n \in Nat : <<r, n>> \notin queued
  /\ row[r] \in States => \A n \in Nat : <<r, n>> \in queued => n <= gen[r]
  /\ timer[r] # NoTimer => row[r] \in States /\ ~Current(r)
  /\ ~closed /\ row[r] \in States => Watched(r)

\* A revoke has an expired row with its token, and no timer beside it.
RevokesInv(r) ==
  /\ revoking[r] # "no" => /\ row[r] = "expired" /\ r \in minted
                           /\ timer[r] = NoTimer /\ ~Current(r)
  /\ revoking[r] = "done" => r \notin live

\* Where a token's row is, and who answers for a token.
TokensInv(r) ==
  /\ r \in minted => row[r] \in {"approved", "expired"}
  /\ row[r] = "approved" => r \in minted /\ r \in live \cup byHand
  /\ r \in live => r \in minted \cup settled
  /\ r \in acked => row[r] = "gone" /\ r \in live \cup byHand

\* The current timer has no less on it than what the phase has left.
PhaseInv(r) ==
  /\ row[r] = "approved" => /\ timer[r] # NoTimer => age[r] + timer[r] >= Lifetime
                            /\ Current(r) => age[r] = Lifetime
  /\ row[r] = "expired" /\ r \in minted => age[r] = Lifetime
  /\ row[r] \in Terminal /\ r \notin minted =>
       /\ timer[r] # NoTimer => decided[r] + timer[r] >= Grace
       /\ Current(r) => decided[r] = Grace

\* A verdict is never "pending", and an open stream shows one or will.
StreamInv(r) ==
  /\ due[r] # "pending" /\ "pending" \notin inbox[r]
  /\ row[r] \in States \ {"pending"} /\ stream[r] = "open"
       => shown[r] # "pending" \/ inbox[r] # {} \/ due[r] # "none"

RowInv(r) == TimersInv(r) /\ RevokesInv(r) /\ TokensInv(r) /\ PhaseInv(r) /\ StreamInv(r)

PairingInv == TypeOK /\ \A r \in Requests : RowInv(r)

-----------------------------------------------------------------------------
LEMMA Times == /\ TTL \in Nat /\ Grace \in Nat /\ Backoff \in Nat
               /\ Lifetime \in Nat /\ TTL <= Lifetime /\ Grace <= Lifetime
  BY TimesAssumption DEF Lifetime

LEMMA InitInv == Init => PairingInv
<1> SUFFICES ASSUME Init PROVE PairingInv
  OBVIOUS
<1>1. /\ row \in [Requests -> States \cup {"none", "gone"}]
      /\ timer \in [Requests -> Nat \cup {NoTimer}]
      /\ due \in [Requests -> States \cup {"none"}]
      /\ shown \in [Requests -> States \cup {"none"}]
      /\ inbox \in [Requests -> SUBSET States]
  BY DEF Init, States
<1>2. TypeOK
  <2>1. /\ age \in [Requests -> 0..Lifetime] /\ decided \in [Requests -> 0..Grace]
        /\ gen \in [Requests -> Nat] /\ attempts \in [Requests -> Nat]
        /\ revoking \in [Requests -> {"no", "calling", "done", "failed"}]
        /\ stream \in [Requests -> {"closed", "polled", "subscribed", "open"}]
    BY Times DEF Init
  <2>2. /\ queued \subseteq Requests \X Nat
        /\ minted \cup live \cup holds \cup acked \cup settled \cup byHand \subseteq Requests
    BY DEF Init
  <2>3. closed \in BOOLEAN
    BY Zenon DEF Init
  <2> QED BY <1>1, <2>1, <2>2, <2>3 DEF TypeOK
<1>3. ASSUME NEW r \in Requests PROVE RowInv(r)
  <2>1. TimersInv(r) /\ RevokesInv(r)
    BY DEF Init, TimersInv, RevokesInv, Watched, Current, States, Terminal
  <2>2. TokensInv(r) /\ PhaseInv(r) /\ StreamInv(r)
    BY DEF Init, TokensInv, PhaseInv, StreamInv, States, Terminal
  <2> QED BY <2>1, <2>2 DEF RowInv
<1> QED BY <1>2, <1>3 DEF PairingInv

\* A step that leaves alone all that RowInv says of a row keeps it.
LEMMA Frame == ASSUME NEW q \in Requests, RowInv(q),
                      row'[q] = row[q], age'[q] = age[q], decided'[q] = decided[q],
                      timer'[q] = timer[q], gen'[q] = gen[q], revoking'[q] = revoking[q],
                      due'[q] = due[q], stream'[q] = stream[q], shown'[q] = shown[q],
                      inbox'[q] = inbox[q],
                      q \in minted' <=> q \in minted, q \in live' <=> q \in live,
                      q \in byHand' <=> q \in byHand, q \in settled' <=> q \in settled,
                      q \in acked' <=> q \in acked,
                      \A n : <<q, n>> \in queued' <=> <<q, n>> \in queued,
                      closed' = closed
               PROVE  RowInv(q)'
<1>1. TimersInv(q)' /\ RevokesInv(q)'
  BY DEF RowInv, TimersInv, RevokesInv, Current, Watched
<1>2. TokensInv(q)' /\ StreamInv(q)'
  BY DEF RowInv, TokensInv, StreamInv
<1>3. PhaseInv(q)'
  BY DEF RowInv, PhaseInv, Current
<1> QED BY <1>1, <1>2, <1>3 DEF RowInv

\* Actions of one row, and what they leave alone.
LEMMA CreateStep == ASSUME PairingInv, NEW r \in Requests, CreateRequest(r) PROVE PairingInv'
<1> USE DEF PairingInv
<1>1. /\ row[r] = "none" /\ ~closed
      /\ row' = [row EXCEPT ![r] = "pending"]
      /\ timer' = [timer EXCEPT ![r] = TTL] /\ gen' = [gen EXCEPT ![r] = gen[r] + 1]
      /\ UNCHANGED <<age, decided, queued, minted, attempts, revoking, closed,
                     live, due, stream, shown, inbox, holds, acked, settled, byHand>>
  BY DEF CreateRequest, Schedule, streamVars
<1>2. TypeOK'
  BY <1>1, Times DEF TypeOK, States
<1>3. RowInv(r)'
  <2>1. RowInv(r) OBVIOUS
  <2>2. /\ row'[r] = "pending" /\ timer'[r] = TTL /\ gen'[r] = gen[r] + 1 /\ gen[r] \in Nat
    BY <1>1 DEF TypeOK
  <2>3. TimersInv(r)'
    BY <1>1, <2>1, <2>2, Times DEF RowInv, TimersInv, Current, Watched, NoTimer, States
  <2>4. RevokesInv(r)' /\ TokensInv(r)'
    BY <1>1, <2>1, <2>2 DEF RowInv, TimersInv, RevokesInv, TokensInv, Current
  <2>5. PhaseInv(r)' /\ StreamInv(r)'
    BY <1>1, <2>1, <2>2 DEF RowInv, PhaseInv, StreamInv, States, Terminal
  <2> QED BY <2>3, <2>4, <2>5 DEF RowInv
<1>4. ASSUME NEW q \in Requests \ {r} PROVE RowInv(q)'
  <2>1. RowInv(q) OBVIOUS
  <2> QED BY <1>1, <2>1, Frame DEF TypeOK
<1> QED BY <1>2, <1>3, <1>4

\* A row leaves pending: all of Approve, Decline and onTimer that changes it.
LEMMA DecideStep ==
  ASSUME PairingInv, NEW r \in Requests, NEW state \in States \ {"pending"}, NEW ticks \in Nat,
         Decide(r, state, ticks), row[r] = "pending",
         state = "approved" => ticks = Lifetime - age[r],
         state # "approved" => ticks = Grace,
         minted' = (IF state = "approved" THEN minted \cup {r} ELSE minted),
         live' = (IF state = "approved" THEN live \cup {r} ELSE live),
         queued' \subseteq queued,
         \A q \in Requests \ {r} : \A n : <<q, n>> \in queued => <<q, n>> \in queued',
         UNCHANGED <<age, attempts, revoking, closed, streamVars, holds, acked, settled, byHand>>
  PROVE  PairingInv'
<1> USE DEF PairingInv
<1>1. /\ row' = [row EXCEPT ![r] = state] /\ decided' = [decided EXCEPT ![r] = 0]
      /\ due' = [due EXCEPT ![r] = state]
      /\ timer' = [timer EXCEPT ![r] = ticks] /\ gen' = [gen EXCEPT ![r] = gen[r] + 1]
      /\ UNCHANGED <<age, attempts, revoking, closed, stream, shown, inbox,
                     holds, acked, settled, byHand>>
  BY DEF Decide, Schedule, streamVars
<1>2. TypeOK'
  <2>1. /\ row' \in [Requests -> States \cup {"none", "gone"}]
        /\ due' \in [Requests -> States \cup {"none"}]
        /\ decided' \in [Requests -> 0..Grace]
        /\ timer' \in [Requests -> Nat \cup {NoTimer}] /\ gen' \in [Requests -> Nat]
    BY <1>1, Times DEF TypeOK
  <2>2. /\ minted' \cup live' \cup holds' \cup acked' \cup settled' \cup byHand' \subseteq Requests
        /\ queued' \subseteq Requests \X Nat
    BY <1>1 DEF TypeOK
  <2> QED BY <1>1, <2>1, <2>2 DEF TypeOK
<1>3. RowInv(r)'
  <2>1. RowInv(r) OBVIOUS
  <2>2. /\ row'[r] = state /\ decided'[r] = 0 /\ timer'[r] = ticks /\ ticks # NoTimer
        /\ due'[r] = state /\ gen'[r] = gen[r] + 1 /\ gen[r] \in Nat
        /\ age'[r] = age[r] /\ age[r] \in 0..Lifetime
    BY <1>1 DEF TypeOK, NoTimer
  <2>3. \A n \in Nat : <<r, n>> \in queued' => n <= gen[r]
    BY <2>1 DEF RowInv, TimersInv, States
  <2>4. ~Current(r)'
    BY <2>2, <2>3 DEF Current
  <2>5. TimersInv(r)'
    BY <2>2, <2>3, <2>4 DEF TimersInv, Watched, States, Terminal
  <2>6. revoking'[r] = "no" /\ r \notin minted /\ r \notin acked
    BY <1>1, <2>1, Zenon DEF RowInv, RevokesInv, TokensInv
  <2>7. RevokesInv(r)' /\ TokensInv(r)'
    BY <1>1, <2>1, <2>2, <2>6 DEF RowInv, RevokesInv, TokensInv
  <2>8. PhaseInv(r)'
    BY <1>1, <2>2, <2>4, <2>6, Times DEF PhaseInv, States, Terminal
  <2>9. StreamInv(r)'
    BY <1>1, <2>1, <2>2 DEF RowInv, StreamInv, States, Terminal
  <2> QED BY <2>5, <2>7, <2>8, <2>9 DEF RowInv
<1>4. ASSUME NEW q \in Requests \ {r} PROVE RowInv(q)'
  <2>1. RowInv(q) OBVIOUS
  <2>2. \A n : <<q, n>> \in queued' <=> <<q, n>> \in queued
    OBVIOUS
  <2> QED BY <1>1, <2>1, <2>2, Frame DEF TypeOK
<1> QED BY <1>2, <1>3, <1>4

LEMMA ApproveStep == ASSUME PairingInv, NEW r \in Requests, Approve(r) PROVE PairingInv'
<1>0. /\ row[r] = "pending"
      /\ UNCHANGED <<age, queued, attempts, revoking, closed, streamVars, holds, acked, settled, byHand>>
  BY DEF Approve
<1>1. CASE Decide(r, "approved", Remaining(r)) /\ minted' = minted \cup {r} /\ live' = live \cup {r}
  <2>1. Remaining(r) \in Nat /\ Remaining(r) = Lifetime - age[r]
    BY Times DEF Remaining, PairingInv, TypeOK
  <2> QED BY <1>0, <1>1, <2>1, DecideStep DEF States
<1>2. CASE \E state \in {"expired", "certRotated"} :
             Decide(r, state, Grace) /\ UNCHANGED <<minted, live>>
  BY <1>0, <1>2, DecideStep, Times DEF States, Terminal
<1> QED BY <1>1, <1>2 DEF Approve

LEMMA DeclineStep == ASSUME PairingInv, NEW r \in Requests, Decline(r) PROVE PairingInv'
<1>1. PICK state \in {"expired", "declined"} : Decide(r, state, Grace)
  BY DEF Decline
<1> QED BY <1>1, DecideStep, Times DEF Decline, States, Terminal

\* A row leaves the store: a device's DELETE, the end of a verdict's grace, or the
\* end of a revoke.
LEMMA DropStep ==
  ASSUME PairingInv, NEW r \in Requests, Drop(r), row[r] \in States,
         r \in live => r \notin minted \/ r \in settled',
         settled' \in {settled, settled \cup {r}},
         acked' = acked \/ (acked' = acked \cup {r} /\ r \in live \cup byHand),
         revoking'[r] = "no", revoking' \in [Requests -> {"no", "calling", "done", "failed"}],
         \A q \in Requests \ {r} : revoking'[q] = revoking[q],
         queued' \subseteq queued,
         \A q \in Requests \ {r} : \A n : <<q, n>> \in queued => <<q, n>> \in queued',
         UNCHANGED <<closed, live, due, streamVars, holds, byHand>>
  PROVE  PairingInv'
<1> USE DEF PairingInv
<1>1. /\ row' = [row EXCEPT ![r] = "gone"] /\ age' = [age EXCEPT ![r] = 0]
      /\ decided' = [decided EXCEPT ![r] = 0] /\ timer' = [timer EXCEPT ![r] = NoTimer]
      /\ gen' = [gen EXCEPT ![r] = 0] /\ attempts' = [attempts EXCEPT ![r] = 0]
      /\ minted' = minted \ {r}
      /\ UNCHANGED <<closed, live, due, stream, shown, inbox, holds, byHand>>
  BY DEF Drop, streamVars
<1>2. TypeOK'
  <2>1. /\ row' \in [Requests -> States \cup {"none", "gone"}]
        /\ age' \in [Requests -> 0..Lifetime] /\ decided' \in [Requests -> 0..Grace]
        /\ timer' \in [Requests -> Nat \cup {NoTimer}] /\ gen' \in [Requests -> Nat]
        /\ attempts' \in [Requests -> Nat]
    BY <1>1, Times DEF TypeOK
  <2>2. /\ minted' \cup live' \cup holds' \cup acked' \cup settled' \cup byHand' \subseteq Requests
        /\ queued' \subseteq Requests \X Nat
    BY <1>1 DEF TypeOK
  <2> QED BY <1>1, <2>1, <2>2 DEF TypeOK
<1>3. RowInv(r)'
  <2>1. RowInv(r) OBVIOUS
  <2>2. /\ row'[r] = "gone" /\ timer'[r] = NoTimer /\ r \notin minted'
        /\ due'[r] = due[r] /\ inbox'[r] = inbox[r]
    BY <1>1 DEF TypeOK
  <2>3. TimersInv(r)' /\ RevokesInv(r)'
    BY <2>2 DEF TimersInv, RevokesInv, States, Terminal
  <2>4. TokensInv(r)'
    BY <1>1, <2>1, <2>2 DEF RowInv, TokensInv, States, Terminal
  <2>5. PhaseInv(r)' /\ StreamInv(r)'
    BY <1>1, <2>1, <2>2 DEF RowInv, PhaseInv, StreamInv, States, Terminal
  <2> QED BY <2>3, <2>4, <2>5 DEF RowInv
<1>4. ASSUME NEW q \in Requests \ {r} PROVE RowInv(q)'
  <2>1. RowInv(q) OBVIOUS
  <2>2. \A n : <<q, n>> \in queued' <=> <<q, n>> \in queued
    OBVIOUS
  <2>3. /\ row'[q] = row[q] /\ age'[q] = age[q] /\ decided'[q] = decided[q]
        /\ timer'[q] = timer[q] /\ gen'[q] = gen[q] /\ revoking'[q] = revoking[q]
        /\ q \in minted' <=> q \in minted
        /\ q \in settled' <=> q \in settled
        /\ q \in acked' <=> q \in acked
    BY <1>1 DEF TypeOK
  <2> QED BY <1>1, <2>1, <2>2, <2>3, Frame
<1> QED BY <1>2, <1>3, <1>4

LEMMA DeleteStep == ASSUME PairingInv, NEW r \in Requests, Delete(r) PROVE PairingInv'
<1>1. /\ row[r] \in States /\ ~OwnedByTimer(r) /\ Drop(r)
      /\ UNCHANGED <<queued, revoking, closed, live, due, streamVars, holds, byHand>>
      /\ acked' = IF row[r] = "approved" /\ r \in holds THEN acked \cup {r} ELSE acked
      /\ settled' = IF row[r] = "approved" THEN settled \cup {r} ELSE settled
  BY DEF Delete, Exists
<1>2. RowInv(r) /\ TypeOK
  BY DEF PairingInv
<1>3. r \in minted => row[r] = "approved"
  BY <1>1, <1>2 DEF RowInv, TokensInv, OwnedByTimer
<1>4. revoking[r] = "no"
  BY <1>1, <1>2 DEF RowInv, RevokesInv, OwnedByTimer
<1>5. row[r] = "approved" => r \in live \cup byHand
  BY <1>2 DEF RowInv, TokensInv
<1>6. /\ acked' = acked \/ (acked' = acked \cup {r} /\ r \in live \cup byHand)
      /\ settled' \in {settled, settled \cup {r}}
      /\ r \in live => r \notin minted \/ r \in settled'
  BY <1>1, <1>3, <1>5
<1>7. revoking'[r] = "no" /\ revoking' \in [Requests -> {"no", "calling", "done", "failed"}]
      /\ (\A q \in Requests \ {r} : revoking'[q] = revoking[q])
  BY <1>1, <1>2, <1>4 DEF TypeOK
<1> QED BY <1>1, <1>6, <1>7, DropStep

LEMMA CloseStep == ASSUME PairingInv, Close PROVE PairingInv'
<1> USE DEF PairingInv
<1>1. /\ closed' = TRUE /\ timer' = [r \in Requests |-> NoTimer]
      /\ UNCHANGED <<row, age, decided, gen, queued, minted, attempts, revoking,
                     live, due, stream, shown, inbox, holds, acked, settled, byHand>>
  BY DEF Close, streamVars
<1>2. TypeOK'
  <2>1. closed' \in BOOLEAN
    BY <1>1
  <2>2. timer' \in [Requests -> Nat \cup {NoTimer}]
    BY <1>1
  <2> QED BY <1>1, <2>1, <2>2 DEF TypeOK
<1>3. ASSUME NEW r \in Requests PROVE RowInv(r)'
  <2>1. RowInv(r) OBVIOUS
  <2>2. timer'[r] = NoTimer
    BY <1>1
  <2>3. TimersInv(r)' /\ RevokesInv(r)'
    BY <1>1, <2>1, <2>2 DEF RowInv, TimersInv, RevokesInv, Current
  <2>4. TokensInv(r)' /\ StreamInv(r)'
    BY <1>1, <2>1 DEF RowInv, TokensInv, StreamInv
  <2>5. PhaseInv(r)'
    BY <1>1, <2>1, <2>2 DEF RowInv, PhaseInv, Current
  <2> QED BY <2>3, <2>4, <2>5 DEF RowInv
<1> QED BY <1>2, <1>3

LEMMA TickStep == ASSUME PairingInv, Tick PROVE PairingInv'
<1> USE DEF PairingInv
<1>1. /\ age' = [r \in Requests |-> IF r \in Exists /\ age[r] < Lifetime
                                    THEN age[r] + 1 ELSE age[r]]
      /\ decided' = [r \in Requests |-> IF row[r] \in Terminal /\ decided[r] < Grace
                                        THEN decided[r] + 1 ELSE decided[r]]
      /\ timer' = [r \in Requests |-> IF timer[r] > 0 THEN timer[r] - 1 ELSE timer[r]]
      /\ UNCHANGED <<row, gen, queued, minted, attempts, revoking, closed,
                     live, due, stream, shown, inbox, holds, acked, settled, byHand>>
  BY DEF Tick, streamVars
<1>2. TypeOK'
  <2>1. /\ age' \in [Requests -> 0..Lifetime] /\ decided' \in [Requests -> 0..Grace]
        /\ timer' \in [Requests -> Nat \cup {NoTimer}]
    BY <1>1, Times DEF TypeOK, NoTimer
  <2> QED BY <1>1, <2>1 DEF TypeOK
<1>3. ASSUME NEW r \in Requests PROVE RowInv(r)'
  <2>1. RowInv(r) OBVIOUS
  <2>2. /\ age[r] \in 0..Lifetime /\ decided[r] \in 0..Grace /\ timer[r] \in Nat \cup {-1}
    BY DEF TypeOK, NoTimer
  <2>3. /\ row[r] \in States =>
             age'[r] = IF age[r] < Lifetime THEN age[r] + 1 ELSE age[r]
        /\ row[r] \in Terminal =>
             decided'[r] = IF decided[r] < Grace THEN decided[r] + 1 ELSE decided[r]
        /\ timer'[r] = IF timer[r] > 0 THEN timer[r] - 1 ELSE timer[r]
    BY <1>1 DEF Exists
  <2>4. timer'[r] # NoTimer <=> timer[r] # NoTimer
    BY <2>2, <2>3 DEF NoTimer
  <2>5. TimersInv(r)' /\ RevokesInv(r)'
    BY <1>1, <2>1, <2>4 DEF RowInv, TimersInv, RevokesInv, Current, Watched
  <2>6. TokensInv(r)' /\ StreamInv(r)'
    BY <1>1, <2>1 DEF RowInv, TokensInv, StreamInv
  <2>7. PhaseInv(r)'
    <3>1. row[r] = "approved" => /\ timer'[r] # NoTimer => age'[r] + timer'[r] >= Lifetime
                                 /\ Current(r) => age'[r] = Lifetime
      BY <2>1, <2>2, <2>3, <2>4, Times DEF RowInv, PhaseInv, States, NoTimer
    <3>2. row[r] = "expired" /\ r \in minted => age'[r] = Lifetime
      BY <2>1, <2>2, <2>3, Times DEF RowInv, PhaseInv, States, Terminal
    <3>3. row[r] \in Terminal /\ r \notin minted =>
            /\ timer'[r] # NoTimer => decided'[r] + timer'[r] >= Grace
            /\ Current(r) => decided'[r] = Grace
      BY <2>1, <2>2, <2>3, <2>4, Times DEF RowInv, PhaseInv, NoTimer
    <3> QED BY <1>1, <3>1, <3>2, <3>3 DEF PhaseInv, Current
  <2> QED BY <2>5, <2>6, <2>7 DEF RowInv
<1> QED BY <1>2, <1>3

LEMMA FiresStep == ASSUME PairingInv, NEW r \in Requests, TimerFires(r) PROVE PairingInv'
<1> USE DEF PairingInv
<1>1. /\ timer[r] = 0 /\ timer' = [timer EXCEPT ![r] = NoTimer]
      /\ queued' = queued \cup {<<r, gen[r]>>}
      /\ UNCHANGED <<row, age, decided, gen, minted, attempts, revoking, closed,
                     live, due, stream, shown, inbox, holds, acked, settled, byHand>>
  BY DEF TimerFires, streamVars
<1>2. TypeOK'
  <2>1. /\ timer' \in [Requests -> Nat \cup {NoTimer}] /\ queued' \subseteq Requests \X Nat
    BY <1>1 DEF TypeOK
  <2> QED BY <1>1, <2>1 DEF TypeOK
<1>3. RowInv(r)'
  <2>1. RowInv(r) OBVIOUS
  <2>2. timer'[r] = NoTimer /\ timer[r] # NoTimer /\ gen[r] \in Nat
    BY <1>1 DEF TypeOK, NoTimer
  <2>3. Current(r)' /\ row[r] \in States
    BY <1>1, <2>1, <2>2 DEF RowInv, TimersInv, Current
  <2>4. TimersInv(r)'
    BY <1>1, <2>1, <2>2, <2>3 DEF RowInv, TimersInv, Current, Watched, States, Terminal
  <2>5. RevokesInv(r)' /\ TokensInv(r)' /\ StreamInv(r)'
    BY <1>1, <2>1, <2>2 DEF RowInv, RevokesInv, TokensInv, StreamInv
  <2>6. PhaseInv(r)'
    BY <1>1, <2>1, <2>2, Times DEF RowInv, PhaseInv, TypeOK
  <2> QED BY <2>4, <2>5, <2>6 DEF RowInv
<1>4. ASSUME NEW q \in Requests \ {r} PROVE RowInv(q)'
  <2>1. RowInv(q) OBVIOUS
  <2>2. timer'[q] = timer[q] /\ \A n : <<q, n>> \in queued' <=> <<q, n>> \in queued
    BY <1>1 DEF TypeOK
  <2> QED BY <1>1, <2>1, <2>2, Frame
<1> QED BY <1>2, <1>3, <1>4

\* A callback of an earlier generation, or of a closed store, goes without a trace.
LEMMA StaleStep ==
  ASSUME PairingInv, NEW r \in Requests, NEW g \in Nat,
         closed \/ ~CurrentGeneration(r, g), queued' = queued \ {<<r, g>>},
         UNCHANGED <<row, age, decided, timer, gen, attempts, minted, due, revoking, closed,
                     live, streamVars, holds, acked, settled, byHand>>
  PROVE  PairingInv'
<1> USE DEF PairingInv
<1>1. UNCHANGED <<stream, shown, inbox>>
  BY DEF streamVars
<1>2. TypeOK'
  <2>1. queued' \subseteq Requests \X Nat
    BY DEF TypeOK
  <2> QED BY <1>1, <2>1 DEF TypeOK
<1>3. ASSUME NEW q \in Requests PROVE RowInv(q)'
  <2>1. RowInv(q) OBVIOUS
  <2>2. ~closed /\ row[q] \in States /\ Current(q) => Current(q)'
    BY DEF CurrentGeneration, Current, Exists
  <2>3. Current(q)' => Current(q)
    BY DEF Current
  <2>4. TimersInv(q)'
    BY <2>1, <2>2, <2>3 DEF RowInv, TimersInv, Watched, Current
  <2>5. RevokesInv(q)' /\ TokensInv(q)' /\ StreamInv(q)'
    BY <1>1, <2>1, <2>3 DEF RowInv, RevokesInv, TokensInv, StreamInv
  <2>6. PhaseInv(q)'
    BY <2>1, <2>3 DEF RowInv, PhaseInv
  <2> QED BY <2>4, <2>5, <2>6 DEF RowInv
<1> QED BY <1>2, <1>3

LEMMA RevokeBeginsStep ==
  ASSUME PairingInv, NEW r \in Requests, Current(r), row[r] \in States,
         row[r] = "approved" \/ (row[r] \in Terminal /\ r \in minted),
         RevokeBegins(r), queued' = queued \ {<<r, gen[r]>>},
         UNCHANGED <<age, timer, gen, attempts, minted, due, closed,
                     live, streamVars, holds, acked, settled, byHand>>
  PROVE  PairingInv'
<1> USE DEF PairingInv
<1>1. /\ row' = [row EXCEPT ![r] = "expired"]
      /\ decided' = IF row[r] = "approved" THEN [decided EXCEPT ![r] = 0] ELSE decided
      /\ revoking' = [revoking EXCEPT ![r] = "calling"]
      /\ UNCHANGED <<stream, shown, inbox>>
  BY DEF RevokeBegins, streamVars
<1>2. TypeOK'
  <2>1. /\ row' \in [Requests -> States \cup {"none", "gone"}]
        /\ decided' \in [Requests -> 0..Grace]
        /\ revoking' \in [Requests -> {"no", "calling", "done", "failed"}]
        /\ queued' \subseteq Requests \X Nat
    BY <1>1, Times DEF TypeOK, States, Terminal
  <2> QED BY <1>1, <2>1 DEF TypeOK
<1>3. RowInv(r)'
  <2>1. RowInv(r) OBVIOUS
  <2>2. row'[r] = "expired" /\ revoking'[r] = "calling"
    BY <1>1 DEF TypeOK
  <2>3. timer'[r] = NoTimer /\ ~Current(r)' /\ r \in minted'
    BY <2>1 DEF RowInv, TimersInv, TokensInv, Current
  <2>4. TimersInv(r)'
    BY <2>1, <2>2, <2>3 DEF RowInv, TimersInv, Watched, States, Terminal
  <2>5. RevokesInv(r)'
    BY <2>2, <2>3 DEF RevokesInv
  <2>6. TokensInv(r)'
    BY <2>1, <2>2, <2>3 DEF RowInv, TokensInv, States, Terminal
  <2>7. row[r] = "approved" \/ row[r] = "expired"
    BY <2>1, <2>3 DEF RowInv, TokensInv
  <2>8. age[r] = Lifetime
    BY <2>1, <2>3, <2>7 DEF RowInv, PhaseInv
  <2>9. PhaseInv(r)'
    BY <2>2, <2>3, <2>8 DEF PhaseInv
  <2>10. StreamInv(r)'
    BY <1>1, <2>1, <2>7 DEF RowInv, StreamInv, States, Terminal
  <2> QED BY <2>4, <2>5, <2>6, <2>9, <2>10 DEF RowInv
<1>4. ASSUME NEW q \in Requests \ {r} PROVE RowInv(q)'
  <2>1. RowInv(q) OBVIOUS
  <2>2. /\ row'[q] = row[q] /\ decided'[q] = decided[q] /\ revoking'[q] = revoking[q]
        /\ \A n : <<q, n>> \in queued' <=> <<q, n>> \in queued
    BY <1>1 DEF TypeOK
  <2> QED BY <1>1, <2>1, <2>2, Frame
<1> QED BY <1>2, <1>3, <1>4

LEMMA OnTimerStep == ASSUME PairingInv, NEW r \in Requests, NEW g, OnTimer(r, g) PROVE PairingInv'
<1>1. /\ <<r, g>> \in queued /\ queued' = queued \ {<<r, g>>} /\ g \in Nat
      /\ UNCHANGED <<closed, live, streamVars, holds, acked, settled, byHand>>
  BY DEF OnTimer, PairingInv, TypeOK
<1>2. TypeOK /\ RowInv(r)
  BY DEF PairingInv
<1>a. \A q \in Requests \ {r} : \A n : <<q, n>> \in queued => <<q, n>> \in queued'
  BY <1>1
<1>3. CASE /\ closed \/ ~CurrentGeneration(r, g)
           /\ UNCHANGED <<row, age, decided, timer, gen, attempts, minted, due, revoking>>
  BY <1>1, <1>3, StaleStep
<1>4. CASE /\ ~closed /\ CurrentGeneration(r, g)
           /\ row[r] = "pending" /\ Decide(r, "expired", Grace)
           /\ UNCHANGED <<age, attempts, minted, revoking>>
  BY <1>1, <1>4, <1>a, DecideStep, Times DEF States, Terminal
<1>5. CASE /\ ~closed /\ CurrentGeneration(r, g)
           /\ row[r] = "approved" \/ (row[r] \in Terminal /\ r \in minted)
           /\ RevokeBegins(r)
           /\ UNCHANGED <<age, timer, gen, attempts, minted, due>>
  <2>1. Current(r) /\ g = gen[r] /\ row[r] \in States
    BY <1>1, <1>5 DEF CurrentGeneration, Current, Exists
  <2> QED BY <1>1, <1>5, <2>1, RevokeBeginsStep
<1>6. CASE /\ ~closed /\ CurrentGeneration(r, g)
           /\ row[r] \in Terminal /\ r \notin minted
           /\ Drop(r) /\ UNCHANGED <<due, revoking>>
  <2>1. revoking[r] = "no" /\ revoking' \in [Requests -> {"no", "calling", "done", "failed"}]
    BY <1>2, <1>6 DEF RowInv, RevokesInv, TypeOK
  <2> QED BY <1>1, <1>6, <1>a, <2>1, DropStep DEF States
<1> QED BY <1>3, <1>4, <1>5, <1>6 DEF OnTimer

LEMMA RevokeStep == ASSUME PairingInv, NEW r \in Requests, Revoke(r) PROVE PairingInv'
<1> USE DEF PairingInv
<1>1. /\ revoking[r] = "calling" /\ live' \subseteq live /\ live \ {r} \subseteq live'
      /\ \/ r \notin live' /\ revoking' = [revoking EXCEPT ![r] = "done"]
         \/ live' = live /\ revoking' = [revoking EXCEPT ![r] = "failed"]
      /\ UNCHANGED <<row, age, decided, timer, gen, queued, minted, attempts, closed,
                     due, stream, shown, inbox, holds, acked, settled, byHand>>
  BY DEF Revoke, streamVars
<1>2. TypeOK'
  <2>1. revoking' \in [Requests -> {"no", "calling", "done", "failed"}]
    BY <1>1 DEF TypeOK
  <2> QED BY <1>1, <2>1 DEF TypeOK
<1>3. RowInv(r)'
  <2>1. RowInv(r) OBVIOUS
  <2>2. revoking'[r] # "no" /\ (revoking'[r] = "done" => r \notin live')
    BY <1>1 DEF TypeOK
  <2>3. row[r] = "expired" /\ r \in minted /\ timer[r] = NoTimer /\ ~Current(r)
    BY <1>1, <2>1 DEF RowInv, RevokesInv
  <2>4. TimersInv(r)' /\ RevokesInv(r)'
    BY <1>1, <2>1, <2>2, <2>3 DEF RowInv, TimersInv, RevokesInv, Watched, Current
  <2>5. TokensInv(r)' /\ StreamInv(r)'
    BY <1>1, <2>1, <2>3 DEF RowInv, TokensInv, StreamInv
  <2>6. PhaseInv(r)'
    BY <1>1, <2>1 DEF RowInv, PhaseInv, Current
  <2> QED BY <2>4, <2>5, <2>6 DEF RowInv
<1>4. ASSUME NEW q \in Requests \ {r} PROVE RowInv(q)'
  <2>1. RowInv(q) OBVIOUS
  <2>2. revoking'[q] = revoking[q] /\ (q \in live' <=> q \in live)
    BY <1>1 DEF TypeOK
  <2> QED BY <1>1, <2>1, <2>2, Frame
<1> QED BY <1>2, <1>3, <1>4

\* A revoke that failed and may be tried again: a timer takes over from it.
LEMMA RetryStep ==
  ASSUME PairingInv, NEW r \in Requests, revoking[r] \in {"done", "failed"},
         revoking' = [revoking EXCEPT ![r] = "no"],
         attempts' = [attempts EXCEPT ![r] = attempts[r] + 1], Schedule(r, Backoff),
         UNCHANGED <<row, age, decided, minted, settled, queued, closed, live, due,
                     streamVars, holds, acked, byHand>>
  PROVE  PairingInv'
<1> USE DEF PairingInv
<1>1. /\ timer' = [timer EXCEPT ![r] = Backoff] /\ gen' = [gen EXCEPT ![r] = gen[r] + 1]
      /\ UNCHANGED <<stream, shown, inbox>>
  BY DEF Schedule, streamVars
<1>2. TypeOK'
  <2>1. /\ timer' \in [Requests -> Nat \cup {NoTimer}] /\ gen' \in [Requests -> Nat]
        /\ attempts' \in [Requests -> Nat]
        /\ revoking' \in [Requests -> {"no", "calling", "done", "failed"}]
    BY <1>1, Times DEF TypeOK
  <2> QED BY <1>1, <2>1 DEF TypeOK
<1>3. RowInv(r)'
  <2>1. RowInv(r) OBVIOUS
  <2>2. /\ timer'[r] = Backoff /\ gen'[r] = gen[r] + 1 /\ gen[r] \in Nat /\ revoking'[r] = "no"
        /\ Backoff # NoTimer
    BY <1>1, Times DEF TypeOK, NoTimer
  <2>3. row[r] = "expired" /\ r \in minted
    BY <2>1 DEF RowInv, RevokesInv
  <2>4. ~Current(r)'
    BY <2>1, <2>2, <2>3 DEF RowInv, TimersInv, Current, States, Terminal
  <2>5. TimersInv(r)'
    BY <2>1, <2>2, <2>3, <2>4 DEF RowInv, TimersInv, Watched, States, Terminal
  <2>6. RevokesInv(r)' /\ TokensInv(r)' /\ StreamInv(r)'
    BY <1>1, <2>1, <2>2 DEF RowInv, RevokesInv, TokensInv, StreamInv
  <2>7. PhaseInv(r)'
    BY <2>1, <2>3 DEF RowInv, PhaseInv
  <2> QED BY <2>5, <2>6, <2>7 DEF RowInv
<1>4. ASSUME NEW q \in Requests \ {r} PROVE RowInv(q)'
  <2>1. RowInv(q) OBVIOUS
  <2>2. timer'[q] = timer[q] /\ gen'[q] = gen[q] /\ revoking'[q] = revoking[q]
    BY <1>1 DEF TypeOK
  <2> QED BY <1>1, <2>1, <2>2, Frame
<1> QED BY <1>2, <1>3, <1>4

LEMMA ReturnsStep == ASSUME PairingInv, NEW r \in Requests, RevokeReturns(r) PROVE PairingInv'
<1>1. /\ revoking[r] \in {"done", "failed"} /\ revoking' = [revoking EXCEPT ![r] = "no"]
      /\ UNCHANGED <<queued, closed, live, due, streamVars, holds, acked, byHand>>
  BY DEF RevokeReturns
<1>2. TypeOK /\ RowInv(r)
  BY DEF PairingInv
<1>3. row[r] = "expired" /\ r \in minted
  BY <1>1, <1>2 DEF RowInv, RevokesInv
<1>4. /\ revoking'[r] = "no" /\ revoking' \in [Requests -> {"no", "calling", "done", "failed"}]
      /\ \A q \in Requests \ {r} : revoking'[q] = revoking[q]
  BY <1>1, <1>2 DEF TypeOK
<1>5. row[r] \in States /\ r \in Exists
  BY <1>3 DEF States, Terminal, Exists
<1>6. CASE closed /\ UNCHANGED <<row, age, decided, timer, gen, attempts, minted, settled>>
  <2>1. TypeOK'
    BY <1>1, <1>2, <1>4, <1>6 DEF TypeOK, streamVars
  <2>2. RowInv(r)'
    <3>1. TimersInv(r)' /\ RevokesInv(r)'
      BY <1>1, <1>2, <1>4, <1>6 DEF RowInv, TimersInv, RevokesInv, Current
    <3>2. TokensInv(r)' /\ StreamInv(r)'
      BY <1>1, <1>2, <1>6 DEF RowInv, TokensInv, StreamInv, streamVars
    <3>3. PhaseInv(r)'
      BY <1>1, <1>2, <1>6 DEF RowInv, PhaseInv, Current
    <3> QED BY <3>1, <3>2, <3>3 DEF RowInv
  <2>3. ASSUME NEW q \in Requests \ {r} PROVE RowInv(q)'
    <3>1. RowInv(q)
      BY DEF PairingInv
    <3> QED BY <1>1, <1>4, <1>6, <3>1, Frame DEF streamVars
  <2> QED BY <2>1, <2>2, <2>3 DEF PairingInv
<1>7. CASE revoking[r] = "done" /\ Drop(r) /\ UNCHANGED settled
  <2>1. r \notin live
    BY <1>2, <1>7 DEF RowInv, RevokesInv
  <2> QED BY <1>1, <1>4, <1>5, <1>7, <2>1, DropStep
<1>8. CASE Drop(r) /\ settled' = settled \cup {r}
  BY <1>1, <1>4, <1>5, <1>8, DropStep
<1>9. CASE /\ attempts' = [attempts EXCEPT ![r] = attempts[r] + 1] /\ Schedule(r, Backoff)
           /\ UNCHANGED <<row, age, decided, minted, settled>>
  BY <1>1, <1>9, RetryStep
<1> QED BY <1>5, <1>6, <1>7, <1>8, <1>9 DEF RevokeReturns

LEMMA ByHandStep == ASSUME PairingInv, NEW r \in Requests, RevokeByHand(r) PROVE PairingInv'
<1> USE DEF PairingInv
<1>1. /\ live' = live \ {r} /\ byHand' = byHand \cup {r}
      /\ UNCHANGED <<row, age, decided, timer, gen, queued, minted, attempts, revoking, closed,
                     due, stream, shown, inbox, holds, acked, settled>>
  BY DEF RevokeByHand, storeVars, streamVars
<1>2. TypeOK'
  <2>1. live' \subseteq Requests /\ byHand' \subseteq Requests
    BY <1>1 DEF TypeOK
  <2> QED BY <1>1, <2>1 DEF TypeOK
<1>3. ASSUME NEW q \in Requests PROVE RowInv(q)'
  <2>1. RowInv(q) OBVIOUS
  <2>2. TimersInv(q)' /\ RevokesInv(q)'
    BY <1>1, <2>1 DEF RowInv, TimersInv, RevokesInv, Watched, Current
  <2>3. TokensInv(q)' /\ StreamInv(q)'
    BY <1>1, <2>1 DEF RowInv, TokensInv, StreamInv
  <2>4. PhaseInv(q)'
    BY <1>1, <2>1 DEF RowInv, PhaseInv, Current
  <2> QED BY <2>2, <2>3, <2>4 DEF RowInv
<1> QED BY <1>2, <1>3

\* Polls and the steps of a stream change nothing of the rows, only what is shown.
LEMMA ShownStep ==
  ASSUME PairingInv, NEW r \in Requests,
         UNCHANGED <<storeVars, live, acked, settled, byHand>>,
         holds' \subseteq Requests,
         due' \in [Requests -> States \cup {"none"}], shown' \in [Requests -> States \cup {"none"}],
         inbox' \in [Requests -> SUBSET States],
         stream' \in [Requests -> {"closed", "polled", "subscribed", "open"}],
         StreamInv(r)',
         \A q \in Requests \ {r} : /\ due'[q] = due[q] /\ shown'[q] = shown[q]
                                   /\ inbox'[q] = inbox[q] /\ stream'[q] = stream[q]
  PROVE  PairingInv'
<1> USE DEF PairingInv, storeVars
<1>1. TypeOK'
  BY DEF TypeOK
<1>2. RowInv(r)'
  <2>1. RowInv(r) OBVIOUS
  <2>2. TimersInv(r)' /\ RevokesInv(r)' /\ TokensInv(r)'
    BY <2>1 DEF RowInv, TimersInv, RevokesInv, TokensInv, Watched, Current
  <2>3. PhaseInv(r)'
    BY <2>1 DEF RowInv, PhaseInv, Current
  <2> QED BY <2>2, <2>3 DEF RowInv
<1>3. ASSUME NEW q \in Requests \ {r} PROVE RowInv(q)'
  <2>1. RowInv(q) OBVIOUS
  <2> QED BY <2>1, Frame
<1> QED BY <1>1, <1>2, <1>3

LEMMA PollStep == ASSUME PairingInv, NEW r \in Requests, Poll(r) PROVE PairingInv'
<1>1. /\ UNCHANGED <<storeVars, live, acked, settled, byHand, due, stream, shown, inbox>>
      /\ holds' \in {holds, holds \cup {r}}
  BY DEF Poll, Receives, streamVars
<1>2. TypeOK /\ RowInv(r)
  BY DEF PairingInv
<1>3. holds' \subseteq Requests
  BY <1>1, <1>2 DEF TypeOK
<1>4. StreamInv(r)'
  BY <1>1, <1>2 DEF RowInv, StreamInv, storeVars
<1> QED BY <1>1, <1>2, <1>3, <1>4, ShownStep DEF TypeOK

LEMMA StreamStep == ASSUME PairingInv, NEW r \in Requests, Stream(r) PROVE PairingInv'
<1>0. TypeOK /\ RowInv(r) /\ holds \subseteq Requests
  BY DEF PairingInv, TypeOK
<1>1. CASE Announce(r)
  <2>1. /\ UNCHANGED <<storeVars, live, stream, shown, holds, acked, settled, byHand>>
        /\ due[r] # "none" /\ due' = [due EXCEPT ![r] = "none"]
        /\ inbox' = IF stream[r] \in {"subscribed", "open"}
                    THEN [inbox EXCEPT ![r] = inbox[r] \cup {due[r]}] ELSE inbox
    BY <1>1 DEF Announce
  <2>2. due[r] \in States
    BY <1>0, <2>1 DEF TypeOK
  <2>3. due' \in [Requests -> States \cup {"none"}] /\ inbox' \in [Requests -> SUBSET States]
    BY <1>0, <2>1, <2>2 DEF TypeOK
  <2>4. StreamInv(r)'
    BY <1>0, <2>1, <2>2 DEF RowInv, StreamInv, storeVars, TypeOK
  <2>5. \A q \in Requests \ {r} : due'[q] = due[q] /\ inbox'[q] = inbox[q]
    BY <1>0, <2>1 DEF TypeOK
  <2> QED BY <1>0, <2>1, <2>3, <2>4, <2>5, ShownStep DEF TypeOK
<1>2. CASE StreamPolls(r)
  <2>1. /\ UNCHANGED <<storeVars, live, due, inbox, holds, acked, settled, byHand>>
        /\ row[r] \in States /\ shown' = [shown EXCEPT ![r] = row[r]]
        /\ stream' = [stream EXCEPT ![r] = "polled"]
    BY <1>2 DEF StreamPolls, PollForStream, Exists
  <2>2. /\ shown' \in [Requests -> States \cup {"none"}]
        /\ stream' \in [Requests -> {"closed", "polled", "subscribed", "open"}]
    BY <1>0, <2>1 DEF TypeOK
  <2>3. StreamInv(r)'
    BY <1>0, <2>1 DEF RowInv, StreamInv, TypeOK
  <2>4. \A q \in Requests \ {r} : shown'[q] = shown[q] /\ stream'[q] = stream[q]
    BY <1>0, <2>1 DEF TypeOK
  <2> QED BY <1>0, <2>1, <2>2, <2>3, <2>4, ShownStep DEF TypeOK
<1>3. CASE StreamSubscribes(r)
  <2>1. /\ UNCHANGED <<storeVars, live, due, shown, inbox, holds, acked, settled, byHand>>
        /\ stream' = [stream EXCEPT ![r] = "subscribed"]
    BY <1>3 DEF StreamSubscribes
  <2>2. stream' \in [Requests -> {"closed", "polled", "subscribed", "open"}]
    BY <1>0, <2>1 DEF TypeOK
  <2>3. StreamInv(r)'
    BY <1>0, <2>1 DEF RowInv, StreamInv, TypeOK
  <2>4. \A q \in Requests \ {r} : stream'[q] = stream[q]
    BY <1>0, <2>1 DEF TypeOK
  <2> QED BY <1>0, <2>1, <2>2, <2>3, <2>4, ShownStep DEF TypeOK
<1>4. CASE StreamOpens(r)
  <2>1. /\ UNCHANGED <<storeVars, live, due, inbox, acked, settled, byHand>>
        /\ stream' = [stream EXCEPT ![r] = "open"] /\ holds' \subseteq holds \cup {r}
        /\ IF row[r] \in States THEN shown' = [shown EXCEPT ![r] = row[r]] ELSE shown' = shown
    BY <1>4 DEF StreamOpens, Repoll, PollForStream, Exists
  <2>2. /\ shown' \in [Requests -> States \cup {"none"}]
        /\ stream' \in [Requests -> {"closed", "polled", "subscribed", "open"}]
        /\ holds' \subseteq Requests
    BY <1>0, <2>1 DEF TypeOK
  <2>3. StreamInv(r)'
    BY <1>0, <2>1 DEF RowInv, StreamInv, TypeOK, storeVars
  <2>4. \A q \in Requests \ {r} : shown'[q] = shown[q] /\ stream'[q] = stream[q]
    BY <1>0, <2>1 DEF TypeOK
  <2> QED BY <1>0, <2>1, <2>2, <2>3, <2>4, ShownStep DEF TypeOK
<1>5. CASE StreamShows(r)
  <2> PICK state \in inbox[r] : /\ shown' = [shown EXCEPT ![r] = state]
                                /\ inbox' = [inbox EXCEPT ![r] = inbox[r] \ {state}]
                                /\ IF state = "approved" THEN Receives(r) ELSE UNCHANGED holds
    BY <1>5 DEF StreamShows
  <2>1. /\ UNCHANGED <<storeVars, live, due, stream, acked, settled, byHand>>
        /\ holds' \subseteq Requests
    BY <1>0, <1>5 DEF StreamShows, Receives
  <2>2. state \in States /\ state # "pending"
    BY <1>0 DEF TypeOK, RowInv, StreamInv
  <2>3. /\ shown' \in [Requests -> States \cup {"none"}]
        /\ inbox' \in [Requests -> SUBSET States]
    BY <1>0, <2>2 DEF TypeOK
  <2>4. StreamInv(r)'
    BY <1>0, <2>1, <2>2 DEF RowInv, StreamInv, TypeOK
  <2>5. \A q \in Requests \ {r} : shown'[q] = shown[q] /\ inbox'[q] = inbox[q]
    BY <1>0 DEF TypeOK
  <2> QED BY <1>0, <2>1, <2>3, <2>4, <2>5, ShownStep DEF TypeOK
<1>6. CASE StreamCloses(r)
  <2>1. /\ UNCHANGED <<storeVars, live, due, holds, acked, settled, byHand>>
        /\ stream' = [stream EXCEPT ![r] = "closed"] /\ shown' = [shown EXCEPT ![r] = "none"]
        /\ inbox' = [inbox EXCEPT ![r] = {}]
    BY <1>6 DEF StreamCloses
  <2>2. /\ shown' \in [Requests -> States \cup {"none"}]
        /\ inbox' \in [Requests -> SUBSET States]
        /\ stream' \in [Requests -> {"closed", "polled", "subscribed", "open"}]
    BY <1>0, <2>1 DEF TypeOK
  <2>3. StreamInv(r)'
    BY <1>0, <2>1 DEF RowInv, StreamInv, TypeOK
  <2>4. \A q \in Requests \ {r} : /\ shown'[q] = shown[q] /\ inbox'[q] = inbox[q]
                                  /\ stream'[q] = stream[q]
    BY <1>0, <2>1 DEF TypeOK
  <2> QED BY <1>0, <2>1, <2>2, <2>3, <2>4, ShownStep DEF TypeOK
<1> QED BY <1>1, <1>2, <1>3, <1>4, <1>5, <1>6 DEF Stream

LEMMA StepInv == ASSUME PairingInv, [Next]_vars PROVE PairingInv'
<1>1. CASE Tick
  BY <1>1, TickStep
<1>2. CASE Close
  BY <1>2, CloseStep
<1>3. ASSUME NEW r \in Requests, Console(r) PROVE PairingInv'
  BY <1>3, ApproveStep, DeclineStep, ByHandStep DEF Console
<1>4. ASSUME NEW r \in Requests, Device(r) PROVE PairingInv'
  BY <1>4, CreateStep, PollStep, DeleteStep DEF Device
<1>5. ASSUME NEW r \in Requests, Sweep(r) PROVE PairingInv'
  BY <1>5, FiresStep, OnTimerStep, RevokeStep, ReturnsStep DEF Sweep, HandleTimer
<1>6. ASSUME NEW r \in Requests, Stream(r) PROVE PairingInv'
  BY <1>6, StreamStep
<1>7. CASE UNCHANGED vars
  <2>1. UNCHANGED <<row, age, decided, timer, gen, queued, minted, attempts, revoking, closed,
                    live, due, stream, shown, inbox, holds, acked, settled, byHand>>
    BY <1>7 DEF vars, storeVars, streamVars
  <2>2. TypeOK'
    BY <2>1 DEF PairingInv, TypeOK
  <2>3. ASSUME NEW q \in Requests PROVE RowInv(q)'
    BY <2>1, Frame DEF PairingInv
  <2> QED BY <2>2, <2>3 DEF PairingInv
<1> QED BY <1>1, <1>2, <1>3, <1>4, <1>5, <1>6, <1>7 DEF Next

LEMMA InvHolds == Spec => []PairingInv
  BY InitInv, StepInv, PTL DEF Spec

-----------------------------------------------------------------------------
\* The store, the tokens and the streams keep their types under every step of
\* pairing.Store, auth.Store and pairingEvents.
THEOREM PairingTypeCorrect == Spec => []TypeOK
<1>1. PairingInv => TypeOK
  BY DEF PairingInv
<1> QED BY <1>1, InvHolds, PTL

\* A working token always has someone to answer for it: a row with a timer or a
\* revoke under way, the device that acknowledged it, or the operator.
THEOREM NoTokenIsOrphaned == Spec => []TokensAreWatched
<1>1. PairingInv => TokensAreWatched
  <2> SUFFICES ASSUME PairingInv, NEW r \in live, ~closed, r \notin settled
               PROVE  r \in Exists /\ Watched(r)
    BY DEF TokensAreWatched
  <2>1. r \in Requests /\ RowInv(r)
    BY DEF PairingInv, TypeOK
  <2>2. row[r] \in States
    BY <2>1 DEF RowInv, TokensInv, States, Terminal
  <2> QED BY <2>1, <2>2 DEF RowInv, TimersInv, Exists
<1> QED BY <1>1, InvHolds, PTL

\* A token that may still be handed out is not being revoked, and an acknowledged
\* one works until it is revoked by hand (Delete against onTimer's revoke).
THEOREM NoLiveTokenIsTaken == Spec => []AcknowledgedTokenWorks
<1>1. PairingInv => AcknowledgedTokenWorks
  BY DEF PairingInv, RowInv, RevokesInv, TokensInv, AcknowledgedTokenWorks
<1> QED BY <1>1, InvHolds, PTL

\* No revoke begins before the TTL and the grace of the request are over (Approve's
\* deadline, and timerGen against callbacks of earlier phases).
THEOREM DeviceHasItsTime == Spec => []RevokedNoSooner
<1>1. PairingInv => RevokedNoSooner
  BY DEF PairingInv, TypeOK, RowInv, PhaseInv, RevokedNoSooner
<1> QED BY <1>1, InvHolds, PTL

\* An open stream shows the verdict of its row, or will (pairingEvents' second Poll).
THEOREM NoVerdictIsLost == Spec => []VerdictReachesStream
<1>1. PairingInv => VerdictReachesStream
  BY DEF PairingInv, RowInv, StreamInv, VerdictReachesStream, Exists, Pending, States, Terminal
<1> QED BY <1>1, InvHolds, PTL

\* A row leaves with a verdict untold only when the device takes it away: no callback
\* of an earlier phase removes it (timerGen).
THEOREM VerdictsLinger == Spec => VerdictLingers
<1>1. PairingInv /\ [Next]_vars
        => [\A r \in Requests : row[r] \in Terminal /\ r \notin minted /\ row'[r] = "gone"
              => Delete(r) \/ decided[r] = Grace]_vars
  <2> SUFFICES ASSUME PairingInv, Next, NEW r \in Requests, row[r] \in Terminal,
                      r \notin minted, row'[r] = "gone", ~Delete(r)
               PROVE  decided[r] = Grace
    BY DEF vars
  <2>1. TypeOK /\ RowInv(r) /\ row[r] # "gone"
    BY DEF PairingInv, Terminal
  <2>2. PICK q \in Requests : OnTimer(q, gen[q]) /\ <<q, gen[q]>> \in queued /\ q = r
    <3>1. ~Tick /\ ~Close
      BY <2>1 DEF Tick, Close
    <3>2. ASSUME NEW q \in Requests, Console(q) PROVE FALSE
      BY <2>1, <3>2 DEF Console, Approve, Decline, RevokeByHand, Decide, TypeOK, storeVars, Terminal
    <3>3. ASSUME NEW q \in Requests, Stream(q) PROVE FALSE
      BY <2>1, <3>3 DEF Stream, Announce, StreamPolls, StreamSubscribes, StreamOpens,
         StreamShows, StreamCloses, storeVars
    <3>4. ASSUME NEW q \in Requests, Device(q) PROVE FALSE
      BY <2>1, <3>4 DEF Device, CreateRequest, Poll, Delete, Drop, TypeOK, storeVars, Terminal
    <3>5. ASSUME NEW q \in Requests, Sweep(q)
          PROVE  OnTimer(q, gen[q]) /\ <<q, gen[q]>> \in queued /\ q = r
      <4>1. ~TimerFires(q) /\ ~Revoke(q)
        BY <2>1 DEF TimerFires, Revoke
      <4>2. ~RevokeReturns(q)
        <5> SUFFICES ASSUME RevokeReturns(q) PROVE FALSE
          OBVIOUS
        <5>1. q \in minted
          BY DEF PairingInv, RowInv, RevokesInv, RevokeReturns
        <5> QED BY <2>1, <5>1 DEF RevokeReturns, Drop, TypeOK
      <4>3. PICK t \in queued : t[1] = q /\ OnTimer(q, t[2])
        BY <3>5, <4>1, <4>2 DEF Sweep, HandleTimer
      <4>4. q = r /\ CurrentGeneration(q, t[2])
        BY <2>1, <4>3 DEF OnTimer, Decide, RevokeBegins, Drop, TypeOK, Terminal
      <4>5. t[2] = gen[q]
        BY <4>4 DEF CurrentGeneration
      <4> QED BY <4>3, <4>4, <4>5 DEF OnTimer
    <3> QED BY <3>1, <3>2, <3>3, <3>4, <3>5 DEF Next
  <2> QED BY <2>1, <2>2 DEF RowInv, PhaseInv, Current
<1>2. Spec => [][Next]_vars
  BY DEF Spec
<1> QED BY <1>1, <1>2, InvHolds, PTL DEF VerdictLingers
=============================================================================
