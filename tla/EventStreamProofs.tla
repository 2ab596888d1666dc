-------------------------- MODULE EventStreamProofs --------------------------
(***************************************************************************)
(* From the commit of a change to the client that is told of it, in the    *)
(* two parts the event stream has.                                         *)
(*                                                                         *)
(* The notes (SyncEvents): no change is forgotten between its commit and   *)
(* the event that tells of it, and the debounce speaks for the last note   *)
(* only, for any number of commits and scans.  ChangeIsUnderWay needs only *)
(* that nothing the publisher holds is newer than the watermark, and that  *)
(* a note being made is of the last commit: then the larger of two         *)
(* watermarks, one of them the last, is the last.                          *)
(*                                                                         *)
(* The broker (EventBroker): what a client sees is in the order of the     *)
(* record, and what it is not sent is counted.  Its invariant has four     *)
(* parts.  An id is given once in a life of the process, so that the place *)
(* a Last-Event-ID names is the place the client stands at.  What a client *)
(* saw, its replay, its handler's event, its channel and the send that is  *)
(* due come in this order.  Up to the last event it saw nothing is open.   *)
(* And what is missed is later than the replay: a client that leaves with  *)
(* half a replay written comes back to the other half.                     *)
(***************************************************************************)
EXTENDS SyncEvents, EventBroker, TLAPS, FiniteSetTheorems

-----------------------------------------------------------------------------
(***************************************************************************)
(* The notes                                                               *)
(***************************************************************************)

\* Nothing held is newer than the library, and the note being made is the last.
Bounded ==
  /\ noting \in {0, watermark}
  /\ pendingNS <= watermark /\ owed <= watermark /\ lost <= watermark

NotesInv == NotesTypeOK /\ Bounded /\ ChangeIsUnderWay

LEMMA NotesInitInv == NotesInit => NotesInv
  BY DEF NotesInit, NotesInv, NotesTypeOK, Bounded, ChangeIsUnderWay, Phases

LEMMA LargerType == ASSUME NEW a \in Nat, NEW b \in Nat
                    PROVE  /\ Larger(a, b) \in Nat
                           /\ Larger(a, b) >= a /\ Larger(a, b) >= b
                           /\ Larger(a, b) \in {a, b}
  BY DEF Larger

\* The larger of two bounded watermarks is the last one if either is.
LEMMA LargerLast == ASSUME NEW w \in Nat, NEW a \in Nat, NEW b \in Nat,
                           a <= w, b <= w, a = w \/ b = w
                    PROVE  Larger(a, b) = w
  BY DEF Larger

LEMMA NotesStepInv == ASSUME NotesInv, [NotesNext]_notesVars PROVE NotesInv'
<1> USE DEF NotesInv, Bounded, NotesTypeOK
<1>a. \A a, b \in {told, scanNS, owed, lost, pendingNS} :
        /\ Larger(a, b) \in Nat
        /\ Larger(a, b) >= a /\ Larger(a, b) >= b
        /\ Larger(a, b) \in {a, b}
  BY LargerType
<1>1. CASE Commit
  <2>1. NotesTypeOK' /\ Bounded'
    BY <1>1 DEF Commit, timerVars
  <2>2. ChangeIsUnderWay'
    BY <1>1 DEF Commit, ChangeIsUnderWay, NoteUnderWay
  <2> QED BY <2>1, <2>2
<1>2. CASE NoteLibrary
  <2>1. CASE AdvertisedScanning
    <3>1. /\ noting # 0 /\ noting' = 0 /\ owed' = noting /\ scan = "running"
          /\ pendingNS' = 0 /\ generation' = generation + 1 /\ armed' = 0
          /\ UNCHANGED <<firing, watermark, scan, scanNS, outgoing, told, lost>>
      BY <1>2, <2>1 DEF NoteLibrary, ArmTimer, CancelTimer, AdvertisedScanning
    <3>2. NotesTypeOK' /\ Bounded'
      BY <3>1
    <3> QED BY <3>1, <3>2 DEF ChangeIsUnderWay, ScanWillTell
  <2>2. CASE ~AdvertisedScanning
    <3>1. /\ noting # 0 /\ noting' = 0 /\ owed' = owed
          /\ pendingNS' = noting /\ generation' = generation + 1 /\ armed' = generation + 1
          /\ UNCHANGED <<firing, watermark, scan, scanNS, outgoing, told, lost>>
      BY <1>2, <2>2 DEF NoteLibrary, ArmTimer, CancelTimer, AdvertisedScanning
    <3>2. NotesTypeOK' /\ Bounded'
      BY <3>1
    <3> QED BY <3>1, <3>2 DEF ChangeIsUnderWay, NoteUnderWay
  <2> QED BY <2>1, <2>2
<1>3. CASE TimerFires
  <2>1. NotesTypeOK' /\ Bounded'
    BY <1>3 DEF TimerFires
  <2>2. firing \cup {armed} \subseteq firing' \cup {armed'}
    BY <1>3 DEF TimerFires
  <2>3. ChangeIsUnderWay'
    BY <1>3, <2>2 DEF TimerFires, ChangeIsUnderWay, NoteUnderWay, ScanWillTell
  <2> QED BY <2>1, <2>3
<1>4. CASE Fire
  <2> PICK gen \in firing : FireDebounce(gen)
    BY <1>4 DEF Fire
  <2>0. UNCHANGED <<watermark, noting, scan, scanNS, generation, told, lost>>
    BY DEF FireDebounce
  <2>1. CASE CurrentGeneration(gen) /\ AdvertisedScanning
    <3>1. /\ pendingNS' = 0 /\ armed' = 0 /\ firing' = firing \ {gen}
          /\ owed' = Larger(owed, pendingNS) /\ outgoing' = outgoing /\ scan = "running"
      BY <2>1 DEF FireDebounce, AdvertisedScanning
    <3>2. NotesTypeOK' /\ Bounded'
      BY <2>0, <3>1, <1>a
    <3>3. ChangeIsUnderWay'
      <4>1. CASE owed = watermark \/ pendingNS = watermark
        <5>1. owed' = watermark
          BY <3>1, <4>1, LargerLast
        <5> QED BY <2>0, <3>1, <5>1 DEF ChangeIsUnderWay, ScanWillTell
      <4>2. CASE ~(owed = watermark \/ pendingNS = watermark)
        BY <2>0, <3>1, <4>2 DEF ChangeIsUnderWay, NoteUnderWay, ScanWillTell
      <4> QED BY <4>1, <4>2
    <3> QED BY <3>2, <3>3
  <2>2. CASE CurrentGeneration(gen) /\ ~AdvertisedScanning
    <3>1. /\ pendingNS' = 0 /\ armed' = 0 /\ firing' = firing \ {gen}
          /\ owed' = owed /\ outgoing' = outgoing \cup ({pendingNS} \ {0})
      BY <2>2 DEF FireDebounce
    <3>2. NotesTypeOK' /\ Bounded'
      BY <2>0, <3>1
    <3>3. ChangeIsUnderWay'
      BY <2>0, <3>1 DEF ChangeIsUnderWay, NoteUnderWay, ScanWillTell
    <3> QED BY <3>2, <3>3
  <2>3. CASE ~CurrentGeneration(gen)
    <3>1. UNCHANGED <<pendingNS, armed, outgoing, owed>> /\ firing' = firing \ {gen}
      BY <2>3 DEF FireDebounce
    <3>2. NotesTypeOK' /\ Bounded'
      BY <2>0, <3>1
    <3>3. ChangeIsUnderWay'
      BY <2>0, <2>3, <3>1 DEF ChangeIsUnderWay, NoteUnderWay, ScanWillTell, CurrentGeneration
    <3> QED BY <3>2, <3>3
  <2> QED BY <2>1, <2>2, <2>3
<1>5. CASE Send
  <2> PICK ns \in outgoing : PublishDebounced(ns)
    BY <1>5 DEF Send
  <2>1. NotesTypeOK' /\ Bounded'
    BY LargerType DEF PublishDebounced, timerVars
  <2>2. ChangeIsUnderWay'
    BY DEF PublishDebounced, timerVars, ChangeIsUnderWay, NoteUnderWay, ScanWillTell, Larger
  <2> QED BY <2>1, <2>2
<1>6. CASE ScanStarts \/ ScanStalls \/ ScanResumes
  <2>1. NotesTypeOK' /\ Bounded'
    BY <1>6 DEF ScanStarts, ScanStalls, ScanResumes, timerVars, Phases
  <2>2. ChangeIsUnderWay'
    BY <1>6 DEF ScanStarts, ScanStalls, ScanResumes, timerVars,
                ChangeIsUnderWay, NoteUnderWay, ScanWillTell
  <2> QED BY <2>1, <2>2
<1>7. CASE ScanFails
  <2>0. /\ lost' = Larger(lost, owed) /\ owed' = 0 /\ scan' = "none"
        /\ UNCHANGED <<firing, armed, generation, pendingNS, watermark, noting, scanNS, outgoing, told>>
    BY <1>7 DEF ScanFails, timerVars
  <2>1. NotesTypeOK' /\ Bounded'
    BY <2>0, <1>a DEF Phases
  <2>2. ChangeIsUnderWay'
    <3>0. lost' = Larger(lost, owed) /\ watermark' = watermark
      BY <1>7 DEF ScanFails
    <3>1. CASE owed = watermark \/ lost = watermark
      BY <3>0, <3>1, LargerLast DEF ChangeIsUnderWay
    <3>2. CASE ~(owed = watermark \/ lost = watermark)
      BY <1>7, <3>2 DEF ScanFails, timerVars, ChangeIsUnderWay, NoteUnderWay, ScanWillTell
    <3> QED BY <3>1, <3>2
  <2> QED BY <2>1, <2>2
<1>8. CASE ScanSucceeds
  <2>1. NotesTypeOK' /\ Bounded'
    BY <1>8 DEF ScanSucceeds, timerVars, Phases
  <2>2. ChangeIsUnderWay'
    BY <1>8 DEF ScanSucceeds, timerVars, ChangeIsUnderWay, NoteUnderWay, ScanWillTell
  <2> QED BY <2>1, <2>2
<1>9. CASE ScanEnded
  <2>0. /\ owed' = Larger(owed, pendingNS) /\ scan' = "cancelled"
        /\ pendingNS' = 0 /\ armed' = 0 /\ generation' = generation + 1
        /\ UNCHANGED <<firing, watermark, noting, scanNS, outgoing, told, lost>>
    BY <1>9 DEF ScanEnded, CancelTimer
  <2>1. NotesTypeOK' /\ Bounded'
    BY <2>0, <1>a DEF Phases
  <2>2. ChangeIsUnderWay'
    <3>0. /\ owed' = Larger(owed, pendingNS) /\ scan = "cleared" /\ scan' = "cancelled"
          /\ watermark' = watermark
      BY <1>9 DEF ScanEnded
    <3>1. CASE owed = watermark \/ pendingNS = watermark
      <4>1. owed' = watermark'
        BY <3>0, <3>1, LargerLast
      <4> QED BY <3>0, <4>1 DEF ChangeIsUnderWay, ScanWillTell
    <3>2. CASE ~(owed = watermark \/ pendingNS = watermark)
      BY <1>9, <3>0, <3>2 DEF ScanEnded, ChangeIsUnderWay, NoteUnderWay, ScanWillTell
    <3> QED BY <3>1, <3>2
  <2> QED BY <2>1, <2>2
<1>10. CASE ReadWatermark
  <2>1. NotesTypeOK' /\ Bounded'
    BY <1>10 DEF ReadWatermark, timerVars, Phases
  <2>2. ChangeIsUnderWay'
    BY <1>10 DEF ReadWatermark, ChangeIsUnderWay, ScanWillTell
  <2> QED BY <2>1, <2>2
<1>11. CASE PublishWatermark
  <2>0. /\ told' = Larger(told, scanNS) /\ scan = "read" /\ scan' = "none"
        /\ scanNS' = 0 /\ owed' = 0
        /\ UNCHANGED <<firing, armed, generation, pendingNS, watermark, noting, outgoing, lost>>
    BY <1>11 DEF PublishWatermark, timerVars
  <2>1. NotesTypeOK' /\ Bounded'
    BY <2>0, <1>a DEF Phases
  <2>2. ChangeIsUnderWay'
    <3>1. Larger(told, scanNS) >= told /\ Larger(told, scanNS) >= scanNS
      BY <1>a
    <3>2. CASE scanNS = watermark
      BY <2>0, <2>1, <3>1, <3>2 DEF ChangeIsUnderWay
    <3>3. CASE scanNS # watermark
      BY <2>0, <2>1, <3>1, <3>3 DEF ChangeIsUnderWay, NoteUnderWay, ScanWillTell
    <3> QED BY <3>2, <3>3
  <2> QED BY <2>1, <2>2
<1>12. CASE UNCHANGED notesVars
  BY <1>12 DEF notesVars, timerVars, ChangeIsUnderWay, NoteUnderWay, ScanWillTell
<1> QED BY <1>1, <1>2, <1>3, <1>4, <1>5, <1>6, <1>7, <1>8, <1>9, <1>10, <1>11, <1>12
        DEF NotesNext, ScanReturns, ScanTail

LEMMA NotesInvAlways == NotesSpec => []NotesInv
<1>1. NotesInv /\ [NotesNext]_notesVars => NotesInv'
  BY NotesStepInv
<1> QED BY NotesInitInv, <1>1, PTL DEF NotesSpec

\* The publisher's state keeps its types (SyncEventPublisher).
THEOREM NotesTypeCorrect == NotesSpec => []NotesTypeOK
<1>1. NotesInv => NotesTypeOK
  BY DEF NotesInv
<1> QED BY <1>1, NotesInvAlways, PTL

\* The latest change of the library is always told, or on its way, or went with a
\* scan that failed (NoteLibrary, fireDebounce, ScanEnded), for any number of
\* commits, timers and scans.
THEOREM NoChangeIsForgotten == NotesSpec => []ChangeIsUnderWay
<1>1. NotesInv => ChangeIsUnderWay
  BY DEF NotesInv
<1> QED BY <1>1, NotesInvAlways, PTL

\* What a debounced event will carry, and when it may be sent.
QuietSend == \A ns \in outgoing' \ outgoing : generation \in firing /\ ns = pendingNS

\* A debounced event is sent for the last note and by its own timer (fireDebounce).
THEOREM DebounceIsTrailing == NotesSpec => OnlyAfterQuiet
<1>1. [NotesNext]_notesVars => [QuietSend]_notesVars
  <2> SUFFICES ASSUME NotesNext PROVE QuietSend
    OBVIOUS
  <2>1. CASE Fire
    BY <2>1 DEF Fire, FireDebounce, CurrentGeneration, QuietSend
  <2>2. CASE Send
    BY <2>2 DEF Send, PublishDebounced, QuietSend
  <2>3. CASE ~Fire /\ ~Send
    BY <2>3 DEF QuietSend, NotesNext, Commit, NoteLibrary, TimerFires, ScanStarts, ScanStalls,
                ScanResumes, ScanReturns, ScanFails, ScanSucceeds, ScanTail, ScanEnded,
                ReadWatermark, PublishWatermark
  <2> QED BY <2>1, <2>2, <2>3
<1> QED BY <1>1, PTL DEF NotesSpec, OnlyAfterQuiet, QuietSend

-----------------------------------------------------------------------------
(***************************************************************************)
(* The broker                                                              *)
(***************************************************************************)

\* Every place of A is before every place of B; a heartbeat has none.
Before(A, B) == \A x \in A, y \in B : x # Heartbeat /\ y # Heartbeat => x < y

\* The places of a sequence rise.
Rising(s) == \A i, j \in DOMAIN s : i < j /\ s[i] # Heartbeat /\ s[j] # Heartbeat => s[i] < s[j]

\* What the handler holds, and what the goroutine is about to send.
Held(c) == {hand[c]} \ {NoEvent}
Due(c)  == IF c \in todo THEN {Len(record)} ELSE {}

\* An id is given once in a life of the process.
Numbered(e) == e \in Events /\ e.id <= nextID /\ e.era = era

IdsInv ==
  /\ \A e \in drafted : Numbered(e)
  /\ \A e, f \in drafted : e.id = f.id => e = f
  /\ \A i \in 1..Len(queue) : Numbered(queue[i])
  /\ \A i \in 1..Len(queue), e \in drafted : e.id # queue[i].id
  /\ \A i, j \in 1..Len(queue) : queue[i].id = queue[j].id => i = j
  /\ \A i \in 1..Len(record) : Numbered(record[i])
  /\ \A i \in 1..Len(record), e \in drafted : e.id # record[i].id
  /\ \A i \in 1..Len(record), j \in 1..Len(queue) : record[i].id # queue[j].id
  /\ \A i, j \in 1..Len(record) : record[i].id = record[j].id => i = j

\* What a client saw, what its handler has yet to write or holds, what its channel
\* holds and what it is about to be sent come in this order.
OrderInv(c) ==
  /\ Rising(got[c]) /\ Rising(ch[c])
  /\ Before(Elems(got[c]), replay[c] \cup Held(c) \cup Elems(ch[c]) \cup Due(c))
  /\ Before(replay[c], Elems(ch[c]) \cup Due(c))
  /\ Before(Held(c), Elems(ch[c]) \cup Due(c))
  /\ Before(Elems(ch[c]), Due(c))
  /\ hand[c] # NoEvent => replay[c] = {}

\* What a client names when it comes back is where its stream ends.
SeenInv(c) ==
  /\ seen[c] # NoEvent => seen[c].era <= era
  /\ seen[c] # NoEvent /\ seen[c].era = era => \E m \in 1..Len(record) : record[m] = seen[c]
  /\ got[c] # <<>> => seen[c] = record[got[c][Len(got[c])]]
  /\ got[c] = <<>> => \A m \in 1..Len(record) : record[m] = seen[c] => m <= from[c]

\* Up to the last event a client saw there is nothing it was not told of.
SettledInv(c) ==
  \A k \in Expected(c, from[c]) : \A g \in Elems(got[c]) :
    k <= g => k \in Elems(got[c]) \cup announced[c]

\* What is missed is counted, and is later than the replay.
MissedInv(c) ==
  /\ IsFiniteSet(Missed(c)) /\ Cardinality(Missed(c)) <= dropped[c]
  /\ Before(replay[c], Missed(c))

\* Nothing is on its way to a client that is not there.
ClosedInv(c) == replay[c] = {} /\ hand[c] = NoEvent /\ ch[c] = <<>> /\ c \notin todo

ClientInv(c) ==
  /\ OrderInv(c) /\ SeenInv(c) /\ SettledInv(c)
  /\ c \in open => MissedInv(c)
  /\ c \notin open => ClosedInv(c)

BrokerInv == TypeOK /\ IsFiniteSet(open) /\ IdsInv /\ \A c \in Clients : ClientInv(c)

LEMMA ElemsOfAppend ==
  ASSUME NEW s \in Seq(Nat), NEW x \in Nat
  PROVE  Elems(Append(s, x)) = Elems(s) \cup {x}
<1> DEFINE t == Append(s, x)
<1>1. t \in Seq(Nat) /\ Len(t) = Len(s) + 1 /\ DOMAIN t = 1..(Len(s) + 1) /\ DOMAIN s = 1..Len(s) /\ Len(s) \in Nat
  OBVIOUS
<1>2. \A i \in 1..Len(s) : t[i] = s[i]
  OBVIOUS
<1>3. t[Len(s) + 1] = x
  OBVIOUS
<1> HIDE DEF t
<1>4. Elems(t) \subseteq Elems(s) \cup {x}
  BY <1>1, <1>2, <1>3 DEF Elems
<1>5. Elems(s) \cup {x} \subseteq Elems(t)
  BY <1>1, <1>2, <1>3 DEF Elems
<1> QED
  BY <1>4, <1>5 DEF t

LEMMA ElemsOfTail ==
  ASSUME NEW A, NEW s \in Seq(A), s # <<>>
  PROVE  /\ Elems(s) = {Head(s)} \cup Elems(Tail(s))
         /\ Head(s) \in A /\ Tail(s) \in Seq(A) /\ Len(Tail(s)) = Len(s) - 1
<1> DEFINE t == Tail(s)
<1>1. t \in Seq(A) /\ Len(t) = Len(s) - 1 /\ DOMAIN t = 1..(Len(s) - 1) /\ DOMAIN s = 1..Len(s)
      /\ Len(s) \in Nat \ {0} /\ Head(s) = s[1] /\ Head(s) \in A
  OBVIOUS
<1>2. \A i \in 1..(Len(s) - 1) : t[i] = s[i + 1]
  OBVIOUS
<1> HIDE DEF t
<1>3. Elems(t) \subseteq Elems(s)
  BY <1>1, <1>2 DEF Elems
<1>4. Elems(s) \subseteq {Head(s)} \cup Elems(t)
  <2> SUFFICES ASSUME NEW i \in 1..Len(s), i # 1 PROVE s[i] \in Elems(t)
    BY <1>1 DEF Elems
  <2>1. i - 1 \in 1..(Len(s) - 1) /\ (i - 1) + 1 = i
    BY <1>1
  <2> QED
    BY <2>1, <1>1, <1>2 DEF Elems
<1>5. Head(s) \in Elems(s)
  BY <1>1 DEF Elems
<1> QED
  BY <1>1, <1>3, <1>4, <1>5 DEF t

LEMMA ElemsAre == ASSUME NEW A, NEW s \in Seq(A) PROVE Elems(s) \subseteq A
BY DEF Elems

LEMMA ElemsOfNone == Elems(<<>>) = {}
BY DEF Elems

LEMMA RisingAppend ==
  ASSUME NEW s \in Seq(Nat), NEW x \in Nat, Rising(s), Before(Elems(s), {x})
  PROVE  Rising(Append(s, x))
<1> DEFINE t == Append(s, x)
<1>1. DOMAIN t = 1..(Len(s) + 1) /\ DOMAIN s = 1..Len(s) /\ Len(s) \in Nat
  OBVIOUS
<1>2. \A i \in 1..Len(s) : t[i] = s[i]
  OBVIOUS
<1>3. t[Len(s) + 1] = x
  OBVIOUS
<1> HIDE DEF t
<1> SUFFICES ASSUME NEW i \in DOMAIN t, NEW j \in DOMAIN t, i < j, t[i] # Heartbeat, t[j] # Heartbeat
             PROVE  t[i] < t[j]
  BY DEF Rising, t
<1>4. CASE j \in 1..Len(s)
  BY <1>1, <1>2, <1>4 DEF Rising
<1>5. CASE j = Len(s) + 1
  <2>1. i \in 1..Len(s)
    BY <1>1, <1>5
  <2>2. t[i] \in Elems(s)
    BY <2>1, <1>1, <1>2 DEF Elems
  <2> QED
    BY <2>2, <1>3, <1>5 DEF Before
<1> QED
  BY <1>1, <1>4, <1>5

LEMMA RisingTail ==
  ASSUME NEW s \in Seq(Nat), s # <<>>, Rising(s)
  PROVE  Rising(Tail(s)) /\ Before({Head(s)}, Elems(Tail(s)))
<1> DEFINE t == Tail(s)
<1>1. DOMAIN t = 1..(Len(s) - 1) /\ DOMAIN s = 1..Len(s) /\ Len(s) \in Nat \ {0} /\ Head(s) = s[1]
  OBVIOUS
<1>2. \A i \in 1..(Len(s) - 1) : t[i] = s[i + 1] /\ i + 1 \in 1..Len(s) /\ 1 < i + 1
  OBVIOUS
<1> HIDE DEF t
<1>3. Rising(t)
  <2> SUFFICES ASSUME NEW i \in DOMAIN t, NEW j \in DOMAIN t, i < j, t[i] # Heartbeat, t[j] # Heartbeat
               PROVE  t[i] < t[j]
    BY DEF Rising
  <2>1. i + 1 < j + 1 /\ i + 1 \in DOMAIN s /\ j + 1 \in DOMAIN s
    BY <1>1, <1>2
  <2> QED
    BY <2>1, <1>1, <1>2 DEF Rising
<1>4. Before({s[1]}, Elems(t))
  <2> SUFFICES ASSUME NEW i \in DOMAIN t, s[1] # Heartbeat, t[i] # Heartbeat PROVE s[1] < t[i]
    BY DEF Before, Elems
  <2>1. 1 < i + 1 /\ i + 1 \in DOMAIN s /\ 1 \in DOMAIN s
    BY <1>1, <1>2
  <2> QED
    BY <2>1, <1>1, <1>2 DEF Rising
<1> QED
  BY <1>1, <1>3, <1>4 DEF t

\* The last place of a rising sequence without heartbeats is its latest.
LEMMA LastIsLatest ==
  ASSUME NEW s \in Seq(Nat \ {Heartbeat}), s # <<>>, Rising(s)
  PROVE  /\ s[Len(s)] \in Elems(s)
         /\ \A g \in Elems(s) : g <= s[Len(s)]
<1>1. Len(s) \in Nat \ {0} /\ DOMAIN s = 1..Len(s) /\ \A i \in 1..Len(s) : s[i] \in Nat \ {Heartbeat}
  OBVIOUS
<1>2. \A i \in 1..Len(s) : s[i] <= s[Len(s)]
  BY <1>1 DEF Rising, Heartbeat
<1> QED
  BY <1>1, <1>2 DEF Elems

LEMMA SeqGrows == ASSUME NEW A, NEW B, A \subseteq B, NEW s \in Seq(A) PROVE s \in Seq(B)
<1>1. Len(s) \in Nat /\ \A i \in 1..Len(s) : s[i] \in B
  OBVIOUS
<1> QED
  BY <1>1

LEMMA AppendIs ==
  ASSUME NEW A, NEW s \in Seq(A), NEW x \in A
  PROVE  /\ Append(s, x) \in Seq(A) /\ Len(Append(s, x)) = Len(s) + 1 /\ Len(s) \in Nat
         /\ \A i \in 1..Len(s) : Append(s, x)[i] = s[i]
         /\ Append(s, x)[Len(s) + 1] = x
OBVIOUS

LEMMA TailIs ==
  ASSUME NEW A, NEW s \in Seq(A), s # <<>>
  PROVE  /\ Tail(s) \in Seq(A) /\ Len(Tail(s)) = Len(s) - 1 /\ Len(s) \in Nat /\ 1 <= Len(s)
         /\ \A i \in 1..(Len(s) - 1) : Tail(s)[i] = s[i + 1]
         /\ Head(s) = s[1] /\ Head(s) \in A
OBVIOUS

LEMMA LastIs ==
  ASSUME NEW A, NEW s \in Seq(A), s # <<>>
  PROVE  Len(s) \in DOMAIN s /\ s[Len(s)] \in A /\ Len(s) \in Nat \ {0}
OBVIOUS

\* Nobody but the publishers and the goroutine touches what the ids are given to.
LEMMA IdsOfPublish ==
  ASSUME TypeOK, IdsInv, Publish
  PROVE  IdsInv'
<1> USE DEF Numbered
<1>1. ASSUME NEW t \in Topics, Draft(t) PROVE IdsInv'
  <2> DEFINE e == [id |-> nextID + 1, topic |-> t, era |-> era]
  <2>1. e \in Events /\ e.id = nextID + 1 /\ e.era = era
    BY <1>1, LimitsAssumption DEF TypeOK, Draft, Events
  <2>2. drafted' = drafted \cup {e} /\ nextID' = nextID + 1 /\ UNCHANGED <<era, queue, record>>
    BY <1>1 DEF Draft, fanVars
  <2>3. nextID \in Nat
    BY DEF TypeOK
  <2>4. \A f \in Events : f.id \in Nat
    BY DEF Events
  <2> HIDE DEF e
  <2> QED
    BY <2>1, <2>2, <2>3, <2>4 DEF IdsInv
<1>2. ASSUME NEW e \in drafted, Enqueue(e) PROVE IdsInv'
  <2>1. drafted' = drafted \ {e} /\ queue' = Append(queue, e) /\ UNCHANGED <<era, nextID, record>>
    BY <1>2 DEF Enqueue, fanVars
  <2>2. /\ Len(queue') = Len(queue) + 1 /\ Len(queue) \in Nat
        /\ \A i \in 1..Len(queue) : queue'[i] = queue[i]
        /\ queue'[Len(queue) + 1] = e
    BY <2>1, AppendIs, <1>2 DEF TypeOK
  <2>3. \A i \in 1..Len(queue') : i \in 1..Len(queue) \/ i = Len(queue) + 1
    BY <2>2
  <2> QED
    BY <1>2, <2>1, <2>2, <2>3 DEF IdsInv
<1>3. CASE MakeRoom
  <2>1. queue # <<>>
    BY <1>3, LimitsAssumption DEF MakeRoom, TypeOK
  <2>2. queue' = Tail(queue) /\ UNCHANGED <<era, nextID, drafted, record>>
    BY <1>3 DEF MakeRoom, fanVars
  <2>3. /\ Len(queue') = Len(queue) - 1 /\ Len(queue) \in Nat
        /\ \A i \in 1..(Len(queue) - 1) : queue'[i] = queue[i + 1]
    BY <2>1, <2>2, TailIs DEF TypeOK
  <2>4. \A i \in 1..Len(queue') : i + 1 \in 1..Len(queue) /\ queue'[i] = queue[i + 1]
    BY <2>3
  <2>5. ASSUME NEW i \in 1..Len(queue'), NEW j \in 1..Len(queue'), queue'[i].id = queue'[j].id PROVE i = j
    <3>1. \A k, l \in 1..Len(queue) : queue[k].id = queue[l].id => k = l
      BY DEF IdsInv
    <3>2. i + 1 = j + 1
      BY <2>4, <2>5, <3>1
    <3> QED
      BY <3>2
  <2>6. (\A i \in 1..Len(queue) : Numbered(queue[i]))'
    BY <2>2, <2>4 DEF IdsInv
  <2>7. (\A i \in 1..Len(queue), e \in drafted : e.id # queue[i].id)'
    BY <2>2, <2>4 DEF IdsInv
  <2>8. (\A i \in 1..Len(record), j \in 1..Len(queue) : record[i].id # queue[j].id)'
    BY <2>2, <2>4 DEF IdsInv
  <2>9. (/\ \A e \in drafted : Numbered(e)
         /\ \A e, f \in drafted : e.id = f.id => e = f
         /\ \A i \in 1..Len(record) : Numbered(record[i])
         /\ \A i \in 1..Len(record), e \in drafted : e.id # record[i].id
         /\ \A i, j \in 1..Len(record) : record[i].id = record[j].id => i = j)'
    BY <2>2 DEF IdsInv
  <2> QED
    BY <2>5, <2>6, <2>7, <2>8, <2>9 DEF IdsInv
<1> QED
  BY <1>1, <1>2, <1>3 DEF Publish

LEMMA Recorded ==
  ASSUME TypeOK, RecordReplay
  PROVE  /\ Head(queue) \in Events /\ queue # <<>> /\ Head(queue) = queue[1] /\ 1 \in 1..Len(queue)
         /\ Len(record') = Len(record) + 1 /\ Len(record) \in Nat
         /\ \A i \in 1..Len(record) : record'[i] = record[i]
         /\ record'[Len(record) + 1] = Head(queue)
         /\ record' \in Seq(Events)
         /\ queue' \in Seq(Events) /\ Len(queue') = Len(queue) - 1 /\ Len(queue) \in Nat
         /\ \A i \in 1..Len(queue') : i + 1 \in 1..Len(queue) /\ queue'[i] = queue[i + 1]
<1>1. record' = Append(record, Head(queue)) /\ queue' = Tail(queue) /\ queue # <<>>
      /\ queue \in Seq(Events) /\ record \in Seq(Events)
  BY DEF RecordReplay, TypeOK
<1>2. /\ queue' \in Seq(Events) /\ Len(queue') = Len(queue) - 1 /\ Len(queue) \in Nat /\ 1 <= Len(queue)
      /\ \A i \in 1..(Len(queue) - 1) : queue'[i] = queue[i + 1]
      /\ Head(queue) = queue[1] /\ Head(queue) \in Events
  BY <1>1, TailIs
<1>3. /\ record' \in Seq(Events) /\ Len(record') = Len(record) + 1 /\ Len(record) \in Nat
      /\ \A i \in 1..Len(record) : record'[i] = record[i]
      /\ record'[Len(record) + 1] = Head(queue)
  BY <1>1, <1>2, AppendIs
<1> QED
  BY <1>1, <1>2, <1>3

LEMMA IdsOfRecordReplay ==
  ASSUME TypeOK, IdsInv, RecordReplay
  PROVE  IdsInv'
<1>1. UNCHANGED <<era, nextID, drafted>>
  BY DEF RecordReplay
<1>2. \A i \in 1..Len(record') : \/ i \in 1..Len(record) /\ record'[i] = record[i]
                                 \/ i = Len(record) + 1 /\ record'[i] = queue[1]
  <2>1. \A i \in 1..Len(record') : i \in 1..Len(record) \/ i = Len(record) + 1
    BY Recorded
  <2> QED
    BY <2>1, Recorded
<1>2a. 1 \in 1..Len(queue)
  BY Recorded
<1>3. \A i \in 1..Len(queue') : i + 1 \in 1..Len(queue) /\ queue'[i] = queue[i + 1] /\ i + 1 # 1
  BY Recorded
<1>4. \A e \in Events : Numbered(e)' <=> Numbered(e)
  BY <1>1 DEF Numbered
<1>5. (\A e \in drafted : Numbered(e))' /\ (\A e, f \in drafted : e.id = f.id => e = f)'
  BY <1>1 DEF IdsInv, Numbered
<1>6. (\A i \in 1..Len(queue) : Numbered(queue[i]))'
  BY <1>1, <1>3 DEF IdsInv, Numbered
<1>7. (\A i \in 1..Len(queue), e \in drafted : e.id # queue[i].id)'
  BY <1>1, <1>3 DEF IdsInv
<1>8. (\A i, j \in 1..Len(queue) : queue[i].id = queue[j].id => i = j)'
  <2> SUFFICES ASSUME NEW i \in 1..Len(queue'), NEW j \in 1..Len(queue'), queue'[i].id = queue'[j].id
               PROVE  i = j
    OBVIOUS
  <2>1. i + 1 = j + 1
    BY <1>3 DEF IdsInv
  <2> QED
    BY <2>1
<1>9. (\A i \in 1..Len(record) : Numbered(record[i]))'
  BY <1>1, <1>2, <1>2a DEF IdsInv, Numbered
<1>10. (\A i \in 1..Len(record), e \in drafted : e.id # record[i].id)'
  BY <1>1, <1>2, <1>2a DEF IdsInv
<1>11. (\A i \in 1..Len(record), j \in 1..Len(queue) : record[i].id # queue[j].id)'
  BY <1>2, <1>3, <1>2a DEF IdsInv
<1>12. (\A i, j \in 1..Len(record) : record[i].id = record[j].id => i = j)'
  BY <1>2, <1>2a DEF IdsInv
<1> QED
  BY <1>5, <1>6, <1>7, <1>8, <1>9, <1>10, <1>11, <1>12 DEF IdsInv

LEMMA IdsStay == ASSUME IdsInv, UNCHANGED <<era, nextID, drafted, queue, record>> PROVE IdsInv'
BY DEF IdsInv, Numbered

LEMMA IdsOfRestart == ASSUME Restart PROVE IdsInv'
BY DEF Restart, IdsInv

LEMMA IdsAreGivenOnce == ASSUME TypeOK, IdsInv, Next PROVE IdsInv'
<1> USE DEF brokerVars, fanVars, streamVars, clientVars
<1>1. CASE Publish
  BY <1>1, IdsOfPublish
<1>2. CASE RecordReplay
  BY <1>2, IdsOfRecordReplay
<1>3. CASE Fanout
  BY <1>3, IdsStay DEF Fanout, Offer, Evict
<1>4. CASE FanoutHeartbeat
  BY <1>4, IdsStay DEF FanoutHeartbeat
<1>5. CASE Restart
  BY <1>5, IdsOfRestart
<1>6. ASSUME NEW c \in Clients, Subscribe(c) PROVE IdsInv'
  BY <1>6, IdsStay DEF Subscribe
<1>7. ASSUME NEW c \in Clients, Handle(c) PROVE IdsInv'
  BY <1>7, IdsStay DEF Handle, WriteReplay, Take, Write
<1>8. ASSUME NEW c \in Clients, Unsubscribe(c) PROVE IdsInv'
  BY <1>8, IdsStay DEF Unsubscribe
<1> QED
  BY <1>1, <1>2, <1>3, <1>4, <1>5, <1>6, <1>7, <1>8 DEF Next, Run

\* What replayBuffer holds never exceeds its capacity.
LEMMA BufferedIsBounded ==
  ASSUME TypeOK, NEW S \in SUBSET Buffered
  PROVE  IsFiniteSet(S) /\ Cardinality(S) <= ReplayCapacity
<1> DEFINE n == Len(record)
           lo == IF n > ReplayCapacity THEN n - ReplayCapacity + 1 ELSE 1
<1>1. n \in Nat /\ ReplayCapacity \in Nat
  BY LimitsAssumption DEF TypeOK
<1>2. Buffered = lo..n /\ lo \in Int /\ n \in Int
  BY <1>1 DEF Buffered
<1>3. IsFiniteSet(lo..n) /\ Cardinality(lo..n) <= ReplayCapacity /\ Cardinality(lo..n) \in Nat
  <2>1. n - lo + 1 <= ReplayCapacity /\ n - lo + 1 \in Int
    BY <1>1, <1>2
  <2> HIDE DEF lo, n
  <2>2. IsFiniteSet(lo..n) /\ Cardinality(lo..n) = IF lo > n THEN 0 ELSE n - lo + 1
    BY <1>2, FS_Interval
  <2> QED
    BY <1>1, <1>2, <2>1, <2>2
<1>4. S \in SUBSET (lo..n)
  BY <1>2
<1> HIDE DEF lo, n
<1>5. IsFiniteSet(S) /\ Cardinality(S) <= Cardinality(lo..n)
  BY <1>3, <1>4, FS_Subset
<1> QED
  BY <1>1, <1>3, <1>5, FS_CardinalityType

\* The parts of the type invariant that concern what is past the goroutine.
LEMMA PlacesGrow ==
  ASSUME TypeOK, record' \in Seq(Events), Len(record) <= Len(record')
  PROVE  Places \subseteq Places' /\ Heartbeat \in Places /\ Len(record) \in Places'
<1>1. Len(record) \in Nat /\ Len(record') \in Nat
  BY DEF TypeOK
<1> QED
  BY <1>1 DEF Places, Heartbeat

LEMMA ReplayIsFinite == ASSUME TypeOK, NEW c \in Clients PROVE IsFiniteSet(replay[c])
<1>1. Len(record) \in Nat /\ replay[c] \in SUBSET (0..Len(record))
  BY DEF TypeOK, Places
<1>2. IsFiniteSet(0..Len(record))
  BY <1>1, FS_Interval
<1> QED
  BY <1>1, <1>2, FS_Subset

LEMMA TypeOfPublish == ASSUME TypeOK, Publish PROVE TypeOK'
<1> USE DEF brokerVars, fanVars, streamVars, clientVars
<1>0. UNCHANGED Places
  BY DEF Publish, Draft, Enqueue, MakeRoom, Places
<1>1. ASSUME NEW t \in Topics, Draft(t) PROVE TypeOK'
  <2>1. [id |-> nextID + 1, topic |-> t, era |-> era] \in Events /\ nextID' \in 0..MaxEvents
    BY <1>1, LimitsAssumption DEF TypeOK, Draft, Events
  <2> QED
    BY <1>0, <1>1, <2>1 DEF TypeOK, Draft
<1>2. ASSUME NEW e \in drafted, Enqueue(e) PROVE TypeOK'
  <2>1. queue' \in Seq(Events) /\ Len(queue') <= PublishBuffer
    BY <1>2, AppendIs, LimitsAssumption DEF TypeOK, Enqueue
  <2>2. drafted' \subseteq Events
    BY <1>2 DEF TypeOK, Enqueue
  <2> QED
    BY <1>0, <1>2, <2>1, <2>2 DEF TypeOK, Enqueue
<1>3. CASE MakeRoom
  <2>1. queue # <<>>
    BY <1>3, LimitsAssumption DEF TypeOK, MakeRoom
  <2>2. queue' \in Seq(Events) /\ Len(queue') <= PublishBuffer
    BY <1>3, <2>1, TailIs, LimitsAssumption DEF TypeOK, MakeRoom
  <2> QED
    BY <1>0, <1>3, <2>2 DEF TypeOK, MakeRoom
<1> QED
  BY <1>1, <1>2, <1>3 DEF Publish

LEMMA TypeOfRecordReplay == ASSUME TypeOK, IsFiniteSet(open), RecordReplay PROVE TypeOK'
<1> USE DEF brokerVars, fanVars, streamVars, clientVars
<1>1. record' \in Seq(Events) /\ Len(record) <= Len(record') /\ queue' \in Seq(Events)
      /\ Len(queue') <= PublishBuffer
  <2>1. Len(queue) <= PublishBuffer /\ PublishBuffer \in Nat
    BY LimitsAssumption DEF TypeOK
  <2> QED
    BY <2>1, Recorded
<1>2. Places \subseteq Places' /\ 0..Len(record) \subseteq 0..Len(record')
  BY <1>1, PlacesGrow DEF Places
<1>3. UNCHANGED <<era, nextID, drafted, full, open, replay, ch, hand, dropped, seen, from, got, announced>>
  BY DEF RecordReplay
<1>4. full' \subseteq todo' /\ todo' \subseteq open'
  BY DEF RecordReplay, TypeOK, Unlocked
<1>5. replay' \in [Clients -> SUBSET (Places' \ {Heartbeat})] /\ announced' \in [Clients -> SUBSET (Places' \ {Heartbeat})]
      /\ hand' \in [Clients -> Places' \cup {NoEvent}] /\ from' \in [Clients -> 0..Len(record')]
  BY <1>2, <1>3 DEF TypeOK
<1>6. ch' \in [Clients -> Seq(Places')]
  <2>1. \A c \in Clients : ch[c] \in Seq(Places')
    BY <1>2, SeqGrows DEF TypeOK
  <2> QED
    BY <1>3, <2>1 DEF TypeOK
<1>7. got' \in [Clients -> Seq(Places' \ {Heartbeat})]
  <2>1. \A c \in Clients : got[c] \in Seq(Places' \ {Heartbeat})
    <3>1. Places \ {Heartbeat} \subseteq Places' \ {Heartbeat}
      BY <1>2
    <3> QED
      BY <3>1, SeqGrows DEF TypeOK
  <2> QED
    BY <1>3, <2>1 DEF TypeOK
<1>8. (era \in 0..MaxEra /\ nextID \in 0..MaxEvents /\ drafted \subseteq Events)'
      /\ (open \subseteq Clients /\ Cardinality(open) <= MaxSubscribers)'
      /\ (dropped \in [Clients -> Nat])' /\ (seen \in [Clients -> Events \cup {NoEvent}])'
      /\ (\A c \in Clients : Cardinality(replay[c]) <= ReplayCapacity /\ Len(ch[c]) <= ChannelLen)'
  BY <1>3 DEF TypeOK
<1> QED
  BY <1>1, <1>4, <1>5, <1>6, <1>7, <1>8 DEF TypeOK, Heartbeat

LEMMA TypeOfFanout ==
  ASSUME TypeOK, NEW c \in todo, Offer(c) \/ Evict(c)
  PROVE  TypeOK'
<1> USE DEF brokerVars, fanVars, streamVars, clientVars
<1> DEFINE n == Len(record)
<1>1. c \in Clients /\ n \in Places /\ ch[c] \in Seq(Places) /\ Len(ch[c]) \in Nat /\ Len(ch[c]) <= ChannelLen
      /\ ChannelLen \in Nat \ {0}
  BY LimitsAssumption DEF TypeOK, Places
<1>2. Places' = Places
  BY DEF Offer, Evict, Places
<1> HIDE DEF n
<1>3. CASE Offer(c) /\ Len(ch[c]) < ChannelLen
  <2>1. ch' = [ch EXCEPT ![c] = Append(ch[c], n)] /\ todo' = todo \ {c} /\ full' = full /\ c \notin full
    BY <1>3 DEF Offer, n
  <2>2. Append(ch[c], n) \in Seq(Places) /\ Len(Append(ch[c], n)) <= ChannelLen
    BY <1>1, <1>3, AppendIs
  <2> QED
    BY <1>2, <1>3, <2>1, <2>2 DEF TypeOK, Offer
<1>4. CASE Offer(c) /\ ~(Len(ch[c]) < ChannelLen)
  BY <1>2, <1>4 DEF TypeOK, Offer
<1>5. CASE Evict(c) /\ ch[c] = <<>>
  <2>1. ch' = [ch EXCEPT ![c] = <<n>>] /\ todo' = todo \ {c} /\ full' = full \ {c} /\ UNCHANGED dropped
    BY <1>5 DEF Evict, n
  <2>2. <<n>> \in Seq(Places) /\ Len(<<n>>) <= ChannelLen
    BY <1>1
  <2> QED
    BY <1>2, <1>5, <2>1, <2>2 DEF TypeOK, Evict
<1>6. CASE Evict(c) /\ ch[c] # <<>>
  <2>1. ch' = [ch EXCEPT ![c] = Append(Tail(ch[c]), n)] /\ todo' = todo \ {c} /\ full' = full \ {c}
        /\ dropped' = [dropped EXCEPT ![c] = @ + 1]
    BY <1>6 DEF Evict, n
  <2>2. Append(Tail(ch[c]), n) \in Seq(Places) /\ Len(Append(Tail(ch[c]), n)) <= ChannelLen
    <3>1. Tail(ch[c]) \in Seq(Places) /\ Len(Tail(ch[c])) = Len(ch[c]) - 1
      BY <1>1, <1>6, TailIs
    <3> QED
      BY <3>1, <1>1, AppendIs
  <2> QED
    BY <1>2, <1>6, <2>1, <2>2 DEF TypeOK, Evict
<1> QED
  BY <1>3, <1>4, <1>5, <1>6

LEMMA TypeOfHeartbeat == ASSUME TypeOK, FanoutHeartbeat PROVE TypeOK'
<1> USE DEF brokerVars, fanVars, streamVars, clientVars
<1>1. Places' = Places /\ Heartbeat \in Places
  BY DEF FanoutHeartbeat, Places, Heartbeat, TypeOK
<1>2. \A c \in Clients : ch[c] \in Seq(Places) /\ Len(ch[c]) \in Nat /\ Len(ch[c]) <= ChannelLen
  BY DEF TypeOK
<1>3. \A c \in Clients : ch'[c] \in Seq(Places) /\ Len(ch'[c]) <= ChannelLen
  <2> SUFFICES ASSUME NEW c \in Clients PROVE ch'[c] \in Seq(Places) /\ Len(ch'[c]) <= ChannelLen
    OBVIOUS
  <2>1. Append(ch[c], Heartbeat) \in Seq(Places) /\ Len(Append(ch[c], Heartbeat)) = Len(ch[c]) + 1
    BY <1>1, <1>2, AppendIs
  <2>2. ChannelLen \in Nat
    BY LimitsAssumption
  <2> QED
    BY <1>2, <2>1, <2>2 DEF FanoutHeartbeat
<1>4. ch' \in [Clients -> Seq(Places)]
  BY <1>3 DEF FanoutHeartbeat
<1> QED
  BY <1>1, <1>3, <1>4 DEF FanoutHeartbeat, TypeOK

LEMMA RecognisedIs ==
  ASSUME TypeOK, NEW id, NEW i \in Oldest(Recognised(id))
  PROVE  i \in Buffered /\ i \in 1..Len(record) /\ record[i].id = id
BY DEF Oldest, Recognised, Buffered

LEMMA TypeOfSubscribe ==
  ASSUME TypeOK, IsFiniteSet(open), NEW c \in Clients, Subscribe(c)
  PROVE  TypeOK' /\ IsFiniteSet(open')
<1> USE DEF brokerVars, fanVars, streamVars, clientVars
<1>1. Places' = Places
  BY DEF Subscribe, Places
<1>2. IsFiniteSet(open') /\ Cardinality(open') <= MaxSubscribers
  <2>1. open' = open \cup {c} /\ c \notin open /\ Cardinality(open) < MaxSubscribers
    BY DEF Subscribe
  <2>2. Cardinality(open) \in Nat /\ MaxSubscribers \in Nat
    BY FS_CardinalityType, LimitsAssumption
  <2> QED
    BY <2>1, <2>2, FS_AddElement
<1>3. open' \subseteq Clients /\ UNCHANGED <<era, nextID, drafted, queue, record, todo, full, ch, hand, dropped, seen>>
      /\ todo' \subseteq open'
  BY DEF Subscribe, TypeOK
<1>4. SUFFICES /\ replay' \in [Clients -> SUBSET (Places \ {Heartbeat})] /\ from' \in [Clients -> 0..Len(record)]
               /\ got' \in [Clients -> Seq(Places \ {Heartbeat})]
               /\ announced' \in [Clients -> SUBSET (Places \ {Heartbeat})]
               /\ \A d \in Clients : Cardinality(replay'[d]) <= ReplayCapacity
  BY <1>1, <1>2, <1>3 DEF TypeOK
<1>5. CASE StartAnew(c)
  <2>1. Cardinality({}) = 0 /\ ReplayCapacity \in Nat /\ Len(record) \in 0..Len(record)
    BY FS_EmptySet, LimitsAssumption DEF TypeOK
  <2> QED
    BY <1>5, <2>1 DEF StartAnew, Begin, TypeOK
<1>6. ASSUME NEW i \in Oldest(Recognised(seen[c].id)), Resume(c, i)
      PROVE  /\ replay' \in [Clients -> SUBSET (Places \ {Heartbeat})] /\ from' \in [Clients -> 0..Len(record)]
             /\ got' \in [Clients -> Seq(Places \ {Heartbeat})]
             /\ announced' \in [Clients -> SUBSET (Places \ {Heartbeat})]
             /\ \A d \in Clients : Cardinality(replay'[d]) <= ReplayCapacity
  <2> DEFINE R == ReplayAfter(c, i)
  <2>1. i \in 1..Len(record) /\ i \in 0..Len(record)
    BY RecognisedIs DEF TypeOK
  <2>2. R \subseteq Buffered /\ R \subseteq Places \ {Heartbeat}
    BY DEF ReplayAfter, Buffered, Places, Heartbeat, TypeOK
  <2>3. Cardinality(R) <= ReplayCapacity
    BY <2>2, BufferedIsBounded
  <2>4. replay' = [replay EXCEPT ![c] = R]
    BY <1>6 DEF Resume
  <2> HIDE DEF R
  <2>5. replay' \in [Clients -> SUBSET (Places \ {Heartbeat})] /\ \A d \in Clients : Cardinality(replay'[d]) <= ReplayCapacity
    BY <2>2, <2>3, <2>4 DEF TypeOK
  <2>6. CASE GoOn
    BY <2>5, <2>6 DEF GoOn, TypeOK
  <2>7. CASE Begin(c, i)
    BY <2>1, <2>5, <2>7 DEF Begin, TypeOK
  <2> QED
    BY <1>6, <2>6, <2>7 DEF Resume
<1> QED
  BY <1>5, <1>6 DEF Subscribe

LEMMA TypeOfHandle == ASSUME TypeOK, NEW c \in Clients, Handle(c) PROVE TypeOK'
<1> USE DEF brokerVars, fanVars, streamVars, clientVars
<1>1. Places' = Places
  BY DEF Handle, WriteReplay, Take, Write, Places
<1>2. ASSUME NEW k \in Places, Sees(c, k)
      PROVE  seen' \in [Clients -> Events \cup {NoEvent}] /\ got' \in [Clients -> Seq(Places \ {Heartbeat})]
  <2>1. CASE k = Heartbeat
    BY <1>2, <2>1 DEF Sees, TypeOK
  <2>2. CASE k # Heartbeat
    <3>1. record[k] \in Events
      BY <2>2 DEF Places, Heartbeat, TypeOK
    <3>2. Append(got[c], k) \in Seq(Places \ {Heartbeat})
      BY <2>2, AppendIs DEF TypeOK
    <3> QED
      BY <1>2, <2>2, <3>1, <3>2 DEF Sees, TypeOK
  <2> QED
    BY <2>1, <2>2
<1>3. CASE WriteReplay(c)
  <2>1. PICK k \in Oldest(replay[c]) : replay' = [replay EXCEPT ![c] = @ \ {k}] /\ Sees(c, k)
    BY <1>3 DEF WriteReplay
  <2>2. k \in Places /\ replay'[c] \in SUBSET replay[c]
    BY <2>1 DEF Oldest, TypeOK
  <2>3. Cardinality(replay'[c]) <= ReplayCapacity
    <3>1. Cardinality(replay'[c]) <= Cardinality(replay[c]) /\ IsFiniteSet(replay'[c]) /\ IsFiniteSet(replay[c])
      BY <2>2, ReplayIsFinite, FS_Subset
    <3>2. Cardinality(replay[c]) <= ReplayCapacity /\ ReplayCapacity \in Nat
      BY LimitsAssumption DEF TypeOK
    <3> QED
      BY <3>1, <3>2, FS_CardinalityType
  <2>4. seen' \in [Clients -> Events \cup {NoEvent}] /\ got' \in [Clients -> Seq(Places \ {Heartbeat})]
    BY <1>2, <2>1, <2>2
  <2> QED
    BY <1>1, <1>3, <2>1, <2>3, <2>4 DEF WriteReplay, TypeOK
<1>4. CASE Take(c)
  <2>1. Head(ch[c]) \in Places /\ Tail(ch[c]) \in Seq(Places) /\ Len(Tail(ch[c])) <= ChannelLen
    <3>1. ch[c] \in Seq(Places) /\ ch[c] # <<>> /\ Len(ch[c]) <= ChannelLen /\ ChannelLen \in Nat
      BY <1>4, LimitsAssumption DEF Take, TypeOK
    <3> QED
      BY <3>1, TailIs
  <2> QED
    BY <1>1, <1>4, <2>1 DEF Take, TypeOK
<1>5. CASE Write(c)
  <2>1. hand[c] \in Places /\ Sees(c, hand[c])
    BY <1>5 DEF Write, TypeOK
  <2>2. seen' \in [Clients -> Events \cup {NoEvent}] /\ got' \in [Clients -> Seq(Places \ {Heartbeat})]
    BY <1>2, <2>1
  <2>3. Missed(c) \subseteq Places \ {Heartbeat}
    <3>1. Expected(c, from[c]) \subseteq Places \ {Heartbeat}
      <4>1. from[c] \in Nat /\ Len(record) \in Nat
        BY DEF TypeOK
      <4> QED
        BY <4>1 DEF Expected, Places, Heartbeat
    <3> QED
      BY <3>1 DEF Missed
  <2>4. dropped' \in [Clients -> Nat] /\ announced' \in [Clients -> SUBSET (Places \ {Heartbeat})]
    <3>1. CASE NoticeDue(c)
      <4> DEFINE A == announced[c] \cup Missed(c)
      <4>1. A \subseteq Places \ {Heartbeat} /\ announced' = [announced EXCEPT ![c] = A]
            /\ dropped' = [dropped EXCEPT ![c] = 0]
        BY <1>5, <2>3, <3>1 DEF Write, TypeOK
      <4> HIDE DEF A
      <4> QED
        BY <4>1 DEF TypeOK
    <3>2. CASE ~NoticeDue(c)
      BY <1>5, <3>2 DEF Write, TypeOK
    <3> QED
      BY <3>1, <3>2
  <2> QED
    BY <1>1, <1>5, <2>2, <2>4 DEF Write, TypeOK
<1> QED
  BY <1>3, <1>4, <1>5 DEF Handle

LEMMA TypeOfUnsubscribe ==
  ASSUME TypeOK, IsFiniteSet(open), NEW c \in Clients, Unsubscribe(c)
  PROVE  TypeOK' /\ IsFiniteSet(open')
<1> USE DEF brokerVars, fanVars, streamVars, clientVars
<1>1. Places' = Places /\ Cardinality({}) = 0 /\ ReplayCapacity \in Nat /\ ChannelLen \in Nat /\ MaxSubscribers \in Nat
  BY FS_EmptySet, LimitsAssumption DEF Unsubscribe, Places
<1>2. IsFiniteSet(open') /\ Cardinality(open') <= MaxSubscribers
  <2>1. open' \in SUBSET open /\ Cardinality(open) <= MaxSubscribers
    BY DEF Unsubscribe, Forget, TypeOK
  <2>2. IsFiniteSet(open') /\ Cardinality(open') <= Cardinality(open)
    BY <2>1, FS_Subset
  <2> QED
    BY <1>1, <2>1, <2>2, FS_CardinalityType
<1>3. replay' \in [Clients -> SUBSET (Places \ {Heartbeat})] /\ ch' \in [Clients -> Seq(Places)]
      /\ hand' \in [Clients -> Places \cup {NoEvent}] /\ dropped' \in [Clients -> Nat]
      /\ \A d \in Clients : Cardinality(replay'[d]) <= ReplayCapacity /\ Len(ch'[d]) <= ChannelLen
  BY <1>1 DEF Unsubscribe, Forget, TypeOK
<1>4. open' \subseteq Clients /\ todo' \subseteq open' /\ full' \subseteq todo'
  BY DEF Unsubscribe, Forget, TypeOK, Unlocked
<1> QED
  BY <1>1, <1>2, <1>3, <1>4 DEF Unsubscribe, TypeOK

LEMMA TypeOfRestart == ASSUME TypeOK, Restart PROVE TypeOK' /\ IsFiniteSet(open')
<1> USE DEF brokerVars, fanVars, streamVars, clientVars
<1>1. Cardinality({}) = 0 /\ IsFiniteSet({}) /\ ReplayCapacity \in Nat /\ ChannelLen \in Nat /\ MaxSubscribers \in Nat
      /\ PublishBuffer \in Nat /\ MaxEra \in Nat /\ MaxEvents \in Nat
  BY FS_EmptySet, LimitsAssumption
<1>2. open' = {}
  BY DEF Restart, Forget, TypeOK
<1>3. replay' \in [Clients -> SUBSET (Places' \ {Heartbeat})] /\ ch' \in [Clients -> Seq(Places')]
      /\ hand' \in [Clients -> Places' \cup {NoEvent}] /\ dropped' \in [Clients -> Nat]
      /\ from' \in [Clients -> 0..0] /\ got' \in [Clients -> Seq(Places' \ {Heartbeat})]
      /\ announced' \in [Clients -> SUBSET (Places' \ {Heartbeat})]
      /\ \A d \in Clients : Cardinality(replay'[d]) <= ReplayCapacity /\ Len(ch'[d]) <= ChannelLen
  <2> HIDE DEF brokerVars, fanVars, streamVars, clientVars
  <2> QED
    BY <1>1 DEF Restart, Forget
<1>4. era' \in 0..MaxEra /\ nextID' \in 0..MaxEvents /\ drafted' = {} /\ queue' = <<>> /\ record' = <<>>
      /\ todo' = {} /\ full' = {} /\ seen' = seen
  BY <1>1 DEF Restart, TypeOK
<1> QED
  BY <1>1, <1>2, <1>3, <1>4 DEF TypeOK, Heartbeat

LEMMA TypeStays == ASSUME TypeOK, IsFiniteSet(open), Next PROVE TypeOK' /\ IsFiniteSet(open')
<1> USE DEF brokerVars, fanVars, streamVars, clientVars
<1>1. CASE Publish
  BY <1>1, TypeOfPublish DEF Publish, Draft, Enqueue, MakeRoom
<1>2. CASE RecordReplay
  BY <1>2, TypeOfRecordReplay DEF RecordReplay
<1>3. CASE Fanout
  <2>1. PICK c \in todo : Offer(c) \/ Evict(c)
    BY <1>3 DEF Fanout
  <2> QED
    BY <2>1, TypeOfFanout DEF Offer, Evict
<1>4. CASE FanoutHeartbeat
  BY <1>4, TypeOfHeartbeat DEF FanoutHeartbeat
<1>5. CASE Restart
  BY <1>5, TypeOfRestart
<1>6. ASSUME NEW c \in Clients, Subscribe(c) PROVE TypeOK' /\ IsFiniteSet(open')
  BY <1>6, TypeOfSubscribe
<1>7. ASSUME NEW c \in Clients, Handle(c) PROVE TypeOK' /\ IsFiniteSet(open')
  BY <1>7, TypeOfHandle DEF Handle, WriteReplay, Take, Write
<1>8. ASSUME NEW c \in Clients, Unsubscribe(c) PROVE TypeOK' /\ IsFiniteSet(open')
  BY <1>8, TypeOfUnsubscribe
<1> QED
  BY <1>1, <1>2, <1>3, <1>4, <1>5, <1>6, <1>7, <1>8 DEF Next, Run

-----------------------------------------------------------------------------
\* Whatever is kept for a client is a place of the record.
LEMMA WithinTheRecord ==
  ASSUME TypeOK, NEW c \in Clients
  PROVE  /\ Len(record) \in Nat /\ from[c] \in 0..Len(record)
         /\ got[c] \in Seq(1..Len(record)) /\ ch[c] \in Seq(0..Len(record))
         /\ got[c] \in Seq(Nat \ {Heartbeat}) /\ got[c] \in Seq(Nat) /\ ch[c] \in Seq(Nat)
         /\ Elems(got[c]) \subseteq 1..Len(record) /\ Elems(ch[c]) \subseteq 0..Len(record)
         /\ replay[c] \subseteq 1..Len(record) /\ announced[c] \subseteq 1..Len(record)
         /\ Held(c) \subseteq 0..Len(record) /\ Expected(c, from[c]) \subseteq 1..Len(record)
         /\ Missed(c) \subseteq 1..Len(record) /\ NoEvent \notin 0..Len(record)
<1>1. Len(record) \in Nat /\ Places = 0..Len(record) /\ Places \ {Heartbeat} = 1..Len(record)
  BY DEF TypeOK, Places, Heartbeat
<1>2. from[c] \in 0..Len(record) /\ got[c] \in Seq(1..Len(record)) /\ ch[c] \in Seq(0..Len(record))
      /\ replay[c] \subseteq 1..Len(record) /\ announced[c] \subseteq 1..Len(record)
      /\ hand[c] \in 0..Len(record) \cup {NoEvent}
  BY <1>1 DEF TypeOK
<1>3. 1..Len(record) \subseteq Nat \ {Heartbeat} /\ 1..Len(record) \subseteq Nat /\ 0..Len(record) \subseteq Nat
  BY <1>1 DEF Heartbeat
<1>4. got[c] \in Seq(Nat \ {Heartbeat}) /\ got[c] \in Seq(Nat) /\ ch[c] \in Seq(Nat)
  BY <1>2, <1>3, SeqGrows
<1>5. Elems(got[c]) \subseteq 1..Len(record) /\ Elems(ch[c]) \subseteq 0..Len(record)
  BY <1>2, ElemsAre
<1>6. Expected(c, from[c]) \subseteq 1..Len(record)
  BY <1>1, <1>2 DEF Expected
<1> QED
  BY <1>1, <1>2, <1>3, <1>4, <1>5, <1>6, NoEventAssumption DEF Held, Missed

\* A step that changes nothing of a client and nothing of the record keeps its part.
LEMMA Untouched ==
  ASSUME NEW c \in Clients, ClientInv(c), UNCHANGED <<era, record>>,
         UNCHANGED <<replay[c], ch[c], hand[c], dropped[c], seen[c], from[c], got[c], announced[c]>>,
         c \in todo' <=> c \in todo, c \in open' <=> c \in open
  PROVE  ClientInv(c)'
<1>1. Held(c)' = Held(c) /\ Due(c)' = Due(c)
  BY DEF Held, Due
<1>2. Expected(c, from[c])' = Expected(c, from[c])
  BY DEF Expected
<1>3. OnItsWay(c)' = OnItsWay(c)
  BY DEF OnItsWay
<1>4. Missed(c)' = Missed(c)
  BY <1>2, <1>3 DEF Missed
<1>5. OrderInv(c)' <=> OrderInv(c)
  BY <1>1 DEF OrderInv
<1>6. SeenInv(c)' <=> SeenInv(c)
  BY DEF SeenInv
<1>7. SettledInv(c)' <=> SettledInv(c)
  BY <1>2 DEF SettledInv
<1>8. MissedInv(c)' <=> MissedInv(c)
  BY <1>4 DEF MissedInv
<1>9. ClosedInv(c)' <=> ClosedInv(c)
  BY DEF ClosedInv
<1> QED
  BY <1>5, <1>6, <1>7, <1>8, <1>9 DEF ClientInv

\* A step after which nothing more is missed, and nothing more is to be replayed.
LEMMA NothingMoreIsMissed ==
  ASSUME NEW c \in Clients, MissedInv(c), Missed(c)' \subseteq Missed(c), replay'[c] \subseteq replay[c],
         dropped'[c] = dropped[c], dropped[c] \in Nat
  PROVE  MissedInv(c)'
<1>1. IsFiniteSet(Missed(c)') /\ Cardinality(Missed(c)') <= Cardinality(Missed(c))
  BY FS_Subset DEF MissedInv
<1>2. Cardinality(Missed(c)') \in Nat /\ Cardinality(Missed(c)) \in Nat
  BY <1>1, FS_CardinalityType DEF MissedInv
<1>3. Cardinality(Missed(c)') <= dropped'[c]
  BY <1>1, <1>2 DEF MissedInv
<1>4. Before(replay[c], Missed(c))'
  BY DEF MissedInv, Before
<1> QED
  BY <1>1, <1>3, <1>4 DEF MissedInv

\* A step after which nothing is missed at all.
LEMMA NothingIsMissed ==
  ASSUME NEW c \in Clients, Missed(c)' = {}, dropped'[c] \in Nat
  PROVE  MissedInv(c)'
<1>1. IsFiniteSet({}) /\ Cardinality({}) = 0
  BY FS_EmptySet
<1> QED
  BY <1>1 DEF MissedInv, Before

\* The goroutine records an event: it comes after everything there is.
LEMMA ClientOfRecordReplay ==
  ASSUME BrokerInv, RecordReplay, NEW c \in Clients
  PROVE  ClientInv(c)'
<1> DEFINE n == Len(record)
<1>1. TypeOK /\ IdsInv /\ ClientInv(c) /\ n \in Nat
  BY DEF BrokerInv, TypeOK
<1>2. Len(record') = n + 1 /\ record'[n + 1] = Head(queue) /\ Head(queue) = queue[1] /\ 1 \in 1..Len(queue)
      /\ \A i \in 1..n : record'[i] = record[i]
  BY <1>1, Recorded
<1>3. UNCHANGED <<era, nextID, drafted, full, open, replay, ch, hand, dropped, seen, from, got, announced>>
      /\ todo = {} /\ todo' = {d \in open : Matches(d, Head(queue))}
  BY DEF RecordReplay, streamVars, clientVars, Unlocked
<1>4. /\ from[c] \in 0..n /\ got[c] \in Seq(1..n) /\ Elems(got[c]) \subseteq 1..n /\ Elems(ch[c]) \subseteq 0..n
      /\ replay[c] \subseteq 1..n /\ Held(c) \subseteq 0..n /\ Expected(c, from[c]) \subseteq 1..n
  BY <1>1, WithinTheRecord
<1>5. Due(c) = {} /\ Due(c)' = IF c \in todo' THEN {n + 1} ELSE {}
  BY <1>2, <1>3 DEF Due
<1>6. Held(c)' = Held(c)
  BY <1>3 DEF Held
<1>7. /\ Expected(c, from[c])' = Expected(c, from[c]) \cup (IF Matches(c, Head(queue)) THEN {n + 1} ELSE {})
  <2>1. \A k \in 1..(n + 1) : k \in 1..n \/ k = n + 1
    BY <1>1
  <2>2. Expected(c, from[c])' = {k \in (from[c] + 1)..(n + 1) : Matches(c, record'[k])}
    BY <1>2, <1>3 DEF Expected, Matches
  <2>3. Expected(c, from[c]) = {k \in (from[c] + 1)..n : Matches(c, record[k])}
    BY DEF Expected
  <2>4. n + 1 \in (from[c] + 1)..(n + 1) /\ from[c] \in Nat
    BY <1>1, <1>4
  <2>5. \A k : k \in (from[c] + 1)..(n + 1) <=> k \in (from[c] + 1)..n \/ k = n + 1
    BY <1>1, <2>4
  <2>6. \A k \in (from[c] + 1)..n : k \in 1..n
    BY <1>1, <2>4
  <2>7. \A k \in (from[c] + 1)..n : Matches(c, record'[k]) <=> Matches(c, record[k])
    BY <2>6, <1>2
  <2> QED
    BY <1>2, <2>2, <2>3, <2>5, <2>7
<1> HIDE DEF n
<1>8. OrderInv(c)'
  BY <1>1, <1>3, <1>4, <1>5, <1>6 DEF ClientInv, OrderInv, Before
<1>9. SeenInv(c)'
  <2>1. seen[c] # NoEvent => seen[c].era <= era
    BY <1>1 DEF ClientInv, SeenInv
  <2>2. ASSUME seen[c] # NoEvent, seen[c].era = era PROVE \E m \in 1..(n + 1) : record'[m] = seen[c]
    <3>1. PICK m \in 1..n : record[m] = seen[c]
      BY <1>1, <2>2 DEF ClientInv, SeenInv, n
    <3>2. m \in 1..(n + 1) /\ record'[m] = record[m]
      BY <1>1, <1>2
    <3> QED
      BY <3>1, <3>2
  <2>3. ASSUME got[c] # <<>> PROVE seen[c] = record'[got[c][Len(got[c])]]
    <3>1. seen[c] = record[got[c][Len(got[c])]]
      BY <1>1, <2>3 DEF ClientInv, SeenInv
    <3>2. got[c][Len(got[c])] \in 1..n
      BY <1>4, <2>3, LastIs
    <3> QED
      BY <3>1, <3>2, <1>2
  <2>4. ASSUME got[c] = <<>>, NEW m \in 1..(n + 1), record'[m] = seen[c] PROVE m <= from[c]
    <3>1. CASE m \in 1..n
      BY <1>1, <1>2, <2>4, <3>1 DEF ClientInv, SeenInv, n
    <3>2. CASE m = n + 1
      <4>1. seen[c] = queue[1] /\ queue[1] \in Events /\ queue[1].era = era
        BY <1>1, <1>2, <2>4, <3>2 DEF IdsInv, Numbered
      <4>2. PICK j \in 1..n : record[j] = seen[c]
        BY <1>1, <4>1, NoEventAssumption DEF ClientInv, SeenInv, n
      <4>3. record[j].id # queue[1].id
        BY <1>1, <1>2, <4>2 DEF IdsInv, n
      <4> QED
        BY <4>1, <4>2, <4>3
    <3> QED
      BY <1>1, <3>1, <3>2
  <2> QED
    BY <1>2, <1>3, <2>1, <2>2, <2>3, <2>4 DEF SeenInv
<1>10. SettledInv(c)'
  <2>1. \A g \in Elems(got[c]) : ~(n + 1 <= g)
    BY <1>1, <1>4
  <2> QED
    BY <1>1, <1>3, <1>7, <2>1 DEF ClientInv, SettledInv
<1>11. ASSUME c \in open PROVE MissedInv(c)'
  <2>1. Missed(c)' \subseteq Missed(c)
    <3>1. OnItsWay(c)' = OnItsWay(c) \cup Due(c)'
      BY <1>2, <1>3 DEF OnItsWay, Due
    <3>2. Matches(c, Head(queue)) => n + 1 \in Due(c)'
      BY <1>3, <1>5, <1>11
    <3> QED
      BY <1>3, <1>7, <3>1, <3>2 DEF Missed
  <2> QED
    BY <1>1, <1>3, <1>11, <2>1, NothingMoreIsMissed DEF ClientInv, TypeOK
<1>12. ASSUME c \notin open PROVE ClosedInv(c)'
  BY <1>1, <1>3, <1>12 DEF ClientInv, ClosedInv
<1> QED
  BY <1>3, <1>8, <1>9, <1>10, <1>11, <1>12 DEF ClientInv

\* A step that shows a client nothing leaves its history, and what that history is of.
LEMMA HistoryStays ==
  ASSUME NEW c \in Clients, SeenInv(c), SettledInv(c),
         UNCHANGED <<era, record, seen[c], from[c], got[c]>>, announced[c] \subseteq announced'[c]
  PROVE  SeenInv(c)' /\ SettledInv(c)' /\ Expected(c, from[c])' = Expected(c, from[c])
<1>1. Expected(c, from[c])' = Expected(c, from[c])
  BY DEF Expected
<1>2. SeenInv(c)'
  BY DEF SeenInv
<1>3. SettledInv(c)'
  BY <1>1 DEF SettledInv
<1> QED
  BY <1>1, <1>2, <1>3

\* The send of an event into a channel: the event was due, and comes last.
LEMMA ClientOfSend ==
  ASSUME BrokerInv, NEW c \in Clients, c \in todo, c \in open, UNCHANGED <<era, record, open>>,
         UNCHANGED <<replay[c], hand[c], dropped[c], seen[c], from[c], got[c], announced[c]>>,
         ch'[c] = Append(ch[c], Len(record)), c \notin todo'
  PROVE  ClientInv(c)'
<1> DEFINE n == Len(record)
<1>1. TypeOK /\ ClientInv(c) /\ MissedInv(c) /\ dropped[c] \in Nat
  BY DEF BrokerInv, ClientInv, TypeOK
<1>2. n \in Nat /\ ch[c] \in Seq(Nat)
  BY <1>1, WithinTheRecord
<1>3. Elems(ch[c])' = Elems(ch[c]) \cup {n}
  BY <1>2, ElemsOfAppend
<1>4. Due(c) = {n} /\ Due(c)' = {} /\ Held(c)' = Held(c)
  BY DEF Due, Held
<1>5. Rising(ch[c])'
  BY <1>1, <1>2, <1>4, RisingAppend DEF ClientInv, OrderInv
<1>6. OrderInv(c)'
  BY <1>1, <1>3, <1>4, <1>5 DEF ClientInv, OrderInv, Before
<1>7. SeenInv(c)' /\ SettledInv(c)' /\ Expected(c, from[c])' = Expected(c, from[c])
  BY <1>1, HistoryStays DEF ClientInv
<1>8. OnItsWay(c)' = OnItsWay(c)
  BY <1>3 DEF OnItsWay
<1>9. MissedInv(c)'
  BY <1>1, <1>7, <1>8, NothingMoreIsMissed DEF Missed
<1> QED
  BY <1>6, <1>7, <1>9 DEF ClientInv

\* The event that makes room was not written, and is counted.
LEMMA ClientOfDrop ==
  ASSUME BrokerInv, NEW c \in Clients, c \in todo, c \in open, UNCHANGED <<era, record, open>>,
         UNCHANGED <<replay[c], hand[c], seen[c], from[c], got[c], announced[c]>>,
         ch[c] # <<>>, ch'[c] = Append(Tail(ch[c]), Len(record)), c \notin todo',
         dropped'[c] = dropped[c] + 1
  PROVE  ClientInv(c)'
<1> DEFINE n == Len(record)
           h == Head(ch[c])
           t == Tail(ch[c])
<1>1. TypeOK /\ ClientInv(c) /\ MissedInv(c) /\ dropped[c] \in Nat
  BY DEF BrokerInv, ClientInv, TypeOK
<1>2. n \in Nat /\ ch[c] \in Seq(Nat)
  BY <1>1, WithinTheRecord
<1>3. Elems(ch[c]) = {h} \cup Elems(t) /\ t \in Seq(Nat) /\ h \in Nat
  BY <1>2, ElemsOfTail
<1>4. Elems(ch[c])' = Elems(t) \cup {n}
  <2>1. ch'[c] = Append(t, n)
    OBVIOUS
  <2> HIDE DEF t, n
  <2>2. Elems(Append(t, n)) = Elems(t) \cup {n}
    <3>1. t \in Seq(Nat) /\ n \in Nat
      BY <1>2, <1>3
    <3> QED
      BY <3>1, ElemsOfAppend
  <2> QED
    BY <2>1, <2>2
<1>5. Due(c) = {n} /\ Due(c)' = {} /\ Held(c)' = Held(c)
  BY DEF Due, Held
<1>6. Rising(t)
  BY <1>1, <1>2, RisingTail DEF ClientInv, OrderInv
<1> HIDE DEF h, t
<1>7. Before(Elems(t), {n})
  BY <1>1, <1>3, <1>5 DEF ClientInv, OrderInv, Before
<1>8. Rising(ch[c])'
  BY <1>2, <1>3, <1>6, <1>7, RisingAppend DEF t
<1>9. OrderInv(c)'
  BY <1>1, <1>3, <1>4, <1>5, <1>8 DEF ClientInv, OrderInv, Before
<1>10. SeenInv(c)' /\ SettledInv(c)' /\ Expected(c, from[c])' = Expected(c, from[c])
  BY <1>1, HistoryStays DEF ClientInv
<1>11. OnItsWay(c) \subseteq OnItsWay(c)' \cup {h}
  BY <1>3, <1>4 DEF OnItsWay
<1>12. Missed(c)' \subseteq Missed(c) \cup {h}
  BY <1>10, <1>11 DEF Missed
<1>13. MissedInv(c)'
  <2>1. IsFiniteSet(Missed(c) \cup {h}) /\ Cardinality(Missed(c) \cup {h}) <= Cardinality(Missed(c)) + 1
        /\ Cardinality(Missed(c)) \in Nat
    <3> DEFINE M == Missed(c)
    <3>1. IsFiniteSet(M)
      BY <1>1 DEF MissedInv
    <3> HIDE DEF M
    <3>2. IsFiniteSet(M \cup {h}) /\ Cardinality(M \cup {h}) = IF h \in M THEN Cardinality(M) ELSE Cardinality(M) + 1
      BY <3>1, FS_AddElement
    <3>3. Cardinality(M) \in Nat
      BY <3>1, FS_CardinalityType
    <3> QED
      BY <3>2, <3>3 DEF M
  <2>2. IsFiniteSet(Missed(c)') /\ Cardinality(Missed(c)') <= Cardinality(Missed(c) \cup {h})
    BY <2>1, <1>12, FS_Subset
  <2>3. Cardinality(Missed(c)') \in Nat /\ Cardinality(Missed(c) \cup {h}) \in Nat
    BY <2>1, <2>2, FS_CardinalityType
  <2>4. Cardinality(Missed(c)') <= dropped'[c]
    BY <1>1, <2>1, <2>2, <2>3 DEF MissedInv
  <2>5. Before(replay[c], {h})
    BY <1>1, <1>3 DEF ClientInv, OrderInv, Before
  <2>6. Before(replay[c], Missed(c))'
    BY <1>1, <1>12, <2>5 DEF MissedInv, Before
  <2> QED
    BY <2>2, <2>4, <2>6 DEF MissedInv
<1> QED
  BY <1>9, <1>10, <1>13 DEF ClientInv

LEMMA ClientOfFanout ==
  ASSUME BrokerInv, NEW c \in todo, Offer(c) \/ Evict(c), NEW d \in Clients
  PROVE  ClientInv(d)'
<1> USE DEF brokerVars, streamVars, clientVars
<1>1. TypeOK /\ c \in Clients /\ c \in open /\ ClientInv(d) /\ ch[c] \in Seq(Places) /\ ch \in [Clients -> Seq(Places)]
      /\ dropped \in [Clients -> Nat]
  BY DEF BrokerInv, TypeOK
<1>2. UNCHANGED <<era, record, open, replay, hand, seen, from, got, announced>>
  BY DEF Offer, Evict
<1>3. CASE d # c
  <2>1. (d \in todo' <=> d \in todo) /\ ch'[d] = ch[d] /\ dropped'[d] = dropped[d]
    BY <1>1, <1>3 DEF Offer, Evict
  <2> QED
    BY <1>1, <1>2, <2>1, Untouched
<1>4. CASE d = c /\ Offer(c) /\ Len(ch[c]) < ChannelLen
  <2>1. ch'[c] = Append(ch[c], Len(record)) /\ c \notin todo' /\ dropped'[c] = dropped[c]
    BY <1>1, <1>4 DEF Offer
  <2> QED
    BY <1>1, <1>2, <1>4, <2>1, ClientOfSend
<1>5. CASE d = c /\ Offer(c) /\ ~(Len(ch[c]) < ChannelLen)
  <2>1. UNCHANGED <<ch, todo, dropped>>
    BY <1>5 DEF Offer
  <2> QED
    BY <1>1, <1>2, <2>1, Untouched
<1>6. CASE d = c /\ Evict(c) /\ ch[c] = <<>>
  <2>1. ch'[c] = <<Len(record)>> /\ c \notin todo' /\ dropped'[c] = dropped[c]
    BY <1>1, <1>6 DEF Evict
  <2>2. Append(<<>>, Len(record)) = <<Len(record)>>
    OBVIOUS
  <2> QED
    BY <1>1, <1>2, <1>6, <2>1, <2>2, ClientOfSend
<1>7. CASE d = c /\ Evict(c) /\ ch[c] # <<>>
  <2>1. ch'[c] = Append(Tail(ch[c]), Len(record)) /\ c \notin todo' /\ dropped'[c] = dropped[c] + 1
    BY <1>1, <1>7 DEF Evict
  <2> QED
    BY <1>1, <1>2, <1>7, <2>1, ClientOfDrop
<1> QED
  BY <1>3, <1>4, <1>5, <1>6, <1>7

\* A heartbeat takes a place in a channel, and has none in the order.
LEMMA ClientOfHeartbeat ==
  ASSUME BrokerInv, FanoutHeartbeat, NEW c \in Clients
  PROVE  ClientInv(c)'
<1> USE DEF brokerVars, fanVars, streamVars, clientVars
<1>1. TypeOK /\ ClientInv(c) /\ dropped[c] \in Nat /\ UNCHANGED <<era, record, todo, open, replay, hand, dropped, seen, from, got, announced>>
  BY DEF BrokerInv, TypeOK, FanoutHeartbeat
<1>2. ch[c] \in Seq(Nat) /\ Heartbeat \in Nat
  BY <1>1, WithinTheRecord DEF Heartbeat
<1>3. CASE c \in open /\ Len(ch[c]) < ChannelLen
  <2>1. ch'[c] = Append(ch[c], Heartbeat)
    BY <1>3 DEF FanoutHeartbeat
  <2>2. Elems(ch[c])' = Elems(ch[c]) \cup {Heartbeat}
    BY <1>2, <2>1, ElemsOfAppend
  <2>3. Rising(ch[c])'
    BY <1>1, <1>2, <2>1, RisingAppend DEF ClientInv, OrderInv, Before
  <2>4. Due(c)' = Due(c) /\ Held(c)' = Held(c)
    BY <1>1 DEF Due, Held
  <2>5. OrderInv(c)'
    BY <1>1, <2>2, <2>3, <2>4 DEF ClientInv, OrderInv, Before
  <2>6. SeenInv(c)' /\ SettledInv(c)' /\ Expected(c, from[c])' = Expected(c, from[c])
    BY <1>1, HistoryStays DEF ClientInv
  <2>7. OnItsWay(c) \subseteq OnItsWay(c)'
    BY <1>1, <2>2 DEF OnItsWay
  <2>8. MissedInv(c)'
    BY <1>1, <1>3, <2>6, <2>7, NothingMoreIsMissed DEF Missed, ClientInv
  <2> QED
    BY <1>1, <1>3, <2>5, <2>6, <2>8 DEF ClientInv
<1>4. CASE ~(c \in open /\ Len(ch[c]) < ChannelLen)
  <2>1. ch'[c] = ch[c]
    BY <1>4 DEF FanoutHeartbeat
  <2> QED
    BY <1>1, <2>1, Untouched
<1> QED
  BY <1>3, <1>4

\* A stream that begins or goes on after position i of the record, and is to be
\* replayed what the buffer holds beyond it, misses nothing.
LEMMA NothingBeforeTheReplay ==
  ASSUME TypeOK, NEW c \in Clients, NEW i \in Buffered, UNCHANGED record,
         replay'[c] = ReplayAfter(c, i),
         \A k \in Expected(c, from[c])' : k > i \/ k \in Elems(got'[c]) \cup announced'[c]
  PROVE  Missed(c)' = {}
<1>1. Len(record) \in Nat /\ i \in 1..Len(record) /\ i > Len(record) - ReplayCapacity /\ ReplayCapacity \in Nat
  BY LimitsAssumption DEF TypeOK, Buffered
<1>2. ASSUME NEW k \in Expected(c, from[c])', k > i, k \in Int PROVE k \in replay'[c]
  <2>1. k <= Len(record) /\ Matches(c, record[k])
    BY <1>2 DEF Expected, Matches
  <2>2. k \in Buffered
    BY <1>1, <1>2, <2>1 DEF Buffered
  <2> QED
    BY <1>2, <2>1, <2>2 DEF ReplayAfter
<1>3. \A k \in Expected(c, from[c])' : k \in Int
  BY DEF Expected
<1> QED
  BY <1>2, <1>3 DEF Missed, OnItsWay

LEMMA ClientOfResume ==
  ASSUME BrokerInv, NEW c \in Clients, c \notin open, c \in open', seen[c] # NoEvent,
         NEW i \in Oldest(Recognised(seen[c].id)), Resume(c, i),
         UNCHANGED <<era, record, todo, ch, hand, dropped, seen>>
  PROVE  ClientInv(c)'
<1> DEFINE n == Len(record)
<1>1. TypeOK /\ IdsInv /\ ClientInv(c) /\ ClosedInv(c) /\ dropped'[c] \in Nat
  BY DEF BrokerInv, ClientInv, TypeOK
<1>2. i \in Buffered /\ i \in 1..n /\ record[i].id = seen[c].id
  BY <1>1, RecognisedIs
<1>3. replay'[c] = ReplayAfter(c, i) /\ n \in Nat
  BY <1>1 DEF Resume, TypeOK
<1>4. Elems(ch[c])' = {} /\ Held(c)' = {} /\ Due(c)' = {} /\ ch'[c] = <<>> /\ hand'[c] = NoEvent
  BY <1>1, ElemsOfNone DEF ClosedInv, Held, Due
<1>5. Rising(ch[c])'
  BY <1>4 DEF Rising
<1>6. \A k \in replay'[c] : k > i
  BY <1>3 DEF ReplayAfter
<1>7. /\ got[c] \in Seq(Nat \ {Heartbeat}) /\ from[c] \in 0..n /\ Elems(got[c]) \subseteq 1..n
      /\ Expected(c, from[c]) \subseteq 1..n
  BY <1>1, WithinTheRecord
<1>8. CASE record[i] = seen[c]
  <2>1. UNCHANGED <<from[c], got[c], announced[c]>>
    BY <1>8 DEF Resume, GoOn
  <2>2. SeenInv(c)' /\ SettledInv(c)' /\ Expected(c, from[c])' = Expected(c, from[c])
    BY <1>1, <2>1, HistoryStays DEF ClientInv
  <2>3. CASE got[c] = <<>>
    <3>1. i <= from[c]
      BY <1>1, <1>2, <1>8, <2>3 DEF ClientInv, SeenInv
    <3>2. \A k \in Expected(c, from[c]) : k > i
      BY <1>2, <1>7, <3>1 DEF Expected
    <3>3. Elems(got[c])' = {} /\ Rising(got[c])'
      BY <2>1, <2>3, ElemsOfNone DEF Rising
    <3>4. OrderInv(c)'
      BY <1>4, <1>5, <3>3 DEF OrderInv, Before
    <3>5. Missed(c)' = {}
      BY <1>1, <1>2, <1>3, <2>2, <3>2, NothingBeforeTheReplay
    <3> QED
      BY <1>1, <2>2, <3>4, <3>5, NothingIsMissed DEF ClientInv
  <2>4. CASE got[c] # <<>>
    <3> DEFINE l == got[c][Len(got[c])]
    <3>1. l \in Elems(got[c]) /\ \A g \in Elems(got[c]) : g <= l
      BY <1>1, <1>7, <2>4, LastIsLatest DEF ClientInv, OrderInv
    <3>2. seen[c] = record[l] /\ l \in 1..n
      BY <1>1, <1>7, <2>4, <3>1 DEF ClientInv, SeenInv
    <3> HIDE DEF l
    <3>3. i = l
      BY <1>1, <1>2, <1>8, <3>2 DEF IdsInv
    <3>4. \A k \in Expected(c, from[c]) : k > i \/ k \in Elems(got[c]) \cup announced[c]
      <4> SUFFICES ASSUME NEW k \in Expected(c, from[c]), ~(k > i)
                   PROVE  k \in Elems(got[c]) \cup announced[c]
        OBVIOUS
      <4>1. k <= l
        BY <1>2, <1>7, <3>3
      <4> QED
        BY <1>1, <3>1, <4>1 DEF ClientInv, SettledInv
    <3>5. OrderInv(c)'
      <4>1. Rising(got[c])'
        BY <1>1, <2>1 DEF ClientInv, OrderInv
      <4>2. \A g \in Elems(got[c])' : g \in Nat /\ g <= i
        BY <1>7, <2>1, <3>1, <3>3
      <4>3. \A k \in replay'[c] : k \in Nat
        BY <1>3 DEF ReplayAfter, Buffered
      <4>4. Before(Elems(got[c])', replay'[c])
        BY <1>2, <1>6, <4>2, <4>3 DEF Before
      <4> QED
        BY <1>4, <1>5, <4>1, <4>4 DEF OrderInv, Before
    <3>6. Missed(c)' = {}
      BY <1>1, <1>2, <1>3, <2>1, <2>2, <3>4, NothingBeforeTheReplay
    <3> QED
      BY <1>1, <2>2, <3>5, <3>6, NothingIsMissed DEF ClientInv
  <2> QED
    BY <2>3, <2>4
<1>9. CASE record[i] # seen[c]
  <2>1. from'[c] = i /\ got'[c] = <<>> /\ announced'[c] = {}
    BY <1>1, <1>9 DEF Resume, Begin, TypeOK
  <2>2. Elems(got[c])' = {} /\ Rising(got[c])'
    BY <2>1, ElemsOfNone DEF Rising
  <2>3. OrderInv(c)'
    BY <1>4, <1>5, <2>2 DEF OrderInv, Before
  <2>4. SettledInv(c)'
    BY <2>2 DEF SettledInv
  <2>5. \A m \in 1..n : record[m] = seen[c] => FALSE
    BY <1>1, <1>2, <1>9 DEF IdsInv
  <2>6. SeenInv(c)'
    BY <1>1, <2>1, <2>5 DEF ClientInv, SeenInv
  <2>7. \A k \in Expected(c, from[c])' : k > i
    BY <1>2, <1>3, <2>1 DEF Expected
  <2>8. Missed(c)' = {}
    BY <1>1, <1>2, <1>3, <2>7, NothingBeforeTheReplay
  <2> QED
    BY <1>1, <2>3, <2>4, <2>6, <2>8, NothingIsMissed DEF ClientInv
<1> QED
  BY <1>8, <1>9

LEMMA ClientOfStartAnew ==
  ASSUME BrokerInv, NEW c \in Clients, c \notin open, c \in open', StartAnew(c),
         UNCHANGED <<era, record, todo, ch, hand, dropped, seen>>
  PROVE  ClientInv(c)'
<1> DEFINE n == Len(record)
<1>1. TypeOK /\ ClientInv(c) /\ ClosedInv(c) /\ dropped'[c] \in Nat /\ n \in Nat
  BY DEF BrokerInv, ClientInv, TypeOK
<1>2. from'[c] = n /\ got'[c] = <<>> /\ announced'[c] = {} /\ replay'[c] = {}
  BY <1>1 DEF StartAnew, Begin, TypeOK
<1>3. Elems(got[c])' = {} /\ Rising(got[c])' /\ Elems(ch[c])' = {} /\ Rising(ch[c])' /\ Held(c)' = {} /\ Due(c)' = {}
      /\ hand'[c] = NoEvent
  BY <1>1, <1>2, ElemsOfNone DEF ClosedInv, Held, Due, Rising
<1>4. OrderInv(c)'
  BY <1>2, <1>3 DEF OrderInv, Before
<1>5. SettledInv(c)'
  BY <1>3 DEF SettledInv
<1>6. SeenInv(c)'
  <2>1. \A m \in 1..n : m <= n
    BY <1>1
  <2> QED
    BY <1>1, <1>2, <2>1 DEF ClientInv, SeenInv
<1>7. Expected(c, from[c])' = {}
  <2>1. (n + 1)..n = {}
    BY <1>1
  <2> QED
    BY <1>2, <2>1 DEF Expected
<1>8. Missed(c)' = {}
  BY <1>7 DEF Missed
<1> QED
  BY <1>1, <1>4, <1>5, <1>6, <1>8, NothingIsMissed DEF ClientInv

LEMMA ClientOfSubscribe ==
  ASSUME BrokerInv, NEW c \in Clients, Subscribe(c), NEW d \in Clients
  PROVE  ClientInv(d)'
<1> USE DEF brokerVars, fanVars, streamVars, clientVars
<1>1. /\ c \notin open /\ open' = open \cup {c}
      /\ UNCHANGED <<era, record, todo, ch, hand, dropped, seen>>
  BY DEF Subscribe
<1>2. TypeOK /\ ClientInv(d)
  BY DEF BrokerInv
<1>3. CASE StartAnew(c)
  <2>1. d # c => UNCHANGED <<replay[d], from[d], got[d], announced[d]>>
    BY <1>2, <1>3 DEF StartAnew, Begin, TypeOK
  <2> QED
    BY <1>1, <1>2, <1>3, <2>1, ClientOfStartAnew, Untouched
<1>4. ASSUME seen[c] # NoEvent, NEW i \in Oldest(Recognised(seen[c].id)), Resume(c, i)
      PROVE  ClientInv(d)'
  <2>1. CASE d # c
    <3>1. replay'[d] = replay[d]
      BY <1>2, <1>4, <2>1 DEF Resume, TypeOK
    <3>2. UNCHANGED <<from[d], got[d], announced[d]>>
      <4>1. CASE GoOn
        BY <4>1 DEF GoOn
      <4>2. CASE Begin(c, i)
        BY <1>2, <2>1, <4>2 DEF Begin, TypeOK
      <4> QED
        BY <1>4, <4>1, <4>2 DEF Resume
    <3> QED
      BY <1>1, <1>2, <2>1, <3>1, <3>2, Untouched
  <2> QED
    BY <1>1, <1>4, <2>1, ClientOfResume
<1> QED
  BY <1>3, <1>4 DEF Subscribe

\* A client sees an event of the record that is later than all it saw.
LEMMA SeesTheNext ==
  ASSUME TypeOK, IdsInv, NEW c \in Clients, NEW k \in 1..Len(record), Sees(c, k), UNCHANGED <<era, record>>,
         Rising(got[c]), Before(Elems(got[c]), {k})
  PROVE  SeenInv(c)' /\ Elems(got[c])' = Elems(got[c]) \cup {k} /\ Rising(got[c])'
<1>1. got[c] \in Seq(Nat) /\ k \in Nat /\ k # Heartbeat /\ Len(record) \in Nat /\ got[c] \in Seq(1..Len(record))
  BY WithinTheRecord DEF Heartbeat
<1>2. seen'[c] = record[k] /\ got'[c] = Append(got[c], k)
  BY <1>1 DEF Sees, TypeOK
<1>3. Elems(got[c])' = Elems(got[c]) \cup {k}
  BY <1>1, <1>2, ElemsOfAppend
<1>4. Rising(got[c])'
  BY <1>1, <1>2, RisingAppend
<1>5. got'[c] # <<>> /\ got'[c][Len(got'[c])] = k
  <2>1. Len(Append(got[c], k)) = Len(got[c]) + 1 /\ Append(got[c], k)[Len(got[c]) + 1] = k /\ Len(got[c]) \in Nat
    BY <1>1, AppendIs
  <2>2. Len(got'[c]) = Len(got[c]) + 1 /\ got'[c][Len(got[c]) + 1] = k
    BY <1>2, <2>1
  <2>3. got'[c] # <<>>
    BY <2>1, <2>2
  <2> QED
    BY <2>2, <2>3
<1>6. record[k] \in Events /\ record[k].era = era /\ era \in Int
  BY DEF IdsInv, Numbered, TypeOK
<1>7. SeenInv(c)'
  BY <1>2, <1>5, <1>6 DEF SeenInv
<1> QED
  BY <1>3, <1>4, <1>7

LEMMA ClientOfWriteReplay ==
  ASSUME BrokerInv, NEW c \in Clients, WriteReplay(c)
  PROVE  ClientInv(c)'
<1> USE DEF brokerVars, fanVars, streamVars, clientVars
<1>1. TypeOK /\ IdsInv /\ OrderInv(c) /\ SeenInv(c) /\ SettledInv(c) /\ MissedInv(c) /\ dropped[c] \in Nat
  BY DEF BrokerInv, ClientInv, TypeOK, WriteReplay
<1>2. PICK k \in Oldest(replay[c]) : replay' = [replay EXCEPT ![c] = @ \ {k}] /\ Sees(c, k)
  BY DEF WriteReplay
<1>3. UNCHANGED <<era, record, todo, open, ch, hand, dropped, from, announced>> /\ c \in open
  BY DEF WriteReplay
<1>4. k \in replay[c] /\ replay'[c] = replay[c] \ {k} /\ \A j \in replay[c] : k <= j
  BY <1>1, <1>2 DEF Oldest, TypeOK
<1>5. /\ replay[c] \subseteq 1..Len(record) /\ Len(record) \in Nat /\ Elems(ch[c]) \subseteq 0..Len(record)
      /\ Elems(got[c]) \subseteq 1..Len(record) /\ Expected(c, from[c]) \subseteq 1..Len(record)
      /\ Missed(c) \subseteq 1..Len(record) /\ NoEvent \notin 0..Len(record)
  BY <1>1, WithinTheRecord
<1>6. hand[c] = NoEvent /\ Held(c) = {} /\ Held(c)' = {} /\ Due(c)' = Due(c) /\ Due(c) \subseteq {Len(record)}
  BY <1>1, <1>3, <1>4 DEF OrderInv, Held, Due
<1>7. SeenInv(c)' /\ Elems(got[c])' = Elems(got[c]) \cup {k} /\ Rising(got[c])'
  <2>1. Before(Elems(got[c]), {k})
    BY <1>1, <1>4 DEF OrderInv, Before
  <2> QED
    BY <1>1, <1>2, <1>3, <1>4, <1>5, <2>1, SeesTheNext DEF OrderInv
<1>8. Before({k}, Elems(ch[c]) \cup Due(c))
  BY <1>1, <1>4 DEF OrderInv, Before
<1>9. Before({k}, replay'[c])
  BY <1>4, <1>5 DEF Before
<1>10. OrderInv(c)'
  <2>1. Rising(ch[c])' /\ Elems(ch[c])' = Elems(ch[c])
    BY <1>1, <1>3 DEF OrderInv
  <2> QED
    BY <1>1, <1>3, <1>4, <1>6, <1>7, <1>8, <1>9, <2>1 DEF OrderInv, Before
<1>11. Expected(c, from[c])' = Expected(c, from[c])
  BY <1>3 DEF Expected
<1>12. Missed(c)' \subseteq Missed(c)
  BY <1>3, <1>4, <1>7, <1>11 DEF Missed, OnItsWay
<1>13. ASSUME NEW j \in Expected(c, from[c]), j < k PROVE j \in Elems(got[c]) \cup announced[c]
  <2>1. j \notin replay[c]
    BY <1>4, <1>5, <1>13
  <2>2. j \notin Elems(ch[c]) /\ j \notin Due(c)
    BY <1>4, <1>5, <1>6, <1>8, <1>13 DEF Before, Heartbeat
  <2>3. j \notin Missed(c)
    BY <1>1, <1>4, <1>5, <1>13 DEF MissedInv, Before, Heartbeat
  <2>4. j # hand[c]
    BY <1>5, <1>6
  <2> QED
    BY <2>1, <2>2, <2>3, <2>4 DEF Missed, OnItsWay, Due
<1>14. SettledInv(c)'
  <2> SUFFICES ASSUME NEW j \in Expected(c, from[c]), NEW g \in Elems(got[c]) \cup {k}, j <= g
               PROVE  j \in Elems(got[c]) \cup {k} \cup announced[c]
    BY <1>3, <1>7, <1>11 DEF SettledInv
  <2>1. CASE g \in Elems(got[c])
    BY <1>1, <2>1 DEF SettledInv
  <2>2. CASE g = k
    BY <1>4, <1>5, <1>13, <2>2
  <2> QED
    BY <2>1, <2>2
<1> QED
  BY <1>1, <1>3, <1>4, <1>7, <1>10, <1>12, <1>14, NothingMoreIsMissed DEF ClientInv

LEMMA ClientOfTake ==
  ASSUME BrokerInv, NEW c \in Clients, Take(c)
  PROVE  ClientInv(c)'
<1> USE DEF brokerVars, fanVars, streamVars, clientVars
<1> DEFINE h == Head(ch[c])
           t == Tail(ch[c])
<1>1. TypeOK /\ IdsInv /\ OrderInv(c) /\ SeenInv(c) /\ SettledInv(c) /\ MissedInv(c) /\ dropped[c] \in Nat
  BY DEF BrokerInv, ClientInv, TypeOK, Take
<1>2. UNCHANGED <<era, record, todo, open, replay, dropped, seen, from, got, announced>> /\ c \in open
      /\ replay[c] = {} /\ hand[c] = NoEvent /\ ch[c] # <<>>
  BY DEF Take
<1>3. ch[c] \in Seq(0..Len(record)) /\ ch[c] \in Seq(Nat) /\ Expected(c, from[c]) \subseteq 1..Len(record)
      /\ NoEvent \notin 0..Len(record) /\ Len(record) \in Nat
  BY <1>1, WithinTheRecord
<1>4. hand'[c] = h /\ ch'[c] = t
  BY <1>1 DEF Take, TypeOK
<1>5. Elems(ch[c]) = {h} \cup Elems(t) /\ h \in 0..Len(record) /\ Rising(t) /\ Before({h}, Elems(t))
  BY <1>1, <1>2, <1>3, ElemsOfTail, RisingTail DEF OrderInv
<1> HIDE DEF h, t
<1>6. Held(c) = {} /\ Held(c)' = {h} /\ Due(c)' = Due(c)
  BY <1>2, <1>3, <1>4, <1>5 DEF Held, Due
<1>7. OrderInv(c)'
  <2>1. Rising(got[c])' /\ Rising(ch[c])' /\ Elems(got[c])' = Elems(got[c]) /\ Elems(ch[c])' = Elems(t) /\ replay'[c] = {}
    BY <1>1, <1>2, <1>4, <1>5 DEF OrderInv
  <2> QED
    BY <1>1, <1>5, <1>6, <2>1 DEF OrderInv, Before
<1>8. SeenInv(c)' /\ SettledInv(c)' /\ Expected(c, from[c])' = Expected(c, from[c])
  BY <1>1, <1>2, HistoryStays
<1>9. OnItsWay(c) = OnItsWay(c)' \cup {NoEvent}
  BY <1>2, <1>4, <1>5 DEF OnItsWay
<1>10. Missed(c)' \subseteq Missed(c)
  BY <1>2, <1>3, <1>8, <1>9 DEF Missed
<1> QED
  BY <1>1, <1>2, <1>7, <1>8, <1>10, NothingMoreIsMissed DEF ClientInv

LEMMA ClientOfWrite ==
  ASSUME BrokerInv, NEW c \in Clients, Write(c)
  PROVE  ClientInv(c)'
<1> USE DEF brokerVars, fanVars, streamVars, clientVars
<1> DEFINE j == hand[c]
<1>1. TypeOK /\ IdsInv /\ OrderInv(c) /\ SeenInv(c) /\ SettledInv(c) /\ MissedInv(c) /\ dropped[c] \in Nat
  BY DEF BrokerInv, ClientInv, TypeOK, Write
<1>2. UNCHANGED <<era, record, todo, open, replay, ch, from>> /\ c \in open /\ j # NoEvent /\ Sees(c, j)
      /\ replay[c] = {}
  BY <1>1 DEF Write, OrderInv
<1>3. hand'[c] = NoEvent /\ Held(c) = {j} /\ Held(c)' = {} /\ Due(c)' = Due(c)
  BY <1>1, <1>2 DEF Write, TypeOK, Held, Due
<1>4. /\ Elems(ch[c]) \subseteq 0..Len(record) /\ Elems(got[c]) \subseteq 1..Len(record) /\ Len(record) \in Nat
      /\ Expected(c, from[c]) \subseteq 1..Len(record) /\ Held(c) \subseteq 0..Len(record)
      /\ NoEvent \notin 0..Len(record)
  BY <1>1, WithinTheRecord
<1>5. Expected(c, from[c])' = Expected(c, from[c])
  BY <1>2 DEF Expected
<1> HIDE DEF j
\* Whatever was missed is announced now, or there was nothing.
<1>6. announced[c] \cup Missed(c) \subseteq announced'[c] /\ dropped'[c] \in Nat
  <2>1. CASE NoticeDue(c)
    <3> DEFINE A == announced[c] \cup Missed(c)
    <3>1. announced' = [announced EXCEPT ![c] = A] /\ dropped' = [dropped EXCEPT ![c] = 0]
      BY <2>1 DEF Write
    <3> HIDE DEF A
    <3>2. announced'[c] = A /\ dropped'[c] = 0
      BY <1>1, <3>1 DEF TypeOK
    <3> QED
      BY <3>2 DEF A
  <2>2. CASE ~NoticeDue(c)
    <3>1. UNCHANGED <<dropped, announced>> /\ ~(dropped[c] > 0)
      BY <2>2 DEF Write, NoticeDue
    <3>2. Missed(c) = {}
      <4> DEFINE M == Missed(c)
      <4>1. IsFiniteSet(M) /\ Cardinality(M) <= dropped[c]
        BY <1>1 DEF MissedInv
      <4> HIDE DEF M
      <4>2. Cardinality(M) = 0
        BY <1>1, <3>1, <4>1, FS_CardinalityType
      <4>3. M = {}
        BY <4>1, <4>2, FS_EmptySet
      <4> QED
        BY <4>3 DEF M
    <3> QED
      BY <1>1, <3>1, <3>2
  <2> QED
    BY <2>1, <2>2
<1>7. Elems(got[c])' = Elems(got[c]) \cup ({j} \ {Heartbeat}) /\ Rising(got[c])' /\ SeenInv(c)'
  <2>1. CASE j = Heartbeat
    <3>1. UNCHANGED <<seen, got>>
      BY <1>2, <2>1 DEF Sees
    <3>2. SeenInv(c)'
      BY <1>1, <1>2, <3>1 DEF SeenInv
    <3> QED
      BY <1>1, <2>1, <3>1, <3>2 DEF OrderInv
  <2>2. CASE j # Heartbeat
    <3>1. j \in 1..Len(record)
      BY <1>3, <1>4, <2>2 DEF Heartbeat
    <3>2. Before(Elems(got[c]), {j})
      BY <1>1, <1>3 DEF OrderInv, Before
    <3>3. Rising(got[c])
      BY <1>1 DEF OrderInv
    <3> QED
      BY <1>1, <1>2, <2>2, <3>1, <3>2, <3>3, SeesTheNext
  <2> QED
    BY <2>1, <2>2
<1>8. OrderInv(c)'
  <2>1. Rising(ch[c])' /\ Elems(ch[c])' = Elems(ch[c]) /\ replay'[c] = {}
    BY <1>1, <1>2 DEF OrderInv
  <2> QED
    BY <1>1, <1>3, <1>7, <2>1 DEF OrderInv, Before
<1>9. OnItsWay(c) \subseteq OnItsWay(c)' \cup {j} /\ OnItsWay(c) = {j} \cup Elems(ch[c]) \cup Due(c)
  BY <1>2 DEF OnItsWay, Due, j
<1>10. Missed(c)' = {}
  <2>1. Heartbeat \notin Expected(c, from[c])
    BY <1>4 DEF Heartbeat
  <2> QED
    BY <1>5, <1>6, <1>7, <1>9, <2>1 DEF Missed
<1>11. SettledInv(c)'
  <2> SUFFICES ASSUME NEW k \in Expected(c, from[c]), NEW g \in Elems(got[c]) \cup ({j} \ {Heartbeat}), k <= g
               PROVE  k \in Elems(got[c]) \cup ({j} \ {Heartbeat}) \cup announced'[c]
    BY <1>5, <1>7 DEF SettledInv
  <2>1. CASE g \in Elems(got[c])
    BY <1>1, <1>6, <2>1 DEF SettledInv
  <2>2. CASE g = j /\ j # Heartbeat /\ k # j
    <3>1. k < j /\ k \in Nat /\ k # Heartbeat
      BY <1>3, <1>4, <2>2 DEF Heartbeat
    <3>2. Before({j}, Elems(ch[c]) \cup Due(c))
      BY <1>1, <1>3 DEF OrderInv
    <3>3. Due(c) \subseteq {Len(record)} /\ j \in Nat
      BY <1>3, <1>4 DEF Due
    <3>4. k \notin Elems(ch[c]) \cup Due(c)
      BY <1>4, <2>2, <3>1, <3>2, <3>3 DEF Before
    <3>5. k \notin OnItsWay(c)
      BY <1>9, <2>2, <3>4
    <3> QED
      BY <1>6, <3>5 DEF Missed
  <2>3. CASE g = j /\ j # Heartbeat /\ k = j
    BY <2>3
  <2> QED
    BY <2>1, <2>2, <2>3
<1> QED
  BY <1>2, <1>6, <1>7, <1>8, <1>10, <1>11, NothingIsMissed DEF ClientInv

LEMMA ClientOfHandle ==
  ASSUME BrokerInv, NEW c \in Clients, Handle(c), NEW d \in Clients
  PROVE  ClientInv(d)'
<1> USE DEF brokerVars, fanVars, streamVars, clientVars
<1>1. TypeOK /\ ClientInv(d)
  BY DEF BrokerInv
<1>2. CASE d = c
  BY <1>2, ClientOfWriteReplay, ClientOfTake, ClientOfWrite DEF Handle
<1>3. CASE d # c
  <2>1. ASSUME NEW k, Sees(c, k) PROVE UNCHANGED <<seen[d], got[d]>>
    BY <1>1, <1>3, <2>1 DEF Sees, TypeOK
  <2>2. UNCHANGED <<era, record, todo, open, from>>
    BY DEF Handle, WriteReplay, Take, Write
  <2>3. UNCHANGED <<replay[d], ch[d], hand[d], dropped[d], announced[d]>>
    <3>1. CASE WriteReplay(c)
      BY <1>1, <1>3, <3>1 DEF WriteReplay, TypeOK
    <3>2. CASE Take(c)
      BY <1>1, <1>3, <3>2 DEF Take, TypeOK
    <3>3. CASE Write(c)
      <4>1. UNCHANGED <<dropped[d], announced[d]>>
        BY <1>1, <1>3, <3>3 DEF Write, TypeOK
      <4> QED
        BY <1>1, <1>3, <3>3, <4>1 DEF Write, TypeOK
    <3> QED
      BY <3>1, <3>2, <3>3 DEF Handle
  <2>4. UNCHANGED <<seen[d], got[d]>>
    BY <2>1 DEF Handle, WriteReplay, Take, Write
  <2> QED
    BY <1>1, <2>2, <2>3, <2>4, Untouched
<1> QED
  BY <1>2, <1>3

\* A client that leaves, or that the process left, has its history and nothing more.
LEMMA ClientLeaves ==
  ASSUME NEW c \in Clients, replay'[c] = {}, ch'[c] = <<>>, hand'[c] = NoEvent, c \notin todo', c \notin open',
         Rising(got[c])', SeenInv(c)', SettledInv(c)'
  PROVE  ClientInv(c)'
<1>1. Elems(ch[c])' = {} /\ Rising(ch[c])' /\ Held(c)' = {} /\ Due(c)' = {}
  BY ElemsOfNone DEF Rising, Held, Due
<1>2. OrderInv(c)'
  BY <1>1 DEF OrderInv, Before
<1> QED
  BY <1>2 DEF ClientInv, ClosedInv

LEMMA ClientOfUnsubscribe ==
  ASSUME BrokerInv, NEW c \in Clients, Unsubscribe(c), NEW d \in Clients
  PROVE  ClientInv(d)'
<1> USE DEF brokerVars, fanVars, streamVars, clientVars
<1>1. TypeOK /\ ClientInv(d) /\ todo = {} /\ open' = open \ {c}
      /\ UNCHANGED <<era, record, todo, seen, from, got, announced>>
  BY DEF BrokerInv, Unsubscribe, Unlocked, Forget
<1>2. CASE d = c
  <2>1. replay'[c] = {} /\ ch'[c] = <<>> /\ hand'[c] = NoEvent
    BY DEF Unsubscribe, Forget
  <2>2. SeenInv(c)' /\ SettledInv(c)' /\ Rising(got[c])'
    BY <1>1, <1>2, HistoryStays DEF ClientInv, OrderInv
  <2> QED
    BY <1>1, <1>2, <2>1, <2>2, ClientLeaves
<1>3. CASE d # c
  <2>1. UNCHANGED <<replay[d], ch[d], hand[d], dropped[d]>>
    BY <1>3 DEF Unsubscribe, Forget
  <2> QED
    BY <1>1, <1>3, <2>1, Untouched
<1> QED
  BY <1>2, <1>3

\* The process forgets, and a client's last event is of an earlier life.
LEMMA ClientOfRestart ==
  ASSUME BrokerInv, Restart, NEW c \in Clients
  PROVE  ClientInv(c)'
<1>1. TypeOK /\ SeenInv(c)
  BY DEF BrokerInv, ClientInv
<1>2. era' = era + 1 /\ record' = <<>> /\ todo' = {} /\ open' = {} /\ seen' = seen
      /\ got'[c] = <<>> /\ from'[c] = 0 /\ replay'[c] = {} /\ ch'[c] = <<>> /\ hand'[c] = NoEvent
  BY <1>1 DEF Restart, Forget, TypeOK
<1>3. SeenInv(c)'
  <2>1. ASSUME seen[c] # NoEvent PROVE seen[c].era <= era + 1 /\ seen[c].era # era + 1
    <3>1. seen[c].era \in Int /\ era \in Int /\ seen[c].era <= era
      BY <1>1, <2>1 DEF TypeOK, Events, SeenInv
    <3> QED
      BY <3>1
  <2> QED
    BY <1>2, <2>1 DEF SeenInv
<1>4. Elems(got[c])' = {} /\ Rising(got[c])'
  BY <1>2, ElemsOfNone DEF Rising
<1>5. SettledInv(c)'
  BY <1>4 DEF SettledInv
<1> QED
  BY <1>2, <1>3, <1>4, <1>5, ClientLeaves

LEMMA ClientStays == ASSUME BrokerInv, Next, NEW c \in Clients PROVE ClientInv(c)'
<1>1. CASE Publish
  <2>1. UNCHANGED <<era, fanVars, streamVars, clientVars>>
    BY <1>1 DEF Publish, Draft, Enqueue, MakeRoom
  <2> QED
    BY <2>1, Untouched DEF BrokerInv, fanVars, streamVars, clientVars
<1>2. CASE RecordReplay
  BY <1>2, ClientOfRecordReplay
<1>3. CASE Fanout
  BY <1>3, ClientOfFanout DEF Fanout
<1>4. CASE FanoutHeartbeat
  BY <1>4, ClientOfHeartbeat
<1>5. CASE Restart
  BY <1>5, ClientOfRestart
<1>6. ASSUME NEW d \in Clients, Subscribe(d) \/ Handle(d) \/ Unsubscribe(d) PROVE ClientInv(c)'
  BY <1>6, ClientOfSubscribe, ClientOfHandle, ClientOfUnsubscribe
<1> QED
  BY <1>1, <1>2, <1>3, <1>4, <1>5, <1>6 DEF Next, Run

LEMMA BrokerInit == ASSUME Init PROVE BrokerInv
<1>1. IsFiniteSet({}) /\ Cardinality({}) = 0
  BY FS_EmptySet
<1>2. TypeOK
  BY <1>1, LimitsAssumption DEF Init, TypeOK, Places, Heartbeat
<1>3. IdsInv
  BY DEF Init, IdsInv
<1>4. ASSUME NEW c \in Clients PROVE ClientInv(c)
  <2>1. Elems(got[c]) = {} /\ Elems(ch[c]) = {} /\ Held(c) = {} /\ Due(c) = {}
    BY ElemsOfNone DEF Init, Held, Due
  <2>2. OrderInv(c)
    BY <2>1 DEF Init, OrderInv, Rising, Before
  <2>3. SeenInv(c) /\ SettledInv(c) /\ ClosedInv(c)
    BY <2>1 DEF Init, SeenInv, SettledInv, ClosedInv
  <2> QED
    BY <2>2, <2>3 DEF ClientInv, Init
<1> QED
  BY <1>1, <1>2, <1>3, <1>4 DEF BrokerInv, Init

LEMMA BrokerStep == ASSUME BrokerInv, [Next]_vars PROVE BrokerInv'
<1>1. CASE Next
  <2>1. TypeOK' /\ IsFiniteSet(open')
    BY <1>1, TypeStays DEF BrokerInv
  <2>2. IdsInv'
    BY <1>1, IdsAreGivenOnce DEF BrokerInv
  <2>3. \A c \in Clients : ClientInv(c)'
    BY <1>1, ClientStays
  <2> QED
    BY <2>1, <2>2, <2>3 DEF BrokerInv
<1>2. CASE UNCHANGED vars
  <2> USE DEF vars, brokerVars, fanVars, streamVars, clientVars
  <2>1. TypeOK' /\ IsFiniteSet(open')
    BY <1>2 DEF BrokerInv, TypeOK, Places
  <2>2. IdsInv'
    BY <1>2, IdsStay DEF BrokerInv
  <2>3. \A c \in Clients : ClientInv(c)'
    BY <1>2, Untouched DEF BrokerInv
  <2> QED
    BY <2>1, <2>2, <2>3 DEF BrokerInv
<1> QED
  BY <1>1, <1>2

\* The inductive invariant of the broker: ids are given once, what is under way to a
\* client is in the order of the record, and what it missed is counted.
THEOREM BrokerInvariant == Spec => []BrokerInv
<1>1. Init => BrokerInv
  BY BrokerInit
<1>2. BrokerInv /\ [Next]_vars => BrokerInv'
  BY BrokerStep
<1> QED
  BY <1>1, <1>2, PTL DEF Spec

\* The state of the broker and of its streams has its type.
THEOREM BrokerTypeCorrect == Spec => []TypeOK
<1>1. BrokerInv => TypeOK
  BY DEF BrokerInv
<1> QED
  BY <1>1, BrokerInvariant, PTL

\* A client sees the events in the order of the record, over any number of
\* reconnections, drops, heartbeats and replays.
THEOREM SeenInRecordOrder == Spec => []InRecordOrder
<1>1. BrokerInv => InRecordOrder
  <2> SUFFICES ASSUME BrokerInv, NEW c \in Clients, NEW i \in DOMAIN got[c], NEW j \in DOMAIN got[c], i < j
               PROVE  got[c][i] < got[c][j]
    BY DEF InRecordOrder
  <2>1. got[c] \in Seq(Nat \ {Heartbeat}) /\ Rising(got[c])
    BY WithinTheRecord DEF BrokerInv, ClientInv, OrderInv
  <2>2. got[c][i] # Heartbeat /\ got[c][j] # Heartbeat
    BY <2>1
  <2> QED
    BY <2>1, <2>2 DEF Rising
<1> QED
  BY <1>1, BrokerInvariant, PTL

\* Whatever a connected client will never be sent, and was not told of, is in the
\* count of its subscription.
THEOREM WhatIsMissedIsCounted == Spec => []MissedIsCounted
<1>1. BrokerInv => MissedIsCounted
  BY DEF BrokerInv, ClientInv, MissedInv, MissedIsCounted, TypeOK
<1> QED
  BY <1>1, BrokerInvariant, PTL

=============================================================================
