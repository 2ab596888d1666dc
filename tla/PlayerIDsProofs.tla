---------------------------- MODULE PlayerIDsProofs ----------------------------
(***************************************************************************)
(* No ID and no token of the player is handed out twice, for any block,    *)
(* any range of values and any number of runs.                             *)
(*                                                                         *)
(* The argument is about the contents of the reservation file that a power *)
(* cut can leave.  Whichever it is, it is no less than any value handed    *)
(* out, or a block less once storage lost a write; a start begins past its *)
(* content by a block.  A run either has a reservation of both kinds, each *)
(* covering what the run hands out, or has none and hands out nothing, and *)
(* its next write covers both.                                             *)
(***************************************************************************)
EXTENDS PlayerIDs, TLAPS

Slack == IF lost THEN Block ELSE 0

\* The run's reservation reaches its next value, or ends just before it.
Covered(k) == ctr[k].next <= ctr[k].durable + 1

\* What was handed out is in every content a power cut can leave, but for a lost write.
HistoryInv ==
  /\ floor \in survivors
  /\ \A f \in survivors, k \in Kinds : \A v \in used[k] : v <= f[k] + Slack
  /\ \A k \in Kinds : repeats[k] = {}

\* A run goes on past what was handed out.
AheadInv ==
  up => \A k \in Kinds :
          /\ ctr[k].next > 0
          /\ \A v \in used[k] : v < ctr[k].next

\* A stopped player writes nothing.
DownInv == ~up => write = "none"

\* A run has a reservation of both kinds, or none and its next write makes both.
CoverInv ==
  up => \/ \A k \in Kinds : Covered(k)
        \/ /\ token = 0
           /\ \A k \in Kinds : ~Covered(k)
           /\ write # "none" => \A k \in Kinds : ctr[k].want >= ctr[k].next - 1

\* What a run takes as durable is in every content a power cut can leave, but for a
\* lost write; and so is what the write that landed wanted.
DurableInv ==
  up => \A f \in survivors, k \in Kinds :
          /\ Covered(k) => ctr[k].durable <= f[k] + Slack
          /\ write = "landed" => ctr[k].want <= f[k] + Slack

\* A write of a run that has a reservation goes one block past it.
WantInv ==
  up /\ write # "none" => \A k \in Kinds : Covered(k) => ctr[k].want <= ctr[k].durable + Block

\* The queue is inside the run's reservation, and so is every revision of its file.
QueueInv ==
  /\ up => \A id \in queue : id > 0 /\ id < ctr["id"].next /\ id <= ctr["id"].durable
  /\ QueueLoads
  /\ earlier \notin {None, Bad} => Decodes(earlier)

ValuesInv == HistoryInv /\ AheadInv /\ DownInv /\ CoverInv /\ DurableInv /\ WantInv
IDsInv    == TypeOK /\ ValuesInv /\ QueueInv

-----------------------------------------------------------------------------
LEMMA Numbers == Block \in Nat /\ Block > 0 /\ Last \in Nat
  BY NumbersAssumption

LEMMA LargerFacts ==
  ASSUME NEW a \in Int, NEW b \in Int
  PROVE  Larger(a, b) \in Int /\ Larger(a, b) \in {a, b} /\ Larger(a, b) >= a /\ Larger(a, b) >= b
  BY DEF Larger

\* A reservation reaches past the next value, and at most a block past what is covered.
LEMMA TargetFacts ==
  ASSUME NEW c \in Counter
  PROVE  /\ Target(c) \in Value
         /\ Target(c) >= c.durable /\ Target(c) >= c.next - 1
         /\ ~Exhausted(c) => Target(c) >= c.next
         /\ c.next <= c.durable + 1 => Target(c) <= c.durable + Block
<1>1. c.next \in 0..Last + 1 /\ c.durable \in 0..Last
  BY DEF Counter, Value
<1> QED BY <1>1, Numbers DEF Target, Smaller, Larger, Exhausted, Value

LEMMA WantingFacts ==
  ASSUME NEW cs \in [Kinds -> Counter]
  PROVE  /\ Wanting(cs) \in [Kinds -> Counter]
         /\ \A k \in Kinds :
              /\ Wanting(cs)[k].next = cs[k].next
              /\ Wanting(cs)[k].durable = cs[k].durable
              /\ Wanting(cs)[k].want >= cs[k].next - 1
              /\ cs[k].next <= cs[k].durable + 1 => Wanting(cs)[k].want <= cs[k].durable + Block
<1> SUFFICES ASSUME NEW k \in Kinds
             PROVE  /\ Wanting(cs)[k] \in Counter
                    /\ Wanting(cs)[k].next = cs[k].next
                    /\ Wanting(cs)[k].durable = cs[k].durable
                    /\ Wanting(cs)[k].want >= cs[k].next - 1
                    /\ cs[k].next <= cs[k].durable + 1 =>
                         Wanting(cs)[k].want <= cs[k].durable + Block
  BY DEF Wanting
<1>1. cs[k] \in Counter
  OBVIOUS
<1>2. Wanting(cs)[k] = [cs[k] EXCEPT !.want = IF Low(cs[k]) \/ Needs(cs[k])
                                              THEN Target(cs[k]) ELSE cs[k].durable]
  BY DEF Wanting
<1>3. cs[k].next \in 0..Last + 1 /\ cs[k].durable \in 0..Last
  BY <1>1 DEF Counter, Value
<1> QED BY <1>1, <1>2, <1>3, TargetFacts, Numbers DEF Counter, Value, Needs

LEMMA TakenFacts ==
  ASSUME NEW cs \in [Kinds -> Counter], NEW K, \A k \in K \cap Kinds : ~Exhausted(cs[k])
  PROVE  /\ Taken(cs, K) \in [Kinds -> Counter]
         /\ \A k \in Kinds :
              /\ Taken(cs, K)[k].next = IF k \in K THEN cs[k].next + 1 ELSE cs[k].next
              /\ Taken(cs, K)[k].durable = cs[k].durable
              /\ Taken(cs, K)[k].want = cs[k].want
<1> SUFFICES ASSUME NEW k \in Kinds
             PROVE  /\ Taken(cs, K)[k] \in Counter
                    /\ Taken(cs, K)[k].next = IF k \in K THEN cs[k].next + 1 ELSE cs[k].next
                    /\ Taken(cs, K)[k].durable = cs[k].durable
                    /\ Taken(cs, K)[k].want = cs[k].want
  BY DEF Taken
<1>1. cs[k] \in Counter
  OBVIOUS
<1>2. Taken(cs, K)[k] = IF k \in K THEN [cs[k] EXCEPT !.next = @ + 1] ELSE cs[k]
  BY DEF Taken
<1> QED BY <1>1, <1>2, Numbers DEF Counter, Value, Exhausted

LEMMA MergedFacts ==
  ASSUME floor \in [Kinds -> Value], NEW want \in [Kinds -> Value]
  PROVE  /\ Merged(want) \in [Kinds -> Value]
         /\ \A k \in Kinds : Merged(want)[k] >= floor[k] /\ Merged(want)[k] >= want[k]
  BY Numbers DEF Merged, Larger, Value

\* A start begins at or past the reservation file, and past every entry it loads.
LEMMA BaseFacts ==
  ASSUME TypeOK
  PROVE  /\ Base \in [Kinds -> Value]
         /\ \A k \in Kinds : Base[k] >= floor[k]
         /\ \A id \in Loaded : id > 0 /\ id <= Base["id"]
<1>1. floor \in [Kinds -> 0..Last]
  BY DEF TypeOK, Value
<1>2. CASE ~Readable
  <2>1. Base = [k \in Kinds |-> floor[k]] /\ Loaded = {}
    BY <1>2 DEF Base, Loaded
  <2> QED BY <1>1, <2>1, Numbers DEF Value
<1>3. CASE Readable
  <2>1. page \in Payload /\ Decodes(page)
    BY <1>3 DEF Readable, TypeOK
  <2>2. /\ page.next \in 0..Last + 1 /\ page.reserved \in 0..Last
        /\ page.tokenReserved \in 0..Last /\ page.token \in 0..Last
        /\ page.entries \subseteq 0..Last
    BY <2>1 DEF Payload, Value
  <2>3. Base["id"] = Larger(floor["id"], Larger(page.reserved, page.next - 1))
    BY <1>3 DEF Base, Kinds
  <2>4. Base["token"] = Larger(floor["token"], Larger(page.tokenReserved, page.token))
    BY <1>3 DEF Base, Kinds
  <2>5. floor["id"] \in 0..Last /\ floor["token"] \in 0..Last
    BY <1>1 DEF Kinds
  <2>6. Base["id"] \in 0..Last /\ Base["id"] >= floor["id"] /\ Base["id"] >= page.reserved
    BY <2>2, <2>3, <2>5, Numbers DEF Larger
  <2>7. Base["token"] \in 0..Last /\ Base["token"] >= floor["token"]
    BY <2>2, <2>4, <2>5, Numbers DEF Larger
  <2>8. \A id \in Loaded : id > 0 /\ id <= page.reserved /\ id \in 0..Last
    BY <2>1, <2>2, <1>3 DEF Loaded, Decodes
  <2>9. Base \in [Kinds -> Value]
    BY <2>6, <2>7 DEF Base, Kinds, Value
  <2> QED BY <2>2, <2>6, <2>7, <2>8, <2>9, Numbers DEF Kinds
<1> QED BY <1>2, <1>3

LEMMA FreshFacts ==
  ASSUME TypeOK, \A k \in Kinds : ~Exhausted(Fresh[k])
  PROVE  /\ Fresh \in [Kinds -> Counter] /\ First \in [Kinds -> Value]
         /\ \A k \in Kinds :
              /\ Fresh[k].next = Base[k] + Block + 1 /\ Fresh[k].durable = Base[k]
              /\ Fresh[k].next <= Last
              /\ First[k] >= Fresh[k].next /\ First[k] >= Base[k]
<1>1. \A k \in Kinds : Base[k] \in 0..Last
  BY BaseFacts DEF Value
<1>2. ASSUME NEW k \in Kinds
      PROVE  /\ Fresh[k] \in Counter
             /\ Fresh[k].next = Base[k] + Block + 1 /\ Fresh[k].durable = Base[k]
             /\ Fresh[k].next <= Last
  <2>1. Fresh[k] = [next |-> Base[k] + Block + 1, durable |-> Base[k], want |-> Base[k]]
    BY DEF Fresh, StartCounter
  <2>2. Fresh[k].next = Base[k] + Block + 1 /\ ~(Fresh[k].next > Last)
    BY <2>1 DEF Exhausted
  <2>3. Base[k] \in 0..Last /\ Base[k] + Block + 1 \in 0..Last
    BY <1>1, <2>2, Numbers
  <2> QED BY <2>1, <2>2, <2>3, Numbers DEF Counter, Value
<1>3. Fresh \in [Kinds -> Counter]
  BY <1>2 DEF Fresh
<1>4. ASSUME NEW k \in Kinds
      PROVE  First[k] \in Value /\ First[k] >= Fresh[k].next /\ First[k] >= Base[k]
  <2>1. First[k] = Target(Fresh[k])
    BY DEF First
  <2> QED BY <1>2, <2>1, TargetFacts
<1>5. First \in [Kinds -> Value]
  BY <1>4 DEF First
<1> QED BY <1>2, <1>3, <1>4, <1>5

LEMMA WantsFacts ==
  ASSUME TypeOK
  PROVE  /\ Wants \in [Kinds -> Value]
         /\ \A k \in Kinds : Wants[k] = ctr[k].want
  BY DEF TypeOK, Wants, Counter

-----------------------------------------------------------------------------
(***************************************************************************)
(* Types                                                                   *)
(***************************************************************************)
LEMMA InitType == Init => TypeOK
<1> SUFFICES ASSUME Init PROVE TypeOK
  OBVIOUS
<1>1. 0 \in Value /\ 0 \in 0..Last + 1
  BY Numbers DEF Value
<1>2. ctr \in [Kinds -> Counter]
  BY <1>1 DEF Init, Unused, Counter
<1>3. lost \in BOOLEAN /\ up \in BOOLEAN /\ awaiting \in BOOLEAN /\ overdue \in BOOLEAN
      /\ failed \in BOOLEAN /\ refuseParked \in BOOLEAN /\ stuck \in BOOLEAN
  BY Zenon DEF Init
<1>4. floor \in [Kinds -> Value] /\ survivors \subseteq [Kinds -> Value]
  BY <1>1 DEF Init
<1>5. used \in [Kinds -> SUBSET Value] /\ repeats \in [Kinds -> SUBSET Value]
  BY DEF Init
<1> QED BY <1>1, <1>2, <1>3, <1>4, <1>5 DEF Init, TypeOK

LEMMA ReadsType ==
  ASSUME TypeOK, LoadQueue
  PROVE  /\ page' \in Payload \cup {None, Bad} /\ earlier' \in Payload \cup {None, Bad}
         /\ stuck' \in BOOLEAN
<1>1. stuck' \in BOOLEAN
  BY Zenon DEF LoadQueue
<1> QED BY <1>1 DEF TypeOK, LoadQueue, file

LEMMA WritesType ==
  ASSUME TypeOK, NEW want \in [Kinds -> Value],
         Keeps(want) \/ Loses(want) \/ Fails(want)
  PROVE  /\ floor' \in [Kinds -> Value] /\ survivors' \subseteq [Kinds -> Value]
         /\ lost' \in BOOLEAN
<1>1. Merged(want) \in [Kinds -> Value]
  BY MergedFacts DEF TypeOK
<1>2. lost' \in BOOLEAN
  BY Zenon DEF TypeOK, Keeps, Loses, Fails, FailsWhole, RenamesUnsynced, disk
<1> QED BY <1>1, <1>2 DEF TypeOK, Keeps, Loses, Fails, FailsWhole, RenamesUnsynced, disk

LEMMA HandOutType ==
  ASSUME TypeOK, NEW cs \in [Kinds -> Counter], NEW K, HandOut(cs, K),
         \A k \in K \cap Kinds : ~Exhausted(cs[k])
  PROVE  used' \in [Kinds -> SUBSET Value] /\ repeats' \in [Kinds -> SUBSET Value]
<1>1. \A k \in Kinds : k \in K => cs[k].next \in Value
  BY Numbers DEF Counter, Value, Exhausted
<1>2. \A k \in Kinds : used[k] \subseteq Value /\ repeats[k] \subseteq Value
  BY DEF TypeOK
<1>3. used' \in [Kinds -> SUBSET Value]
  BY <1>1, <1>2 DEF HandOut
<1>4. repeats' \in [Kinds -> SUBSET Value]
  BY <1>1, <1>2 DEF HandOut
<1> QED BY <1>3, <1>4

LEMMA StartType == ASSUME TypeOK, Start PROVE TypeOK'
<1>1. /\ Fresh \in [Kinds -> Counter] /\ First \in [Kinds -> Value]
      /\ \A k \in Kinds : Fresh[k].next <= Last
  BY FreshFacts DEF Start
<1>2. queue' \subseteq Value
  <2>1. Loaded \subseteq Value
    BY DEF TypeOK, Loaded, Readable, Payload
  <2> QED BY <2>1 DEF Start
<1>3. CASE StartReserved
  <2> DEFINE covered == [k \in Kinds |-> [Fresh[k] EXCEPT !.durable = First[k]]]
  <2>1. covered \in [Kinds -> Counter] /\ \A k \in Kinds : covered[k].next = Fresh[k].next
    BY <1>1 DEF Counter
  <2>2. \A k \in {"token"} \cap Kinds : ~Exhausted(covered[k])
    BY <1>1, <2>1, Numbers DEF Exhausted, Counter
  <2>3. ctr' = Taken(covered, {"token"}) /\ HandOut(covered, {"token"})
        /\ token' = covered["token"].next /\ Keeps(First) /\ failed' = FALSE
    BY <1>3 DEF StartReserved
  <2> HIDE DEF covered
  <2>4. ctr' \in [Kinds -> Counter]
    BY <2>1, <2>2, <2>3, TakenFacts
  <2>5. used' \in [Kinds -> SUBSET Value] /\ repeats' \in [Kinds -> SUBSET Value]
    BY <2>1, <2>2, <2>3, HandOutType
  <2>6. token' \in Value
    BY <1>1, <2>1, <2>3, Numbers DEF Kinds, Counter, Value
  <2>7. failed' \in BOOLEAN /\ up' \in BOOLEAN
    BY <2>3, Zenon DEF Start
  <2>8. floor' \in [Kinds -> Value] /\ survivors' \subseteq [Kinds -> Value] /\ lost' \in BOOLEAN
    BY <1>1, <2>3, WritesType
  <2> QED BY <1>2, <2>4, <2>5, <2>6, <2>7, <2>8, ReadsType DEF Start, TypeOK, edits
<1>4. CASE StartUnreserved
  <2>1. failed' \in BOOLEAN /\ up' \in BOOLEAN
    BY <1>4, Zenon DEF Start, StartUnreserved
  <2>2. floor' \in [Kinds -> Value] /\ survivors' \subseteq [Kinds -> Value] /\ lost' \in BOOLEAN
    BY <1>1, <1>4, WritesType DEF StartUnreserved
  <2>3. ctr' \in [Kinds -> Counter] /\ token' \in Value
    BY <1>1, <1>4, Numbers DEF StartUnreserved, Value
  <2>4. used' = used /\ repeats' = repeats
    BY <1>4 DEF StartUnreserved
  <2> QED BY <1>2, <2>1, <2>2, <2>3, <2>4, ReadsType DEF Start, TypeOK, edits
<1> QED BY <1>3, <1>4 DEF Start

LEMMA EndsType == ASSUME TypeOK, Kill \/ PowerCut PROVE TypeOK'
<1>1. /\ up' \in BOOLEAN /\ awaiting' \in BOOLEAN /\ overdue' \in BOOLEAN
      /\ failed' \in BOOLEAN /\ refuseParked' \in BOOLEAN /\ stuck' \in BOOLEAN
  BY Zenon DEF Kill, PowerCut, Ends
<1>2. lost' = lost
  BY DEF Kill, PowerCut, disk
<1>3. ctr' \in [Kinds -> Counter]
  BY Numbers DEF Kill, PowerCut, Ends, Unused, Counter, Value
<1>4. queue' = {} /\ token' = 0 /\ payload' = None /\ write' = "none" /\ notices' = {}
      /\ edit' = [c \in Controllers |-> None] /\ parked' = <<>> /\ used' = used /\ repeats' = repeats
  BY DEF Kill, PowerCut, Ends
<1>7. token' \in Value
  BY <1>4, Numbers DEF Value
<1>8. edit' \in [Controllers -> Asked \cup {None}] /\ parked' \in Seq(Controllers)
  BY <1>4
<1>10. /\ queue' \subseteq Value /\ payload' \in Payload \cup {None}
       /\ write' \in {"none", "under way", "landed", "failed"}
       /\ notices' \subseteq {"this wait", "earlier wait"}
  BY <1>4
<1>11. used' \in [Kinds -> SUBSET Value] /\ repeats' \in [Kinds -> SUBSET Value]
  BY <1>4 DEF TypeOK
<1>5. floor' \in [Kinds -> Value] /\ survivors' \subseteq [Kinds -> Value]
  BY DEF TypeOK, Kill, PowerCut, disk
<1>6. page' \in Payload \cup {None, Bad} /\ earlier' \in Payload \cup {None, Bad}
  BY DEF TypeOK, Kill, PowerCut, file
<1>9. lost' \in BOOLEAN
  BY <1>2, Zenon DEF TypeOK
<1> QED BY <1>1, <1>9, <1>3, <1>5, <1>6, <1>7, <1>8, <1>10, <1>11 DEF TypeOK

\* What an edit that is answered leaves of the edits.
LEMMA AnswerType ==
  ASSUME TypeOK, NEW c \in Controllers, NEW left \in Seq(Controllers), Answer(c, left)
  PROVE  /\ edit' \in [Controllers -> Asked \cup {None}] /\ parked' \in Seq(Controllers)
         /\ refuseParked' \in BOOLEAN
<1>1. refuseParked' \in BOOLEAN
  BY Zenon DEF TypeOK, Answer, StillRefusing
<1> QED BY <1>1 DEF TypeOK, Answer

LEMMA RefuseType ==
  ASSUME TypeOK, NEW c \in Controllers, NEW left \in Seq(Controllers), Refuse(c, left)
  PROVE  TypeOK'
<1>1. stuck' \in BOOLEAN
  BY Zenon DEF TypeOK, Refuse, StillStuck
<1>2. /\ edit' \in [Controllers -> Asked \cup {None}] /\ parked' \in Seq(Controllers)
      /\ refuseParked' \in BOOLEAN
  BY AnswerType DEF Refuse
<1>3. /\ UNCHANGED <<page, earlier, payload>> /\ UNCHANGED <<floor, survivors, lost>>
      /\ UNCHANGED <<ctr, queue, token, used, repeats>>
      /\ UNCHANGED <<up, write, awaiting, overdue, failed, notices>>
  BY DEF Refuse, disk, file, values
<1>4. /\ page' \in Payload \cup {None, Bad} /\ earlier' \in Payload \cup {None, Bad}
      /\ payload' \in Payload \cup {None}
  BY <1>3 DEF TypeOK
<1>5. /\ floor' \in [Kinds -> Value] /\ survivors' \subseteq [Kinds -> Value] /\ lost' \in BOOLEAN
      /\ ctr' \in [Kinds -> Counter] /\ queue' \subseteq Value /\ token' \in Value
      /\ used' \in [Kinds -> SUBSET Value] /\ repeats' \in [Kinds -> SUBSET Value]
  BY <1>3 DEF TypeOK
<1> QED BY <1>1, <1>2, <1>3, <1>4, <1>5 DEF TypeOK

LEMMA ParkType ==
  ASSUME TypeOK, NEW c \in Controllers, NEW kept \in Seq(Controllers), Park(c, kept)
  PROVE  TypeOK'
<1>1. stuck' \in BOOLEAN /\ refuseParked' \in BOOLEAN /\ awaiting' \in BOOLEAN
  BY Zenon DEF TypeOK, Park, StillStuck, StillRefusing
<1>2. ctr' \in [Kinds -> Counter] /\ write' \in {"none", "under way", "landed", "failed"}
  BY WantingFacts DEF TypeOK, Park
<1> QED BY <1>1, <1>2 DEF TypeOK, Park, disk, file

LEMMA EditType ==
  ASSUME TypeOK, NEW c \in Controllers, NEW left \in Seq(Controllers), Edit(c, left)
  PROVE  TypeOK'
<1> DEFINE e     == edit[c]
           after == Taken(ctr, Takes(e))
<1>1. /\ ~Denied(e) /\ HandOut(ctr, Takes(e)) /\ queue' = Edited(e)
      /\ token' = ctr["token"].next
      /\ payload' = PayloadOf(after, Edited(e), ctr["token"].next)
      /\ ctr' \in {Wanting(after), after}
      /\ write' \in {"under way", write}
      /\ Answer(c, left)
  BY DEF Edit
<1>2. \A k \in Takes(e) : ~Exhausted(ctr[k])
  BY <1>1 DEF Denied
<1>10. ctr \in [Kinds -> Counter]
  BY DEF TypeOK
<1>11. \A k \in Takes(e) \cap Kinds : ~Exhausted(ctr[k])
  BY <1>2
<1>3. after \in [Kinds -> Counter]
  BY <1>10, <1>11, TakenFacts
<1> HIDE DEF after
<1>4. ctr' \in [Kinds -> Counter] /\ write' \in {"none", "under way", "landed", "failed"}
  BY <1>1, <1>3, WantingFacts DEF TypeOK
<1>5. used' \in [Kinds -> SUBSET Value] /\ repeats' \in [Kinds -> SUBSET Value]
  BY <1>1, <1>10, <1>11, HandOutType
<1>12. "token" \in Takes(e) /\ "token" \in Kinds /\ "id" \in Kinds
  BY DEF Takes, Kinds
<1>6. token' \in Value
  <2>1. ctr["token"] \in Counter /\ ~Exhausted(ctr["token"])
    BY <1>2, <1>10, <1>12
  <2>2. ctr["token"].next \in Value
    BY <2>1, Numbers DEF Exhausted, Counter, Value
  <2> QED BY <1>1, <2>2
<1>7. queue' \subseteq Value
  <2>1. CASE e[1] = "insert"
    <3>1. ~Exhausted(ctr["id"])
      BY <1>2, <1>12, <2>1 DEF Takes
    <3>2. ctr["id"].next \in Value
      BY <1>10, <1>12, <3>1, Numbers DEF Exhausted, Counter, Value
    <3> QED BY <1>1, <2>1, <3>2 DEF Edited, TypeOK
  <2>2. CASE e[1] # "insert"
    BY <1>1, <2>2 DEF Edited, TypeOK
  <2> QED BY <2>1, <2>2
<1>8. payload' \in Payload
  BY <1>1, <1>3, <1>6, <1>7, <1>12 DEF PayloadOf, Payload, Counter
<1>9. stuck' \in BOOLEAN
  BY Zenon DEF TypeOK, Edit, StillStuck
<1> QED BY <1>1, <1>4, <1>5, <1>6, <1>7, <1>8, <1>9, AnswerType DEF TypeOK, Edit, disk, file

LEMMA DrainType == ASSUME TypeOK, Drain PROVE TypeOK'
<1>1. parked \in Seq(Controllers) /\ parked # <<>>
  BY DEF TypeOK, Drain, Draining
<1>2. Head(parked) \in Controllers /\ Tail(parked) \in Seq(Controllers)
  BY <1>1
<1> QED BY <1>1, <1>2, RefuseType, ParkType, EditType DEF Drain

LEMMA ReserveDoneType == ASSUME TypeOK, ReserveDone PROVE TypeOK'
<1>1. /\ awaiting' \in BOOLEAN /\ overdue' \in BOOLEAN /\ failed' \in BOOLEAN
      /\ refuseParked' \in BOOLEAN
  BY Zenon DEF TypeOK, ReserveDone, StillRefusing
<1>2. ctr' \in [Kinds -> Counter]
  BY Numbers DEF TypeOK, ReserveDone, Durable, Counter, Value, Larger
<1> QED BY <1>1, <1>2 DEF TypeOK, ReserveDone, disk, file, edits

LEMMA ReserveOverdueType == ASSUME TypeOK, ReserveOverdue PROVE TypeOK'
<1>1. awaiting' \in BOOLEAN /\ overdue' \in BOOLEAN /\ failed' \in BOOLEAN /\ refuseParked' \in BOOLEAN
  BY Zenon DEF TypeOK, ReserveOverdue, GiveUp, StillRefusing
<1> QED BY <1>1 DEF TypeOK, ReserveOverdue, disk, file, values, edits

LEMMA SpoilType == ASSUME TypeOK, Spoil \/ OperatorMoves PROVE TypeOK'
<1>1. page' \in Payload \cup {None, Bad} /\ earlier' \in Payload \cup {None, Bad}
  BY DEF Spoil, OperatorMoves
<1>2. /\ UNCHANGED <<floor, survivors, lost>> /\ UNCHANGED <<up, write, stuck>>
      /\ UNCHANGED <<awaiting, overdue, failed, refuseParked, notices>>
      /\ UNCHANGED <<ctr, queue, token, payload, used, repeats>> /\ UNCHANGED <<edit, parked>>
  BY DEF Spoil, OperatorMoves, disk, waits, values, edits
<1> QED BY <1>1, <1>2, Zenon DEF TypeOK

LEMMA SetRepeatType == ASSUME TypeOK, SetRepeat PROVE TypeOK'
<1>1. payload' \in Payload
  BY DEF TypeOK, SetRepeat, PayloadOf, Payload, Counter, Kinds
<1> QED BY <1>1 DEF TypeOK, SetRepeat, disk, file, waits, edits

LEMMA WriteType == ASSUME TypeOK, Write PROVE TypeOK'
<1>1. floor' \in [Kinds -> Value] /\ survivors' \subseteq [Kinds -> Value] /\ lost' \in BOOLEAN
  BY WantsFacts, WritesType DEF Write, WriteLands, WriteFails
<1>2. write' \in {"none", "under way", "landed", "failed"}
  BY DEF Write, WriteLands, WriteFails
<1> QED BY <1>1, <1>2 DEF TypeOK, Write, file, waits, values, edits

LEMMA TimerFiresType == ASSUME TypeOK, TimerFires PROVE TypeOK'
<1>1. notices' \subseteq {"this wait", "earlier wait"}
  BY DEF TypeOK, TimerFires
<1>2. /\ floor' = floor /\ survivors' = survivors /\ lost' = lost /\ up' = up
      /\ page' = page /\ earlier' = earlier /\ write' = write /\ stuck' = stuck
      /\ awaiting' = awaiting /\ overdue' = overdue /\ failed' = failed
      /\ refuseParked' = refuseParked
      /\ ctr' = ctr /\ queue' = queue /\ token' = token /\ payload' = payload
      /\ used' = used /\ repeats' = repeats /\ edit' = edit /\ parked' = parked
  BY DEF TimerFires, disk, file, values, edits
<1>7. /\ page' \in Payload \cup {None, Bad} /\ earlier' \in Payload \cup {None, Bad}
      /\ payload' \in Payload \cup {None}
  BY <1>2 DEF TypeOK
<1>8. /\ floor' \in [Kinds -> Value] /\ survivors' \subseteq [Kinds -> Value] /\ lost' \in BOOLEAN
      /\ ctr' \in [Kinds -> Counter] /\ queue' \subseteq Value /\ token' \in Value
      /\ used' \in [Kinds -> SUBSET Value] /\ repeats' \in [Kinds -> SUBSET Value]
  BY <1>2 DEF TypeOK
<1> QED BY <1>1, <1>2, <1>7, <1>8 DEF TypeOK

LEMMA WriteQueueType == ASSUME TypeOK, WriteQueue PROVE TypeOK'
<1>1. page' \in Payload \cup {None, Bad} /\ earlier' \in Payload \cup {None, Bad}
  BY DEF TypeOK, WriteQueue
<1>2. /\ UNCHANGED <<floor, survivors, lost>> /\ UNCHANGED <<up, write, stuck>>
      /\ UNCHANGED <<awaiting, overdue, failed, refuseParked, notices>>
      /\ UNCHANGED <<ctr, queue, token, payload, used, repeats>> /\ UNCHANGED <<edit, parked>>
  BY DEF WriteQueue, disk, waits, values, edits
<1> QED BY <1>1, <1>2 DEF TypeOK

LEMMA AskType == ASSUME TypeOK, NEW c \in Controllers, NEW e \in Sensible, Ask(c, e) PROVE TypeOK'
<1>2. e \in Asked
  BY DEF Sensible, Asked, TypeOK
<1>3. edit' \in [Controllers -> Asked \cup {None}]
  BY <1>2 DEF TypeOK, Ask
<1>4. parked' = Append(parked, c) /\ parked \in Seq(Controllers)
  BY DEF TypeOK, Ask
<1>5. parked' \in Seq(Controllers)
  BY <1>4
<1>6. /\ floor' = floor /\ survivors' = survivors /\ lost' = lost /\ up' = up
      /\ page' = page /\ earlier' = earlier /\ write' = write /\ stuck' = stuck
      /\ awaiting' = awaiting /\ overdue' = overdue /\ failed' = failed
      /\ refuseParked' = refuseParked /\ notices' = notices
      /\ ctr' = ctr /\ queue' = queue /\ token' = token /\ payload' = payload
      /\ used' = used /\ repeats' = repeats
  BY DEF Ask, disk, file, waits, values
<1>7. /\ page' \in Payload \cup {None, Bad} /\ earlier' \in Payload \cup {None, Bad}
      /\ payload' \in Payload \cup {None}
  BY <1>6 DEF TypeOK
<1>8. /\ floor' \in [Kinds -> Value] /\ survivors' \subseteq [Kinds -> Value] /\ lost' \in BOOLEAN
      /\ ctr' \in [Kinds -> Counter] /\ queue' \subseteq Value /\ token' \in Value
      /\ used' \in [Kinds -> SUBSET Value] /\ repeats' \in [Kinds -> SUBSET Value]
  BY <1>6 DEF TypeOK
<1> QED BY <1>3, <1>5, <1>6, <1>7, <1>8 DEF TypeOK

LEMMA StutterType == ASSUME TypeOK, UNCHANGED vars PROVE TypeOK'
<1>1. /\ floor' = floor /\ survivors' = survivors /\ lost' = lost /\ up' = up
      /\ page' = page /\ earlier' = earlier /\ write' = write /\ stuck' = stuck
      /\ awaiting' = awaiting /\ overdue' = overdue /\ failed' = failed
      /\ refuseParked' = refuseParked /\ notices' = notices
      /\ ctr' = ctr /\ queue' = queue /\ token' = token /\ payload' = payload
      /\ used' = used /\ repeats' = repeats /\ edit' = edit /\ parked' = parked
  BY DEF vars, disk, file, waits, values, edits
<1>7. /\ page' \in Payload \cup {None, Bad} /\ earlier' \in Payload \cup {None, Bad}
      /\ payload' \in Payload \cup {None}
  BY <1>1 DEF TypeOK
<1>8. /\ floor' \in [Kinds -> Value] /\ survivors' \subseteq [Kinds -> Value] /\ lost' \in BOOLEAN
      /\ ctr' \in [Kinds -> Counter] /\ queue' \subseteq Value /\ token' \in Value
      /\ used' \in [Kinds -> SUBSET Value] /\ repeats' \in [Kinds -> SUBSET Value]
  BY <1>1 DEF TypeOK
<1> QED BY <1>1, <1>7, <1>8 DEF TypeOK

LEMMA NextType == ASSUME TypeOK, [Next]_vars PROVE TypeOK'
  BY StartType, EndsType, DrainType, ReserveDoneType, ReserveOverdueType, SpoilType, SetRepeatType,
     WriteType, TimerFiresType, WriteQueueType, AskType, StutterType DEF Next, Owner

\* Type correctness, for every block and every range of values.
THEOREM PlayerIDsType == Spec => []TypeOK
<1>1. Init => TypeOK
  BY InitType
<1>2. TypeOK /\ [Next]_vars => TypeOK'
  BY NextType
<1> QED BY <1>1, <1>2, PTL DEF Spec

-----------------------------------------------------------------------------
(***************************************************************************)
(* The values handed out                                                   *)
(***************************************************************************)
LEMMA Sorts ==
  ASSUME TypeOK
  PROVE  /\ \A k \in Kinds : ctr[k].next \in Int /\ ctr[k].durable \in Int /\ ctr[k].want \in Int
         /\ \A f \in survivors, k \in Kinds : f[k] \in Int
         /\ \A k \in Kinds : floor[k] \in Int
         /\ \A k \in Kinds : used[k] \subseteq Int
         /\ Slack \in Int /\ 0 <= Slack /\ Slack <= Block
<1>1. /\ ctr \in [Kinds -> Counter] /\ survivors \subseteq [Kinds -> Value]
      /\ floor \in [Kinds -> Value] /\ used \in [Kinds -> SUBSET Value]
  BY DEF TypeOK
<1>2. \A n \in Value : n \in Int
  BY DEF Value
<1>3. \A c \in Counter : c.next \in Int /\ c.durable \in Int /\ c.want \in Int
  BY <1>2, Numbers DEF Counter
<1>4. \A f \in survivors, k \in Kinds : f[k] \in Int
  BY <1>1, <1>2
<1> QED BY <1>1, <1>2, <1>3, <1>4, Numbers DEF Slack

LEMMA InitValues == Init => ValuesInv
  BY DEF Init, ValuesInv, HistoryInv, AheadInv, DownInv, CoverInv, DurableInv, WantInv

LEMMA QuietValues ==
  ASSUME ValuesInv, UNCHANGED <<floor, survivors, lost, up, ctr, token, write, used, repeats>>
  PROVE  ValuesInv'
<1>1. Slack' = Slack /\ \A k \in Kinds : Covered(k)' = Covered(k)
  BY DEF Slack, Covered
<1>2. HistoryInv'
  BY <1>1 DEF ValuesInv, HistoryInv
<1>3. AheadInv' /\ DownInv'
  BY DEF ValuesInv, AheadInv, DownInv
<1>4. CoverInv'
  BY <1>1 DEF ValuesInv, CoverInv
<1>5. DurableInv' /\ WantInv'
  BY <1>1 DEF ValuesInv, DurableInv, WantInv
<1> QED BY <1>2, <1>3, <1>4, <1>5 DEF ValuesInv

LEMMA EndsValues == ASSUME TypeOK, ValuesInv, Kill \/ PowerCut PROVE ValuesInv'
<1>1. ~up' /\ write' = "none" /\ used' = used /\ repeats' = repeats /\ lost' = lost
  BY DEF Kill, PowerCut, Ends, disk
<1>2. floor' \in survivors' /\ survivors' \subseteq survivors
  BY DEF Kill, PowerCut, disk, ValuesInv, HistoryInv
<1>3. Slack' = Slack
  BY <1>1 DEF Slack
<1>4. HistoryInv'
  BY <1>1, <1>2, <1>3 DEF ValuesInv, HistoryInv
<1> QED BY <1>1, <1>4 DEF ValuesInv, AheadInv, DownInv, CoverInv, DurableInv, WantInv

\* A start goes on past everything that was handed out, though storage lost a write.
LEMMA FreshIsPast ==
  ASSUME TypeOK, ValuesInv, \A k \in Kinds : ~Exhausted(Fresh[k])
  PROVE  \A k \in Kinds : /\ Fresh[k].next > 0
                          /\ \A v \in used[k] : v < Fresh[k].next
<1> SUFFICES ASSUME NEW k \in Kinds
             PROVE  Fresh[k].next > 0 /\ \A v \in used[k] : v < Fresh[k].next
  OBVIOUS
<1>1. Fresh[k].next = Base[k] + Block + 1 /\ Base[k] >= floor[k] /\ Base[k] \in Nat
  BY BaseFacts, FreshFacts DEF Value
<1>2. \A v \in used[k] : v <= floor[k] + Slack
  BY DEF ValuesInv, HistoryInv
<1>3. floor[k] \in Int /\ used[k] \subseteq Int /\ Slack \in Int /\ Slack <= Block
  BY Sorts
<1>4. ASSUME NEW v \in used[k] PROVE v < Fresh[k].next
  <2>1. v \in Int /\ v <= floor[k] + Slack
    BY <1>2, <1>3
  <2> QED BY <1>1, <1>3, <2>1, Numbers
<1> QED BY <1>1, <1>4, Numbers

LEMMA StartReservedValues ==
  ASSUME TypeOK, ValuesInv, Start, StartReserved
  PROVE  ValuesInv'
<1> DEFINE covered == [k \in Kinds |-> [Fresh[k] EXCEPT !.durable = First[k]]]
<1>1. /\ Keeps(First) /\ ctr' = Taken(covered, {"token"}) /\ HandOut(covered, {"token"})
      /\ up' /\ write' = write /\ ~up
  BY DEF Start, StartReserved
<1>2. /\ Fresh \in [Kinds -> Counter] /\ First \in [Kinds -> Value]
      /\ \A k \in Kinds : /\ ~Exhausted(Fresh[k]) /\ Fresh[k].next <= Last
                          /\ First[k] >= Fresh[k].next
  BY FreshFacts DEF Start
<1>3. covered \in [Kinds -> Counter]
  BY <1>2 DEF Counter
<1>4. \A k \in Kinds : covered[k].next = Fresh[k].next /\ covered[k].durable = First[k]
  BY <1>2 DEF Counter
<1> HIDE DEF covered
<1>5. \A k \in {"token"} \cap Kinds : ~Exhausted(covered[k])
  BY <1>2, <1>4 DEF Exhausted
<1>6. \A k \in Kinds :
        /\ ctr'[k].next = IF k \in {"token"} THEN Fresh[k].next + 1 ELSE Fresh[k].next
        /\ ctr'[k].durable = First[k]
  BY <1>1, <1>3, <1>4, <1>5, TakenFacts
<1>7. \A k \in Kinds : /\ Fresh[k].next > 0
                       /\ \A v \in used[k] : v < Fresh[k].next
  BY <1>2, FreshIsPast
<1>8. /\ floor' = Merged(First) /\ survivors' = {Merged(First)} /\ Slack' = Slack
      /\ \A k \in Kinds : Merged(First)[k] >= floor[k] /\ Merged(First)[k] >= First[k]
                          /\ Merged(First)[k] \in Int
  <2>1. floor \in [Kinds -> Value]
    BY DEF TypeOK
  <2>2. Merged(First) \in [Kinds -> Value]
        /\ \A k \in Kinds : Merged(First)[k] >= floor[k] /\ Merged(First)[k] >= First[k]
    BY <1>2, <2>1, MergedFacts
  <2>3. floor' = Merged(First) /\ survivors' = {Merged(First)} /\ lost' = lost
    BY <1>1 DEF Keeps
  <2> QED BY <2>2, <2>3 DEF Slack, Value
<1>9. \A k \in Kinds : Fresh[k].next \in Int /\ First[k] \in Int
  BY <1>2, Numbers DEF Counter, Value
<1>10. \A k \in Kinds :
         /\ \A v \in used'[k] : v \in used[k] \/ (v = Fresh[k].next /\ k = "token")
         /\ \A v \in repeats'[k] : v \in repeats[k] \/ (v = Fresh[k].next /\ v \in used[k])
  <2>1. ASSUME NEW k \in Kinds
        PROVE  /\ used'[k] = IF k \in {"token"} THEN used[k] \cup {Fresh[k].next} ELSE used[k]
               /\ repeats'[k] = IF k \in {"token"} THEN repeats[k] \cup ({Fresh[k].next} \cap used[k])
                                ELSE repeats[k]
    BY <1>1, <1>4 DEF HandOut
  <2> QED BY <2>1
<1>11. HistoryInv'
  <2>1. ASSUME NEW k \in Kinds, NEW v \in used'[k] PROVE v <= Merged(First)[k] + Slack
    <3>1. CASE v \in used[k]
      <4>1. v <= floor[k] + Slack
        BY <3>1 DEF ValuesInv, HistoryInv
      <4>2. v \in Int /\ floor[k] \in Int /\ Slack \in Int
        BY <3>1, Sorts
      <4> QED BY <1>8, <4>1, <4>2
    <3>2. CASE v = Fresh[k].next
      <4>1. Slack \in Int /\ Slack >= 0
        BY Sorts
      <4> QED BY <1>2, <1>8, <1>9, <3>2, <4>1
    <3> QED BY <1>10, <3>1, <3>2
  <2>2. \A k \in Kinds : repeats'[k] = {}
    <3>1. \A k \in Kinds : Fresh[k].next \notin used[k]
      BY <1>7, <1>9
    <3> QED BY <1>10, <3>1 DEF ValuesInv, HistoryInv
  <2> QED BY <1>8, <2>1, <2>2 DEF HistoryInv
<1>12. AheadInv'
  <2>1. ASSUME NEW k \in Kinds
        PROVE  ctr'[k].next > 0 /\ \A v \in used'[k] : v < ctr'[k].next
    <3>1. Fresh[k].next \in Int /\ Fresh[k].next > 0 /\ \A v \in used[k] : v < Fresh[k].next
      BY <1>7, <1>9
    <3>2. used[k] \subseteq Int
      BY Sorts
    <3>3. CASE k = "token"
      BY <1>6, <1>10, <3>1, <3>2, <3>3
    <3>4. CASE k # "token"
      BY <1>6, <1>10, <3>1, <3>2, <3>4
    <3> QED BY <3>3, <3>4
  <2> QED BY <2>1 DEF AheadInv
<1>13. \A k \in Kinds : Covered(k)'
  BY <1>2, <1>6, <1>9 DEF Covered
<1>14. DurableInv' /\ WantInv' /\ DownInv'
  <2>1. write' = "none"
    BY <1>1 DEF ValuesInv, DownInv
  <2>2. ASSUME NEW k \in Kinds PROVE ctr'[k].durable <= Merged(First)[k] + Slack
    <3>1. Slack \in Int /\ Slack >= 0
      BY Sorts
    <3> QED BY <1>6, <1>8, <1>9, <3>1
  <2> QED BY <1>8, <2>1, <2>2 DEF DurableInv, WantInv, DownInv
<1> QED BY <1>11, <1>12, <1>13, <1>14 DEF ValuesInv, CoverInv

\* What a write leaves of the reservation file when it does not land.
LEMMA FailsFacts ==
  ASSUME TypeOK, HistoryInv, NEW want \in [Kinds -> Value], Fails(want)
  PROVE  /\ floor' \in survivors' /\ lost' = lost
         /\ \A f \in survivors', k \in Kinds :
              /\ f[k] \in Int
              /\ f \notin survivors => f[k] >= floor[k]
<1>1. floor \in [Kinds -> Value] /\ survivors \subseteq [Kinds -> Value] /\ floor \in survivors
  BY DEF TypeOK, HistoryInv
<1>2. Merged(want) \in [Kinds -> Value] /\ \A k \in Kinds : Merged(want)[k] >= floor[k]
  BY <1>1, MergedFacts
<1>3. \A n \in Value : n \in Int
  BY DEF Value
<1>4. CASE FailsWhole(want)
  BY <1>1, <1>3, <1>4 DEF FailsWhole, disk
<1>5. CASE RenamesUnsynced(want)
  BY <1>1, <1>2, <1>3, <1>5 DEF RenamesUnsynced
<1> QED BY <1>4, <1>5 DEF Fails

\* A content that is no less than the file's bounds what the file's bounded.
LEMMA StaysBelow ==
  ASSUME TypeOK, HistoryInv, NEW want \in [Kinds -> Value], Fails(want),
         NEW k \in Kinds, NEW v \in Int, \A f \in survivors : v <= f[k] + Slack
  PROVE  \A f \in survivors' : v <= f[k] + Slack'
<1>1. Slack' = Slack /\ Slack \in Int /\ floor[k] \in Int
  BY FailsFacts, Sorts DEF Slack
<1>2. v <= floor[k] + Slack
  BY DEF HistoryInv
<1>3. \A f \in survivors' : f[k] \in Int /\ (f \notin survivors => f[k] >= floor[k])
  BY FailsFacts
<1> QED BY <1>1, <1>2, <1>3

LEMMA StartUnreservedValues ==
  ASSUME TypeOK, ValuesInv, Start, StartUnreserved
  PROVE  ValuesInv'
<1>1. /\ Fails(First) /\ ctr' = Fresh /\ token' = 0 /\ used' = used /\ repeats' = repeats
      /\ up' /\ write' = write /\ ~up
  BY DEF Start, StartUnreserved
<1>2. /\ First \in [Kinds -> Value]
      /\ \A k \in Kinds : /\ ~Exhausted(Fresh[k])
                          /\ Fresh[k].next = Base[k] + Block + 1 /\ Fresh[k].durable = Base[k]
  BY FreshFacts DEF Start
<1>3. HistoryInv'
  <2>1. \A k \in Kinds : \A v \in used[k] : \A f \in survivors' : v <= f[k] + Slack'
    BY <1>1, <1>2, StaysBelow, Sorts DEF ValuesInv, HistoryInv
  <2> QED BY <1>1, <1>2, <2>1, FailsFacts DEF ValuesInv, HistoryInv
<1>4. AheadInv'
  BY <1>1, <1>2, FreshIsPast DEF AheadInv
<1>5. write' = "none"
  BY <1>1 DEF ValuesInv, DownInv
<1>6. \A k \in Kinds : ~Covered(k)'
  <2>1. \A k \in Kinds : Base[k] \in Int
    BY BaseFacts DEF Value
  <2> QED BY <1>1, <1>2, <2>1, Numbers DEF Covered
<1> QED BY <1>1, <1>3, <1>4, <1>5, <1>6
        DEF ValuesInv, CoverInv, DurableInv, WantInv, DownInv

LEMMA ParkValues ==
  ASSUME TypeOK, ValuesInv, NEW c \in Controllers, NEW kept, up, Park(c, kept)
  PROVE  ValuesInv'
<1>1. UNCHANGED <<floor, survivors, lost, up, token, used, repeats>>
  BY DEF Park, disk
<1>4. \/ UNCHANGED <<write, ctr>>
      \/ write = "none" /\ write' = "under way" /\ ctr' = Wanting(ctr)
  BY DEF Park
<1>2. CASE UNCHANGED <<write, ctr>>
  BY <1>1, <1>2, QuietValues
<1>3. CASE write = "none" /\ write' = "under way" /\ ctr' = Wanting(ctr)
  <2>1. ctr \in [Kinds -> Counter]
    BY DEF TypeOK
  <2>2. \A k \in Kinds : /\ ctr'[k].next = ctr[k].next /\ ctr'[k].durable = ctr[k].durable
                         /\ ctr'[k].want >= ctr'[k].next - 1
                         /\ Covered(k) => ctr'[k].want <= ctr'[k].durable + Block
    BY <1>3, <2>1, WantingFacts DEF Covered
  <2>3. ASSUME NEW k \in Kinds PROVE Covered(k)' = Covered(k)
    <3>1. ctr'[k].next = ctr[k].next /\ ctr'[k].durable = ctr[k].durable
      BY <2>2
    <3> QED BY <3>1 DEF Covered
  <2>9. Slack' = Slack
    BY <1>1 DEF Slack
  <2>4. HistoryInv'
    BY <1>1, <2>3, <2>9 DEF ValuesInv, HistoryInv
  <2>5. AheadInv'
    BY <1>1, <2>2 DEF ValuesInv, AheadInv
  <2>8. DownInv'
    BY <1>1 DEF DownInv
  <2>6. CoverInv'
    BY <1>1, <2>2, <2>3 DEF ValuesInv, CoverInv
  <2>7. DurableInv' /\ WantInv'
    BY <1>1, <1>3, <2>2, <2>3, <2>9 DEF ValuesInv, DurableInv, WantInv
  <2> QED BY <2>4, <2>5, <2>6, <2>7, <2>8 DEF ValuesInv
<1> QED BY <1>2, <1>3, <1>4

\* An edit is made inside the run's reservation, of which its token is a witness.
LEMMA EditCovered ==
  ASSUME TypeOK, ValuesInv, up, NEW e, ~Short(e)
  PROVE  /\ \A k \in Kinds : Covered(k)
         /\ \A k \in Kinds : k \in Takes(e) => ctr[k].next <= ctr[k].durable
<1>1. "token" \in Takes(e) /\ "token" \in Kinds /\ Takes(e) \subseteq Kinds
  BY DEF Takes, Kinds
<1>2. \A k \in Kinds : ctr[k].next \in Int /\ ctr[k].durable \in Int
  BY Sorts
<1>3. \A k \in Kinds : k \in Takes(e) => ctr[k].next <= ctr[k].durable
  BY <1>2 DEF Short, Needs
<1>4. Covered("token")
  BY <1>1, <1>2, <1>3 DEF Covered
<1> QED BY <1>1, <1>3, <1>4 DEF ValuesInv, CoverInv

LEMMA EditValues ==
  ASSUME TypeOK, ValuesInv, up, NEW c \in Controllers, NEW left, Edit(c, left)
  PROVE  ValuesInv'
<1> DEFINE K     == Takes(edit[c])
           after == Taken(ctr, K)
<1>1. /\ ~Denied(edit[c]) /\ ~Short(edit[c]) /\ HandOut(ctr, K)
  BY DEF Edit
<1>2. \/ ctr' = after /\ write' = write
      \/ ctr' = Wanting(after) /\ write' = "under way"
  BY DEF Edit
<1>3. UNCHANGED <<floor, survivors, lost>> /\ up' = up
  BY DEF Edit, disk
<1>4. /\ \A k \in Kinds : Covered(k)
      /\ \A k \in Kinds : k \in K => ctr[k].next <= ctr[k].durable
  BY <1>1, EditCovered
<1>5. \A k \in K \cap Kinds : ~Exhausted(ctr[k])
  BY <1>1 DEF Denied
<1>6. /\ ctr \in [Kinds -> Counter]
      /\ \A k \in Kinds : ctr[k].next \in Int /\ ctr[k].durable \in Int /\ ctr[k].want \in Int
  BY Sorts DEF TypeOK
<1>7. /\ after \in [Kinds -> Counter]
      /\ \A k \in Kinds : /\ after[k].next = IF k \in K THEN ctr[k].next + 1 ELSE ctr[k].next
                          /\ after[k].durable = ctr[k].durable
                          /\ after[k].want = ctr[k].want
  BY <1>5, <1>6, TakenFacts
<1>8. \A k \in Kinds :
        /\ used'[k] = IF k \in K THEN used[k] \cup {ctr[k].next} ELSE used[k]
        /\ repeats'[k] = IF k \in K THEN repeats[k] \cup ({ctr[k].next} \cap used[k]) ELSE repeats[k]
  BY <1>1 DEF HandOut
<1> HIDE DEF after, K
<1>9. \A k \in Kinds :
        /\ ctr'[k].next = IF k \in K THEN ctr[k].next + 1 ELSE ctr[k].next
        /\ ctr'[k].durable = ctr[k].durable
        /\ \/ write' = write /\ ctr'[k].want = ctr[k].want
           \/ write' = "under way" /\ ctr'[k].want <= ctr[k].durable + Block
  <2>1. CASE ctr' = after /\ write' = write
    BY <1>7, <2>1
  <2>2. CASE ctr' = Wanting(after) /\ write' = "under way"
    <3>1. \A k \in Kinds : after[k].next <= after[k].durable + 1
      BY <1>4, <1>6, <1>7 DEF Covered
    <3>2. \A k \in Kinds : /\ ctr'[k].next = after[k].next
                          /\ ctr'[k].durable = after[k].durable
                          /\ ctr'[k].want <= after[k].durable + Block
      BY <1>7, <2>2, <3>1, WantingFacts
    <3> QED BY <1>7, <2>2, <3>2
  <2> QED BY <1>2, <2>1, <2>2
<1>10. Slack' = Slack
  BY <1>3 DEF Slack
<1>11. ASSUME NEW k \in Kinds PROVE Covered(k)'
  <2>1. ctr[k].next <= ctr[k].durable + 1 /\ (k \in K => ctr[k].next <= ctr[k].durable)
    BY <1>4 DEF Covered
  <2>3. /\ ctr'[k].next = IF k \in K THEN ctr[k].next + 1 ELSE ctr[k].next
        /\ ctr'[k].durable = ctr[k].durable
    BY <1>9
  <2>4. ctr[k].next \in Int /\ ctr[k].durable \in Int
    BY <1>6
  <2>2. ctr'[k].next <= ctr'[k].durable + 1
    BY <2>1, <2>3, <2>4
  <2> QED BY <2>2 DEF Covered
<1>12. \A k \in Kinds : \A v \in used[k] : v \in Int /\ v < ctr[k].next
  BY Sorts DEF ValuesInv, AheadInv
<1>13. \A f \in survivors, k \in Kinds : f[k] \in Int /\ ctr[k].durable <= f[k] + Slack
  BY <1>4, Sorts DEF ValuesInv, DurableInv
<1>14. HistoryInv'
  <2>1. ASSUME NEW f \in survivors, NEW k \in Kinds, NEW v \in used'[k]
        PROVE  v <= f[k] + Slack
    <3>1. CASE v \in used[k]
      BY <3>1 DEF ValuesInv, HistoryInv
    <3>2. CASE v = ctr[k].next /\ k \in K
      <4>1. Slack \in Int
        BY Sorts
      <4> QED BY <1>4, <1>6, <1>13, <3>2, <4>1
    <3> QED BY <1>8, <3>1, <3>2
  <2>2. \A k \in Kinds : repeats'[k] = {}
    <3>1. \A k \in Kinds : ctr[k].next \notin used[k]
      BY <1>6, <1>12
    <3> QED BY <1>8, <3>1 DEF ValuesInv, HistoryInv
  <2> QED BY <1>3, <1>10, <2>1, <2>2 DEF ValuesInv, HistoryInv
<1>15. AheadInv'
  <2>1. ASSUME NEW k \in Kinds
        PROVE  ctr'[k].next > 0 /\ \A v \in used'[k] : v < ctr'[k].next
    <3>1. ctr[k].next > 0
      BY DEF ValuesInv, AheadInv
    <3>2. ctr[k].next \in Int /\ \A v \in used[k] : v \in Int /\ v < ctr[k].next
      BY <1>6, <1>12
    <3>3. CASE k \in K
      <4>1. ctr'[k].next = ctr[k].next + 1 /\ used'[k] = used[k] \cup {ctr[k].next}
        BY <1>8, <1>9, <3>3
      <4> QED BY <3>1, <3>2, <4>1
    <3>4. CASE k \notin K
      <4>1. ctr'[k].next = ctr[k].next /\ used'[k] = used[k]
        BY <1>8, <1>9, <3>4
      <4> QED BY <3>1, <3>2, <4>1
    <3> QED BY <3>3, <3>4
  <2> QED BY <2>1 DEF AheadInv
<1>16. DownInv'
  BY <1>3 DEF DownInv
<1>17. DurableInv'
  <2>1. \A k \in Kinds : write' = "landed" => write = "landed" /\ ctr'[k].want = ctr[k].want
    BY <1>9
  <2> QED BY <1>3, <1>9, <1>10, <1>13, <2>1 DEF ValuesInv, DurableInv
<1>18. WantInv'
  BY <1>4, <1>9 DEF ValuesInv, WantInv
<1> QED BY <1>11, <1>14, <1>15, <1>16, <1>17, <1>18 DEF ValuesInv, CoverInv

LEMMA WriteFailsValues ==
  ASSUME TypeOK, ValuesInv, Write, WriteFails
  PROVE  ValuesInv'
<1>1. /\ Fails(Wants) /\ write = "under way" /\ write' = "failed"
      /\ UNCHANGED <<up, ctr, token, used, repeats>>
  BY DEF Write, WriteFails, values
<1>2. Wants \in [Kinds -> Value]
  BY WantsFacts
<1>3. /\ floor' \in survivors' /\ lost' = lost /\ Slack' = Slack
  <2>1. floor' \in survivors' /\ lost' = lost
    BY <1>1, <1>2, FailsFacts DEF ValuesInv
  <2> QED BY <2>1 DEF Slack
<1>4. HistoryInv'
  <2>1. \A k \in Kinds : \A v \in used[k] : \A f \in survivors' : v <= f[k] + Slack'
    BY <1>1, <1>2, StaysBelow, Sorts DEF ValuesInv, HistoryInv
  <2> QED BY <1>1, <1>3, <2>1 DEF ValuesInv, HistoryInv
<1>5. \A k \in Kinds : Covered(k)' = Covered(k)
  BY <1>1 DEF Covered
<1>6. AheadInv' /\ DownInv'
  BY <1>1 DEF ValuesInv, AheadInv, DownInv
<1>7. CoverInv' /\ WantInv'
  BY <1>1, <1>5 DEF ValuesInv, CoverInv, WantInv
<1>8. DurableInv'
  <2>1. ASSUME up, NEW k \in Kinds, Covered(k)
        PROVE  \A f \in survivors' : ctr[k].durable <= f[k] + Slack'
    <3>1. \A f \in survivors : ctr[k].durable <= f[k] + Slack
      BY <2>1 DEF ValuesInv, DurableInv
    <3> QED BY <1>1, <1>2, <3>1, StaysBelow, Sorts DEF ValuesInv
  <2> QED BY <1>1, <1>5, <2>1 DEF DurableInv
<1> QED BY <1>4, <1>6, <1>7, <1>8 DEF ValuesInv

\* The write landed and is kept: it is what a power cut leaves.
LEMMA WriteKeptValues ==
  ASSUME TypeOK, ValuesInv, Write, WriteLands, Keeps(Wants)
  PROVE  ValuesInv'
<1>1. /\ write = "under way" /\ write' = "landed"
      /\ UNCHANGED <<up, ctr, token, used, repeats>>
      /\ survivors' = {Merged(Wants)} /\ floor' = Merged(Wants) /\ lost' = lost
  BY DEF Write, WriteLands, values, Keeps
<1>2. \A k \in Kinds : /\ Merged(Wants)[k] \in Int /\ floor[k] \in Int /\ ctr[k].want \in Int
                       /\ Merged(Wants)[k] >= floor[k] /\ Merged(Wants)[k] >= ctr[k].want
  <2>1. floor \in [Kinds -> Value]
    BY DEF TypeOK
  <2>2. Wants \in [Kinds -> Value] /\ \A k \in Kinds : Wants[k] = ctr[k].want
    BY WantsFacts
  <2>3. Merged(Wants) \in [Kinds -> Value]
        /\ \A k \in Kinds : Merged(Wants)[k] >= floor[k] /\ Merged(Wants)[k] >= Wants[k]
    BY <2>1, <2>2, MergedFacts
  <2> QED BY <2>1, <2>2, <2>3 DEF Value
<1>3. Slack' = Slack /\ Slack \in Int /\ Slack >= 0
  BY <1>1, Sorts DEF Slack
<1>4. \A k \in Kinds : Covered(k)' = Covered(k)
  BY <1>1 DEF Covered
<1>5. HistoryInv'
  <2>1. ASSUME NEW k \in Kinds, NEW v \in used[k] PROVE v <= Merged(Wants)[k] + Slack
    <3>1. v \in Int /\ v <= floor[k] + Slack
      BY Sorts DEF ValuesInv, HistoryInv
    <3> QED BY <1>2, <1>3, <3>1
  <2> QED BY <1>1, <1>3, <2>1 DEF ValuesInv, HistoryInv
<1>6. AheadInv' /\ DownInv'
  BY <1>1 DEF ValuesInv, AheadInv, DownInv
<1>7. CoverInv' /\ WantInv'
  BY <1>1, <1>4 DEF ValuesInv, CoverInv, WantInv
<1>8. DurableInv'
  <2>1. ASSUME up, NEW k \in Kinds
        PROVE  /\ Covered(k) => ctr[k].durable <= Merged(Wants)[k] + Slack
               /\ ctr[k].want <= Merged(Wants)[k] + Slack
    <3>1. Covered(k) => ctr[k].durable <= floor[k] + Slack
      BY <2>1 DEF ValuesInv, HistoryInv, DurableInv
    <3>2. ctr[k].durable \in Int
      BY Sorts
    <3> QED BY <1>2, <1>3, <3>1, <3>2
  <2> QED BY <1>1, <1>3, <1>4, <2>1 DEF DurableInv
<1> QED BY <1>5, <1>6, <1>7, <1>8 DEF ValuesInv

\* The write landed and storage lost it: a block covers what it wanted.
LEMMA WriteLostValues ==
  ASSUME TypeOK, ValuesInv, Write, WriteLands, Loses(Wants)
  PROVE  ValuesInv'
<1>1. /\ write = "under way" /\ write' = "landed" /\ token # 0
      /\ UNCHANGED <<up, ctr, token, used, repeats>>
      /\ survivors' = survivors \cup {Merged(Wants)} /\ floor' = Merged(Wants)
      /\ ~lost /\ lost'
  BY DEF Write, WriteLands, values, Loses
<1>2. Slack = 0 /\ Slack' = Block
  BY <1>1 DEF Slack
<1>3. up /\ \A k \in Kinds : Covered(k)
  BY <1>1 DEF ValuesInv, DownInv, CoverInv
<1>4. \A f \in survivors', k \in Kinds : f[k] \in Int
  <2>1. TypeOK'
    BY WriteType
  <2>2. survivors' \subseteq [Kinds -> Value]
    BY <2>1 DEF TypeOK
  <2> QED BY <2>2 DEF Value
<1>5. \A k \in Kinds : /\ ctr[k].durable \in Int /\ ctr[k].want \in Int
                       /\ ctr[k].want <= ctr[k].durable + Block
  BY <1>1, <1>3, Sorts DEF ValuesInv, WantInv
<1>6. \A f \in survivors', k \in Kinds : f \notin survivors => f[k] >= floor[k]
  <2>1. floor \in [Kinds -> Value]
    BY DEF TypeOK
  <2>2. \A k \in Kinds : Merged(Wants)[k] >= floor[k]
    BY <2>1, WantsFacts, MergedFacts
  <2> QED BY <1>1, <2>2
\* Nothing below every content of before is above a content of after.
<1>7. ASSUME NEW k \in Kinds, NEW v \in Int, \A f \in survivors : v <= f[k] + Slack,
             NEW f \in survivors'
      PROVE  v <= f[k]
  <2>1. floor[k] \in Int /\ v <= floor[k]
    BY <1>2, <1>7, Sorts DEF ValuesInv, HistoryInv
  <2>2. CASE f \in survivors
    BY <1>2, <1>4, <1>7, <2>2
  <2>3. CASE f \notin survivors
    BY <1>4, <1>6, <2>1, <2>3
  <2> QED BY <2>2, <2>3
<1>8. HistoryInv'
  <2>1. ASSUME NEW f \in survivors', NEW k \in Kinds, NEW v \in used[k]
        PROVE  v <= f[k] + Block
    <3>1. v \in Int /\ \A g \in survivors : v <= g[k] + Slack
      BY Sorts DEF ValuesInv, HistoryInv
    <3>2. v <= f[k]
      BY <1>7, <3>1
    <3> QED BY <1>4, <3>1, <3>2, Numbers
  <2> QED BY <1>1, <1>2, <2>1 DEF ValuesInv, HistoryInv
<1>9. AheadInv' /\ DownInv'
  BY <1>1, <1>3 DEF ValuesInv, AheadInv, DownInv
<1>10. \A k \in Kinds : Covered(k)'
  BY <1>1, <1>3 DEF Covered
<1>11. DurableInv'
  <2>1. ASSUME NEW f \in survivors', NEW k \in Kinds
        PROVE  ctr[k].durable <= f[k] + Block /\ ctr[k].want <= f[k] + Block
    <3>1. \A g \in survivors : ctr[k].durable <= g[k] + Slack
      BY <1>3 DEF ValuesInv, DurableInv
    <3>2. ctr[k].durable <= f[k]
      BY <1>5, <1>7, <3>1
    <3> QED BY <1>4, <1>5, <3>2, Numbers
  <2> QED BY <1>1, <1>2, <2>1 DEF DurableInv
<1>12. WantInv'
  BY <1>1, <1>5 DEF WantInv
<1> QED BY <1>8, <1>9, <1>10, <1>11, <1>12 DEF ValuesInv, CoverInv

LEMMA ReserveDoneValues ==
  ASSUME TypeOK, ValuesInv, ReserveDone
  PROVE  ValuesInv'
<1>1. /\ write \in {"landed", "failed"} /\ write' = "none" /\ up' = up
      /\ UNCHANGED <<floor, survivors, lost>> /\ UNCHANGED <<token, used, repeats>>
  BY DEF ReserveDone, disk
<1>2. up /\ Slack' = Slack
  BY <1>1 DEF ValuesInv, DownInv, Slack
<1>3. \A k \in Kinds : ctr[k].next \in Int /\ ctr[k].durable \in Int /\ ctr[k].want \in Int
  BY Sorts
<1>4. CASE write = "failed"
  <2>1. ctr' = ctr
    BY <1>4 DEF ReserveDone, Durable
  <2>2. \A k \in Kinds : Covered(k)' = Covered(k)
    BY <2>1 DEF Covered
  <2>3. HistoryInv'
    BY <1>1, <1>2 DEF ValuesInv, HistoryInv
  <2>4. AheadInv' /\ DownInv' /\ CoverInv' /\ WantInv'
    BY <1>1, <2>1, <2>2 DEF ValuesInv, AheadInv, DownInv, CoverInv, WantInv
  <2>5. DurableInv'
    BY <1>1, <1>2, <2>1, <2>2 DEF ValuesInv, DurableInv
  <2> QED BY <2>3, <2>4, <2>5 DEF ValuesInv
<1>5. CASE write = "landed"
  <2>1. \A k \in Kinds : /\ ctr'[k].next = ctr[k].next
                        /\ ctr'[k].durable = Larger(ctr[k].durable, ctr[k].want)
    BY <1>5 DEF ReserveDone, Durable, TypeOK, Counter
  <2>2. \A k \in Kinds : /\ ctr'[k].durable \in {ctr[k].durable, ctr[k].want}
                        /\ ctr'[k].durable >= ctr[k].durable
                        /\ ctr'[k].durable >= ctr[k].want
    BY <1>3, <2>1, LargerFacts
  <2>3. \A k \in Kinds : ctr[k].want >= ctr[k].next - 1 \/ Covered(k)
    BY <1>2, <1>5 DEF ValuesInv, CoverInv
  <2>4. \A k \in Kinds : Covered(k)'
    BY <1>3, <2>1, <2>2, <2>3 DEF Covered
  <2>5. HistoryInv'
    BY <1>1, <1>2 DEF ValuesInv, HistoryInv
  <2>6. AheadInv' /\ DownInv'
    BY <1>1, <2>1 DEF ValuesInv, AheadInv, DownInv
  <2>7. DurableInv'
    <3>1. ASSUME NEW f \in survivors, NEW k \in Kinds
          PROVE  ctr'[k].durable <= f[k] + Slack
      <4>1. /\ ctr[k].want <= f[k] + Slack
            /\ Covered(k) => ctr[k].durable <= f[k] + Slack
        BY <1>2, <1>5 DEF ValuesInv, DurableInv
      <4>2. CASE Covered(k)
        BY <2>2, <4>1, <4>2
      <4>3. CASE ~Covered(k)
        <5>1. ctr[k].want >= ctr[k].durable
          BY <1>3, <2>3, <4>3 DEF Covered
        <5>2. ctr'[k].durable = ctr[k].want
          BY <1>3, <2>2, <5>1
        <5> QED BY <4>1, <5>2
      <4> QED BY <4>2, <4>3
    <3> QED BY <1>1, <1>2, <3>1 DEF DurableInv
  <2>8. WantInv'
    BY <1>1 DEF WantInv
  <2> QED BY <2>4, <2>5, <2>6, <2>7, <2>8 DEF ValuesInv, CoverInv
<1> QED BY <1>1, <1>4, <1>5

\* An edit that waits waits in a run.
LEMMA NextValues == ASSUME TypeOK, ValuesInv, [Next]_vars PROVE ValuesInv'
<1>1. CASE Start
  BY <1>1, StartReservedValues, StartUnreservedValues DEF Start
<1>2. CASE Kill \/ PowerCut
  BY <1>2, EndsValues
<1>3. CASE Drain
  <2>1. PICK c \in Controllers, left \in Seq(Controllers) :
          up /\ (Refuse(c, left) \/ Park(c, left) \/ Edit(c, left))
    <3>1. parked \in Seq(Controllers) /\ parked # <<>>
      BY <1>3 DEF TypeOK, Drain, Draining
    <3>2. Head(parked) \in Controllers /\ Tail(parked) \in Seq(Controllers)
      BY <3>1
    <3> QED BY <1>3, <3>1, <3>2 DEF Drain
  <2>2. CASE Refuse(c, left)
    BY <2>2, QuietValues DEF Refuse, disk, values
  <2> QED BY <2>1, <2>2, ParkValues, EditValues
<1>4. CASE ReserveDone
  BY <1>4, ReserveDoneValues
<1>5. CASE Write
  BY <1>5, WriteFailsValues, WriteKeptValues, WriteLostValues DEF Write, WriteLands
<1>6. CASE Spoil \/ OperatorMoves \/ SetRepeat \/ TimerFires \/ WriteQueue
             \/ ReserveOverdue \/ UNCHANGED vars
  BY <1>6, QuietValues DEF Spoil, OperatorMoves, SetRepeat, TimerFires, WriteQueue,
     ReserveOverdue, vars, disk, values
<1>7. ASSUME NEW c \in Controllers, NEW e \in Sensible, Ask(c, e) PROVE ValuesInv'
  BY <1>7, QuietValues DEF Ask, disk, values
<1> QED BY <1>1, <1>2, <1>3, <1>4, <1>5, <1>6, <1>7 DEF Next, Owner

\* No ID and no token is handed out twice: reserve.go's promise, through crashes,
\* power cuts, failed and hanging writes and one lost reservation, for every block.
THEOREM PlayerIDsNothingTwice == Spec => []NothingTwice
<1>1. Init => TypeOK /\ ValuesInv
  BY InitType, InitValues
<1>2. TypeOK /\ ValuesInv /\ [Next]_vars => (TypeOK /\ ValuesInv)'
  BY NextType, NextValues
<1>3. ValuesInv => NothingTwice
  BY DEF ValuesInv, HistoryInv, NothingTwice
<1> QED BY <1>1, <1>2, <1>3, PTL DEF Spec

-----------------------------------------------------------------------------
(***************************************************************************)
(* The queue and its file                                                  *)
(***************************************************************************)
LEMMA InitQueue == Init => QueueInv
  BY DEF Init, QueueInv, QueueLoads

\* The file a revision will be loads when the queue is inside the reservation.
LEMMA PayloadDecodes ==
  ASSUME NEW cs, NEW ids, NEW tok,
         \A id \in ids : id > 0 /\ id < cs["id"].next /\ id <= cs["id"].durable
  PROVE  Decodes(PayloadOf(cs, ids, tok))
  BY DEF Decodes, PayloadOf

LEMMA QuietQueue ==
  ASSUME QueueInv, UNCHANGED <<page, earlier, payload>>, UNCHANGED <<up, queue>>,
         /\ ctr'["id"].next = ctr["id"].next
         /\ ctr'["id"].durable = ctr["id"].durable
  PROVE  QueueInv'
  BY DEF QueueInv, QueueLoads, Decodes

LEMMA StartQueue == ASSUME TypeOK, QueueInv, Start PROVE QueueInv'
<1>1. /\ Fresh \in [Kinds -> Counter] /\ First \in [Kinds -> Value] /\ "id" \in Kinds
      /\ Fresh["id"].next = Base["id"] + Block + 1 /\ Fresh["id"].durable = Base["id"]
      /\ First["id"] >= Base["id"]
  BY FreshFacts DEF Start, Kinds
<1>2. /\ \A id \in Loaded : id > 0 /\ id <= Base["id"]
      /\ Base["id"] \in Int /\ First["id"] \in Int /\ Loaded \subseteq Int
  <2>1. Base \in [Kinds -> Value] /\ \A id \in Loaded : id > 0 /\ id <= Base["id"]
    BY BaseFacts
  <2>2. \A n \in Value : n \in Int
    BY DEF Value
  <2>3. Loaded \subseteq Value
    BY DEF TypeOK, Loaded, Readable, Payload
  <2> QED BY <1>1, <2>1, <2>2, <2>3
<1>3. ctr'["id"].next = Fresh["id"].next /\ ctr'["id"].durable >= Base["id"]
      /\ ctr'["id"].durable \in Int
  <2>1. CASE StartReserved
    <3> DEFINE covered == [k \in Kinds |-> [Fresh[k] EXCEPT !.durable = First[k]]]
    <3>1. ctr' = Taken(covered, {"token"})
      BY <2>1 DEF StartReserved
    <3>2. covered["id"].next = Fresh["id"].next /\ covered["id"].durable = First["id"]
      BY <1>1 DEF Counter
    <3> HIDE DEF covered
    <3>3. ctr'["id"] = covered["id"]
      BY <1>1, <3>1 DEF Taken
    <3> QED BY <1>1, <1>2, <3>2, <3>3
  <2>2. CASE StartUnreserved
    BY <1>1, <1>2, <2>2 DEF StartUnreserved
  <2> QED BY <2>1, <2>2 DEF Start
<1>4. \A id \in queue' : id > 0 /\ id < ctr'["id"].next /\ id <= ctr'["id"].durable
  <2>1. queue' = Loaded
    BY DEF Start
  <2> QED BY <1>1, <1>2, <1>3, <2>1, Numbers
<1>5. payload' = payload /\ page' \in {page, None} /\ earlier' \in {earlier, None}
  BY DEF Start, LoadQueue, file
<1> QED BY <1>4, <1>5 DEF QueueInv, QueueLoads, Decodes

LEMMA EditQueue ==
  ASSUME TypeOK, ValuesInv, QueueInv, up, NEW c \in Controllers, NEW left, Edit(c, left)
  PROVE  QueueInv'
<1> DEFINE e     == edit[c]
           after == Taken(ctr, Takes(e))
<1>1. /\ ~Denied(e) /\ ~Short(e) /\ queue' = Edited(e) /\ ctr' \in {Wanting(after), after}
      /\ payload' = PayloadOf(after, Edited(e), ctr["token"].next)
      /\ up' = up /\ page' = page /\ earlier' = earlier
  BY DEF Edit, file
<1>2. ctr \in [Kinds -> Counter] /\ "id" \in Kinds
      /\ ctr["id"].next \in Int /\ ctr["id"].durable \in Int
  BY Sorts DEF TypeOK, Kinds
<1>3. \A k \in Takes(e) \cap Kinds : ~Exhausted(ctr[k])
  BY <1>1 DEF Denied
<1>4. /\ after \in [Kinds -> Counter]
      /\ after["id"].next = IF "id" \in Takes(e) THEN ctr["id"].next + 1 ELSE ctr["id"].next
      /\ after["id"].durable = ctr["id"].durable
  BY <1>2, <1>3, TakenFacts
<1>5. "id" \in Takes(e) => ctr["id"].next <= ctr["id"].durable
  BY <1>1, <1>2, EditCovered
<1> HIDE DEF after
<1>6. ctr'["id"].next = after["id"].next /\ ctr'["id"].durable = after["id"].durable
  BY <1>1, <1>2, <1>4, WantingFacts
<1>7. \A id \in queue : id \in Int /\ id > 0 /\ id < ctr["id"].next /\ id <= ctr["id"].durable
  <2>1. queue \subseteq Value
    BY DEF TypeOK
  <2> QED BY <2>1 DEF QueueInv, Value
<1>8. ctr["id"].next > 0
  BY <1>2 DEF ValuesInv, AheadInv
<1>9. \A id \in Edited(e) : id > 0 /\ id < after["id"].next /\ id <= after["id"].durable
  <2>1. CASE e[1] = "insert"
    <3>1. "id" \in Takes(e) /\ Edited(e) = queue \cup {ctr["id"].next}
      BY <1>2, <2>1 DEF Takes, Edited
    <3>2. after["id"].next = ctr["id"].next + 1 /\ ctr["id"].next <= ctr["id"].durable
      BY <1>4, <1>5, <3>1
    <3> QED BY <1>2, <1>4, <1>7, <1>8, <3>1, <3>2
  <2>2. CASE e[1] # "insert"
    <3>1. Edited(e) \subseteq queue
      BY <2>2 DEF Edited
    <3>2. after["id"].next >= ctr["id"].next
      BY <1>2, <1>4
    <3>3. after["id"].next \in Int
      BY <1>2, <1>4
    <3> QED BY <1>2, <1>4, <1>7, <3>1, <3>2, <3>3
  <2> QED BY <2>1, <2>2
<1>10. Decodes(payload')
  BY <1>1, <1>9, PayloadDecodes
<1> QED BY <1>1, <1>6, <1>9, <1>10 DEF QueueInv, QueueLoads, Decodes

LEMMA ReserveDoneQueue == ASSUME TypeOK, QueueInv, ReserveDone PROVE QueueInv'
<1>1. UNCHANGED <<page, earlier, payload>> /\ UNCHANGED <<up, queue>>
  BY DEF ReserveDone, file
<1>2. ctr \in [Kinds -> Counter] /\ "id" \in Kinds
      /\ ctr["id"].durable \in Int /\ ctr["id"].want \in Int
  BY Sorts DEF TypeOK, Kinds
<1>3. /\ ctr'["id"].next = ctr["id"].next /\ ctr'["id"].durable >= ctr["id"].durable
      /\ ctr'["id"].durable \in Int
  <2>1. CASE write = "landed"
    <3>1. ctr'["id"].next = ctr["id"].next
          /\ ctr'["id"].durable = Larger(ctr["id"].durable, ctr["id"].want)
      BY <1>2, <2>1 DEF ReserveDone, Durable, Counter
    <3> QED BY <1>2, <3>1 DEF Larger
  <2>2. CASE write # "landed"
    BY <1>2, <2>2 DEF ReserveDone, Durable
  <2> QED BY <2>1, <2>2
<1>4. queue \subseteq Int
  <2>1. queue \subseteq Value
    BY DEF TypeOK
  <2> QED BY <2>1 DEF Value
<1>5. up' => \A id \in queue' : id > 0 /\ id < ctr'["id"].next /\ id <= ctr'["id"].durable
  <2>1. ASSUME up, NEW id \in queue
        PROVE  id > 0 /\ id < ctr'["id"].next /\ id <= ctr'["id"].durable
    <3>1. id \in Int /\ id > 0 /\ id < ctr["id"].next /\ id <= ctr["id"].durable
      BY <1>4, <2>1 DEF QueueInv
    <3> QED BY <1>2, <1>3, <3>1
  <2> QED BY <1>1, <2>1
<1> QED BY <1>1, <1>5 DEF QueueInv, QueueLoads, Decodes

LEMMA NextQueue == ASSUME TypeOK, ValuesInv, QueueInv, [Next]_vars PROVE QueueInv'
<1>1. CASE Start
  BY <1>1, StartQueue
<1>2. CASE Kill \/ PowerCut
  <2>1. up' = FALSE /\ payload' = None /\ page' \in {page, earlier} /\ earlier' \in {page, earlier}
    BY <1>2 DEF Kill, PowerCut, Ends, file
  <2> QED BY <2>1 DEF QueueInv, QueueLoads, Decodes
<1>3. CASE Spoil \/ OperatorMoves
  <2>1. page' \in {None, Bad} /\ earlier' \in {None, Bad}
    BY <1>3 DEF Spoil, OperatorMoves
  <2>2. payload' = payload /\ up' = up /\ queue' = queue /\ ctr' = ctr
    BY <1>3 DEF Spoil, OperatorMoves, values
  <2> QED BY <2>1, <2>2 DEF QueueInv, QueueLoads, Decodes
<1>4. CASE Drain
  <2>1. PICK c \in Controllers, left \in Seq(Controllers) :
          up /\ (Refuse(c, left) \/ Park(c, left) \/ Edit(c, left))
    <3>1. parked \in Seq(Controllers) /\ parked # <<>>
      BY <1>4 DEF TypeOK, Drain, Draining
    <3>2. Head(parked) \in Controllers /\ Tail(parked) \in Seq(Controllers)
      BY <3>1
    <3> QED BY <1>4, <3>1, <3>2 DEF Drain
  <2>2. CASE Refuse(c, left)
    BY <2>2, QuietQueue DEF Refuse, file, values
  <2>3. CASE Park(c, left)
    <3>1. UNCHANGED <<page, earlier, payload>> /\ UNCHANGED <<up, queue>>
          /\ ctr' \in {ctr, Wanting(ctr)}
      BY <2>3 DEF Park, file
    <3>2. ctr \in [Kinds -> Counter] /\ "id" \in Kinds
      BY DEF TypeOK, Kinds
    <3>3. ctr'["id"].next = ctr["id"].next /\ ctr'["id"].durable = ctr["id"].durable
      BY <3>1, <3>2, WantingFacts
    <3> QED BY <3>1, <3>3, QuietQueue
  <2> QED BY <2>1, <2>2, <2>3, EditQueue
<1>5. CASE ReserveDone
  BY <1>5, ReserveDoneQueue
<1>6. CASE SetRepeat
  <2>1. /\ payload' = PayloadOf(ctr, queue, token) /\ up /\ up' = up /\ ctr' = ctr /\ queue' = queue
        /\ page' = page /\ earlier' = earlier
    BY <1>6 DEF SetRepeat, file
  <2>2. Decodes(payload')
    BY <2>1, PayloadDecodes DEF QueueInv
  <2> QED BY <2>1, <2>2 DEF QueueInv, QueueLoads, Decodes
<1>7. CASE WriteQueue
  <2>1. /\ payload # None /\ page' = payload /\ earlier' \in {page, payload}
        /\ payload' = payload /\ up' = up /\ queue' = queue /\ ctr' = ctr
    BY <1>7 DEF WriteQueue, values
  <2> QED BY <2>1 DEF QueueInv, QueueLoads, Decodes
<1>8. CASE Write \/ TimerFires \/ ReserveOverdue \/ UNCHANGED vars
  BY <1>8, QuietQueue DEF Write, TimerFires, ReserveOverdue, vars, file, values
<1>9. ASSUME NEW c \in Controllers, NEW e \in Sensible, Ask(c, e) PROVE QueueInv'
  BY <1>9, QuietQueue DEF Ask, file, values
<1> QED BY <1>1, <1>2, <1>3, <1>4, <1>5, <1>6, <1>7, <1>8, <1>9 DEF Next, Owner

\* Every queue file this writer makes loads again, whatever write of its own the
\* reservation lost or never made (decodeQueue).
THEOREM PlayerIDsQueueLoads == Spec => []QueueLoads
<1>1. Init => IDsInv
  BY InitType, InitValues, InitQueue DEF IDsInv
<1>2. IDsInv /\ [Next]_vars => IDsInv'
  BY NextType, NextValues, NextQueue DEF IDsInv
<1>3. IDsInv => QueueLoads
  BY DEF IDsInv, QueueInv
<1> QED BY <1>1, <1>2, <1>3, PTL DEF Spec
=============================================================================
