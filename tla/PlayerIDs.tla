------------------------------ MODULE PlayerIDs ------------------------------
(***************************************************************************)
(* The IDs of the player's queue entries and the tokens of its queue,      *)
(* which no run may ever hand out twice.  A run hands out a value only     *)
(* inside a reservation that is durable, written a block at a time to a    *)
(* file of its own, on a goroutine of its own; the queue file follows      *)
(* later, and neither survives a power cut for certain.  An edit that      *)
(* needs a value no reservation covers waits for the write, and no longer  *)
(* than ReserveTimeout: a write may never return.                          *)
(*                                                                         *)
(* The owner handles one command or message at a time and then runs the    *)
(* edits that waited.  Those are steps of their own here, taken before     *)
(* anything else the owner does; only the disk and a crash come between.   *)
(***************************************************************************)
EXTENDS Integers, Sequences, FiniteSets

CONSTANTS
  Controllers,  \* the callers of edits, each with one at a time
  Block,        \* idBlock
  Last,         \* the last value a uint32 holds
  MaxEntries,   \* MaxEntries
  None,         \* no file, no edit
  Bad           \* a queue file that does not decode

ASSUME NumbersAssumption ==
  Block \in Nat \ {0} /\ Last \in Nat /\ MaxEntries \in Nat
ASSUME NamesAssumption == None # Bad

VARIABLES
  floor,        \* the reservation file: the values reserved, of each kind
  survivors,    \* the contents of it that a power cut can leave
  lost,         \* history: storage acknowledged a reservation and did not keep it
  page,         \* the queue file
  earlier,      \* what a power cut can leave in its place
  up,           \* an engine runs
  ctr,          \* reservation.ids and reservation.tokens
  write,        \* reservation.inflight, and how far the goroutine got
  awaiting,     \* reservation.awaiting: the bound is armed
  overdue,      \* reservation.overdue
  failed,       \* reservation.failed
  refuseParked, \* reservation.refuseParked
  notices,      \* msgReserveOverdue posted: of this wait, or of one before it
  stuck,        \* reservation.stuckQueue
  queue,        \* the IDs of the entries
  token,        \* owner.token: 0 while no reservation of the run landed
  payload,      \* the writer's latest revision
  edit,         \* the edit of each controller that was not answered yet
  parked,       \* owner.parked
  used,         \* history: the values ever handed out, of each kind
  repeats       \* history: those handed out again

disk   == <<floor, survivors, lost>>
file   == <<page, earlier>>
waits  == <<awaiting, overdue, failed, refuseParked, notices>>
values == <<ctr, queue, token, payload, used, repeats>>
edits  == <<edit, parked>>
vars   == <<disk, file, up, write, waits, stuck, values, edits>>

Kinds == {"id", "token"}
Value == 0..Last

\* The end of a uint32 is a value next can name.
Counter == [next : 0..Last + 1, durable : Value, want : Value]
Payload == [next : 0..Last + 1, reserved : Value, tokenReserved : Value,
            token : Value, entries : SUBSET Value]
Asked   == {<<"insert">>, <<"deleteAll">>} \cup {<<"delete", id>> : id \in Value}

TypeOK ==
  /\ floor \in [Kinds -> Value] /\ survivors \subseteq [Kinds -> Value]
  /\ lost \in BOOLEAN
  /\ page \in Payload \cup {None, Bad} /\ earlier \in Payload \cup {None, Bad}
  /\ up \in BOOLEAN
  /\ ctr \in [Kinds -> Counter]
  /\ write \in {"none", "under way", "landed", "failed"}
  /\ awaiting \in BOOLEAN /\ overdue \in BOOLEAN
  /\ failed \in BOOLEAN /\ refuseParked \in BOOLEAN
  /\ notices \subseteq {"this wait", "earlier wait"}
  /\ stuck \in BOOLEAN
  /\ queue \subseteq Value /\ token \in Value
  /\ payload \in Payload \cup {None}
  /\ edit \in [Controllers -> Asked \cup {None}]
  /\ parked \in Seq(Controllers)
  /\ used \in [Kinds -> SUBSET Value] /\ repeats \in [Kinds -> SUBSET Value]

Unused  == [next |-> 0, durable |-> 0, want |-> 0]

\* The player's identity was minted, with an empty floor, and no engine ran yet.
Init ==
  /\ floor = [k \in Kinds |-> 0] /\ survivors = {floor} /\ lost = FALSE
  /\ page = None /\ earlier = None
  /\ up = FALSE /\ write = "none" /\ ctr = [k \in Kinds |-> Unused]
  /\ awaiting = FALSE /\ overdue = FALSE /\ failed = FALSE /\ refuseParked = FALSE
  /\ notices = {} /\ stuck = FALSE
  /\ queue = {} /\ token = 0 /\ payload = None
  /\ edit = [c \in Controllers |-> None] /\ parked = <<>>
  /\ used = [k \in Kinds |-> {}] /\ repeats = used
-----------------------------------------------------------------------------
Larger(a, b)  == IF a >= b THEN a ELSE b
Smaller(a, b) == IF a <= b THEN a ELSE b

\* Mutant: a start begins where the reservations that survived end.
StartWithoutMargin(base) == [next |-> base + 1, durable |-> base, want |-> base]

\* Mutant: a start takes nothing as reserved until its own reservation is.
StartFromNothing(base) == [next |-> base + Block + 1, durable |-> 0, want |-> 0]

\* startCounter
StartCounter(base) == [next |-> base + Block + 1, durable |-> base, want |-> base]

\* Mutant: a reservation runs past the last value.
TargetPast(c) == Larger(c.durable, c.next - 1) + Block

\* counter.exhausted, needs, low, target
Exhausted(c) == c.next > Last
Needs(c)     == c.next > c.durable
Low(c)       == c.durable < c.next - 1 + Block /\ c.durable < Last
Target(c)    == Smaller(Larger(c.durable, c.next - 1) + Block, Last)

\* mergeReservation
Merged(want) == [k \in Kinds |-> Larger(floor[k], want[k])]

\* A reservation write does nothing, renames the file and does not get the
\* directory's sync, or lands; and once storage answers the sync and does not keep
\* it: a write of a run that has a reservation already, which startCounter's margin
\* reaches past (a run's first begins past that margin itself).
FailsWhole(want) == UNCHANGED disk
RenamesUnsynced(want) ==
  /\ floor' = Merged(want)
  /\ survivors' = survivors \cup {Merged(want)}
  /\ UNCHANGED lost
Keeps(want) ==
  /\ floor' = Merged(want)
  /\ survivors' = {Merged(want)}
  /\ UNCHANGED lost
Loses(want) ==
  /\ token # 0
  /\ ~lost /\ lost' = TRUE
  /\ floor' = Merged(want)
  /\ survivors' = survivors \cup {Merged(want)}
Fails(want) == FailsWhole(want) \/ RenamesUnsynced(want)

\* counter.take, for the kinds K; used and repeats follow.
Taken(cs, K) == [k \in Kinds |-> IF k \in K THEN [cs[k] EXCEPT !.next = @ + 1] ELSE cs[k]]
HandOut(cs, K) ==
  /\ used'    = [k \in Kinds |-> IF k \in K THEN used[k] \cup {cs[k].next} ELSE used[k]]
  /\ repeats' = [k \in Kinds |-> IF k \in K THEN repeats[k] \cup ({cs[k].next} \cap used[k])
                                            ELSE repeats[k]]

\* reserveWrite: what the write will cover.
Wanting(cs) ==
  [k \in Kinds |-> [cs[k] EXCEPT !.want = IF Low(cs[k]) \/ Needs(cs[k]) THEN Target(cs[k])
                                                                        ELSE cs[k].durable]]
Wants == [k \in Kinds |-> ctr[k].want]

\* payload: the file a revision will be.
PayloadOf(cs, ids, tok) ==
  [next |-> cs["id"].next, reserved |-> cs["id"].durable,
   tokenReserved |-> cs["token"].durable, token |-> tok, entries |-> ids]

\* decodeQueue: every entry was handed out, inside its reservation.
Decodes(p) == \A id \in p.entries : id > 0 /\ id < p.next /\ id <= p.reserved

-----------------------------------------------------------------------------
\* loadQueue: a file that does not decode is as good as none.
Readable == page \notin {None, Bad} /\ Decodes(page)

\* start: where a run's values begin.
Base == [k \in Kinds |->
  IF ~Readable THEN floor[k]
  ELSE IF k = "id" THEN Larger(floor[k], Larger(page.reserved, page.next - 1))
                   ELSE Larger(floor[k], Larger(page.tokenReserved, page.token))]
Fresh  == [k \in Kinds |-> StartCounter(Base[k])]
First  == [k \in Kinds |-> Target(Fresh[k])]
Loaded == IF Readable THEN page.entries ELSE {}

\* loadQueue: a bad queue file is moved aside, or stays and stops the edits.
LoadQueue ==
  \/ (Readable \/ page = None) /\ UNCHANGED file /\ stuck' = FALSE
  \/ ~Readable /\ page # None /\ page' = None /\ earlier' = None /\ stuck' = FALSE
  \/ ~Readable /\ page # None /\ UNCHANGED file /\ stuck' = TRUE

\* start: the run's reservation landed, and its token is published.
StartReserved ==
  LET covered == [k \in Kinds |-> [Fresh[k] EXCEPT !.durable = First[k]]] IN
  /\ Keeps(First)
  /\ ctr' = Taken(covered, {"token"}) /\ HandOut(covered, {"token"})
  /\ token' = covered["token"].next
  /\ failed' = FALSE

\* start: the run's reservation failed, and there is no token yet.
StartUnreserved ==
  /\ Fails(First)
  /\ ctr' = Fresh
  /\ token' = 0
  /\ failed' = TRUE
  /\ UNCHANGED <<used, repeats>>

Start ==
  /\ ~up /\ up' = TRUE
  /\ \A k \in Kinds : ~Exhausted(Fresh[k])
  /\ LoadQueue
  /\ queue' = Loaded
  /\ StartReserved \/ StartUnreserved
  /\ UNCHANGED <<payload, write, awaiting, overdue, refuseParked, notices, edits>>

\* What ends with the process.
Ends ==
  /\ up /\ up' = FALSE
  /\ ctr' = [k \in Kinds |-> Unused] /\ queue' = {} /\ token' = 0 /\ payload' = None
  /\ write' = "none" /\ awaiting' = FALSE /\ overdue' = FALSE
  /\ failed' = FALSE /\ refuseParked' = FALSE /\ notices' = {} /\ stuck' = FALSE
  /\ edit' = [c \in Controllers |-> None] /\ parked' = <<>>
  /\ UNCHANGED <<used, repeats>>

\* The process stops, whatever was under way.
Kill == Ends /\ UNCHANGED <<disk, file>>

\* The power fails.
PowerCut ==
  /\ Ends
  /\ \E f \in survivors : floor' = f /\ survivors' = {f}
  /\ page' \in {page, earlier} /\ earlier' = page'
  /\ UNCHANGED lost

\* The queue file of a stopped player goes bad, or is another identity's.
Spoil ==
  /\ ~up /\ page # Bad
  /\ page' = Bad /\ earlier' = Bad
  /\ UNCHANGED <<disk, up, write, waits, stuck, values, edits>>

\* The operator moves the bad file away.
OperatorMoves ==
  /\ stuck /\ page = Bad
  /\ page' = None /\ earlier' = None
  /\ UNCHANGED <<disk, up, write, waits, stuck, values, edits>>
-----------------------------------------------------------------------------
\* runnable: a parked edit that nothing blocks now.
Draining == parked # <<>> /\ ~awaiting

\* drainParked: it clears refuseParked once it is through and nothing is awaited.
StillRefusing(r, left, aw) == r /\ (aw \/ left # <<>>)

\* The owner answers c, and those in left wait on.
Answer(c, left) ==
  /\ edit' = [edit EXCEPT ![c] = None]
  /\ parked' = left
  /\ refuseParked' = StillRefusing(refuseParked, left, awaiting)

\* insert, delete, deleteAll: refused, or nothing to do, before a value is asked for.
Pointless(e) ==
  \/ e[1] = "insert" /\ Cardinality(queue) >= MaxEntries
  \/ e[1] = "delete" /\ e[2] \notin queue
  \/ e[1] = "deleteAll" /\ queue = {}

\* What the edit takes, and what is left of the queue.
Takes(e) == IF e[1] = "insert" THEN Kinds ELSE {"token"}
Edited(e) ==
  CASE e[1] = "insert"    -> queue \cup {ctr["id"].next}
    [] e[1] = "delete"    -> queue \ {e[2]}
    [] OTHER              -> {}

\* values: stuckQueue, unless the file is gone.
StillStuck == stuck /\ page = Bad
Denied(e) ==
  \/ StillStuck
  \/ \E k \in Takes(e) : Exhausted(ctr[k])
Short(e) == \E k \in Takes(e) : Needs(ctr[k])
GivesUp  == overdue \/ (refuseParked /\ failed)

\* The edit is answered and takes nothing.
Refuse(c, left) ==
  /\ \/ Pointless(edit[c]) /\ UNCHANGED stuck
     \/ /\ ~Pointless(edit[c])
        /\ Denied(edit[c]) \/ (Short(edit[c]) /\ GivesUp)
        /\ stuck' = StillStuck
  /\ Answer(c, left)
  /\ UNCHANGED <<disk, file, up, write, awaiting, overdue, failed, notices, values>>

\* values: the edit waits for the write, which is started when none is under way.
Park(c, kept) ==
  /\ ~Pointless(edit[c]) /\ ~Denied(edit[c]) /\ Short(edit[c]) /\ ~GivesUp
  /\ stuck' = StillStuck
  /\ IF write = "none" THEN write' = "under way" /\ ctr' = Wanting(ctr)
                       ELSE UNCHANGED <<write, ctr>>
  /\ awaiting' = TRUE
  /\ notices' = IF notices = {} THEN {} ELSE {"earlier wait"}
  /\ parked' = kept
  /\ refuseParked' = StillRefusing(refuseParked, kept, TRUE)
  /\ UNCHANGED <<disk, file, up, overdue, failed, queue, token, payload, used, repeats, edit>>

\* The edit is made, and the next block reserved ahead.
Edit(c, left) ==
  LET e == edit[c]
      after == Taken(ctr, Takes(e))
      low == write = "none" /\ ~failed /\ \E k \in Kinds : Low(after[k])
  IN
  /\ ~Pointless(e) /\ ~Denied(e) /\ ~Short(e)
  /\ stuck' = StillStuck
  /\ HandOut(ctr, Takes(e))
  /\ queue' = Edited(e)
  /\ token' = ctr["token"].next
  /\ payload' = PayloadOf(after, Edited(e), ctr["token"].next)
  /\ ctr' = IF low THEN Wanting(after) ELSE after
  /\ write' = IF low THEN "under way" ELSE write
  /\ Answer(c, left)
  /\ UNCHANGED <<disk, file, up, awaiting, overdue, failed, notices>>

\* drainParked, one edit at a time; one that parks again keeps its place.
Drain ==
  /\ up /\ Draining
  /\ LET c == Head(parked) IN Refuse(c, Tail(parked)) \/ Park(c, parked) \/ Edit(c, Tail(parked))

\* admit: an edit reaches the owner and waits its turn, which has come already
\* when nothing is awaited.
Ask(c, e) ==
  /\ up /\ ~Draining
  /\ edit[c] = None
  /\ edit' = [edit EXCEPT ![c] = e]
  /\ parked' = Append(parked, c)
  /\ UNCHANGED <<disk, file, up, write, waits, stuck, values>>

\* An edit names an entry its controller read in a snapshot.
Sensible == {<<"insert">>, <<"deleteAll">>} \cup {<<"delete", id>> : id \in queue}

\* setRepeat: a revision of the queue file that takes no value.
SetRepeat ==
  /\ up /\ ~Draining
  /\ payload' = PayloadOf(ctr, queue, token)
  /\ UNCHANGED <<disk, file, up, write, waits, stuck, ctr, queue, token, used, repeats, edits>>
-----------------------------------------------------------------------------
\* reserve: the goroutine of a reservation write.
WriteLands == write = "under way" /\ write' = "landed" /\ (Keeps(Wants) \/ Loses(Wants))
WriteFails == write = "under way" /\ write' = "failed" /\ Fails(Wants)
Write ==
  /\ WriteLands \/ WriteFails
  /\ UNCHANGED <<file, up, waits, stuck, values, edits>>

\* reserveDone: what a write made durable.
Durable ==
  ctr' = IF write = "landed"
         THEN [k \in Kinds |-> [ctr[k] EXCEPT !.durable = Larger(@, ctr[k].want)]] ELSE ctr

\* reserveDone: the write's result, and the edits that waited run, or are refused.
ReserveDone ==
  /\ write \in {"landed", "failed"} /\ ~Draining
  /\ write' = "none" /\ awaiting' = FALSE /\ overdue' = FALSE
  /\ Durable
  /\ failed' = (write = "failed")
  /\ refuseParked' = StillRefusing(refuseParked \/ write = "failed", parked, FALSE)
  /\ UNCHANGED <<disk, file, up, notices, stuck, queue, token, payload, used, repeats, edits>>

\* The bound of a wait passes.
TimerFires ==
  /\ awaiting /\ "this wait" \notin notices
  /\ notices' = notices \cup {"this wait"}
  /\ UNCHANGED <<disk, file, up, write, awaiting, overdue, failed, refuseParked, stuck, values, edits>>

\* Mutant: the edits that waited run, and wait again.
WaitsAgain ==
  /\ awaiting' = FALSE /\ failed' = TRUE
  /\ UNCHANGED <<overdue, refuseParked>>

\* reserveOverdue: the edits that waited are refused, and those that come.
GiveUp ==
  /\ awaiting' = FALSE /\ overdue' = TRUE /\ failed' = TRUE
  /\ refuseParked' = StillRefusing(TRUE, parked, FALSE)

\* reserveOverdue, of this wait or, which does nothing, of another.
ReserveOverdue ==
  /\ up /\ ~Draining
  /\ \E n \in notices :
       /\ notices' = notices \ {n}
       /\ IF n = "this wait" /\ awaiting THEN GiveUp
          ELSE UNCHANGED <<awaiting, overdue, failed, refuseParked>>
  /\ UNCHANGED <<disk, file, up, write, stuck, values, edits>>

\* writer.write: the newest revision, which a power cut may still undo.
WriteQueue ==
  /\ ~stuck
  /\ payload # None /\ payload # page
  /\ page' = payload
  /\ earlier' \in {page, payload}
  /\ UNCHANGED <<disk, up, write, waits, stuck, values, edits>>

-----------------------------------------------------------------------------
Owner == Drain \/ ReserveDone \/ ReserveOverdue

Next ==
  \/ Start \/ Kill \/ PowerCut \/ Spoil \/ OperatorMoves
  \/ Owner \/ SetRepeat \/ Write \/ TimerFires \/ WriteQueue
  \/ \E c \in Controllers, e \in Sensible : Ask(c, e)

Spec == Init /\ [][Next]_vars

\* The owner handles what waits for it, and clocks run; a write may hang.
Fairness == WF_vars(Drain) /\ WF_vars(ReserveDone) /\ WF_vars(TimerFires) /\ WF_vars(ReserveOverdue)

FairSpec == Spec /\ Fairness
-----------------------------------------------------------------------------
(***************************************************************************)
(* Properties                                                              *)
(***************************************************************************)

\* No run hands out an ID or a token that any run handed out before, whatever
\* write failed, hung or was undone by a power cut in between, and with one write,
\* not a run's first, that storage acknowledged and did not keep (reserve.go: a
\* counter hands out "never a value any run has handed out").
NothingTwice == \A k \in Kinds : repeats[k] = {}

\* Every revision of the queue file loads again: no entry lies past the next ID
\* or outside the reservation the revision names, in a run whose own reservation
\* failed too (decodeQueue would have it moved aside, and the queue be gone).
QueueLoads ==
  /\ payload # None => Decodes(payload)
  /\ page \notin {None, Bad} => Decodes(page)

\* An edit is answered, though the write it waits for never returns
\* (ReserveTimeout).
EditsAreAnswered == \A c \in Controllers : edit[c] # None ~> edit[c] = None
=============================================================================
