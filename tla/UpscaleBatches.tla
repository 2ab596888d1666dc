---------------------------- MODULE UpscaleBatches ----------------------------
(***************************************************************************)
(* transcode.Coordinator over the pool: batches that are submitted file by *)
(* file, hear of their jobs from the pool's publisher, and are kept in rows*)
(* of upscale_batches that outlive the process.                            *)
(*                                                                         *)
(* The row in memory changes under the coordinator's mutex and its copy is *)
(* written after, outside it: writes of the publisher, of a submission and *)
(* of a cancellation land in any order.  A write that fails is not modelled*)
(* (it is logged and not tried again).                                     *)
(***************************************************************************)
EXTENDS TranscodePool, FiniteSets

CONSTANTS
  Files,     \* the candidates of each batch, in their order
  LaneOf     \* the lane of each batch's jobs

ASSUME BatchAssumption ==
  /\ Files \in [Batches -> Seq(Paths)]
  /\ \A b \in Batches : IsInjective(Files[b])
  /\ LaneOf \in [Batches -> Lanes]

VARIABLES
  submit,    \* where the submission of a batch is
  next,      \* the file it offers next
  enqueued,  \* the files the pool took from it
  row,       \* batchState: Row, RemainingIDs and DroppedFiles
  live,      \* the batches of liveBatches
  pending,   \* what each writer has copied and not written yet
  db         \* the rows of upscale_batches

batchVars == <<submit, next, enqueued, row, live, pending, db>>
vars      == <<poolVars, batchVars>>

Ended    == {"completed", "failed", "cancelled", "interrupted"}
Statuses == {"none", "pending", "running"} \cup Ended
Counts   == [status : Statuses, total : Nat, processed : Nat, failed : Nat]
Absent   == [status |-> "none", total |-> 0, processed |-> 0, failed |-> 0]
NewState == [counts |-> Absent, remaining |-> {}, dropped |-> 0]

\* Who writes rows: the publisher, and each batch's submission and cancellation.
Publisher == <<"publisher", NoBatch>>
Writers   == {Publisher} \cup ({"submit", "cancel"} \X Batches)
Nothing   == [form |-> "none"]

Init ==
  /\ PoolInit
  /\ submit   = [b \in Batches |-> "idle"]
  /\ next     = [b \in Batches |-> 1]
  /\ enqueued = [b \in Batches |-> 0]
  /\ row      = [b \in Batches |-> NewState]
  /\ db       = [b \in Batches |-> Absent]
  /\ pending  = [a \in Writers |-> Nothing]
  /\ live     = {}

TypeOK ==
  /\ PoolTypeOK
  /\ submit   \in [Batches -> {"idle", "enrolled", "offering", "duplicate", "refused", "draining", "over"}]
  /\ next     \in [Batches -> Nat \ {0}]
  /\ enqueued \in [Batches -> Nat]
  /\ row      \in [Batches -> [counts : Counts, remaining : SUBSET Paths, dropped : Nat]]
  /\ db       \in [Batches -> Counts]
  /\ pending  \in [Writers -> [form : {"progress", "status"}, batch : Batches, counts : Counts]
                                \cup {Nothing}]
  /\ live     \subseteq Batches

-----------------------------------------------------------------------------
\* The copy of a row is to be written by its writer.
Writes(a, form, b, counts) ==
  pending' = [pending EXCEPT ![a] = [form |-> form, batch |-> b, counts |-> counts]]

\* Mutant: the total stays as it was inserted.
TotalNotWritten(old, w) ==
  [w.counts EXCEPT !.total     = old.total,
                   !.processed = IF w.form = "progress" THEN @ ELSE old.processed,
                   !.failed    = IF w.form = "progress" THEN @ ELSE old.failed]

\* The row that SQL leaves: the smaller total, and the counters with the progress form.
Landed(old, w) ==
  [w.counts EXCEPT !.total     = IF old.total > @ THEN @ ELSE old.total,
                   !.processed = IF w.form = "progress" THEN @ ELSE old.processed,
                   !.failed    = IF w.form = "progress" THEN @ ELSE old.failed]

\* Mutant: the terminal status does not protect the row.
AnyStatus(counts) == TRUE

\* Both statements' WHERE: a row that has ended is not written any more.
Writable(counts) == counts.status \notin Ended

\* UpdateUpscaleBatchProgress and UpdateUpscaleBatchStatus.
Persist(a) ==
  /\ pending[a] # Nothing
  /\ LET b == pending[a].batch
     IN  db' = IF Writable(db[b]) THEN [db EXCEPT ![b] = Landed(@, pending[a])] ELSE db
  /\ pending' = [pending EXCEPT ![a] = Nothing]
  /\ UNCHANGED <<poolVars, submit, next, enqueued, row, live>>

\* settle: a batch the pool dropped files of is cancelled, whatever the verdict.
Settle(state, verdict) == IF state.dropped = 0 THEN verdict ELSE "cancelled"

\* transitionStatus: nothing for a batch that is not live.
Transition(a, b, status) ==
  IF b \in live
  THEN LET counts == [row[b].counts EXCEPT !.status = status]
       IN  /\ row'  = [row EXCEPT ![b].counts = counts]
           /\ live' = IF status \in Ended THEN live \ {b} ELSE live
           /\ Writes(a, "status", b, counts)
  ELSE UNCHANGED <<row, live, pending>>

-----------------------------------------------------------------------------
\* A submission goes on once its own write is done.
Free2Go(b) == pending[<<"submit", b>>] = Nothing

\* InsertUpscaleBatch and the entry in liveBatches.
Enroll(b) ==
  /\ submit[b] = "idle"
  /\ submit' = [submit EXCEPT ![b] = "enrolled"]
  /\ LET counts == [Absent EXCEPT !.status = "pending", !.total = Len(Files[b])]
     IN  /\ row' = [row EXCEPT ![b] = [NewState EXCEPT !.counts = counts,
                                                       !.remaining = ToSet(Files[b])]]
         /\ db'  = [db EXCEPT ![b] = counts]
  /\ live' = live \cup {b}
  /\ UNCHANGED <<poolVars, next, enqueued, pending>>

\* To running; a batch without candidates is complete.
Promote(b) ==
  /\ submit[b] = "enrolled"
  /\ submit' = [submit EXCEPT ![b] = IF Files[b] = <<>> THEN "over" ELSE "offering"]
  /\ Transition(<<"submit", b>>, b, IF Files[b] = <<>> THEN "completed" ELSE "running")
  /\ UNCHANGED <<poolVars, next, enqueued, db>>

\* The next file is offered to the pool.
Offer(b) ==
  /\ submit[b] = "offering" /\ Free2Go(b) /\ next[b] <= Len(Files[b])
  /\ LET p == Files[b][next[b]]
         l == LaneOf[b]
     IN  \/ /\ Accept(p, l, b)
            /\ enqueued' = [enqueued EXCEPT ![b] = @ + 1]
            /\ next'     = [next EXCEPT ![b] = @ + 1]
            /\ UNCHANGED submit
         \/ /\ Duplicate(p, l)
            /\ submit' = [submit EXCEPT ![b] = "duplicate"]
            /\ UNCHANGED <<poolVars, next, enqueued>>
         \/ /\ Full(p, l) \/ Closed(p, l)
            /\ submit' = [submit EXCEPT ![b] = "refused"]
            /\ UNCHANGED <<poolVars, next, enqueued>>
  /\ UNCHANGED <<row, live, pending, db>>

\* Mutant: a file that was deduplicated stays in the total.
TotalKept(total) == total

\* The total without the file that was deduplicated.
LessOne(total) == IF total > 0 THEN total - 1 ELSE total

\* dropDedupedPath: the job under way is another's, and will not call back.
DropDedupedPath(b) ==
  /\ submit[b] = "duplicate"
  /\ submit' = [submit EXCEPT ![b] = "offering"]
  /\ next'   = [next EXCEPT ![b] = @ + 1]
  /\ row' = IF b \in live
            THEN [row EXCEPT ![b].remaining = @ \ {Files[b][next[b]]},
                             ![b].counts.total = LessOne(@)]
            ELSE row
  /\ UNCHANGED <<poolVars, enqueued, live, pending, db>>

\* The total of a batch cut short: the files the pool took.
TruncatedTotal(b) == enqueued[b]

\* The pool is full or closed: the files from this one on are dropped from the batch.
Truncate(b) ==
  /\ submit[b] = "refused"
  /\ submit' = [submit EXCEPT ![b] = "draining"]
  /\ IF b \in live
     THEN LET rest   == row[b].remaining \ ToSet(SubSeq(Files[b], next[b], Len(Files[b])))
              counts == [row[b].counts EXCEPT
                           !.total  = TruncatedTotal(b),
                           !.status = IF rest = {} THEN Settle(row[b], "failed") ELSE @]
          IN  /\ row'  = [row EXCEPT ![b].remaining = rest, ![b].counts = counts]
              /\ live' = IF rest = {} THEN live \ {b} ELSE live
              /\ Writes(<<"submit", b>>, "progress", b, counts)
     ELSE UNCHANGED <<row, live, pending>>
  /\ UNCHANGED <<poolVars, next, enqueued, db>>

\* Mutant: only a batch with every file deduplicated is complete here.
AllDeduped(b) == b \in live /\ row[b].remaining = {} /\ enqueued[b] = 0

\* Nobody will call back any more, and nobody has ended the batch.
Drained(b) == b \in live /\ row[b].remaining = {}

\* completeIfDrained, once the loop is over.
CompleteIfDrained(b) ==
  /\ Free2Go(b)
  /\ submit[b] = "draining" \/ (submit[b] = "offering" /\ next[b] > Len(Files[b]))
  /\ submit' = [submit EXCEPT ![b] = "over"]
  /\ IF Drained(b) THEN Transition(<<"submit", b>>, b, Settle(row[b], "completed"))
     ELSE UNCHANGED <<row, live, pending>>
  /\ UNCHANGED <<poolVars, next, enqueued, db>>

\* Cancel: the batch is not followed any more; its jobs run on.
Cancel(b) ==
  /\ b \in live
  /\ Transition(<<"cancel", b>>, b, "cancelled")
  /\ UNCHANGED <<poolVars, submit, next, enqueued, db>>

-----------------------------------------------------------------------------
\* The verdict of the last callback: failed when every file failed.
Verdict(o, counts) == IF o = "failed" /\ counts.failed = counts.total THEN "failed" ELSE "completed"

\* A callback moves the counter of its outcome, and takes the file off the batch.
Counted(o, b, p) ==
  LET counts == [row[b].counts EXCEPT !.processed = IF o = "done" THEN @ + 1 ELSE @,
                                      !.failed    = IF o = "failed" THEN @ + 1 ELSE @]
      state  == [counts    |-> counts,
                 remaining |-> row[b].remaining \ {p},
                 dropped   |-> row[b].dropped + (IF o = "dropped" THEN 1 ELSE 0)]
  IN  IF state.remaining = {}
      THEN [state EXCEPT !.counts.status = Settle(state, Verdict(o, counts))]
      ELSE state

\* A batch that is gone hears nothing, nor one that does not wait for the dropped file.
Heard(o, e) ==
  /\ e.batch \in live
  /\ o = "dropped" => e.path \in row[e.batch].remaining

\* OnJobComplete, OnJobFailed and OnJobDropped, on the publisher's goroutine.  A drop
\* writes the row only when it ends the batch.
OnJob(o) ==
  /\ pending[Publisher] = Nothing
  /\ Receive(o)
  /\ LET e == Head(channel[o])
         b == e.batch
     IN  IF Heard(o, e)
         THEN LET state == Counted(o, b, e.path)
              IN  /\ row'  = [row EXCEPT ![b] = state]
                  /\ live' = IF state.remaining = {} THEN live \ {b} ELSE live
                  /\ IF o # "dropped" \/ state.remaining = {}
                     THEN Writes(Publisher, "progress", b, state.counts)
                     ELSE UNCHANGED pending
         ELSE UNCHANGED <<row, live, pending>>
  /\ UNCHANGED <<submit, next, enqueued, db>>

\* The process ends, stopped or not, and starts: RecoverInterruptedBatches comes
\* before anything else.
Restart ==
  /\ lane'     = [l \in Lanes |-> <<>>]
  /\ inflight' = [p \in Paths |-> Free]
  /\ work'     = [w \in Workers |-> Idle]
  /\ channel'  = [o \in Outcomes |-> <<>>]
  /\ claimSeq' = 0 /\ disowned' = {} /\ closed' = FALSE /\ live' = {}
  /\ submit'   = [b \in Batches |-> IF submit[b] = "idle" THEN "idle" ELSE "over"]
  /\ next'     = [b \in Batches |-> 1]
  /\ enqueued' = [b \in Batches |-> 0]
  /\ row'      = [b \in Batches |-> NewState]
  /\ pending'  = [a \in Writers |-> Nothing]
  /\ db'       = [b \in Batches |-> IF db[b].status \in {"pending", "running"}
                                    THEN [db[b] EXCEPT !.status = "interrupted"] ELSE db[b]]

Submission(b) == Promote(b) \/ Offer(b) \/ DropDedupedPath(b) \/ Truncate(b) \/ CompleteIfDrained(b)
Callbacks     == \E o \in Outcomes : OnJob(o)
PoolAlone     == \/ \E w \in Workers : Worker(w)
                 \/ \E p \in Paths, l \in Lanes : EnqueueOne(p, l)
                 \/ \E sources \in SUBSET Paths : DropInflight(sources)
                 \/ Stop

Next ==
  \/ PoolAlone /\ UNCHANGED batchVars
  \/ \E b \in Batches : Enroll(b) \/ Submission(b) \/ Cancel(b)
  \/ Callbacks
  \/ \E a \in Writers : Persist(a)
  \/ Restart

Spec == Init /\ [][Next]_vars

\* The goroutines go on, and the writes of the store return.
Fairness ==
  /\ \A w \in Workers : WF_vars(Worker(w) /\ UNCHANGED batchVars)
  /\ \A b \in Batches : WF_vars(Submission(b))
  /\ \A a \in Writers : WF_vars(Persist(a))
  /\ WF_vars(Callbacks)

FairSpec == Spec /\ Fairness

-----------------------------------------------------------------------------
(***************************************************************************)
(* Properties                                                              *)
(***************************************************************************)

\* The files a batch may still be told of: jobs under way, jobs counted, and events.
Expected(b) ==
  {job.path : job \in {j \in Unfinished : j.batch = b}}
    \cup {work[w].job.path : w \in {v \in Workers : work[v].stage = "counted" /\ work[v].job.batch = b}}
    \cup {e.path : e \in {x \in UNION {ToSet(channel[o]) : o \in Outcomes} : x.batch = b}}

\* The files the submission has not settled yet.
NotOffered(b) == IF submit[b] \in {"draining", "over"} THEN {}
                 ELSE ToSet(SubSeq(Files[b], next[b], Len(Files[b])))

\* A live batch waits for files somebody will tell it of, and for no others, and its
\* counters and what it waits for make up its total: whatever was deduplicated,
\* dropped or cut short, and in whatever order.  A pool that stops tells of none.
BatchesAddUp ==
  \A b \in live :
    /\ row[b].counts.total = row[b].counts.processed + row[b].counts.failed + row[b].dropped
                               + Cardinality(row[b].remaining)
    /\ row[b].remaining = NotOffered(b) \cup Expected(b) \/ closed
    /\ submit[b] = "over" => row[b].remaining # {}

\* The row that stays is that of the batch's end: its verdict and its total
\* (UpdateUpscaleBatchStatus: "the value is authoritative at each site").
VerdictIsPersisted ==
  \A b \in Batches :
    db[b].status \in Ended \ {"interrupted"} /\ row[b] # NewState
      => db[b].status = row[b].counts.status /\ db[b].total = row[b].counts.total

EndedRowsKept == \A b \in Batches : db[b].status \in Ended => db'[b] = db[b]

\* A row that has ended is never written again, by a late copy of it or otherwise
\* (UpdateUpscaleBatchProgress: "must not resurrect a batch").
EndedRowsStay == [][EndedRowsKept]_vars

\* Every batch ends, in its row: whoever deduplicates, drops, fails or cancels, and
\* by a restart if by nothing else.  A pool that was stopped gives no such promise.
BatchesEnd ==
  \A b \in Batches : db[b].status \in {"pending", "running"} ~> (db[b].status \in Ended \/ closed)
=============================================================================
