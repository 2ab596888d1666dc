---------------------------- MODULE TranscodePool ----------------------------
(***************************************************************************)
(* transcode.Pool: two bounded lanes of jobs, the workers that take them,  *)
(* the claims that keep a rendition from being made twice at once, and the *)
(* channels on which the end of each job goes to the one publisher.        *)
(*                                                                         *)
(* A claim is a generation, not a mark: DropInflight frees the keys of jobs*)
(* that are still running, so a key may have been claimed again when the   *)
(* job that had it first comes to give it back.                            *)
(*                                                                         *)
(* A key is a source and a rendition of it; one rendition of each source is*)
(* enough here.  What the job renders, and the live gate and the tools that*)
(* decide its outcome, are the environment's.                              *)
(***************************************************************************)
EXTENDS Integers, Sequences, SequencesExt

CONSTANTS
  Paths,      \* the sources with a rendition to make
  Batches,    \* the batches a job can be of
  NoBatch,    \* uuid.Nil: a job of no batch
  Workers,    \* the worker goroutines
  QueueCap,   \* the length of a lane
  EventCap,   \* 2 x workers: the length of an event channel
  MaxClaims   \* bound: no job outside a batch is enqueued past this many claims

ASSUME PoolAssumption ==
  /\ NoBatch \notin Batches
  /\ {QueueCap, EventCap} \subseteq Nat \ {0}
  /\ MaxClaims \in Nat

VARIABLES
  lane,      \* upscaleJobs and optimizeJobs
  inflight,  \* the claim that holds a key, or Free
  claimSeq,
  work,      \* the job of each worker, and how far it is
  channel,   \* jobCompleteChan, jobFailedChan and jobDroppedChan
  closed,
  disowned   \* history: the claims DropInflight took from jobs still under way

poolVars == <<lane, inflight, claimSeq, work, channel, closed, disowned>>

Free     == 0
Lanes    == {"foreground", "background"}
Outcomes == {"done", "failed", "dropped"}
Jobs     == [path : Paths, batch : Batches \cup {NoBatch}, claim : Nat]
Events   == [path : Paths, batch : Batches \cup {NoBatch}]

\* A worker has a job that runs, one with an outcome that finishJob has yet to
\* count, or one that is counted and that announce has yet to send.
Idle  == [stage |-> "idle"]
Steps == [stage : {"running"}, job : Jobs]
           \cup [stage : {"decided"}, job : Jobs, outcome : Outcomes \cup {"none"}]
           \cup [stage : {"counted"}, job : Jobs, outcome : Outcomes]

PoolInit ==
  /\ lane     = [l \in Lanes |-> <<>>]
  /\ inflight = [p \in Paths |-> Free]
  /\ work     = [w \in Workers |-> Idle]
  /\ channel  = [o \in Outcomes |-> <<>>]
  /\ claimSeq = 0
  /\ closed   = FALSE
  /\ disowned = {}

PoolTypeOK ==
  /\ lane     \in [Lanes -> Seq(Jobs)]
  /\ inflight \in [Paths -> Nat]
  /\ work     \in [Workers -> Steps \cup {Idle}]
  /\ channel  \in [Outcomes -> Seq(Events)]
  /\ claimSeq \in Nat
  /\ closed   \in BOOLEAN
  /\ disowned \subseteq 1..claimSeq
  /\ \A l \in Lanes : Len(lane[l]) <= QueueCap
  /\ \A o \in Outcomes : Len(channel[o]) <= EventCap

-----------------------------------------------------------------------------
\* The send that does not block finds a place in the lane.
HasRoom(l) == Len(lane[l]) < QueueCap

\* The answers of Enqueue.  The closed flag is the first thing it looks at, then
\* the key, then the room in the lane.
Closed(p, l)    == closed
Duplicate(p, l) == ~closed /\ inflight[p] # Free
Full(p, l)      == ~closed /\ inflight[p] = Free /\ ~HasRoom(l)

\* Enqueue that succeeds: a claim and a place in the lane, in one critical section.
\* A lane without room takes the claim back before anyone sees it.
Accept(p, l, b) ==
  /\ ~closed
  /\ inflight[p] = Free
  /\ HasRoom(l)
  /\ claimSeq' = claimSeq + 1
  /\ inflight' = [inflight EXCEPT ![p] = claimSeq']
  /\ lane'     = [lane EXCEPT ![l] = Append(@, [path |-> p, batch |-> b, claim |-> claimSeq'])]
  /\ UNCHANGED <<work, channel, closed, disowned>>

\* A request or a sweep for one source, outside any batch.
EnqueueOne(p, l) == claimSeq < MaxClaims /\ Accept(p, l, NoBatch)

\* processJob up to its run: a stopping pool decides nothing about the job, a gate
\* that went off drops it.  A worker asks the foreground lane first, and then takes
\* from whichever has a job by then.
Take(w, l) ==
  /\ work[w] = Idle
  /\ lane[l] # <<>>
  /\ lane' = [lane EXCEPT ![l] = Tail(@)]
  /\ LET job == Head(lane[l])
         decided(o) == [stage |-> "decided", job |-> job, outcome |-> o]
     IN  work' \in {[work EXCEPT ![w] = s] :
                      s \in IF closed THEN {decided("none")}
                            ELSE {decided("dropped"), [stage |-> "running", job |-> job]}}
  /\ UNCHANGED <<inflight, claimSeq, channel, closed, disowned>>

\* The run is over: the rendition is committed, or the job failed or panicked; a
\* failure while the pool stops is not an outcome.
RunEnds(w) ==
  /\ work[w].stage = "running"
  /\ \E o \in {"done", IF closed THEN "none" ELSE "failed"} :
       work' = [work EXCEPT ![w] = [stage |-> "decided", job |-> @.job, outcome |-> o]]
  /\ UNCHANGED <<lane, inflight, claimSeq, channel, closed, disowned>>

\* Mutant: the key is given back whoever has it.
OwnsAnyway(job) == TRUE

\* releaseDedupLocked's comparison.
Owns(job) == inflight[job.path] = job.claim

\* Mutant: a job that was not counted leaves without giving its key back.
ReleaseCounted(job, outcome) ==
  inflight' = IF outcome # "none" /\ Owns(job) THEN [inflight EXCEPT ![job.path] = Free]
              ELSE inflight

\* finishJob gives the key back on every way out.
Release(job, outcome) ==
  inflight' = IF Owns(job) THEN [inflight EXCEPT ![job.path] = Free] ELSE inflight

\* finishJob: the key and the count in one critical section.  An outcome that counts
\* will be announced.
FinishJob(w) ==
  /\ work[w].stage = "decided"
  /\ Release(work[w].job, work[w].outcome)
  /\ work' = [work EXCEPT ![w] = IF @.outcome = "none" THEN Idle
                                 ELSE [stage |-> "counted", job |-> @.job, outcome |-> @.outcome]]
  /\ disowned' = disowned \ {work[w].job.claim}
  /\ UNCHANGED <<lane, claimSeq, channel, closed>>

\* announce: a send that waits for room.
Announce(w) ==
  /\ work[w].stage = "counted"
  /\ Len(channel[work[w].outcome]) < EventCap
  /\ channel' = [channel EXCEPT ![work[w].outcome] =
                   Append(@, [path |-> work[w].job.path, batch |-> work[w].job.batch])]
  /\ work' = [work EXCEPT ![w] = Idle]
  /\ UNCHANGED <<lane, inflight, claimSeq, closed, disowned>>

\* DropInflight, for a delete of the renditions of some sources.
DropInflight(sources) ==
  /\ \E p \in sources : inflight[p] # Free
  /\ inflight' = [p \in Paths |-> IF p \in sources THEN Free ELSE inflight[p]]
  /\ disowned' = disowned \cup ({inflight[p] : p \in sources} \ {Free})
  /\ UNCHANGED <<lane, claimSeq, work, channel, closed>>

\* Stop, up to the close of the lanes.  The rest of it waits.
Stop ==
  /\ ~closed
  /\ closed' = TRUE
  /\ UNCHANGED <<lane, inflight, claimSeq, work, channel, disowned>>

\* The publisher receives an event.
Receive(o) ==
  /\ channel[o] # <<>>
  /\ channel' = [channel EXCEPT ![o] = Tail(@)]
  /\ UNCHANGED <<lane, inflight, claimSeq, work, closed, disowned>>

Worker(w) == (\E l \in Lanes : Take(w, l)) \/ RunEnds(w) \/ FinishJob(w) \/ Announce(w)

-----------------------------------------------------------------------------
\* The jobs whose keys have not been given back: queued, running or about to finish.
Unfinished ==
  (UNION {ToSet(lane[l]) : l \in Lanes})
    \cup {work[w].job : w \in {v \in Workers : work[v].stage \in {"running", "decided"}}}

\* A job under way has its key, or DropInflight took it away: no other job's end
\* frees it, and so no two jobs of one rendition are under way unless a delete asked
\* for that (releaseDedupLocked: "that check is the whole point").
JobsOwnTheirKeys ==
  \A job \in Unfinished : job.claim \in disowned \/ inflight[job.path] = job.claim

\* A key that is taken is held by a job that will give it back: none stays taken by a
\* job that is gone, which would keep its rendition from being made until a restart
\* (processJob's one deferred tail).
KeysAreReleased ==
  \A p \in Paths : inflight[p] = Free \/ \E job \in Unfinished : job.path = p /\ job.claim = inflight[p]
=============================================================================
