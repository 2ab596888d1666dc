------------------------- MODULE UpscaleBatchesProofs -------------------------
(***************************************************************************)
(* The pool and the batches, for any sources, lanes, workers and bounds: a *)
(* job under way has its key unless a delete took it, a key that is taken  *)
(* comes back, a row that has ended is not written again, what stays in it *)
(* is the verdict of the batch, and a live batch adds up.                  *)
(*                                                                         *)
(* The first two rest on the claims: no two jobs under way have the same.  *)
(* The rows rest on the totals: a row in memory never gains files, so the  *)
(* smaller total, which is the one that lands, is the later one.  The sums *)
(* rest on this: a batch is told of a file once, and only of files it has  *)
(* offered.                                                                *)
(***************************************************************************)
EXTENDS UpscaleBatches, TLAPS, FiniteSetTheorems

\* A worker has a job that has not given its key back.
Holding(w) == work[w].stage \in {"running", "decided"}

\* The key of a job is its own, or was taken from it.
Kept(job, held, taken) == job.claim \in taken \/ held[job.path] = job.claim

\* Claims are numbers that were given out.
ClaimsInv ==
  /\ \A l \in Lanes : \A i \in 1..Len(lane[l]) : lane[l][i].claim \in 1..claimSeq
  /\ \A w \in Workers : Holding(w) => work[w].job.claim \in 1..claimSeq
  /\ \A p \in Paths : inflight[p] \in 0..claimSeq

\* No two jobs under way have the same claim.
DistinctInv ==
  /\ \A l, m \in Lanes : \A i \in 1..Len(lane[l]), j \in 1..Len(lane[m]) :
       lane[l][i].claim = lane[m][j].claim => l = m /\ i = j
  /\ \A l \in Lanes, w \in Workers : \A i \in 1..Len(lane[l]) :
       Holding(w) => lane[l][i].claim # work[w].job.claim
  /\ \A v, w \in Workers :
       Holding(v) /\ Holding(w) /\ work[v].job.claim = work[w].job.claim => v = w

\* JobsOwnTheirKeys, by the places a job can be in.
OwnInv ==
  /\ \A l \in Lanes : \A i \in 1..Len(lane[l]) : Kept(lane[l][i], inflight, disowned)
  /\ \A w \in Workers : Holding(w) => Kept(work[w].job, inflight, disowned)

\* KeysAreReleased, by the places a job can be in.
HeldInv ==
  \A p \in Paths :
    \/ inflight[p] = Free
    \/ \E l \in Lanes : \E i \in 1..Len(lane[l]) : lane[l][i].path = p /\ lane[l][i].claim = inflight[p]
    \/ \E w \in Workers : Holding(w) /\ work[w].job.path = p /\ work[w].job.claim = inflight[p]

PoolInv == PoolTypeOK /\ ClaimsInv /\ DistinctInv /\ OwnInv /\ HeldInv

-----------------------------------------------------------------------------
LEMMA Constants ==
  /\ NoBatch \notin Batches
  /\ QueueCap \in Nat /\ QueueCap > 0 /\ EventCap \in Nat /\ EventCap > 0
  /\ Files \in [Batches -> Seq(Paths)] /\ LaneOf \in [Batches -> Lanes]
  BY PoolAssumption, BatchAssumption

\* What the sequence operators do to the places of a lane.
LEMMA AppendIs ==
  ASSUME NEW S, NEW s \in Seq(S), NEW x \in S
  PROVE  /\ Append(s, x) \in Seq(S) /\ Len(Append(s, x)) = Len(s) + 1
         /\ \A i \in 1..Len(s) : Append(s, x)[i] = s[i]
         /\ Append(s, x)[Len(s) + 1] = x
  OBVIOUS

LEMMA TailIs ==
  ASSUME NEW S, NEW s \in Seq(S), s # <<>>
  PROVE  /\ Head(s) = s[1] /\ Head(s) \in S /\ Len(s) \in Nat /\ Len(s) > 0
         /\ Tail(s) \in Seq(S) /\ Len(Tail(s)) = Len(s) - 1
         /\ \A i \in 1..Len(Tail(s)) : i + 1 \in 1..Len(s) /\ Tail(s)[i] = s[i + 1]
  OBVIOUS

\* A job under way is at a place of a lane or with a worker.
LEMMA UnfinishedIs ==
  ASSUME PoolTypeOK, NEW job
  PROVE  job \in Unfinished <=>
           \/ \E l \in Lanes : \E i \in 1..Len(lane[l]) : job = lane[l][i]
           \/ \E w \in Workers : Holding(w) /\ job = work[w].job
<1>1. \A l \in Lanes : DOMAIN lane[l] = 1..Len(lane[l])
  BY DEF PoolTypeOK
<1>2. \A l \in Lanes : ToSet(lane[l]) = {lane[l][i] : i \in 1..Len(lane[l])}
  BY <1>1 DEF ToSet
<1> DEFINE queued == UNION {ToSet(lane[l]) : l \in Lanes}
           taken  == {work[w].job : w \in {v \in Workers : work[v].stage \in {"running", "decided"}}}
           placed == \E l \in Lanes : \E i \in 1..Len(lane[l]) : job = lane[l][i]
           worked == \E w \in Workers : Holding(w) /\ job = work[w].job
<1>3. job \in queued <=> placed
  <2>1. job \in queued <=> \E l \in Lanes : job \in ToSet(lane[l])
    BY Zenon
  <2>2. \A l \in Lanes : job \in ToSet(lane[l]) <=> \E i \in 1..Len(lane[l]) : job = lane[l][i]
    BY <1>2
  <2> HIDE DEF queued
  <2> QED BY <2>1, <2>2
<1>4. job \in taken <=> worked
  BY DEF Holding
<1>5. Unfinished = queued \cup taken
  BY DEF Unfinished
<1> HIDE DEF queued, taken, placed, worked
<1>6. job \in Unfinished <=> placed \/ worked
  BY <1>3, <1>4, <1>5
<1> QED BY <1>6 DEF placed, worked

LEMMA PoolInvIsEnough ==
  ASSUME PoolInv
  PROVE  JobsOwnTheirKeys /\ KeysAreReleased
<1> USE DEF PoolInv
<1>1. JobsOwnTheirKeys
  BY UnfinishedIs DEF JobsOwnTheirKeys, OwnInv, Kept
<1>2. KeysAreReleased
  <2> SUFFICES ASSUME NEW p \in Paths, inflight[p] # Free
               PROVE  \E job \in Unfinished : job.path = p /\ job.claim = inflight[p]
    BY DEF KeysAreReleased
  <2>1. CASE \E l \in Lanes : \E i \in 1..Len(lane[l]) :
               lane[l][i].path = p /\ lane[l][i].claim = inflight[p]
    BY <2>1, UnfinishedIs
  <2>2. CASE \E w \in Workers : Holding(w) /\ work[w].job.path = p /\ work[w].job.claim = inflight[p]
    BY <2>2, UnfinishedIs
  <2> QED BY <2>1, <2>2 DEF HeldInv
<1> QED BY <1>1, <1>2

\* The stages of a worker.
LEMMA StepIs ==
  ASSUME NEW s \in Steps \cup {Idle}
  PROVE  /\ s.stage \in {"idle", "running", "decided", "counted"}
         /\ s.stage # "idle" => s.job \in Jobs
         /\ s.stage = "decided" => s.outcome \in Outcomes \cup {"none"}
         /\ s.stage = "counted" => s.outcome \in Outcomes
         /\ s = Idle <=> s.stage = "idle"
  BY DEF Steps, Idle

LEMMA StepsAre ==
  ASSUME NEW job \in Jobs
  PROVE  /\ [stage |-> "running", job |-> job] \in Steps
         /\ \A o \in Outcomes \cup {"none"} : [stage |-> "decided", job |-> job, outcome |-> o] \in Steps
         /\ \A o \in Outcomes : [stage |-> "counted", job |-> job, outcome |-> o] \in Steps
  BY DEF Steps

LEMMA JobIs ==
  ASSUME NEW job \in Jobs
  PROVE  job.path \in Paths /\ job.batch \in Batches \cup {NoBatch} /\ job.claim \in Nat
  BY DEF Jobs
-----------------------------------------------------------------------------
LEMMA PoolStarts == PoolInit => PoolInv
<1> SUFFICES ASSUME PoolInit PROVE PoolInv
  OBVIOUS
<1> USE Constants DEF PoolInit
<1>1. \A S : <<>> \in Seq(S) /\ Len(<<>>) = 0
  OBVIOUS
<1>2. PoolTypeOK
  <2>1. lane \in [Lanes -> Seq(Jobs)] /\ channel \in [Outcomes -> Seq(Events)]
    BY <1>1
  <2>2. work \in [Workers -> Steps \cup {Idle}]
    OBVIOUS
  <2>3. /\ \A l \in Lanes : Len(lane[l]) <= QueueCap
        /\ \A o \in Outcomes : Len(channel[o]) <= EventCap
    BY <1>1
  <2>4. inflight \in [Paths -> Nat] /\ claimSeq \in Nat /\ closed \in BOOLEAN /\ disowned = {}
    BY DEF Free
  <2> QED BY <2>1, <2>2, <2>3, <2>4 DEF PoolTypeOK
<1>3. \A l \in Lanes : 1..Len(lane[l]) = {}
  BY <1>1
<1>4. \A w \in Workers : ~Holding(w)
  BY DEF Holding, Idle
<1>5. ClaimsInv /\ DistinctInv /\ OwnInv
  BY <1>3, <1>4 DEF ClaimsInv, DistinctInv, OwnInv, Free
<1>6. HeldInv
  BY DEF HeldInv
<1> QED BY <1>2, <1>5, <1>6 DEF PoolInv

\* A job that comes has a claim no job had.
LEMMA Accepts ==
  ASSUME PoolInv, NEW p \in Paths, NEW l \in Lanes, NEW b \in Batches \cup {NoBatch}, Accept(p, l, b)
  PROVE  PoolInv'
<1> DEFINE job == [path |-> p, batch |-> b, claim |-> claimSeq + 1]
<1> USE DEF PoolInv, Free
<1>1. /\ claimSeq \in Nat /\ claimSeq' = claimSeq + 1 /\ job \in Jobs
      /\ inflight \in [Paths -> Nat] /\ inflight[p] = 0
      /\ work' = work /\ disowned' = disowned /\ disowned \subseteq 1..claimSeq
      /\ closed' = closed /\ channel' = channel
  BY DEF Accept, PoolTypeOK, Jobs
<1>2. inflight' = [inflight EXCEPT ![p] = claimSeq']
  BY DEF Accept
<1>3. /\ lane \in [Lanes -> Seq(Jobs)] /\ lane' = [lane EXCEPT ![l] = Append(@, job)]
      /\ Len(lane[l]) < QueueCap
  BY DEF Accept, PoolTypeOK, HasRoom
<1> HIDE DEF job
<1>4. /\ Append(lane[l], job) \in Seq(Jobs) /\ Len(Append(lane[l], job)) = Len(lane[l]) + 1
      /\ \A i \in 1..Len(lane[l]) : Append(lane[l], job)[i] = lane[l][i]
      /\ Append(lane[l], job)[Len(lane[l]) + 1] = job
  <2>1. lane[l] \in Seq(Jobs)
    BY <1>3
  <2> QED BY <2>1, <1>1, AppendIs
<1>5. /\ lane' \in [Lanes -> Seq(Jobs)]
      /\ \A m \in Lanes : m # l => lane'[m] = lane[m]
      /\ lane'[l] = Append(lane[l], job)
  BY <1>3, <1>4
<1>6. \A m \in Lanes : Len(lane[m]) \in Nat
  BY <1>3
<1>7. \A m \in Lanes : \A i \in 1..Len(lane'[m]) :
        \/ i \in 1..Len(lane[m]) /\ lane'[m][i] = lane[m][i]
        \/ m = l /\ i = Len(lane[l]) + 1 /\ lane'[m][i] = job
  BY <1>4, <1>5, <1>6
<1>8. \A m \in Lanes : \A i \in 1..Len(lane[m]) : i \in 1..Len(lane'[m]) /\ lane'[m][i] = lane[m][i]
  <2> SUFFICES ASSUME NEW m \in Lanes, NEW i \in 1..Len(lane[m])
               PROVE  i \in 1..Len(lane'[m]) /\ lane'[m][i] = lane[m][i]
    OBVIOUS
  <2>1. CASE m = l
    BY <2>1, <1>4, <1>5, <1>6
  <2>2. CASE m # l
    BY <2>2, <1>5
  <2> QED BY <2>1, <2>2
<1>9. job.path = p /\ job.claim = claimSeq + 1
  BY <1>1 DEF job
<1>10. \A w \in Workers : Holding(w)' <=> Holding(w)
  BY <1>1 DEF Holding
<1>11. PoolTypeOK'
  <2>1. inflight' \in [Paths -> Nat] /\ claimSeq' \in Nat /\ disowned' \subseteq 1..claimSeq'
    BY <1>1, <1>2
  <2>2. \A m \in Lanes : Len(lane'[m]) <= QueueCap
    BY <1>3, <1>4, <1>5, <1>6, Constants DEF PoolTypeOK
  <2> QED BY <2>1, <2>2, <1>1, <1>5 DEF PoolTypeOK
<1>12. ClaimsInv'
  BY <1>1, <1>2, <1>7, <1>9, <1>10 DEF ClaimsInv
<1>13. DistinctInv'
  <2>1. \A m \in Lanes : \A i \in 1..Len(lane[m]) : lane[m][i].claim \in 1..claimSeq
    BY DEF ClaimsInv
  <2>2. \A w \in Workers : Holding(w) => work[w].job.claim \in 1..claimSeq
    BY DEF ClaimsInv
  <2>3. ASSUME NEW m \in Lanes, NEW k \in Lanes, NEW i \in 1..Len(lane'[m]), NEW j \in 1..Len(lane'[k]),
               lane'[m][i].claim = lane'[k][j].claim
        PROVE  m = k /\ i = j
    <3>1. claimSeq + 1 \notin 1..claimSeq
      BY <1>1
    <3>2. CASE i \in 1..Len(lane[m]) /\ lane'[m][i] = lane[m][i]
      <4>1. j \in 1..Len(lane[k]) /\ lane'[k][j] = lane[k][j]
        BY <2>1, <2>3, <3>1, <3>2, <1>7, <1>9
      <4> QED BY <2>3, <3>2, <4>1 DEF DistinctInv
    <3>3. CASE m = l /\ i = Len(lane[l]) + 1 /\ lane'[m][i] = job
      <4>1. ~ (j \in 1..Len(lane[k]) /\ lane'[k][j] = lane[k][j])
        BY <2>1, <2>3, <3>1, <3>3, <1>9
      <4> QED BY <3>3, <4>1, <1>7
    <3> QED BY <3>2, <3>3, <1>7
  <2>4. ASSUME NEW m \in Lanes, NEW w \in Workers, NEW i \in 1..Len(lane'[m]), Holding(w)'
        PROVE  lane'[m][i].claim # work'[w].job.claim
    <3>1. claimSeq + 1 \notin 1..claimSeq
      BY <1>1
    <3>2. Holding(w) /\ work'[w] = work[w] /\ work[w].job.claim \in 1..claimSeq
      BY <2>2, <2>4, <1>1, <1>10
    <3>3. CASE i \in 1..Len(lane[m]) /\ lane'[m][i] = lane[m][i]
      BY <3>2, <3>3 DEF DistinctInv
    <3>4. CASE lane'[m][i] = job
      BY <3>1, <3>2, <3>4, <1>9
    <3> QED BY <3>3, <3>4, <1>7
  <2>5. \A v, w \in Workers :
          Holding(v)' /\ Holding(w)' /\ work'[v].job.claim = work'[w].job.claim => v = w
    BY <1>1, <1>10 DEF DistinctInv
  <2> QED BY <2>3, <2>4, <2>5 DEF DistinctInv
<1>14. OwnInv'
  <2>1. \A j : j.path \in Paths /\ Kept(j, inflight, disowned) /\ j.claim \in 1..claimSeq
               => Kept(j, inflight', disowned')
    BY <1>1, <1>2 DEF Kept
  <2>2. Kept(job, inflight', disowned')
    BY <1>1, <1>2, <1>9 DEF Kept
  <2>3. \A m \in Lanes : \A i \in 1..Len(lane[m]) : lane[m][i] \in Jobs
    BY <1>3
  <2>4. \A w \in Workers : Holding(w) => work[w].job \in Jobs
    BY StepIs DEF Holding, PoolTypeOK
  <2>5. \A m \in Lanes : \A i \in 1..Len(lane[m]) : Kept(lane[m][i], inflight', disowned')
    BY <2>1, <2>3, JobIs DEF OwnInv, ClaimsInv
  <2>6. \A w \in Workers : Holding(w) => Kept(work[w].job, inflight', disowned')
    BY <2>1, <2>4, JobIs DEF OwnInv, ClaimsInv
  <2>7. ASSUME NEW m \in Lanes, NEW i \in 1..Len(lane'[m])
        PROVE  Kept(lane'[m][i], inflight', disowned')
    BY <2>2, <2>5, <1>7
  <2> QED BY <2>6, <2>7, <1>1, <1>10 DEF OwnInv
<1>15. HeldInv'
  <2> SUFFICES ASSUME NEW q \in Paths, inflight'[q] # 0
               PROVE  \/ \E m \in Lanes : \E i \in 1..Len(lane'[m]) :
                           lane'[m][i].path = q /\ lane'[m][i].claim = inflight'[q]
                      \/ \E w \in Workers :
                           Holding(w)' /\ work'[w].job.path = q /\ work'[w].job.claim = inflight'[q]
    BY DEF HeldInv
  <2>1. CASE q = p
    <3>1. Len(lane[l]) + 1 \in 1..Len(lane'[l]) /\ lane'[l][Len(lane[l]) + 1] = job
      BY <1>4, <1>5, <1>6
    <3> QED BY <2>1, <3>1, <1>1, <1>2, <1>9
  <2>2. CASE q # p
    <3>1. inflight'[q] = inflight[q]
      BY <2>2, <1>1, <1>2
    <3>2. CASE \E m \in Lanes : \E i \in 1..Len(lane[m]) : lane[m][i].path = q /\ lane[m][i].claim = inflight[q]
      BY <3>1, <3>2, <1>8
    <3>3. CASE \E w \in Workers : Holding(w) /\ work[w].job.path = q /\ work[w].job.claim = inflight[q]
      BY <3>1, <3>3, <1>1, <1>10
    <3> QED BY <3>1, <3>2, <3>3 DEF HeldInv
  <2> QED BY <2>1, <2>2
<1> QED BY <1>11, <1>12, <1>13, <1>14, <1>15
\* A step that leaves every job where it is.
LEMMA SameJobs ==
  ASSUME PoolInv, UNCHANGED <<lane, inflight, claimSeq, disowned>>,
         \A v \in Workers : (Holding(v)' <=> Holding(v)) /\ (Holding(v) => work'[v].job = work[v].job)
  PROVE  ClaimsInv' /\ DistinctInv' /\ OwnInv' /\ HeldInv'
<1> USE DEF PoolInv
<1>1. ClaimsInv'
  BY DEF ClaimsInv
<1>2. DistinctInv'
  BY DEF DistinctInv
<1>3. OwnInv'
  BY DEF OwnInv, Kept
<1>4. HeldInv'
  BY DEF HeldInv
<1> QED BY <1>1, <1>2, <1>3, <1>4

LEMMA RunEnded ==
  ASSUME PoolInv, NEW w \in Workers, RunEnds(w)
  PROVE  PoolInv'
<1> USE DEF PoolInv
<1>1. PICK o \in {"done", IF closed THEN "none" ELSE "failed"} :
        work' = [work EXCEPT ![w] = [stage |-> "decided", job |-> @.job, outcome |-> o]]
  BY DEF RunEnds
<1>2. /\ work \in [Workers -> Steps \cup {Idle}] /\ work[w].stage = "running"
      /\ UNCHANGED <<lane, inflight, claimSeq, channel, closed, disowned>>
  BY DEF RunEnds, PoolTypeOK
<1>3. work[w].job \in Jobs /\ o \in Outcomes \cup {"none"}
  BY <1>2, StepIs DEF Outcomes
<1>4. work' \in [Workers -> Steps \cup {Idle}]
  BY <1>1, <1>2, <1>3, StepsAre
<1>5. PoolTypeOK'
  BY <1>2, <1>4 DEF PoolTypeOK
<1>6. \A v \in Workers : (Holding(v)' <=> Holding(v)) /\ (Holding(v) => work'[v].job = work[v].job)
  BY <1>1, <1>2 DEF Holding
<1> QED BY <1>2, <1>5, <1>6, SameJobs

LEMMA Announced ==
  ASSUME PoolInv, NEW w \in Workers, Announce(w)
  PROVE  PoolInv'
<1> USE DEF PoolInv
<1> DEFINE o == work[w].outcome
           e == [path |-> work[w].job.path, batch |-> work[w].job.batch]
<1>1. /\ work \in [Workers -> Steps \cup {Idle}] /\ work[w].stage = "counted"
      /\ work' = [work EXCEPT ![w] = Idle]
      /\ channel \in [Outcomes -> Seq(Events)] /\ Len(channel[o]) < EventCap
      /\ channel' = [channel EXCEPT ![o] = Append(@, e)]
      /\ UNCHANGED <<lane, inflight, claimSeq, closed, disowned>>
  BY DEF Announce, PoolTypeOK
<1>2. o \in Outcomes /\ e \in Events
  BY <1>1, StepIs, JobIs DEF Events
<1> HIDE DEF o, e
<1>3. Append(channel[o], e) \in Seq(Events) /\ Len(Append(channel[o], e)) = Len(channel[o]) + 1
  BY <1>1, <1>2, AppendIs
<1>4. /\ channel' \in [Outcomes -> Seq(Events)]
      /\ \A q \in Outcomes : Len(channel'[q]) <= EventCap
  <2>1. \A q \in Outcomes : channel'[q] = IF q = o THEN Append(channel[o], e) ELSE channel[q]
    BY <1>1, <1>2
  <2>2. Len(channel[o]) \in Nat
    BY <1>1, <1>2
  <2> QED BY <2>1, <2>2, <1>1, <1>2, <1>3, Constants DEF PoolTypeOK
<1>5. work' \in [Workers -> Steps \cup {Idle}]
  BY <1>1
<1>6. PoolTypeOK'
  BY <1>1, <1>4, <1>5 DEF PoolTypeOK
<1>7. \A v \in Workers : (Holding(v)' <=> Holding(v)) /\ (Holding(v) => work'[v].job = work[v].job)
  BY <1>1 DEF Holding, Idle
<1> QED BY <1>1, <1>6, <1>7, SameJobs

LEMMA Stopped ==
  ASSUME PoolInv, Stop
  PROVE  PoolInv'
<1> USE DEF PoolInv
<1>1. closed' \in BOOLEAN /\ UNCHANGED <<lane, inflight, claimSeq, work, channel, disowned>>
  BY DEF Stop
<1>2. PoolTypeOK'
  BY <1>1 DEF PoolTypeOK
<1>3. \A v \in Workers : (Holding(v)' <=> Holding(v)) /\ (Holding(v) => work'[v].job = work[v].job)
  BY <1>1 DEF Holding
<1> QED BY <1>1, <1>2, <1>3, SameJobs

LEMMA Received ==
  ASSUME PoolInv, NEW o \in Outcomes, Receive(o)
  PROVE  PoolInv' /\ channel[o] # <<>> /\ Head(channel[o]) \in Events
<1> USE DEF PoolInv
<1>1. /\ channel \in [Outcomes -> Seq(Events)] /\ channel[o] # <<>>
      /\ channel' = [channel EXCEPT ![o] = Tail(@)]
      /\ UNCHANGED <<lane, inflight, claimSeq, work, closed, disowned>>
  BY DEF Receive, PoolTypeOK
<1>2. /\ Tail(channel[o]) \in Seq(Events) /\ Len(Tail(channel[o])) = Len(channel[o]) - 1
      /\ Head(channel[o]) \in Events /\ Len(channel[o]) \in Nat
  BY <1>1, TailIs
<1>3. /\ channel' \in [Outcomes -> Seq(Events)]
      /\ \A q \in Outcomes : Len(channel'[q]) <= EventCap
  <2>1. \A q \in Outcomes : channel'[q] = IF q = o THEN Tail(channel[o]) ELSE channel[q]
    BY <1>1
  <2> QED BY <2>1, <1>1, <1>2, Constants DEF PoolTypeOK
<1>4. PoolTypeOK'
  BY <1>1, <1>3 DEF PoolTypeOK
<1>5. \A v \in Workers : (Holding(v)' <=> Holding(v)) /\ (Holding(v) => work'[v].job = work[v].job)
  BY <1>1 DEF Holding
<1> QED BY <1>1, <1>2, <1>4, <1>5, SameJobs

\* A job goes from its lane to a worker.
LEMMA Taken ==
  ASSUME PoolInv, NEW w \in Workers, NEW l \in Lanes, Take(w, l)
  PROVE  PoolInv'
<1> USE DEF PoolInv
<1> DEFINE job == Head(lane[l])
<1>1. PICK s \in (IF closed THEN {[stage |-> "decided", job |-> job, outcome |-> "none"]}
                  ELSE {[stage |-> "decided", job |-> job, outcome |-> "dropped"],
                        [stage |-> "running", job |-> job]}) :
        work' = [work EXCEPT ![w] = s]
  BY DEF Take
<1>2. /\ work \in [Workers -> Steps \cup {Idle}] /\ work[w] = Idle
      /\ lane \in [Lanes -> Seq(Jobs)] /\ lane[l] # <<>>
      /\ lane' = [lane EXCEPT ![l] = Tail(@)]
      /\ UNCHANGED <<inflight, claimSeq, channel, closed, disowned>>
  BY DEF Take, PoolTypeOK
<1>3. /\ job = lane[l][1] /\ job \in Jobs /\ Len(lane[l]) \in Nat /\ 1 \in 1..Len(lane[l])
      /\ Tail(lane[l]) \in Seq(Jobs) /\ Len(Tail(lane[l])) = Len(lane[l]) - 1
      /\ \A i \in 1..Len(Tail(lane[l])) : i + 1 \in 1..Len(lane[l]) /\ Tail(lane[l])[i] = lane[l][i + 1]
  BY <1>2, TailIs
<1> HIDE DEF job
<1>4. s \in Steps /\ s.stage \in {"running", "decided"} /\ s.job = job
  <2>1. \/ s = [stage |-> "running", job |-> job]
        \/ \E o \in Outcomes \cup {"none"} : s = [stage |-> "decided", job |-> job, outcome |-> o]
    BY <1>1 DEF Outcomes
  <2>2. CASE s = [stage |-> "running", job |-> job]
    BY <2>2, <1>3, StepsAre
  <2>3. ASSUME NEW o \in Outcomes \cup {"none"}, s = [stage |-> "decided", job |-> job, outcome |-> o]
        PROVE  s \in Steps /\ s.stage \in {"running", "decided"} /\ s.job = job
    BY <2>3, <1>3, StepsAre
  <2> QED BY <2>1, <2>2, <2>3
<1>5. work' \in [Workers -> Steps \cup {Idle}]
  BY <1>1, <1>2, <1>4
<1>6. /\ \A m \in Lanes : m # l => lane'[m] = lane[m]
      /\ lane'[l] = Tail(lane[l])
  BY <1>2
<1>7. PoolTypeOK'
  <2>1. lane' \in [Lanes -> Seq(Jobs)]
    BY <1>2, <1>3
  <2>2. \A m \in Lanes : Len(lane'[m]) <= QueueCap
    BY <1>2, <1>3, <1>6, Constants DEF PoolTypeOK
  <2> QED BY <2>1, <2>2, <1>2, <1>5 DEF PoolTypeOK
\* Where the jobs were.
<1>8. \A m \in Lanes : \A i \in 1..Len(lane'[m]) :
        /\ m # l => i \in 1..Len(lane[m]) /\ lane'[m][i] = lane[m][i]
        /\ m = l => i + 1 \in 1..Len(lane[m]) /\ lane'[m][i] = lane[m][i + 1]
  BY <1>3, <1>6
<1>9. \A v \in Workers :
        /\ v # w => (Holding(v)' <=> Holding(v)) /\ work'[v] = work[v]
        /\ v = w => Holding(v)' /\ work'[v].job = lane[l][1] /\ ~Holding(v)
  BY <1>1, <1>2, <1>3, <1>4 DEF Holding, Idle
<1>10. \A m \in Lanes : \A i \in 1..Len(lane'[m]) :
         \E j \in 1..Len(lane[m]) : lane'[m][i] = lane[m][j] /\ (m = l => j = i + 1) /\ (m # l => j = i)
  BY <1>8
<1>11. ClaimsInv'
  <2>1. \A m \in Lanes : \A i \in 1..Len(lane'[m]) : lane'[m][i].claim \in 1..claimSeq
    BY <1>10 DEF ClaimsInv
  <2>2. \A v \in Workers : Holding(v)' => work'[v].job.claim \in 1..claimSeq
    BY <1>3, <1>9 DEF ClaimsInv
  <2> QED BY <2>1, <2>2, <1>2 DEF ClaimsInv
<1>12. DistinctInv'
  <2>1. ASSUME NEW m \in Lanes, NEW k \in Lanes, NEW i \in 1..Len(lane'[m]), NEW j \in 1..Len(lane'[k]),
               lane'[m][i].claim = lane'[k][j].claim
        PROVE  m = k /\ i = j
    <3>1. PICK x \in 1..Len(lane[m]) : lane'[m][i] = lane[m][x] /\ (m = l => x = i + 1) /\ (m # l => x = i)
      BY <1>10
    <3>2. PICK y \in 1..Len(lane[k]) : lane'[k][j] = lane[k][y] /\ (k = l => y = j + 1) /\ (k # l => y = j)
      BY <1>10
    <3>3. m = k /\ x = y
      BY <2>1, <3>1, <3>2 DEF DistinctInv
    <3> QED BY <3>1, <3>2, <3>3
  <2>2. ASSUME NEW m \in Lanes, NEW v \in Workers, NEW i \in 1..Len(lane'[m]), Holding(v)'
        PROVE  lane'[m][i].claim # work'[v].job.claim
    <3>1. PICK x \in 1..Len(lane[m]) : lane'[m][i] = lane[m][x] /\ (m = l => x = i + 1) /\ (m # l => x = i)
      BY <1>10
    <3>2. CASE v = w
      <4>1. ~(m = l /\ x = 1)
        BY <3>1
      <4> QED BY <3>1, <3>2, <4>1, <1>3, <1>9 DEF DistinctInv
    <3>3. CASE v # w
      BY <2>2, <3>1, <3>3, <1>9 DEF DistinctInv
    <3> QED BY <3>2, <3>3
  <2>3. ASSUME NEW v \in Workers, NEW u \in Workers, Holding(v)', Holding(u)',
               work'[v].job.claim = work'[u].job.claim
        PROVE  v = u
    BY <2>3, <1>3, <1>9 DEF DistinctInv
  <2> QED BY <2>1, <2>2, <2>3 DEF DistinctInv
<1>13. OwnInv'
  <2>1. \A m \in Lanes : \A i \in 1..Len(lane'[m]) : Kept(lane'[m][i], inflight', disowned')
    BY <1>2, <1>10 DEF OwnInv
  <2>2. \A v \in Workers : Holding(v)' => Kept(work'[v].job, inflight', disowned')
    BY <1>2, <1>3, <1>9 DEF OwnInv
  <2> QED BY <2>1, <2>2 DEF OwnInv
<1>14. HeldInv'
  <2> SUFFICES ASSUME NEW q \in Paths, inflight[q] # Free
               PROVE  \/ \E m \in Lanes : \E i \in 1..Len(lane'[m]) :
                           lane'[m][i].path = q /\ lane'[m][i].claim = inflight[q]
                      \/ \E v \in Workers :
                           Holding(v)' /\ work'[v].job.path = q /\ work'[v].job.claim = inflight[q]
    BY <1>2 DEF HeldInv
  <2>1. ASSUME NEW m \in Lanes, NEW i \in 1..Len(lane[m]), lane[m][i].path = q, lane[m][i].claim = inflight[q]
        PROVE  \/ \E j \in 1..Len(lane'[m]) : lane'[m][j] = lane[m][i]
               \/ Holding(w)' /\ work'[w].job = lane[m][i]
    <3>1. CASE m # l
      BY <3>1, <1>6
    <3>2. CASE m = l /\ i = 1
      BY <3>2, <1>9
    <3>3. CASE m = l /\ i # 1
      <4>1. i - 1 \in 1..Len(lane'[l]) /\ lane'[l][i - 1] = lane[l][i]
        BY <3>3, <1>3, <1>6
      <4> QED BY <3>3, <4>1
    <3> QED BY <3>1, <3>2, <3>3
  <2>2. CASE \E m \in Lanes : \E i \in 1..Len(lane[m]) : lane[m][i].path = q /\ lane[m][i].claim = inflight[q]
    BY <2>1, <2>2
  <2>3. CASE \E v \in Workers : Holding(v) /\ work[v].job.path = q /\ work[v].job.claim = inflight[q]
    BY <2>3, <1>9
  <2> QED BY <2>2, <2>3 DEF HeldInv
<1> QED BY <1>7, <1>11, <1>12, <1>13, <1>14
\* A job leaves, and its key with it if it is still its own.
LEMMA Finished ==
  ASSUME PoolInv, NEW w \in Workers, FinishJob(w)
  PROVE  PoolInv'
<1> USE DEF PoolInv, Free
<1> DEFINE job == work[w].job
           gone == [stage |-> "counted", job |-> job, outcome |-> work[w].outcome]
<1>1. /\ work \in [Workers -> Steps \cup {Idle}] /\ work[w].stage = "decided"
      /\ work' = [work EXCEPT ![w] = IF work[w].outcome = "none" THEN Idle ELSE gone]
      /\ disowned' = disowned \ {job.claim}
      /\ inflight \in [Paths -> Nat]
      /\ inflight' = IF inflight[job.path] = job.claim THEN [inflight EXCEPT ![job.path] = 0] ELSE inflight
      /\ UNCHANGED <<lane, claimSeq, channel, closed>>
  BY DEF FinishJob, Release, Owns, PoolTypeOK
<1>2. job \in Jobs /\ job.path \in Paths /\ Holding(w) /\ work[w].outcome \in Outcomes \cup {"none"}
  BY <1>1, StepIs, JobIs DEF Holding
<1>3. work' \in [Workers -> Steps \cup {Idle}]
  <2>1. work[w].outcome # "none" => gone \in Steps
    BY <1>2, StepsAre DEF Outcomes
  <2> HIDE DEF gone
  <2> QED BY <2>1, <1>1
<1>4. \A v \in Workers :
        /\ v # w => work'[v] = work[v] /\ (Holding(v)' <=> Holding(v))
        /\ v = w => ~Holding(v)'
  BY <1>1 DEF Holding, Idle
<1>5. \A q \in Paths : inflight'[q] = IF q = job.path /\ inflight[q] = job.claim THEN 0 ELSE inflight[q]
  BY <1>1, <1>2
<1> HIDE DEF job, gone
<1>6. PoolTypeOK'
  <2>1. inflight' \in [Paths -> Nat]
    BY <1>1, <1>2
  <2>2. disowned' \subseteq 1..claimSeq'
    BY <1>1 DEF PoolTypeOK
  <2> QED BY <2>1, <2>2, <1>1, <1>3 DEF PoolTypeOK
<1>7. ClaimsInv'
  <2>1. \A p \in Paths : inflight'[p] \in 0..claimSeq
    BY <1>5 DEF ClaimsInv, PoolTypeOK
  <2> QED BY <2>1, <1>1, <1>4 DEF ClaimsInv
<1>8. DistinctInv'
  BY <1>1, <1>4 DEF DistinctInv
<1>9. OwnInv'
  <2>1. \A j \in Jobs : Kept(j, inflight, disowned) /\ j.claim # job.claim => Kept(j, inflight', disowned')
    BY <1>1, <1>5, JobIs DEF Kept
  <2>2. ASSUME NEW l \in Lanes, NEW i \in 1..Len(lane'[l])
        PROVE  Kept(lane'[l][i], inflight', disowned')
    <3>1. lane'[l][i] = lane[l][i] /\ i \in 1..Len(lane[l]) /\ lane[l][i] \in Jobs
      BY <1>1 DEF PoolTypeOK
    <3>2. lane[l][i].claim # job.claim
      BY <3>1, <1>2 DEF DistinctInv, job
    <3> QED BY <2>1, <3>1, <3>2 DEF OwnInv
  <2>3. ASSUME NEW v \in Workers, Holding(v)'
        PROVE  Kept(work'[v].job, inflight', disowned')
    <3>1. v # w /\ Holding(v) /\ work'[v] = work[v] /\ work[v].job \in Jobs
      BY <2>3, <1>1, <1>4, StepIs DEF Holding
    <3>2. work[v].job.claim # job.claim
      BY <3>1, <1>2 DEF DistinctInv, job
    <3> QED BY <2>1, <3>1, <3>2 DEF OwnInv
  <2> QED BY <2>2, <2>3 DEF OwnInv
<1>10. HeldInv'
  <2> SUFFICES ASSUME NEW q \in Paths, inflight'[q] # 0
               PROVE  \/ \E m \in Lanes : \E i \in 1..Len(lane'[m]) :
                           lane'[m][i].path = q /\ lane'[m][i].claim = inflight'[q]
                      \/ \E v \in Workers :
                           Holding(v)' /\ work'[v].job.path = q /\ work'[v].job.claim = inflight'[q]
    BY DEF HeldInv
  <2>1. inflight'[q] = inflight[q] /\ ~(q = job.path /\ inflight[q] = job.claim)
    BY <1>5
  <2>2. CASE \E m \in Lanes : \E i \in 1..Len(lane[m]) : lane[m][i].path = q /\ lane[m][i].claim = inflight[q]
    BY <2>1, <2>2, <1>1
  <2>3. CASE \E v \in Workers : Holding(v) /\ work[v].job.path = q /\ work[v].job.claim = inflight[q]
    BY <2>1, <2>3, <1>4 DEF job
  <2> QED BY <2>1, <2>2, <2>3 DEF HeldInv
<1> QED BY <1>6, <1>7, <1>8, <1>9, <1>10

\* A delete takes keys, and the jobs that lose them are known.
LEMMA Disowned ==
  ASSUME PoolInv, NEW sources \in SUBSET Paths, DropInflight(sources)
  PROVE  PoolInv'
<1> USE DEF PoolInv, Free
<1>1. /\ inflight \in [Paths -> Nat] /\ inflight' = [p \in Paths |-> IF p \in sources THEN 0 ELSE inflight[p]]
      /\ disowned' = disowned \cup ({inflight[p] : p \in sources} \ {0})
      /\ UNCHANGED <<lane, claimSeq, work, channel, closed>>
  BY DEF DropInflight, PoolTypeOK
<1>2. \A v \in Workers : Holding(v)' <=> Holding(v)
  BY <1>1 DEF Holding
<1>3. claimSeq \in Nat /\ disowned \subseteq 1..claimSeq /\ \A p \in Paths : inflight[p] \in 0..claimSeq
  BY DEF PoolTypeOK, ClaimsInv
<1>4. PoolTypeOK'
  <2>1. disowned' \subseteq 1..claimSeq'
    <3> SUFFICES ASSUME NEW n \in disowned' PROVE n \in 1..claimSeq
      BY <1>1
    <3>1. CASE n \in disowned
      BY <3>1, <1>3
    <3>2. CASE n # 0 /\ \E p \in sources : n = inflight[p]
      BY <3>2, <1>3
    <3> QED BY <3>1, <3>2, <1>1
  <2>2. inflight' \in [Paths -> Nat]
    BY <1>1
  <2> QED BY <2>1, <2>2, <1>1 DEF PoolTypeOK
<1>5. ClaimsInv'
  BY <1>1, <1>2, <1>3 DEF ClaimsInv
<1>6. DistinctInv'
  BY <1>1, <1>2 DEF DistinctInv
<1>7. OwnInv'
  <2>1. \A j \in Jobs : Kept(j, inflight, disowned) /\ j.claim \in 1..claimSeq => Kept(j, inflight', disowned')
    <3> SUFFICES ASSUME NEW j \in Jobs, Kept(j, inflight, disowned), j.claim \in 1..claimSeq
                 PROVE  Kept(j, inflight', disowned')
      OBVIOUS
    <3>1. j.path \in Paths /\ j.claim # 0
      BY <1>3, JobIs
    <3>2. CASE j.claim \in disowned
      BY <3>2, <1>1 DEF Kept
    <3>3. CASE inflight[j.path] = j.claim /\ j.path \in sources
      BY <3>1, <3>3, <1>1 DEF Kept
    <3>4. CASE inflight[j.path] = j.claim /\ j.path \notin sources
      BY <3>1, <3>4, <1>1 DEF Kept
    <3> QED BY <3>2, <3>3, <3>4 DEF Kept
  <2>2. \A l \in Lanes : \A i \in 1..Len(lane[l]) : lane[l][i] \in Jobs
    BY DEF PoolTypeOK
  <2>3. \A v \in Workers : Holding(v) => work[v].job \in Jobs
    BY StepIs DEF Holding, PoolTypeOK
  <2>4. \A l \in Lanes : \A i \in 1..Len(lane[l]) : Kept(lane[l][i], inflight', disowned')
    BY <2>1, <2>2 DEF OwnInv, ClaimsInv
  <2>5. \A v \in Workers : Holding(v) => Kept(work[v].job, inflight', disowned')
    BY <2>1, <2>3 DEF OwnInv, ClaimsInv
  <2> QED BY <2>4, <2>5, <1>1, <1>2 DEF OwnInv
<1>8. HeldInv'
  <2>1. \A q \in Paths : inflight'[q] = 0 \/ inflight'[q] = inflight[q]
    BY <1>1
  <2> QED BY <2>1, <1>1, <1>2 DEF HeldInv
<1> QED BY <1>4, <1>5, <1>6, <1>7, <1>8
-----------------------------------------------------------------------------
\* The state of a batch in memory, and a copy of its row.
States == [counts : Counts, remaining : SUBSET Paths, dropped : Nat]
Copies == [form : {"progress", "status"}, batch : Batches, counts : Counts]

\* The batch side of TypeOK.
RowTypeOK ==
  /\ submit   \in [Batches -> {"idle", "enrolled", "offering", "duplicate", "refused", "draining", "over"}]
  /\ next     \in [Batches -> Nat \ {0}]
  /\ enqueued \in [Batches -> Nat]
  /\ row      \in [Batches -> States]
  /\ db       \in [Batches -> Counts]
  /\ pending  \in [Writers -> Copies \cup {Nothing}]
  /\ live     \subseteq Batches

Going(status) == status \in {"pending", "running"}

\* A writer has a copy of the row of a batch.
IsOf(a, b) == pending[a] # Nothing /\ pending[a].batch = b

\* What stays of a row is the same.
Same(c, d) == c.status = d.status /\ c.total = d.total

\* A batch nobody asked for has left no trace.
IdleInv ==
  \A b \in Batches : submit[b] = "idle" =>
    /\ db[b] = Absent /\ b \notin live
    /\ \A a \in Writers : ~IsOf(a, b)

\* No end of a live batch is written or on its way.
LiveInv ==
  \A b \in live :
    /\ Going(row[b].counts.status) /\ Going(db[b].status)
    /\ \A a \in Writers : IsOf(a, b) => Going(pending[a].counts.status)

\* The total of a batch is the files the pool took and the files yet to be offered.
TotalInv ==
  \A b \in Batches :
    /\ submit[b] = "idle" => next[b] = 1 /\ enqueued[b] = 0
    /\ submit[b] \in {"duplicate", "refused"} => next[b] <= Len(Files[b])
    /\ b \in live /\ submit[b] \in {"enrolled", "offering", "duplicate", "refused"} =>
         row[b].counts.total = Len(Files[b]) + 1 + enqueued[b] - next[b]
    /\ submit[b] \in {"enrolled", "offering"} => next[b] <= Len(Files[b]) + 1

\* No copy has fewer files than the row, and one of the end is like the row.
LandInv ==
  \A b \in Batches :
    /\ row[b].counts.status = "none" => row[b] = NewState
    /\ \A a \in Writers : IsOf(a, b) =>
         /\ row[b] # NewState
         /\ pending[a].counts.total >= row[b].counts.total
         /\ pending[a].counts.status \in Ended => Same(pending[a].counts, row[b].counts)
    /\ row[b] # NewState =>
         /\ db[b].total >= row[b].counts.total
         /\ db[b].status \in Ended => Same(db[b], row[b].counts)

BatchInv == RowTypeOK /\ IdleInv /\ LiveInv /\ TotalInv /\ LandInv

IInv == PoolInv /\ BatchInv

LEMMA TypeIs == TypeOK <=> PoolTypeOK /\ RowTypeOK
  BY DEF TypeOK, RowTypeOK, States, Copies

LEMMA CountsAre ==
  ASSUME NEW c \in Counts
  PROVE  /\ c.status \in Statuses /\ c.total \in Nat /\ c.processed \in Nat /\ c.failed \in Nat
         /\ \A st \in Statuses : /\ [c EXCEPT !.status = st] \in Counts
                                 /\ [c EXCEPT !.status = st].status = st
                                 /\ [c EXCEPT !.status = st].total = c.total
  BY DEF Counts

LEMMA StateIs ==
  ASSUME NEW s \in States
  PROVE  s.counts \in Counts /\ s.remaining \in SUBSET Paths /\ s.dropped \in Nat
  BY DEF States

LEMMA StatusesAre ==
  /\ Ended \subseteq Statuses /\ \A st : Going(st) => st \in Statuses /\ st # "none" /\ st \notin Ended
  /\ "none" \notin Ended /\ Absent \in Counts /\ NewState \in States
  /\ NewState.counts = Absent /\ Absent.status = "none"
  BY DEF Ended, Statuses, Going, Absent, Counts, NewState, States

LEMMA CopyIs ==
  ASSUME NEW f \in {"progress", "status"}, NEW b \in Batches, NEW c \in Counts
  PROVE  LET w == [form |-> f, batch |-> b, counts |-> c]
         IN  w \in Copies /\ w # Nothing /\ w.batch = b /\ w.counts = c
  BY DEF Copies, Nothing

\* A state with new counts and fewer files to wait for.
LEMMA StateWith ==
  ASSUME NEW b \in Batches, row \in [Batches -> States], NEW R \in SUBSET Paths, NEW C \in Counts
  PROVE  LET s == [counts |-> C, remaining |-> R, dropped |-> row[b].dropped]
         IN  /\ s \in States
             /\ [row EXCEPT ![b].remaining = R, ![b].counts = C] = [row EXCEPT ![b] = s]
<1> DEFINE s == [counts |-> C, remaining |-> R, dropped |-> row[b].dropped]
<1>1. row[b] \in States /\ s \in States
  BY StateIs DEF States
<1>2. [[row[b] EXCEPT !.remaining = R] EXCEPT !.counts = C] = s
  <2> DEFINE r == [row[b] EXCEPT !.remaining = R]
             t == [r EXCEPT !.counts = C]
  <2>1. r \in States /\ r.remaining = R /\ r.dropped = row[b].dropped
    BY <1>1 DEF States
  <2> HIDE DEF r
  <2>2. t \in States /\ t.counts = C /\ t.remaining = R /\ t.dropped = row[b].dropped
    BY <2>1 DEF States
  <2> HIDE DEF t
  <2>3. t = s
    BY <2>2, <1>1 DEF States
  <2> QED BY <2>3 DEF t, r
<1>3. [row EXCEPT ![b].remaining = R, ![b].counts = C]
        = [row EXCEPT ![b] = [[row[b] EXCEPT !.remaining = R] EXCEPT !.counts = C]]
  <2>1. [row EXCEPT ![b].remaining = R, ![b].counts = C]
          = [[row EXCEPT ![b] = [row[b] EXCEPT !.remaining = R]]
               EXCEPT ![b] = [[row[b] EXCEPT !.remaining = R] EXCEPT !.counts = C]]
    OBVIOUS
  <2> QED BY <2>1
<1> QED BY <1>1, <1>2, <1>3

\* A live row moves on: it never gains files, and its end is copied at once.
LEMMA RowMoves ==
  ASSUME BatchInv, NEW b \in live, NEW s \in States,
         s.counts.total <= row[b].counts.total,
         Going(s.counts.status) \/ s.counts.status \in Ended,
         row' = [row EXCEPT ![b] = s],
         live' = IF s.counts.status \in Ended THEN live \ {b} ELSE live,
         db' = db,
         \/ pending' = pending /\ s.counts.status \notin Ended
         \/ \E a \in Writers, f \in {"progress", "status"} : Writes(a, f, b, s.counts),
         submit[b] # "idle",
         \A c \in Batches : submit'[c] = "idle" => submit[c] = "idle"
  PROVE  /\ row' \in [Batches -> States] /\ pending' \in [Writers -> Copies \cup {Nothing}]
         /\ live' \subseteq Batches
         /\ IdleInv' /\ LiveInv' /\ LandInv'
<1> USE DEF BatchInv
<1>1. /\ b \in Batches /\ live \subseteq Batches /\ row \in [Batches -> States]
      /\ pending \in [Writers -> Copies \cup {Nothing}]
  BY DEF RowTypeOK
<1>2. /\ row' \in [Batches -> States] /\ row'[b] = s
      /\ \A c \in Batches : c # b => row'[c] = row[c]
  BY <1>1
<1>3. live' \subseteq Batches
  BY <1>1
<1>4. s.counts \in Counts /\ row[b].counts \in Counts
  BY <1>1, StateIs
<1>5. /\ pending' \in [Writers -> Copies \cup {Nothing}]
      /\ \A a \in Writers :
           \/ pending'[a] = pending[a]
           \/ pending'[a] # Nothing /\ pending'[a].batch = b /\ pending'[a].counts = s.counts
  <2>1. CASE pending' = pending
    BY <2>1, <1>1
  <2>2. ASSUME NEW a \in Writers, NEW f \in {"progress", "status"}, Writes(a, f, b, s.counts)
        PROVE  <1>5!1 /\ <1>5!2
    <3> DEFINE w == [form |-> f, batch |-> b, counts |-> s.counts]
    <3>1. w \in Copies /\ w # Nothing /\ w.batch = b /\ w.counts = s.counts
      BY <1>1, <1>4, CopyIs
    <3>2. pending' = [pending EXCEPT ![a] = w]
      BY <2>2 DEF Writes
    <3> HIDE DEF w
    <3> QED BY <3>1, <3>2, <1>1
  <2> QED BY <2>1, <2>2
\* Nothing happens to the other batches.
<1>6. \A a \in Writers, c \in Batches : c # b =>
        /\ IsOf(a, c)' => IsOf(a, c) /\ pending'[a] = pending[a]
        /\ c \in live' <=> c \in live
  BY <1>5 DEF IsOf
<1>7. s # NewState /\ row[b] # NewState
  BY StatusesAre DEF LiveInv
<1>8. IdleInv'
  BY <1>6 DEF IdleInv
<1>9. LiveInv'
  <2> SUFFICES ASSUME NEW c \in live'
               PROVE  /\ Going(row'[c].counts.status) /\ Going(db'[c].status)
                      /\ \A a \in Writers : IsOf(a, c)' => Going(pending'[a].counts.status)
    BY DEF LiveInv
  <2>1. CASE c = b
    <3>1. s.counts.status \notin Ended /\ Going(s.counts.status)
      BY <2>1
    <3> QED BY <2>1, <3>1, <1>2, <1>5 DEF LiveInv, IsOf
  <2>2. CASE c # b
    BY <2>2, <1>2, <1>3, <1>6 DEF LiveInv
  <2> QED BY <2>1, <2>2
<1>10. LandInv'
  <2> SUFFICES ASSUME NEW c \in Batches
               PROVE  /\ row'[c].counts.status = "none" => row'[c] = NewState
                      /\ \A a \in Writers : IsOf(a, c)' =>
                           /\ row'[c] # NewState
                           /\ pending'[a].counts.total >= row'[c].counts.total
                           /\ pending'[a].counts.status \in Ended => Same(pending'[a].counts, row'[c].counts)
                      /\ row'[c] # NewState =>
                           /\ db'[c].total >= row'[c].counts.total
                           /\ db'[c].status \in Ended => Same(db'[c], row'[c].counts)
    BY DEF LandInv, Same
  <2>1. CASE c # b
    BY <2>1, <1>2, <1>6 DEF LandInv
  <2>2. CASE c = b
    <3>1. s.counts.total \in Nat /\ row[b].counts.total \in Nat
      BY <1>4, CountsAre
    <3>2. ASSUME NEW a \in Writers, IsOf(a, b)'
          PROVE  /\ pending'[a].counts.total >= s.counts.total
                 /\ pending'[a].counts.status \in Ended => Same(pending'[a].counts, s.counts)
      <4>1. CASE pending'[a] = pending[a]
        <5>1. IsOf(a, b) /\ pending[a].counts \in Counts
          BY <3>2, <4>1, <1>1 DEF IsOf, Copies
        <5>2. pending[a].counts.total >= row[b].counts.total /\ pending[a].counts.total \in Nat
          BY <5>1, <1>1, CountsAre DEF LandInv
        <5>3. pending[a].counts.status \notin Ended
          BY <5>1, StatusesAre DEF LiveInv
        <5> QED BY <4>1, <5>2, <5>3, <3>1
      <4>2. CASE pending'[a].counts = s.counts
        BY <4>2, <3>1 DEF Same
      <4> QED BY <4>1, <4>2, <1>5
    <3>3. db[b].total >= row[b].counts.total /\ db[b].total \in Nat /\ db[b].status \notin Ended
      BY <1>1, <1>7, CountsAre, StatusesAre DEF LandInv, LiveInv, RowTypeOK
    <3>4. s.counts.status # "none"
      BY StatusesAre
    <3> QED BY <2>2, <3>1, <3>2, <3>3, <3>4, <1>2, <1>7
  <2> QED BY <2>1, <2>2
<1> QED BY <1>2, <1>3, <1>5, <1>8, <1>9, <1>10

\* Rows that do not move.
LEMMA RowStays ==
  ASSUME BatchInv, UNCHANGED <<row, live, pending, db>>,
         \A c \in Batches : submit'[c] = "idle" => submit[c] = "idle"
  PROVE  /\ row' \in [Batches -> States] /\ pending' \in [Writers -> Copies \cup {Nothing}]
         /\ live' \subseteq Batches
         /\ IdleInv' /\ LiveInv' /\ LandInv'
<1> USE DEF BatchInv
<1>1. IdleInv'
  BY DEF IdleInv, IsOf
<1>2. LiveInv'
  BY DEF LiveInv, IsOf
<1>3. LandInv'
  BY DEF LandInv, IsOf
<1> QED BY <1>1, <1>2, <1>3 DEF RowTypeOK
-----------------------------------------------------------------------------
\* What transitionStatus leaves.
LEMMA Transitions ==
  ASSUME BatchInv, NEW b \in Batches, NEW a \in Writers, NEW st \in Ended \cup {"running"},
         submit[b] # "idle", Transition(a, b, st), db' = db,
         \A c \in Batches : submit'[c] = "idle" => submit[c] = "idle"
  PROVE  /\ row' \in [Batches -> States] /\ pending' \in [Writers -> Copies \cup {Nothing}]
         /\ live' \subseteq Batches /\ live' \subseteq live
         /\ \A c \in live' : row'[c].counts.total = row[c].counts.total
         /\ IdleInv' /\ LiveInv' /\ LandInv'
<1>1. CASE b \notin live
  BY <1>1, RowStays DEF Transition
<1>2. CASE b \in live
  <2> DEFINE counts == [row[b].counts EXCEPT !.status = st]
             s == [row[b] EXCEPT !.counts = counts]
  <2>1. row[b] \in States /\ row \in [Batches -> States] /\ live \subseteq Batches
    BY DEF BatchInv, RowTypeOK
  <2>2. counts \in Counts /\ counts.status = st /\ counts.total = row[b].counts.total
    BY <2>1, StateIs, CountsAre DEF Statuses, Ended
  <2>3. row' = [row EXCEPT ![b].counts = counts] /\ Writes(a, "status", b, counts)
        /\ live' = IF st \in Ended THEN live \ {b} ELSE live
    BY <1>2 DEF Transition
  <2> HIDE DEF counts
  <2>4. s \in States /\ s.counts = counts
    BY <2>1, <2>2 DEF States
  <2>5. row' = [row EXCEPT ![b] = s]
    BY <2>1, <2>3
  <2> HIDE DEF s
  <2>6. s.counts.total <= row[b].counts.total
    BY <2>1, <2>2, <2>4, StateIs, CountsAre
  <2>7. Going(s.counts.status) \/ s.counts.status \in Ended
    BY <2>2, <2>4 DEF Going
  <2>8. live' = IF s.counts.status \in Ended THEN live \ {b} ELSE live
    BY <2>2, <2>3, <2>4
  <2>9. \E f \in {"progress", "status"} : Writes(a, f, b, s.counts)
    BY <2>3, <2>4
  <2>10. /\ row' \in [Batches -> States] /\ pending' \in [Writers -> Copies \cup {Nothing}]
         /\ live' \subseteq Batches
         /\ IdleInv' /\ LiveInv' /\ LandInv'
    BY <1>2, <2>4, <2>5, <2>6, <2>7, <2>8, <2>9, RowMoves
  <2>11. live' \subseteq live /\ \A c \in live' : row'[c].counts.total = row[c].counts.total
    BY <2>1, <2>2, <2>3, <2>4, <2>5
  <2> QED BY <2>10, <2>11
<1> QED BY <1>1, <1>2

LEMMA WritersAre ==
  ASSUME NEW b \in Batches
  PROVE  /\ <<"submit", b>> \in Writers /\ <<"cancel", b>> \in Writers /\ Publisher \in Writers
  BY DEF Writers

LEMMA SettleIs ==
  ASSUME NEW s, NEW v \in Ended
  PROVE  Settle(s, v) \in Ended
  BY DEF Settle, Ended

LEMMA FilesAre ==
  ASSUME NEW b \in Batches
  PROVE  /\ Files[b] \in Seq(Paths) /\ Len(Files[b]) \in Nat /\ ToSet(Files[b]) \in SUBSET Paths
         /\ Files[b] = <<>> <=> Len(Files[b]) = 0
         /\ \A i \in 1..Len(Files[b]) : Files[b][i] \in Paths
<1>1. Files[b] \in Seq(Paths)
  BY Constants
<1>2. DOMAIN Files[b] = 1..Len(Files[b]) /\ \A i \in 1..Len(Files[b]) : Files[b][i] \in Paths
  BY <1>1
<1>3. ToSet(Files[b]) \in SUBSET Paths
  BY <1>2 DEF ToSet
<1> QED BY <1>1, <1>2, <1>3

LEMMA Enrolls ==
  ASSUME BatchInv, NEW b \in Batches, Enroll(b)
  PROVE  BatchInv'
<1> USE DEF BatchInv
<1> DEFINE counts == [Absent EXCEPT !.status = "pending", !.total = Len(Files[b])]
           s == [NewState EXCEPT !.counts = counts, !.remaining = ToSet(Files[b])]
<1>1. /\ submit[b] = "idle" /\ submit' = [submit EXCEPT ![b] = "enrolled"]
      /\ row' = [row EXCEPT ![b] = s] /\ db' = [db EXCEPT ![b] = counts]
      /\ live' = live \cup {b} /\ UNCHANGED <<next, enqueued, pending>>
  BY DEF Enroll
<1>2. /\ counts \in Counts /\ counts.status = "pending" /\ counts.total = Len(Files[b])
      /\ s \in States /\ s.counts = counts
  BY FilesAre DEF Absent, Counts, Statuses, NewState, States
<1> HIDE DEF counts, s
<1>3. /\ row'[b] = s /\ db'[b] = counts /\ submit'[b] = "enrolled"
      /\ \A c \in Batches : c # b =>
           row'[c] = row[c] /\ db'[c] = db[c] /\ submit'[c] = submit[c] /\ (c \in live' <=> c \in live)
  BY <1>1 DEF RowTypeOK
<1>4. RowTypeOK'
  BY <1>1, <1>2 DEF RowTypeOK
<1>5. \A a \in Writers : ~IsOf(a, b)
  BY <1>1 DEF IdleInv
<1>6. \A a \in Writers, c \in Batches : IsOf(a, c)' <=> IsOf(a, c)
  BY <1>1 DEF IsOf
<1>7. IdleInv'
  BY <1>3, <1>6 DEF IdleInv
<1>8. LiveInv'
  <2>1. Going(counts.status)
    BY <1>2 DEF Going
  <2> QED BY <2>1, <1>1, <1>2, <1>3, <1>4, <1>5, <1>6 DEF LiveInv, RowTypeOK
<1>9. TotalInv'
  <2>1. next[b] = 1 /\ enqueued[b] = 0
    BY <1>1 DEF TotalInv
  <2> QED BY <2>1, <1>1, <1>2, <1>3, FilesAre DEF TotalInv
<1>10. LandInv'
  <2>1. counts.status \notin Ended /\ counts.total >= counts.total /\ counts.status # "none"
    BY <1>2, CountsAre DEF Ended
  <2>2. s # NewState
    BY <2>1, <1>2, StatusesAre
  <2>3. ASSUME NEW c \in Batches
        PROVE  /\ row'[c].counts.status = "none" => row'[c] = NewState
               /\ \A a \in Writers : IsOf(a, c)' =>
                    /\ row'[c] # NewState
                    /\ pending'[a].counts.total >= row'[c].counts.total
                    /\ pending'[a].counts.status \in Ended => Same(pending'[a].counts, row'[c].counts)
               /\ row'[c] # NewState =>
                    /\ db'[c].total >= row'[c].counts.total
                    /\ db'[c].status \in Ended => Same(db'[c], row'[c].counts)
    <3>1. CASE c = b
      BY <3>1, <2>1, <1>2, <1>3, <1>5, <1>6
    <3>2. CASE c # b
      BY <3>2, <1>1, <1>3, <1>6 DEF LandInv
    <3> QED BY <3>1, <3>2
  <2> QED BY <2>3 DEF LandInv, Same
<1> QED BY <1>4, <1>7, <1>8, <1>9, <1>10

LEMMA Promotes ==
  ASSUME BatchInv, NEW b \in Batches, Promote(b)
  PROVE  BatchInv'
<1> USE DEF BatchInv
<1> DEFINE st == IF Files[b] = <<>> THEN "completed" ELSE "running"
<1>1. /\ submit[b] = "enrolled"
      /\ submit' = [submit EXCEPT ![b] = IF Files[b] = <<>> THEN "over" ELSE "offering"]
      /\ Transition(<<"submit", b>>, b, st) /\ UNCHANGED <<next, enqueued, db>>
  BY DEF Promote
<1>2. /\ submit' \in [Batches -> {"idle", "enrolled", "offering", "duplicate", "refused", "draining", "over"}]
      /\ \A c \in Batches : c # b => submit'[c] = submit[c]
      /\ submit'[b] \in {"over", "offering"}
  BY <1>1 DEF RowTypeOK
<1>3. st \in Ended \cup {"running"}
  BY DEF Ended
<1> HIDE DEF st
<1>4. /\ row' \in [Batches -> States] /\ pending' \in [Writers -> Copies \cup {Nothing}]
      /\ live' \subseteq Batches /\ live' \subseteq live
      /\ \A c \in live' : row'[c].counts.total = row[c].counts.total
      /\ IdleInv' /\ LiveInv' /\ LandInv'
  BY <1>1, <1>2, <1>3, WritersAre, Transitions
<1>5. TotalInv'
  BY <1>1, <1>2, <1>4 DEF TotalInv
<1>6. RowTypeOK'
  BY <1>1, <1>2, <1>4 DEF RowTypeOK
<1> QED BY <1>4, <1>5, <1>6

LEMMA Cancels ==
  ASSUME BatchInv, NEW b \in Batches, Cancel(b)
  PROVE  BatchInv'
<1> USE DEF BatchInv
<1>1. /\ b \in live /\ Transition(<<"cancel", b>>, b, "cancelled") /\ UNCHANGED <<submit, next, enqueued, db>>
  BY DEF Cancel
<1>2. submit[b] # "idle"
  BY <1>1 DEF IdleInv
<1>3. /\ row' \in [Batches -> States] /\ pending' \in [Writers -> Copies \cup {Nothing}]
      /\ live' \subseteq Batches /\ live' \subseteq live
      /\ \A c \in live' : row'[c].counts.total = row[c].counts.total
      /\ IdleInv' /\ LiveInv' /\ LandInv'
  BY <1>1, <1>2, WritersAre, Transitions DEF Ended
<1>4. TotalInv'
  BY <1>1, <1>3 DEF TotalInv
<1>5. RowTypeOK'
  BY <1>1, <1>3 DEF RowTypeOK
<1> QED BY <1>3, <1>4, <1>5

LEMMA Completes ==
  ASSUME BatchInv, NEW b \in Batches, CompleteIfDrained(b)
  PROVE  BatchInv'
<1> USE DEF BatchInv
<1>1. /\ submit[b] \in {"draining", "offering"} /\ submit' = [submit EXCEPT ![b] = "over"]
      /\ UNCHANGED <<next, enqueued, db>>
      /\ \/ Transition(<<"submit", b>>, b, Settle(row[b], "completed"))
         \/ UNCHANGED <<row, live, pending>>
  BY DEF CompleteIfDrained
<1>2. /\ submit' \in [Batches -> {"idle", "enrolled", "offering", "duplicate", "refused", "draining", "over"}]
      /\ \A c \in Batches : c # b => submit'[c] = submit[c]
      /\ submit'[b] = "over"
  BY <1>1 DEF RowTypeOK
<1>3. /\ row' \in [Batches -> States] /\ pending' \in [Writers -> Copies \cup {Nothing}]
      /\ live' \subseteq Batches /\ live' \subseteq live
      /\ \A c \in live' : row'[c].counts.total = row[c].counts.total
      /\ IdleInv' /\ LiveInv' /\ LandInv'
  <2>1. CASE UNCHANGED <<row, live, pending>>
    BY <2>1, <1>1, <1>2, RowStays
  <2>2. CASE Transition(<<"submit", b>>, b, Settle(row[b], "completed"))
    <3>1. Settle(row[b], "completed") \in Ended
      BY SettleIs DEF Ended
    <3> QED BY <2>2, <3>1, <1>1, <1>2, WritersAre, Transitions
  <2> QED BY <2>1, <2>2, <1>1
<1>4. TotalInv'
  BY <1>1, <1>2, <1>3 DEF TotalInv
<1>5. RowTypeOK'
  BY <1>1, <1>2, <1>3 DEF RowTypeOK
<1> QED BY <1>3, <1>4, <1>5
LEMMA PoolStays ==
  ASSUME PoolInv, UNCHANGED poolVars
  PROVE  PoolInv'
<1> USE DEF PoolInv, poolVars
<1>1. \A v \in Workers : (Holding(v)' <=> Holding(v)) /\ (Holding(v) => work'[v].job = work[v].job)
  BY DEF Holding
<1>2. PoolTypeOK'
  BY DEF PoolTypeOK
<1> QED BY <1>1, <1>2, SameJobs

LEMMA Offers ==
  ASSUME IInv, NEW b \in Batches, Offer(b)
  PROVE  IInv'
<1> USE DEF IInv
<1> DEFINE p == Files[b][next[b]]
           l == LaneOf[b]
           took == /\ Accept(p, l, b)
                   /\ enqueued' = [enqueued EXCEPT ![b] = @ + 1]
                   /\ next'     = [next EXCEPT ![b] = @ + 1]
                   /\ UNCHANGED submit
           refused == /\ \E st \in {"duplicate", "refused"} : submit' = [submit EXCEPT ![b] = st]
                      /\ UNCHANGED <<poolVars, next, enqueued>>
<1>1. /\ submit[b] = "offering" /\ next[b] <= Len(Files[b])
      /\ UNCHANGED <<row, live, pending, db>>
      /\ took \/ refused
  BY DEF Offer
<1> HIDE DEF took, refused
<1>2. /\ submit \in [Batches -> {"idle", "enrolled", "offering", "duplicate", "refused", "draining", "over"}]
      /\ next \in [Batches -> Nat \ {0}] /\ enqueued \in [Batches -> Nat] /\ live \subseteq Batches
  BY DEF BatchInv, RowTypeOK
<1>3. p \in Paths /\ l \in Lanes /\ Len(Files[b]) \in Nat
  BY <1>1, <1>2, FilesAre, Constants
<1> HIDE DEF p, l
<1>4. PoolInv'
  BY <1>1, <1>3, Accepts, PoolStays DEF took, refused
<1>5. /\ submit' \in [Batches -> {"idle", "enrolled", "offering", "duplicate", "refused", "draining", "over"}]
      /\ next' \in [Batches -> Nat \ {0}] /\ enqueued' \in [Batches -> Nat]
      /\ \A c \in Batches : c # b => /\ submit'[c] = submit[c] /\ next'[c] = next[c]
                                     /\ enqueued'[c] = enqueued[c]
      /\ \/ submit'[b] = "offering" /\ next'[b] = next[b] + 1 /\ enqueued'[b] = enqueued[b] + 1
         \/ submit'[b] \in {"duplicate", "refused"} /\ next'[b] = next[b] /\ enqueued'[b] = enqueued[b]
  <2>1. CASE took
    BY <2>1, <1>1, <1>2 DEF took
  <2>2. CASE refused
    BY <2>2, <1>1, <1>2 DEF refused
  <2> QED BY <2>1, <2>2, <1>1
<1>6. /\ row' \in [Batches -> States] /\ pending' \in [Writers -> Copies \cup {Nothing}]
      /\ live' \subseteq Batches
      /\ IdleInv' /\ LiveInv' /\ LandInv'
  BY <1>1, <1>5, RowStays
<1>7. TotalInv'
  <2>1. \A c \in Batches : next[c] \in Nat /\ enqueued[c] \in Nat
    BY <1>2
  <2> SUFFICES ASSUME NEW c \in Batches
               PROVE  /\ submit'[c] = "idle" => next'[c] = 1 /\ enqueued'[c] = 0
                      /\ submit'[c] \in {"duplicate", "refused"} => next'[c] <= Len(Files[c])
                      /\ c \in live' /\ submit'[c] \in {"enrolled", "offering", "duplicate", "refused"} =>
                           row'[c].counts.total = Len(Files[c]) + 1 + enqueued'[c] - next'[c]
                      /\ submit'[c] \in {"enrolled", "offering"} => next'[c] <= Len(Files[c]) + 1
    BY DEF TotalInv
  <2>2. CASE c = b
    <3>1. b \in live => row[b].counts.total = Len(Files[b]) + 1 + enqueued[b] - next[b]
      BY <1>1 DEF BatchInv, TotalInv
    <3>2. b \in live => row'[b].counts.total = Len(Files[b]) + 1 + enqueued'[b] - next'[b]
      BY <2>1, <3>1, <1>1, <1>3, <1>5
    <3>3. next'[b] <= Len(Files[b]) + 1 /\ (submit'[b] # "offering" => next'[b] <= Len(Files[b]))
      BY <2>1, <1>1, <1>3, <1>5
    <3> QED BY <2>2, <3>2, <3>3, <1>1, <1>5
  <2>3. CASE c # b
    BY <2>3, <1>1, <1>5 DEF BatchInv, TotalInv
  <2> QED BY <2>2, <2>3
<1>8. RowTypeOK'
  BY <1>1, <1>5, <1>6 DEF BatchInv, RowTypeOK
<1> QED BY <1>4, <1>6, <1>7, <1>8 DEF BatchInv

LEMMA DropsDeduped ==
  ASSUME BatchInv, NEW b \in Batches, DropDedupedPath(b)
  PROVE  BatchInv'
<1> USE DEF BatchInv
<1>1. /\ submit[b] = "duplicate" /\ submit' = [submit EXCEPT ![b] = "offering"]
      /\ next' = [next EXCEPT ![b] = @ + 1] /\ UNCHANGED <<enqueued, live, pending, db>>
      /\ next[b] <= Len(Files[b])
  BY DEF DropDedupedPath, TotalInv
<1>2. /\ submit' \in [Batches -> {"idle", "enrolled", "offering", "duplicate", "refused", "draining", "over"}]
      /\ next' \in [Batches -> Nat \ {0}] /\ next[b] \in Nat /\ enqueued[b] \in Nat
      /\ \A c \in Batches : c # b => submit'[c] = submit[c] /\ next'[c] = next[c]
      /\ submit'[b] = "offering" /\ next'[b] = next[b] + 1
  BY <1>1 DEF RowTypeOK
<1>3. /\ row' \in [Batches -> States] /\ pending' \in [Writers -> Copies \cup {Nothing}]
      /\ live' \subseteq Batches
      /\ IdleInv' /\ LiveInv' /\ LandInv'
      /\ \A c \in live : c # b => row'[c] = row[c]
      /\ b \in live => row'[b].counts.total = row[b].counts.total - 1
  <2>1. CASE b \notin live
    <3>1. row' = row
      BY <2>1 DEF DropDedupedPath
    <3> QED BY <2>1, <3>1, <1>1, <1>2, RowStays
  <2>2. CASE b \in live
    <3> DEFINE rest   == row[b].remaining \ {Files[b][next[b]]}
               counts == [row[b].counts EXCEPT !.total = LessOne(row[b].counts.total)]
               s == [counts |-> counts, remaining |-> rest, dropped |-> row[b].dropped]
    <3>1. row[b] \in States /\ row \in [Batches -> States]
      BY DEF RowTypeOK
    <3>2. row' = [row EXCEPT ![b].remaining = rest, ![b].counts = counts]
      <4>1. row' = [row EXCEPT ![b].remaining = @ \ {Files[b][next[b]]}, ![b].counts.total = LessOne(@)]
        BY <2>2 DEF DropDedupedPath
      <4> QED BY <4>1, <3>1
    <3>3. rest \in SUBSET Paths
      BY <3>1, StateIs
    <3>4. /\ row[b].counts.total = Len(Files[b]) + 1 + enqueued[b] - next[b]
          /\ Len(Files[b]) \in Nat /\ row[b].counts.total \in Nat
      BY <2>2, <3>1, <1>1, FilesAre, StateIs, CountsAre DEF TotalInv
    <3>5. row[b].counts.total > 0
      BY <3>4, <1>1, <1>2
    <3>6. /\ counts.total = row[b].counts.total - 1 /\ counts.status = row[b].counts.status
          /\ counts \in Counts
      <4>1. LessOne(row[b].counts.total) = row[b].counts.total - 1 /\ row[b].counts.total - 1 \in Nat
        BY <3>4, <3>5 DEF LessOne
      <4> QED BY <4>1, <3>1, StateIs DEF Counts
    <3> HIDE DEF counts, rest
    <3>7. s \in States /\ s.counts = counts /\ row' = [row EXCEPT ![b] = s]
      BY <3>1, <3>2, <3>3, <3>6, <1>1, StateWith
    <3> HIDE DEF s
    <3>8. Going(s.counts.status) /\ s.counts.status \notin Ended
      BY <2>2, <3>6, <3>7, StatusesAre DEF LiveInv
    <3>9. s.counts.total <= row[b].counts.total
      BY <3>4, <3>6, <3>7
    <3>10. /\ row' \in [Batches -> States] /\ pending' \in [Writers -> Copies \cup {Nothing}]
           /\ live' \subseteq Batches
           /\ IdleInv' /\ LiveInv' /\ LandInv'
      BY <2>2, <3>7, <3>8, <3>9, <1>1, <1>2, RowMoves
    <3> QED BY <3>1, <3>6, <3>7, <3>10 DEF RowTypeOK
  <2> QED BY <2>1, <2>2
<1>4. TotalInv'
  <2> SUFFICES ASSUME NEW c \in Batches
               PROVE  /\ submit'[c] = "idle" => next'[c] = 1 /\ enqueued'[c] = 0
                      /\ submit'[c] \in {"duplicate", "refused"} => next'[c] <= Len(Files[c])
                      /\ c \in live' /\ submit'[c] \in {"enrolled", "offering", "duplicate", "refused"} =>
                           row'[c].counts.total = Len(Files[c]) + 1 + enqueued'[c] - next'[c]
                      /\ submit'[c] \in {"enrolled", "offering"} => next'[c] <= Len(Files[c]) + 1
    BY DEF TotalInv
  <2>1. CASE c = b
    <3>1. Len(Files[b]) \in Nat
      BY FilesAre
    <3>2. b \in live => row[b].counts.total = Len(Files[b]) + 1 + enqueued[b] - next[b]
      BY <1>1 DEF TotalInv
    <3>3. b \in live => row'[b].counts.total = Len(Files[b]) + 1 + enqueued'[b] - next'[b]
      <4>1. enqueued'[b] = enqueued[b] /\ next'[b] = next[b] + 1
        BY <1>1, <1>2
      <4>2. b \in live => row'[b].counts.total = row[b].counts.total - 1
        BY <1>3
      <4> QED BY <4>1, <4>2, <3>1, <3>2, <1>2
    <3>4. next'[b] <= Len(Files[b]) + 1
      BY <3>1, <1>1, <1>2
    <3> QED BY <2>1, <3>3, <3>4, <1>1, <1>2
  <2>2. CASE c # b
    BY <2>2, <1>1, <1>2, <1>3 DEF TotalInv
  <2> QED BY <2>1, <2>2
<1>5. RowTypeOK'
  BY <1>1, <1>2, <1>3 DEF RowTypeOK
<1> QED BY <1>3, <1>4, <1>5

LEMMA Truncates ==
  ASSUME BatchInv, NEW b \in Batches, Truncate(b)
  PROVE  BatchInv'
<1> USE DEF BatchInv
<1>1. /\ submit[b] = "refused" /\ submit' = [submit EXCEPT ![b] = "draining"]
      /\ UNCHANGED <<next, enqueued, db>>
      /\ next[b] <= Len(Files[b])
  BY DEF Truncate, TotalInv
<1>2. /\ submit' \in [Batches -> {"idle", "enrolled", "offering", "duplicate", "refused", "draining", "over"}]
      /\ next[b] \in Nat /\ enqueued[b] \in Nat
      /\ \A c \in Batches : c # b => submit'[c] = submit[c]
      /\ submit'[b] = "draining"
  BY <1>1 DEF RowTypeOK
<1>3. /\ row' \in [Batches -> States] /\ pending' \in [Writers -> Copies \cup {Nothing}]
      /\ live' \subseteq Batches /\ live' \subseteq live
      /\ IdleInv' /\ LiveInv' /\ LandInv'
      /\ \A c \in live : c # b => row'[c] = row[c]
  <2>1. CASE b \notin live
    <3>1. UNCHANGED <<row, live, pending>>
      BY <2>1 DEF Truncate
    <3> QED BY <2>1, <3>1, <1>1, <1>2, RowStays
  <2>2. CASE b \in live
    <3> DEFINE rest   == row[b].remaining \ ToSet(SubSeq(Files[b], next[b], Len(Files[b])))
               st     == IF rest = {} THEN Settle(row[b], "failed") ELSE row[b].counts.status
               counts == [row[b].counts EXCEPT !.total = TruncatedTotal(b), !.status = st]
               s      == [counts |-> counts, remaining |-> rest, dropped |-> row[b].dropped]
    <3>1. row[b] \in States /\ row \in [Batches -> States]
      BY DEF RowTypeOK
    <3>2. /\ row' = [row EXCEPT ![b].remaining = rest, ![b].counts = counts]
          /\ live' = IF rest = {} THEN live \ {b} ELSE live
          /\ Writes(<<"submit", b>>, "progress", b, counts)
      BY <2>2, Zenon DEF Truncate
    <3>3. rest \in SUBSET Paths
      BY <3>1, StateIs
    <3>4. /\ Going(row[b].counts.status) /\ row[b].counts.status \in Statuses
          /\ rest = {} => st \in Ended
          /\ rest # {} => st = row[b].counts.status
      BY <2>2, StatusesAre, SettleIs DEF LiveInv, Ended
    <3> HIDE DEF rest
    <3>5. st \in Statuses
      BY <3>4, StatusesAre
    <3> HIDE DEF st
    <3>6. counts \in Counts /\ counts.status = st /\ counts.total = enqueued[b]
      BY <3>1, <3>5, <1>2, StateIs DEF Counts, TruncatedTotal
    <3> HIDE DEF counts
    <3>7. row' = [row EXCEPT ![b] = s]
      BY <3>1, <3>2, <3>3, <3>6, StateWith
    <3>8. s \in States /\ s.counts = counts
      BY <3>1, <3>3, <3>6, StateWith
    <3> HIDE DEF s
    <3>9. /\ row[b].counts.total = Len(Files[b]) + 1 + enqueued[b] - next[b]
          /\ Len(Files[b]) \in Nat
      BY <2>2, <1>1, FilesAre DEF TotalInv
    <3>10. s.counts.total <= row[b].counts.total
      BY <3>6, <3>8, <3>9, <1>1, <1>2
    <3>11. /\ Going(s.counts.status) \/ s.counts.status \in Ended
           /\ live' = IF s.counts.status \in Ended THEN live \ {b} ELSE live
      BY <3>2, <3>4, <3>6, <3>8, StatusesAre
    <3>12. \E a \in Writers, f \in {"progress", "status"} : Writes(a, f, b, s.counts)
      BY <3>2, <3>8, WritersAre
    <3>13. /\ row' \in [Batches -> States] /\ pending' \in [Writers -> Copies \cup {Nothing}]
           /\ live' \subseteq Batches
           /\ IdleInv' /\ LiveInv' /\ LandInv'
      BY <2>2, <3>7, <3>8, <3>10, <3>11, <3>12, <1>1, <1>2, RowMoves
    <3> QED BY <3>2, <3>7, <3>13 DEF RowTypeOK
  <2> QED BY <2>1, <2>2
<1>4. TotalInv'
  BY <1>1, <1>2, <1>3 DEF TotalInv
<1>5. RowTypeOK'
  BY <1>1, <1>2, <1>3 DEF RowTypeOK
<1> QED BY <1>3, <1>4, <1>5
\* What a callback makes of a row.
LEMMA CountedIs ==
  ASSUME NEW o \in Outcomes, NEW b \in Batches, NEW p, row[b] \in States
  PROVE  LET s == Counted(o, b, p)
         IN  /\ s \in States /\ s.counts.total = row[b].counts.total
             /\ s.remaining = {} => s.counts.status \in Ended
             /\ s.remaining # {} => s.counts.status = row[b].counts.status
<1> DEFINE counts == [row[b].counts EXCEPT !.processed = IF o = "done" THEN @ + 1 ELSE @,
                                           !.failed    = IF o = "failed" THEN @ + 1 ELSE @]
           rest == row[b].remaining \ {p}
           dropped == row[b].dropped + (IF o = "dropped" THEN 1 ELSE 0)
           state == [counts |-> counts, remaining |-> rest, dropped |-> dropped]
           st == Settle(state, Verdict(o, counts))
           ended == [state EXCEPT !.counts.status = st]
           s == Counted(o, b, p)
<1>1. s = IF rest = {} THEN ended ELSE state
  BY DEF Counted
<1>2. rest \in SUBSET Paths /\ dropped \in Nat
  BY StateIs
<1>3. counts \in Counts /\ counts.total = row[b].counts.total /\ counts.status = row[b].counts.status
  <2>1. row[b].counts \in Counts
    BY StateIs
  <2> DEFINE n == IF o = "done" THEN row[b].counts.processed + 1 ELSE row[b].counts.processed
             m == IF o = "failed" THEN row[b].counts.failed + 1 ELSE row[b].counts.failed
  <2>2. n \in Nat /\ m \in Nat
    BY <2>1, CountsAre
  <2>3. counts = [row[b].counts EXCEPT !.processed = n, !.failed = m]
    OBVIOUS
  <2> HIDE DEF n, m, counts
  <2> QED BY <2>1, <2>2, <2>3 DEF Counts
<1>4. st \in Ended
  BY SettleIs DEF Verdict, Ended
<1> HIDE DEF counts, rest, dropped, st
<1>5. state \in States /\ state.counts = counts /\ state.remaining = rest /\ state.dropped = dropped
  BY <1>2, <1>3 DEF States
<1>6. ended \in States /\ ended.counts.status = st /\ ended.counts.total = counts.total /\ ended.remaining = rest
  <2>1. [counts EXCEPT !.status = st] \in Counts /\ [counts EXCEPT !.status = st].status = st
        /\ [counts EXCEPT !.status = st].total = counts.total
    BY <1>3, <1>4, CountsAre, StatusesAre
  <2>2. ended = [state EXCEPT !.counts = [counts EXCEPT !.status = st]]
    OBVIOUS
  <2> HIDE DEF state, ended
  <2> DEFINE c == [counts EXCEPT !.status = st]
  <2>3. ended = [state EXCEPT !.counts = c]
    BY <2>2
  <2> HIDE DEF c
  <2>4. c \in Counts
    BY <2>1 DEF c
  <2>5. [state EXCEPT !.counts = c] \in States /\ [state EXCEPT !.counts = c].counts = c
        /\ [state EXCEPT !.counts = c].remaining = state.remaining
    BY <2>4, <1>5 DEF States
  <2> QED BY <2>1, <2>3, <2>5, <1>5 DEF c
<1> HIDE DEF state, ended
<1>7. CASE rest = {}
  BY <1>1, <1>3, <1>4, <1>6, <1>7
<1>8. CASE rest # {}
  BY <1>1, <1>3, <1>5, <1>8
<1> QED BY <1>7, <1>8

LEMMA Hears ==
  ASSUME IInv, NEW o \in Outcomes, OnJob(o)
  PROVE  IInv'
<1> USE DEF IInv
<1> DEFINE e == Head(channel[o])
           b == e.batch
           s == Counted(o, b, e.path)
           heard == /\ Heard(o, e)
                    /\ row' = [row EXCEPT ![b] = s]
                    /\ live' = IF s.remaining = {} THEN live \ {b} ELSE live
                    /\ \/ Writes(Publisher, "progress", b, s.counts)
                       \/ s.remaining # {} /\ UNCHANGED pending
<1>1. /\ Receive(o) /\ UNCHANGED <<submit, next, enqueued, db>>
      /\ heard \/ UNCHANGED <<row, live, pending>>
  BY Zenon DEF OnJob
<1>2. PoolInv'
  BY <1>1, Received
<1>3. /\ row' \in [Batches -> States] /\ pending' \in [Writers -> Copies \cup {Nothing}]
      /\ live' \subseteq Batches /\ live' \subseteq live
      /\ IdleInv' /\ LiveInv' /\ LandInv'
      /\ \A c \in live : row'[c].counts.total = row[c].counts.total
  <2>1. CASE UNCHANGED <<row, live, pending>>
    BY <2>1, <1>1, RowStays DEF BatchInv, RowTypeOK
  <2>2. CASE heard
    <3>1. b \in live /\ b \in Batches /\ row \in [Batches -> States] /\ row[b] \in States /\ live \subseteq Batches
      BY <2>2 DEF Heard, BatchInv, RowTypeOK
    <3>2. /\ s \in States /\ s.counts.total = row[b].counts.total
          /\ s.remaining = {} => s.counts.status \in Ended
          /\ s.remaining # {} => s.counts.status = row[b].counts.status
      BY <3>1, CountedIs
    <3> HIDE DEF s, b
    <3>3. Going(row[b].counts.status) /\ submit[b] # "idle"
      BY <3>1 DEF BatchInv, LiveInv, IdleInv
    <3>4. s.counts.total <= row[b].counts.total
      BY <3>1, <3>2, StateIs, CountsAre
    <3>5. /\ Going(s.counts.status) \/ s.counts.status \in Ended
          /\ live' = IF s.counts.status \in Ended THEN live \ {b} ELSE live
      BY <2>2, <3>2, <3>3, StatusesAre
    <3>6. \/ pending' = pending /\ s.counts.status \notin Ended
          \/ \E a \in Writers, f \in {"progress", "status"} : Writes(a, f, b, s.counts)
      BY <2>2, <3>1, <3>2, <3>3, StatusesAre, WritersAre
    <3>7. /\ row' \in [Batches -> States] /\ pending' \in [Writers -> Copies \cup {Nothing}]
          /\ live' \subseteq Batches
          /\ IdleInv' /\ LiveInv' /\ LandInv'
      BY <2>2, <3>1, <3>2, <3>3, <3>4, <3>5, <3>6, <1>1, RowMoves
    <3> QED BY <2>2, <3>1, <3>2, <3>7
  <2> QED BY <2>1, <2>2, <1>1
<1>4. TotalInv'
  BY <1>1, <1>3 DEF BatchInv, TotalInv
<1>5. RowTypeOK'
  BY <1>1, <1>3 DEF BatchInv, RowTypeOK
<1> QED BY <1>2, <1>3, <1>4, <1>5 DEF BatchInv

\* What a copy leaves in the row it lands on.
LEMMA LandedIs ==
  ASSUME NEW old \in Counts, NEW w \in Copies
  PROVE  /\ Landed(old, w) \in Counts /\ Landed(old, w).status = w.counts.status
         /\ Landed(old, w).total = IF old.total > w.counts.total THEN w.counts.total ELSE old.total
  BY DEF Landed, Counts, Copies

LEMMA Persists ==
  ASSUME BatchInv, NEW a \in Writers, Persist(a)
  PROVE  BatchInv'
<1> USE DEF BatchInv
<1> DEFINE w == pending[a]
           b == w.batch
<1>1. /\ pending \in [Writers -> Copies \cup {Nothing}] /\ db \in [Batches -> Counts]
      /\ row \in [Batches -> States] /\ live \subseteq Batches
  BY DEF RowTypeOK
<1>2. /\ w # Nothing /\ pending' = [pending EXCEPT ![a] = Nothing]
      /\ UNCHANGED <<submit, next, enqueued, row, live>>
      /\ db' = IF Writable(db[b]) THEN [db EXCEPT ![b] = Landed(db[b], w)] ELSE db
  BY DEF Persist
<1>3. w \in Copies /\ b \in Batches /\ IsOf(a, b) /\ w.counts \in Counts
  BY <1>1, <1>2 DEF Copies, IsOf
<1> HIDE DEF w, b
<1>4. \A v \in Writers, c \in Batches : IsOf(v, c)' => IsOf(v, c) /\ pending'[v] = pending[v]
  BY <1>1, <1>2 DEF IsOf
<1>5. \A c \in Batches : c # b => db'[c] = db[c]
  BY <1>1, <1>2
<1>6. \/ db'[b] = db[b]
      \/ /\ db[b].status \notin Ended /\ db'[b].status = w.counts.status
         /\ db'[b].total = IF db[b].total > w.counts.total THEN w.counts.total ELSE db[b].total
  BY <1>1, <1>2, <1>3, LandedIs DEF Writable
<1>7. /\ db' \in [Batches -> Counts] /\ pending' \in [Writers -> Copies \cup {Nothing}]
  BY <1>1, <1>2, <1>3, LandedIs
<1>8. RowTypeOK'
  BY <1>2, <1>7 DEF RowTypeOK
<1>9. IdleInv'
  <2>1. submit[b] # "idle"
    BY <1>3 DEF IdleInv
  <2> QED BY <2>1, <1>2, <1>4, <1>5 DEF IdleInv
<1>10. LiveInv'
  <2>1. b \in live => Going(w.counts.status)
    BY <1>3 DEF LiveInv, w
  <2> QED BY <2>1, <1>1, <1>2, <1>4, <1>5, <1>6 DEF LiveInv
<1>11. TotalInv'
  BY <1>2 DEF TotalInv
<1>12. LandInv'
  <2> SUFFICES ASSUME NEW c \in Batches
               PROVE  /\ row[c].counts.status = "none" => row[c] = NewState
                      /\ \A v \in Writers : IsOf(v, c)' =>
                           /\ row[c] # NewState
                           /\ pending'[v].counts.total >= row[c].counts.total
                           /\ pending'[v].counts.status \in Ended => Same(pending'[v].counts, row[c].counts)
                      /\ row[c] # NewState =>
                           /\ db'[c].total >= row[c].counts.total
                           /\ db'[c].status \in Ended => Same(db'[c], row[c].counts)
    BY <1>2 DEF LandInv, Same
  <2>1. \A v \in Writers : IsOf(v, c)' =>
          /\ row[c] # NewState
          /\ pending'[v].counts.total >= row[c].counts.total
          /\ pending'[v].counts.status \in Ended => Same(pending'[v].counts, row[c].counts)
    BY <1>4 DEF LandInv
  <2>2. CASE c # b \/ db'[c] = db[c]
    BY <2>1, <2>2, <1>5 DEF LandInv
  <2>3. CASE c = b /\ db'[b] # db[b]
    <3>1. /\ row[b] # NewState /\ w.counts.total >= row[b].counts.total
          /\ w.counts.status \in Ended => Same(w.counts, row[b].counts)
          /\ db[b].total >= row[b].counts.total
      BY <1>3 DEF LandInv, w
    <3>2. w.counts.total \in Nat /\ row[b].counts.total \in Nat /\ db[b].total \in Nat
      BY <1>1, <1>3, StateIs, CountsAre
    <3>3. db'[b].total >= row[b].counts.total
      BY <2>3, <3>1, <3>2, <1>6
    <3>4. db'[b].status \in Ended => Same(db'[b], row[b].counts)
      BY <2>3, <3>1, <3>2, <1>6 DEF Same
    <3> QED BY <2>1, <2>3, <3>3, <3>4 DEF LandInv
  <2> QED BY <2>2, <2>3
<1> QED BY <1>8, <1>9, <1>10, <1>11, <1>12
LEMMA BatchesStart == Init => BatchInv
<1> SUFFICES ASSUME Init PROVE BatchInv
  OBVIOUS
<1> USE DEF Init
<1>1. RowTypeOK
  <2>1. row \in [Batches -> States] /\ db \in [Batches -> Counts]
    BY StatusesAre
  <2>2. pending \in [Writers -> Copies \cup {Nothing}]
    OBVIOUS
  <2> QED BY <2>1, <2>2 DEF RowTypeOK
<1>2. IdleInv
  BY DEF IdleInv, IsOf
<1>3. LiveInv
  BY DEF LiveInv
<1>4. TotalInv
  BY DEF TotalInv
<1>5. LandInv
  BY DEF LandInv, IsOf
<1> QED BY <1>1, <1>2, <1>3, <1>4, <1>5 DEF BatchInv

LEMMA Restarts ==
  ASSUME IInv, Restart
  PROVE  IInv'
<1>1. PoolInit'
  BY DEF Restart, PoolInit
<1>2. PoolInit' => PoolInv'
  BY PoolStarts, PTL
<1> DEFINE ended(b) == [db[b] EXCEPT !.status = "interrupted"]
<1>3. /\ row' = [b \in Batches |-> NewState] /\ live' = {} /\ pending' = [a \in Writers |-> Nothing]
      /\ submit' = [b \in Batches |-> IF submit[b] = "idle" THEN "idle" ELSE "over"]
      /\ next' = [b \in Batches |-> 1] /\ enqueued' = [b \in Batches |-> 0]
      /\ db' = [b \in Batches |-> IF Going(db[b].status) THEN ended(b) ELSE db[b]]
  BY DEF Restart, Going
<1>4. db \in [Batches -> Counts] /\ \A b \in Batches : submit[b] = "idle" => db[b] = Absent
  BY DEF IInv, BatchInv, RowTypeOK, IdleInv
<1>5. \A b \in Batches : ended(b) \in Counts
  BY <1>4, CountsAre DEF Statuses, Ended
<1> HIDE DEF ended
<1>6. RowTypeOK'
  <2>1. db' \in [Batches -> Counts]
    BY <1>3, <1>4, <1>5
  <2>2. row' \in [Batches -> States] /\ pending' \in [Writers -> Copies \cup {Nothing}]
    BY <1>3, StatusesAre
  <2>3. submit' \in [Batches -> {"idle", "enrolled", "offering", "duplicate", "refused", "draining", "over"}]
    BY <1>3
  <2> QED BY <2>1, <2>2, <2>3, <1>3 DEF RowTypeOK
<1>7. \A a \in Writers, b \in Batches : ~IsOf(a, b)'
  BY <1>3 DEF IsOf
<1>8. IdleInv'
  <2>1. ~Going(Absent.status)
    BY DEF Going, Absent
  <2> QED BY <2>1, <1>3, <1>4, <1>7 DEF IdleInv
<1>9. LiveInv' /\ TotalInv'
  BY <1>3 DEF LiveInv, TotalInv
<1>10. LandInv'
  BY <1>3, <1>7 DEF LandInv
<1> QED BY <1>1, <1>2, <1>6, <1>8, <1>9, <1>10 DEF IInv, BatchInv

LEMMA BatchStays ==
  ASSUME BatchInv, UNCHANGED batchVars
  PROVE  BatchInv'
<1> USE DEF BatchInv, batchVars
<1>1. row' \in [Batches -> States] /\ IdleInv' /\ LiveInv' /\ LandInv'
  BY RowStays
<1>2. RowTypeOK' /\ TotalInv'
  BY DEF RowTypeOK, TotalInv
<1> QED BY <1>1, <1>2

LEMMA PoolSteps ==
  ASSUME PoolInv, PoolAlone
  PROVE  PoolInv'
<1>1. ASSUME NEW w \in Workers, Worker(w) PROVE PoolInv'
  BY <1>1, Taken, RunEnded, Finished, Announced DEF Worker
<1>2. ASSUME NEW p \in Paths, NEW l \in Lanes, EnqueueOne(p, l) PROVE PoolInv'
  BY <1>2, Accepts DEF EnqueueOne
<1>3. ASSUME NEW sources \in SUBSET Paths, DropInflight(sources) PROVE PoolInv'
  BY <1>3, Disowned
<1>4. ASSUME Stop PROVE PoolInv'
  BY <1>4, Stopped
<1> QED BY <1>1, <1>2, <1>3, <1>4 DEF PoolAlone

LEMMA InvStarts == Init => IInv
<1>1. Init => PoolInit
  BY DEF Init
<1> QED BY <1>1, PoolStarts, BatchesStart DEF IInv

LEMMA InvStays ==
  ASSUME IInv, [Next]_vars
  PROVE  IInv'
<1> USE DEF IInv
<1>1. ASSUME PoolAlone, UNCHANGED batchVars PROVE IInv'
  BY <1>1, PoolSteps, BatchStays
<1>2. ASSUME NEW b \in Batches, Enroll(b) PROVE IInv'
  BY <1>2, Enrolls, PoolStays DEF Enroll
<1>3. ASSUME NEW b \in Batches, Submission(b) PROVE IInv'
  <2>1. CASE Promote(b)
    BY <2>1, Promotes, PoolStays DEF Promote
  <2>2. CASE Offer(b)
    BY <2>2, Offers
  <2>3. CASE DropDedupedPath(b)
    BY <2>3, DropsDeduped, PoolStays DEF DropDedupedPath
  <2>4. CASE Truncate(b)
    BY <2>4, Truncates, PoolStays DEF Truncate
  <2>5. CASE CompleteIfDrained(b)
    BY <2>5, Completes, PoolStays DEF CompleteIfDrained
  <2> QED BY <1>3, <2>1, <2>2, <2>3, <2>4, <2>5 DEF Submission
<1>4. ASSUME NEW b \in Batches, Cancel(b) PROVE IInv'
  BY <1>4, Cancels, PoolStays DEF Cancel
<1>5. ASSUME Callbacks PROVE IInv'
  BY <1>5, Hears DEF Callbacks
<1>6. ASSUME NEW a \in Writers, Persist(a) PROVE IInv'
  BY <1>6, Persists, PoolStays DEF Persist
<1>7. ASSUME Restart PROVE IInv'
  BY <1>7, Restarts
<1>8. ASSUME UNCHANGED vars PROVE IInv'
  BY <1>8, PoolStays, BatchStays DEF vars
<1> QED BY <1>1, <1>2, <1>3, <1>4, <1>5, <1>6, <1>7, <1>8 DEF Next

LEMMA InvHolds == Spec => []IInv
<1>1. IInv /\ [Next]_vars => IInv'
  BY InvStays
<1> QED BY InvStarts, <1>1, PTL DEF Spec

-----------------------------------------------------------------------------
(***************************************************************************)
(* The sums of a batch: what it waits for is what it will be told of and   *)
(* what its submission has not settled, and the two have no file in common.*)
(***************************************************************************)
\* The place i of x tells batch b of p, when it is emptied: a place of a lane, a
\* worker, or a place of a channel.
InLane(l, i, b, p)    == l \in Lanes /\ i \in 1..Len(lane[l]) /\ lane[l][i].batch = b /\ lane[l][i].path = p
AtWorker(w, b, p)     == w \in Workers /\ work[w].stage # "idle" /\ work[w].job.batch = b /\ work[w].job.path = p
InChannel(o, i, b, p) == o \in Outcomes /\ i \in 1..Len(channel[o]) /\ channel[o][i].batch = b
                           /\ channel[o][i].path = p

Tells(k, x, i, b, p) ==
  \/ k = "lane" /\ InLane(x, i, b, p)
  \/ k = "work" /\ i = 0 /\ AtWorker(x, b, p)
  \/ k = "channel" /\ InChannel(x, i, b, p)

\* The files b is still to be told of.
Told(b) == {p \in Paths : \E k, x, i : Tells(k, x, i, b, p)}

\* A batch is told of a file once.
OnceInv ==
  \A b \in Batches, p \in Paths : \A k, x, i, m, y, j :
    Tells(k, x, i, b, p) /\ Tells(m, y, j, b, p) => k = m /\ x = y /\ i = j

\* Only a pool that stops lets a job go without an outcome.
NoneInv ==
  \A w \in Workers : work[w].stage = "decided" /\ work[w].outcome = "none" => closed

\* What the pool owes the batches.
TellInv == OnceInv /\ NoneInv

\* The files that were offered, and those that come.
Before(b, n) == {Files[b][i] : i \in 1..(n - 1)}
From(b, n)   == {Files[b][i] : i \in n..Len(Files[b])}

\* The files the submission of a batch has yet to settle.
Unsettled(b) == IF submit[b] \in {"draining", "over"} THEN {} ELSE From(b, next[b])

\* What the counters of s and what it waits for make up.
Makes(s) == /\ IsFiniteSet(s.remaining)
            /\ s.counts.total = s.counts.processed + s.counts.failed + s.dropped + Cardinality(s.remaining)

\* A live batch waits for what it will be told of and for what is not settled.
WaitInv(b) ==
  /\ Makes(row[b])
  /\ Unsettled(b) \cup Told(b) \subseteq row[b].remaining
  /\ closed \/ row[b].remaining = Unsettled(b) \cup Told(b)
  /\ submit[b] = "over" => row[b].remaining # {}

SumInv ==
  /\ TellInv
  /\ \A b \in Batches : Told(b) \subseteq Before(b, next[b])
  /\ \A b \in live : WaitInv(b)
-----------------------------------------------------------------------------
\* The files of a batch, from one on.
LEMMA FromIs ==
  ASSUME NEW b \in Batches, NEW n \in Nat \ {0}
  PROVE  /\ n <= Len(Files[b]) =>
              /\ Files[b][n] \in Paths /\ Files[b][n] \in From(b, n)
              /\ Files[b][n] \notin From(b, n + 1) /\ Files[b][n] \notin Before(b, n)
              /\ From(b, n) = From(b, n + 1) \cup {Files[b][n]}
              /\ Before(b, n + 1) = Before(b, n) \cup {Files[b][n]}
         /\ Before(b, n) \cap From(b, n) = {}
         /\ From(b, n) \subseteq Paths
         /\ n > Len(Files[b]) => From(b, n) = {}
<1>1. /\ Len(Files[b]) \in Nat
      /\ \A i \in 1..Len(Files[b]) : Files[b][i] \in Paths
  BY FilesAre
<1>2. \A i, j \in 1..Len(Files[b]) : Files[b][i] = Files[b][j] => i = j
  <2>1. DOMAIN Files[b] = 1..Len(Files[b])
    BY FilesAre
  <2> QED BY <2>1, BatchAssumption DEF IsInjective
<1>3. Before(b, n) \cap From(b, n) = {}
  <2> SUFFICES ASSUME NEW p, p \in Before(b, n), p \in From(b, n) PROVE FALSE
    OBVIOUS
  <2>1. PICK i \in 1..(n - 1) : p = Files[b][i]
    BY DEF Before
  <2>2. PICK j \in n..Len(Files[b]) : p = Files[b][j]
    BY DEF From
  <2>3. j \in 1..Len(Files[b]) /\ i \in 1..Len(Files[b]) /\ i # j
    BY <1>1
  <2> QED BY <2>1, <2>2, <2>3, <1>2
<1>4. From(b, n) \subseteq Paths
  BY <1>1 DEF From
<1>5. n > Len(Files[b]) => From(b, n) = {}
  BY <1>1 DEF From
<1>6. ASSUME n <= Len(Files[b])
      PROVE  /\ Files[b][n] \in Paths /\ Files[b][n] \in From(b, n)
             /\ Files[b][n] \notin From(b, n + 1) /\ Files[b][n] \notin Before(b, n)
             /\ From(b, n) = From(b, n + 1) \cup {Files[b][n]}
             /\ Before(b, n + 1) = Before(b, n) \cup {Files[b][n]}
  <2>1. n \in 1..Len(Files[b]) /\ n..Len(Files[b]) = ((n + 1)..Len(Files[b])) \cup {n}
        /\ 1..n = (1..(n - 1)) \cup {n} /\ (n + 1) - 1 = n
    BY <1>1, <1>6
  <2>2. From(b, n) = From(b, n + 1) \cup {Files[b][n]}
    BY <2>1 DEF From
  <2>3. Before(b, n + 1) = Before(b, n) \cup {Files[b][n]}
    BY <2>1 DEF Before
  <2>4. Files[b][n] \notin From(b, n + 1)
    BY <2>1, <1>1, <1>2 DEF From
  <2>5. Files[b][n] \notin Before(b, n)
    BY <2>1, <1>1, <1>2 DEF Before
  <2> QED BY <2>1, <2>2, <2>3, <2>4, <2>5, <1>1
<1> QED BY <1>3, <1>4, <1>5, <1>6

\* They are as many as there are places.
LEMMA FromCounts ==
  ASSUME NEW b \in Batches, NEW n \in Nat \ {0}, n <= Len(Files[b]) + 1
  PROVE  IsFiniteSet(From(b, n)) /\ Cardinality(From(b, n)) = Len(Files[b]) + 1 - n
<1> DEFINE I == n..Len(Files[b])
           f == [i \in I |-> Files[b][i]]
<1>1. Len(Files[b]) \in Nat
  BY FilesAre
<1>2. \A i, j \in 1..Len(Files[b]) : Files[b][i] = Files[b][j] => i = j
  <2>1. DOMAIN Files[b] = 1..Len(Files[b])
    BY FilesAre
  <2> QED BY <2>1, BatchAssumption DEF IsInjective
<1>3. IsFiniteSet(I) /\ Cardinality(I) = Len(Files[b]) + 1 - n
  <2>1. n \in Int /\ Len(Files[b]) \in Int
    BY <1>1
  <2>2. IsFiniteSet(I) /\ Cardinality(I) = IF n > Len(Files[b]) THEN 0 ELSE Len(Files[b]) - n + 1
    BY <2>1, FS_Interval
  <2> QED BY <2>2, <1>1
<1>4. f \in Bijection(I, From(b, n))
  <2>1. f \in [I -> From(b, n)]
    BY DEF From
  <2>2. \A i, j \in I : f[i] = f[j] => i = j
    BY <1>1, <1>2
  <2>3. \A p \in From(b, n) : \E i \in I : f[i] = p
    BY DEF From
  <2> HIDE DEF f, I
  <2>4. f \in Injection(I, From(b, n))
    BY <2>1, <2>2 DEF Injection, IsInjective
  <2>5. f \in Surjection(I, From(b, n))
    BY <2>1, <2>3 DEF Surjection
  <2> QED BY <2>4, <2>5 DEF Bijection
<1>5. ExistsBijection(I, From(b, n))
  BY <1>4 DEF ExistsBijection
<1> HIDE DEF I, f
<1> QED BY <1>3, <1>5, FS_Bijection

\* The slice the code cuts holds them.
LEMMA SliceIs ==
  ASSUME NEW b \in Batches, NEW n \in Nat \ {0}, n <= Len(Files[b]) + 1
  PROVE  ToSet(SubSeq(Files[b], n, Len(Files[b]))) = From(b, n)
<1> DEFINE N == Len(Files[b])
           s == SubSeq(Files[b], n, N)
<1>1. N \in Nat /\ Files[b] \in Seq(Paths)
  BY FilesAre
<1>2. s \in Seq(Paths) /\ Len(s) = N + 1 - n /\ \A i \in 1..(N + 1 - n) : s[i] = Files[b][n + i - 1]
  BY <1>1
<1>3. DOMAIN s = 1..(N + 1 - n)
  BY <1>2
<1> HIDE DEF s
<1>4. \A i \in n..N : (i + 1 - n) \in 1..(N + 1 - n) /\ s[i + 1 - n] = Files[b][i]
  BY <1>1, <1>2
<1>5. \A i \in 1..(N + 1 - n) : (n + i - 1) \in n..N
  BY <1>1
<1>6. ToSet(s) = From(b, n)
  <2>1. ASSUME NEW p \in ToSet(s) PROVE p \in From(b, n)
    BY <2>1, <1>2, <1>3, <1>5 DEF ToSet, From
  <2>2. ASSUME NEW p \in From(b, n) PROVE p \in ToSet(s)
    BY <2>2, <1>3, <1>4 DEF ToSet, From
  <2> QED BY <2>1, <2>2
<1> QED BY <1>6 DEF s
-----------------------------------------------------------------------------
\* A job that is accepted is the last of its lane.
LEMMA AcceptTells ==
  ASSUME PoolTypeOK, NEW p \in Paths, NEW l \in Lanes, NEW b \in Batches \cup {NoBatch}, Accept(p, l, b)
  PROVE  \A k, x, i, c, q :
           /\ Tells(k, x, i, c, q)' <=>
                \/ Tells(k, x, i, c, q)
                \/ k = "lane" /\ x = l /\ i = Len(lane[l]) + 1 /\ c = b /\ q = p
<1> DEFINE job == [path |-> p, batch |-> b, claim |-> claimSeq + 1]
<1>1. /\ claimSeq \in Nat /\ job \in Jobs /\ lane \in [Lanes -> Seq(Jobs)]
      /\ lane' = [lane EXCEPT ![l] = Append(@, job)]
      /\ UNCHANGED <<work, channel>>
  <2>1. claimSeq \in Nat /\ job \in Jobs
    BY DEF PoolTypeOK, Jobs
  <2>2. claimSeq' = claimSeq + 1 /\ lane \in [Lanes -> Seq(Jobs)] /\ UNCHANGED <<work, channel>>
    BY DEF Accept, PoolTypeOK
  <2>3. lane' = [lane EXCEPT ![l] = Append(@, [path |-> p, batch |-> b, claim |-> claimSeq'])]
    BY DEF Accept
  <2> QED BY <2>1, <2>2, <2>3
<1>2. job.path = p /\ job.batch = b
  OBVIOUS
<1> HIDE DEF job
<1>3. /\ Len(lane'[l]) = Len(lane[l]) + 1 /\ lane'[l][Len(lane[l]) + 1] = job
      /\ \A i \in 1..Len(lane[l]) : lane'[l][i] = lane[l][i]
      /\ \A m \in Lanes \ {l} : lane'[m] = lane[m]
      /\ Len(lane[l]) \in Nat
  BY <1>1, AppendIs
<1>4. \A x, i, c, q : InLane(x, i, c, q)' <=>
        InLane(x, i, c, q) \/ (x = l /\ i = Len(lane[l]) + 1 /\ c = b /\ q = p)
  <2> SUFFICES ASSUME NEW x, NEW i, NEW c, NEW q
               PROVE  InLane(x, i, c, q)' <=>
                        InLane(x, i, c, q) \/ (x = l /\ i = Len(lane[l]) + 1 /\ c = b /\ q = p)
    OBVIOUS
  <2>1. CASE x = l
    <3>1. i \in 1..Len(lane'[l]) <=> i \in 1..Len(lane[l]) \/ i = Len(lane[l]) + 1
      BY <1>3
    <3>2. i = Len(lane[l]) + 1 => i \notin 1..Len(lane[l])
      BY <1>3
    <3> QED BY <2>1, <3>1, <3>2, <1>2, <1>3 DEF InLane
  <2>2. CASE x # l
    BY <2>2, <1>3 DEF InLane
  <2> QED BY <2>1, <2>2
<1>5. /\ \A w, c, q : AtWorker(w, c, q)' <=> AtWorker(w, c, q)
      /\ \A o, i, c, q : InChannel(o, i, c, q)' <=> InChannel(o, i, c, q)
  BY <1>1 DEF AtWorker, InChannel
<1> QED BY <1>4, <1>5 DEF Tells

\* A step that leaves lanes and channels, and every job where it is.
LEMMA SameTells ==
  ASSUME PoolTypeOK, UNCHANGED <<lane, channel>>,
         \A w \in Workers : work[w].stage # "idle" <=> work'[w].stage # "idle",
         \A w \in Workers : work[w].stage # "idle" => work'[w].job = work[w].job
  PROVE  \A k, x, i, c, q : Tells(k, x, i, c, q)' <=> Tells(k, x, i, c, q)
<1>1. \A w, c, q : AtWorker(w, c, q)' <=> AtWorker(w, c, q)
  BY DEF AtWorker
<1>2. /\ \A l, i, c, q : InLane(l, i, c, q)' <=> InLane(l, i, c, q)
      /\ \A o, i, c, q : InChannel(o, i, c, q)' <=> InChannel(o, i, c, q)
  BY DEF InLane, InChannel
<1> QED BY <1>1, <1>2 DEF Tells

\* A job that was taken was the first of its lane.
LEMMA TakeTells ==
  ASSUME PoolTypeOK, NEW w \in Workers, NEW l \in Lanes, Take(w, l)
  PROVE  /\ ~\E i, c, q : Tells("work", w, i, c, q)
         /\ \A k, x, i, c, q :
              Tells(k, x, i, c, q)' <=>
                \/ k = "lane" /\ x = l /\ i \in Nat \ {0} /\ Tells("lane", l, i + 1, c, q)
                \/ k = "work" /\ x = w /\ i = 0 /\ Tells("lane", l, 1, c, q)
                \/ ~(k = "lane" /\ x = l) /\ ~(k = "work" /\ x = w) /\ Tells(k, x, i, c, q)
<1>1. /\ work \in [Workers -> Steps \cup {Idle}] /\ work[w] = Idle
      /\ lane \in [Lanes -> Seq(Jobs)] /\ lane[l] # <<>>
      /\ lane' = [lane EXCEPT ![l] = Tail(@)] /\ channel' = channel
  BY DEF Take, PoolTypeOK
<1>2. /\ Head(lane[l]) = lane[l][1] /\ Len(lane[l]) \in Nat /\ 1 \in 1..Len(lane[l])
      /\ Len(lane'[l]) = Len(lane[l]) - 1
      /\ \A i \in 1..Len(lane'[l]) : i + 1 \in 1..Len(lane[l]) /\ lane'[l][i] = lane[l][i + 1]
      /\ \A m \in Lanes \ {l} : lane'[m] = lane[m]
  BY <1>1, TailIs
<1>3. /\ work'[w].stage # "idle" /\ work'[w].job = lane[l][1]
      /\ \A v \in Workers \ {w} : work'[v] = work[v]
  BY <1>1, <1>2 DEF Take
<1>4. \A x, i, c, q : InLane(x, i, c, q)' <=>
        \/ x = l /\ i \in Nat \ {0} /\ InLane(l, i + 1, c, q)
        \/ x # l /\ InLane(x, i, c, q)
  <2> SUFFICES ASSUME NEW x, NEW i, NEW c, NEW q
               PROVE  InLane(x, i, c, q)' <=>
                        \/ x = l /\ i \in Nat \ {0} /\ InLane(l, i + 1, c, q)
                        \/ x # l /\ InLane(x, i, c, q)
    OBVIOUS
  <2>1. CASE x = l
    <3>1. i \in 1..Len(lane'[l]) <=> i \in Nat \ {0} /\ i + 1 \in 1..Len(lane[l])
      BY <1>2
    <3> QED BY <2>1, <3>1, <1>2 DEF InLane
  <2>2. CASE x # l
    BY <2>2, <1>2 DEF InLane
  <2> QED BY <2>1, <2>2
<1>5. \A v, c, q : AtWorker(v, c, q)' <=>
        \/ v = w /\ InLane(l, 1, c, q)
        \/ v # w /\ AtWorker(v, c, q)
  BY <1>2, <1>3 DEF AtWorker, InLane
<1>6. \A o, i, c, q : InChannel(o, i, c, q)' <=> InChannel(o, i, c, q)
  BY <1>1 DEF InChannel
<1>7. \A c, q : ~AtWorker(w, c, q)
  BY <1>1 DEF AtWorker, Idle
<1> QED BY <1>4, <1>5, <1>6, <1>7 DEF Tells

\* A job that was finished is still to be announced, or the pool stops.
LEMMA FinishTells ==
  ASSUME PoolTypeOK, NoneInv, NEW w \in Workers, FinishJob(w)
  PROVE  /\ \A k, x, i, c, q : Tells(k, x, i, c, q)' => Tells(k, x, i, c, q)
         /\ closed \/ \A k, x, i, c, q : Tells(k, x, i, c, q) => Tells(k, x, i, c, q)'
<1> DEFINE gone == [stage |-> "counted", job |-> work[w].job, outcome |-> work[w].outcome]
<1>1. /\ work \in [Workers -> Steps \cup {Idle}] /\ work[w].stage = "decided"
      /\ work' = [work EXCEPT ![w] = IF work[w].outcome = "none" THEN Idle ELSE gone]
      /\ UNCHANGED <<lane, channel>>
  BY DEF FinishJob, PoolTypeOK
<1>2. CASE work[w].outcome = "none"
  <2>1. closed
    BY <1>1, <1>2 DEF NoneInv
  <2>2. \A v, c, q : AtWorker(v, c, q)' => AtWorker(v, c, q)
    BY <1>1, <1>2 DEF AtWorker, Idle
  <2>3. /\ \A l, i, c, q : InLane(l, i, c, q)' <=> InLane(l, i, c, q)
        /\ \A o, i, c, q : InChannel(o, i, c, q)' <=> InChannel(o, i, c, q)
    BY <1>1 DEF InLane, InChannel
  <2> QED BY <2>1, <2>2, <2>3 DEF Tells
<1>3. CASE work[w].outcome # "none"
  <2>1. \A v \in Workers : work'[v] = IF v = w THEN gone ELSE work[v]
    BY <1>1, <1>3
  <2>2. /\ \A v \in Workers : work[v].stage # "idle" <=> work'[v].stage # "idle"
        /\ \A v \in Workers : work[v].stage # "idle" => work'[v].job = work[v].job
    BY <1>1, <2>1
  <2> QED BY <1>1, <2>2, SameTells
<1> QED BY <1>2, <1>3

\* A job that was announced is the last of its channel.
LEMMA AnnounceTells ==
  ASSUME PoolTypeOK, NEW w \in Workers, Announce(w)
  PROVE  LET o == work[w].outcome
         IN  \A k, x, i, c, q :
               Tells(k, x, i, c, q)' <=>
                 \/ k = "channel" /\ x = o /\ i = Len(channel[o]) + 1 /\ Tells("work", w, 0, c, q)
                 \/ ~(k = "work" /\ x = w) /\ Tells(k, x, i, c, q)
<1> DEFINE o == work[w].outcome
           e == [path |-> work[w].job.path, batch |-> work[w].job.batch]
<1>1. /\ work \in [Workers -> Steps \cup {Idle}] /\ work[w].stage = "counted"
      /\ work' = [work EXCEPT ![w] = Idle]
      /\ channel \in [Outcomes -> Seq(Events)]
      /\ channel' = [channel EXCEPT ![o] = Append(@, e)]
      /\ lane' = lane
  BY DEF Announce, PoolTypeOK
<1>2. o \in Outcomes /\ work[w].job \in Jobs
  BY <1>1, StepIs
<1>3. e \in Events /\ e.path = work[w].job.path /\ e.batch = work[w].job.batch
  BY <1>2, JobIs DEF Events
<1> HIDE DEF e, o
<1>4. /\ Len(channel'[o]) = Len(channel[o]) + 1 /\ channel'[o][Len(channel[o]) + 1] = e
      /\ \A i \in 1..Len(channel[o]) : channel'[o][i] = channel[o][i]
      /\ \A r \in Outcomes \ {o} : channel'[r] = channel[r]
      /\ Len(channel[o]) \in Nat
  BY <1>1, <1>2, <1>3, AppendIs
<1>5. \A c, q : AtWorker(w, c, q) <=> c = e.batch /\ q = e.path
  BY <1>1, <1>3 DEF AtWorker
<1>6. \A x, i, c, q : InChannel(x, i, c, q)' <=>
        InChannel(x, i, c, q) \/ (x = o /\ i = Len(channel[o]) + 1 /\ AtWorker(w, c, q))
  <2> SUFFICES ASSUME NEW x, NEW i, NEW c, NEW q
               PROVE  InChannel(x, i, c, q)' <=>
                        InChannel(x, i, c, q) \/ (x = o /\ i = Len(channel[o]) + 1 /\ AtWorker(w, c, q))
    OBVIOUS
  <2>1. CASE x = o
    <3>1. i \in 1..Len(channel'[o]) <=> i \in 1..Len(channel[o]) \/ i = Len(channel[o]) + 1
      BY <1>4
    <3>2. i = Len(channel[o]) + 1 => i \notin 1..Len(channel[o])
      BY <1>4
    <3> QED BY <2>1, <3>1, <3>2, <1>2, <1>4, <1>5 DEF InChannel
  <2>2. CASE x # o
    BY <2>2, <1>4 DEF InChannel
  <2> QED BY <2>1, <2>2
<1>7. \A v, c, q : AtWorker(v, c, q)' <=> v # w /\ AtWorker(v, c, q)
  BY <1>1 DEF AtWorker, Idle
<1>8. \A l, i, c, q : InLane(l, i, c, q)' <=> InLane(l, i, c, q)
  BY <1>1 DEF InLane
<1> QED BY <1>6, <1>7, <1>8 DEF Tells, o

\* An event that was received is gone.
LEMMA ReceiveTells ==
  ASSUME PoolTypeOK, NEW o \in Outcomes, Receive(o)
  PROVE  /\ Tells("channel", o, 1, Head(channel[o]).batch, Head(channel[o]).path)
         /\ \A c, q : Tells("channel", o, 1, c, q) => c = Head(channel[o]).batch /\ q = Head(channel[o]).path
         /\ \A k, x, i, c, q :
              Tells(k, x, i, c, q)' <=>
                \/ k = "channel" /\ x = o /\ i \in Nat \ {0} /\ Tells("channel", o, i + 1, c, q)
                \/ ~(k = "channel" /\ x = o) /\ Tells(k, x, i, c, q)
<1>1. /\ channel \in [Outcomes -> Seq(Events)] /\ channel[o] # <<>>
      /\ channel' = [channel EXCEPT ![o] = Tail(@)]
      /\ UNCHANGED <<lane, work>>
  BY DEF Receive, PoolTypeOK
<1>2. /\ Head(channel[o]) = channel[o][1] /\ Len(channel[o]) \in Nat /\ 1 \in 1..Len(channel[o])
      /\ Len(channel'[o]) = Len(channel[o]) - 1
      /\ \A i \in 1..Len(channel'[o]) : i + 1 \in 1..Len(channel[o]) /\ channel'[o][i] = channel[o][i + 1]
      /\ \A r \in Outcomes \ {o} : channel'[r] = channel[r]
  BY <1>1, TailIs
<1>3. \A x, i, c, q : InChannel(x, i, c, q)' <=>
        \/ x = o /\ i \in Nat \ {0} /\ InChannel(o, i + 1, c, q)
        \/ x # o /\ InChannel(x, i, c, q)
  <2> SUFFICES ASSUME NEW x, NEW i, NEW c, NEW q
               PROVE  InChannel(x, i, c, q)' <=>
                        \/ x = o /\ i \in Nat \ {0} /\ InChannel(o, i + 1, c, q)
                        \/ x # o /\ InChannel(x, i, c, q)
    OBVIOUS
  <2>1. CASE x = o
    <3>1. i \in 1..Len(channel'[o]) <=> i \in Nat \ {0} /\ i + 1 \in 1..Len(channel[o])
      BY <1>2
    <3> QED BY <2>1, <3>1, <1>2 DEF InChannel
  <2>2. CASE x # o
    BY <2>2, <1>2 DEF InChannel
  <2> QED BY <2>1, <2>2
<1>4. /\ \A v, c, q : AtWorker(v, c, q)' <=> AtWorker(v, c, q)
      /\ \A l, i, c, q : InLane(l, i, c, q)' <=> InLane(l, i, c, q)
  BY <1>1 DEF AtWorker, InLane
<1>5. \A c, q : Tells("channel", o, 1, c, q) <=> c = Head(channel[o]).batch /\ q = Head(channel[o]).path
  BY <1>2 DEF Tells, InChannel
<1> QED BY <1>3, <1>4, <1>5 DEF Tells
-----------------------------------------------------------------------------
\* A job that is accepted will tell its batch of one file more, once.
LEMMA AcceptTold ==
  ASSUME PoolTypeOK, TellInv, NEW p \in Paths, NEW l \in Lanes, NEW b \in Batches \cup {NoBatch},
         Accept(p, l, b), b \in Batches => p \notin Told(b)
  PROVE  /\ TellInv' /\ closed' = closed
         /\ \A c \in Batches : Told(c)' = IF c = b THEN Told(c) \cup {p} ELSE Told(c)
<1>1. \A k, x, i, c, q :
        Tells(k, x, i, c, q)' <=>
          \/ Tells(k, x, i, c, q)
          \/ k = "lane" /\ x = l /\ i = Len(lane[l]) + 1 /\ c = b /\ q = p
  BY AcceptTells
<1>2. OnceInv'
  <2>1. b \in Batches => \A k, x, i : ~Tells(k, x, i, b, p)
    BY DEF Told
  <2> QED BY <1>1, <2>1 DEF OnceInv, TellInv
<1>3. closed' = closed /\ work' = work
  BY DEF Accept
<1>4. NoneInv'
  BY <1>3 DEF NoneInv, TellInv
<1>5. \A c \in Batches : Told(c)' = IF c = b THEN Told(c) \cup {p} ELSE Told(c)
  <2>1. ASSUME NEW c \in Batches, NEW q \in Paths
        PROVE  (\E k, x, i : Tells(k, x, i, c, q)') <=> (\E k, x, i : Tells(k, x, i, c, q)) \/ (c = b /\ q = p)
    BY <1>1
  <2> QED BY <2>1 DEF Told
<1> QED BY <1>2, <1>3, <1>4, <1>5 DEF TellInv

\* A job that is taken goes from the head of its lane to the worker.
LEMMA TakeTold ==
  ASSUME PoolTypeOK, TellInv, NEW w \in Workers, NEW l \in Lanes, Take(w, l)
  PROVE  TellInv' /\ closed' = closed /\ \A c \in Batches : Told(c)' = Told(c)
<1>1. /\ ~\E i, c, q : Tells("work", w, i, c, q)
      /\ \A k, x, i, c, q :
           Tells(k, x, i, c, q)' <=>
             \/ k = "lane" /\ x = l /\ i \in Nat \ {0} /\ Tells("lane", l, i + 1, c, q)
             \/ k = "work" /\ x = w /\ i = 0 /\ Tells("lane", l, 1, c, q)
             \/ ~(k = "lane" /\ x = l) /\ ~(k = "work" /\ x = w) /\ Tells(k, x, i, c, q)
  BY TakeTells
<1>2. OnceInv'
  <2> SUFFICES ASSUME NEW c \in Batches, NEW q \in Paths, NEW k, NEW x, NEW i, NEW m, NEW y, NEW j,
                      Tells(k, x, i, c, q)', Tells(m, y, j, c, q)'
               PROVE  k = m /\ x = y /\ i = j
    BY DEF OnceInv
  <2>1. \A t, u, a, s, v, d : Tells(t, u, a, c, q) /\ Tells(s, v, d, c, q) => t = s /\ u = v /\ a = d
    BY DEF OnceInv, TellInv
  <2>2. CASE k = "lane" /\ x = l /\ i \in Nat \ {0} /\ Tells("lane", l, i + 1, c, q)
    BY <1>1, <2>1, <2>2
  <2>3. CASE k = "work" /\ x = w /\ i = 0 /\ Tells("lane", l, 1, c, q)
    BY <1>1, <2>1, <2>3
  <2>4. CASE ~(k = "lane" /\ x = l) /\ ~(k = "work" /\ x = w) /\ Tells(k, x, i, c, q)
    BY <1>1, <2>1, <2>4
  <2> QED BY <1>1, <2>2, <2>3, <2>4
<1>3. closed' = closed /\ work[w] = Idle
  BY DEF Take
<1>4. NoneInv'
  <2>1. work \in [Workers -> Steps \cup {Idle}]
    BY DEF PoolTypeOK
  <2>2. \A v \in Workers \ {w} : work'[v] = work[v]
    BY <2>1 DEF Take
  <2>3. work'[w].stage = "decided" /\ work'[w].outcome = "none" => closed
    BY <2>1 DEF Take
  <2> QED BY <2>2, <2>3, <1>3 DEF NoneInv, TellInv
<1>5. \A c \in Batches : Told(c)' = Told(c)
  <2>1. ASSUME NEW c \in Batches, NEW q \in Paths
        PROVE  (\E k, x, i : Tells(k, x, i, c, q)') <=> (\E k, x, i : Tells(k, x, i, c, q))
    <3>1. ASSUME NEW k, NEW x, NEW i, Tells(k, x, i, c, q) PROVE \E t, u, a : Tells(t, u, a, c, q)'
      <4>1. CASE k = "lane" /\ x = l
        <5>1. i \in Nat /\ i > 0
          BY <3>1, <4>1 DEF PoolTypeOK, Tells, InLane
        <5>2. CASE i = 1
          <6>1. Tells("work", w, 0, c, q)'
            BY <1>1, <3>1, <4>1, <5>2
          <6> QED BY <6>1
        <5>3. CASE i # 1
          <6>1. i - 1 \in Nat \ {0} /\ (i - 1) + 1 = i
            BY <5>1, <5>3
          <6>2. Tells("lane", l, i - 1, c, q)'
            BY <1>1, <3>1, <4>1, <6>1
          <6> QED BY <6>2
        <5> QED BY <5>2, <5>3
      <4>2. CASE ~(k = "lane" /\ x = l)
        <5>1. Tells(k, x, i, c, q)'
          BY <1>1, <3>1, <4>2
        <5> QED BY <5>1
      <4> QED BY <4>1, <4>2
    <3>2. ASSUME NEW k, NEW x, NEW i, Tells(k, x, i, c, q)' PROVE \E t, u, a : Tells(t, u, a, c, q)
      BY <1>1, <3>2
    <3> QED BY <3>1, <3>2
  <2> QED BY <2>1 DEF Told
<1> QED BY <1>2, <1>3, <1>4, <1>5 DEF TellInv

\* A step that leaves lanes and channels, and every job where it is.
LEMMA SameTold ==
  ASSUME PoolTypeOK, TellInv, UNCHANGED <<lane, channel>>, NoneInv',
         \A w \in Workers : work[w].stage # "idle" <=> work'[w].stage # "idle",
         \A w \in Workers : work[w].stage # "idle" => work'[w].job = work[w].job
  PROVE  TellInv' /\ \A c \in Batches : Told(c)' = Told(c)
<1>1. \A k, x, i, c, q : Tells(k, x, i, c, q)' <=> Tells(k, x, i, c, q)
  BY SameTells
<1> QED BY <1>1 DEF TellInv, OnceInv, Told

\* A run that ends leaves its job with the worker.
LEMMA RunEndsTold ==
  ASSUME PoolTypeOK, TellInv, NEW w \in Workers, RunEnds(w)
  PROVE  TellInv' /\ closed' = closed /\ \A c \in Batches : Told(c)' = Told(c)
<1>1. PICK o \in {"done", IF closed THEN "none" ELSE "failed"} :
        work' = [work EXCEPT ![w] = [stage |-> "decided", job |-> @.job, outcome |-> o]]
  BY DEF RunEnds
<1>2. /\ work \in [Workers -> Steps \cup {Idle}] /\ work[w].stage = "running"
      /\ UNCHANGED <<lane, channel, closed>>
  BY DEF RunEnds, PoolTypeOK
<1>3. \A v \in Workers :
        work'[v] = IF v = w THEN [stage |-> "decided", job |-> work[w].job, outcome |-> o] ELSE work[v]
  BY <1>1, <1>2
<1>4. NoneInv'
  BY <1>1, <1>2, <1>3 DEF NoneInv, TellInv
<1>5. /\ \A v \in Workers : work[v].stage # "idle" <=> work'[v].stage # "idle"
      /\ \A v \in Workers : work[v].stage # "idle" => work'[v].job = work[v].job
  BY <1>2, <1>3
<1> QED BY <1>2, <1>4, <1>5, SameTold

\* Only here may a job go without an outcome.
LEMMA FinishTold ==
  ASSUME PoolTypeOK, TellInv, NEW w \in Workers, FinishJob(w)
  PROVE  /\ TellInv' /\ closed' = closed
         /\ \A c \in Batches : Told(c)' \subseteq Told(c) /\ (closed \/ Told(c)' = Told(c))
<1>1. /\ \A k, x, i, c, q : Tells(k, x, i, c, q)' => Tells(k, x, i, c, q)
      /\ closed \/ \A k, x, i, c, q : Tells(k, x, i, c, q) => Tells(k, x, i, c, q)'
  BY FinishTells DEF TellInv
<1>2. closed' = closed
  BY DEF FinishJob
<1>3. OnceInv'
  BY <1>1 DEF TellInv, OnceInv
<1>4. NoneInv'
  <2>1. work \in [Workers -> Steps \cup {Idle}]
    BY DEF PoolTypeOK
  <2>2. work'[w].stage # "decided" /\ \A v \in Workers \ {w} : work'[v] = work[v]
    BY <2>1 DEF FinishJob, Idle
  <2> QED BY <1>2, <2>2 DEF NoneInv, TellInv
<1>5. \A c \in Batches : Told(c)' \subseteq Told(c)
  BY <1>1 DEF Told
<1>6. closed \/ \A c \in Batches : Told(c)' = Told(c)
  BY <1>1 DEF Told
<1> QED BY <1>2, <1>3, <1>4, <1>5, <1>6 DEF TellInv

\* A job that is announced goes from the worker to the end of a channel.
LEMMA AnnounceTold ==
  ASSUME PoolTypeOK, TellInv, NEW w \in Workers, Announce(w)
  PROVE  TellInv' /\ closed' = closed /\ \A c \in Batches : Told(c)' = Told(c)
<1> DEFINE o == work[w].outcome
           n == Len(channel[o]) + 1
<1>1. \A k, x, i, c, q :
        Tells(k, x, i, c, q)' <=>
          \/ k = "channel" /\ x = o /\ i = n /\ Tells("work", w, 0, c, q)
          \/ ~(k = "work" /\ x = w) /\ Tells(k, x, i, c, q)
  BY AnnounceTells
<1> HIDE DEF o, n
<1>2. OnceInv'
  <2> SUFFICES ASSUME NEW c \in Batches, NEW q \in Paths, NEW k, NEW x, NEW i, NEW m, NEW y, NEW j,
                      Tells(k, x, i, c, q)', Tells(m, y, j, c, q)'
               PROVE  k = m /\ x = y /\ i = j
    BY DEF OnceInv
  <2>1. \A t, u, a, s, v, d : Tells(t, u, a, c, q) /\ Tells(s, v, d, c, q) => t = s /\ u = v /\ a = d
    BY DEF OnceInv, TellInv
  <2> QED BY <1>1, <2>1
<1>3. closed' = closed
  BY DEF Announce
<1>4. NoneInv'
  <2>1. work \in [Workers -> Steps \cup {Idle}]
    BY DEF PoolTypeOK
  <2>2. work'[w].stage # "decided" /\ \A v \in Workers \ {w} : work'[v] = work[v]
    BY <2>1 DEF Announce, Idle
  <2> QED BY <1>3, <2>2 DEF NoneInv, TellInv
<1>5. \A c \in Batches : Told(c)' = Told(c)
  <2>1. ASSUME NEW c \in Batches, NEW q \in Paths
        PROVE  (\E k, x, i : Tells(k, x, i, c, q)') <=> (\E k, x, i : Tells(k, x, i, c, q))
    <3>1. ASSUME NEW k, NEW x, NEW i, Tells(k, x, i, c, q) PROVE \E t, u, a : Tells(t, u, a, c, q)'
      <4>1. CASE k = "work" /\ x = w
        <5>1. i = 0
          BY <3>1, <4>1 DEF Tells
        <5>2. \A u, a : u = o /\ a = n => Tells("channel", u, a, c, q)'
          BY <1>1, <3>1, <4>1, <5>1
        <5> QED BY <5>2
      <4>2. CASE ~(k = "work" /\ x = w)
        <5>1. Tells(k, x, i, c, q)'
          BY <1>1, <3>1, <4>2
        <5> QED BY <5>1
      <4> QED BY <4>1, <4>2
    <3>2. ASSUME NEW k, NEW x, NEW i, Tells(k, x, i, c, q)' PROVE \E t, u, a : Tells(t, u, a, c, q)
      BY <1>1, <3>2
    <3> QED BY <3>1, <3>2
  <2> QED BY <2>1 DEF Told
<1> QED BY <1>2, <1>3, <1>4, <1>5 DEF TellInv

\* The publisher is told once, and of nothing else.
LEMMA ReceiveTold ==
  ASSUME PoolTypeOK, TellInv, NEW o \in Outcomes, Receive(o)
  PROVE  LET e == Head(channel[o])
         IN  /\ TellInv' /\ closed' = closed
             /\ e.batch \in Batches => e.path \in Told(e.batch)
             /\ \A c \in Batches : Told(c)' = IF c = e.batch THEN Told(c) \ {e.path} ELSE Told(c)
<1> DEFINE e == Head(channel[o])
<1>1. /\ Tells("channel", o, 1, e.batch, e.path)
      /\ \A c, q : Tells("channel", o, 1, c, q) => c = e.batch /\ q = e.path
      /\ \A k, x, i, c, q :
           Tells(k, x, i, c, q)' <=>
             \/ k = "channel" /\ x = o /\ i \in Nat \ {0} /\ Tells("channel", o, i + 1, c, q)
             \/ ~(k = "channel" /\ x = o) /\ Tells(k, x, i, c, q)
  BY ReceiveTells
<1>2. e \in Events
  BY TailIs DEF Receive, PoolTypeOK
<1>3. e.path \in Paths
  BY <1>2 DEF Events
<1> HIDE DEF e
<1>4. OnceInv'
  <2> SUFFICES ASSUME NEW c \in Batches, NEW q \in Paths, NEW k, NEW x, NEW i, NEW m, NEW y, NEW j,
                      Tells(k, x, i, c, q)', Tells(m, y, j, c, q)'
               PROVE  k = m /\ x = y /\ i = j
    BY DEF OnceInv
  <2>1. \A t, u, a, s, v, d : Tells(t, u, a, c, q) /\ Tells(s, v, d, c, q) => t = s /\ u = v /\ a = d
    BY DEF OnceInv, TellInv
  <2>2. CASE k = "channel" /\ x = o /\ i \in Nat \ {0} /\ Tells("channel", o, i + 1, c, q)
    BY <1>1, <2>1, <2>2
  <2>3. CASE ~(k = "channel" /\ x = o) /\ Tells(k, x, i, c, q)
    BY <1>1, <2>1, <2>3
  <2> QED BY <1>1, <2>2, <2>3
<1>5. closed' = closed /\ work' = work
  BY DEF Receive
<1>6. NoneInv'
  BY <1>5 DEF NoneInv, TellInv
<1>7. e.batch \in Batches => e.path \in Told(e.batch)
  BY <1>1, <1>3 DEF Told
<1>8. ASSUME NEW c \in Batches, NEW q \in Paths
      PROVE  (\E k, x, i : Tells(k, x, i, c, q)')
               <=> (\E k, x, i : Tells(k, x, i, c, q)) /\ ~(c = e.batch /\ q = e.path)
  <2>1. ASSUME NEW k, NEW x, NEW i, Tells(k, x, i, c, q), ~(c = e.batch /\ q = e.path)
        PROVE  \E t, u, a : Tells(t, u, a, c, q)'
    <3>1. CASE k = "channel" /\ x = o
      <4>1. i \in Nat /\ i > 0 /\ i # 1
        BY <1>1, <2>1, <3>1 DEF PoolTypeOK, Tells, InChannel
      <4>2. i - 1 \in Nat \ {0} /\ (i - 1) + 1 = i
        BY <4>1
      <4>3. Tells("channel", o, i - 1, c, q)'
        BY <1>1, <2>1, <3>1, <4>2
      <4> QED BY <4>3
    <3>2. CASE ~(k = "channel" /\ x = o)
      <4>1. Tells(k, x, i, c, q)'
        BY <1>1, <2>1, <3>2
      <4> QED BY <4>1
    <3> QED BY <3>1, <3>2
  <2>2. ASSUME NEW k, NEW x, NEW i, Tells(k, x, i, c, q)'
        PROVE  (\E t, u, a : Tells(t, u, a, c, q)) /\ ~(c = e.batch /\ q = e.path)
    <3>1. \E t, u, a : Tells(t, u, a, c, q)
      BY <1>1, <2>2
    <3>2. ASSUME c = e.batch, q = e.path PROVE FALSE
      <4>1. \A t, u, a, s, v, d : Tells(t, u, a, c, q) /\ Tells(s, v, d, c, q) => t = s /\ u = v /\ a = d
        BY DEF OnceInv, TellInv
      <4>2. Tells("channel", o, 1, c, q)
        BY <1>1, <3>2
      <4>3. CASE k = "channel" /\ x = o /\ i \in Nat \ {0} /\ Tells("channel", o, i + 1, c, q)
        BY <4>1, <4>2, <4>3
      <4>4. CASE ~(k = "channel" /\ x = o) /\ Tells(k, x, i, c, q)
        BY <4>1, <4>2, <4>4
      <4> QED BY <1>1, <2>2, <4>3, <4>4
    <3> QED BY <3>1, <3>2
  <2> QED BY <2>1, <2>2
<1>9. \A c \in Batches : Told(c)' = IF c = e.batch THEN Told(c) \ {e.path} ELSE Told(c)
  BY <1>8 DEF Told
<1> QED BY <1>4, <1>5, <1>6, <1>7, <1>9 DEF TellInv, e
-----------------------------------------------------------------------------
\* A step of one batch leaves the others waiting as they were.
LEMMA OneBatchSums ==
  ASSUME SumInv, NEW b \in Batches, TellInv', closed' = closed, live' \subseteq Batches,
         \A c \in Batches \ {b} :
           /\ Told(c)' = Told(c) /\ row'[c] = row[c] /\ submit'[c] = submit[c] /\ next'[c] = next[c]
           /\ c \in live' => c \in live,
         Told(b)' \subseteq Before(b, next'[b]),
         b \in live' => WaitInv(b)'
  PROVE  SumInv'
<1>1. \A c \in Batches : Told(c)' \subseteq Before(c, next'[c])
  BY DEF SumInv
<1>2. ASSUME NEW c \in live' PROVE WaitInv(c)'
  <2>1. CASE c = b
    BY <2>1
  <2>2. CASE c # b
    <3>1. c \in Batches \ {b} /\ c \in live
      BY <2>2
    <3>2. WaitInv(c) /\ Unsettled(c)' = Unsettled(c)
      BY <3>1 DEF SumInv, Unsettled
    <3> QED BY <3>1, <3>2 DEF WaitInv
  <2> QED BY <2>1, <2>2
<1> QED BY <1>1, <1>2 DEF SumInv

\* A step of the pool leaves every batch waiting, unless the pool stops.
LEMMA PoolSums ==
  ASSUME SumInv, live \subseteq Batches, TellInv', closed => closed', UNCHANGED batchVars,
         \A c \in Batches : Told(c)' \subseteq Told(c) /\ (closed' \/ Told(c)' = Told(c))
  PROVE  SumInv'
<1> USE DEF batchVars
<1>1. \A c \in Batches : Told(c)' \subseteq Before(c, next'[c])
  BY DEF SumInv
<1>2. ASSUME NEW c \in live' PROVE WaitInv(c)'
  <2>1. c \in Batches /\ WaitInv(c) /\ Unsettled(c)' = Unsettled(c)
    BY DEF SumInv, Unsettled
  <2>2. row'[c] = row[c] /\ submit'[c] = submit[c]
    OBVIOUS
  <2> QED BY <2>1, <2>2 DEF WaitInv
<1> QED BY <1>1, <1>2 DEF SumInv

\* A step that leaves the pool leaves what it will tell.
LEMMA UntoldStays ==
  ASSUME TellInv, UNCHANGED poolVars
  PROVE  TellInv' /\ closed' = closed /\ \A c \in Batches : Told(c)' = Told(c)
<1>1. UNCHANGED <<lane, work, channel, closed>>
  BY DEF poolVars
<1>2. \A k, x, i, c, q : Tells(k, x, i, c, q)' <=> Tells(k, x, i, c, q)
  BY <1>1 DEF Tells, InLane, AtWorker, InChannel
<1> QED BY <1>1, <1>2 DEF TellInv, OnceInv, NoneInv, Told

\* No step of the pool by itself unsettles a batch.
LEMMA PoolAloneSums ==
  ASSUME IInv, SumInv, PoolAlone, UNCHANGED batchVars
  PROVE  SumInv'
<1>1. PoolTypeOK /\ TellInv /\ live \subseteq Batches
  BY DEF IInv, PoolInv, BatchInv, RowTypeOK, SumInv
<1>2. ASSUME NEW w \in Workers, Worker(w) PROVE SumInv'
  <2>1. TellInv' /\ closed' = closed /\ \A c \in Batches : Told(c)' \subseteq Told(c) /\ (closed' \/ Told(c)' = Told(c))
    BY <1>1, <1>2, TakeTold, RunEndsTold, FinishTold, AnnounceTold DEF Worker
  <2> QED BY <1>1, <2>1, PoolSums
<1>3. ASSUME NEW p \in Paths, NEW l \in Lanes, EnqueueOne(p, l) PROVE SumInv'
  <2>1. Accept(p, l, NoBatch) /\ NoBatch \notin Batches
    BY <1>3, Constants DEF EnqueueOne
  <2>2. TellInv' /\ closed' = closed
        /\ \A c \in Batches : Told(c)' = IF c = NoBatch THEN Told(c) \cup {p} ELSE Told(c)
    BY <1>1, <2>1, AcceptTold
  <2>3. \A c \in Batches : Told(c)' = Told(c)
    BY <2>1, <2>2
  <2> QED BY <1>1, <2>2, <2>3, PoolSums
<1>4. ASSUME NEW sources \in SUBSET Paths, DropInflight(sources) PROVE SumInv'
  <2>1. UNCHANGED <<lane, work, channel, closed>>
    BY <1>4 DEF DropInflight
  <2>2. NoneInv'
    BY <1>1, <2>1 DEF TellInv, NoneInv
  <2>3. TellInv' /\ \A c \in Batches : Told(c)' = Told(c)
    BY <1>1, <2>1, <2>2, SameTold
  <2> QED BY <1>1, <2>1, <2>3, PoolSums
<1>5. ASSUME Stop PROVE SumInv'
  <2>1. UNCHANGED <<lane, work, channel>> /\ closed'
    BY <1>5 DEF Stop
  <2>2. NoneInv'
    BY <2>1 DEF NoneInv
  <2>3. TellInv' /\ \A c \in Batches : Told(c)' = Told(c)
    BY <1>1, <2>1, <2>2, SameTold
  <2> QED BY <1>1, <2>1, <2>3, PoolSums
<1> QED BY <1>2, <1>3, <1>4, <1>5 DEF PoolAlone
-----------------------------------------------------------------------------
\* The counters that are added up, and what is waited for.
Alike(s, t) ==
  /\ s.remaining = t.remaining /\ s.dropped = t.dropped
  /\ s.counts.total = t.counts.total /\ s.counts.processed = t.counts.processed
  /\ s.counts.failed = t.counts.failed

\* A status moves no counter, and a batch that ends waits no more.
LEMMA TransitionKeeps ==
  ASSUME RowTypeOK, NEW b \in Batches, NEW a, NEW st \in Statuses, Transition(a, b, st)
  PROVE  /\ live' \subseteq live /\ (st \in Ended => b \notin live')
         /\ \A c \in Batches : Alike(row'[c], row[c]) /\ (c # b => row'[c] = row[c])
<1>1. CASE b \notin live
  <2>1. UNCHANGED <<row, live>>
    BY <1>1 DEF Transition
  <2> QED BY <1>1, <2>1 DEF Alike
<1>2. CASE b \in live
  <2> DEFINE counts == [row[b].counts EXCEPT !.status = st]
  <2>1. row[b] \in States /\ row \in [Batches -> States]
    BY DEF RowTypeOK
  <2>2. /\ row' = [row EXCEPT ![b].counts = counts]
        /\ live' = IF st \in Ended THEN live \ {b} ELSE live
    BY <1>2 DEF Transition
  <2>3. /\ counts.total = row[b].counts.total /\ counts.processed = row[b].counts.processed
        /\ counts.failed = row[b].counts.failed
    BY <2>1, StateIs DEF Counts
  <2> HIDE DEF counts
  <2>4. /\ row'[b].counts = counts /\ row'[b].remaining = row[b].remaining /\ row'[b].dropped = row[b].dropped
        /\ \A c \in Batches : c # b => row'[c] = row[c]
    BY <2>1, <2>2 DEF States
  <2> QED BY <2>2, <2>3, <2>4 DEF Alike
<1> QED BY <1>1, <1>2

\* Rows that are alike add up alike.
LEMMA AlikeMakes ==
  ASSUME NEW s, NEW t, Alike(s, t), Makes(t)
  PROVE  Makes(s)
  BY DEF Alike, Makes

\* A batch that is enrolled waits for all its files, and has been told of none.
LEMMA EnrollSums ==
  ASSUME IInv, SumInv, NEW b \in Batches, Enroll(b)
  PROVE  SumInv'
<1> USE DEF IInv, BatchInv
<1> DEFINE counts == [Absent EXCEPT !.status = "pending", !.total = Len(Files[b])]
           s == [NewState EXCEPT !.counts = counts, !.remaining = ToSet(Files[b])]
<1>1. /\ submit[b] = "idle" /\ submit' = [submit EXCEPT ![b] = "enrolled"]
      /\ row' = [row EXCEPT ![b] = s]
      /\ live' = live \cup {b} /\ UNCHANGED next /\ UNCHANGED poolVars
  BY DEF Enroll
<1>2. /\ s.remaining = ToSet(Files[b]) /\ s.dropped = 0
      /\ s.counts.total = Len(Files[b]) /\ s.counts.processed = 0 /\ s.counts.failed = 0
  BY DEF Absent, NewState
<1> HIDE DEF counts, s
<1>3. /\ row'[b] = s /\ submit'[b] = "enrolled" /\ next'[b] = 1 /\ live' \subseteq Batches
      /\ \A c \in Batches \ {b} :
           /\ row'[c] = row[c] /\ submit'[c] = submit[c] /\ next'[c] = next[c]
           /\ c \in live' => c \in live
  BY <1>1 DEF RowTypeOK, TotalInv
<1>4. TellInv' /\ closed' = closed /\ \A c \in Batches : Told(c)' = Told(c)
  BY <1>1, UntoldStays DEF SumInv
<1>5. ToSet(Files[b]) = From(b, 1)
  <2>1. DOMAIN Files[b] = 1..Len(Files[b])
    BY FilesAre
  <2> QED BY <2>1 DEF ToSet, From
<1>6. Len(Files[b]) \in Nat
  BY FilesAre
<1>7. IsFiniteSet(From(b, 1)) /\ Cardinality(From(b, 1)) = Len(Files[b])
  <2>1. 1 \in Nat \ {0} /\ 1 <= Len(Files[b]) + 1 /\ Len(Files[b]) + 1 - 1 = Len(Files[b])
    BY <1>6
  <2>2. /\ IsFiniteSet(From(b, 1))
        /\ Cardinality(From(b, 1)) = Len(Files[b]) + 1 - 1
    BY <2>1, FromCounts
  <2> QED BY <2>1, <2>2
<1>8. Told(b) = {} /\ Told(b)' \subseteq Before(b, next'[b])
  <2>1. Told(b) \subseteq Before(b, 1) /\ Before(b, 1) = {}
    BY <1>1, <1>3 DEF SumInv, Before
  <2> QED BY <2>1, <1>3, <1>4
<1>9. WaitInv(b)'
  <2>1. Makes(s)
    BY <1>2, <1>5, <1>6, <1>7 DEF Makes
  <2>2. Unsettled(b)' = From(b, 1)
    BY <1>3 DEF Unsettled
  <2> QED BY <2>1, <2>2, <1>2, <1>3, <1>4, <1>5, <1>8 DEF WaitInv
<1> QED BY <1>3, <1>4, <1>8, <1>9, OneBatchSums

\* A batch that is promoted waits for what it waited for, or has no files and ends.
LEMMA PromoteSums ==
  ASSUME IInv, SumInv, NEW b \in Batches, Promote(b)
  PROVE  SumInv'
<1> USE DEF IInv, BatchInv
<1> DEFINE st == IF Files[b] = <<>> THEN "completed" ELSE "running"
<1>1. /\ submit[b] = "enrolled"
      /\ submit' = [submit EXCEPT ![b] = IF Files[b] = <<>> THEN "over" ELSE "offering"]
      /\ Transition(<<"submit", b>>, b, st) /\ UNCHANGED next /\ UNCHANGED poolVars
  BY DEF Promote
<1>2. st \in Statuses
  BY DEF Statuses, Ended
<1>3. /\ live' \subseteq live /\ (st \in Ended => b \notin live')
      /\ \A c \in Batches : Alike(row'[c], row[c]) /\ (c # b => row'[c] = row[c])
  BY <1>1, <1>2, TransitionKeeps
<1>4. /\ live' \subseteq Batches /\ submit'[b] = IF Files[b] = <<>> THEN "over" ELSE "offering"
      /\ \A c \in Batches \ {b} : submit'[c] = submit[c]
  BY <1>1, <1>3 DEF RowTypeOK
<1>5. TellInv' /\ closed' = closed /\ \A c \in Batches : Told(c)' = Told(c)
  BY <1>1, UntoldStays DEF SumInv
<1>6. Told(b)' \subseteq Before(b, next'[b])
  BY <1>1, <1>5 DEF SumInv
<1>7. ASSUME b \in live' PROVE WaitInv(b)'
  <2>1. b \in live /\ submit'[b] = "offering"
    BY <1>3, <1>4, <1>7 DEF Ended
  <2>2. WaitInv(b) /\ Unsettled(b)' = Unsettled(b)
    BY <2>1, <1>1 DEF SumInv, Unsettled
  <2>3. Makes(row'[b])
    BY <2>2, <1>3, AlikeMakes DEF WaitInv
  <2> QED BY <2>1, <2>2, <2>3, <1>3, <1>5 DEF WaitInv, Alike
<1> QED BY <1>1, <1>3, <1>4, <1>5, <1>6, <1>7, OneBatchSums

\* A batch that is cancelled is followed no more.
LEMMA CancelSums ==
  ASSUME IInv, SumInv, NEW b \in Batches, Cancel(b)
  PROVE  SumInv'
<1> USE DEF IInv, BatchInv
<1>1. Transition(<<"cancel", b>>, b, "cancelled") /\ UNCHANGED <<submit, next>> /\ UNCHANGED poolVars
  BY DEF Cancel
<1>2. "cancelled" \in Statuses /\ "cancelled" \in Ended
  BY DEF Statuses, Ended
<1>3. live' \subseteq live /\ b \notin live' /\ \A c \in Batches : c # b => row'[c] = row[c]
  BY <1>1, <1>2, TransitionKeeps
<1>4. TellInv' /\ closed' = closed /\ \A c \in Batches : Told(c)' = Told(c)
  BY <1>1, UntoldStays DEF SumInv
<1>5. Told(b)' \subseteq Before(b, next'[b]) /\ live' \subseteq Batches
  BY <1>1, <1>3, <1>4 DEF SumInv, RowTypeOK
<1> QED BY <1>1, <1>3, <1>4, <1>5, OneBatchSums

\* A batch whose loop is over waits for somebody, or ends.
LEMMA CompleteSums ==
  ASSUME IInv, SumInv, NEW b \in Batches, CompleteIfDrained(b)
  PROVE  SumInv'
<1> USE DEF IInv, BatchInv
<1>1. /\ submit[b] = "draining" \/ (submit[b] = "offering" /\ next[b] > Len(Files[b]))
      /\ submit' = [submit EXCEPT ![b] = "over"]
      /\ UNCHANGED next /\ UNCHANGED poolVars
      /\ IF Drained(b) THEN Transition(<<"submit", b>>, b, Settle(row[b], "completed"))
         ELSE UNCHANGED <<row, live, pending>>
  BY DEF CompleteIfDrained
<1>2. Settle(row[b], "completed") \in Ended /\ Ended \subseteq Statuses
  BY SettleIs, StatusesAre DEF Ended
<1>3. /\ live' \subseteq live /\ (Drained(b) => b \notin live')
      /\ \A c \in Batches : Alike(row'[c], row[c]) /\ (c # b => row'[c] = row[c])
  <2>1. CASE Drained(b)
    BY <2>1, <1>1, <1>2, TransitionKeeps
  <2>2. CASE ~Drained(b)
    BY <2>2, <1>1 DEF Alike
  <2> QED BY <2>1, <2>2
<1>4. /\ live' \subseteq Batches /\ submit'[b] = "over"
      /\ \A c \in Batches \ {b} : submit'[c] = submit[c]
  BY <1>1, <1>3 DEF RowTypeOK
<1>5. TellInv' /\ closed' = closed /\ \A c \in Batches : Told(c)' = Told(c)
  BY <1>1, UntoldStays DEF SumInv
<1>6. Told(b)' \subseteq Before(b, next'[b])
  BY <1>1, <1>5 DEF SumInv
<1>7. ASSUME b \in live' PROVE WaitInv(b)'
  <2>1. b \in live /\ row[b].remaining # {} /\ WaitInv(b)
    BY <1>3, <1>7 DEF Drained, SumInv
  <2>2. Unsettled(b)' = {} /\ Unsettled(b) = {}
    <3>1. next[b] \in Nat \ {0}
      BY DEF RowTypeOK
    <3>2. next[b] > Len(Files[b]) => From(b, next[b]) = {}
      BY <3>1, FromIs
    <3> QED BY <3>2, <1>1, <1>4 DEF Unsettled
  <2>3. Makes(row'[b])
    BY <2>1, <1>3, AlikeMakes DEF WaitInv
  <2> QED BY <2>1, <2>2, <2>3, <1>3, <1>5 DEF WaitInv, Alike
<1> QED BY <1>1, <1>3, <1>4, <1>5, <1>6, <1>7, OneBatchSums
\* A file the pool takes goes from what is unsettled to what will be told.
LEMMA OfferSums ==
  ASSUME IInv, SumInv, NEW b \in Batches, Offer(b)
  PROVE  SumInv'
<1> USE DEF IInv, BatchInv
<1> DEFINE p == Files[b][next[b]]
           l == LaneOf[b]
           took == /\ Accept(p, l, b)
                   /\ next' = [next EXCEPT ![b] = @ + 1]
                   /\ UNCHANGED submit
           refused == /\ \E st \in {"duplicate", "refused"} : submit' = [submit EXCEPT ![b] = st]
                      /\ UNCHANGED <<poolVars, next>>
<1>1. /\ submit[b] = "offering" /\ next[b] <= Len(Files[b])
      /\ UNCHANGED <<row, live>>
      /\ took \/ refused
  BY DEF Offer
<1> HIDE DEF took, refused
<1>2. next[b] \in Nat \ {0} /\ live' \subseteq Batches
  BY <1>1 DEF RowTypeOK
<1>3. /\ p \in Paths /\ p \in From(b, next[b])
      /\ p \notin From(b, next[b] + 1) /\ p \notin Before(b, next[b])
      /\ From(b, next[b]) = From(b, next[b] + 1) \cup {p}
      /\ Before(b, next[b] + 1) = Before(b, next[b]) \cup {p}
  BY <1>1, <1>2, FromIs
<1>4. l \in Lanes /\ Told(b) \subseteq Before(b, next[b]) /\ PoolTypeOK /\ TellInv
  BY Constants DEF SumInv, PoolInv
<1> HIDE DEF p, l
<1>5. CASE took
  <2>1. p \notin Told(b) /\ Accept(p, l, b)
    BY <1>3, <1>4, <1>5 DEF took
  <2>2. /\ TellInv' /\ closed' = closed
        /\ \A c \in Batches : Told(c)' = IF c = b THEN Told(c) \cup {p} ELSE Told(c)
    BY <2>1, <1>3, <1>4, AcceptTold
  <2>3. /\ next'[b] = next[b] + 1 /\ submit' = submit
        /\ \A c \in Batches \ {b} : next'[c] = next[c]
    BY <1>5 DEF took, RowTypeOK
  <2>4. Told(b)' \subseteq Before(b, next'[b])
    BY <2>2, <2>3, <1>3, <1>4
  <2>5. ASSUME b \in live' PROVE WaitInv(b)'
    <3>1. WaitInv(b) /\ Unsettled(b) = From(b, next[b]) /\ Unsettled(b)' = From(b, next[b] + 1)
      BY <2>3, <2>5, <1>1 DEF SumInv, Unsettled
    <3>2. Unsettled(b)' \cup Told(b)' = Unsettled(b) \cup Told(b)
      BY <3>1, <2>2, <1>3
    <3>3. row'[b] = row[b] /\ submit'[b] = "offering"
      BY <2>3, <1>1
    <3> QED BY <3>1, <3>2, <3>3, <2>2 DEF WaitInv
  <2> QED BY <2>2, <2>3, <2>4, <2>5, <1>1, <1>2, OneBatchSums
<1>6. CASE refused
  <2>1. TellInv' /\ closed' = closed /\ \A c \in Batches : Told(c)' = Told(c)
    BY <1>4, <1>6, UntoldStays DEF refused
  <2>2. /\ submit'[b] \in {"duplicate", "refused"} /\ next' = next
        /\ \A c \in Batches \ {b} : submit'[c] = submit[c]
    BY <1>6 DEF refused, RowTypeOK
  <2>3. ASSUME b \in live' PROVE WaitInv(b)'
    <3>1. WaitInv(b) /\ Unsettled(b)' = Unsettled(b)
      BY <2>2, <2>3, <1>1 DEF SumInv, Unsettled
    <3> QED BY <3>1, <2>1, <2>2, <1>1 DEF WaitInv
  <2>4. Told(b)' \subseteq Before(b, next'[b])
    BY <2>1, <2>2, <1>4
  <2> QED BY <2>1, <2>2, <2>3, <2>4, <1>1, <1>2, OneBatchSums
<1> QED BY <1>1, <1>5, <1>6

\* One file less to wait for, and one less in the total.
LEMMA DedupSums ==
  ASSUME IInv, SumInv, NEW b \in Batches, DropDedupedPath(b)
  PROVE  SumInv'
<1> USE DEF IInv, BatchInv
<1> DEFINE p == Files[b][next[b]]
<1>1. /\ submit[b] = "duplicate" /\ submit' = [submit EXCEPT ![b] = "offering"]
      /\ next' = [next EXCEPT ![b] = @ + 1] /\ UNCHANGED live /\ UNCHANGED poolVars
      /\ next[b] <= Len(Files[b])
  BY DEF DropDedupedPath, TotalInv
<1>2. /\ next[b] \in Nat \ {0} /\ live' \subseteq Batches /\ submit'[b] = "offering"
      /\ next'[b] = next[b] + 1
      /\ \A c \in Batches \ {b} : submit'[c] = submit[c] /\ next'[c] = next[c]
      /\ row \in [Batches -> States]
  BY <1>1 DEF RowTypeOK
<1>3. /\ p \in Paths /\ p \in From(b, next[b])
      /\ p \notin From(b, next[b] + 1) /\ p \notin Before(b, next[b])
      /\ From(b, next[b]) = From(b, next[b] + 1) \cup {p}
      /\ Before(b, next[b] + 1) = Before(b, next[b]) \cup {p}
  BY <1>1, <1>2, FromIs
<1> HIDE DEF p
<1>4. TellInv' /\ closed' = closed /\ \A c \in Batches : Told(c)' = Told(c)
  BY <1>1, UntoldStays DEF SumInv
<1>5. Told(b) \subseteq Before(b, next[b]) /\ Told(b)' \subseteq Before(b, next'[b])
  BY <1>2, <1>3, <1>4 DEF SumInv
<1>6. \A c \in Batches \ {b} : row'[c] = row[c]
  BY <1>2 DEF DropDedupedPath
<1>7. ASSUME b \in live' PROVE WaitInv(b)'
  <2> DEFINE rest   == row[b].remaining \ {p}
             total  == LessOne(row[b].counts.total)
             counts == [row[b].counts EXCEPT !.total = total]
             s == [counts |-> counts, remaining |-> rest, dropped |-> row[b].dropped]
  <2>1. row[b] \in States /\ b \in live
    BY <1>1, <1>2, <1>7
  <2>2. row' = [row EXCEPT ![b].remaining = rest, ![b].counts = counts]
    <3>1. row' = [row EXCEPT ![b].remaining = @ \ {p}, ![b].counts.total = LessOne(@)]
      BY <2>1 DEF DropDedupedPath, p
    <3> QED BY <3>1, <1>2
  <2>3. /\ row[b].counts \in Counts /\ row[b].counts.total \in Nat /\ row[b].counts.processed \in Nat
        /\ row[b].counts.failed \in Nat /\ row[b].dropped \in Nat /\ row[b].remaining \in SUBSET Paths
    BY <2>1, StateIs, CountsAre
  <2>4. total \in Nat
    BY <2>3 DEF LessOne
  <2> HIDE DEF total
  <2>5. /\ counts \in Counts /\ counts.total = total
        /\ counts.processed = row[b].counts.processed /\ counts.failed = row[b].counts.failed
    BY <2>3, <2>4 DEF Counts
  <2>6. rest \in SUBSET Paths
    BY <2>3
  <2> HIDE DEF rest, counts
  <2>7. row' = [row EXCEPT ![b] = s]
    BY <2>2, <2>5, <2>6, <1>2, StateWith
  <2>8. row'[b] = s
    BY <2>7, <1>2
  <2>9. WaitInv(b) /\ Unsettled(b) = From(b, next[b]) /\ Unsettled(b)' = From(b, next[b] + 1)
    BY <2>1, <1>1, <1>2 DEF SumInv, Unsettled
  <2>10. IsFiniteSet(row[b].remaining) /\ p \in row[b].remaining
    BY <2>9, <1>3 DEF WaitInv, Makes
  <2>11. /\ IsFiniteSet(rest) /\ Cardinality(rest) = Cardinality(row[b].remaining) - 1
         /\ Cardinality(row[b].remaining) \in Nat /\ Cardinality(rest) \in Nat
    <3>1. IsFiniteSet(rest) /\ Cardinality(rest) = Cardinality(row[b].remaining) - 1
      BY <2>10, FS_RemoveElement DEF rest
    <3> QED BY <3>1, <2>10, FS_CardinalityType
  <2>12. Makes(s)
    <3>1. row[b].counts.total = row[b].counts.processed + row[b].counts.failed + row[b].dropped
                                  + Cardinality(row[b].remaining)
      BY <2>9 DEF WaitInv, Makes
    <3>2. total = row[b].counts.total - 1
      BY <3>1, <2>3, <2>11 DEF total, LessOne
    <3> QED BY <3>1, <3>2, <2>3, <2>5, <2>11 DEF Makes
  <2>13. p \notin Told(b)
    BY <1>3, <1>5
  <2>14. Unsettled(b)' \cup Told(b)' = (Unsettled(b) \cup Told(b)) \ {p}
    BY <2>9, <2>13, <1>3, <1>4
  <2>15. /\ Unsettled(b) \cup Told(b) \subseteq row[b].remaining
         /\ closed \/ row[b].remaining = Unsettled(b) \cup Told(b)
    BY <2>9 DEF WaitInv
  <2>16. Unsettled(b)' \cup Told(b)' \subseteq rest /\ (closed' \/ rest = Unsettled(b)' \cup Told(b)')
    BY <2>14, <2>15, <1>4 DEF rest
  <2> QED BY <2>8, <2>12, <2>16, <1>2 DEF WaitInv
<1> QED BY <1>1, <1>2, <1>4, <1>5, <1>6, <1>7, OneBatchSums

\* The files that are dropped are as many as the total loses.
LEMMA TruncateSums ==
  ASSUME IInv, SumInv, NEW b \in Batches, Truncate(b)
  PROVE  SumInv'
<1> USE DEF IInv, BatchInv
<1>1. /\ submit[b] = "refused" /\ submit' = [submit EXCEPT ![b] = "draining"]
      /\ UNCHANGED next /\ UNCHANGED poolVars
      /\ next[b] <= Len(Files[b])
  BY DEF Truncate, TotalInv
<1>2. /\ next[b] \in Nat \ {0} /\ submit'[b] = "draining" /\ enqueued[b] \in Nat
      /\ \A c \in Batches \ {b} : submit'[c] = submit[c]
      /\ row \in [Batches -> States] /\ live \subseteq Batches /\ Len(Files[b]) \in Nat
  BY <1>1, FilesAre DEF RowTypeOK
<1>3. TellInv' /\ closed' = closed /\ \A c \in Batches : Told(c)' = Told(c)
  BY <1>1, UntoldStays DEF SumInv
<1>4. Told(b) \subseteq Before(b, next[b]) /\ Told(b)' \subseteq Before(b, next'[b])
  BY <1>1, <1>3 DEF SumInv
<1>5. CASE b \notin live
  <2>1. UNCHANGED <<row, live>>
    BY <1>5 DEF Truncate
  <2> QED BY <2>1, <1>1, <1>2, <1>3, <1>4, <1>5, OneBatchSums
<1>6. CASE b \in live
  <2> DEFINE come   == From(b, next[b])
             rest   == row[b].remaining \ come
             st     == IF rest = {} THEN Settle(row[b], "failed") ELSE row[b].counts.status
             counts == [row[b].counts EXCEPT !.total = enqueued[b], !.status = st]
             s      == [counts |-> counts, remaining |-> rest, dropped |-> row[b].dropped]
  <2>1. row[b] \in States
    BY <1>2
  <2>2. ToSet(SubSeq(Files[b], next[b], Len(Files[b]))) = come
    <3>1. next[b] <= Len(Files[b]) + 1
      BY <1>1, <1>2
    <3> QED BY <3>1, <1>2, SliceIs
  <2>3. /\ row' = [row EXCEPT ![b].remaining = rest, ![b].counts = counts]
        /\ live' = IF rest = {} THEN live \ {b} ELSE live
    <3> DEFINE cut   == row[b].remaining \ ToSet(SubSeq(Files[b], next[b], Len(Files[b])))
               left  == [row[b].counts EXCEPT !.total = TruncatedTotal(b),
                                              !.status = IF cut = {} THEN Settle(row[b], "failed") ELSE @]
    <3>1. /\ row' = [row EXCEPT ![b].remaining = cut, ![b].counts = left]
          /\ live' = IF cut = {} THEN live \ {b} ELSE live
      BY <1>6, Zenon DEF Truncate
    <3>2. cut = rest
      BY <2>2
    <3>3. left = [row[b].counts EXCEPT !.total = enqueued[b],
                                       !.status = IF cut = {} THEN Settle(row[b], "failed") ELSE row[b].counts.status]
      BY DEF TruncatedTotal
    <3> HIDE DEF cut, rest, left
    <3>4. left = counts
      BY <3>2, <3>3
    <3> HIDE DEF counts
    <3> QED BY <3>1, <3>2, <3>4
  <2>4. /\ row[b].counts \in Counts /\ row[b].counts.total \in Nat /\ row[b].counts.processed \in Nat
        /\ row[b].counts.failed \in Nat /\ row[b].dropped \in Nat /\ row[b].remaining \in SUBSET Paths
        /\ row[b].counts.status \in Statuses
    BY <2>1, StateIs, CountsAre
  <2>5. rest \in SUBSET Paths
    BY <2>4
  <2>6. st \in Statuses
    BY <2>4, SettleIs, StatusesAre DEF Ended
  <2> HIDE DEF st, come
  <2>7. /\ counts \in Counts /\ counts.total = enqueued[b]
        /\ counts.processed = row[b].counts.processed /\ counts.failed = row[b].counts.failed
    BY <2>4, <2>6, <1>2 DEF Counts
  <2> HIDE DEF rest, counts
  <2>8. row' = [row EXCEPT ![b] = s]
    BY <2>3, <2>5, <2>7, <1>2, StateWith
  <2>9. row'[b] = s /\ \A c \in Batches \ {b} : row'[c] = row[c]
    BY <2>8, <1>2
  <2>10. WaitInv(b) /\ Unsettled(b) = come /\ Unsettled(b)' = {}
    BY <1>1, <1>2, <1>6 DEF SumInv, Unsettled, come
  <2>11. /\ IsFiniteSet(row[b].remaining) /\ come \subseteq row[b].remaining
         /\ row[b].counts.total = row[b].counts.processed + row[b].counts.failed + row[b].dropped
                                    + Cardinality(row[b].remaining)
         /\ Unsettled(b) \cup Told(b) \subseteq row[b].remaining
         /\ closed \/ row[b].remaining = Unsettled(b) \cup Told(b)
    BY <2>10 DEF WaitInv, Makes
  <2>12. IsFiniteSet(come) /\ Cardinality(come) = Len(Files[b]) + 1 - next[b]
    <3>1. next[b] <= Len(Files[b]) + 1
      BY <1>1, <1>2
    <3> QED BY <3>1, <1>2, FromCounts DEF come
  <2>13. /\ IsFiniteSet(rest) /\ Cardinality(rest) = Cardinality(row[b].remaining) - Cardinality(come)
         /\ Cardinality(row[b].remaining) \in Nat /\ Cardinality(rest) \in Nat
    <3>1. row[b].remaining \cap come = come
      BY <2>11
    <3>2. /\ IsFiniteSet(rest)
          /\ Cardinality(rest) = Cardinality(row[b].remaining) - Cardinality(row[b].remaining \cap come)
      BY <2>11, FS_Difference DEF rest
    <3> QED BY <3>1, <3>2, <2>11, FS_CardinalityType
  <2>14. row[b].counts.total = Len(Files[b]) + 1 + enqueued[b] - next[b]
    BY <1>1, <1>6 DEF TotalInv
  <2>15. Makes(s)
    <3>1. Cardinality(come) \in Nat /\ next[b] \in Nat
      BY <2>12, <1>2, FS_CardinalityType
    <3> DEFINE t == row[b].counts.total
               n == row[b].counts.processed
               f == row[b].counts.failed
               r == Cardinality(row[b].remaining)
    <3>2. t \in Nat /\ n \in Nat /\ f \in Nat /\ r \in Nat /\ row[b].dropped \in Nat
      BY <2>4, <2>13
    <3>3. /\ t = n + f + row[b].dropped + r /\ Cardinality(rest) = r - Cardinality(come)
          /\ t = Len(Files[b]) + 1 + enqueued[b] - next[b]
      BY <2>11, <2>13, <2>14
    <3> HIDE DEF t, n, f, r
    <3>4. enqueued[b] = n + f + row[b].dropped + Cardinality(rest)
      <4> DEFINE c == Cardinality(come)
                 x == Cardinality(rest)
                 k == Len(Files[b])
                 i == next[b]
                 g == enqueued[b]
                 d == row[b].dropped
      <4>1. /\ c \in Nat /\ x \in Nat /\ k \in Nat /\ i \in Nat /\ g \in Nat /\ d \in Nat
            /\ c = k + 1 - i /\ x = r - c /\ t = k + 1 + g - i /\ t = n + f + d + r
        BY <3>1, <3>2, <3>3, <2>12, <2>13, <1>2
      <4> HIDE DEF c, x, k, i, g, d
      <4>2. g = n + f + d + x
        BY <4>1, <3>2
      <4> QED BY <4>2 DEF g, d, x
    <3>5. enqueued[b] = row[b].counts.processed + row[b].counts.failed + row[b].dropped + Cardinality(rest)
      BY <3>4 DEF n, f
    <3> QED BY <3>5, <2>7, <2>13 DEF Makes
  <2>16. Told(b) \cap come = {}
    BY <1>2, <1>4, FromIs DEF come
  <2>17. Unsettled(b)' \cup Told(b)' \subseteq rest /\ (closed' \/ rest = Unsettled(b)' \cup Told(b)')
    BY <2>10, <2>11, <2>16, <1>3 DEF rest
  <2>18. WaitInv(b)'
    BY <2>9, <2>15, <2>17, <1>2 DEF WaitInv
  <2>19. live' \subseteq Batches /\ \A c \in Batches \ {b} : c \in live' => c \in live
    BY <2>3, <1>2
  <2> QED BY <2>9, <2>18, <2>19, <1>1, <1>2, <1>3, <1>4, OneBatchSums
<1> QED BY <1>5, <1>6

\* A callback takes one file off and counts it once.
LEMMA CountedSums ==
  ASSUME NEW o \in Outcomes, NEW b \in Batches, NEW p, row[b] \in States, Makes(row[b]), p \in row[b].remaining
  PROVE  Makes(Counted(o, b, p)) /\ Counted(o, b, p).remaining = row[b].remaining \ {p}
<1> DEFINE n == IF o = "done" THEN row[b].counts.processed + 1 ELSE row[b].counts.processed
           m == IF o = "failed" THEN row[b].counts.failed + 1 ELSE row[b].counts.failed
           d == row[b].dropped + (IF o = "dropped" THEN 1 ELSE 0)
           counts == [row[b].counts EXCEPT !.processed = n, !.failed = m]
           rest  == row[b].remaining \ {p}
           state == [counts |-> counts, remaining |-> rest, dropped |-> d]
           st    == Settle(state, Verdict(o, counts))
           ended == [state EXCEPT !.counts.status = st]
           s     == Counted(o, b, p)
<1>1. s = IF rest = {} THEN ended ELSE state
  BY DEF Counted
<1>2. /\ row[b].counts \in Counts /\ row[b].counts.processed \in Nat /\ row[b].counts.failed \in Nat
      /\ row[b].counts.total \in Nat /\ row[b].dropped \in Nat /\ row[b].remaining \in SUBSET Paths
  BY StateIs, CountsAre
<1>3. n \in Nat /\ m \in Nat /\ d \in Nat
      /\ n + m + d = row[b].counts.processed + row[b].counts.failed + row[b].dropped + 1
  BY <1>2 DEF Outcomes
<1>4. st \in Statuses
  BY SettleIs, StatusesAre DEF Verdict, Ended
<1> HIDE DEF n, m, d, st
<1>5. /\ counts \in Counts /\ counts.total = row[b].counts.total /\ counts.processed = n /\ counts.failed = m
  BY <1>2, <1>3 DEF Counts
<1> HIDE DEF counts
<1>6. /\ IsFiniteSet(rest) /\ Cardinality(rest) = Cardinality(row[b].remaining) - 1
      /\ Cardinality(row[b].remaining) \in Nat /\ Cardinality(rest) \in Nat
      /\ row[b].counts.total = row[b].counts.processed + row[b].counts.failed + row[b].dropped
                                 + Cardinality(row[b].remaining)
  <2>1. IsFiniteSet(row[b].remaining)
    BY DEF Makes
  <2>2. IsFiniteSet(rest) /\ Cardinality(rest) = Cardinality(row[b].remaining) - 1
    BY <2>1, FS_RemoveElement
  <2> QED BY <2>1, <2>2, FS_CardinalityType DEF Makes
<1>7. rest \in SUBSET Paths
  BY <1>2
<1> HIDE DEF rest
<1>8. /\ state \in States /\ state.counts = counts /\ state.remaining = rest /\ state.dropped = d
      /\ row[b].counts.total = n + m + d + Cardinality(rest)
  BY <1>2, <1>3, <1>5, <1>6, <1>7 DEF States
<1>9. Makes(state)
  BY <1>5, <1>6, <1>8 DEF Makes
<1>10. Makes(ended) /\ ended.remaining = rest
  <2> DEFINE c == [counts EXCEPT !.status = st]
  <2>1. c \in Counts /\ c.total = counts.total /\ c.processed = n /\ c.failed = m
    BY <1>4, <1>5 DEF Counts
  <2>2. ended = [state EXCEPT !.counts = c]
    BY <1>8
  <2> HIDE DEF c, state, ended
  <2>3. ended.counts = c /\ ended.remaining = rest /\ ended.dropped = d
    BY <2>1, <2>2, <1>8 DEF States
  <2> QED BY <2>1, <2>3, <1>5, <1>6, <1>8 DEF Makes
<1> HIDE DEF state, ended
<1>11. state.remaining = rest
  BY <1>8
<1>12. Makes(s) /\ s.remaining = rest
  BY <1>1, <1>9, <1>10, <1>11
<1> QED BY <1>12 DEF rest

\* A callback finds its file in what the batch waits for, and takes it off.
LEMMA HearSums ==
  ASSUME IInv, SumInv, NEW o \in Outcomes, OnJob(o)
  PROVE  SumInv'
<1> USE DEF IInv, BatchInv
<1> SUFFICES ASSUME NEW e, e = Head(channel[o]) PROVE SumInv'
  OBVIOUS
<1> DEFINE b == e.batch
           p == e.path
           s == Counted(o, b, p)
           heard == /\ Heard(o, e)
                    /\ row' = [row EXCEPT ![b] = s]
                    /\ live' = IF s.remaining = {} THEN live \ {b} ELSE live
<1>1. /\ Receive(o) /\ UNCHANGED <<submit, next, enqueued, db>>
      /\ heard \/ (~Heard(o, e) /\ UNCHANGED <<row, live, pending>>)
  BY Zenon DEF OnJob
<1>2. /\ TellInv' /\ closed' = closed
      /\ b \in Batches => p \in Told(b)
      /\ \A c \in Batches : Told(c)' = IF c = b THEN Told(c) \ {p} ELSE Told(c)
  BY <1>1, ReceiveTold DEF SumInv, PoolInv
<1>3. row \in [Batches -> States] /\ live \subseteq Batches
  BY DEF RowTypeOK
<1>4. CASE b \in Batches
  <2>1. Told(b)' \subseteq Before(b, next'[b]) /\ p \in Told(b)
    BY <1>1, <1>2, <1>4 DEF SumInv
  <2>2. ASSUME b \in live
        PROVE  /\ heard /\ WaitInv(b)
               /\ Makes(s) /\ s.remaining = row[b].remaining \ {p}
    <3>1. WaitInv(b)
      BY <2>2 DEF SumInv
    <3>2. p \in row[b].remaining /\ Makes(row[b])
      BY <3>1, <2>1 DEF WaitInv
    <3>3. heard
      BY <3>2, <2>2, <1>1 DEF Heard
    <3>4. Makes(s) /\ s.remaining = row[b].remaining \ {p}
      BY <3>2, <1>3, <1>4, CountedSums
    <3> QED BY <3>1, <3>3, <3>4
  <2>3. b \notin live => UNCHANGED <<row, live>>
    BY <1>1 DEF Heard
  <2>4. ASSUME NEW c \in Batches \ {b}
        PROVE  Told(c)' = Told(c) /\ row'[c] = row[c] /\ (c \in live' => c \in live)
    BY <2>2, <2>3, <1>2, <1>3
  <2>5. live' \subseteq Batches
    BY <2>2, <2>3, <1>3
  <2> HIDE DEF s
  <2>6. ASSUME b \in live, b \in live'
        PROVE  WaitInv(b)'
    <3>1. heard /\ WaitInv(b) /\ Makes(s) /\ s.remaining = row[b].remaining \ {p}
      BY <2>2, <2>6
    <3>2. row'[b] = s /\ s.remaining # {}
      BY <3>1, <2>6, <1>3, <1>4
    <3>3. p \notin Unsettled(b)
      <4>1. Told(b) \subseteq Before(b, next[b]) /\ next[b] \in Nat \ {0}
        BY <1>4 DEF SumInv, RowTypeOK
      <4>2. Before(b, next[b]) \cap From(b, next[b]) = {}
        BY <4>1, <1>4, FromIs
      <4> QED BY <4>1, <4>2, <2>1 DEF Unsettled
    <3>4. /\ Unsettled(b) \cup Told(b) \subseteq row[b].remaining
          /\ closed \/ row[b].remaining = Unsettled(b) \cup Told(b)
      BY <3>1 DEF WaitInv
    <3>5. Unsettled(b)' = Unsettled(b) /\ Told(b)' = Told(b) \ {p}
      BY <1>1, <1>2, <1>4 DEF Unsettled
    <3>6. (Unsettled(b) \cup Told(b)) \ {p} = Unsettled(b) \cup (Told(b) \ {p})
      BY <3>3
    <3>7. /\ Unsettled(b)' \cup Told(b)' \subseteq row'[b].remaining
          /\ closed' \/ row'[b].remaining = Unsettled(b)' \cup Told(b)'
      BY <3>1, <3>2, <3>4, <3>5, <3>6, <1>2
    <3> QED BY <3>1, <3>2, <3>7 DEF WaitInv
  <2> QED BY <2>1, <2>3, <2>4, <2>5, <2>6, <1>1, <1>2, <1>4, OneBatchSums
<1>5. CASE b \notin Batches
  <2>1. UNCHANGED <<row, live, pending>>
    BY <1>1, <1>3, <1>5 DEF Heard
  <2>2. \A c \in Batches : Told(c)' = Told(c)
    BY <1>2, <1>5
  <2> QED BY <2>1, <2>2, <1>1, <1>2, <1>3, PoolSums DEF batchVars
<1> QED BY <1>4, <1>5
\* Nothing is live at first, and nothing is told.
LEMMA SumsStart == Init => SumInv
<1> SUFFICES ASSUME Init PROVE SumInv
  OBVIOUS
<1> USE DEF Init, PoolInit
<1>1. \A k, x, i, b, p : ~Tells(k, x, i, b, p)
  <2>1. \A l \in Lanes : Len(lane[l]) = 0
    OBVIOUS
  <2>2. \A o \in Outcomes : Len(channel[o]) = 0
    OBVIOUS
  <2>3. \A w \in Workers : work[w].stage = "idle"
    BY DEF Idle
  <2> QED BY <2>1, <2>2, <2>3 DEF Tells, InLane, AtWorker, InChannel
<1>2. TellInv
  BY <1>1 DEF TellInv, OnceInv, NoneInv, Idle
<1>3. \A b \in Batches : Told(b) = {}
  BY <1>1 DEF Told
<1> QED BY <1>2, <1>3 DEF SumInv

\* Nor after a restart.
LEMMA RestartSums ==
  ASSUME Restart
  PROVE  SumInv'
<1>1. /\ lane' = [l \in Lanes |-> <<>>] /\ channel' = [o \in Outcomes |-> <<>>]
      /\ work' = [w \in Workers |-> Idle] /\ live' = {}
  BY DEF Restart
<1>2. \A k, x, i, b, p : ~Tells(k, x, i, b, p)'
  <2>1. \A l \in Lanes : Len(lane'[l]) = 0
    BY <1>1
  <2>2. \A o \in Outcomes : Len(channel'[o]) = 0
    BY <1>1
  <2>3. \A w \in Workers : work'[w].stage = "idle"
    BY <1>1 DEF Idle
  <2> QED BY <2>1, <2>2, <2>3 DEF Tells, InLane, AtWorker, InChannel
<1>3. TellInv'
  BY <1>1, <1>2 DEF TellInv, OnceInv, NoneInv, Idle
<1>4. \A b \in Batches : Told(b)' = {}
  BY <1>2 DEF Told
<1> QED BY <1>1, <1>3, <1>4 DEF SumInv

\* A step that leaves the pool and what a batch is waits as before.
LEMMA SumsStay ==
  ASSUME IInv, SumInv, UNCHANGED poolVars, UNCHANGED <<submit, next, row, live>>
  PROVE  SumInv'
<1>1. TellInv' /\ closed' = closed /\ \A c \in Batches : Told(c)' = Told(c)
  BY UntoldStays DEF SumInv
<1>2. \A c \in Batches : Told(c)' \subseteq Before(c, next'[c])
  BY <1>1 DEF SumInv
<1>3. ASSUME NEW c \in live' PROVE WaitInv(c)'
  <2>1. c \in Batches /\ WaitInv(c) /\ Unsettled(c)' = Unsettled(c)
    BY DEF SumInv, Unsettled, IInv, BatchInv, RowTypeOK
  <2>2. row'[c] = row[c] /\ submit'[c] = submit[c]
    OBVIOUS
  <2> QED BY <2>1, <2>2, <1>1 DEF WaitInv
<1> QED BY <1>1, <1>2, <1>3 DEF SumInv

\* Every step keeps the sums.
LEMMA SumsHold ==
  ASSUME IInv, SumInv, [Next]_vars
  PROVE  SumInv'
<1>1. ASSUME PoolAlone, UNCHANGED batchVars PROVE SumInv'
  BY <1>1, PoolAloneSums
<1>2. ASSUME NEW b \in Batches, Enroll(b) PROVE SumInv'
  BY <1>2, EnrollSums
<1>3. ASSUME NEW b \in Batches, Submission(b) PROVE SumInv'
  BY <1>3, PromoteSums, OfferSums, DedupSums, TruncateSums, CompleteSums DEF Submission
<1>4. ASSUME NEW b \in Batches, Cancel(b) PROVE SumInv'
  BY <1>4, CancelSums
<1>5. ASSUME Callbacks PROVE SumInv'
  BY <1>5, HearSums DEF Callbacks
<1>6. ASSUME NEW a \in Writers, Persist(a) PROVE SumInv'
  BY <1>6, SumsStay DEF Persist
<1>7. ASSUME Restart PROVE SumInv'
  BY <1>7, RestartSums
<1>8. ASSUME UNCHANGED vars PROVE SumInv'
  BY <1>8, SumsStay DEF vars, batchVars
<1> QED BY <1>1, <1>2, <1>3, <1>4, <1>5, <1>6, <1>7, <1>8 DEF Next

\* The places that tell are the jobs and the events of Expected.
LEMMA ToldIs ==
  ASSUME PoolTypeOK, NEW b \in Batches
  PROVE  Expected(b) = Told(b)
<1> DEFINE under == {job.path : job \in {j \in Unfinished : j.batch = b}}
           counted == {work[w].job.path : w \in {v \in Workers : work[v].stage = "counted" /\ work[v].job.batch = b}}
           sent == {e.path : e \in {x \in UNION {ToSet(channel[o]) : o \in Outcomes} : x.batch = b}}
<1>1. Expected(b) = under \cup counted \cup sent
  BY DEF Expected
<1>2. \A o \in Outcomes : ToSet(channel[o]) = {channel[o][i] : i \in 1..Len(channel[o])}
  <2>1. \A o \in Outcomes : DOMAIN channel[o] = 1..Len(channel[o])
    BY DEF PoolTypeOK
  <2> QED BY <2>1 DEF ToSet
<1>3. ASSUME NEW p
      PROVE  p \in sent <=> \E o, i : InChannel(o, i, b, p)
  <2> DEFINE events == UNION {ToSet(channel[o]) : o \in Outcomes}
  <2>1. p \in sent <=> \E x \in events : x.batch = b /\ p = x.path
    OBVIOUS
  <2>2. \A x : x \in events <=> \E o \in Outcomes : x \in ToSet(channel[o])
    BY Zenon
  <2>3. \A o \in Outcomes : \A x : x \in ToSet(channel[o]) <=> \E i \in 1..Len(channel[o]) : x = channel[o][i]
    BY <1>2
  <2> HIDE DEF sent, events
  <2>4. p \in sent <=> \E o \in Outcomes : \E i \in 1..Len(channel[o]) :
                         channel[o][i].batch = b /\ p = channel[o][i].path
    <3>1. ASSUME p \in sent
          PROVE  \E o \in Outcomes : \E i \in 1..Len(channel[o]) :
                   channel[o][i].batch = b /\ p = channel[o][i].path
      <4>1. PICK x \in events : x.batch = b /\ p = x.path
        BY <2>1, <3>1
      <4>2. PICK o \in Outcomes : x \in ToSet(channel[o])
        BY <2>2
      <4>3. PICK i \in 1..Len(channel[o]) : x = channel[o][i]
        BY <2>3, <4>2
      <4> QED BY <4>1, <4>3
    <3>2. ASSUME NEW o \in Outcomes, NEW i \in 1..Len(channel[o]),
                 channel[o][i].batch = b, p = channel[o][i].path
          PROVE  p \in sent
      <4>1. channel[o][i] \in events
        BY <2>2, <2>3
      <4> QED BY <2>1, <3>2, <4>1
    <3> QED BY <3>1, <3>2
  <2> QED BY <2>4 DEF InChannel
<1>4. ASSUME NEW p
      PROVE  p \in under <=> \/ \E l, i : InLane(l, i, b, p)
                             \/ \E w \in Workers : Holding(w) /\ work[w].job.batch = b /\ work[w].job.path = p
  <2>1. p \in under <=> \E job \in Unfinished : job.batch = b /\ p = job.path
    OBVIOUS
  <2>2. \A job : job \in Unfinished <=>
           \/ \E l \in Lanes : \E i \in 1..Len(lane[l]) : job = lane[l][i]
           \/ \E w \in Workers : Holding(w) /\ job = work[w].job
    BY UnfinishedIs
  <2> HIDE DEF under
  <2> QED BY <2>1, <2>2 DEF InLane
<1>5. ASSUME NEW p
      PROVE  p \in counted <=> \E w \in Workers : /\ work[w].stage = "counted"
                                                  /\ work[w].job.batch = b /\ work[w].job.path = p
  OBVIOUS
<1>6. \A w \in Workers : work[w].stage # "idle" <=> Holding(w) \/ work[w].stage = "counted"
  BY StepIs DEF PoolTypeOK, Holding
<1> HIDE DEF under, counted, sent
<1>7. ASSUME NEW p
      PROVE  p \in Expected(b) <=> \E k, x, i : Tells(k, x, i, b, p)
  <2>1. p \in Expected(b) <=> \/ \E l, i : InLane(l, i, b, p)
                              \/ \E w : AtWorker(w, b, p)
                              \/ \E o, i : InChannel(o, i, b, p)
    BY <1>1, <1>3, <1>4, <1>5, <1>6 DEF AtWorker
  <2>2. /\ \A l, i : InLane(l, i, b, p) => Tells("lane", l, i, b, p)
        /\ \A w : AtWorker(w, b, p) => Tells("work", w, 0, b, p)
        /\ \A o, i : InChannel(o, i, b, p) => Tells("channel", o, i, b, p)
        /\ \A k, x, i : Tells(k, x, i, b, p) => InLane(x, i, b, p) \/ AtWorker(x, b, p) \/ InChannel(x, i, b, p)
    BY DEF Tells
  <2> QED BY <2>1, <2>2
<1>8. ASSUME NEW p, \E k, x, i : Tells(k, x, i, b, p)
      PROVE  p \in Paths
  <2>1. \A l, i : InLane(l, i, b, p) => p \in Paths
    BY JobIs DEF PoolTypeOK, InLane
  <2>2. \A w : AtWorker(w, b, p) => p \in Paths
    BY StepIs, JobIs DEF PoolTypeOK, AtWorker
  <2>3. \A o, i : InChannel(o, i, b, p) => p \in Paths
    <3>1. channel \in [Outcomes -> Seq(Events)]
      BY DEF PoolTypeOK
    <3>2. \A o \in Outcomes : \A i \in 1..Len(channel[o]) : channel[o][i] \in Events
      BY <3>1
    <3> QED BY <3>2 DEF InChannel, Events
  <2> QED BY <1>8, <2>1, <2>2, <2>3 DEF Tells
<1> QED BY <1>7, <1>8 DEF Told

\* The sums are those of BatchesAddUp.
LEMMA SumsAreEnough ==
  ASSUME IInv, SumInv
  PROVE  BatchesAddUp
<1> SUFFICES ASSUME NEW b \in live
             PROVE  /\ row[b].counts.total = row[b].counts.processed + row[b].counts.failed + row[b].dropped
                                               + Cardinality(row[b].remaining)
                    /\ row[b].remaining = NotOffered(b) \cup Expected(b) \/ closed
                    /\ submit[b] = "over" => row[b].remaining # {}
  BY DEF BatchesAddUp
<1>1. b \in Batches /\ WaitInv(b) /\ next[b] \in Nat \ {0}
  BY DEF IInv, BatchInv, RowTypeOK, SumInv
<1>2. Expected(b) = Told(b)
  BY <1>1, ToldIs DEF IInv, PoolInv
<1>3. NotOffered(b) = Unsettled(b)
  <2>1. CASE submit[b] \in {"draining", "over"}
    BY <2>1 DEF NotOffered, Unsettled
  <2>2. CASE submit[b] \notin {"draining", "over"}
    <3>1. submit[b] \in {"enrolled", "offering", "duplicate", "refused"}
      BY <2>2, <1>1 DEF IInv, BatchInv, RowTypeOK, IdleInv
    <3>2. next[b] <= Len(Files[b]) + 1
      BY <3>1, <1>1, FilesAre DEF IInv, BatchInv, TotalInv
    <3> QED BY <2>2, <3>2, <1>1, SliceIs DEF NotOffered, Unsettled
  <2> QED BY <2>1, <2>2
<1> QED BY <1>1, <1>2, <1>3 DEF WaitInv, Makes

-----------------------------------------------------------------------------
(***************************************************************************)
(* What a reader should know of.                                           *)
(***************************************************************************)

\* The lanes, the claims, the events, the submissions and the rows keep their types,
\* and no lane or channel is over its length (Pool and batchState).
THEOREM BatchesTypeCorrect == Spec => []TypeOK
<1>1. IInv => TypeOK
  BY TypeIs DEF IInv, PoolInv, BatchInv
<1> QED BY InvHolds, <1>1, PTL

\* A job under way has its key, or a delete took it: no other job's end frees it
\* (releaseDedupLocked).
THEOREM KeysHaveOneJob == Spec => []JobsOwnTheirKeys
<1>1. IInv => JobsOwnTheirKeys
  BY PoolInvIsEnough DEF IInv
<1> QED BY InvHolds, <1>1, PTL

\* A key that is taken is held by a job that will give it back (finishJob).
THEOREM NoKeyIsLost == Spec => []KeysAreReleased
<1>1. IInv => KeysAreReleased
  BY PoolInvIsEnough DEF IInv
<1> QED BY InvHolds, <1>1, PTL

\* The row that stays is that of the batch's end, whoever wrote last
\* (UpdateUpscaleBatchStatus, UpdateUpscaleBatchProgress).
THEOREM TheVerdictStays == Spec => []VerdictIsPersisted
<1>1. IInv => VerdictIsPersisted
  BY DEF IInv, BatchInv, LandInv, Same, VerdictIsPersisted
<1> QED BY InvHolds, <1>1, PTL

\* A row that has ended is never written again (both statements' WHERE).
THEOREM EndedRowsAreFinal == Spec => EndedRowsStay
<1>1. ASSUME IInv, [Next]_vars
      PROVE  EndedRowsKept
  <2> SUFFICES ASSUME NEW c \in Batches, db[c].status \in Ended PROVE db'[c] = db[c]
    BY DEF EndedRowsKept
  <2> USE DEF IInv, BatchInv
  <2>1. db \in [Batches -> Counts]
    BY <1>1 DEF RowTypeOK
  <2>2. ASSUME NEW b \in Batches, Enroll(b) PROVE db'[c] = db[c]
    <3>1. b # c
      BY <1>1, <2>2, StatusesAre DEF Enroll, IdleInv
    <3> QED BY <2>1, <2>2, <3>1 DEF Enroll
  <2>3. ASSUME NEW a \in Writers, Persist(a) PROVE db'[c] = db[c]
    BY <2>1, <2>3 DEF Persist, Writable
  <2>4. ASSUME Restart PROVE db'[c] = db[c]
    BY <2>1, <2>4 DEF Restart, Ended
  <2>5. CASE UNCHANGED db
    BY <2>5
  <2> QED BY <1>1, <2>2, <2>3, <2>4, <2>5
       DEF Next, vars, batchVars, Submission, Promote, Offer, DropDedupedPath, Truncate,
           CompleteIfDrained, Cancel, Callbacks, OnJob
<1>2. IInv /\ [Next]_vars => [EndedRowsKept]_vars
  BY <1>1
<1> QED BY InvHolds, <1>2, PTL DEF Spec, EndedRowsStay

\* A live batch waits for the files somebody will tell it of, and for no others, and
\* its counters and what it waits for make up its total (OnJobComplete, OnJobFailed,
\* OnJobDropped, dropDedupedPath and the truncation of a batch that was refused).
THEOREM BatchesAlwaysAddUp == Spec => []BatchesAddUp
<1>1. SumInv /\ IInv /\ [Next]_vars => SumInv'
  BY SumsHold
<1>2. Spec => []SumInv
  BY InvHolds, SumsStart, <1>1, PTL DEF Spec
<1>3. IInv /\ SumInv => BatchesAddUp
  BY SumsAreEnough
<1> QED BY InvHolds, <1>2, <1>3, PTL
=============================================================================
