------------------------- MODULE JobAttemptsProofs -------------------------
(***************************************************************************)
(* What JobPipeline does with attempts, under every kind of fault: nothing *)
(* is dead-lettered early, the reapers give a job up, a job has a second   *)
(* copy only by what excuses one, and it fails no more often than its      *)
(* budget and its excuses allow.  attempts is counted behind the event it  *)
(* counts, by several processes; the invariants have, for each job, those  *)
(* who have yet to count.                                                  *)
(***************************************************************************)
EXTENDS JobPipelineProofs, FiniteSetTheorems

\* The calls between a failed handler and the increment it leads to.
CountPcs == {"publishRetry", "setRetry", "increment"}

\* The calls between GetJob and the end of the handler.
ReadPcs == {"setRunning"} \cup Running

\* Workers whose failure is not in attempts yet, and reapers whose RequeueJob
\* is in attempts and its publish is not done.
Counting(j) == {w \in Workers : wjob[w] = j /\ wpc[w] \in CountPcs}
Publishing(j) == {r \in Reapers : picked[r] = j}

\* Of a job that is not inserted there is no row, and nobody has heard of it.
NotBeforeInsert ==
    \A j \in Jobs : sub[j] = "new" =>
        /\ rows[j] = NoRow
        /\ queue[j] = 0 /\ retryQ[j] = 0 /\ rjob # j
        /\ \A w \in Workers : wjob[w] # j
        /\ \A r \in Reapers : picked[r] # j /\ j \notin todo[r]

\* Every publish of a reaper, done or ahead, is in attempts, and had them
\* within the budget.
RequeuesCounted ==
    \A j \in Jobs :
        /\ republished[j] + Cardinality(Publishing(j)) <= rows[j].attempts
        /\ republished[j] + Cardinality(Publishing(j)) <= MaxAttempts

\* attempts, with those that are still to be counted, are failures and
\* requeues that happened; what a worker has read is no more.
AttemptsHappened ==
    /\ \A j \in Jobs : rows[j].attempts + Cardinality(Counting(j))
                          <= fails[j] + requeues[j]
    /\ \A w \in Workers : wpc[w] \in ReadPcs => seen[w] <= rows[wjob[w]].attempts

\* A worker publishes to jobs.dlq when the budget is used up.
DeadLettersEarned ==
    /\ \A w \in Workers : wpc[w] = "publishDLQ"
                             => fails[wjob[w]] + requeues[wjob[w]] >= MaxAttempts
    /\ DeadLetterEarned

AInv == TypeOK /\ NotBeforeInsert /\ RequeuesCounted /\ AttemptsHappened
            /\ DeadLettersEarned

-----------------------------------------------------------------------------
(* Counting.                                                               *)

LEMMA CountsAreNat ==
    ASSUME NEW j
    PROVE  /\ IsFiniteSet(Counting(j)) /\ Cardinality(Counting(j)) \in Nat
           /\ IsFiniteSet(Publishing(j)) /\ Cardinality(Publishing(j)) \in Nat
BY PipelineAssumption, FS_Subset, FS_CardinalityType DEF Counting, Publishing

\* One more element at most, and one less at least.
LEMMA CountGrowsByOne ==
    ASSUME NEW S, IsFiniteSet(S), NEW x, NEW T, T \subseteq S \cup {x}
    PROVE  Cardinality(T) <= Cardinality(S) + 1
<1>0. Cardinality(S) \in Nat
  BY FS_CardinalityType
<1>1. /\ IsFiniteSet(S \cup {x})
      /\ Cardinality(S \cup {x}) \in {Cardinality(S), Cardinality(S) + 1}
  BY FS_AddElement
<1>2. IsFiniteSet(T) /\ Cardinality(T) <= Cardinality(S \cup {x})
  BY <1>1, FS_Subset
<1> QED BY <1>0, <1>1, <1>2, FS_CardinalityType

LEMMA CountShrinksByOne ==
    ASSUME NEW S, IsFiniteSet(S), NEW x \in S, NEW T, T \subseteq S \ {x}
    PROVE  Cardinality(T) + 1 <= Cardinality(S)
<1>1. IsFiniteSet(S \ {x}) /\ Cardinality(S \ {x}) = Cardinality(S) - 1
  BY FS_RemoveElement
<1>2. IsFiniteSet(T) /\ Cardinality(T) <= Cardinality(S \ {x})
  BY <1>1, FS_Subset
<1> QED BY <1>1, <1>2, FS_CardinalityType

-----------------------------------------------------------------------------
(* A job that is not inserted.                                             *)

\* Whatever fails, nobody hears of a job before its row is there.
LEMMA NextNotBeforeInsert ==
    ASSUME AInv, [Next]_vars
    PROVE  NotBeforeInsert'
<1> USE DEF topicVars, workerVars, routerVars, reaperVars, historyVars
<1> SUFFICES ASSUME NEW k \in Jobs, sub'[k] = "new"
             PROVE  /\ rows'[k] = NoRow
                    /\ queue'[k] = 0 /\ retryQ'[k] = 0 /\ rjob' # k
                    /\ \A w \in Workers : wjob'[w] # k
                    /\ \A r \in Reapers : picked'[r] # k /\ k \notin todo'[r]
  BY DEF NotBeforeInsert
<1> DEFINE Unknown == /\ rows[k] = NoRow
                      /\ queue[k] = 0 /\ retryQ[k] = 0 /\ rjob # k
                      /\ \A w \in Workers : wjob[w] # k
                      /\ \A r \in Reapers : picked[r] # k /\ k \notin todo[r]
<1>0. TypeOK
  BY DEF AInv
<1>1. sub[k] = "new" => Unknown
  BY DEF AInv, NotBeforeInsert
<1> USE <1>0
<1>2. ASSUME NEW j \in Jobs,
             SubmitStep(j) \/ PublishJobFails(j) \/ SetQueuedFails(j)
      PROVE  Unknown'
  <2>1. j # k /\ sub[k] = "new"
    BY <1>2 DEF SubmitStep, InsertJob, PublishJob, SetQueued, PublishJobFails,
                SetQueuedFails, TypeOK
  <2>2. CASE InsertJob(j) \/ SetQueued(j)
    BY <1>1, <2>1, <2>2 DEF InsertJob, SetQueued, Set, TypeOK
  <2>3. CASE PublishJob(j) \/ PublishJobFails(j)
    BY <1>1, <2>1, <2>3 DEF PublishJob, PublishJobFails, Bump, Send, TypeOK
  <2>4. CASE SetQueuedFails(j)
    BY <1>1, <2>1, <2>4 DEF SetQueuedFails
  <2> QED BY <1>2, <2>2, <2>3, <2>4 DEF SubmitStep
<1>3. ASSUME UNCHANGED sub PROVE Unknown
  BY <1>1, <1>3
<1>4. ASSUME NEW w \in Workers,
             \/ WorkerStep(w) \/ Heartbeat(w) \/ WorkerCrashes(w) \/ Rebalance(w)
             \/ WorkerQueryFails(w) \/ WorkerPublishFails(w)
             \/ \E j \in Jobs : FetchMessage(w, j)
      PROVE  Unknown'
  <2>1. Unknown
    BY <1>3, <1>4
       DEF WorkerStep, GetJob, SetRunning, HandlerSucceeds, HandlerFails,
           SetSuccess, PublishRetry, SetRetry, IncrementAttempts, PublishDLQ,
           SetFailed, CommitMessage, Write, Heartbeat, WorkerCrashes, Rebalance,
           FetchMessage, WorkerQueryFails, WorkerPublishFails
  <2>2. CASE SetRunning(w) \/ SetSuccess(w) \/ SetRetry(w) \/ SetFailed(w)
    <3>1. /\ rows'[k] = rows[k]
          /\ UNCHANGED <<queue, retryQ, rjob, wjob, picked, todo>>
      BY <2>1, <2>2 DEF SetRunning, SetSuccess, SetRetry, SetFailed, Write, Set,
                        TypeOK
    <3> QED BY <2>1, <3>1
  <2>3. CASE \/ GetJob(w) \/ HandlerSucceeds(w) \/ HandlerFails(w) \/ PublishDLQ(w)
             \/ WorkerQueryFails(w)
    BY <2>1, <2>3 DEF GetJob, HandlerSucceeds, HandlerFails, PublishDLQ,
                      WorkerQueryFails
  <2>4. CASE Heartbeat(w) \/ IncrementAttempts(w)
    <3>1. /\ rows'[k] = rows[k]
          /\ UNCHANGED <<queue, retryQ, rjob, wjob, picked, todo>>
      BY <2>1, <2>4 DEF Heartbeat, IncrementAttempts, TypeOK
    <3> QED BY <2>1, <3>1
  <2>5. CASE PublishRetry(w) \/ WorkerPublishFails(w)
    <3>1. /\ retryQ'[k] = retryQ[k]
          /\ UNCHANGED <<rows, queue, rjob, wjob, picked, todo>>
      BY <2>1, <2>5 DEF PublishRetry, WorkerPublishFails, Bump, Send, TypeOK
    <3> QED BY <2>1, <3>1
  <2>6. CASE CommitMessage(w) \/ WorkerCrashes(w) \/ Rebalance(w)
    <3>1. /\ queue'[k] = queue[k]
          /\ \A v \in Workers : wjob'[v] \in {wjob[v], NoJob}
          /\ UNCHANGED <<rows, retryQ, rjob, picked, todo>>
      BY <2>1, <2>6 DEF CommitMessage, WorkerCrashes, Rebalance, Release,
                        GiveBack, Send, TypeOK
    <3> QED BY <2>1, <3>1, PipelineAssumption
  <2>7. ASSUME NEW j \in Jobs, FetchMessage(w, j) PROVE Unknown'
    <3>1. j # k
      BY <2>1, <2>7 DEF FetchMessage, Deliver
    <3> QED BY <2>1, <2>7, <3>1 DEF FetchMessage, Deliver, Take, TypeOK
  <2> QED BY <1>4, <2>2, <2>3, <2>4, <2>5, <2>6, <2>7 DEF WorkerStep
<1>5. ASSUME \/ RouterStep \/ RouterCrashes \/ RepublishFails
             \/ \E j \in Jobs : FetchRetry(j) \/ HeartbeatAges(j)
      PROVE  Unknown'
  <2>1. Unknown
    BY <1>3, <1>5 DEF RouterStep, Republish, CommitRetry, RouterCrashes,
                      RepublishFails, FetchRetry, HeartbeatAges
  <2>2. CASE Republish
    BY <2>1, <2>2 DEF Republish, Bump, TypeOK
  <2>3. CASE CommitRetry
    BY <2>1, <2>3, PipelineAssumption DEF CommitRetry
  <2>4. CASE RouterCrashes \/ RepublishFails
    <3>1. /\ queue'[k] = queue[k] /\ retryQ'[k] = retryQ[k] /\ rjob' = NoJob
          /\ UNCHANGED <<rows, wjob, picked, todo>>
      BY <2>1, <2>4 DEF RouterCrashes, RepublishFails, Bump, Send, TypeOK
    <3> QED BY <2>1, <3>1, PipelineAssumption
  <2>5. ASSUME NEW j \in Jobs, FetchRetry(j) PROVE Unknown'
    <3>1. j # k
      BY <2>1, <2>5 DEF FetchRetry
    <3> QED BY <2>1, <2>5, <3>1 DEF FetchRetry, Take, TypeOK
  <2>6. ASSUME NEW j \in Jobs, HeartbeatAges(j) PROVE Unknown'
    <3>1. j # k
      BY <2>1, <2>6 DEF HeartbeatAges, NoRow
    <3> QED BY <2>1, <2>6, <3>1 DEF HeartbeatAges, TypeOK
  <2> QED BY <1>5, <2>2, <2>3, <2>4, <2>5, <2>6 DEF RouterStep
<1>6. ASSUME NEW r \in Reapers,
             \/ ReaperStep(r) \/ ReaperCrashes(r) \/ PublishRequeuedFails(r)
             \/ \E j \in Jobs : RequeueFails(r, j)
      PROVE  Unknown'
  <2>1. Unknown
    BY <1>3, <1>6 DEF ReaperStep, ReapStaleJobs, Requeue, PublishRequeued,
                      ReaperCrashes, PublishRequeuedFails, RequeueFails
  <2>2. CASE ReapStaleJobs(r)
    BY <2>1, <2>2 DEF ReapStaleJobs, IsStale, NoRow, TypeOK
  <2>3. ASSUME NEW j \in Jobs, Requeue(r, j) PROVE Unknown'
    <3>1. j # k
      BY <2>1, <2>3 DEF Requeue
    <3> QED BY <2>1, <2>3, <3>1, PipelineAssumption DEF Requeue, TypeOK
  <2>4. CASE PublishRequeued(r) \/ PublishRequeuedFails(r)
    <3>1. /\ queue'[k] = queue[k]
          /\ \A q \in Reapers : picked'[q] \in {picked[q], NoJob}
          /\ UNCHANGED <<rows, retryQ, rjob, wjob, todo>>
      BY <2>1, <2>4 DEF PublishRequeued, PublishRequeuedFails, Bump, Send, TypeOK
    <3> QED BY <2>1, <3>1, PipelineAssumption
  <2>5. CASE ReaperCrashes(r)
    BY <2>1, <2>5, PipelineAssumption DEF ReaperCrashes, TypeOK
  <2>6. ASSUME NEW j \in Jobs, RequeueFails(r, j) PROVE Unknown'
    BY <2>1, <2>6 DEF RequeueFails, TypeOK
  <2> QED BY <1>6, <2>2, <2>3, <2>4, <2>5, <2>6 DEF ReaperStep
<1>7. CASE UNCHANGED vars
  BY <1>1, <1>7 DEF vars
<1> QED BY <1>2, <1>4, <1>5, <1>6, <1>7 DEF Next, FaultStep, AllQuiet

-----------------------------------------------------------------------------
(* Who changes attempts.                                                   *)

\* The worker's increment adds one to its job, RequeueJob one to the reaper's,
\* and no other query touches the column.
LEMMA WhoCounts ==
    ASSUME AInv, [Next]_vars
    PROVE  \/ \A j \in Jobs : rows'[j].attempts = rows[j].attempts
           \/ \E w \in Workers : IncrementAttempts(w)
           \/ \E r \in Reapers, j \in Jobs : Requeue(r, j)
<1> USE DEF topicVars, workerVars, routerVars, reaperVars, historyVars
<1> DEFINE Kept == \A j \in Jobs : rows'[j].attempts = rows[j].attempts
<1>0. TypeOK
  BY DEF AInv
<1>1. UNCHANGED rows => Kept
  OBVIOUS
<1>2. ASSUME NEW j \in Jobs, NEW s, Set(j, s) PROVE Kept
  BY <1>0, <1>2 DEF Set, UpdateJobState, TypeOK, Row
<1>3. ASSUME NEW j \in Jobs, SubmitStep(j) PROVE Kept
  <2>1. CASE InsertJob(j)
    BY <1>0, <2>1 DEF InsertJob, CreateJob, NoRow, AInv, NotBeforeInsert, TypeOK, Row
  <2>2. CASE PublishJob(j) \/ SetQueued(j)
    BY <1>1, <1>2, <2>2 DEF PublishJob, SetQueued
  <2> QED BY <1>3, <2>1, <2>2 DEF SubmitStep
<1>4. ASSUME NEW j \in Jobs, HeartbeatAges(j) PROVE Kept
  BY <1>0, <1>4 DEF HeartbeatAges, TypeOK, Row
<1>5. ASSUME NEW w \in Workers, Heartbeat(w) PROVE Kept
  BY <1>0, <1>5 DEF Heartbeat, Beat, TypeOK, Row
<1>6. ASSUME NEW w \in Workers, NEW from, NEW to, NEW s, Write(w, from, to, s),
             from # "idle"
      PROVE  Kept
  BY <1>0, <1>2, <1>6, WorkerHoldsJob DEF Write
<1>7. ASSUME NEW w \in Workers, WorkerStep(w), ~IncrementAttempts(w) PROVE Kept
  BY <1>1, <1>6, <1>7
     DEF WorkerStep, GetJob, SetRunning, HandlerSucceeds, HandlerFails,
         SetSuccess, PublishRetry, SetRetry, PublishDLQ, SetFailed, CommitMessage
<1>8. ASSUME FaultStep PROVE Kept
  BY <1>1, <1>8
     DEF FaultStep, PublishJobFails, SetQueuedFails, WorkerQueryFails,
         WorkerPublishFails, WorkerCrashes, Rebalance, RepublishFails,
         RouterCrashes, RequeueFails, PublishRequeuedFails, ReaperCrashes
<1>9. ASSUME \/ \E j \in Jobs : FetchRetry(j) \/ \E w \in Workers : FetchMessage(w, j)
             \/ RouterStep \/ UNCHANGED vars
             \/ \E r \in Reapers : ReapStaleJobs(r) \/ PublishRequeued(r)
      PROVE  Kept
  BY <1>1, <1>9 DEF FetchRetry, FetchMessage, RouterStep, Republish, CommitRetry,
                    ReapStaleJobs, PublishRequeued, vars
<1> QED BY <1>3, <1>4, <1>5, <1>7, <1>8, <1>9 DEF Next, ReaperStep, AllQuiet

LEMMA Increments ==
    ASSUME AInv, NEW w \in Workers, IncrementAttempts(w)
    PROVE  /\ wjob[w] \in Jobs
           /\ rows'[wjob[w]].attempts = rows[wjob[w]].attempts + 1
           /\ \A j \in Jobs \ {wjob[w]} : rows'[j] = rows[j]
<1>1. wjob[w] \in Jobs
  BY WorkerHoldsJob DEF IncrementAttempts, AInv
<1> QED BY <1>1 DEF IncrementAttempts, IncrementJobAttempts, AInv, TypeOK, Row

LEMMA Requeues ==
    ASSUME AInv, NEW r \in Reapers, NEW j \in Jobs, Requeue(r, j)
    PROVE  /\ rows'[j].attempts = rows[j].attempts + 1
           /\ requeues'[j] = requeues[j] + 1
           /\ \A k \in Jobs \ {j} : /\ rows'[k] = rows[k]
                                     /\ requeues'[k] = requeues[k]
BY DEF Requeue, RequeueJob, Bump, AInv, TypeOK, Row

LEMMA AttemptsGrow ==
    ASSUME AInv, [Next]_vars, NEW j \in Jobs
    PROVE  rows'[j].attempts >= rows[j].attempts
<1>1. rows[j].attempts \in Nat
  BY DEF AInv, TypeOK, Row
<1>2. ASSUME NEW w \in Workers, IncrementAttempts(w)
      PROVE  rows'[j].attempts >= rows[j].attempts
  BY <1>1, <1>2, Increments
<1>3. ASSUME NEW r \in Reapers, NEW k \in Jobs, Requeue(r, k)
      PROVE  rows'[j].attempts >= rows[j].attempts
  BY <1>1, <1>3, Requeues
<1> QED BY <1>1, <1>2, <1>3, WhoCounts

-----------------------------------------------------------------------------
(* The reapers give up.                                                    *)

LEMMA NextRequeuesCounted ==
    ASSUME AInv, [Next]_vars
    PROVE  RequeuesCounted'
<1> USE DEF topicVars, workerVars, routerVars, reaperVars, historyVars
<1>0. /\ TypeOK
      /\ MaxAttempts \in Nat
      /\ \A j \in Jobs : /\ rows[j].attempts \in Nat /\ republished[j] \in Nat
                          /\ rows'[j].attempts \in Nat
  <2>1. TypeOK /\ TypeOK'
    BY NextTypeOK DEF AInv
  <2> QED BY <2>1, PipelineAssumption DEF TypeOK, Row
<1> DEFINE Had(j) == republished[j] + Cardinality(Publishing(j))
           Fits(j) == Had(j)' <= rows'[j].attempts /\ Had(j)' <= MaxAttempts
<1>1. \A j \in Jobs : Had(j) <= rows[j].attempts /\ Had(j) <= MaxAttempts
  BY DEF AInv, RequeuesCounted
<1>2. \A j \in Jobs : /\ Cardinality(Publishing(j)) \in Nat
                      /\ IsFiniteSet(Publishing(j))
                      /\ Cardinality(Publishing(j)') \in Nat
                      /\ IsFiniteSet(Publishing(j)')
  <2>1. ASSUME NEW j \in Jobs
        PROVE  Publishing(j)' \in SUBSET Reapers /\ Publishing(j) \in SUBSET Reapers
    BY DEF Publishing
  <2> QED BY <2>1, PipelineAssumption, FS_Subset, FS_CardinalityType
\* Nobody begins a publish, and what is published more had been begun.
<1>3. ASSUME \A j \in Jobs : Had(j)' <= Had(j) PROVE \A j \in Jobs : Fits(j)
  <2> SUFFICES ASSUME NEW j \in Jobs PROVE Fits(j)
    OBVIOUS
  <2>1. rows'[j].attempts >= rows[j].attempts
    BY AttemptsGrow
  <2>2. Had(j) \in Nat
    BY <1>0, <1>2
  <2>3. republished'[j] \in Nat
    BY NextTypeOK DEF AInv, TypeOK
  <2> QED BY <1>0, <1>1, <1>2, <1>3, <2>1, <2>2, <2>3
<1>4. ASSUME UNCHANGED <<picked, republished>> PROVE \A j \in Jobs : Fits(j)
  <2>1. \A j \in Jobs : Had(j)' = Had(j) /\ Had(j) \in Nat
    BY <1>0, <1>2, <1>4 DEF Publishing
  <2> QED BY <1>3, <2>1
<1>5. ASSUME NEW r \in Reapers, PublishRequeued(r) \/ PublishRequeuedFails(r)
      PROVE  \A j \in Jobs : Fits(j)
  <2>1. PICK p \in Jobs : p = picked[r]
    BY <1>0, <1>5 DEF PublishRequeued, PublishRequeuedFails, TypeOK
  <2>2. /\ republished'[p] \in {republished[p], republished[p] + 1}
        /\ \A j \in Jobs \ {p} : republished'[j] = republished[j]
        /\ picked' = [picked EXCEPT ![r] = NoJob]
    BY <1>0, <1>5, <2>1 DEF PublishRequeued, PublishRequeuedFails, Bump, Send, TypeOK
  <2>3. Cardinality(Publishing(p)') + 1 <= Cardinality(Publishing(p))
    <3>1. r \in Publishing(p)
      BY <2>1 DEF Publishing
    <3>2. Publishing(p)' \subseteq Publishing(p) \ {r}
      BY <1>0, <2>1, <2>2, PipelineAssumption DEF Publishing, TypeOK
    <3> QED BY <1>2, <2>1, <3>1, <3>2, CountShrinksByOne
  <2>4. ASSUME NEW j \in Jobs \ {p}
        PROVE  Cardinality(Publishing(j)') = Cardinality(Publishing(j))
    <3>1. Publishing(j)' = Publishing(j)
      BY <1>0, <2>1, <2>2, <2>4, PipelineAssumption DEF Publishing, TypeOK
    <3> QED BY <3>1
  <2>5. ASSUME NEW j \in Jobs PROVE Had(j)' <= Had(j)
    <3>1. CASE j = p
      BY <1>0, <1>2, <2>2, <2>3, <3>1
    <3>2. CASE j # p
      BY <1>0, <1>2, <2>2, <2>4, <3>2
    <3> QED BY <3>1, <3>2
  <2> QED BY <1>3, <2>5
<1>6. ASSUME NEW r \in Reapers, ReaperCrashes(r) PROVE \A j \in Jobs : Fits(j)
  <2>1. ASSUME NEW j \in Jobs PROVE Had(j)' <= Had(j)
    <3>1. Publishing(j)' \subseteq Publishing(j) /\ republished' = republished
      BY <1>0, <1>6, PipelineAssumption DEF ReaperCrashes, Publishing, TypeOK
    <3>2. Cardinality(Publishing(j)') <= Cardinality(Publishing(j))
      BY <1>2, <3>1, FS_Subset
    <3> QED BY <1>0, <1>2, <3>1, <3>2
  <2> QED BY <1>3, <2>1
<1>7. ASSUME NEW r \in Reapers, NEW k \in Jobs, Requeue(r, k)
      PROVE  \A j \in Jobs : Fits(j)
  <2>1. /\ rows'[k].attempts = rows[k].attempts + 1
        /\ \A j \in Jobs \ {k} : rows'[j] = rows[j]
        /\ republished' = republished
    BY <1>7, Requeues DEF Requeue
  <2>2. /\ picked[r] = NoJob
        /\ \/ picked' = [picked EXCEPT ![r] = NoJob]
           \/ picked' = [picked EXCEPT ![r] = k] /\ rows[k].attempts + 1 <= MaxAttempts
    <3>1. RequeueJob(rows[k]).attempts = rows[k].attempts + 1
      BY DEF RequeueJob
    <3>2. ~Exhausted(RequeueJob(rows[k])) => rows[k].attempts + 1 <= MaxAttempts
      BY <1>0, <3>1 DEF Exhausted
    <3> QED BY <1>7, <3>2 DEF Requeue
  <2>3. CASE picked' = [picked EXCEPT ![r] = NoJob]
    <3>1. picked' = picked
      BY <1>0, <2>2, <2>3 DEF TypeOK
    <3> QED BY <1>4, <2>1, <3>1
  <2>4. CASE picked' = [picked EXCEPT ![r] = k] /\ rows[k].attempts + 1 <= MaxAttempts
    <3>1. Cardinality(Publishing(k)') <= Cardinality(Publishing(k)) + 1
      <4>1. Publishing(k)' \subseteq Publishing(k) \cup {r}
        BY <1>0, <2>4 DEF Publishing, TypeOK
      <4> QED BY <1>2, <4>1, CountGrowsByOne
    <3>2. Fits(k)
      BY <1>0, <1>1, <1>2, <2>1, <2>4, <3>1
    <3>3. ASSUME NEW j \in Jobs \ {k} PROVE Fits(j)
      <4>1. Publishing(j)' = Publishing(j)
        BY <1>0, <2>2, <2>4, PipelineAssumption DEF Publishing, TypeOK
      <4> QED BY <1>1, <2>1, <4>1
    <3> QED BY <3>2, <3>3
  <2> QED BY <2>2, <2>3, <2>4
<1>8. \/ UNCHANGED <<picked, republished>>
      \/ \E r \in Reapers : \/ PublishRequeued(r) \/ PublishRequeuedFails(r)
                            \/ ReaperCrashes(r) \/ \E j \in Jobs : Requeue(r, j)
  BY DEF Next, vars, SubmitStep, InsertJob, PublishJob, SetQueued, FetchRetry,
         HeartbeatAges, WorkerStep, GetJob, SetRunning, HandlerSucceeds,
         HandlerFails, SetSuccess, PublishRetry, SetRetry, IncrementAttempts,
         PublishDLQ, SetFailed, CommitMessage, Write, Heartbeat, FetchMessage,
         RouterStep, Republish, CommitRetry, ReaperStep, ReapStaleJobs, FaultStep,
         PublishJobFails, SetQueuedFails, WorkerQueryFails, WorkerPublishFails,
         WorkerCrashes, Rebalance, RepublishFails, RouterCrashes, RequeueFails,
         AllQuiet
<1> QED BY <1>4, <1>5, <1>6, <1>7, <1>8 DEF RequeuesCounted

-----------------------------------------------------------------------------
(* What attempts counts has happened.                                      *)

\* AttemptsHappened for one job, and for what workers have read.
Happened(j) == rows[j].attempts + Cardinality(Counting(j)) <= fails[j] + requeues[j]

SeenBefore == \A w \in Workers : wpc[w] \in ReadPcs
                                    => seen[w] <= rows[wjob[w]].attempts

\* A worker comes to the calls that count by a failed handler only.
NobodyComes ==
    \A w \in Workers : \/ wpc'[w] = wpc[w] /\ wjob'[w] = wjob[w]
                       \/ wpc'[w] \notin CountPcs
                       \/ wpc'[w] \in CountPcs /\ wpc[w] \in CountPcs /\ wjob'[w] = wjob[w]

\* Steps after which no one more has to count, and attempts are the same.
LEMMA NobodyComesKeeps ==
    ASSUME AInv, [Next]_vars, NobodyComes,
           NEW j \in Jobs, rows'[j].attempts = rows[j].attempts,
           fails'[j] >= fails[j], requeues'[j] >= requeues[j]
    PROVE  Happened(j)'
<1>1. Counting(j)' \subseteq Counting(j)
  BY DEF NobodyComes, Counting
<1>2. Cardinality(Counting(j)') <= Cardinality(Counting(j))
  BY <1>1, CountsAreNat, FS_Subset
<1>3. Cardinality(Counting(j)) \in Nat /\ Cardinality(Counting(j)') \in Nat
  BY <1>1, CountsAreNat, FS_Subset, FS_CardinalityType
<1>4. /\ rows[j].attempts \in Nat /\ fails[j] \in Nat /\ requeues[j] \in Nat
      /\ fails'[j] \in Nat /\ requeues'[j] \in Nat
  BY NextTypeOK DEF AInv, TypeOK, Row
<1>5. Happened(j)
  BY DEF AInv, AttemptsHappened, Happened
<1> QED BY <1>2, <1>3, <1>4, <1>5 DEF Happened

\* Failures and requeues are only added to.
LEMMA HistoryGrows ==
    ASSUME AInv, [Next]_vars, NEW j \in Jobs
    PROVE  fails'[j] >= fails[j] /\ requeues'[j] >= requeues[j]
<1> USE DEF topicVars, workerVars, routerVars, reaperVars, historyVars
<1>1. \/ UNCHANGED <<fails, requeues>>
      \/ \E w \in Workers : HandlerFails(w)
      \/ \E r \in Reapers, k \in Jobs : Requeue(r, k)
  BY DEF Next, vars, SubmitStep, InsertJob, PublishJob, SetQueued, FetchRetry,
         HeartbeatAges, WorkerStep, GetJob, SetRunning, HandlerSucceeds,
         SetSuccess, PublishRetry, SetRetry, IncrementAttempts,
         PublishDLQ, SetFailed, CommitMessage, Write, Heartbeat, FetchMessage,
         RouterStep, Republish, CommitRetry, ReaperStep, ReapStaleJobs, FaultStep,
         PublishJobFails, SetQueuedFails, WorkerQueryFails, WorkerPublishFails,
         WorkerCrashes, Rebalance, RepublishFails, RouterCrashes, RequeueFails,
         PublishRequeued, PublishRequeuedFails, ReaperCrashes, AllQuiet
<1>2. ASSUME NEW w \in Workers, HandlerFails(w)
      PROVE  fails'[j] >= fails[j] /\ requeues' = requeues
  BY <1>2 DEF HandlerFails, Bump, AInv, TypeOK
<1>3. ASSUME NEW r \in Reapers, NEW k \in Jobs, Requeue(r, k)
      PROVE  requeues'[j] >= requeues[j] /\ fails' = fails
  BY <1>3 DEF Requeue, Bump, AInv, TypeOK
<1> QED BY <1>1, <1>2, <1>3 DEF AInv, TypeOK

\* Who moves a worker, and where to.
LEMMA WhoComes ==
    ASSUME AInv, [Next]_vars
    PROVE  \/ NobodyComes
           \/ \E w \in Workers : HandlerFails(w)
<1> USE DEF topicVars, workerVars, routerVars, reaperVars, historyVars
<1>0. TypeOK
  BY DEF AInv
<1>1. ASSUME UNCHANGED <<wpc, wjob>> PROVE NobodyComes
  BY <1>1 DEF NobodyComes
<1>2. ASSUME NEW w \in Workers, NEW pc, Goto(w, pc), UNCHANGED wjob,
             pc = wpc[w] \/ pc \notin CountPcs \/ wpc[w] \in CountPcs
      PROVE  NobodyComes
  BY <1>0, <1>2 DEF NobodyComes, Goto, TypeOK
<1>3. ASSUME NEW w \in Workers, Release(w) PROVE NobodyComes
  BY <1>0, <1>3 DEF NobodyComes, Release, TypeOK, CountPcs
<1>4. ASSUME NEW w \in Workers, WorkerStep(w), ~HandlerFails(w) PROVE NobodyComes
  BY <1>2, <1>3, <1>4
     DEF WorkerStep, GetJob, SetRunning, HandlerSucceeds, SetSuccess,
         PublishRetry, SetRetry, IncrementAttempts, PublishDLQ, SetFailed,
         CommitMessage, Write, CountPcs
<1>5. ASSUME NEW w \in Workers, Heartbeat(w) \/ WorkerQueryFails(w) \/ WorkerPublishFails(w)
      PROVE  NobodyComes
  BY <1>2, <1>5 DEF Heartbeat, WorkerQueryFails, WorkerPublishFails,
                    OnPublishError, CountPcs
<1>6. ASSUME NEW w \in Workers, WorkerCrashes(w) \/ Rebalance(w) PROVE NobodyComes
  BY <1>1, <1>3, <1>6 DEF WorkerCrashes, Rebalance
<1>7. ASSUME NEW w \in Workers, NEW j \in Jobs, FetchMessage(w, j) PROVE NobodyComes
  BY <1>0, <1>7 DEF FetchMessage, Goto, NobodyComes, CountPcs, TypeOK
<1>8. ASSUME \/ \E j \in Jobs : \/ SubmitStep(j) \/ PublishJobFails(j)
                                \/ SetQueuedFails(j) \/ FetchRetry(j)
                                \/ HeartbeatAges(j)
             \/ RouterStep \/ RepublishFails \/ RouterCrashes
             \/ \E r \in Reapers : \/ ReaperStep(r) \/ PublishRequeuedFails(r)
                                   \/ ReaperCrashes(r)
                                   \/ \E j \in Jobs : RequeueFails(r, j)
             \/ UNCHANGED vars
      PROVE  NobodyComes
  BY <1>1, <1>8 DEF SubmitStep, InsertJob, PublishJob, SetQueued, PublishJobFails,
         SetQueuedFails, FetchRetry, HeartbeatAges, RouterStep, Republish,
         CommitRetry, RepublishFails, RouterCrashes, ReaperStep, ReapStaleJobs,
         Requeue, PublishRequeued, PublishRequeuedFails, ReaperCrashes,
         RequeueFails, vars
<1> QED BY <1>4, <1>5, <1>6, <1>7, <1>8 DEF Next, FaultStep, AllQuiet

LEMMA NextHappened ==
    ASSUME AInv, [Next]_vars, NEW j \in Jobs
    PROVE  Happened(j)'
<1> USE DEF topicVars, workerVars, routerVars, reaperVars, historyVars
<1>0. TypeOK /\ TypeOK' /\ Happened(j)
  BY NextTypeOK DEF AInv, AttemptsHappened, Happened
<1>1. /\ rows[j].attempts \in Nat /\ fails[j] \in Nat /\ requeues[j] \in Nat
      /\ rows'[j].attempts \in Nat /\ fails'[j] \in Nat /\ requeues'[j] \in Nat
      /\ Cardinality(Counting(j)) \in Nat /\ IsFiniteSet(Counting(j))
  BY <1>0, CountsAreNat DEF TypeOK, Row
<1>2. Cardinality(Counting(j)') \in Nat
  <2>1. Counting(j)' \in SUBSET Workers
    BY DEF Counting
  <2> QED BY <2>1, PipelineAssumption, FS_Subset, FS_CardinalityType
<1>3. ASSUME NEW w \in Workers, HandlerFails(w) PROVE Happened(j)'
  <2>1. /\ wjob[w] \in Jobs /\ wjob' = wjob /\ rows' = rows /\ requeues' = requeues
        /\ fails' = [fails EXCEPT ![wjob[w]] = @ + 1]
        /\ \A v \in Workers \ {w} : wpc'[v] = wpc[v]
    BY <1>0, <1>3, WorkerHoldsJob DEF HandlerFails, Bump, Goto, Running, TypeOK
  <2>2. CASE j = wjob[w]
    <3>1. Counting(j)' \subseteq Counting(j) \cup {w}
      BY <2>1 DEF Counting
    <3>2. Cardinality(Counting(j)') <= Cardinality(Counting(j)) + 1
      BY <1>1, <3>1, CountGrowsByOne
    <3>3. fails'[j] = fails[j] + 1
      BY <1>0, <2>1, <2>2 DEF TypeOK
    <3> QED BY <1>0, <1>1, <1>2, <2>1, <3>2, <3>3 DEF Happened
  <2>3. CASE j # wjob[w]
    <3>1. Counting(j)' = Counting(j) /\ fails'[j] = fails[j]
      BY SMTT(30), <1>0, <2>1, <2>3 DEF Counting, TypeOK
    <3> QED BY <1>0, <2>1, <3>1 DEF Happened
  <2> QED BY <2>2, <2>3
<1>4. ASSUME NEW w \in Workers, IncrementAttempts(w) PROVE Happened(j)'
  <2>1. /\ wjob' = wjob /\ UNCHANGED <<fails, requeues>>
        /\ wpc[w] = "increment" /\ wpc'[w] = "commit"
        /\ \A v \in Workers \ {w} : wpc'[v] = wpc[v]
    BY <1>0, <1>4 DEF IncrementAttempts, Goto, TypeOK
  <2>2. CASE j = wjob[w]
    <3>1. w \in Counting(j) /\ Counting(j)' \subseteq Counting(j) \ {w}
      BY <2>1, <2>2 DEF Counting, CountPcs
    <3>2. Cardinality(Counting(j)') + 1 <= Cardinality(Counting(j))
      BY <1>1, <3>1, CountShrinksByOne
    <3>3. rows'[j].attempts = rows[j].attempts + 1
      BY <1>4, <2>2, Increments
    <3> QED BY <1>0, <1>1, <1>2, <2>1, <3>2, <3>3 DEF Happened
  <2>3. CASE j # wjob[w]
    <3>1. Counting(j)' = Counting(j)
      BY <2>1, <2>3 DEF Counting
    <3>2. rows'[j] = rows[j]
      BY <1>4, <2>3, Increments
    <3> QED BY <1>0, <2>1, <3>1, <3>2 DEF Happened
  <2> QED BY <2>2, <2>3
<1>5. ASSUME NEW r \in Reapers, NEW k \in Jobs, Requeue(r, k) PROVE Happened(j)'
  <2>1. UNCHANGED <<wpc, wjob, fails>>
    BY <1>5 DEF Requeue
  <2>2. Counting(j)' = Counting(j)
    BY <2>1 DEF Counting
  <2>3. \/ /\ rows'[j].attempts = rows[j].attempts + 1
           /\ requeues'[j] = requeues[j] + 1
        \/ rows'[j] = rows[j] /\ requeues'[j] = requeues[j]
    BY <1>5, Requeues
  <2> QED BY <1>0, <1>1, <1>2, <2>1, <2>2, <2>3 DEF Happened
<1>6. ASSUME NobodyComes, rows'[j].attempts = rows[j].attempts PROVE Happened(j)'
  BY <1>6, NobodyComesKeeps, HistoryGrows
<1> QED BY <1>3, <1>4, <1>5, <1>6, WhoComes, WhoCounts

\* A worker reads attempts when it comes to the handler, and attempts grow.
LEMMA NextSeenBefore ==
    ASSUME AInv, [Next]_vars
    PROVE  SeenBefore'
<1> USE DEF topicVars, workerVars, routerVars, reaperVars, historyVars
<1> DEFINE Reads(w) == \/ wpc'[w] \notin ReadPcs
                       \/ /\ wpc[w] \in ReadPcs
                          /\ wjob'[w] = wjob[w] /\ seen'[w] = seen[w]
                       \/ GetJob(w)
<1>0. TypeOK /\ TypeOK'
  BY NextTypeOK DEF AInv
<1>1. ASSUME UNCHANGED <<wpc, wjob, seen>> PROVE \A w \in Workers : Reads(w)
  BY <1>1
<1>2. ASSUME NEW w \in Workers, NEW pc, Goto(w, pc), UNCHANGED <<wjob, seen>>,
             pc \notin ReadPcs \/ wpc[w] \in ReadPcs
      PROVE  \A v \in Workers : Reads(v)
  BY <1>0, <1>2 DEF Goto, TypeOK
<1>3. ASSUME NEW w \in Workers, Release(w) PROVE \A v \in Workers : Reads(v)
  BY <1>0, <1>3 DEF Release, TypeOK, ReadPcs, Running
<1>4. ASSUME NEW w \in Workers, GetJob(w) PROVE \A v \in Workers : Reads(v)
  BY <1>0, <1>4 DEF GetJob, Goto, TypeOK
<1>5. ASSUME NEW w \in Workers, WorkerStep(w) PROVE \A v \in Workers : Reads(v)
  BY <1>2, <1>3, <1>4, <1>5
     DEF WorkerStep, SetRunning, HandlerSucceeds, HandlerFails, RetryOrDLQ,
         SetSuccess, PublishRetry, SetRetry, IncrementAttempts, PublishDLQ,
         SetFailed, CommitMessage, Write, ReadPcs, Running
<1>6. ASSUME NEW w \in Workers, Heartbeat(w) \/ WorkerQueryFails(w) \/ WorkerPublishFails(w)
      PROVE  \A v \in Workers : Reads(v)
  BY <1>2, <1>6 DEF Heartbeat, WorkerQueryFails, WorkerPublishFails,
                    OnPublishError, ReadPcs, Running
<1>7. ASSUME NEW w \in Workers, WorkerCrashes(w) \/ Rebalance(w)
      PROVE  \A v \in Workers : Reads(v)
  BY <1>1, <1>3, <1>7 DEF WorkerCrashes, Rebalance
<1>8. ASSUME NEW w \in Workers, NEW j \in Jobs, FetchMessage(w, j)
      PROVE  \A v \in Workers : Reads(v)
  BY <1>0, <1>8 DEF FetchMessage, Goto, TypeOK, ReadPcs, Running
<1>9. ASSUME \/ \E j \in Jobs : \/ SubmitStep(j) \/ PublishJobFails(j)
                                \/ SetQueuedFails(j) \/ FetchRetry(j)
                                \/ HeartbeatAges(j)
             \/ RouterStep \/ RepublishFails \/ RouterCrashes
             \/ \E r \in Reapers : \/ ReaperStep(r) \/ PublishRequeuedFails(r)
                                   \/ ReaperCrashes(r)
                                   \/ \E j \in Jobs : RequeueFails(r, j)
             \/ UNCHANGED vars
      PROVE  \A w \in Workers : Reads(w)
  BY <1>1, <1>9 DEF SubmitStep, InsertJob, PublishJob, SetQueued, PublishJobFails,
         SetQueuedFails, FetchRetry, HeartbeatAges, RouterStep, Republish,
         CommitRetry, RepublishFails, RouterCrashes, ReaperStep, ReapStaleJobs,
         Requeue, PublishRequeued, PublishRequeuedFails, ReaperCrashes,
         RequeueFails, vars
<1>10. \A w \in Workers : Reads(w)
  BY <1>5, <1>6, <1>7, <1>8, <1>9 DEF Next, FaultStep, AllQuiet
<1> SUFFICES ASSUME NEW w \in Workers, wpc'[w] \in ReadPcs
             PROVE  seen'[w] <= rows'[wjob'[w]].attempts
  BY DEF SeenBefore
<1>11. CASE wpc[w] \in ReadPcs /\ wjob'[w] = wjob[w] /\ seen'[w] = seen[w]
  <2>1. wjob[w] \in Jobs
    BY <1>0, <1>11, WorkerHoldsJob DEF ReadPcs, Running
  <2>2. seen[w] <= rows[wjob[w]].attempts
    BY <1>11 DEF AInv, AttemptsHappened
  <2>3. /\ rows'[wjob[w]].attempts >= rows[wjob[w]].attempts
        /\ rows'[wjob[w]].attempts \in Nat /\ rows[wjob[w]].attempts \in Nat
    BY <1>0, <2>1, AttemptsGrow DEF TypeOK, Row
  <2> QED BY <1>0, <1>11, <2>2, <2>3 DEF TypeOK
<1>12. CASE GetJob(w)
  <2>1. wjob[w] \in Jobs
    BY <1>0, <1>12, WorkerHoldsJob DEF GetJob
  <2>2. seen'[w] = rows[wjob[w]].attempts /\ rows' = rows /\ wjob' = wjob
    BY <1>0, <1>12 DEF GetJob, TypeOK
  <2> QED BY <1>0, <2>1, <2>2 DEF TypeOK, Row
<1> QED BY <1>10, <1>11, <1>12

-----------------------------------------------------------------------------
(* Nothing is dead-lettered early.                                         *)

LEMMA NextDeadLettersEarned ==
    ASSUME AInv, [Next]_vars
    PROVE  DeadLettersEarned'
<1> USE DEF topicVars, workerVars, routerVars, reaperVars, historyVars
<1> DEFINE Earned(j) == fails[j] + requeues[j] >= MaxAttempts
           Asks(w) == \/ wpc'[w] # "publishDLQ"
                      \/ wpc[w] = "publishDLQ" /\ wjob'[w] = wjob[w]
                      \/ HandlerFails(w)
           Sends(j) == \/ dlq'[j] = dlq[j]
                       \/ \E w \in Workers : wpc[w] = "publishDLQ" /\ wjob[w] = j
<1>0. TypeOK /\ TypeOK' /\ MaxAttempts \in Nat
  BY NextTypeOK, PipelineAssumption DEF AInv
<1>1. ASSUME NEW j \in Jobs, Earned(j) PROVE Earned(j)'
  <2>1. fails'[j] >= fails[j] /\ requeues'[j] >= requeues[j]
    BY HistoryGrows
  <2>2. /\ fails[j] \in Nat /\ requeues[j] \in Nat
        /\ fails'[j] \in Nat /\ requeues'[j] \in Nat
    BY <1>0 DEF TypeOK
  <2> QED BY <1>0, <1>1, <2>1, <2>2
<1>2. ASSUME NEW w \in Workers, HandlerFails(w), wpc'[w] = "publishDLQ"
      PROVE  wjob[w] \in Jobs /\ wjob' = wjob /\ Earned(wjob[w])'
  <2>1. PICK j \in Jobs : j = wjob[w]
    BY <1>0, <1>2, WorkerHoldsJob DEF HandlerFails, Running
  <2>2. /\ wjob' = wjob /\ requeues' = requeues /\ fails'[j] = fails[j] + 1
        /\ seen[w] + 1 >= MaxAttempts /\ wpc[w] \in ReadPcs
    BY <1>0, <1>2, <2>1 DEF HandlerFails, RetryOrDLQ, Goto, Bump, ReadPcs, TypeOK
  <2>3. seen[w] <= rows[j].attempts
    BY <2>1, <2>2 DEF AInv, AttemptsHappened
  <2>4. rows[j].attempts + Cardinality(Counting(j)) <= fails[j] + requeues[j]
    BY DEF AInv, AttemptsHappened
  <2>5. /\ seen[w] \in Nat /\ rows[j].attempts \in Nat
        /\ fails[j] \in Nat /\ requeues[j] \in Nat
        /\ Cardinality(Counting(j)) \in Nat
    BY <1>0, CountsAreNat DEF TypeOK, Row
  <2>6. fails'[j] + requeues'[j] >= MaxAttempts
    BY <1>0, <2>2, <2>3, <2>4, <2>5
  <2> QED BY <2>1, <2>2, <2>6
<1>3. ASSUME UNCHANGED <<wpc, wjob>> PROVE \A w \in Workers : Asks(w)
  BY <1>3
<1>4. ASSUME NEW w \in Workers, NEW pc, Goto(w, pc), UNCHANGED wjob,
             pc # "publishDLQ" \/ pc = wpc[w] \/ HandlerFails(w)
      PROVE  \A v \in Workers : Asks(v)
  BY <1>0, <1>4 DEF Goto, TypeOK
<1>5. ASSUME NEW w \in Workers, Release(w) PROVE \A v \in Workers : Asks(v)
  BY <1>0, <1>5 DEF Release, TypeOK
<1>6. ASSUME NEW w \in Workers, WorkerStep(w)
      PROVE  (\A v \in Workers : Asks(v)) /\ (\A j \in Jobs : Sends(j))
  <2>1. \A v \in Workers : Asks(v)
    <3>1. CASE HandlerFails(w)
      BY <1>4, <3>1 DEF HandlerFails
    <3>2. CASE ~HandlerFails(w)
      BY <1>4, <1>5, <1>6, <3>2
         DEF WorkerStep, GetJob, SetRunning, HandlerSucceeds, SetSuccess,
             PublishRetry, SetRetry, IncrementAttempts, PublishDLQ, SetFailed,
             CommitMessage, Write
    <3> QED BY <3>1, <3>2
  <2>2. CASE PublishDLQ(w)
    BY <1>0, <2>1, <2>2 DEF PublishDLQ, DeadLetter, Bump, TypeOK
  <2>3. CASE ~PublishDLQ(w)
    BY <1>6, <2>1, <2>3
       DEF WorkerStep, GetJob, SetRunning, HandlerSucceeds, HandlerFails,
           SetSuccess, PublishRetry, SetRetry, IncrementAttempts, SetFailed,
           CommitMessage, Write
  <2> QED BY <2>2, <2>3
<1>7. ASSUME NEW w \in Workers,
             \/ Heartbeat(w) \/ WorkerQueryFails(w) \/ WorkerCrashes(w)
             \/ Rebalance(w) \/ \E j \in Jobs : FetchMessage(w, j)
      PROVE  (\A v \in Workers : Asks(v)) /\ dlq' = dlq
  <2>1. CASE Heartbeat(w) \/ WorkerQueryFails(w)
    BY <1>4, <2>1 DEF Heartbeat, WorkerQueryFails
  <2>2. CASE WorkerCrashes(w) \/ Rebalance(w)
    BY <1>3, <1>5, <2>2 DEF WorkerCrashes, Rebalance
  <2>3. ASSUME NEW j \in Jobs, FetchMessage(w, j)
        PROVE  (\A v \in Workers : Asks(v)) /\ dlq' = dlq
    BY <1>0, <2>3 DEF FetchMessage, Goto, TypeOK
  <2> QED BY <1>7, <2>1, <2>2, <2>3
<1>8. ASSUME NEW w \in Workers, WorkerPublishFails(w)
      PROVE  (\A v \in Workers : Asks(v)) /\ (\A j \in Jobs : Sends(j))
  <2>1. \A v \in Workers : Asks(v)
    BY <1>4, <1>8 DEF WorkerPublishFails, OnPublishError
  <2>2. wjob[w] \in Jobs
    BY <1>0, <1>8, WorkerHoldsJob DEF WorkerPublishFails
  <2>3. \A j \in Jobs : Sends(j)
    BY <1>0, <1>8, <2>2 DEF WorkerPublishFails, Send, TypeOK
  <2> QED BY <2>1, <2>3
<1>9. ASSUME \/ \E j \in Jobs : \/ SubmitStep(j) \/ PublishJobFails(j)
                                \/ SetQueuedFails(j) \/ FetchRetry(j)
                                \/ HeartbeatAges(j)
             \/ RouterStep \/ RepublishFails \/ RouterCrashes
             \/ \E r \in Reapers : \/ ReaperStep(r) \/ PublishRequeuedFails(r)
                                   \/ ReaperCrashes(r)
                                   \/ \E j \in Jobs : RequeueFails(r, j)
             \/ UNCHANGED vars
      PROVE  (\A w \in Workers : Asks(w)) /\ dlq' = dlq
  BY <1>3, <1>9 DEF SubmitStep, InsertJob, PublishJob, SetQueued, PublishJobFails,
         SetQueuedFails, FetchRetry, HeartbeatAges, RouterStep, Republish,
         CommitRetry, RepublishFails, RouterCrashes, ReaperStep, ReapStaleJobs,
         Requeue, PublishRequeued, PublishRequeuedFails, ReaperCrashes,
         RequeueFails, vars
<1>10. (\A w \in Workers : Asks(w)) /\ (\A j \in Jobs : Sends(j))
  BY <1>6, <1>7, <1>8, <1>9 DEF Next, FaultStep, AllQuiet
<1>11. ASSUME NEW w \in Workers, wpc'[w] = "publishDLQ"
       PROVE  fails'[wjob'[w]] + requeues'[wjob'[w]] >= MaxAttempts
  <2>1. CASE HandlerFails(w)
    BY <1>2, <1>11, <2>1
  <2>2. CASE wpc[w] = "publishDLQ" /\ wjob'[w] = wjob[w]
    <3>1. wjob[w] \in Jobs /\ Earned(wjob[w])
      BY <1>0, <2>2, WorkerHoldsJob DEF AInv, DeadLettersEarned
    <3>2. PICK j \in Jobs : j = wjob[w]
      BY <3>1
    <3>3. Earned(j)'
      BY <1>1, <3>1, <3>2
    <3> QED BY <2>2, <3>2, <3>3
  <2> QED BY <1>10, <1>11, <2>1, <2>2
<1>12. ASSUME NEW j \in Jobs, dlq'[j] > 0 PROVE fails'[j] + requeues'[j] >= MaxAttempts
  <2>1. Earned(j)
    BY <1>10, <1>12 DEF AInv, DeadLettersEarned, DeadLetterEarned
  <2> QED BY <1>1, <2>1
<1> QED BY <1>11, <1>12 DEF DeadLettersEarned, DeadLetterEarned

-----------------------------------------------------------------------------
(* The theorems.                                                           *)

LEMMA InitAInv == Init => AInv
<1> SUFFICES ASSUME Init PROVE AInv
  OBVIOUS
<1>1. TypeOK
  BY InitTypeOK
<1>2. NotBeforeInsert
  BY PipelineAssumption DEF Init, NotBeforeInsert
<1>3. \A j \in Jobs : Counting(j) = {} /\ Publishing(j) = {}
  BY PipelineAssumption DEF Init, Counting, Publishing
<1>4. \A j \in Jobs : Cardinality(Counting(j)) = 0 /\ Cardinality(Publishing(j)) = 0
  BY <1>3, FS_EmptySet
<1>5. RequeuesCounted /\ AttemptsHappened /\ DeadLettersEarned
  BY <1>4, PipelineAssumption
     DEF Init, NoRow, RequeuesCounted, AttemptsHappened, DeadLettersEarned,
         DeadLetterEarned, ReadPcs, Running
<1> QED BY <1>1, <1>2, <1>5 DEF AInv

LEMMA NextAInv == AInv /\ [Next]_vars => AInv'
<1> SUFFICES ASSUME AInv, [Next]_vars PROVE AInv'
  OBVIOUS
<1>1. TypeOK'
  BY NextTypeOK DEF AInv
<1>2. AttemptsHappened'
  BY NextHappened, NextSeenBefore DEF AttemptsHappened, Happened, SeenBefore
<1> QED BY <1>1, <1>2, NextNotBeforeInsert, NextRequeuesCounted,
           NextDeadLettersEarned DEF AInv

LEMMA AInvHolds == Spec => []AInv
BY InitAInv, NextAInv, PTL DEF Spec

\* However many reapers scan side by side, and whatever workers write to the
\* row meanwhile, a job is put back at most MaxAttempts times.
THEOREM ReapersGiveUp == Spec => []ReaperGivesUp
<1>1. AInv => ReaperGivesUp
  <2> SUFFICES ASSUME AInv, NEW j \in Jobs PROVE republished[j] <= MaxAttempts
    BY DEF ReaperGivesUp
  <2>1. republished[j] + Cardinality(Publishing(j)) <= MaxAttempts
    BY DEF AInv, RequeuesCounted
  <2>2. republished[j] \in Nat /\ Cardinality(Publishing(j)) \in Nat
    BY CountsAreNat DEF AInv, TypeOK
  <2> QED BY <2>1, <2>2, PipelineAssumption
<1> QED BY <1>1, AInvHolds, PTL

\* Although attempts is read before the handler and written by several
\* processes, a job comes to jobs.dlq only after MaxAttempts failures of its
\* handler or requeues by a reaper, whatever fails.
THEOREM DeadLettersAreEarned == Spec => []DeadLetterEarned
<1>1. AInv => DeadLetterEarned
  BY DEF AInv, DeadLettersEarned
<1> QED BY <1>1, AInvHolds, PTL

-----------------------------------------------------------------------------
(* The copies of a job's message.  Books are kept of where a job's copies  *)
(* are and what was done with them; they grow by what publishes a copy.    *)

At(j, pcs) == {w \in Workers : wjob[w] = j /\ wpc[w] \in pcs}

Routed(j) == IF rjob = j /\ rpc = "publish" THEN 1 ELSE 0

\* Copies that no worker holds, and those with a worker that may still run the
\* handler, has not published what follows, or has its outcome to write.
Loose(j) == queue[j] + retryQ[j] + Routed(j)
Ahead == {"getJob", "setRunning", "publishRetry"} \cup Running
Held == Undecided \cup {"setSuccess", "setFailed"}

\* The publish of the API, the reapers' and the faults' copies.
Sent(j) == IF sub[j] \in {"new", "publish"} THEN 0 ELSE 1
Grant(j) == Sent(j) + republished[j] + faults

\* Three books: copies and outcomes, copies in work, copies and failures.
Outcomes(j) == Loose(j) + Cardinality(At(j, Undecided)) + succeeded[j] + dlq[j]
InWork(j) == Loose(j) + Cardinality(At(j, Held))
Failures(j) == Loose(j) + Cardinality(At(j, Ahead)) + fails[j]

LEMMA CountMoves ==
    ASSUME NEW S, IsFiniteSet(S), NEW x, NEW T, T \ {x} = S \ {x}
    PROVE  /\ Cardinality(S) \in Nat /\ Cardinality(T) \in Nat
           /\ (x \in S <=> x \in T) => Cardinality(T) = Cardinality(S)
           /\ x \in S /\ x \notin T => Cardinality(T) + 1 = Cardinality(S)
           /\ x \notin S /\ x \in T => Cardinality(T) = Cardinality(S) + 1
<1> DEFINE R == S \ {x}
<1>1. /\ IsFiniteSet(R)
      /\ Cardinality(R) = IF x \in S THEN Cardinality(S) - 1 ELSE Cardinality(S)
  BY FS_RemoveElement
<1>2. /\ IsFiniteSet(R \cup {x})
      /\ Cardinality(R \cup {x}) = Cardinality(R) + 1
  <2>1. x \notin R
    OBVIOUS
  <2> HIDE DEF R
  <2> QED BY <1>1, <2>1, FS_AddElement
<1>3. x \in T => T = R \cup {x}
  <2>1. T \ {x} = R
    OBVIOUS
  <2>2. x \in T => T = (T \ {x}) \cup {x}
    OBVIOUS
  <2> QED BY <2>1, <2>2
<1>4. x \notin T => T = R
  <2>1. T \ {x} = R
    OBVIOUS
  <2>2. x \notin T => T = T \ {x}
    OBVIOUS
  <2> QED BY <2>1, <2>2
<1>5. Cardinality(S) \in Nat /\ Cardinality(R) \in Nat
  BY <1>1, FS_CardinalityType
<1>6. /\ x \in T => Cardinality(T) = Cardinality(R) + 1
      /\ x \notin T => Cardinality(T) = Cardinality(R)
  BY <1>2, <1>3, <1>4
<1> HIDE DEF R
<1> QED BY <1>1, <1>5, <1>6

LEMMA AtIsFinite ==
    ASSUME NEW j, NEW pcs
    PROVE  IsFiniteSet(At(j, pcs)) /\ Cardinality(At(j, pcs)) \in Nat
<1>1. At(j, pcs) \in SUBSET Workers
  BY DEF At
<1> QED BY <1>1, PipelineAssumption, FS_Subset, FS_CardinalityType

\* A step of a worker moves no other worker.
OnlyMoves(w) == \A v \in Workers \ {w} : /\ wpc'[v] = wpc[v] /\ wjob'[v] = wjob[v]
                                         /\ seen'[v] = seen[v] /\ owns'[v] = owns[v]

LEMMA OneWorkerMoves ==
    ASSUME TypeOK, NEW w \in Workers,
           \/ WorkerStep(w) \/ Heartbeat(w) \/ WorkerQueryFails(w)
           \/ WorkerPublishFails(w) \/ WorkerCrashes(w) \/ Rebalance(w)
           \/ \E j \in Jobs : FetchMessage(w, j)
    PROVE  OnlyMoves(w)
<1> USE DEF topicVars, workerVars, routerVars, reaperVars, historyVars
<1>1. ASSUME NEW pc, Goto(w, pc), UNCHANGED <<wjob, seen, owns>> PROVE OnlyMoves(w)
  BY <1>1 DEF Goto, OnlyMoves, TypeOK
<1>2. ASSUME Release(w) PROVE OnlyMoves(w)
  BY <1>2 DEF Release, OnlyMoves, TypeOK
<1>3. CASE WorkerStep(w) /\ ~GetJob(w)
  BY <1>1, <1>2, <1>3
     DEF WorkerStep, SetRunning, HandlerSucceeds, HandlerFails, SetSuccess,
         PublishRetry, SetRetry, IncrementAttempts, PublishDLQ, SetFailed,
         CommitMessage, Write
<1>4. CASE GetJob(w)
  BY <1>4 DEF GetJob, Goto, OnlyMoves, TypeOK
<1>5. CASE Heartbeat(w) \/ WorkerQueryFails(w) \/ WorkerPublishFails(w)
  BY <1>1, <1>5 DEF Heartbeat, WorkerQueryFails, WorkerPublishFails, OnPublishError
<1>6. CASE WorkerCrashes(w)
  BY <1>2, <1>6 DEF WorkerCrashes
<1>7. CASE Rebalance(w)
  BY <1>7 DEF Rebalance, OnlyMoves, TypeOK
<1>8. ASSUME NEW j \in Jobs, FetchMessage(w, j) PROVE OnlyMoves(w)
  BY <1>8 DEF FetchMessage, Goto, OnlyMoves, TypeOK
<1> QED BY <1>3, <1>4, <1>5, <1>6, <1>7, <1>8

LEMMA AtMoves ==
    ASSUME TypeOK, NEW w \in Workers, OnlyMoves(w), NEW j, NEW pcs
    PROVE  At(j, pcs)' \ {w} = At(j, pcs) \ {w}
BY DEF OnlyMoves, At

\* What every step does to the grant of a job: it may grow.
LEMMA OthersKeepBooks ==
    ASSUME TypeOK, NEW k \in Jobs,
           \/ \E j \in Jobs : \/ SubmitStep(j) \/ PublishJobFails(j)
                              \/ SetQueuedFails(j) \/ FetchRetry(j)
                              \/ HeartbeatAges(j)
           \/ RouterStep \/ RepublishFails \/ RouterCrashes
           \/ \E r \in Reapers : \/ ReaperStep(r) \/ PublishRequeuedFails(r)
                                 \/ ReaperCrashes(r)
                                 \/ \E j \in Jobs : RequeueFails(r, j)
           \/ UNCHANGED vars
    PROVE  /\ UNCHANGED <<wpc, wjob, seen, fails, succeeded, dlq>>
           /\ Loose(k)' + Grant(k) <= Loose(k) + Grant(k)'
           /\ Grant(k)' >= Grant(k) /\ Sent(k)' >= Sent(k)
           /\ republished'[k] >= republished[k] /\ faults' >= faults
<1> USE DEF topicVars, workerVars, routerVars, reaperVars, historyVars
<1> DEFINE Kept == UNCHANGED <<wpc, wjob, seen, fails, succeeded, dlq>>
           Fine == /\ Loose(k)' + Grant(k) <= Loose(k) + Grant(k)'
                   /\ Grant(k)' >= Grant(k) /\ Sent(k)' >= Sent(k)
                   /\ republished'[k] >= republished[k] /\ faults' >= faults
<1>0. /\ queue[k] \in Nat /\ retryQ[k] \in Nat /\ republished[k] \in Nat
      /\ faults \in Nat /\ Sent(k) \in {0, 1} /\ Routed(k) \in {0, 1}
      /\ rpc # "idle" => rjob \in Jobs
  BY DEF TypeOK, Sent, Routed
<1>1. Kept
  BY DEF SubmitStep, InsertJob, PublishJob, SetQueued, PublishJobFails,
         SetQueuedFails, FetchRetry, HeartbeatAges, RouterStep, Republish,
         CommitRetry, RepublishFails, RouterCrashes, ReaperStep, ReapStaleJobs,
         Requeue, PublishRequeued, PublishRequeuedFails, ReaperCrashes,
         RequeueFails, vars
<1>2. ASSUME UNCHANGED <<queue, retryQ, rpc, rjob, republished>>,
             Sent(k)' = Sent(k), faults' = faults \/ faults' = faults + 1
      PROVE  Fine
  BY <1>0, <1>2 DEF Loose, Grant, Routed
<1>3. ASSUME NEW j \in Jobs,
             SubmitStep(j) \/ PublishJobFails(j) \/ SetQueuedFails(j)
      PROVE  Fine
  <2>1. CASE InsertJob(j) \/ SetQueued(j) \/ SetQueuedFails(j)
    <3>1. Sent(k)' = Sent(k)
      BY <2>1 DEF InsertJob, SetQueued, SetQueuedFails, Sent, TypeOK
    <3> QED BY <1>2, <2>1, <3>1 DEF InsertJob, SetQueued, SetQueuedFails, Fault
  <2>2. CASE PublishJob(j)
    <3>1. \/ j = k /\ queue'[k] = queue[k] + 1 /\ Sent(k) = 0 /\ Sent(k)' = 1
          \/ queue'[k] = queue[k] /\ Sent(k)' = Sent(k)
      BY <2>2 DEF PublishJob, Bump, Sent, TypeOK
    <3>2. UNCHANGED <<retryQ, rpc, rjob, republished, faults>>
      BY <2>2 DEF PublishJob
    <3> QED BY <1>0, <3>1, <3>2 DEF Loose, Grant, Routed
  <2>3. CASE PublishJobFails(j)
    <3>1. \/ /\ j = k /\ queue'[k] \in {queue[k], queue[k] + 1}
             /\ Sent(k) = 0 /\ Sent(k)' = 1
          \/ queue'[k] = queue[k] /\ Sent(k)' = Sent(k)
      BY <2>3 DEF PublishJobFails, Send, Sent, TypeOK
    <3>2. UNCHANGED <<retryQ, rpc, rjob, republished>> /\ faults' = faults + 1
      BY <2>3 DEF PublishJobFails, Fault
    <3> QED BY <1>0, <3>1, <3>2 DEF Loose, Grant, Routed
  <2> QED BY <1>3, <2>1, <2>2, <2>3 DEF SubmitStep
<1>4. ASSUME NEW j \in Jobs, FetchRetry(j) PROVE Fine
  <2>1. \/ /\ j = k /\ retryQ'[k] = retryQ[k] - 1
           /\ Routed(k) = 0 /\ Routed(k)' = 1
        \/ retryQ'[k] = retryQ[k] /\ Routed(k)' = 0 /\ Routed(k) = 0
    BY <1>4 DEF FetchRetry, Take, Routed, TypeOK
  <2>2. UNCHANGED <<queue, republished, faults, sub>>
    BY <1>4 DEF FetchRetry
  <2> QED BY <1>0, <2>1, <2>2 DEF Loose, Grant, Sent
<1>5. ASSUME NEW j \in Jobs, HeartbeatAges(j) PROVE Fine
  BY <1>2, <1>5 DEF HeartbeatAges, Fault, Sent
<1>6. CASE RouterStep \/ RepublishFails \/ RouterCrashes
  <2>1. UNCHANGED <<republished, sub>>
    BY <1>6 DEF RouterStep, Republish, CommitRetry, RepublishFails, RouterCrashes
  <2>2. CASE Republish
    <3>1. \/ /\ queue'[k] = queue[k] + 1
             /\ Routed(k) = 1 /\ Routed(k)' = 0
          \/ queue'[k] = queue[k] /\ Routed(k)' = Routed(k)
      BY <1>0, <2>2 DEF Republish, Bump, Routed, TypeOK
    <3> QED BY <1>0, <2>1, <2>2, <3>1 DEF Republish, Loose, Grant, Sent
  <2>3. CASE CommitRetry
    <3>1. Routed(k) = 0 /\ Routed(k)' = 0
      BY <2>3 DEF CommitRetry, Routed
    <3> QED BY <1>0, <2>1, <2>3, <3>1 DEF CommitRetry, Loose, Grant, Sent
  <2>4. CASE RepublishFails
    <3>1. \/ /\ queue'[k] \in {queue[k], queue[k] + 1}
             /\ retryQ'[k] \in {retryQ[k], retryQ[k] + 1}
             /\ Routed(k) = 1 /\ Routed(k)' = 0
          \/ queue'[k] = queue[k] /\ retryQ'[k] = retryQ[k] /\ Routed(k)' = Routed(k)
      BY <1>0, <2>4 DEF RepublishFails, Send, Routed, TypeOK
    <3> QED BY <1>0, <2>1, <2>4, <3>1 DEF RepublishFails, Fault, Loose, Grant, Sent
  <2>5. CASE RouterCrashes
    <3>1. \/ retryQ'[k] = retryQ[k] + 1 /\ Routed(k)' = 0
          \/ retryQ'[k] = retryQ[k] /\ Routed(k)' = Routed(k)
      BY <1>0, <2>5 DEF RouterCrashes, Bump, Routed, TypeOK
    <3> QED BY <1>0, <2>1, <2>5, <3>1 DEF RouterCrashes, Fault, Loose, Grant, Sent
  <2> QED BY <1>6, <2>2, <2>3, <2>4, <2>5 DEF RouterStep
<1>7. ASSUME NEW r \in Reapers,
             \/ ReaperStep(r) \/ PublishRequeuedFails(r) \/ ReaperCrashes(r)
             \/ \E j \in Jobs : RequeueFails(r, j)
      PROVE  Fine
  <2>1. CASE PublishRequeued(r) \/ PublishRequeuedFails(r)
    <3>1. \/ queue'[k] = queue[k] + 1 /\ republished'[k] = republished[k] + 1
          \/ queue'[k] = queue[k] /\ republished'[k] = republished[k]
      BY <2>1 DEF PublishRequeued, PublishRequeuedFails, Bump, Send, TypeOK
    <3>2. /\ UNCHANGED <<retryQ, rpc, rjob, sub>>
          /\ faults' = faults \/ faults' = faults + 1
      BY <2>1 DEF PublishRequeued, PublishRequeuedFails, Fault
    <3> QED BY <1>0, <3>1, <3>2 DEF Loose, Grant, Sent, Routed
  <2>2. CASE ~(PublishRequeued(r) \/ PublishRequeuedFails(r))
    BY <1>2, <1>7, <2>2 DEF ReaperStep, ReapStaleJobs, Requeue, ReaperCrashes,
                            RequeueFails, Fault, Sent
  <2> QED BY <2>1, <2>2
<1>8. CASE UNCHANGED vars
  <2>1. Fine
    BY <1>2, <1>8 DEF vars, Sent
  <2> QED BY <1>1, <2>1
<1>9. CASE \E j \in Jobs : \/ SubmitStep(j) \/ PublishJobFails(j)
                          \/ SetQueuedFails(j) \/ FetchRetry(j)
                          \/ HeartbeatAges(j)
  <2>1. Fine
    <3> HIDE DEF Fine
    <3> QED BY <1>3, <1>4, <1>5, <1>9
  <2> QED BY <1>1, <2>1
<1>10. CASE \E r \in Reapers : \/ ReaperStep(r) \/ PublishRequeuedFails(r)
                               \/ ReaperCrashes(r)
                               \/ \E j \in Jobs : RequeueFails(r, j)
  <2>1. Fine
    <3> HIDE DEF Fine
    <3> QED BY <1>7, <1>10
  <2> QED BY <1>1, <2>1
<1>11. CASE RouterStep \/ RepublishFails \/ RouterCrashes
  BY <1>1, <1>6, <1>11
<1> QED BY <1>8, <1>9, <1>10, <1>11

\* What a step of a worker does: to the book of failures it adds at most one,
\* when it fails and is about to publish a retry.
WillRetry(w, k) == /\ HandlerFails(w) /\ wjob[w] = k
                   /\ wpc'[w] = "publishRetry" /\ faults' = faults
                   /\ Failures(k)' <= Failures(k) + 1

InAt(w, j, pcs) == wjob[w] = j /\ wpc[w] \in pcs

LEMMA CountAt ==
    ASSUME TypeOK, NEW w \in Workers, OnlyMoves(w), NEW j, NEW pcs
    PROVE  /\ Cardinality(At(j, pcs)) \in Nat /\ Cardinality(At(j, pcs)') \in Nat
           /\ (InAt(w, j, pcs) <=> InAt(w, j, pcs)')
                 => Cardinality(At(j, pcs)') = Cardinality(At(j, pcs))
           /\ InAt(w, j, pcs) /\ ~InAt(w, j, pcs)'
                 => Cardinality(At(j, pcs)') + 1 = Cardinality(At(j, pcs))
           /\ ~InAt(w, j, pcs) /\ InAt(w, j, pcs)'
                 => Cardinality(At(j, pcs)') = Cardinality(At(j, pcs)) + 1
<1>1. /\ w \in At(j, pcs) <=> InAt(w, j, pcs)
      /\ w \in At(j, pcs)' <=> InAt(w, j, pcs)'
  BY DEF At, InAt
<1>2. At(j, pcs)' \ {w} = At(j, pcs) \ {w}
  BY AtMoves
<1>3. IsFiniteSet(At(j, pcs))
  BY AtIsFinite
<1> QED BY <1>1, <1>2, <1>3, CountMoves

LEMMA WorkersKeepBooks ==
    ASSUME TypeOK, NEW k \in Jobs, NEW w \in Workers,
           \/ WorkerStep(w) \/ Heartbeat(w) \/ WorkerQueryFails(w)
           \/ WorkerPublishFails(w) \/ WorkerCrashes(w) \/ Rebalance(w)
           \/ \E j \in Jobs : FetchMessage(w, j)
    PROVE  /\ UNCHANGED <<sub, republished>> /\ faults' \in {faults, faults + 1}
           /\ Outcomes(k)' + faults <= Outcomes(k) + faults'
           /\ InWork(k)' + faults <= InWork(k) + faults'
           /\ Failures(k)' + faults <= Failures(k) + faults' \/ WillRetry(w, k)
<1> USE DEF topicVars, workerVars, routerVars, reaperVars, historyVars
<1> DEFINE u == Cardinality(At(k, Undecided))
           h == Cardinality(At(k, Held))
           a == Cardinality(At(k, Ahead))
           Good == /\ Loose(k)' + u' + succeeded'[k] + dlq'[k] + faults
                        <= Loose(k) + u + succeeded[k] + dlq[k] + faults'
                   /\ Loose(k)' + h' + faults <= Loose(k) + h + faults'
                   /\ \/ Loose(k)' + a' + fails'[k] + faults
                            <= Loose(k) + a + fails[k] + faults'
                      \/ WillRetry(w, k)
<1>1. OnlyMoves(w)
  BY OneWorkerMoves
<1>2. /\ u \in Nat /\ u' \in Nat /\ h \in Nat /\ h' \in Nat
      /\ a \in Nat /\ a' \in Nat
  BY <1>1, CountAt
<1>m. /\ (InAt(w, k, Undecided) <=> InAt(w, k, Undecided)') => u' = u
      /\ InAt(w, k, Undecided) /\ ~InAt(w, k, Undecided)' => u' + 1 = u
      /\ ~InAt(w, k, Undecided) /\ InAt(w, k, Undecided)' => u' = u + 1
      /\ (InAt(w, k, Held) <=> InAt(w, k, Held)') => h' = h
      /\ InAt(w, k, Held) /\ ~InAt(w, k, Held)' => h' + 1 = h
      /\ ~InAt(w, k, Held) /\ InAt(w, k, Held)' => h' = h + 1
      /\ (InAt(w, k, Ahead) <=> InAt(w, k, Ahead)') => a' = a
      /\ InAt(w, k, Ahead) /\ ~InAt(w, k, Ahead)' => a' + 1 = a
      /\ ~InAt(w, k, Ahead) /\ InAt(w, k, Ahead)' => a' = a + 1
  BY <1>1, CountAt
<1>3. /\ queue[k] \in Nat /\ retryQ[k] \in Nat /\ dlq[k] \in Nat
      /\ succeeded[k] \in Nat /\ fails[k] \in Nat /\ faults \in Nat
      /\ wpc[w] \in WorkerPcs /\ wjob[w] \in Jobs \cup {NoJob}
      /\ Routed(k) \in {0, 1} /\ owns[w] \in BOOLEAN
      /\ wpc[w] # "idle" => wjob[w] \in Jobs
      /\ wpc[w] = "idle" => wjob[w] # k
  BY PipelineAssumption DEF TypeOK, Routed
<1>4. /\ UNCHANGED <<sub, republished>> /\ Routed(k)' = Routed(k)
      /\ faults' \in {faults, faults + 1}
  BY DEF WorkerStep, GetJob, SetRunning, HandlerSucceeds, HandlerFails,
         SetSuccess, PublishRetry, SetRetry, IncrementAttempts, PublishDLQ,
         SetFailed, CommitMessage, Write, Heartbeat, WorkerCrashes, Rebalance,
         FetchMessage, WorkerQueryFails, WorkerPublishFails, Fault, Routed
<1>n. /\ Loose(k) \in Nat /\ dlq[k] \in Nat /\ succeeded[k] \in Nat
      /\ fails[k] \in Nat /\ faults \in Nat /\ faults' \in {faults, faults + 1}
  BY <1>3, <1>4 DEF Loose
<1>l. /\ queue'[k] = queue[k] /\ retryQ'[k] = retryQ[k] => Loose(k)' = Loose(k)
      /\ queue'[k] = queue[k] /\ retryQ'[k] = retryQ[k] + 1 => Loose(k)' = Loose(k) + 1
      /\ queue'[k] = queue[k] + 1 /\ retryQ'[k] = retryQ[k] => Loose(k)' = Loose(k) + 1
      /\ queue'[k] = queue[k] - 1 /\ retryQ'[k] = retryQ[k] => Loose(k)' = Loose(k) - 1
  BY <1>3, <1>4 DEF Loose
<1> DEFINE Quietly == /\ queue'[k] = queue[k] /\ retryQ'[k] = retryQ[k]
                      /\ dlq'[k] = dlq[k] /\ succeeded'[k] = succeeded[k]
                      /\ fails'[k] = fails[k]
\* Another call of the same worker, with no copy sent.
<1>5. ASSUME Quietly, wjob'[w] = wjob[w],
             wpc'[w] \in Undecided => wpc[w] \in Undecided,
             wpc'[w] \in Held => wpc[w] \in Held,
             wpc'[w] \in Ahead => wpc[w] \in Ahead,
             \/ faults' = faults + 1
             \/ wpc[w] \in Undecided => wpc'[w] \in Undecided
      PROVE  Good
  <2>1. u' <= u /\ h' <= h /\ a' <= a
    BY <1>2, <1>m, <1>5 DEF InAt
  <2> QED BY <1>2, <1>n, <1>l, <1>5, <2>1
<1>6. ASSUME GetJob(w) \/ SetRunning(w) \/ Heartbeat(w) \/ SetSuccess(w)
           \/ SetRetry(w) \/ IncrementAttempts(w) \/ SetFailed(w)
           \/ WorkerQueryFails(w)
      PROVE  Good
  <2>1. Quietly /\ wjob'[w] = wjob[w]
    BY <1>6 DEF GetJob, SetRunning, Heartbeat, SetSuccess, SetRetry,
                IncrementAttempts, SetFailed, WorkerQueryFails, Write
  <2>2. /\ wpc'[w] \in Undecided => wpc[w] \in Undecided
        /\ wpc'[w] \in Held => wpc[w] \in Held
        /\ wpc'[w] \in Ahead => wpc[w] \in Ahead
        /\ \/ faults' = faults + 1
           \/ wpc[w] \in Undecided => wpc'[w] \in Undecided
    BY <1>6 DEF GetJob, SetRunning, Heartbeat, SetSuccess, SetRetry,
                IncrementAttempts, SetFailed, WorkerQueryFails, Write, Goto,
                TypeOK, Undecided, Held, Ahead, Running, Fault
  <2> QED BY <1>5, <2>1, <2>2
<1>7. ASSUME CommitMessage(w)
      PROVE  Good
  <2>1. Quietly /\ wjob'[w] = NoJob /\ wpc[w] = "commit"
    BY <1>7 DEF CommitMessage, Release, TypeOK
  <2>2. u' = u /\ h' = h /\ a' = a
    BY <1>2, <1>m, <2>1, PipelineAssumption DEF InAt, Undecided, Held, Ahead, Running
  <2> QED BY <1>2, <1>n, <1>l, <2>1, <2>2
<1>8. ASSUME HandlerSucceeds(w)
      PROVE  Good
  <2>1. /\ wpc[w] \in Running /\ wpc'[w] = "setSuccess" /\ wjob'[w] = wjob[w]
        /\ queue' = queue /\ retryQ' = retryQ /\ dlq' = dlq /\ fails' = fails
        /\ faults' = faults
        /\ succeeded'[k] = IF wjob[w] = k THEN succeeded[k] + 1 ELSE succeeded[k]
    BY <1>3, <1>8 DEF HandlerSucceeds, Bump, Goto, TypeOK
  <2>2. /\ wjob[w] = k => u' + 1 = u /\ h' = h /\ a' + 1 = a
        /\ wjob[w] # k => u' = u /\ h' = h /\ a' = a
    BY <1>2, <1>m, <2>1 DEF InAt, Undecided, Held, Ahead, Running
  <2> QED BY <1>2, <1>n, <1>l, <2>1, <2>2
<1>9. ASSUME HandlerFails(w)
      PROVE  Good
  <2>1. /\ wpc[w] \in Running /\ wjob'[w] = wjob[w]
        /\ wpc'[w] \in {"publishDLQ", "publishRetry"}
        /\ queue' = queue /\ retryQ' = retryQ /\ dlq' = dlq /\ faults' = faults
        /\ succeeded' = succeeded
        /\ fails'[k] = IF wjob[w] = k THEN fails[k] + 1 ELSE fails[k]
    BY <1>3, <1>9 DEF HandlerFails, RetryOrDLQ, Bump, Goto, TypeOK
  <2>2. /\ u' = u /\ h' = h
        /\ wjob[w] # k \/ wpc'[w] = "publishRetry" => a' = a
        /\ wjob[w] = k /\ wpc'[w] = "publishDLQ" => a' + 1 = a
    BY <1>2, <1>m, <2>1 DEF InAt, Undecided, Held, Ahead, Running
  <2>3. CASE wjob[w] = k /\ wpc'[w] = "publishRetry"
    <3>1. WillRetry(w, k)
      BY <1>2, <1>n, <1>l, <1>9, <2>1, <2>2, <2>3 DEF WillRetry, Failures
    <3> QED BY <1>2, <1>n, <1>l, <2>1, <2>2, <3>1
  <2>4. CASE ~(wjob[w] = k /\ wpc'[w] = "publishRetry")
    BY <1>2, <1>n, <1>l, <2>1, <2>2, <2>4
  <2> QED BY <2>3, <2>4
<1>10. ASSUME PublishRetry(w)
      PROVE  Good
  <2>1. /\ wpc[w] = "publishRetry" /\ wpc'[w] = "setRetry" /\ wjob'[w] = wjob[w]
        /\ queue' = queue /\ dlq' = dlq /\ succeeded' = succeeded /\ fails' = fails
        /\ faults' = faults
        /\ retryQ'[k] = IF wjob[w] = k THEN retryQ[k] + 1 ELSE retryQ[k]
    BY <1>3, <1>10 DEF PublishRetry, Bump, Goto, TypeOK
  <2>2. /\ wjob[w] = k => u' + 1 = u /\ h' + 1 = h /\ a' + 1 = a
        /\ wjob[w] # k => u' = u /\ h' = h /\ a' = a
    BY <1>2, <1>m, <2>1 DEF InAt, Undecided, Held, Ahead, Running
  <2> QED BY <1>2, <1>n, <1>l, <2>1, <2>2
<1>11. ASSUME PublishDLQ(w)
      PROVE  Good
  <2>1. /\ wpc[w] = "publishDLQ" /\ wpc'[w] = "setFailed" /\ wjob'[w] = wjob[w]
        /\ queue' = queue /\ retryQ' = retryQ /\ succeeded' = succeeded
        /\ fails' = fails /\ faults' = faults
        /\ dlq'[k] = IF wjob[w] = k THEN dlq[k] + 1 ELSE dlq[k]
    BY <1>3, <1>11 DEF PublishDLQ, DeadLetter, Bump, Goto, TypeOK
  <2>2. /\ wjob[w] = k => u' + 1 = u /\ h' = h /\ a' = a
        /\ wjob[w] # k => u' = u /\ h' = h /\ a' = a
    BY <1>2, <1>m, <2>1 DEF InAt, Undecided, Held, Ahead, Running
  <2> QED BY <1>2, <1>n, <1>l, <2>1, <2>2
<1>12. ASSUME WorkerPublishFails(w)
      PROVE  Good
  <2>1. /\ wpc[w] \in {"publishRetry", "publishDLQ"} /\ wpc'[w] = "commit"
        /\ wjob'[w] = wjob[w] /\ queue' = queue /\ succeeded' = succeeded
        /\ fails' = fails /\ faults' = faults + 1
        /\ \/ /\ wpc[w] = "publishRetry" /\ dlq'[k] = dlq[k]
              /\ \/ retryQ'[k] = retryQ[k]
                 \/ wjob[w] = k /\ retryQ'[k] = retryQ[k] + 1
           \/ /\ wpc[w] = "publishDLQ" /\ retryQ'[k] = retryQ[k]
              /\ \/ dlq'[k] = dlq[k]
                 \/ wjob[w] = k /\ dlq'[k] = dlq[k] + 1
    BY <1>3, <1>12 DEF WorkerPublishFails, OnPublishError, Fault, Send, Goto, TypeOK
  <2>2. /\ wjob[w] = k => u' + 1 = u /\ h' + 1 = h
        /\ wjob[w] = k /\ wpc[w] = "publishRetry" => a' + 1 = a
        /\ wjob[w] = k /\ wpc[w] = "publishDLQ" => a' = a
        /\ wjob[w] # k => u' = u /\ h' = h /\ a' = a
    BY <1>2, <1>m, <2>1 DEF InAt, Undecided, Held, Ahead, Running
  <2> QED BY <1>2, <1>n, <1>l, <2>1, <2>2
<1>13. ASSUME WorkerCrashes(w)
      PROVE  Good
  <2>1. /\ wjob'[w] = NoJob /\ retryQ' = retryQ /\ dlq' = dlq
        /\ succeeded' = succeeded /\ fails' = fails /\ faults' = faults + 1
        /\ queue'[k] \in {queue[k], queue[k] + 1}
    BY <1>3, <1>13 DEF WorkerCrashes, Release, GiveBack, Send, Fault, TypeOK
  <2>2. u' <= u /\ h' <= h /\ a' <= a
    BY <1>2, <1>m, <2>1, PipelineAssumption DEF InAt
  <2> QED BY <1>2, <1>n, <1>l, <2>1, <2>2
<1>14. ASSUME Rebalance(w)
      PROVE  Good
  <2>1. /\ wpc' = wpc /\ wjob' = wjob /\ retryQ' = retryQ /\ dlq' = dlq
        /\ succeeded' = succeeded /\ fails' = fails /\ faults' = faults + 1
        /\ queue'[k] \in {queue[k], queue[k] + 1}
    BY <1>3, <1>14 DEF Rebalance, GiveBack, Send, Fault, TypeOK
  <2>2. u' = u /\ h' = h /\ a' = a
    BY <1>2, <1>m, <2>1 DEF InAt
  <2> QED BY <1>2, <1>n, <1>l, <2>1, <2>2
<1>15. ASSUME NEW j \in Jobs, FetchMessage(w, j) PROVE Good
  <2>1. /\ wpc[w] = "idle" /\ wpc'[w] = "getJob" /\ wjob'[w] = j
        /\ retryQ' = retryQ /\ dlq' = dlq /\ succeeded' = succeeded
        /\ fails' = fails /\ faults' = faults
        /\ queue'[k] = IF j = k THEN queue[k] - 1 ELSE queue[k]
    BY <1>3, <1>15 DEF FetchMessage, Deliver, Take, Goto, TypeOK
  <2>2. /\ j = k => u' = u + 1 /\ h' = h + 1 /\ a' = a + 1
        /\ j # k => u' = u /\ h' = h /\ a' = a
    BY <1>2, <1>m, <1>3, <2>1 DEF InAt, Undecided, Held, Ahead, Running
  <2> QED BY <1>2, <1>n, <1>l, <2>1, <2>2
<1>16. Good
  BY <1>6, <1>7, <1>8, <1>9, <1>10, <1>11, <1>12, <1>13, <1>14, <1>15
     DEF WorkerStep
<1> QED BY <1>4, <1>16 DEF Outcomes, InWork, Failures

\* The same for any step.
LEMMA NextBooks ==
    ASSUME TypeOK, [Next]_vars, NEW k \in Jobs
    PROVE  /\ Outcomes(k)' + Grant(k) <= Outcomes(k) + Grant(k)'
           /\ InWork(k)' + Grant(k) <= InWork(k) + Grant(k)'
           /\ \/ Failures(k)' + Grant(k) <= Failures(k) + Grant(k)'
              \/ \E w \in Workers : WillRetry(w, k)
           /\ Sent(k)' >= Sent(k) /\ republished'[k] >= republished[k]
           /\ faults' >= faults
<1>1. TypeOK'
  BY NextTypeOK
<1>2. /\ Loose(k) \in Nat /\ Loose(k)' \in Nat
      /\ succeeded[k] \in Nat /\ dlq[k] \in Nat /\ fails[k] \in Nat
      /\ succeeded'[k] \in Nat /\ dlq'[k] \in Nat /\ fails'[k] \in Nat
      /\ Sent(k) \in Nat /\ republished[k] \in Nat /\ faults \in Nat
      /\ Sent(k)' \in Nat /\ republished'[k] \in Nat /\ faults' \in Nat
  BY <1>1 DEF TypeOK, Loose, Routed, Sent
<1>3. ASSUME NEW pcs
      PROVE  Cardinality(At(k, pcs)) \in Nat /\ Cardinality(At(k, pcs)') \in Nat
  <2>1. At(k, pcs) \in SUBSET Workers /\ At(k, pcs)' \in SUBSET Workers
    BY DEF At
  <2> QED BY <2>1, PipelineAssumption, FS_Subset, FS_CardinalityType
<1>4. ASSUME \/ \E j \in Jobs : \/ SubmitStep(j) \/ PublishJobFails(j)
                                \/ SetQueuedFails(j) \/ FetchRetry(j)
                                \/ HeartbeatAges(j)
             \/ RouterStep \/ RepublishFails \/ RouterCrashes
             \/ \E r \in Reapers : \/ ReaperStep(r) \/ PublishRequeuedFails(r)
                                   \/ ReaperCrashes(r)
                                   \/ \E j \in Jobs : RequeueFails(r, j)
             \/ UNCHANGED vars
      PROVE  /\ Outcomes(k)' + Grant(k) <= Outcomes(k) + Grant(k)'
             /\ InWork(k)' + Grant(k) <= InWork(k) + Grant(k)'
             /\ Failures(k)' + Grant(k) <= Failures(k) + Grant(k)'
             /\ Sent(k)' >= Sent(k) /\ republished'[k] >= republished[k]
             /\ faults' >= faults
  <2>1. /\ UNCHANGED <<wpc, wjob, fails, succeeded, dlq>>
        /\ Loose(k)' + Grant(k) <= Loose(k) + Grant(k)'
        /\ Sent(k)' >= Sent(k) /\ republished'[k] >= republished[k]
        /\ faults' >= faults
    BY <1>4, OthersKeepBooks
  <2>2. /\ At(k, Undecided)' = At(k, Undecided) /\ At(k, Held)' = At(k, Held)
        /\ At(k, Ahead)' = At(k, Ahead)
    BY <2>1 DEF At
  <2>3. Grant(k) \in Nat /\ Grant(k)' \in Nat
    BY <1>2 DEF Grant
  <2>4. Outcomes(k)' + Grant(k) <= Outcomes(k) + Grant(k)'
    BY <1>2, <1>3, <2>1, <2>2, <2>3 DEF Outcomes
  <2>5. InWork(k)' + Grant(k) <= InWork(k) + Grant(k)'
    BY <1>2, <1>3, <2>1, <2>2, <2>3 DEF InWork
  <2>6. Failures(k)' + Grant(k) <= Failures(k) + Grant(k)'
    BY <1>2, <1>3, <2>1, <2>2, <2>3 DEF Failures
  <2> QED BY <2>1, <2>4, <2>5, <2>6
<1>5. ASSUME NEW w \in Workers,
             \/ WorkerStep(w) \/ Heartbeat(w) \/ WorkerQueryFails(w)
             \/ WorkerPublishFails(w) \/ WorkerCrashes(w) \/ Rebalance(w)
             \/ \E j \in Jobs : FetchMessage(w, j)
      PROVE  /\ Outcomes(k)' + Grant(k) <= Outcomes(k) + Grant(k)'
             /\ InWork(k)' + Grant(k) <= InWork(k) + Grant(k)'
             /\ \/ Failures(k)' + Grant(k) <= Failures(k) + Grant(k)'
                \/ WillRetry(w, k)
             /\ Sent(k)' >= Sent(k) /\ republished'[k] >= republished[k]
             /\ faults' >= faults
  <2>1. /\ UNCHANGED <<sub, republished>> /\ faults' \in {faults, faults + 1}
        /\ Outcomes(k)' + faults <= Outcomes(k) + faults'
        /\ InWork(k)' + faults <= InWork(k) + faults'
        /\ Failures(k)' + faults <= Failures(k) + faults' \/ WillRetry(w, k)
    BY <1>5, WorkersKeepBooks
  <2>2. Sent(k)' = Sent(k)
    BY <2>1 DEF Sent
  <2>3. /\ Outcomes(k) \in Nat /\ Outcomes(k)' \in Nat
        /\ InWork(k) \in Nat /\ InWork(k)' \in Nat
        /\ Failures(k) \in Nat /\ Failures(k)' \in Nat
    BY <1>2, <1>3 DEF Outcomes, InWork, Failures
  <2> QED BY <1>2, <2>1, <2>2, <2>3 DEF Grant
<1> QED BY <1>4, <1>5 DEF Next, FaultStep, AllQuiet

\* Every copy of a job and every outcome has its cause.
CausesFit == \A j \in Jobs : Outcomes(j) <= Grant(j) /\ InWork(j) <= Grant(j)

BooksAreNat == \A j \in Jobs : /\ Outcomes(j) \in Nat /\ InWork(j) \in Nat
                               /\ Failures(j) \in Nat /\ Grant(j) \in Nat

LEMMA TypedBooks == TypeOK => BooksAreNat
<1> SUFFICES ASSUME TypeOK, NEW j \in Jobs
             PROVE  /\ Outcomes(j) \in Nat /\ InWork(j) \in Nat
                    /\ Failures(j) \in Nat /\ Grant(j) \in Nat
  BY DEF BooksAreNat
<1>1. /\ Loose(j) \in Nat /\ succeeded[j] \in Nat /\ dlq[j] \in Nat
      /\ fails[j] \in Nat
  BY DEF TypeOK, Loose, Routed
<1>2. Grant(j) \in Nat
  BY DEF TypeOK, Grant, Sent
<1> QED BY <1>1, <1>2, AtIsFinite DEF Outcomes, InWork, Failures

LEMMA InitCausesFit == Init => CausesFit
<1> SUFFICES ASSUME Init, NEW j \in Jobs
             PROVE  Outcomes(j) <= Grant(j) /\ InWork(j) <= Grant(j)
  BY DEF CausesFit
<1>1. At(j, Undecided) = {} /\ At(j, Held) = {}
  BY PipelineAssumption DEF Init, At
<1>2. Cardinality(At(j, Undecided)) = 0 /\ Cardinality(At(j, Held)) = 0
  BY <1>1, FS_EmptySet
<1> QED BY <1>2 DEF Init, Outcomes, InWork, Loose, Routed, Grant, Sent

LEMMA NextCausesFit ==
    ASSUME TypeOK, CausesFit, [Next]_vars
    PROVE  CausesFit'
<1>1. TypeOK'
  BY NextTypeOK
<1>2. BooksAreNat /\ BooksAreNat'
  <2>1. BooksAreNat
    BY TypedBooks
  <2>2. BooksAreNat'
    BY <1>1, TypedBooks, PTL
  <2> QED BY <2>1, <2>2
<1> SUFFICES ASSUME NEW j \in Jobs
             PROVE  Outcomes(j)' <= Grant(j)' /\ InWork(j)' <= Grant(j)'
  BY DEF CausesFit
<1> QED BY <1>2, NextBooks DEF CausesFit, BooksAreNat

LEMMA CausesFitHolds == Spec => [](TypeOK /\ CausesFit)
<1>1. Init => TypeOK /\ CausesFit
  BY InitTypeOK, InitCausesFit
<1>2. TypeOK /\ CausesFit /\ [Next]_vars => (TypeOK /\ CausesFit)'
  BY NextTypeOK, NextCausesFit
<1> QED BY <1>1, <1>2, PTL DEF Spec

\* However many workers fetch, fail, crash and lose their partition, a job runs
\* twice, in turn or side by side, only as often as a fault or a reaper made a
\* second copy of its message.
THEOREM DuplicatesAreCaused == Spec => []NoUncausedDuplicate
<1>1. TypeOK /\ CausesFit => NoUncausedDuplicate
  <2> SUFFICES ASSUME TypeOK, CausesFit, NEW j \in Jobs
               PROVE  succeeded[j] + dlq[j] + Cardinality(At(j, Running))
                        <= 1 + faults + republished[j]
    BY DEF NoUncausedDuplicate, At
  <2>1. At(j, Running) \subseteq At(j, Undecided)
    BY DEF At, Undecided
  <2>2. Cardinality(At(j, Running)) <= Cardinality(At(j, Undecided))
    BY <2>1, AtIsFinite, FS_Subset
  <2>3. Cardinality(At(j, Running)) \in Nat /\ Cardinality(At(j, Undecided)) \in Nat
    BY AtIsFinite
  <2>4. /\ Loose(j) \in Nat /\ Sent(j) \in {0, 1} /\ faults \in Nat
        /\ republished[j] \in Nat /\ succeeded[j] \in Nat /\ dlq[j] \in Nat
    BY DEF TypeOK, Loose, Routed, Sent
  <2>5. Outcomes(j) <= Grant(j)
    BY DEF CausesFit
  <2> QED BY <2>2, <2>3, <2>4, <2>5 DEF Outcomes, Grant
<1> QED BY <1>1, CausesFitHolds, PTL

-----------------------------------------------------------------------------
(* How often a handler may fail.  While attempts leaves more than one try, *)
(* the book of failures is covered by attempts and those who have yet to   *)
(* count.  After that only workers that have read attempts before can      *)
(* publish another retry; they and those who count are different workers.  *)

\* Workers that read an attempts with which a failure leads to a retry.
Hopeful(j) == {w \in Workers : /\ wjob[w] = j /\ wpc[w] \in ReadPcs
                               /\ seen[w] + 1 < MaxAttempts}

Counters(j) == Cardinality(At(j, CountPcs))
Hopefuls(j) == Cardinality(Hopeful(j))

FailuresFit(j) ==
    IF rows[j].attempts + 1 < MaxAttempts
    THEN Failures(j) <= rows[j].attempts + Counters(j) + Grant(j) + faults
    ELSE Failures(j) + Hopefuls(j) + 2
            <= MaxAttempts + Cardinality(Workers) + Grant(j) + faults

FInv == /\ AInv
        /\ IF Workers = {} THEN \A j \in Jobs : fails[j] = 0
                           ELSE \A j \in Jobs : FailuresFit(j)

LEMMA HopefulIsFinite ==
    ASSUME NEW j
    PROVE  /\ IsFiniteSet(Hopeful(j)) /\ Hopefuls(j) \in Nat
           /\ Counters(j) \in Nat
           /\ Counters(j) + Hopefuls(j) <= Cardinality(Workers)
           /\ Cardinality(Workers) \in Nat
<1>1. /\ Hopeful(j) \in SUBSET Workers /\ At(j, CountPcs) \in SUBSET Workers
      /\ Hopeful(j) \cap At(j, CountPcs) = {}
      /\ Hopeful(j) \cup At(j, CountPcs) \in SUBSET Workers
  BY DEF Hopeful, At, ReadPcs, CountPcs, Running
<1>2. IsFiniteSet(Hopeful(j)) /\ IsFiniteSet(At(j, CountPcs))
  BY <1>1, PipelineAssumption, FS_Subset
<1>3. Cardinality(Hopeful(j) \cup At(j, CountPcs)) = Hopefuls(j) + Counters(j)
  <2>1. Cardinality(Hopeful(j) \cap At(j, CountPcs)) = 0
    BY <1>1, FS_EmptySet
  <2>2. Hopefuls(j) \in Nat /\ Counters(j) \in Nat
    BY <1>2, FS_CardinalityType DEF Hopefuls, Counters
  <2>3. Cardinality(Hopeful(j) \cup At(j, CountPcs))
            = Cardinality(Hopeful(j)) + Cardinality(At(j, CountPcs))
                - Cardinality(Hopeful(j) \cap At(j, CountPcs))
    BY <1>2, FS_Union
  <2> QED BY <2>1, <2>2, <2>3 DEF Hopefuls, Counters
<1>4. Cardinality(Hopeful(j) \cup At(j, CountPcs)) <= Cardinality(Workers)
  BY <1>1, PipelineAssumption, FS_Subset
<1> QED BY <1>2, <1>3, <1>4, PipelineAssumption, FS_CardinalityType
        DEF Hopefuls, Counters

\* Without a fault, a worker that has to count does so.
LEMMA NextCounters ==
    ASSUME TypeOK, [Next]_vars, NEW k \in Jobs
    PROVE  /\ Counters(k) \in Nat /\ Counters(k)' \in Nat
           /\ \/ Counters(k)' >= Counters(k)
              \/ Counters(k)' + 1 >= Counters(k) /\ faults' = faults + 1
              \/ \E w \in Workers : IncrementAttempts(w) /\ wjob[w] = k
           /\ \A w \in Workers : IncrementAttempts(w) /\ wjob[w] = k
                                    => Counters(k)' + 1 = Counters(k)
           /\ \A w \in Workers : WillRetry(w, k)
                                    => Counters(k)' = Counters(k) + 1
<1> USE DEF topicVars, workerVars, routerVars, reaperVars, historyVars
<1>1. Counters(k) \in Nat /\ Counters(k)' \in Nat
  <2>1. At(k, CountPcs) \in SUBSET Workers /\ At(k, CountPcs)' \in SUBSET Workers
    BY DEF At
  <2> QED BY <2>1, PipelineAssumption, FS_Subset, FS_CardinalityType DEF Counters
<1>2. ASSUME NEW w \in Workers, OnlyMoves(w)
      PROVE  /\ (InAt(w, k, CountPcs) <=> InAt(w, k, CountPcs)')
                    => Counters(k)' = Counters(k)
             /\ InAt(w, k, CountPcs) /\ ~InAt(w, k, CountPcs)'
                    => Counters(k)' + 1 = Counters(k)
             /\ ~InAt(w, k, CountPcs) /\ InAt(w, k, CountPcs)'
                    => Counters(k)' = Counters(k) + 1
  BY <1>2, CountAt DEF Counters
<1>3. ASSUME NEW w \in Workers, WillRetry(w, k)
      PROVE  Counters(k)' = Counters(k) + 1
  <2>1. OnlyMoves(w)
    BY <1>3, OneWorkerMoves DEF WillRetry, WorkerStep
  <2>2. ~InAt(w, k, CountPcs) /\ InAt(w, k, CountPcs)'
    BY <1>3 DEF WillRetry, HandlerFails, Running, CountPcs, InAt
  <2> QED BY <1>2, <2>1, <2>2
<1>4. ASSUME NEW w \in Workers, IncrementAttempts(w), wjob[w] = k
      PROVE  Counters(k)' + 1 = Counters(k)
  <2>1. OnlyMoves(w)
    BY <1>4, OneWorkerMoves DEF WorkerStep
  <2>2. InAt(w, k, CountPcs) /\ ~InAt(w, k, CountPcs)'
    BY <1>4 DEF IncrementAttempts, Goto, CountPcs, InAt, TypeOK
  <2> QED BY <1>2, <2>1, <2>2
<1>5. ASSUME NEW w \in Workers,
             \/ WorkerStep(w) \/ Heartbeat(w) \/ WorkerQueryFails(w)
             \/ WorkerPublishFails(w) \/ WorkerCrashes(w) \/ Rebalance(w)
             \/ \E j \in Jobs : FetchMessage(w, j)
      PROVE  \/ Counters(k)' >= Counters(k)
             \/ Counters(k)' + 1 >= Counters(k) /\ faults' = faults + 1
             \/ IncrementAttempts(w) /\ wjob[w] = k
  <2>1. OnlyMoves(w)
    BY <1>5, OneWorkerMoves
  <2>2. CASE faults' = faults + 1
    BY <1>1, <1>2, <2>1, <2>2
  <2>3. CASE IncrementAttempts(w) /\ wjob[w] # k
    <3>1. InAt(w, k, CountPcs) <=> InAt(w, k, CountPcs)'
      BY <2>3 DEF IncrementAttempts, InAt
    <3> QED BY <1>1, <1>2, <2>1, <3>1
  <2>4. CASE faults' # faults + 1 /\ ~IncrementAttempts(w)
    <3>1. InAt(w, k, CountPcs) => InAt(w, k, CountPcs)'
      BY <1>5, <2>4
         DEF WorkerStep, GetJob, SetRunning, HandlerSucceeds, HandlerFails,
             SetSuccess, PublishRetry, SetRetry, PublishDLQ, SetFailed,
             CommitMessage, Write, Heartbeat, WorkerCrashes, Rebalance,
             FetchMessage, WorkerQueryFails, WorkerPublishFails, Fault,
             Goto, TypeOK, Running, CountPcs, InAt
    <3> QED BY <1>1, <1>2, <2>1, <3>1
  <2> QED BY <2>2, <2>3, <2>4
<1>6. ASSUME \/ \E j \in Jobs : \/ SubmitStep(j) \/ PublishJobFails(j)
                                \/ SetQueuedFails(j) \/ FetchRetry(j)
                                \/ HeartbeatAges(j)
             \/ RouterStep \/ RepublishFails \/ RouterCrashes
             \/ \E r \in Reapers : \/ ReaperStep(r) \/ PublishRequeuedFails(r)
                                   \/ ReaperCrashes(r)
                                   \/ \E j \in Jobs : RequeueFails(r, j)
             \/ UNCHANGED vars
      PROVE  Counters(k)' = Counters(k)
  <2>1. UNCHANGED <<wpc, wjob>>
    BY <1>6, OthersKeepBooks
  <2> QED BY <2>1 DEF Counters, At
<1>7. \/ Counters(k)' >= Counters(k)
      \/ Counters(k)' + 1 >= Counters(k) /\ faults' = faults + 1
      \/ \E w \in Workers : IncrementAttempts(w) /\ wjob[w] = k
  BY <1>1, <1>5, <1>6 DEF Next, FaultStep, AllQuiet
<1> QED BY <1>1, <1>3, <1>4, <1>7

\* Once attempts leaves no more than one try, nobody becomes hopeful.
LEMMA NextHopefuls ==
    ASSUME TypeOK, [Next]_vars, NEW k \in Jobs
    PROVE  /\ Hopefuls(k) \in Nat /\ Hopefuls(k)' \in Nat
           /\ rows[k].attempts + 1 >= MaxAttempts => Hopefuls(k)' <= Hopefuls(k)
           /\ \A w \in Workers :
                 WillRetry(w, k) /\ rows[k].attempts + 1 >= MaxAttempts
                     => Hopefuls(k)' + 1 <= Hopefuls(k)
           /\ UNCHANGED <<wjob, seen>>
                /\ (\A w \in Workers : wpc'[w] \in ReadPcs => wpc[w] \in ReadPcs)
                     => Hopefuls(k)' <= Hopefuls(k)
<1> USE DEF topicVars, workerVars, routerVars, reaperVars, historyVars
<1>1. /\ IsFiniteSet(Hopeful(k)) /\ Hopefuls(k) \in Nat
      /\ Hopefuls(k)' \in Nat
  <2>1. Hopeful(k) \in SUBSET Workers /\ Hopeful(k)' \in SUBSET Workers
    BY DEF Hopeful
  <2> QED BY <2>1, PipelineAssumption, FS_Subset, FS_CardinalityType DEF Hopefuls
<1>2. Hopeful(k)' \subseteq Hopeful(k) => Hopefuls(k)' <= Hopefuls(k)
  BY <1>1, FS_Subset DEF Hopefuls
<1> DEFINE Joins(w) == /\ ~(w \in Hopeful(k)) /\ w \in Hopeful(k)'
<1>3. ASSUME NEW w \in Workers,
             \/ WorkerStep(w) \/ Heartbeat(w) \/ WorkerQueryFails(w)
             \/ WorkerPublishFails(w) \/ WorkerCrashes(w) \/ Rebalance(w)
             \/ \E j \in Jobs : FetchMessage(w, j),
             rows[k].attempts + 1 >= MaxAttempts
      PROVE  Hopeful(k)' \subseteq Hopeful(k)
  <2>1. OnlyMoves(w)
    BY <1>3, OneWorkerMoves
  <2>2. CASE GetJob(w)
    <3>1. wpc[w] = "getJob" /\ wjob' = wjob /\ seen'[w] = rows[wjob[w]].attempts
      BY <2>2 DEF GetJob, TypeOK
    <3>2. w \notin Hopeful(k)'
      <4>1. rows[k].attempts \in Nat /\ MaxAttempts \in Nat
        BY PipelineAssumption DEF TypeOK, Row
      <4> QED BY <1>3, <3>1, <4>1 DEF Hopeful
    <3> QED BY <2>1, <3>2 DEF Hopeful, OnlyMoves
  <2>3. CASE ~GetJob(w)
    <3>1. \/ wpc'[w] \notin ReadPcs
          \/ wpc[w] \in ReadPcs /\ wjob'[w] = wjob[w] /\ seen'[w] = seen[w]
      BY <1>3, <2>3
         DEF WorkerStep, SetRunning, HandlerSucceeds, HandlerFails, RetryOrDLQ,
             SetSuccess, PublishRetry, SetRetry, IncrementAttempts, PublishDLQ,
             SetFailed, CommitMessage, Write, Heartbeat, WorkerCrashes, Rebalance,
             FetchMessage, WorkerQueryFails, WorkerPublishFails, OnPublishError,
             Release, Goto, TypeOK, Running, ReadPcs
    <3> QED BY <2>1, <3>1 DEF Hopeful, OnlyMoves
  <2> QED BY <2>2, <2>3
<1>4. ASSUME \/ \E j \in Jobs : \/ SubmitStep(j) \/ PublishJobFails(j)
                                \/ SetQueuedFails(j) \/ FetchRetry(j)
                                \/ HeartbeatAges(j)
             \/ RouterStep \/ RepublishFails \/ RouterCrashes
             \/ \E r \in Reapers : \/ ReaperStep(r) \/ PublishRequeuedFails(r)
                                   \/ ReaperCrashes(r)
                                   \/ \E j \in Jobs : RequeueFails(r, j)
             \/ UNCHANGED vars
      PROVE  Hopeful(k)' \subseteq Hopeful(k)
  <2>1. UNCHANGED <<wpc, wjob, seen>>
    BY <1>4, OthersKeepBooks
  <2> QED BY <2>1 DEF Hopeful
<1>5. rows[k].attempts + 1 >= MaxAttempts => Hopeful(k)' \subseteq Hopeful(k)
  BY <1>3, <1>4 DEF Next, FaultStep, AllQuiet
<1>6. ASSUME NEW w \in Workers, WillRetry(w, k),
             rows[k].attempts + 1 >= MaxAttempts
      PROVE  Hopefuls(k)' + 1 <= Hopefuls(k)
  <2>1. w \notin Hopeful(k)'
    BY <1>6 DEF WillRetry, Hopeful, ReadPcs, Running
  <2>2. w \in Hopeful(k)
    <3>1. wpc[w] \in Running /\ wpc'[w] = RetryOrDLQ(seen[w])
      BY <1>6 DEF WillRetry, HandlerFails, Goto, TypeOK
    <3>2. seen[w] + 1 < MaxAttempts
      BY <1>6, <3>1, PipelineAssumption DEF WillRetry, RetryOrDLQ, TypeOK
    <3> QED BY <1>6, <3>1, <3>2 DEF WillRetry, Hopeful, ReadPcs
  <2> QED BY <1>1, <1>5, <1>6, <2>1, <2>2, CountShrinksByOne DEF Hopefuls
<1>7. ASSUME UNCHANGED <<wjob, seen>>,
             \A w \in Workers : wpc'[w] \in ReadPcs => wpc[w] \in ReadPcs
      PROVE  Hopefuls(k)' <= Hopefuls(k)
  BY <1>2, <1>7 DEF Hopeful
<1> QED BY <1>1, <1>2, <1>5, <1>6, <1>7

\* Increments and requeues leave the book and the hopeful as they are.
LEMMA CountingKeepsBook ==
    ASSUME TypeOK, [Next]_vars, NEW k \in Jobs,
           \/ \E w \in Workers : IncrementAttempts(w)
           \/ \E r \in Reapers, j \in Jobs : Requeue(r, j)
    PROVE  /\ Failures(k)' = Failures(k) /\ Grant(k)' = Grant(k)
           /\ faults' = faults
           /\ Hopefuls(k)' = Hopefuls(k)
<1> USE DEF topicVars, workerVars, routerVars, reaperVars, historyVars
<1>1. /\ UNCHANGED <<queue, retryQ, rpc, rjob, sub, republished, faults, fails>>
      /\ UNCHANGED <<wjob, seen>>
      /\ \A w \in Workers : \/ wpc'[w] = wpc[w]
                            \/ wpc[w] = "increment" /\ wpc'[w] = "commit"
  BY DEF IncrementAttempts, Requeue, Goto, TypeOK
<1>2. At(k, Ahead)' = At(k, Ahead) /\ Hopeful(k)' = Hopeful(k)
  BY <1>1 DEF At, Ahead, Hopeful, ReadPcs, Running
<1> QED BY <1>1, <1>2 DEF Failures, Loose, Routed, Grant, Sent, Hopefuls

LEMMA NextFailuresFit ==
    ASSUME AInv, [Next]_vars, Workers # {}, NEW k \in Jobs, FailuresFit(k)
    PROVE  FailuresFit(k)'
<1>1. TypeOK /\ TypeOK'
  BY NextTypeOK DEF AInv
<1> DEFINE a == rows[k].attempts
           c == Counters(k)
           z == Hopefuls(k)
           n == Cardinality(Workers)
<1>2. /\ a \in Nat /\ a' \in Nat /\ faults \in Nat /\ faults' \in Nat
      /\ MaxAttempts \in Nat \ {0} /\ n \in Nat \ {0}
      /\ c \in Nat /\ c' \in Nat /\ z \in Nat /\ z' \in Nat
      /\ faults' >= faults
  <2>1. n # 0
    BY PipelineAssumption, FS_EmptySet
  <2> QED BY <1>1, <2>1, PipelineAssumption, HopefulIsFinite, NextCounters,
             NextHopefuls, NextBooks DEF TypeOK, Row
<1>3. /\ Failures(k) \in Nat /\ Failures(k)' \in Nat
      /\ Grant(k) \in Nat /\ Grant(k)' \in Nat
  <2>1. BooksAreNat
    BY <1>1, TypedBooks
  <2>2. BooksAreNat'
    BY <1>1, TypedBooks, PTL
  <2> QED BY <2>1, <2>2 DEF BooksAreNat
<1>4. c + z <= n
  BY HopefulIsFinite
<1>5. CASE a' = a
  <2>1. \/ c' >= c
        \/ c' + 1 >= c /\ faults' = faults + 1
    <3>1. ~(\E w \in Workers : IncrementAttempts(w) /\ wjob[w] = k)
      BY <1>2, <1>5, Increments
    <3> QED BY <1>1, <3>1, NextCounters
  <2>2. a + 1 >= MaxAttempts => z' <= z
    BY <1>1, NextHopefuls
  <2>3. CASE Failures(k)' + Grant(k) <= Failures(k) + Grant(k)'
    <3>1. CASE a + 1 < MaxAttempts
      BY <1>2, <1>3, <1>5, <2>1, <2>3, <3>1 DEF FailuresFit
    <3>2. CASE ~(a + 1 < MaxAttempts)
      BY <1>2, <1>3, <1>5, <2>2, <2>3, <3>2 DEF FailuresFit
    <3> QED BY <3>1, <3>2
  <2>4. CASE \E w \in Workers : WillRetry(w, k)
    <3>1. /\ c' = c + 1 /\ faults' = faults /\ Failures(k)' <= Failures(k) + 1
          /\ a + 1 >= MaxAttempts => z' + 1 <= z
      BY <1>1, <2>4, NextCounters, NextHopefuls DEF WillRetry
    <3>2. Grant(k)' >= Grant(k)
      BY <1>1, <1>2, NextBooks DEF Grant, TypeOK, Sent
    <3>3. CASE a + 1 < MaxAttempts
      BY <1>2, <1>3, <1>5, <3>1, <3>2, <3>3 DEF FailuresFit
    <3>4. CASE ~(a + 1 < MaxAttempts)
      BY <1>2, <1>3, <1>5, <3>1, <3>2, <3>4 DEF FailuresFit
    <3> QED BY <3>3, <3>4
  <2> QED BY <1>1, <2>3, <2>4, NextBooks
<1>6. CASE a' # a
  <2>1. \/ \E w \in Workers : IncrementAttempts(w) /\ wjob[w] = k
        \/ \E r \in Reapers : Requeue(r, k)
    BY <1>6, WhoCounts, Increments, Requeues
  <2>2. /\ Failures(k)' = Failures(k) /\ Grant(k)' = Grant(k)
        /\ faults' = faults /\ z' = z
    BY <1>1, <2>1, CountingKeepsBook
  <2>3. a' = a + 1
    BY <2>1, Increments, Requeues
  <2>4. c' + 1 >= c
    BY <1>1, <1>2, NextCounters
  <2>5. CASE a + 2 < MaxAttempts
    BY <1>2, <1>3, <2>2, <2>3, <2>4, <2>5 DEF FailuresFit
  <2>6. CASE a + 2 = MaxAttempts
    BY <1>2, <1>3, <1>4, <2>2, <2>3, <2>6 DEF FailuresFit
  <2>7. CASE a + 1 >= MaxAttempts
    BY <1>2, <1>3, <2>2, <2>3, <2>7 DEF FailuresFit
  <2> QED BY <1>2, <2>5, <2>6, <2>7
<1> QED BY <1>5, <1>6

\* Only a worker's handler fails.
LEMMA NextFailsWithoutWorkers ==
    ASSUME AInv, [Next]_vars, Workers = {}, \A j \in Jobs : fails[j] = 0
    PROVE  \A j \in Jobs : fails'[j] = 0
<1>1. ASSUME \/ \E j \in Jobs : \/ SubmitStep(j) \/ PublishJobFails(j)
                                \/ SetQueuedFails(j) \/ FetchRetry(j)
                                \/ HeartbeatAges(j)
             \/ RouterStep \/ RepublishFails \/ RouterCrashes
             \/ \E r \in Reapers : \/ ReaperStep(r) \/ PublishRequeuedFails(r)
                                   \/ ReaperCrashes(r)
                                   \/ \E j \in Jobs : RequeueFails(r, j)
             \/ UNCHANGED vars,
             NEW k \in Jobs
      PROVE  fails' = fails
  BY <1>1, OthersKeepBooks DEF AInv
<1>2. ~(\E w \in Workers : TRUE)
  OBVIOUS
<1>3. ASSUME NEW k \in Jobs PROVE fails' = fails
  BY <1>1, <1>2, <1>3 DEF Next, FaultStep, AllQuiet
<1> QED BY <1>3

LEMMA FInvHolds == Spec => []FInv
<1>1. Init => FInv
  <2> SUFFICES ASSUME Init PROVE FInv
    OBVIOUS
  <2>1. AInv
    BY InitAInv
  <2>2. ASSUME Workers # {}, NEW j \in Jobs PROVE FailuresFit(j)
    <3>1. At(j, Ahead) = {} /\ At(j, CountPcs) = {} /\ Hopeful(j) = {}
      BY PipelineAssumption DEF Init, At, Hopeful
    <3>2. Cardinality(At(j, Ahead)) = 0 /\ Counters(j) = 0 /\ Hopefuls(j) = 0
      BY <3>1, FS_EmptySet DEF Counters, Hopefuls
    <3>3. Failures(j) = 0 /\ Grant(j) = 0 /\ rows[j].attempts = 0 /\ faults = 0
      BY <3>2 DEF Init, Failures, Loose, Routed, Grant, Sent, NoRow
    <3>4. Cardinality(Workers) \in Nat \ {0}
      BY <2>2, PipelineAssumption, FS_EmptySet, FS_CardinalityType
    <3> QED BY <3>2, <3>3, <3>4, PipelineAssumption DEF FailuresFit
  <2>3. \A j \in Jobs : fails[j] = 0
    BY DEF Init
  <2> QED BY <2>1, <2>2, <2>3 DEF FInv
<1>2. FInv /\ [Next]_vars => FInv'
  <2> SUFFICES ASSUME FInv, [Next]_vars PROVE FInv'
    OBVIOUS
  <2>1. AInv'
    BY NextAInv DEF FInv
  <2>2. CASE Workers = {}
    <3>1. \A j \in Jobs : fails'[j] = 0
      BY <2>2, NextFailsWithoutWorkers DEF FInv
    <3> QED BY <2>1, <2>2, <3>1 DEF FInv
  <2>3. CASE Workers # {}
    <3>1. ASSUME NEW j \in Jobs PROVE FailuresFit(j)'
      BY <2>3, NextFailuresFit DEF FInv
    <3> QED BY <2>1, <2>3, <3>1 DEF FInv
  <2> QED BY <2>2, <2>3
<1> QED BY <1>1, <1>2, PTL DEF Spec

\* Although attempts is counted behind the retry it counts, a handler fails at
\* most MaxAttempts times, once more for each other worker, once more for each
\* copy of a reaper and twice for a fault.
THEOREM FailuresAreBounded == Spec => []FailuresBounded
<1>1. FInv => FailuresBounded
  <2> SUFFICES ASSUME FInv, NEW j \in Jobs
               PROVE  fails[j] <= MaxAttempts + Cardinality(Workers) - 1
                                     + 2 * faults + republished[j]
    BY DEF FailuresBounded
  <2>1. TypeOK
    BY DEF FInv, AInv
  <2>2. /\ Loose(j) \in Nat /\ Sent(j) \in {0, 1} /\ faults \in Nat
        /\ republished[j] \in Nat /\ fails[j] \in Nat
        /\ rows[j].attempts \in Nat /\ MaxAttempts \in Nat \ {0}
    BY <2>1, PipelineAssumption DEF TypeOK, Loose, Routed, Sent, Row
  <2>3. /\ Counters(j) \in Nat /\ Hopefuls(j) \in Nat
        /\ Counters(j) + Hopefuls(j) <= Cardinality(Workers)
        /\ Cardinality(Workers) \in Nat /\ Cardinality(At(j, Ahead)) \in Nat
    BY HopefulIsFinite, AtIsFinite
  <2>4. CASE Workers = {}
    BY <2>2, <2>3, <2>4 DEF FInv
  <2>5. CASE Workers # {}
    <3>1. FailuresFit(j)
      BY <2>5 DEF FInv
    <3>2. CASE rows[j].attempts + 1 < MaxAttempts
      BY <2>2, <2>3, <3>1, <3>2 DEF FailuresFit, Failures, Grant
    <3>3. CASE ~(rows[j].attempts + 1 < MaxAttempts)
      BY <2>2, <2>3, <3>1, <3>3 DEF FailuresFit, Failures, Grant
    <3> QED BY <3>2, <3>3
  <2> QED BY <2>4, <2>5
<1> QED BY <1>1, FInvHolds, PTL
=============================================================================
