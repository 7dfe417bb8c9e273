-------------------------- MODULE JobOutcomeProofs --------------------------
(***************************************************************************)
(* What JobPipeline's rows say of outcomes, under every kind of fault: a   *)
(* SUCCESS or FAILED row has its evidence, a job with an outcome has a row *)
(* that tells it unless somebody overtook it, and rows break               *)
(* validTransitions only then.  A worker's writes come calls after what    *)
(* they record, so the invariants carry the claim over those calls.        *)
(***************************************************************************)
EXTENDS JobAttemptsProofs

\* A worker about to write an outcome has it.
PendingHasEvidence ==
    \A w \in Workers : /\ wpc[w] = "setSuccess" => succeeded[wjob[w]] > 0
                       /\ wpc[w] = "setFailed" => dlq[wjob[w]] > 0

EInv == TypeOK /\ PendingHasEvidence /\ OutcomeHasEvidence

\* What has happened stays evidence.
EvidenceStays ==
    \A j \in Jobs : /\ succeeded[j] > 0 => succeeded'[j] > 0
                    /\ dlq[j] > 0 => dlq'[j] > 0

\* Rows keep their state or leave the terminal ones.
NoNewOutcome ==
    \A j \in Jobs : \/ rows'[j].state = rows[j].state
                    \/ rows'[j].state \notin {"SUCCESS", "FAILED"}

\* No worker comes to a pending outcome write.
NoNewPending ==
    \A w \in Workers : \/ wpc'[w] = wpc[w] /\ wjob'[w] = wjob[w]
                       \/ wpc'[w] \notin {"setSuccess", "setFailed"}

LEMMA KeepsEvidence ==
    ASSUME EInv, EvidenceStays, NoNewOutcome, NoNewPending
    PROVE  PendingHasEvidence' /\ OutcomeHasEvidence'
<1>1. ASSUME NEW w \in Workers
      PROVE  /\ wpc'[w] = "setSuccess" => succeeded'[wjob'[w]] > 0
             /\ wpc'[w] = "setFailed" => dlq'[wjob'[w]] > 0
  <2>1. CASE wpc[w] \in {"setSuccess", "setFailed"} /\ wjob'[w] = wjob[w]
                /\ wpc'[w] = wpc[w]
    <3>1. wjob[w] \in Jobs
      BY <2>1, WorkerHoldsJob DEF EInv
    <3> QED BY <2>1, <3>1 DEF EInv, PendingHasEvidence, EvidenceStays
  <2> QED BY <2>1 DEF NoNewPending
<1>2. OutcomeHasEvidence'
  BY DEF EInv, OutcomeHasEvidence, EvidenceStays, NoNewOutcome
<1> QED BY <1>1, <1>2 DEF PendingHasEvidence

\* The steps of the API, the router and the reaper, with their faults: they
\* write ACCEPTED and QUEUED only, and leave workers alone.
LEMMA OthersEvidence ==
    ASSUME EInv,
           \/ \E j \in Jobs : \/ SubmitStep(j) \/ PublishJobFails(j)
                              \/ SetQueuedFails(j) \/ FetchRetry(j)
                              \/ HeartbeatAges(j)
           \/ RouterStep \/ RepublishFails \/ RouterCrashes
           \/ \E r \in Reapers : \/ ReaperStep(r) \/ PublishRequeuedFails(r)
                                 \/ ReaperCrashes(r)
                                 \/ \E j \in Jobs : RequeueFails(r, j)
    PROVE  PendingHasEvidence' /\ OutcomeHasEvidence'
<1> USE DEF topicVars, workerVars, routerVars, reaperVars, historyVars
<1>0. TypeOK
  BY DEF EInv
<1>1. UNCHANGED <<wpc, wjob, succeeded, dlq>>
  BY DEF SubmitStep, InsertJob, PublishJob, SetQueued, PublishJobFails,
         SetQueuedFails, FetchRetry, HeartbeatAges, RouterStep, Republish,
         CommitRetry, RepublishFails, RouterCrashes, ReaperStep, ReapStaleJobs,
         Requeue, PublishRequeued, PublishRequeuedFails, ReaperCrashes,
         RequeueFails
<1>2. ASSUME NEW j \in Jobs, InsertJob(j) \/ SetQueued(j) PROVE NoNewOutcome
  BY <1>0, <1>2 DEF InsertJob, CreateJob, SetQueued, Set, UpdateJobState,
                    NoNewOutcome, TypeOK, Row
<1>3. ASSUME NEW j \in Jobs, HeartbeatAges(j) PROVE NoNewOutcome
  BY <1>0, <1>3 DEF HeartbeatAges, NoNewOutcome, TypeOK, Row
<1>4. ASSUME NEW r \in Reapers, NEW j \in Jobs, Requeue(r, j) PROVE NoNewOutcome
  BY <1>0, <1>4 DEF Requeue, RequeueJob, NoNewOutcome, TypeOK
<1>5. UNCHANGED rows => NoNewOutcome
  BY DEF NoNewOutcome
<1>6. NoNewOutcome
  BY <1>2, <1>3, <1>4, <1>5
     DEF SubmitStep, PublishJob, PublishJobFails, SetQueuedFails, FetchRetry,
         RouterStep, Republish, CommitRetry, RepublishFails, RouterCrashes,
         ReaperStep, ReapStaleJobs, PublishRequeued, PublishRequeuedFails,
         ReaperCrashes, RequeueFails
<1> QED BY <1>1, <1>6, KeepsEvidence DEF EvidenceStays, NoNewPending

\* The worker's steps and faults.
LEMMA WorkerEvidence ==
    ASSUME EInv, NEW w \in Workers,
           \/ WorkerStep(w) \/ Heartbeat(w) \/ WorkerQueryFails(w)
           \/ WorkerPublishFails(w) \/ WorkerCrashes(w) \/ Rebalance(w)
           \/ \E j \in Jobs : FetchMessage(w, j)
    PROVE  PendingHasEvidence' /\ OutcomeHasEvidence'
<1> USE DEF topicVars, workerVars, routerVars, reaperVars, historyVars
<1>0. TypeOK
  BY DEF EInv
<1>1. CASE GetJob(w) \/ HandlerFails(w) \/ WorkerQueryFails(w)
  <2>1. EvidenceStays /\ NoNewOutcome
    BY <1>1 DEF GetJob, HandlerFails, WorkerQueryFails, EvidenceStays,
                NoNewOutcome
  <2>2. NoNewPending
    BY <1>0, <1>1 DEF GetJob, HandlerFails, RetryOrDLQ, WorkerQueryFails, Goto,
                      NoNewPending, TypeOK
  <2> QED BY <2>1, <2>2, KeepsEvidence
<1>2. CASE Heartbeat(w) \/ IncrementAttempts(w)
  <2>1. EvidenceStays
    BY <1>2 DEF Heartbeat, IncrementAttempts, EvidenceStays
  <2>2. NoNewOutcome
    BY SMTT(30), <1>0, <1>2 DEF Heartbeat, Beat, IncrementAttempts, IncrementJobAttempts,
                      NoNewOutcome, TypeOK, Row
  <2>3. NoNewPending
    BY <1>0, <1>2 DEF Heartbeat, IncrementAttempts, Goto, NoNewPending, TypeOK
  <2> QED BY <2>1, <2>2, <2>3, KeepsEvidence
<1>3. CASE SetRunning(w) \/ SetRetry(w)
  <2>1. EvidenceStays
    BY <1>3 DEF SetRunning, SetRetry, Write, EvidenceStays
  <2>2. NoNewOutcome
    BY <1>0, <1>3 DEF SetRunning, SetRetry, Write, Set, UpdateJobState,
                      NoNewOutcome, TypeOK, Row
  <2>3. NoNewPending
    BY <1>0, <1>3 DEF SetRunning, SetRetry, Write, Goto, NoNewPending, TypeOK
  <2> QED BY <2>1, <2>2, <2>3, KeepsEvidence
<1>4. CASE PublishRetry(w)
  <2>1. EvidenceStays /\ NoNewOutcome
    BY <1>4 DEF PublishRetry, EvidenceStays, NoNewOutcome
  <2>2. NoNewPending
    BY <1>0, <1>4 DEF PublishRetry, Goto, NoNewPending, TypeOK
  <2> QED BY <2>1, <2>2, KeepsEvidence
<1>5. CASE HandlerSucceeds(w) \/ PublishDLQ(w)
  <2>1. wjob[w] \in Jobs
    BY <1>0, <1>5, WorkerHoldsJob DEF HandlerSucceeds, PublishDLQ, Running
  <2>2. EvidenceStays
    BY <1>0, <1>5, <2>1 DEF HandlerSucceeds, PublishDLQ, DeadLetter, Bump,
                            EvidenceStays, TypeOK
  <2>3. /\ HandlerSucceeds(w) => succeeded'[wjob[w]] > 0 /\ wpc'[w] = "setSuccess"
        /\ PublishDLQ(w) => dlq'[wjob[w]] > 0 /\ wpc'[w] = "setFailed"
        /\ \A v \in Workers \ {w} : wpc'[v] = wpc[v]
        /\ UNCHANGED <<rows, wjob>>
    BY <1>0, <1>5, <2>1 DEF HandlerSucceeds, PublishDLQ, DeadLetter, Bump, Goto,
                            TypeOK
  <2>4. ASSUME NEW v \in Workers \ {w}
        PROVE  /\ wpc'[v] = "setSuccess" => succeeded'[wjob'[v]] > 0
               /\ wpc'[v] = "setFailed" => dlq'[wjob'[v]] > 0
    <3>1. wpc[v] # "idle" => wjob[v] \in Jobs
      BY <1>0, WorkerHoldsJob
    <3> QED BY <2>2, <2>3, <3>1 DEF EInv, PendingHasEvidence, EvidenceStays
  <2>5. PendingHasEvidence'
    BY <1>5, <2>3, <2>4 DEF PendingHasEvidence
  <2> QED BY <2>2, <2>3, <2>5 DEF EInv, OutcomeHasEvidence, EvidenceStays
<1>6. CASE SetSuccess(w) \/ SetFailed(w)
  <2>1. wjob[w] \in Jobs
    BY <1>0, <1>6, WorkerHoldsJob DEF SetSuccess, SetFailed, Write
  <2>2. UNCHANGED <<wjob, succeeded, dlq>>
    BY <1>6 DEF SetSuccess, SetFailed, Write
  <2>3. NoNewPending
    BY <1>0, <1>6 DEF SetSuccess, SetFailed, Write, Goto, NoNewPending, TypeOK
  <2>4. PendingHasEvidence'
    BY <2>2, <2>3 DEF EInv, PendingHasEvidence, NoNewPending
  <2>5. /\ SetSuccess(w) => rows'[wjob[w]].state = "SUCCESS" /\ succeeded[wjob[w]] > 0
        /\ SetFailed(w) => rows'[wjob[w]].state = "FAILED" /\ dlq[wjob[w]] > 0
        /\ \A j \in Jobs \ {wjob[w]} : rows'[j] = rows[j]
    BY <1>0, <1>6, <2>1 DEF SetSuccess, SetFailed, Write, Set, UpdateJobState,
                            EInv, PendingHasEvidence, TypeOK, Row
  <2>6. OutcomeHasEvidence'
    BY <1>6, <2>1, <2>2, <2>5 DEF EInv, OutcomeHasEvidence
  <2> QED BY <2>4, <2>6
<1>7. CASE CommitMessage(w) \/ WorkerCrashes(w)
  <2>1. EvidenceStays /\ NoNewOutcome
    BY <1>7 DEF CommitMessage, WorkerCrashes, EvidenceStays, NoNewOutcome
  <2>2. NoNewPending
    BY <1>0, <1>7 DEF CommitMessage, WorkerCrashes, Release, NoNewPending, TypeOK
  <2> QED BY <2>1, <2>2, KeepsEvidence
<1>8. CASE WorkerPublishFails(w)
  <2>1. wjob[w] \in Jobs
    BY <1>0, <1>8, WorkerHoldsJob DEF WorkerPublishFails
  <2>2. \A j \in Jobs : dlq[j] > 0 => dlq'[j] > 0
    BY <1>0, <1>8, <2>1 DEF WorkerPublishFails, Send, TypeOK
  <2>3. EvidenceStays /\ NoNewOutcome
    BY <1>8, <2>2 DEF WorkerPublishFails, EvidenceStays, NoNewOutcome
  <2>4. NoNewPending
    BY <1>0, <1>8 DEF WorkerPublishFails, OnPublishError, Goto, NoNewPending,
                      TypeOK
  <2> QED BY <2>3, <2>4, KeepsEvidence
<1>9. CASE Rebalance(w)
  BY <1>9, KeepsEvidence DEF Rebalance, EvidenceStays, NoNewOutcome, NoNewPending
<1>10. ASSUME NEW j \in Jobs, FetchMessage(w, j)
       PROVE  PendingHasEvidence' /\ OutcomeHasEvidence'
  <2>1. EvidenceStays /\ NoNewOutcome
    BY <1>10 DEF FetchMessage, EvidenceStays, NoNewOutcome
  <2>2. NoNewPending
    BY <1>0, <1>10 DEF FetchMessage, Goto, NoNewPending, TypeOK
  <2> QED BY <2>1, <2>2, KeepsEvidence
<1> QED BY <1>1, <1>2, <1>3, <1>4, <1>5, <1>6, <1>7, <1>8, <1>9, <1>10
        DEF WorkerStep

LEMMA NextEInv == EInv /\ [Next]_vars => EInv'
<1> SUFFICES ASSUME EInv, [Next]_vars PROVE EInv'
  OBVIOUS
<1>1. TypeOK'
  BY NextTypeOK DEF EInv
<1>2. CASE UNCHANGED vars
  <2>1. EvidenceStays /\ NoNewOutcome /\ NoNewPending
    BY <1>2 DEF vars, topicVars, workerVars, historyVars, EvidenceStays,
                NoNewOutcome, NoNewPending
  <2> QED BY <1>1, <2>1, KeepsEvidence DEF EInv
<1>3. CASE Next
  BY <1>1, <1>2, <1>3, OthersEvidence, WorkerEvidence
     DEF Next, FaultStep, AllQuiet, EInv
<1> QED BY <1>2, <1>3

\* A SUCCESS row had a successful handler and a FAILED row has its message in
\* jobs.dlq, for any number of workers and under every kind of fault.
THEOREM OutcomesAreReal == Spec => []OutcomeHasEvidence
<1>1. Init => EInv
  <2> SUFFICES ASSUME Init PROVE EInv
    OBVIOUS
  <2>1. TypeOK
    BY InitTypeOK
  <2>2. PendingHasEvidence /\ OutcomeHasEvidence
    BY DEF Init, PendingHasEvidence, OutcomeHasEvidence, NoRow
  <2> QED BY <2>1, <2>2 DEF EInv
<1>2. EInv /\ [Next]_vars => EInv'
  BY NextEInv
<1>3. EInv => OutcomeHasEvidence
  BY DEF EInv
<1> QED BY <1>1, <1>2, <1>3, PTL DEF Spec

-----------------------------------------------------------------------------
(* A quiet row tells its outcome.  While it does not, some copy or process *)
(* is still busy with the job: the writes that would hide an outcome, or   *)
(* leave none to come, are the ones overtaken has.                         *)

Busy(j) == \/ queue[j] > 0 \/ retryQ[j] > 0
           \/ rjob = j /\ rpc = "publish"
           \/ \E r \in Reapers : picked[r] = j
           \/ \E w \in Workers : InAt(w, j, Held)

Excused(j) == j \in overtaken \/ faults > 1 \/ rows[j].attempts > MaxAttempts

Tells(j) == Published(j) => Excused(j) \/ IsTerminal(rows[j].state) \/ Busy(j)

\* A partition is lost by a fault only.
LossIsFault == (\E w \in Workers : ~owns[w]) => faults >= 1

BInv == AInv /\ LossIsFault /\ \A j \in Jobs : Tells(j)

LEMMA NextLossIsFault ==
    ASSUME TypeOK, LossIsFault, [Next]_vars
    PROVE  LossIsFault'
<1> USE DEF topicVars, workerVars, routerVars, reaperVars, historyVars
<1>1. faults \in Nat
  BY DEF TypeOK
<1>2. ASSUME faults' = faults + 1 PROVE LossIsFault'
  BY <1>1, <1>2 DEF LossIsFault
<1>3. ASSUME \A w \in Workers : owns'[w] = owns[w] \/ owns'[w], faults' = faults
      PROVE  LossIsFault'
  BY <1>3 DEF LossIsFault
<1>4. ASSUME NEW w \in Workers, WorkerStep(w) PROVE LossIsFault'
  BY <1>3, <1>4
     DEF WorkerStep, GetJob, SetRunning, HandlerSucceeds, HandlerFails,
         SetSuccess, PublishRetry, SetRetry, IncrementAttempts, PublishDLQ,
         SetFailed, CommitMessage, Write, Release, TypeOK
<1>5. ASSUME NEW w \in Workers,
             \/ Heartbeat(w) \/ \E j \in Jobs : FetchMessage(w, j)
             \/ WorkerQueryFails(w) \/ WorkerPublishFails(w)
             \/ WorkerCrashes(w) \/ Rebalance(w)
      PROVE  LossIsFault'
  BY <1>2, <1>3, <1>5 DEF Heartbeat, FetchMessage, WorkerQueryFails,
         WorkerPublishFails, WorkerCrashes, Rebalance, Fault
<1>6. ASSUME NEW j \in Jobs,
             \/ SubmitStep(j) \/ PublishJobFails(j) \/ SetQueuedFails(j)
             \/ FetchRetry(j) \/ HeartbeatAges(j)
      PROVE  LossIsFault'
  BY <1>2, <1>3, <1>6 DEF SubmitStep, InsertJob, PublishJob, SetQueued,
         PublishJobFails, SetQueuedFails, FetchRetry, HeartbeatAges, Fault
<1>7. CASE RouterStep \/ RepublishFails \/ RouterCrashes
  BY <1>2, <1>3, <1>7 DEF RouterStep, Republish, CommitRetry, RepublishFails,
         RouterCrashes, Fault
<1>8. ASSUME NEW r \in Reapers,
             \/ ReaperStep(r) \/ PublishRequeuedFails(r) \/ ReaperCrashes(r)
             \/ \E j \in Jobs : RequeueFails(r, j)
      PROVE  LossIsFault'
  BY <1>2, <1>3, <1>8 DEF ReaperStep, ReapStaleJobs, Requeue, PublishRequeued,
         PublishRequeuedFails, ReaperCrashes, RequeueFails, Fault
<1>9. CASE UNCHANGED vars
  BY <1>3, <1>9 DEF vars
<1> QED BY <1>4, <1>5, <1>6, <1>7, <1>8, <1>9 DEF Next, FaultStep, AllQuiet

\* What a job was excused for stays so.
LEMMA ExcusesStay ==
    ASSUME AInv, [Next]_vars, NEW k \in Jobs, Excused(k)
    PROVE  Excused(k)'
<1> USE DEF topicVars, workerVars, routerVars, reaperVars, historyVars
<1>1. /\ faults \in Nat /\ faults' \in Nat /\ faults' >= faults
      /\ rows[k].attempts \in Nat /\ rows'[k].attempts \in Nat
      /\ rows'[k].attempts >= rows[k].attempts
      /\ MaxAttempts \in Nat
  BY NextTypeOK, NextBooks, AttemptsGrow, PipelineAssumption DEF AInv, TypeOK, Row
<1>2. overtaken \subseteq overtaken'
  BY DEF Next, vars, SubmitStep, InsertJob, PublishJob, SetQueued, FetchRetry,
         HeartbeatAges, WorkerStep, GetJob, SetRunning, HandlerSucceeds,
         HandlerFails, SetSuccess, PublishRetry, SetRetry, IncrementAttempts,
         PublishDLQ, SetFailed, CommitMessage, Write, Heartbeat, FetchMessage,
         RouterStep, Republish, CommitRetry, ReaperStep, ReapStaleJobs, Requeue,
         PublishRequeued, FaultStep, PublishJobFails, SetQueuedFails,
         WorkerQueryFails, WorkerPublishFails, WorkerCrashes, Rebalance,
         RepublishFails, RouterCrashes, RequeueFails, PublishRequeuedFails,
         ReaperCrashes, AllQuiet
<1> QED BY <1>1, <1>2 DEF Excused

\* The steps of the API, the router and the reaper.
LEMMA OthersTell ==
    ASSUME AInv, [Next]_vars, NEW k \in Jobs, Tells(k),
           \/ \E j \in Jobs : \/ SubmitStep(j) \/ PublishJobFails(j)
                              \/ SetQueuedFails(j) \/ FetchRetry(j)
                              \/ HeartbeatAges(j)
           \/ RouterStep \/ RepublishFails \/ RouterCrashes
           \/ \E r \in Reapers : \/ ReaperStep(r) \/ PublishRequeuedFails(r)
                                 \/ ReaperCrashes(r)
                                 \/ \E j \in Jobs : RequeueFails(r, j)
           \/ UNCHANGED vars
    PROVE  Tells(k)'
<1> USE DEF topicVars, workerVars, routerVars, reaperVars, historyVars
<1> SUFFICES ASSUME Published(k)', ~Excused(k)'
             PROVE  IsTerminal(rows'[k].state) \/ Busy(k)'
  BY DEF Tells
<1>0. /\ TypeOK /\ ~Excused(k)
      /\ queue[k] \in Nat /\ retryQ[k] \in Nat
      /\ rpc # "idle" => rjob \in Jobs
  BY ExcusesStay DEF AInv, TypeOK
<1>1. UNCHANGED <<wpc, wjob>>
  BY <1>0, OthersKeepBooks
\* A step that leaves the job where it was, and its row's outcome.
<1>2. ASSUME queue'[k] >= queue[k], retryQ'[k] >= retryQ[k],
             rjob = k /\ rpc = "publish" => rjob' = k /\ rpc' = "publish",
             \A r \in Reapers : picked[r] = k => picked'[r] = k,
             Published(k)
      PROVE  /\ Busy(k) => Busy(k)'
             /\ rows'[k].state = rows[k].state =>
                    IsTerminal(rows'[k].state) \/ Busy(k)'
  <2>1. \A w \in Workers : InAt(w, k, Held) => InAt(w, k, Held)'
    BY <1>1 DEF InAt
  <2>2. \/ queue'[k] > 0 \/ retryQ'[k] > 0
        \/ ~(queue[k] > 0 \/ retryQ[k] > 0)
    BY <1>0, <1>2, NextTypeOK DEF TypeOK
  <2>3. Busy(k) => Busy(k)'
    BY <1>2, <2>1, <2>2 DEF Busy
  <2> QED BY <1>0, <1>2, <2>3 DEF Tells
<1>3. ASSUME NEW j \in Jobs, SubmitStep(j) \/ PublishJobFails(j) \/ SetQueuedFails(j)
      PROVE  IsTerminal(rows'[k].state) \/ Busy(k)'
  <2>1. CASE InsertJob(j)
    <3>1. j # k
      BY <1>0, <2>1 DEF InsertJob, Published, TypeOK
    <3>2. Published(k) /\ rows'[k] = rows[k]
      BY <1>0, <2>1, <3>1 DEF InsertJob, Published, TypeOK
    <3> QED BY <1>0, <1>2, <2>1, <3>2 DEF InsertJob
  <2>2. CASE PublishJob(j) /\ j = k
    BY <1>0, <2>2 DEF PublishJob, Bump, Busy, TypeOK
  <2>3. CASE (PublishJob(j) \/ PublishJobFails(j)) /\ j # k
    <3>1. /\ Published(k) /\ queue'[k] = queue[k]
          /\ UNCHANGED <<rows, retryQ, rpc, rjob, picked>>
      BY <1>0, <2>3 DEF PublishJob, PublishJobFails, Bump, Send, Published, TypeOK
    <3> QED BY <1>0, <1>2, <3>1
  <2>4. CASE PublishJobFails(j) /\ j = k
    BY <1>0, <2>4 DEF PublishJobFails, Published, TypeOK
  <2>5. CASE SetQueued(j)
    <3>1. /\ Published(k)
          /\ UNCHANGED <<queue, retryQ, rpc, rjob, picked>>
          /\ j # k => rows'[k] = rows[k]
          /\ j = k => rows[k].state = "ACCEPTED"
      BY <1>0, <2>5 DEF SetQueued, Set, Published, Excused, TypeOK
    <3>2. j = k => Busy(k)
      BY <1>0, <3>1 DEF Tells, IsTerminal
    <3> QED BY <1>0, <1>2, <3>1, <3>2
  <2>6. CASE SetQueuedFails(j)
    <3>1. /\ Published(k)
          /\ UNCHANGED <<rows, queue, retryQ, rpc, rjob, picked>>
      BY <1>0, <2>6 DEF SetQueuedFails, Published, TypeOK
    <3> QED BY <1>0, <1>2, <3>1
  <2> QED BY <1>3, <2>1, <2>2, <2>3, <2>4, <2>5, <2>6 DEF SubmitStep
<1>4. ASSUME UNCHANGED sub PROVE Published(k)
  BY <1>4 DEF Published
<1>5. ASSUME NEW j \in Jobs, FetchRetry(j) PROVE IsTerminal(rows'[k].state) \/ Busy(k)'
  <2>1. CASE j = k
    BY <1>5, <2>1 DEF FetchRetry, Busy
  <2>2. CASE j # k
    <3>1. /\ Published(k) /\ retryQ'[k] = retryQ[k] /\ rpc = "idle"
          /\ UNCHANGED <<rows, queue, picked>>
      BY <1>0, <1>4, <1>5, <2>2 DEF FetchRetry, Take, TypeOK
    <3> QED BY <1>0, <1>2, <3>1
  <2> QED BY <2>1, <2>2
<1>6. ASSUME NEW j \in Jobs, HeartbeatAges(j)
      PROVE  IsTerminal(rows'[k].state) \/ Busy(k)'
  <2>1. /\ Published(k) /\ rows'[k].state = rows[k].state
        /\ UNCHANGED <<queue, retryQ, rpc, rjob, picked>>
    BY <1>0, <1>4, <1>6 DEF HeartbeatAges, TypeOK, Row
  <2> QED BY <1>0, <1>2, <2>1
<1>7. ASSUME RouterStep \/ RepublishFails \/ RouterCrashes
      PROVE  IsTerminal(rows'[k].state) \/ Busy(k)'
  <2>1. Published(k) /\ UNCHANGED <<rows, picked>>
    BY <1>4, <1>7 DEF RouterStep, Republish, CommitRetry, RepublishFails, RouterCrashes
  <2>2. CASE Republish
    <3>1. /\ queue'[k] >= queue[k] /\ retryQ' = retryQ
          /\ rjob = k => queue'[k] > 0
      BY <1>0, <2>2 DEF Republish, Bump, TypeOK
    <3> QED BY <1>0, <1>2, <2>1, <3>1 DEF Busy
  <2>3. CASE CommitRetry
    BY <1>0, <1>2, <2>1, <2>3 DEF CommitRetry
  <2>4. CASE RepublishFails
    <3>1. rjob # k
      BY <2>4 DEF RepublishFails, Excused
    <3>2. queue'[k] = queue[k] /\ retryQ'[k] = retryQ[k]
      BY <1>0, <2>4, <3>1 DEF RepublishFails, Send, TypeOK
    <3> QED BY <1>0, <1>2, <2>1, <3>1, <3>2
  <2>5. CASE RouterCrashes
    <3>1. /\ retryQ'[k] >= retryQ[k] /\ queue' = queue
          /\ rjob = k => retryQ'[k] > 0
      BY <1>0, <2>5 DEF RouterCrashes, Bump, TypeOK
    <3> QED BY <1>0, <1>2, <2>1, <3>1 DEF Busy
  <2> QED BY <1>7, <2>2, <2>3, <2>4, <2>5 DEF RouterStep
<1>8. ASSUME NEW r \in Reapers,
             \/ ReaperStep(r) \/ PublishRequeuedFails(r) \/ ReaperCrashes(r)
             \/ \E j \in Jobs : RequeueFails(r, j)
      PROVE  IsTerminal(rows'[k].state) \/ Busy(k)'
  <2>1. Published(k) /\ UNCHANGED <<retryQ, rpc, rjob>>
    BY <1>4, <1>8 DEF ReaperStep, ReapStaleJobs, Requeue, PublishRequeued,
                      PublishRequeuedFails, ReaperCrashes, RequeueFails
  <2>2. CASE ReapStaleJobs(r) \/ \E j \in Jobs : RequeueFails(r, j)
    BY <1>0, <1>2, <2>1, <2>2 DEF ReapStaleJobs, RequeueFails
  <2>3. ASSUME NEW j \in Jobs, Requeue(r, j)
        PROVE  IsTerminal(rows'[k].state) \/ Busy(k)'
    <3>1. CASE j = k
      <4>1. RequeueJob(rows[k]).attempts <= MaxAttempts
        BY <1>0, <2>3, <3>1, PipelineAssumption
           DEF Requeue, RequeueJob, Excused, TypeOK, Row
      <4>2. picked'[r] = k
        BY <1>0, <2>3, <3>1, <4>1, PipelineAssumption
           DEF Requeue, RequeueJob, Exhausted, TypeOK, Row
      <4> QED BY <4>2 DEF Busy
    <3>2. CASE j # k
      <4>1. /\ rows'[k] = rows[k] /\ queue' = queue
            /\ \A q \in Reapers : picked[q] = k => picked'[q] = k
        BY <1>0, <2>3, <3>2, PipelineAssumption DEF Requeue, TypeOK
      <4> QED BY <1>0, <1>2, <2>1, <4>1
    <3> QED BY <3>1, <3>2
  <2>4. CASE PublishRequeued(r)
    <3>1. CASE picked[r] = k
      BY <1>0, <2>4, <3>1 DEF PublishRequeued, Bump, Busy, TypeOK
    <3>2. CASE picked[r] # k
      <4>1. /\ rows' = rows /\ queue'[k] = queue[k]
            /\ \A q \in Reapers : picked[q] = k => picked'[q] = k
        BY <1>0, <2>4, <3>2 DEF PublishRequeued, Bump, TypeOK
      <4> QED BY <1>0, <1>2, <2>1, <4>1
    <3> QED BY <3>1, <3>2
  <2>5. CASE PublishRequeuedFails(r) \/ ReaperCrashes(r)
    <3>1. picked[r] # k
      BY <2>5, PipelineAssumption DEF PublishRequeuedFails, ReaperCrashes, Excused
    <3>2. /\ rows' = rows /\ queue'[k] = queue[k]
          /\ \A q \in Reapers : picked[q] = k => picked'[q] = k
      BY <1>0, <2>5, <3>1 DEF PublishRequeuedFails, ReaperCrashes, Send, TypeOK
    <3> QED BY <1>0, <1>2, <2>1, <3>2
  <2> QED BY <1>8, <2>2, <2>3, <2>4, <2>5 DEF ReaperStep
<1>9. CASE UNCHANGED vars
  BY <1>0, <1>2, <1>4, <1>9 DEF vars
<1> QED BY <1>3, <1>5, <1>6, <1>7, <1>8, <1>9

\* The steps of the workers.
LEMMA WorkersTell ==
    ASSUME AInv, LossIsFault, [Next]_vars, NEW k \in Jobs, Tells(k),
           NEW w \in Workers,
           \/ WorkerStep(w) \/ Heartbeat(w) \/ WorkerQueryFails(w)
           \/ WorkerPublishFails(w) \/ WorkerCrashes(w) \/ Rebalance(w)
           \/ \E j \in Jobs : FetchMessage(w, j)
    PROVE  Tells(k)'
<1> USE DEF topicVars, workerVars, routerVars, reaperVars, historyVars
<1> DEFINE Told == IsTerminal(rows'[k].state) \/ Busy(k)'
<1> SUFFICES ASSUME Published(k)', ~Excused(k)'
             PROVE  Told
  BY DEF Tells
<1>0. /\ TypeOK /\ ~Excused(k)
      /\ queue[k] \in Nat /\ retryQ[k] \in Nat
      /\ wpc[w] # "idle" => wjob[w] \in Jobs
  BY ExcusesStay, WorkerHoldsJob DEF AInv, TypeOK
<1>1. /\ Published(k) /\ UNCHANGED <<rpc, rjob, picked>>
  BY DEF WorkerStep, GetJob, SetRunning, HandlerSucceeds, HandlerFails,
         SetSuccess, PublishRetry, SetRetry, IncrementAttempts, PublishDLQ,
         SetFailed, CommitMessage, Write, Heartbeat, FetchMessage,
         WorkerQueryFails, WorkerPublishFails, WorkerCrashes, Rebalance, Published
<1>2. OnlyMoves(w)
  BY <1>0, OneWorkerMoves
\* The worker keeps the job, or it was not busy with it; the row keeps its
\* outcome, or somebody was busy.
<1>3. ASSUME queue'[k] >= queue[k], retryQ'[k] >= retryQ[k],
             InAt(w, k, Held) => InAt(w, k, Held)',
             rows'[k].state = rows[k].state \/ Busy(k)
      PROVE  Told
  <2>1. \A v \in Workers : InAt(v, k, Held) => InAt(v, k, Held)'
    BY <1>2, <1>3 DEF InAt, OnlyMoves
  <2>2. \/ queue'[k] > 0 \/ retryQ'[k] > 0
        \/ ~(queue[k] > 0 \/ retryQ[k] > 0)
    BY <1>0, <1>3, NextTypeOK DEF TypeOK
  <2>3. Busy(k) => Busy(k)'
    BY <1>1, <1>3, <2>1, <2>2 DEF Busy
  <2> QED BY <1>0, <1>1, <1>3, <2>3 DEF Tells
<1>4. InAt(w, k, Held)' => Told
  BY DEF Busy
<1>5. ASSUME GetJob(w) \/ SetRunning(w) \/ HandlerSucceeds(w)
                \/ HandlerFails(w) \/ PublishDLQ(w)
      PROVE  Told
  <2>1. /\ wjob'[w] = wjob[w] /\ wpc'[w] \in Held /\ queue' = queue /\ retryQ' = retryQ
        /\ wjob[w] # k => rows'[k] = rows[k]
    BY <1>0, <1>5 DEF GetJob, SetRunning, HandlerSucceeds, HandlerFails, RetryOrDLQ,
          PublishDLQ, Write, Set, Goto, TypeOK, Held, Undecided, Running
  <2>2. CASE wjob[w] = k
    BY <1>4, <2>1, <2>2 DEF InAt
  <2>3. CASE wjob[w] # k
    BY <1>0, <1>3, <2>1, <2>3 DEF InAt
  <2> QED BY <2>2, <2>3
<1>6. ASSUME Heartbeat(w) PROVE Told
  <2>1. rows'[k].state = rows[k].state
    BY <1>0, <1>6 DEF Heartbeat, Beat, TypeOK, Row
  <2>2. InAt(w, k, Held) => InAt(w, k, Held)'
    BY <1>0, <1>6 DEF Heartbeat, Goto, TypeOK, InAt, Held, Undecided, Running
  <2> QED BY <1>0, <1>3, <1>6, <2>1, <2>2 DEF Heartbeat
<1>7. ASSUME SetSuccess(w) \/ SetFailed(w) PROVE Told
  <2>1. CASE wjob[w] = k
    BY <1>0, <1>7, <2>1 DEF SetSuccess, SetFailed, Write, Set, UpdateJobState,
                            TypeOK, Row, IsTerminal
  <2>2. CASE wjob[w] # k
    <3>1. /\ rows'[k] = rows[k] /\ ~InAt(w, k, Held) /\ queue' = queue
          /\ retryQ' = retryQ
      BY <1>0, <1>7, <2>2 DEF SetSuccess, SetFailed, Write, Set, TypeOK, InAt
    <3> QED BY <1>0, <1>3, <3>1
  <2> QED BY <2>1, <2>2
<1>8. ASSUME PublishRetry(w) PROVE Told
  <2>1. CASE wjob[w] = k
    BY <1>0, <1>8, <2>1 DEF PublishRetry, Bump, Busy, TypeOK
  <2>2. CASE wjob[w] # k
    <3>1. /\ rows' = rows /\ ~InAt(w, k, Held) /\ queue' = queue
          /\ retryQ'[k] = retryQ[k]
      BY <1>0, <1>8, <2>2 DEF PublishRetry, Bump, TypeOK, InAt
    <3> QED BY <1>0, <1>3, <3>1
  <2> QED BY <2>1, <2>2
<1>9. ASSUME SetRetry(w) PROVE Told
  <2>1. /\ queue' = queue /\ retryQ' = retryQ /\ ~InAt(w, k, Held)
    BY <1>9 DEF SetRetry, Write, InAt, Held, Undecided, Running
  <2>2. wjob[w] = k => rows[k].state = "RUNNING"
    BY <1>9 DEF SetRetry, Excused
  <2>3. wjob[w] = k => Busy(k)
    BY <1>0, <1>1, <2>2 DEF Tells, IsTerminal
  <2>4. wjob[w] # k => rows'[k] = rows[k]
    BY <1>0, <1>9 DEF SetRetry, Write, Set, TypeOK
  <2> QED BY <1>0, <1>3, <2>1, <2>3, <2>4
<1>10. ASSUME IncrementAttempts(w) PROVE Told
  <2>1. /\ queue' = queue /\ retryQ' = retryQ /\ ~InAt(w, k, Held)
        /\ rows'[k].state = rows[k].state
    BY <1>0, <1>10 DEF IncrementAttempts, IncrementJobAttempts, TypeOK, Row,
                       InAt, Held, Undecided, Running
  <2> QED BY <1>0, <1>3, <2>1
<1>11. ASSUME CommitMessage(w) PROVE Told
  <2>1. /\ queue' = queue /\ retryQ' = retryQ /\ ~InAt(w, k, Held) /\ rows' = rows
    BY <1>11 DEF CommitMessage, InAt, Held, Undecided, Running
  <2> QED BY <1>0, <1>3, <2>1
<1>12. ASSUME WorkerQueryFails(w) \/ WorkerPublishFails(w) PROVE Told
  <2>1. wjob[w] # k
    BY <1>12 DEF WorkerQueryFails, WorkerPublishFails, Excused
  <2>2. /\ queue' = queue /\ retryQ'[k] = retryQ[k] /\ ~InAt(w, k, Held)
        /\ rows' = rows
    BY <1>0, <1>12, <2>1 DEF WorkerQueryFails, WorkerPublishFails, Send, TypeOK, InAt
  <2> QED BY <1>0, <1>3, <2>2
<1>13. ASSUME WorkerCrashes(w) \/ Rebalance(w) PROVE Told
  <2>1. faults = 0 /\ owns[w]
    BY <1>0, <1>13 DEF WorkerCrashes, Rebalance, Fault, LossIsFault, Excused, TypeOK
  <2>2. /\ queue'[k] >= queue[k] /\ retryQ' = retryQ /\ rows' = rows
        /\ wjob[w] = k => queue'[k] > 0
    BY <1>0, <1>13, <2>1 DEF WorkerCrashes, Rebalance, GiveBack, Send, TypeOK
  <2>3. CASE wjob[w] = k
    BY <2>2, <2>3 DEF Busy
  <2>4. CASE wjob[w] # k
    BY <1>0, <1>3, <2>2, <2>4 DEF InAt
  <2> QED BY <2>3, <2>4
<1>14. ASSUME NEW j \in Jobs, FetchMessage(w, j) PROVE Told
  <2>1. /\ wjob'[w] = j /\ wpc'[w] = "getJob" /\ wpc[w] = "idle"
        /\ rows' = rows /\ retryQ' = retryQ
        /\ j # k => queue'[k] = queue[k]
    BY <1>0, <1>14 DEF FetchMessage, Deliver, Take, Goto, TypeOK
  <2>2. CASE j = k
    BY <1>4, <2>1, <2>2 DEF InAt, Held, Undecided
  <2>3. CASE j # k
    BY <1>0, <1>3, <2>1, <2>3 DEF InAt, Held, Undecided, Running
  <2> QED BY <2>2, <2>3
<1> QED BY <1>5, <1>6, <1>7, <1>8, <1>9, <1>10, <1>11, <1>12, <1>13, <1>14
        DEF WorkerStep

LEMMA NextTells ==
    ASSUME BInv, [Next]_vars, NEW k \in Jobs
    PROVE  Tells(k)'
<1>1. AInv /\ LossIsFault /\ Tells(k)
  BY DEF BInv
<1>2. CASE \E w \in Workers :
              \/ WorkerStep(w) \/ Heartbeat(w) \/ WorkerQueryFails(w)
              \/ WorkerPublishFails(w) \/ WorkerCrashes(w) \/ Rebalance(w)
              \/ \E j \in Jobs : FetchMessage(w, j)
  BY <1>1, <1>2, WorkersTell
<1>3. CASE \/ \E j \in Jobs : \/ SubmitStep(j) \/ PublishJobFails(j)
                              \/ SetQueuedFails(j) \/ FetchRetry(j)
                              \/ HeartbeatAges(j)
           \/ RouterStep \/ RepublishFails \/ RouterCrashes
           \/ \E r \in Reapers : \/ ReaperStep(r) \/ PublishRequeuedFails(r)
                                 \/ ReaperCrashes(r)
                                 \/ \E j \in Jobs : RequeueFails(r, j)
           \/ UNCHANGED vars
  BY <1>1, <1>3, OthersTell
<1> QED BY <1>2, <1>3 DEF Next, FaultStep, AllQuiet

\* When the last copy of a job is gone, its row tells the outcome, unless one
\* of the writes and failures that overtaken records hid it, two faults came
\* together, or a reaper gave the job up.
THEOREM RowsTellOutcomes == Spec => []RowTellsOutcome
<1>1. Init => BInv
  <2> SUFFICES ASSUME Init PROVE BInv
    OBVIOUS
  <2>1. LossIsFault /\ \A j \in Jobs : Tells(j)
    BY DEF Init, LossIsFault, Tells, Published
  <2> QED BY <2>1, InitAInv DEF BInv
<1>2. BInv /\ [Next]_vars => BInv'
  <2> SUFFICES ASSUME BInv, [Next]_vars PROVE BInv'
    OBVIOUS
  <2>1. AInv' /\ LossIsFault'
    BY NextAInv, NextLossIsFault DEF BInv, AInv
  <2>2. ASSUME NEW k \in Jobs PROVE Tells(k)'
    BY NextTells
  <2> QED BY <2>1, <2>2 DEF BInv
<1>3. BInv => RowTellsOutcome
  <2> SUFFICES ASSUME BInv, NEW j \in Jobs,
                      Quiet(j), Published(j), j \notin overtaken, faults <= 1,
                      rows[j].attempts <= MaxAttempts
               PROVE  IsTerminal(rows[j].state)
    BY DEF RowTellsOutcome
  <2>1. ~Excused(j)
    BY PipelineAssumption DEF Excused, BInv, AInv, TypeOK, Row
  <2>2. ~Busy(j)
    BY DEF Quiet, Busy, InAt, BInv, AInv, TypeOK
  <2> QED BY <2>1, <2>2 DEF BInv, Tells
<1> QED BY <1>1, <1>2, <1>3, PTL DEF Spec

-----------------------------------------------------------------------------
(* Rows move along the table of internal/jobs.  Before any fault and any   *)
(* requeue there is one copy of a job at most, so that the worker that has *)
(* claimed it is alone with the row.                                       *)

\* The calls between the claim of a row and the write that ends it.
ClaimPcs == Claimed \ {"setRetry", "increment"}

\* No reaper has a copy of a job that was never requeued.
CopiesFromRequeues ==
    \A j \in Jobs : requeues[j] = 0 =>
        republished[j] = 0 /\ \A r \in Reapers : picked[r] # j

\* Undisturbed(j): what would excuse an unlawful write has not happened.
Undisturbed(j) == faults = 0 /\ requeues[j] = 0 /\ j \notin overtaken

ClaimStands ==
    \A j \in Jobs, w \in Workers :
        Undisturbed(j) /\ InAt(w, j, ClaimPcs) => rows[j].state = "RUNNING"

LInv == AInv /\ EInv /\ CausesFit /\ CopiesFromRequeues /\ ClaimStands

Lawful(j) ==
    LET s == rows[j].state
        t == rows'[j].state
    IN  \/ s = t \/ s = "ABSENT"
        \/ Transition(s, t)
        \/ s \in {"ACCEPTED", "RETRY"} /\ t = "RUNNING"

\* A job that is undisturbed after a step was so before.
LEMMA DisturbancesStay ==
    ASSUME AInv, [Next]_vars, NEW k \in Jobs, Undisturbed(k)'
    PROVE  Undisturbed(k)
<1> USE DEF topicVars, workerVars, routerVars, reaperVars, historyVars
<1>1. /\ faults \in Nat /\ faults' >= faults
      /\ requeues[k] \in Nat /\ requeues'[k] >= requeues[k]
  BY NextBooks, HistoryGrows DEF AInv, TypeOK
<1>2. overtaken \subseteq overtaken'
  BY DEF Next, vars, SubmitStep, InsertJob, PublishJob, SetQueued, FetchRetry,
         HeartbeatAges, WorkerStep, GetJob, SetRunning, HandlerSucceeds,
         HandlerFails, SetSuccess, PublishRetry, SetRetry, IncrementAttempts,
         PublishDLQ, SetFailed, CommitMessage, Write, Heartbeat, FetchMessage,
         RouterStep, Republish, CommitRetry, ReaperStep, ReapStaleJobs, Requeue,
         PublishRequeued, FaultStep, PublishJobFails, SetQueuedFails,
         WorkerQueryFails, WorkerPublishFails, WorkerCrashes, Rebalance,
         RepublishFails, RouterCrashes, RequeueFails, PublishRequeuedFails,
         ReaperCrashes, AllQuiet
<1> QED BY <1>1, <1>2 DEF Undisturbed

LEMMA NextCopiesFromRequeues ==
    ASSUME TypeOK, CopiesFromRequeues, [Next]_vars
    PROVE  CopiesFromRequeues'
<1> USE DEF topicVars, workerVars, routerVars, reaperVars, historyVars
<1>1. ASSUME UNCHANGED <<requeues, republished, picked>>
      PROVE  CopiesFromRequeues'
  BY <1>1 DEF CopiesFromRequeues
<1>2. ASSUME NEW r \in Reapers, NEW j \in Jobs, Requeue(r, j)
      PROVE  CopiesFromRequeues'
  <2> SUFFICES ASSUME NEW k \in Jobs, requeues'[k] = 0
               PROVE  republished'[k] = 0 /\ \A q \in Reapers : picked'[q] # k
    BY DEF CopiesFromRequeues
  <2>1. k # j /\ requeues[k] = 0
    BY <1>2 DEF Requeue, Bump, TypeOK
  <2>2. republished' = republished /\ \A q \in Reapers : picked'[q] \in {picked[q], NoJob, j}
    BY <1>2 DEF Requeue, TypeOK
  <2> QED BY <2>1, <2>2, PipelineAssumption DEF CopiesFromRequeues
<1>3. ASSUME NEW r \in Reapers,
             PublishRequeued(r) \/ PublishRequeuedFails(r) \/ ReaperCrashes(r)
      PROVE  CopiesFromRequeues'
  <2> SUFFICES ASSUME NEW k \in Jobs, requeues'[k] = 0
               PROVE  republished'[k] = 0 /\ \A q \in Reapers : picked'[q] # k
    BY DEF CopiesFromRequeues
  <2>1. requeues[k] = 0 /\ \A q \in Reapers : picked'[q] \in {picked[q], NoJob}
    BY <1>3 DEF PublishRequeued, PublishRequeuedFails, ReaperCrashes, TypeOK
  <2>2. picked[r] # k /\ republished[k] = 0
    BY <2>1 DEF CopiesFromRequeues
  <2>3. republished'[k] = republished[k]
    BY <1>3, <2>2 DEF PublishRequeued, PublishRequeuedFails, ReaperCrashes, Bump,
                      Send, TypeOK
  <2> QED BY <2>1, <2>2, <2>3, PipelineAssumption DEF CopiesFromRequeues
<1>4. \/ UNCHANGED <<requeues, republished, picked>>
      \/ \E r \in Reapers : \/ PublishRequeued(r) \/ PublishRequeuedFails(r)
                            \/ ReaperCrashes(r) \/ \E j \in Jobs : Requeue(r, j)
  BY DEF Next, vars, SubmitStep, InsertJob, PublishJob, SetQueued, FetchRetry,
         HeartbeatAges, WorkerStep, GetJob, SetRunning, HandlerSucceeds,
         HandlerFails, SetSuccess, PublishRetry, SetRetry, IncrementAttempts,
         PublishDLQ, SetFailed, CommitMessage, Write, Heartbeat, FetchMessage,
         RouterStep, Republish, CommitRetry, ReaperStep, ReapStaleJobs, FaultStep,
         PublishJobFails, SetQueuedFails, WorkerQueryFails, WorkerPublishFails,
         WorkerCrashes, Rebalance, RepublishFails, RouterCrashes, RequeueFails,
         AllQuiet
<1> QED BY <1>1, <1>2, <1>3, <1>4

\* Two workers are not in work with an undisturbed job, and none is before its
\* outcome when there is one.
LEMMA AloneWithTheRow ==
    ASSUME LInv, NEW k \in Jobs, Undisturbed(k),
           NEW v \in Workers, InAt(v, k, Held)
    PROVE  /\ \A w \in Workers : InAt(w, k, Held) => w = v
           /\ InAt(v, k, Undecided) => succeeded[k] = 0 /\ dlq[k] = 0
<1>1. /\ Loose(k) \in Nat /\ succeeded[k] \in Nat /\ dlq[k] \in Nat
      /\ Sent(k) \in {0, 1} /\ republished[k] = 0 /\ faults = 0
  BY DEF LInv, AInv, TypeOK, Loose, Routed, Sent, CopiesFromRequeues, Undisturbed
<1>2. Outcomes(k) <= Grant(k) /\ InWork(k) <= Grant(k)
  BY DEF LInv, CausesFit
<1>3. /\ IsFiniteSet(At(k, Held)) /\ Cardinality(At(k, Held)) \in Nat
      /\ IsFiniteSet(At(k, Undecided)) /\ Cardinality(At(k, Undecided)) \in Nat
  BY AtIsFinite
<1>4. Cardinality(At(k, Held)) <= 1
  BY <1>1, <1>2, <1>3 DEF InWork, Grant
<1>5. ASSUME NEW w \in Workers, InAt(w, k, Held), w # v PROVE FALSE
  <2>1. v \in At(k, Held) /\ w \in At(k, Held) \ {v}
    BY <1>5 DEF At, InAt
  <2>2. Cardinality(At(k, Held) \ {v}) + 1 <= Cardinality(At(k, Held))
    BY <1>3, <2>1, CountShrinksByOne
  <2>3. /\ IsFiniteSet(At(k, Held) \ {v})
        /\ Cardinality(At(k, Held) \ {v}) \in Nat
    BY <1>3, FS_RemoveElement, FS_CardinalityType
  <2>4. Cardinality((At(k, Held) \ {v}) \ {w}) + 1 <= Cardinality(At(k, Held) \ {v})
    BY <2>1, <2>3, CountShrinksByOne
  <2>5. Cardinality((At(k, Held) \ {v}) \ {w}) \in Nat
    BY <2>3, FS_RemoveElement, FS_CardinalityType
  <2> QED BY <1>3, <1>4, <2>2, <2>3, <2>4, <2>5
<1>6. ASSUME InAt(v, k, Undecided) PROVE succeeded[k] = 0 /\ dlq[k] = 0
  <2>1. v \in At(k, Undecided)
    BY <1>6 DEF At, InAt
  <2>2. Cardinality(At(k, Undecided) \ {v}) + 1 <= Cardinality(At(k, Undecided))
    BY <1>3, <2>1, CountShrinksByOne
  <2>3. Cardinality(At(k, Undecided) \ {v}) \in Nat
    BY <1>3, FS_RemoveElement, FS_CardinalityType
  <2> QED BY <1>1, <1>2, <1>3, <2>2, <2>3 DEF Outcomes, Grant
<1> QED BY <1>5, <1>6

\* Every write of a state, and what it finds.
LEMMA WhoWrites ==
    ASSUME AInv, [Next]_vars, NEW k \in Jobs
    PROVE  \/ rows'[k].state = rows[k].state
           \/ InsertJob(k) \/ SetQueued(k)
           \/ \E w \in Workers : wjob[w] = k /\
                 (SetRunning(w) \/ SetSuccess(w) \/ SetRetry(w) \/ SetFailed(w))
           \/ \E r \in Reapers : Requeue(r, k)
<1> USE DEF topicVars, workerVars, routerVars, reaperVars, historyVars
<1>0. TypeOK
  BY DEF AInv
<1>1. ASSUME NEW j \in Jobs, InsertJob(j) \/ SetQueued(j), j # k
      PROVE  rows'[k].state = rows[k].state
  BY <1>0, <1>1 DEF InsertJob, SetQueued, Set, TypeOK
<1>2. ASSUME NEW j \in Jobs, NEW r \in Reapers, Requeue(r, j), j # k
      PROVE  rows'[k].state = rows[k].state
  BY <1>0, <1>2 DEF Requeue, TypeOK
<1>3. ASSUME NEW w \in Workers, wjob[w] # k,
             SetRunning(w) \/ SetSuccess(w) \/ SetRetry(w) \/ SetFailed(w)
      PROVE  rows'[k].state = rows[k].state
  BY <1>0, <1>3 DEF SetRunning, SetSuccess, SetRetry, SetFailed, Write, Set, TypeOK
<1>4. ASSUME NEW w \in Workers, Heartbeat(w) \/ IncrementAttempts(w)
      PROVE  rows'[k].state = rows[k].state
  <2>1. rows[k] \in Row /\ rows \in [Jobs -> Row]
    BY <1>0 DEF TypeOK
  <2>2. \/ rows'[k] = rows[k] \/ rows'[k] = Beat(rows[k])
        \/ rows'[k] = IncrementJobAttempts(rows[k])
    BY <1>4, <2>1 DEF Heartbeat, IncrementAttempts
  <2> QED BY <2>1, <2>2 DEF Beat, IncrementJobAttempts, Row
<1>5. ASSUME NEW j \in Jobs, HeartbeatAges(j) PROVE rows'[k].state = rows[k].state
  BY <1>0, <1>5 DEF HeartbeatAges, TypeOK, Row
<1>6. ASSUME NEW w \in Workers,
             \/ GetJob(w) \/ HandlerSucceeds(w) \/ HandlerFails(w)
             \/ PublishRetry(w) \/ PublishDLQ(w) \/ CommitMessage(w)
             \/ \E j \in Jobs : FetchMessage(w, j)
      PROVE  rows' = rows
  BY <1>6 DEF GetJob, HandlerSucceeds, HandlerFails, PublishRetry, PublishDLQ,
              CommitMessage, FetchMessage
<1>7. ASSUME \/ FaultStep \/ RouterStep \/ UNCHANGED vars
             \/ \E j \in Jobs : PublishJob(j) \/ FetchRetry(j)
             \/ \E r \in Reapers : ReapStaleJobs(r) \/ PublishRequeued(r)
      PROVE  rows' = rows
  BY <1>7 DEF FaultStep, PublishJobFails, SetQueuedFails, WorkerQueryFails,
         WorkerPublishFails, WorkerCrashes, Rebalance, RepublishFails,
         RouterCrashes, RequeueFails, PublishRequeuedFails, ReaperCrashes,
         RouterStep, Republish, CommitRetry, PublishJob, FetchRetry,
         ReapStaleJobs, PublishRequeued, vars
<1> QED BY <1>1, <1>2, <1>3, <1>4, <1>5, <1>6, <1>7
        DEF Next, SubmitStep, WorkerStep, ReaperStep, AllQuiet

\* A write to an undisturbed row is lawful.
LEMMA WritesAreLawful ==
    ASSUME LInv, [Next]_vars, NEW k \in Jobs, faults' = 0, requeues'[k] = 0
    PROVE  Lawful(k) \/ k \in overtaken'
<1> USE DEF topicVars, workerVars, routerVars, reaperVars, historyVars
<1> SUFFICES ASSUME k \notin overtaken' PROVE Lawful(k)
  OBVIOUS
<1>0. AInv /\ TypeOK
  BY DEF LInv, AInv
<1>1. Undisturbed(k)
  BY <1>0, DisturbancesStay DEF Undisturbed
<1>2. rows[k] \in Row
  BY <1>0 DEF TypeOK
<1>3. CASE rows'[k].state = rows[k].state
  BY <1>3 DEF Lawful
<1>4. CASE InsertJob(k)
  <2>1. rows[k] = NoRow
    BY <1>0, <1>4 DEF InsertJob, AInv, NotBeforeInsert
  <2> QED BY <2>1 DEF Lawful, NoRow
<1>5. CASE SetQueued(k)
  <2>1. rows[k].state = "ACCEPTED" /\ rows'[k].state = "QUEUED"
    BY <1>0, <1>2, <1>5 DEF SetQueued, Set, UpdateJobState, TypeOK, Row
  <2> QED BY <2>1 DEF Lawful, Transition, validTransitions, States
<1>6. ASSUME NEW w \in Workers, wjob[w] = k, SetRunning(w) PROVE Lawful(k)
  <2>1. rows'[k].state = "RUNNING" /\ wpc[w] = "setRunning"
    BY <1>0, <1>2, <1>6 DEF SetRunning, Write, Set, UpdateJobState, TypeOK, Row
  <2>2. InAt(w, k, Undecided) /\ InAt(w, k, Held)
    BY <1>6, <2>1 DEF InAt, Undecided, Held
  <2>3. succeeded[k] = 0 /\ dlq[k] = 0
    BY <1>1, <2>2, AloneWithTheRow
  <2>4. rows[k].state \notin {"SUCCESS", "FAILED"}
    BY <2>3 DEF LInv, EInv, OutcomeHasEvidence
  <2> QED BY <1>2, <2>1, <2>4 DEF Lawful, Transition, validTransitions, Row, States
<1>7. ASSUME NEW w \in Workers, wjob[w] = k, SetSuccess(w) \/ SetFailed(w)
      PROVE  Lawful(k)
  <2>1. rows'[k].state \in {"SUCCESS", "FAILED"} /\ wpc[w] \in {"setSuccess", "setFailed"}
    BY <1>0, <1>2, <1>7 DEF SetSuccess, SetFailed, Write, Set, UpdateJobState,
                            TypeOK, Row
  <2>2. InAt(w, k, ClaimPcs)
    BY <1>7, <2>1 DEF InAt, ClaimPcs, Claimed
  <2>3. rows[k].state = "RUNNING"
    BY <1>1, <2>2 DEF LInv, ClaimStands
  <2> QED BY <2>1, <2>3 DEF Lawful, Transition, validTransitions, States
<1>8. ASSUME NEW w \in Workers, wjob[w] = k, SetRetry(w) PROVE Lawful(k)
  <2>1. rows[k].state = "RUNNING"
    BY <1>8 DEF SetRetry
  <2>2. rows'[k].state = "RETRY"
    BY <1>0, <1>2, <1>8 DEF SetRetry, Write, Set, UpdateJobState, TypeOK, Row
  <2> QED BY <2>1, <2>2 DEF Lawful, Transition, validTransitions, States
<1>9. ASSUME NEW r \in Reapers, Requeue(r, k) PROVE FALSE
  BY <1>0, <1>9 DEF Requeue, Bump, TypeOK
<1> QED BY <1>0, <1>3, <1>4, <1>5, <1>6, <1>7, <1>8, <1>9, WhoWrites

\* A worker comes to the calls after the claim by the claim.
LEMMA WhoClaims ==
    ASSUME TypeOK, [Next]_vars, NEW k \in Jobs, NEW v \in Workers,
           InAt(v, k, ClaimPcs)'
    PROVE  InAt(v, k, ClaimPcs) \/ SetRunning(v)
<1> USE DEF topicVars, workerVars, routerVars, reaperVars, historyVars
<1>1. ASSUME NEW w \in Workers,
             \/ WorkerStep(w) \/ Heartbeat(w) \/ WorkerQueryFails(w)
             \/ WorkerPublishFails(w) \/ WorkerCrashes(w) \/ Rebalance(w)
             \/ \E j \in Jobs : FetchMessage(w, j)
      PROVE  InAt(v, k, ClaimPcs) \/ SetRunning(v)
  <2>1. OnlyMoves(w)
    BY <1>1, OneWorkerMoves
  <2>2. CASE v # w
    BY <2>1, <2>2 DEF OnlyMoves, InAt
  <2>3. CASE v = w
    BY <1>1, <2>3
       DEF WorkerStep, GetJob, HandlerSucceeds, HandlerFails, SetSuccess,
           PublishRetry, SetRetry, IncrementAttempts, PublishDLQ, SetFailed,
           CommitMessage, Write, Heartbeat, WorkerQueryFails, WorkerPublishFails,
           OnPublishError, WorkerCrashes, Rebalance, FetchMessage, Release, Goto,
           TypeOK, InAt, ClaimPcs, Claimed, Running
  <2> QED BY <2>2, <2>3
<1>2. ASSUME \/ \E j \in Jobs : \/ SubmitStep(j) \/ PublishJobFails(j)
                                \/ SetQueuedFails(j) \/ FetchRetry(j)
                                \/ HeartbeatAges(j)
             \/ RouterStep \/ RepublishFails \/ RouterCrashes
             \/ \E r \in Reapers : \/ ReaperStep(r) \/ PublishRequeuedFails(r)
                                   \/ ReaperCrashes(r)
                                   \/ \E j \in Jobs : RequeueFails(r, j)
             \/ UNCHANGED vars
      PROVE  InAt(v, k, ClaimPcs)
  BY <1>2, OthersKeepBooks DEF InAt
<1> QED BY <1>1, <1>2 DEF Next, FaultStep, AllQuiet

\* Nobody else writes to a row that is claimed.
LEMMA NextClaimStands ==
    ASSUME LInv, [Next]_vars
    PROVE  ClaimStands'
<1> USE DEF topicVars, workerVars, routerVars, reaperVars, historyVars
<1> SUFFICES ASSUME NEW k \in Jobs, NEW v \in Workers, Undisturbed(k)',
                    InAt(v, k, ClaimPcs)'
             PROVE  rows'[k].state = "RUNNING"
  BY DEF ClaimStands
<1>0. AInv /\ TypeOK /\ Undisturbed(k)
  BY DisturbancesStay DEF LInv, AInv
<1>1. CASE SetRunning(v)
  <2>1. wjob[v] = k
    BY <1>1 DEF SetRunning, Write, InAt
  <2> QED BY <1>0, <1>1, <2>1 DEF SetRunning, Write, Set, UpdateJobState, TypeOK, Row
<1>2. CASE InAt(v, k, ClaimPcs)
  <2>1. rows[k].state = "RUNNING"
    BY <1>0, <1>2 DEF LInv, ClaimStands
  <2>2. InAt(v, k, Held)
    BY <1>2 DEF InAt, ClaimPcs, Claimed, Held, Undecided
  <2>3. ASSUME InsertJob(k) PROVE FALSE
    BY <1>0, <2>1, <2>3 DEF InsertJob, AInv, NotBeforeInsert, NoRow
  <2>4. ASSUME SetQueued(k) PROVE FALSE
    BY <2>1, <2>4 DEF SetQueued, Undisturbed
  <2>5. ASSUME NEW w \in Workers, wjob[w] = k, SetRunning(w)
        PROVE  rows'[k].state = "RUNNING"
    BY <1>0, <2>5 DEF SetRunning, Write, Set, UpdateJobState, TypeOK, Row
  <2>6. ASSUME NEW w \in Workers, wjob[w] = k, SetSuccess(w) \/ SetFailed(w)
        PROVE  FALSE
    <3>1. InAt(w, k, Held) /\ w \in Workers /\ wpc'[w] = "commit"
      BY <1>0, <2>6 DEF SetSuccess, SetFailed, Write, Goto, InAt, Held, TypeOK
    <3>2. w = v
      BY <1>0, <2>2, <3>1, AloneWithTheRow
    <3> QED BY <3>1, <3>2 DEF InAt, ClaimPcs, Claimed, Running
  <2>7. ASSUME NEW w \in Workers, wjob[w] = k, SetRetry(w) PROVE FALSE
    <3>1. w # v
      BY <1>2, <2>7 DEF SetRetry, Write, InAt, ClaimPcs
    <3>2. ~OthersClaim(w)
      BY <2>7 DEF SetRetry, Undisturbed
    <3> QED BY <1>2, <2>7, <3>1, <3>2 DEF OthersClaim, InAt, ClaimPcs
  <2>8. ASSUME NEW r \in Reapers, Requeue(r, k) PROVE FALSE
    BY <1>0, <2>8 DEF Requeue, Bump, Undisturbed, TypeOK
  <2> QED BY <1>0, <2>1, <2>3, <2>4, <2>5, <2>6, <2>7, <2>8, WhoWrites
<1> QED BY <1>0, <1>1, <1>2, WhoClaims

\* Until a fault or a reaper steps in, a row whose job no late write has
\* overtaken moves along the table of internal/jobs/state.go, but for the
\* worker's claim, although no query checks the state it overwrites.
THEOREM RowsMoveLawfully == Spec => LawfulUnlessOvertaken
<1>1. Init => LInv
  <2> SUFFICES ASSUME Init PROVE LInv
    OBVIOUS
  <2>1. EInv
    BY InitTypeOK DEF Init, EInv, PendingHasEvidence, OutcomeHasEvidence, NoRow
  <2>2. CopiesFromRequeues /\ ClaimStands
    BY PipelineAssumption DEF Init, CopiesFromRequeues, ClaimStands, InAt, ClaimPcs,
                              Claimed, Running
  <2> QED BY <2>1, <2>2, InitAInv, InitCausesFit DEF LInv
<1>2. LInv /\ [Next]_vars => LInv'
  BY NextAInv, NextEInv, NextCausesFit, NextCopiesFromRequeues, NextClaimStands
     DEF LInv, AInv
<1>3. LInv /\ [Next]_vars => \A j \in Jobs :
          faults' = 0 /\ requeues'[j] = 0 => Lawful(j) \/ j \in overtaken'
  BY WritesAreLawful
<1>4. LInv /\ [Next]_vars
         => [\A j \in Jobs :
                LET s == rows[j].state
                    t == rows'[j].state
                IN  faults' = 0 /\ requeues'[j] = 0 =>
                    \/ s = t \/ s = "ABSENT"
                    \/ Transition(s, t)
                    \/ s \in {"ACCEPTED", "RETRY"} /\ t = "RUNNING"
                    \/ j \in overtaken']_vars
  BY <1>3 DEF Lawful
<1> QED BY <1>1, <1>2, <1>4, PTL DEF Spec, LawfulUnlessOvertaken
=============================================================================
