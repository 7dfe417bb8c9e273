------------------------- MODULE JobPipelineProofs -------------------------
(***************************************************************************)
(* Theorems about JobPipeline, for any jobs, workers and reapers and any   *)
(* bound on faults: type correctness, that no published job is lost to     *)
(* crashes, rebalances and stalls, and that a terminal row has its         *)
(* evidence whatever fails.                                                *)
(***************************************************************************)
EXTENDS JobPipeline, TLAPS

-----------------------------------------------------------------------------
(* Lemmas about the operators.                                             *)

\* The queries of JobStore map rows to rows.
LEMMA QueriesReturnRows ==
    ASSUME NEW row \in Row, NEW s \in States
    PROVE  /\ NoRow \in Row
           /\ CreateJob \in Row
           /\ UpdateJobState(row, s) \in Row
           /\ IncrementJobAttempts(row) \in Row
           /\ Beat(row) \in Row
           /\ RequeueJob(row) \in Row
<1>1. NoRow \in Row /\ CreateJob \in Row
  BY DEF NoRow, CreateJob, Row, States, Heartbeats
<1>2. UpdateJobState(row, s) \in Row
  BY DEF UpdateJobState, Row
<1>3. IncrementJobAttempts(row) \in Row
  BY DEF IncrementJobAttempts, Row
<1>4. Beat(row) \in Row
  BY DEF Beat, Row, Heartbeats
<1>5. RequeueJob(row) \in Row
  BY DEF RequeueJob, Row, States, Heartbeats
<1> QED BY <1>1, <1>2, <1>3, <1>4, <1>5

\* A topic stays a bag of copies when one is added or taken.
LEMMA TopicsStayBags ==
    ASSUME NEW f \in [Jobs -> Nat], NEW x \in Jobs, NEW n \in Nat
    PROVE  /\ Bump(f, x) \in [Jobs -> Nat]
           /\ Send(f, x, n) \in [Jobs -> Nat]
           /\ f[x] > 0 => Take(f, x) \in [Jobs -> Nat]
BY DEF Bump, Send, Take

-----------------------------------------------------------------------------
(* Type correctness.                                                       *)

LEMMA InitTypeOK == Init => TypeOK
<1> SUFFICES ASSUME Init PROVE TypeOK
  OBVIOUS
<1>1. NoRow \in Row
  BY DEF NoRow, Row, Heartbeats, States
<1> QED BY <1>1, PipelineAssumption DEF Init, TypeOK, WorkerPcs

\* The steps of the submit path preserve the types.
LEMMA SubmitTypeOK ==
    ASSUME TypeOK, NEW j \in Jobs,
           SubmitStep(j) \/ PublishJobFails(j) \/ SetQueuedFails(j)
    PROVE  TypeOK'
<1> USE DEF topicVars, workerVars, routerVars, reaperVars, historyVars
<1>1. CASE InsertJob(j)
  <2>1. rows' \in [Jobs -> Row]
    BY <1>1, QueriesReturnRows DEF InsertJob, TypeOK, CreateJob, Row, States,
                                   Heartbeats
  <2> QED BY <1>1, <2>1 DEF InsertJob, TypeOK
<1>2. CASE PublishJob(j)
  BY <1>2, TopicsStayBags DEF PublishJob, TypeOK
<1>3. CASE SetQueued(j)
  <2>1. rows' \in [Jobs -> Row]
    BY <1>3, QueriesReturnRows DEF SetQueued, Set, TypeOK, States
  <2> QED BY <1>3, <2>1 DEF SetQueued, TypeOK
<1>4. CASE PublishJobFails(j)
  <2>1. PICK landed \in {0, 1} : queue' = Send(queue, j, landed)
    BY <1>4 DEF PublishJobFails
  <2>2. queue' \in [Jobs -> Nat]
    BY <2>1, TopicsStayBags DEF TypeOK
  <2>3. /\ sub' = [sub EXCEPT ![j] = "unpublished"]
        /\ faults' = faults + 1
        /\ UNCHANGED <<rows, retryQ, dlq, workerVars, routerVars, reaperVars,
                       historyVars>>
    BY <1>4 DEF PublishJobFails, Fault
  <2> QED BY <2>2, <2>3 DEF TypeOK
<1>5. CASE SetQueuedFails(j)
  BY <1>5 DEF SetQueuedFails, Fault, TypeOK
<1> QED BY <1>1, <1>2, <1>3, <1>4, <1>5 DEF SubmitStep

\* A worker at a call holds a job, and one that goes on to another call leaves
\* the types of the worker's variables as they are.
LEMMA WorkerHoldsJob ==
    ASSUME TypeOK, NEW w \in Workers, wpc[w] # "idle"
    PROVE  wjob[w] \in Jobs
BY DEF TypeOK

LEMMA GotoTypeOK ==
    ASSUME TypeOK, NEW w \in Workers, wpc[w] # "idle",
           NEW pc \in WorkerPcs \ {"idle"}, Goto(w, pc), UNCHANGED wjob
    PROVE  /\ wpc' \in [Workers -> WorkerPcs]
           /\ wjob' \in [Workers -> Jobs \cup {NoJob}]
           /\ \A v \in Workers : wjob'[v] = NoJob <=> wpc'[v] = "idle"
BY DEF TypeOK, Goto

\* The worker's Write: its row and its pc.
LEMMA WriteTypeOK ==
    ASSUME TypeOK, NEW w \in Workers, NEW from \in WorkerPcs \ {"idle"},
           NEW to \in WorkerPcs \ {"idle"}, NEW s \in States,
           Write(w, from, to, s),
           overtaken' \subseteq Jobs,
           UNCHANGED <<fails, succeeded, requeues, republished>>
    PROVE  TypeOK'
<1> USE DEF topicVars, routerVars, reaperVars
<1>1. wjob[w] \in Jobs
  BY WorkerHoldsJob DEF Write
<1>2. rows' \in [Jobs -> Row]
  BY <1>1, QueriesReturnRows DEF Write, Set, TypeOK
<1>3. /\ wpc' \in [Workers -> WorkerPcs]
      /\ wjob' \in [Workers -> Jobs \cup {NoJob}]
      /\ \A v \in Workers : wjob'[v] = NoJob <=> wpc'[v] = "idle"
  BY GotoTypeOK DEF Write
<1> QED BY <1>2, <1>3 DEF Write, TypeOK

LEMMA ReleaseTypeOK ==
    ASSUME TypeOK, NEW w \in Workers, Release(w)
    PROVE  /\ wpc' \in [Workers -> WorkerPcs]
           /\ wjob' \in [Workers -> Jobs \cup {NoJob}]
           /\ \A v \in Workers : wjob'[v] = NoJob <=> wpc'[v] = "idle"
           /\ seen' \in [Workers -> Nat]
           /\ owns' \in [Workers -> BOOLEAN]
BY DEF TypeOK, Release, WorkerPcs

\* The worker's steps without a fault preserve the types.
LEMMA WorkerTypeOK ==
    ASSUME TypeOK, NEW w \in Workers, WorkerStep(w) \/ Heartbeat(w)
    PROVE  TypeOK'
<1> USE DEF topicVars, workerVars, routerVars, reaperVars, historyVars
<1>1. CASE GetJob(w)
  <2>1. /\ wpc' \in [Workers -> WorkerPcs]
        /\ wjob' \in [Workers -> Jobs \cup {NoJob}]
        /\ \A v \in Workers : wjob'[v] = NoJob <=> wpc'[v] = "idle"
    BY <1>1, GotoTypeOK DEF GetJob, WorkerPcs, Claimed, Running
  <2>2. wjob[w] \in Jobs
    BY <1>1, WorkerHoldsJob DEF GetJob, Running
  <2>3. rows[wjob[w]].attempts \in Nat
    BY <2>2 DEF TypeOK, Row
  <2> QED BY <1>1, <2>1, <2>2, <2>3 DEF GetJob, TypeOK
<1>2. CASE SetRunning(w)
  BY <1>2, WriteTypeOK DEF SetRunning, WorkerPcs, Claimed, Running,
                               States, TypeOK
<1>3. CASE Heartbeat(w)
  <2>1. /\ wpc' \in [Workers -> WorkerPcs]
        /\ wjob' \in [Workers -> Jobs \cup {NoJob}]
        /\ \A v \in Workers : wjob'[v] = NoJob <=> wpc'[v] = "idle"
    BY <1>3, GotoTypeOK DEF Heartbeat, WorkerPcs, Claimed, Running
  <2>2. wjob[w] \in Jobs
    BY <1>3, WorkerHoldsJob DEF Heartbeat, Running
  <2>3. rows' \in [Jobs -> Row]
    BY <1>3, <2>2, QueriesReturnRows DEF Heartbeat, TypeOK, States
  <2> QED BY <1>3, <2>1, <2>2, <2>3 DEF Heartbeat, TypeOK
<1>4. CASE HandlerSucceeds(w)
  <2>1. /\ wpc' \in [Workers -> WorkerPcs]
        /\ wjob' \in [Workers -> Jobs \cup {NoJob}]
        /\ \A v \in Workers : wjob'[v] = NoJob <=> wpc'[v] = "idle"
    BY <1>4, GotoTypeOK DEF HandlerSucceeds, WorkerPcs, Claimed, Running
  <2>2. wjob[w] \in Jobs
    BY <1>4, WorkerHoldsJob DEF HandlerSucceeds, Running
  <2>3. succeeded' \in [Jobs -> Nat]
    BY <1>4, <2>2, TopicsStayBags DEF HandlerSucceeds, TypeOK
  <2> QED BY <1>4, <2>1, <2>2, <2>3 DEF HandlerSucceeds, TypeOK
<1>5. CASE HandlerFails(w)
  <2>1. /\ wpc' \in [Workers -> WorkerPcs]
        /\ wjob' \in [Workers -> Jobs \cup {NoJob}]
        /\ \A v \in Workers : wjob'[v] = NoJob <=> wpc'[v] = "idle"
    BY <1>5, GotoTypeOK DEF HandlerFails, WorkerPcs, Claimed, Running, RetryOrDLQ
  <2>2. wjob[w] \in Jobs
    BY <1>5, WorkerHoldsJob DEF HandlerFails, Running
  <2>3. fails' \in [Jobs -> Nat]
    BY <1>5, <2>2, TopicsStayBags DEF HandlerFails, TypeOK
  <2> QED BY <1>5, <2>1, <2>2, <2>3 DEF HandlerFails, TypeOK
<1>6. CASE SetSuccess(w)
  BY <1>6, WriteTypeOK DEF SetSuccess, WorkerPcs, Claimed, Running,
                               States, TypeOK
<1>7. CASE PublishRetry(w)
  <2>1. /\ wpc' \in [Workers -> WorkerPcs]
        /\ wjob' \in [Workers -> Jobs \cup {NoJob}]
        /\ \A v \in Workers : wjob'[v] = NoJob <=> wpc'[v] = "idle"
    BY <1>7, GotoTypeOK DEF PublishRetry, WorkerPcs, Claimed, Running
  <2>2. wjob[w] \in Jobs
    BY <1>7, WorkerHoldsJob DEF PublishRetry, Running
  <2>3. retryQ' \in [Jobs -> Nat]
    BY <1>7, <2>2, TopicsStayBags DEF PublishRetry, TypeOK
  <2> QED BY <1>7, <2>1, <2>2, <2>3 DEF PublishRetry, TypeOK
<1>8. CASE SetRetry(w)
  <2>1. wjob[w] \in Jobs
    BY <1>8, WorkerHoldsJob DEF SetRetry, Write
  <2>2. overtaken' \subseteq Jobs
    BY <1>8, <2>1 DEF SetRetry, TypeOK
  <2> QED BY <1>8, <2>2, WriteTypeOK
          DEF SetRetry, WorkerPcs, Claimed, Running, States
<1>9. CASE IncrementAttempts(w)
  <2>1. /\ wpc' \in [Workers -> WorkerPcs]
        /\ wjob' \in [Workers -> Jobs \cup {NoJob}]
        /\ \A v \in Workers : wjob'[v] = NoJob <=> wpc'[v] = "idle"
    BY <1>9, GotoTypeOK DEF IncrementAttempts, WorkerPcs, Claimed, Running
  <2>2. wjob[w] \in Jobs
    BY <1>9, WorkerHoldsJob DEF IncrementAttempts, Running
  <2>3. rows' \in [Jobs -> Row]
    BY <1>9, <2>2, QueriesReturnRows DEF IncrementAttempts, TypeOK, States
  <2> QED BY <1>9, <2>1, <2>2, <2>3 DEF IncrementAttempts, TypeOK
<1>10. CASE PublishDLQ(w)
  <2>1. /\ wpc' \in [Workers -> WorkerPcs]
        /\ wjob' \in [Workers -> Jobs \cup {NoJob}]
        /\ \A v \in Workers : wjob'[v] = NoJob <=> wpc'[v] = "idle"
    BY <1>10, GotoTypeOK DEF PublishDLQ, WorkerPcs, Claimed, Running
  <2>2. wjob[w] \in Jobs
    BY <1>10, WorkerHoldsJob DEF PublishDLQ, Running
  <2>3. dlq' \in [Jobs -> Nat]
    BY <1>10, <2>2, TopicsStayBags DEF PublishDLQ, DeadLetter, TypeOK
  <2> QED BY <1>10, <2>1, <2>2, <2>3 DEF PublishDLQ, TypeOK
<1>11. CASE SetFailed(w)
  BY <1>11, WriteTypeOK DEF SetFailed, WorkerPcs, Claimed, Running,
                               States, TypeOK
<1>12. CASE CommitMessage(w)
  BY <1>12, ReleaseTypeOK DEF CommitMessage, TypeOK
<1> QED BY <1>1, <1>2, <1>3, <1>4, <1>5, <1>6, <1>7, <1>8, <1>9, <1>10, <1>11, <1>12 DEF WorkerStep

\* So do a worker's fetch and its faults.
LEMMA WorkerFaultTypeOK ==
    ASSUME TypeOK, NEW w \in Workers,
           \/ \E j \in Jobs : FetchMessage(w, j)
           \/ WorkerQueryFails(w) \/ WorkerPublishFails(w)
           \/ WorkerCrashes(w) \/ Rebalance(w)
    PROVE  TypeOK'
<1> USE DEF topicVars, workerVars, routerVars, reaperVars, historyVars
<1>1. ASSUME NEW j \in Jobs, FetchMessage(w, j) PROVE TypeOK'
  <2>1. queue' \in [Jobs -> Nat]
    BY <1>1, TopicsStayBags DEF FetchMessage, Deliver, TypeOK
  <2>2. /\ wpc' \in [Workers -> WorkerPcs]
        /\ wjob' \in [Workers -> Jobs \cup {NoJob}]
        /\ \A v \in Workers : wjob'[v] = NoJob <=> wpc'[v] = "idle"
    BY <1>1, PipelineAssumption DEF FetchMessage, Goto, TypeOK, WorkerPcs
  <2> QED BY <1>1, <2>1, <2>2 DEF FetchMessage, TypeOK
<1>2. CASE WorkerQueryFails(w)
  <2>1. /\ wpc' \in [Workers -> WorkerPcs]
        /\ wjob' \in [Workers -> Jobs \cup {NoJob}]
        /\ \A v \in Workers : wjob'[v] = NoJob <=> wpc'[v] = "idle"
    BY <1>2, GotoTypeOK DEF WorkerQueryFails, WorkerPcs
  <2> QED BY <1>2, <2>1 DEF WorkerQueryFails, Fault, TypeOK
<1>3. CASE WorkerPublishFails(w)
  <2>1. /\ wpc' \in [Workers -> WorkerPcs]
        /\ wjob' \in [Workers -> Jobs \cup {NoJob}]
        /\ \A v \in Workers : wjob'[v] = NoJob <=> wpc'[v] = "idle"
    BY <1>3, GotoTypeOK DEF WorkerPublishFails, OnPublishError, WorkerPcs
  <2>2. wjob[w] \in Jobs
    BY <1>3, WorkerHoldsJob DEF WorkerPublishFails
  <2>3. PICK landed \in {0, 1} :
           IF wpc[w] = "publishRetry"
           THEN retryQ' = Send(retryQ, wjob[w], landed) /\ dlq' = dlq
           ELSE dlq' = Send(dlq, wjob[w], landed) /\ retryQ' = retryQ
    BY <1>3 DEF WorkerPublishFails
  <2>4. retryQ' \in [Jobs -> Nat] /\ dlq' \in [Jobs -> Nat]
    <3>1. /\ landed \in Nat
          /\ retryQ \in [Jobs -> Nat] /\ dlq \in [Jobs -> Nat]
      BY DEF TypeOK
    <3>2. /\ Send(retryQ, wjob[w], landed) \in [Jobs -> Nat]
          /\ Send(dlq, wjob[w], landed) \in [Jobs -> Nat]
      BY <2>2, <3>1, TopicsStayBags
    <3> QED BY <2>3, <3>1, <3>2
  <2>5. /\ faults' = faults + 1
        /\ overtaken' = overtaken \cup {wjob[w]}
        /\ UNCHANGED <<rows, sub, queue, wjob, seen, owns, routerVars,
                       reaperVars, fails, succeeded, requeues, republished>>
    BY <1>3 DEF WorkerPublishFails, Fault
  <2> QED BY <2>1, <2>2, <2>4, <2>5 DEF TypeOK
<1>4. CASE WorkerCrashes(w)
  <2>1. wjob[w] \in Jobs
    BY <1>4, WorkerHoldsJob DEF WorkerCrashes
  <2>2. queue' \in [Jobs -> Nat]
    BY <1>4, <2>1, TopicsStayBags DEF WorkerCrashes, GiveBack, TypeOK
  <2> QED BY <1>4, <2>2, ReleaseTypeOK DEF WorkerCrashes, Fault, TypeOK
<1>5. CASE Rebalance(w)
  <2>1. wjob[w] \in Jobs
    BY <1>5, WorkerHoldsJob DEF Rebalance
  <2>2. queue' \in [Jobs -> Nat]
    BY <1>5, <2>1, TopicsStayBags DEF Rebalance, GiveBack, TypeOK
  <2> QED BY <1>5, <2>2 DEF Rebalance, Fault, TypeOK
<1> QED BY <1>1, <1>2, <1>3, <1>4, <1>5

\* So do the steps of the router, its faults, and the age of a heartbeat.
LEMMA RouterTypeOK ==
    ASSUME TypeOK,
           \/ \E j \in Jobs : FetchRetry(j) \/ HeartbeatAges(j)
           \/ RouterStep \/ RepublishFails \/ RouterCrashes
    PROVE  TypeOK'
<1> USE DEF topicVars, workerVars, routerVars, reaperVars, historyVars
<1>1. rpc # "idle" => rjob \in Jobs
  BY DEF TypeOK
<1>2. ASSUME NEW j \in Jobs, FetchRetry(j) PROVE TypeOK'
  <2>1. retryQ' \in [Jobs -> Nat]
    BY <1>2, TopicsStayBags DEF FetchRetry, TypeOK
  <2> QED BY <1>2, <2>1, PipelineAssumption DEF FetchRetry, TypeOK
<1>3. ASSUME NEW j \in Jobs, HeartbeatAges(j) PROVE TypeOK'
  <2>1. rows' \in [Jobs -> Row]
    BY SMTT(30), <1>3 DEF HeartbeatAges, TypeOK, Row, Heartbeats
  <2>2. faults' \in Nat
    BY <1>3 DEF HeartbeatAges, Fault, TypeOK
  <2> QED BY <1>3, <2>1, <2>2 DEF HeartbeatAges, TypeOK
<1>4. CASE Republish
  <2>1. queue' \in [Jobs -> Nat]
    BY <1>1, <1>4, TopicsStayBags DEF Republish, TypeOK
  <2> QED BY <1>4, <2>1 DEF Republish, TypeOK
<1>5. CASE CommitRetry
  BY <1>5 DEF CommitRetry, TypeOK
<1>6. CASE RepublishFails
  <2>1. PICK landed, kept \in {0, 1} : /\ queue' = Send(queue, rjob, landed)
                                      /\ retryQ' = Send(retryQ, rjob, kept)
    BY <1>6 DEF RepublishFails
  <2>2. queue' \in [Jobs -> Nat] /\ retryQ' \in [Jobs -> Nat]
    BY <1>1, <1>6, <2>1, TopicsStayBags DEF RepublishFails, TypeOK
  <2>3. /\ rpc' = "idle" /\ rjob' = NoJob
        /\ faults' = faults + 1
        /\ overtaken' = overtaken \cup {rjob}
        /\ UNCHANGED <<rows, sub, dlq, workerVars, reaperVars,
                       fails, succeeded, requeues, republished>>
    BY <1>6 DEF RepublishFails, Fault
  <2>4. rjob \in Jobs
    BY <1>1, <1>6 DEF RepublishFails
  <2> QED BY <2>2, <2>3, <2>4 DEF TypeOK
<1>7. CASE RouterCrashes
  <2>1. retryQ' \in [Jobs -> Nat]
    BY <1>1, <1>7, TopicsStayBags DEF RouterCrashes, TypeOK
  <2> QED BY <1>7, <2>1 DEF RouterCrashes, Fault, TypeOK
<1> QED BY <1>2, <1>3, <1>4, <1>5, <1>6, <1>7 DEF RouterStep

\* So do the steps and the faults of a reaper.
LEMMA ReaperTypeOK ==
    ASSUME TypeOK, NEW r \in Reapers,
           \/ ReaperStep(r) \/ \E j \in Jobs : RequeueFails(r, j)
           \/ PublishRequeuedFails(r) \/ ReaperCrashes(r)
    PROVE  TypeOK'
<1> USE DEF topicVars, workerVars, routerVars, reaperVars, historyVars
<1>1. picked[r] # NoJob => picked[r] \in Jobs
  BY DEF TypeOK
<1>2. CASE ReapStaleJobs(r)
  <2>1. todo' \in [Reapers -> SUBSET Jobs]
    BY <1>2 DEF ReapStaleJobs, TypeOK
  <2> QED BY <1>2, <2>1 DEF ReapStaleJobs, TypeOK
<1>3. ASSUME NEW j \in Jobs, Requeue(r, j) PROVE TypeOK'
  <2>1. rows' \in [Jobs -> Row]
    BY <1>3, QueriesReturnRows DEF Requeue, TypeOK, States
  <2>2. requeues' \in [Jobs -> Nat]
    BY <1>3, TopicsStayBags DEF Requeue, TypeOK
  <2>3. /\ todo' \in [Reapers -> SUBSET Jobs]
        /\ picked' \in [Reapers -> Jobs \cup {NoJob}]
    BY <1>3 DEF Requeue, TypeOK
  <2> QED BY <1>3, <2>1, <2>2, <2>3 DEF Requeue, TypeOK
<1>4. CASE PublishRequeued(r)
  <2>1. queue' \in [Jobs -> Nat] /\ republished' \in [Jobs -> Nat]
    BY <1>1, <1>4, TopicsStayBags DEF PublishRequeued, TypeOK
  <2> QED BY <1>4, <2>1 DEF PublishRequeued, TypeOK
<1>5. ASSUME NEW j \in Jobs, RequeueFails(r, j) PROVE TypeOK'
  <2>1. todo' \in [Reapers -> SUBSET Jobs]
    BY <1>5 DEF RequeueFails, TypeOK
  <2> QED BY <1>5, <2>1 DEF RequeueFails, Fault, TypeOK
<1>6. CASE PublishRequeuedFails(r)
  <2>1. PICK landed \in {0, 1} :
           /\ queue' = Send(queue, picked[r], landed)
           /\ republished' = Send(republished, picked[r], landed)
    BY <1>6 DEF PublishRequeuedFails
  <2>2. queue' \in [Jobs -> Nat] /\ republished' \in [Jobs -> Nat]
    BY <1>1, <1>6, <2>1, TopicsStayBags DEF PublishRequeuedFails, TypeOK
  <2>3. /\ picked' = [picked EXCEPT ![r] = NoJob]
        /\ faults' = faults + 1
        /\ overtaken' = overtaken \cup {picked[r]}
        /\ UNCHANGED <<rows, sub, retryQ, dlq, workerVars, routerVars, todo,
                       fails, succeeded, requeues>>
    BY <1>6 DEF PublishRequeuedFails, Fault
  <2>4. picked[r] \in Jobs
    BY <1>1, <1>6 DEF PublishRequeuedFails
  <2> QED BY <2>2, <2>3, <2>4 DEF TypeOK
<1>7. CASE ReaperCrashes(r)
  BY <1>7 DEF ReaperCrashes, Fault, TypeOK
<1> QED BY <1>2, <1>3, <1>4, <1>5, <1>6, <1>7 DEF ReaperStep

LEMMA NextTypeOK == TypeOK /\ [Next]_vars => TypeOK'
<1> SUFFICES ASSUME TypeOK, [Next]_vars PROVE TypeOK'
  OBVIOUS
<1>1. CASE UNCHANGED vars
  BY <1>1 DEF vars, topicVars, workerVars, routerVars, reaperVars,
              historyVars, TypeOK
<1>2. CASE Next
  BY <1>1, <1>2, SubmitTypeOK, WorkerTypeOK, WorkerFaultTypeOK, RouterTypeOK,
     ReaperTypeOK DEF Next, FaultStep, AllQuiet
<1> QED BY <1>1, <1>2

\* Every variable keeps its type: no step of any process, with any of the
\* faults, takes a copy that is not in a topic or loses track of a job.
THEOREM TypeCorrect == Spec => []TypeOK
<1>1. Init => TypeOK
  BY InitTypeOK
<1>2. TypeOK /\ [Next]_vars => TypeOK'
  BY NextTypeOK
<1> QED BY <1>1, <1>2, PTL DEF Spec

-----------------------------------------------------------------------------
(* No job is lost.  Every step keeps the copies of every job, but for the  *)
(* two that settle one: the handler's success and the publish to jobs.dlq. *)
(* A worker that lost its partition is no owner of its copy, so that what  *)
(* it settles must be known to be owed or settled already: hence the       *)
(* invariant says that a job no copy was published of is with nobody.      *)

\* The faults under which the pipeline is at-least-once: a failed query or
\* publish of a worker is logged and its message committed.
MildFaults == FaultKinds \subseteq {"crash", "rebalance", "stall"}

\* A worker that waits for a message owns what it will fetch.
IdleOwns == \A w \in Workers : wpc[w] = "idle" => owns[w]

\* Of a job that was not published there is no copy, and its row is not one
\* the reaper could pick.
NotBeforePublish ==
    \A j \in Jobs : ~Published(j) =>
        /\ queue[j] = 0 /\ retryQ[j] = 0 /\ rjob # j
        /\ \A w \in Workers : wjob[w] # j
        /\ \A r \in Reapers : picked[r] # j /\ j \notin todo[r]
        /\ rows[j].state # "RUNNING"

IInv == TypeOK /\ IdleOwns /\ NotBeforePublish /\ NoLostJob

\* What a step does to the jobs that are carried and those that are settled:
\* it may add copies, or it settles a job.
KeepsAll ==
    \A j \in Jobs : (Carried(j) => Carried(j)') /\ (Settled(j)' <=> Settled(j))

Settles(j) ==
    /\ Settled(j)'
    /\ \A k \in Jobs \ {j} : /\ Carried(k)' <=> Carried(k)
                             /\ Settled(k)' <=> Settled(k)

\* The worker's next call is in Undecided: it carries its job as before.
LEMMA GotoKeepsAll ==
    ASSUME TypeOK, NEW w \in Workers, NEW pc \in WorkerPcs,
           wpc[w] \in Undecided => pc \in Undecided, Goto(w, pc),
           UNCHANGED <<queue, retryQ, dlq, rpc, rjob, wjob, owns, succeeded>>
    PROVE  KeepsAll
BY DEF KeepsAll, Carried, Settled, Goto, TypeOK

\* A step of the worker that neither settles its job nor fails keeps all.
LEMMA WorkerKeepsAll ==
    ASSUME IInv, NEW w \in Workers,
           \/ WorkerStep(w) /\ ~HandlerSucceeds(w) /\ ~PublishDLQ(w)
           \/ Heartbeat(w)
           \/ \E j \in Jobs : FetchMessage(w, j)
    PROVE  KeepsAll
<1> USE DEF topicVars, workerVars, routerVars, reaperVars, historyVars
<1>0. TypeOK /\ IdleOwns
  BY DEF IInv
<1>1. CASE GetJob(w) \/ HandlerFails(w) \/ Heartbeat(w)
  BY <1>0, <1>1, GotoKeepsAll
     DEF GetJob, HandlerFails, RetryOrDLQ, Heartbeat, Running, Undecided,
         Claimed, WorkerPcs
<1>2. CASE SetRunning(w) \/ SetSuccess(w) \/ SetRetry(w) \/ SetFailed(w)
  BY <1>0, <1>2, GotoKeepsAll
     DEF SetRunning, SetSuccess, SetRetry, SetFailed, Write, Undecided, Running,
         Claimed, WorkerPcs
<1>3. CASE IncrementAttempts(w)
  BY <1>0, <1>3, GotoKeepsAll
     DEF IncrementAttempts, Undecided, Running, Claimed, WorkerPcs
<1>4. CASE PublishRetry(w)
  <2>1. wjob[w] \in Jobs
    BY <1>0, <1>4, WorkerHoldsJob DEF PublishRetry
  <2>2. /\ \A j \in Jobs : retryQ[j] > 0 => retryQ'[j] > 0
        /\ retryQ'[wjob[w]] > 0
    BY <1>0, <1>4, <2>1 DEF PublishRetry, Bump, TypeOK
  <2>3. \A v \in Workers \ {w} : wpc'[v] = wpc[v]
    BY <1>0, <1>4 DEF PublishRetry, Goto, TypeOK
  <2>4. UNCHANGED <<queue, dlq, rpc, rjob, wjob, owns, succeeded>>
    BY <1>4 DEF PublishRetry
  <2> QED BY <2>1, <2>2, <2>3, <2>4 DEF KeepsAll, Carried, Settled
<1>5. CASE CommitMessage(w)
  <2>1. wpc[w] \notin Undecided
    BY <1>5 DEF CommitMessage, Undecided, Running
  <2>2. \A v \in Workers \ {w} : /\ wpc'[v] = wpc[v] /\ wjob'[v] = wjob[v]
                                 /\ owns'[v] = owns[v]
    BY <1>0, <1>5 DEF CommitMessage, Release, TypeOK
  <2> QED BY <1>5, <2>1, <2>2 DEF CommitMessage, KeepsAll, Carried, Settled
<1>6. ASSUME NEW j \in Jobs, FetchMessage(w, j) PROVE KeepsAll
  <2>1. /\ \A v \in Workers \ {w} : wpc'[v] = wpc[v] /\ wjob'[v] = wjob[v]
        /\ wpc'[w] = "getJob" /\ wjob'[w] = j /\ owns[w]
        /\ wpc[w] \notin Undecided
    BY <1>0, <1>6 DEF FetchMessage, Goto, IdleOwns, TypeOK, Undecided, Running
  <2>2. \A k \in Jobs \ {j} : queue'[k] = queue[k]
    BY <1>0, <1>6 DEF FetchMessage, Deliver, Take, TypeOK
  <2>3. Carried(j)'
    BY <1>6, <2>1 DEF FetchMessage, Carried, Undecided
  <2> QED BY <1>6, <2>1, <2>2, <2>3 DEF FetchMessage, KeepsAll, Carried, Settled
<1> QED BY <1>1, <1>2, <1>3, <1>4, <1>5, <1>6 DEF WorkerStep

\* The two steps that settle.
LEMMA OutcomeSettles ==
    ASSUME TypeOK, NEW w \in Workers, HandlerSucceeds(w) \/ PublishDLQ(w)
    PROVE  wjob[w] \in Jobs /\ Settles(wjob[w])
<1> USE DEF topicVars, workerVars, routerVars, reaperVars, historyVars
<1>1. wjob[w] \in Jobs
  BY WorkerHoldsJob DEF HandlerSucceeds, PublishDLQ, Running
<1>2. \A v \in Workers \ {w} : wpc'[v] = wpc[v]
  BY DEF HandlerSucceeds, PublishDLQ, Goto, TypeOK
<1>3. /\ Settled(wjob[w])'
      /\ \A k \in Jobs \ {wjob[w]} : Settled(k)' <=> Settled(k)
  BY <1>1 DEF HandlerSucceeds, PublishDLQ, DeadLetter, Bump, Settled, TypeOK
<1>4. \A k \in Jobs \ {wjob[w]} : Carried(k)' <=> Carried(k)
  BY <1>1, <1>2 DEF HandlerSucceeds, PublishDLQ, Carried
<1> QED BY <1>1, <1>3, <1>4 DEF Settles

\* MildFaults rules these faults out.
LEMMA OnlyMildFaults ==
    ASSUME MildFaults
    PROVE  /\ \A j \in Jobs : ~PublishJobFails(j)
           /\ \A w \in Workers : ~WorkerQueryFails(w) /\ ~WorkerPublishFails(w)
           /\ ~RepublishFails
           /\ \A r \in Reapers : /\ ~PublishRequeuedFails(r)
                                 /\ \A j \in Jobs : ~RequeueFails(r, j)
BY DEF MildFaults, Fault, PublishJobFails, WorkerQueryFails,
       WorkerPublishFails, RepublishFails, PublishRequeuedFails, RequeueFails

\* The faults of MildFaults give copies back, and nobody else drops one.
LEMMA OthersKeepAll ==
    ASSUME MildFaults, IInv,
           \/ FaultStep \/ RouterStep
           \/ \E j \in Jobs : SubmitStep(j) \/ FetchRetry(j) \/ HeartbeatAges(j)
           \/ \E r \in Reapers : ReaperStep(r)
    PROVE  KeepsAll
<1> USE DEF topicVars, workerVars, routerVars, reaperVars, historyVars
<1>0. TypeOK /\ IdleOwns
  BY DEF IInv
<1>1. ASSUME NEW j \in Jobs,
             SubmitStep(j) \/ SetQueuedFails(j) \/ HeartbeatAges(j)
      PROVE  KeepsAll
  <2>1. \A k \in Jobs : queue[k] > 0 => queue'[k] > 0
    BY <1>0, <1>1 DEF SubmitStep, InsertJob, PublishJob, SetQueued, Bump,
                      SetQueuedFails, HeartbeatAges, TypeOK
  <2>2. UNCHANGED <<retryQ, dlq, rpc, rjob, wpc, wjob, owns, succeeded>>
    BY <1>1 DEF SubmitStep, InsertJob, PublishJob, SetQueued, SetQueuedFails,
                HeartbeatAges
  <2> QED BY <2>1, <2>2 DEF KeepsAll, Carried, Settled
<1>2. ASSUME NEW j \in Jobs, FetchRetry(j) PROVE KeepsAll
  <2>1. \A k \in Jobs \ {j} : retryQ'[k] = retryQ[k]
    BY <1>0, <1>2 DEF FetchRetry, Take, TypeOK
  <2>2. rjob # j /\ rpc # "publish"
    BY <1>0, <1>2, PipelineAssumption DEF FetchRetry, TypeOK
  <2> QED BY <1>2, <2>1, <2>2 DEF FetchRetry, KeepsAll, Carried, Settled
<1>3. CASE Republish
  <2>1. /\ rjob \in Jobs /\ queue'[rjob] > 0
        /\ \A k \in Jobs : queue[k] > 0 => queue'[k] > 0
    BY <1>0, <1>3 DEF Republish, Bump, TypeOK
  <2> QED BY <1>3, <2>1 DEF Republish, KeepsAll, Carried, Settled
<1>4. CASE CommitRetry
  BY <1>4 DEF CommitRetry, KeepsAll, Carried, Settled
<1>5. CASE RouterCrashes
  <2>1. /\ rjob \in Jobs /\ retryQ'[rjob] > 0
        /\ \A k \in Jobs : retryQ[k] > 0 => retryQ'[k] > 0
    BY <1>0, <1>5 DEF RouterCrashes, Bump, TypeOK
  <2> QED BY <1>5, <2>1 DEF RouterCrashes, KeepsAll, Carried, Settled
<1>6. ASSUME NEW r \in Reapers, ReaperStep(r) \/ ReaperCrashes(r) PROVE KeepsAll
  <2>1. \A k \in Jobs : queue[k] > 0 => queue'[k] > 0
    BY <1>0, <1>6 DEF ReaperStep, ReapStaleJobs, Requeue, PublishRequeued, Bump,
                      ReaperCrashes, TypeOK
  <2>2. UNCHANGED <<retryQ, dlq, rpc, rjob, wpc, wjob, owns, succeeded>>
    BY <1>6 DEF ReaperStep, ReapStaleJobs, Requeue, PublishRequeued, ReaperCrashes
  <2> QED BY <2>1, <2>2 DEF KeepsAll, Carried, Settled
<1>7. ASSUME NEW w \in Workers, WorkerCrashes(w) \/ Rebalance(w) PROVE KeepsAll
  <2>1. wjob[w] \in Jobs
    BY <1>0, <1>7, WorkerHoldsJob DEF WorkerCrashes, Rebalance
  <2>2. /\ \A k \in Jobs : queue[k] > 0 => queue'[k] > 0
        /\ owns[w] => queue'[wjob[w]] > 0
    BY <1>0, <1>7, <2>1 DEF WorkerCrashes, Rebalance, GiveBack, Send, TypeOK
  <2>3. \A v \in Workers \ {w} : /\ wpc'[v] = wpc[v] /\ wjob'[v] = wjob[v]
                                 /\ owns'[v] = owns[v]
    BY <1>0, <1>7 DEF WorkerCrashes, Rebalance, Release, TypeOK
  <2>4. UNCHANGED <<retryQ, dlq, rpc, rjob, succeeded>>
    BY <1>7 DEF WorkerCrashes, Rebalance
  <2> QED BY <2>1, <2>2, <2>3, <2>4 DEF KeepsAll, Carried, Settled
<1> QED BY <1>1, <1>2, <1>3, <1>4, <1>5, <1>6, <1>7, OnlyMildFaults
        DEF FaultStep, RouterStep

\* Only published jobs are worked on.
LEMMA NextNotBeforePublish ==
    ASSUME MildFaults, IInv, [Next]_vars
    PROVE  NotBeforePublish'
<1> USE DEF topicVars, workerVars, routerVars, reaperVars, historyVars
<1> SUFFICES ASSUME NEW k \in Jobs, ~Published(k)'
             PROVE  /\ queue'[k] = 0 /\ retryQ'[k] = 0 /\ rjob' # k
                    /\ \A w \in Workers : wjob'[w] # k
                    /\ \A r \in Reapers : picked'[r] # k /\ k \notin todo'[r]
                    /\ rows'[k].state # "RUNNING"
  BY DEF NotBeforePublish
<1> DEFINE Free == /\ queue[k] = 0 /\ retryQ[k] = 0 /\ rjob # k
                   /\ \A w \in Workers : wjob[w] # k
                   /\ \A r \in Reapers : picked[r] # k /\ k \notin todo[r]
                   /\ rows[k].state # "RUNNING"
<1>0. TypeOK
  BY DEF IInv
<1>1. ~Published(k) => Free
  BY DEF IInv, NotBeforePublish
<1>2. ASSUME NEW j \in Jobs, SubmitStep(j) \/ SetQueuedFails(j) PROVE Free'
  <2>1. CASE InsertJob(j)
    BY <1>0, <1>1, <2>1 DEF InsertJob, Published, TypeOK, CreateJob
  <2>2. CASE PublishJob(j)
    BY <1>0, <1>1, <2>2 DEF PublishJob, Bump, Published, TypeOK
  <2>3. CASE SetQueued(j)
    BY <1>0, <1>1, <2>3 DEF SetQueued, Set, Published, TypeOK
  <2>4. CASE SetQueuedFails(j)
    BY <1>0, <1>1, <2>4 DEF SetQueuedFails, Published, TypeOK
  <2> QED BY <1>2, <2>1, <2>2, <2>3, <2>4 DEF SubmitStep
<1>3. ASSUME UNCHANGED sub PROVE Free
  BY <1>1, <1>3 DEF Published
<1>4. ASSUME NEW w \in Workers,
             \/ WorkerStep(w) \/ Heartbeat(w) \/ WorkerCrashes(w) \/ Rebalance(w)
             \/ \E j \in Jobs : FetchMessage(w, j)
      PROVE  Free'
  <2> USE <1>0
  <2>1. Free
    BY <1>3, <1>4
       DEF WorkerStep, GetJob, SetRunning, HandlerSucceeds, HandlerFails,
           SetSuccess, PublishRetry, SetRetry, IncrementAttempts, PublishDLQ,
           SetFailed, CommitMessage, Write, Heartbeat, WorkerCrashes, Rebalance,
           FetchMessage
  <2>2. CASE SetRunning(w) \/ SetSuccess(w) \/ SetRetry(w) \/ SetFailed(w)
    <3>1. /\ rows'[k] = rows[k]
          /\ UNCHANGED <<queue, retryQ, rjob, wjob, picked, todo>>
      BY <2>1, <2>2 DEF SetRunning, SetSuccess, SetRetry, SetFailed, Write, Set,
                        TypeOK
    <3> QED BY <2>1, <3>1
  <2>3. CASE GetJob(w) \/ HandlerSucceeds(w) \/ HandlerFails(w) \/ PublishDLQ(w)
    BY <2>1, <2>3 DEF GetJob, HandlerSucceeds, HandlerFails, PublishDLQ
  <2>4. CASE Heartbeat(w) \/ IncrementAttempts(w)
    <3>1. /\ rows'[k] = rows[k]
          /\ UNCHANGED <<queue, retryQ, rjob, wjob, picked, todo>>
      BY <2>1, <2>4 DEF Heartbeat, IncrementAttempts, TypeOK
    <3> QED BY <2>1, <3>1
  <2>5. CASE PublishRetry(w)
    <3>1. /\ retryQ'[k] = retryQ[k]
          /\ UNCHANGED <<rows, queue, rjob, wjob, picked, todo>>
      BY <2>1, <2>5 DEF PublishRetry, Bump, TypeOK
    <3> QED BY <2>1, <3>1
  <2>6. CASE CommitMessage(w) \/ WorkerCrashes(w) \/ Rebalance(w)
    <3>1. /\ queue'[k] = queue[k]
          /\ \A v \in Workers : wjob'[v] \in {wjob[v], NoJob}
          /\ UNCHANGED <<rows, retryQ, rjob, picked, todo>>
      BY <2>1, <2>6 DEF CommitMessage, WorkerCrashes, Rebalance, Release,
                        GiveBack, Send, TypeOK
    <3> QED BY <2>1, <3>1, PipelineAssumption
  <2>7. ASSUME NEW j \in Jobs, FetchMessage(w, j) PROVE Free'
    <3>1. j # k
      BY <2>1, <2>7 DEF FetchMessage, Deliver
    <3> QED BY <2>1, <2>7, <3>1 DEF FetchMessage, Deliver, Take, TypeOK
  <2> QED BY <1>4, <2>2, <2>3, <2>4, <2>5, <2>6, <2>7 DEF WorkerStep
<1>5. ASSUME \/ RouterStep \/ RouterCrashes
             \/ \E j \in Jobs : FetchRetry(j) \/ HeartbeatAges(j)
      PROVE  Free'
  <2> USE <1>0
  <2>1. Free
    BY <1>3, <1>5 DEF RouterStep, Republish, CommitRetry, RouterCrashes,
                      FetchRetry, HeartbeatAges
  <2>2. CASE Republish
    BY <2>1, <2>2 DEF Republish, Bump, TypeOK
  <2>3. CASE CommitRetry
    BY <2>1, <2>3, PipelineAssumption DEF CommitRetry
  <2>4. CASE RouterCrashes
    BY <2>1, <2>4, PipelineAssumption DEF RouterCrashes, Bump, TypeOK
  <2>5. ASSUME NEW j \in Jobs, FetchRetry(j) PROVE Free'
    <3>1. j # k
      BY <2>1, <2>5 DEF FetchRetry
    <3> QED BY <2>1, <2>5, <3>1 DEF FetchRetry, Take, TypeOK
  <2>6. ASSUME NEW j \in Jobs, HeartbeatAges(j) PROVE Free'
    BY <2>1, <2>6 DEF HeartbeatAges, TypeOK, Row
  <2> QED BY <1>5, <2>2, <2>3, <2>4, <2>5, <2>6 DEF RouterStep
<1>6. ASSUME NEW r \in Reapers, ReaperStep(r) \/ ReaperCrashes(r) PROVE Free'
  <2> USE <1>0
  <2>1. Free
    BY <1>3, <1>6 DEF ReaperStep, ReapStaleJobs, Requeue, PublishRequeued,
                      ReaperCrashes
  <2>2. CASE ReapStaleJobs(r)
    BY <2>1, <2>2 DEF ReapStaleJobs, IsStale, TypeOK
  <2>3. ASSUME NEW j \in Jobs, Requeue(r, j) PROVE Free'
    <3>1. j # k
      BY <2>1, <2>3 DEF Requeue
    <3> QED BY <2>1, <2>3, <3>1, PipelineAssumption DEF Requeue, TypeOK
  <2>4. CASE PublishRequeued(r)
    BY <2>1, <2>4, PipelineAssumption DEF PublishRequeued, Bump, TypeOK
  <2>5. CASE ReaperCrashes(r)
    BY <2>1, <2>5, PipelineAssumption DEF ReaperCrashes, TypeOK
  <2> QED BY <1>6, <2>2, <2>3, <2>4, <2>5 DEF ReaperStep
<1>7. CASE UNCHANGED vars
  BY <1>1, <1>7 DEF vars, Published
<1> QED BY <1>2, <1>4, <1>5, <1>6, <1>7, OnlyMildFaults
        DEF Next, FaultStep, AllQuiet

LEMMA NextIdleOwns ==
    ASSUME TypeOK, IdleOwns, [Next]_vars
    PROVE  IdleOwns'
<1> USE DEF topicVars, workerVars, routerVars, reaperVars, historyVars
<1>1. ASSUME UNCHANGED <<wpc, owns>> PROVE IdleOwns'
  BY <1>1 DEF IdleOwns
<1>2. ASSUME NEW w \in Workers, NEW pc, pc # "idle", Goto(w, pc), UNCHANGED owns
      PROVE  IdleOwns'
  BY <1>2 DEF IdleOwns, Goto, TypeOK
<1>3. ASSUME NEW w \in Workers, Release(w) PROVE IdleOwns'
  BY <1>3 DEF IdleOwns, Release, TypeOK
<1>4. ASSUME NEW w \in Workers, WorkerStep(w) PROVE IdleOwns'
  BY <1>2, <1>3, <1>4
     DEF WorkerStep, GetJob, SetRunning, HandlerSucceeds, HandlerFails,
         RetryOrDLQ, SetSuccess, PublishRetry, SetRetry, IncrementAttempts,
         PublishDLQ, SetFailed, CommitMessage, Write
<1>5. ASSUME NEW w \in Workers,
             \/ Heartbeat(w) \/ WorkerQueryFails(w) \/ WorkerPublishFails(w)
             \/ WorkerCrashes(w) \/ \E j \in Jobs : FetchMessage(w, j)
      PROVE  IdleOwns'
  BY <1>2, <1>3, <1>5
     DEF Heartbeat, Running, WorkerQueryFails, WorkerPublishFails,
         OnPublishError, WorkerCrashes, FetchMessage
<1>6. ASSUME NEW w \in Workers, Rebalance(w) PROVE IdleOwns'
  BY <1>6 DEF IdleOwns, Rebalance, TypeOK
<1>7. ASSUME NEW j \in Jobs,
             \/ SubmitStep(j) \/ PublishJobFails(j) \/ SetQueuedFails(j)
             \/ FetchRetry(j) \/ HeartbeatAges(j)
      PROVE  IdleOwns'
  BY <1>1, <1>7 DEF SubmitStep, InsertJob, PublishJob, SetQueued,
                    PublishJobFails, SetQueuedFails, FetchRetry, HeartbeatAges
<1>8. CASE RouterStep \/ RepublishFails \/ RouterCrashes
  BY <1>1, <1>8 DEF RouterStep, Republish, CommitRetry, RepublishFails,
                    RouterCrashes
<1>9. ASSUME NEW r \in Reapers,
             \/ ReaperStep(r) \/ PublishRequeuedFails(r) \/ ReaperCrashes(r)
             \/ \E j \in Jobs : RequeueFails(r, j)
      PROVE  IdleOwns'
  BY <1>1, <1>9 DEF ReaperStep, ReapStaleJobs, Requeue, PublishRequeued,
                    PublishRequeuedFails, ReaperCrashes, RequeueFails
<1>10. CASE UNCHANGED vars
  BY <1>1, <1>10 DEF vars
<1> QED BY <1>4, <1>5, <1>6, <1>7, <1>8, <1>9, <1>10 DEF Next, FaultStep, AllQuiet

\* A step keeps every job, or it settles one that was owed or settled before.
LEMMA NextServes ==
    ASSUME MildFaults, IInv, [Next]_vars
    PROVE  \/ KeepsAll
           \/ \E j \in Jobs : Settles(j) /\ (Carried(j) \/ Settled(j))
<1>1. CASE UNCHANGED vars
  BY <1>1 DEF vars, topicVars, workerVars, routerVars, reaperVars, historyVars,
              KeepsAll, Carried, Settled
<1>2. ASSUME NEW w \in Workers, HandlerSucceeds(w) \/ PublishDLQ(w)
      PROVE  \E j \in Jobs : Settles(j) /\ (Carried(j) \/ Settled(j))
  <2>1. wjob[w] \in Jobs /\ Settles(wjob[w])
    BY <1>2, OutcomeSettles DEF IInv
  <2>2. Carried(wjob[w]) \/ Settled(wjob[w])
    BY <2>1 DEF IInv, NotBeforePublish, NoLostJob
  <2> QED BY <2>1, <2>2
<1>3. ASSUME NEW w \in Workers,
             \/ WorkerStep(w) \/ Heartbeat(w)
             \/ \E j \in Jobs : FetchMessage(w, j)
      PROVE  \/ KeepsAll
             \/ \E j \in Jobs : Settles(j) /\ (Carried(j) \/ Settled(j))
  BY <1>2, <1>3, WorkerKeepsAll
<1> QED BY <1>1, <1>3, OthersKeepAll DEF Next, AllQuiet

\* What is published was published before, or its copy has just been sent.
LEMMA NextPublished ==
    ASSUME TypeOK, MildFaults, [Next]_vars, NEW j \in Jobs, Published(j)'
    PROVE  Published(j) \/ Carried(j)'
<1> USE DEF topicVars, workerVars, routerVars, reaperVars, historyVars
<1>1. CASE sub'[j] = sub[j]
  BY <1>1 DEF Published
<1>2. ASSUME NEW k \in Jobs,
             SubmitStep(k) \/ PublishJobFails(k) \/ SetQueuedFails(k)
      PROVE  Published(j) \/ Carried(j)'
  <2>1. CASE InsertJob(k)
    BY <1>1, <2>1 DEF InsertJob, Published, TypeOK
  <2>2. CASE PublishJob(k)
    BY <1>1, <2>2 DEF PublishJob, Bump, Carried, TypeOK
  <2>3. CASE SetQueued(k)
    BY <1>1, <2>3 DEF SetQueued, Published, TypeOK
  <2>4. CASE SetQueuedFails(k)
    BY <1>1, <2>4 DEF SetQueuedFails, Published, TypeOK
  <2> QED BY <1>2, <2>1, <2>2, <2>3, <2>4, OnlyMildFaults DEF SubmitStep
<1>3. ASSUME UNCHANGED sub PROVE Published(j)
  BY <1>3 DEF Published
<1>4. ASSUME NEW w \in Workers,
             \/ WorkerStep(w) \/ Heartbeat(w) \/ WorkerCrashes(w) \/ Rebalance(w)
             \/ \E k \in Jobs : FetchMessage(w, k)
      PROVE  Published(j)
  BY <1>3, <1>4
     DEF WorkerStep, GetJob, SetRunning, HandlerSucceeds, HandlerFails,
         SetSuccess, PublishRetry, SetRetry, IncrementAttempts, PublishDLQ,
         SetFailed, CommitMessage, Write, Heartbeat, WorkerCrashes, Rebalance,
         FetchMessage
<1>5. ASSUME \/ RouterStep \/ RouterCrashes
             \/ \E k \in Jobs : FetchRetry(k) \/ HeartbeatAges(k)
             \/ \E r \in Reapers : ReaperStep(r) \/ ReaperCrashes(r)
             \/ UNCHANGED vars
      PROVE  Published(j)
  BY <1>3, <1>5
     DEF RouterStep, Republish, CommitRetry, RouterCrashes, FetchRetry,
         HeartbeatAges, ReaperStep, ReapStaleJobs, Requeue, PublishRequeued,
         ReaperCrashes, vars
<1> QED BY <1>2, <1>4, <1>5, OnlyMildFaults DEF Next, FaultStep, AllQuiet

LEMMA InitIInv == Init => IInv
<1> SUFFICES ASSUME Init PROVE IInv
  OBVIOUS
<1>1. TypeOK
  BY InitTypeOK
<1>2. IdleOwns /\ NoLostJob
  BY DEF Init, IdleOwns, NoLostJob, Published
<1>3. NotBeforePublish
  BY PipelineAssumption DEF Init, NotBeforePublish, NoRow
<1> QED BY <1>1, <1>2, <1>3 DEF IInv

LEMMA NextIInv ==
    ASSUME MildFaults, IInv, [Next]_vars
    PROVE  IInv'
<1>1. TypeOK' /\ IdleOwns' /\ NotBeforePublish'
  BY NextTypeOK, NextIdleOwns, NextNotBeforePublish DEF IInv
<1>2. ASSUME NEW j \in Jobs, Published(j)' PROVE Settled(j)' \/ Carried(j)'
  <2>1. Published(j) \/ Carried(j)'
    BY <1>2, NextPublished DEF IInv
  <2>2. CASE KeepsAll
    BY <2>1, <2>2 DEF KeepsAll, IInv, NoLostJob
  <2>3. ASSUME NEW k \in Jobs, Settles(k) PROVE Settled(j)' \/ Carried(j)'
    BY <2>1, <2>3 DEF Settles, IInv, NoLostJob
  <2> QED BY <2>2, <2>3, NextServes
<1> QED BY <1>1, <1>2 DEF IInv, NoLostJob

\* Whatever crashes, rebalances, stalls and reapers do, and for any number of
\* jobs, workers and retries, a published job that has no outcome yet is still
\* in a topic or with a process that owns its copy.
THEOREM NoJobIsLost ==
    ASSUME MildFaults
    PROVE  Spec => []NoLostJob
<1>1. Init => IInv
  BY InitIInv
<1>2. IInv /\ [Next]_vars => IInv'
  BY NextIInv
<1>3. IInv => NoLostJob
  BY DEF IInv
<1> QED BY <1>1, <1>2, <1>3, PTL DEF Spec

\* One step of the pipeline is one step of JobService, or none.
LEMMA NextRefines ==
    ASSUME MildFaults, IInv, [Next]_vars
    PROVE  [Service!Next]_(Service!serviceVars)
<1> DEFINE owed == {j \in Jobs : Carried(j)}
           settled == {j \in Jobs : Settled(j)}
<1>1. CASE KeepsAll
  <2>1. settled' = settled /\ owed \subseteq owed'
    BY <1>1 DEF KeepsAll
  <2>2. owed' \in SUBSET Jobs /\ owed' = owed \cup owed'
    BY <2>1
  <2>3. Service!Owe
    BY <2>1, <2>2 DEF Service!Owe
  <2> QED BY <2>3 DEF Service!Next
<1>2. ASSUME NEW j \in Jobs, Settles(j), Carried(j) \/ Settled(j)
      PROVE  [Service!Next]_(Service!serviceVars)
  <2>1. settled' = settled \cup {j}
    BY <1>2 DEF Settles
  <2>2. owed' \ {j} = owed \ {j}
    BY <1>2 DEF Settles
  <2>3. CASE Carried(j) /\ ~Settled(j)
    <3>1. j \in owed \ settled /\ owed' \in {owed, owed \ {j}}
      BY <2>2, <2>3
    <3> QED BY <2>1, <3>1 DEF Service!Settle, Service!Next
  <2>4. CASE Settled(j)
    <3>1. settled' = settled
      BY <2>1, <2>4
    <3>2. CASE owed' \subseteq owed
      <4>1. owed' = owed \/ (owed' = owed \ {j} /\ j \in owed)
        BY <2>2, <3>2
      <4> QED BY <2>4, <3>1, <4>1
              DEF Service!Discharge, Service!Next, Service!serviceVars
    <3>3. CASE owed \subseteq owed'
      <4>1. owed' \in SUBSET Jobs /\ owed' = owed \cup owed'
        BY <3>3
      <4> QED BY <3>1, <4>1 DEF Service!Owe, Service!Next
    <3> QED BY <2>2, <3>2, <3>3
  <2> QED BY <1>2, <2>3, <2>4
<1> QED BY <1>1, <1>2, NextServes

\* The pipeline implements the steps of the abstract service: what it owes is
\* given up only with an outcome, and outcomes are never taken back.
THEOREM PipelineServes ==
    ASSUME MildFaults
    PROVE  Spec => Service!Spec
<1>1. Init => Service!Init
  <2> SUFFICES ASSUME Init, NEW j \in Jobs PROVE ~Carried(j) /\ ~Settled(j)
    BY DEF Service!Init
  <2> QED BY PipelineAssumption DEF Init, Carried, Settled
<1>2. Init => IInv
  BY InitIInv
<1>3. IInv /\ [Next]_vars => IInv'
  BY NextIInv
<1>4. IInv /\ [Next]_vars => [Service!Next]_(Service!serviceVars)
  BY NextRefines
<1> QED BY <1>1, <1>2, <1>3, <1>4, PTL DEF Spec, Service!Spec
=============================================================================
