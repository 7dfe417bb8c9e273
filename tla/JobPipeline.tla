---------------------------- MODULE JobPipeline ----------------------------
(***************************************************************************)
(* The life of jobs of one tier, from the INSERT of the row to the last    *)
(* copy of their message: the submit path of the API (cmd/api), the        *)
(* workers of the tier (internal/worker), the retry router                 *)
(* (cmd/retry-router), the reaper (cmd/reaper), the jobs table and the     *)
(* Kafka topics jobs.<tier>, jobs.<tier>.retry and jobs.dlq.               *)
(*                                                                         *)
(* A process takes one step per call it makes to Postgres or Kafka, so     *)
(* that what others do between two calls is visible.  A topic is a bag of  *)
(* the copies no consumer holds; a partition's order is not modelled (any  *)
(* copy may be next), and offsets are in RetryRouter.                      *)
(*                                                                         *)
(* A definition marked "seeded bug" is a form the one after it could have  *)
(* had.  It is used nowhere: put in that one's place, it must break one of *)
(* the properties, or the property would say nothing of the code.          *)
(***************************************************************************)
EXTENDS JobStore, FiniteSets

CONSTANTS Jobs, Workers, Reapers,
          NoJob,        \* "no job", distinct from every job
          MaxAttempts,  \* jobs.max_attempts, 3 in cmd/api and jobsubmitter
          MaxBatch,     \* the reaper's LIMIT, 50 in cmd/reaper
          FaultKinds,   \* which faults may happen
          MaxFaults     \* bound: how many of them happen in a behaviour

ASSUME PipelineAssumption ==
    /\ NoJob \notin Jobs
    /\ IsFiniteSet(Workers) /\ IsFiniteSet(Reapers)
    /\ MaxAttempts \in Nat \ {0}
    /\ MaxBatch \in Nat \ {0}
    /\ MaxFaults \in Nat
    /\ FaultKinds \subseteq {"crash", "rebalance", "publish", "db", "stall"}

VARIABLES
    rows,        \* the jobs table
    sub,         \* where the API request that submits a job stands
    queue,       \* copies in jobs.<tier> that no consumer holds
    retryQ,      \* copies in jobs.<tier>.retry that the router does not hold
    dlq,         \* copies in jobs.dlq
    wpc, wjob,   \* a worker's next call, and the job of the message it holds
    seen,        \* job.attempts as the worker's GetJob read it
    owns,        \* the worker still owns the partition of that message
    rpc, rjob,   \* the router's next call, and the job of its message
    todo,        \* rows a reaper's scan returned and it has not requeued yet
    picked,      \* the row a reaper has requeued and not published yet
    faults,      \* faults so far
    fails, succeeded, requeues, republished, overtaken \* history, see below

workerVars  == <<wpc, wjob, seen, owns>>
routerVars  == <<rpc, rjob>>
reaperVars  == <<todo, picked>>
topicVars   == <<queue, retryQ, dlq>>
\* Read by no action: handler failures, handler successes, RequeueJobs and the
\* reaper's publishes per job, and the jobs whose QUEUED or RETRY write came
\* after the copy published before it was already at work, or that missed a
\* write or a publish because it failed or its caller died.
historyVars == <<fails, succeeded, requeues, republished, overtaken>>
vars == <<rows, sub, topicVars, workerVars, routerVars, reaperVars, faults,
          historyVars>>

Bump(f, x) == [f EXCEPT ![x] = @ + 1]
Take(f, x) == [f EXCEPT ![x] = @ - 1]
Send(f, x, n) == [f EXCEPT ![x] = @ + n]

\* The pcs at which the handler is running, and those between the claim of the
\* row (RUNNING) and the last write of the worker.
Running == {"handling", "beating"}
Claimed == Running \cup {"setSuccess", "publishRetry", "setRetry",
                         "increment", "publishDLQ", "setFailed"}
WorkerPcs == {"idle", "getJob", "setRunning", "commit"} \cup Claimed

Fault(kind) == /\ kind \in FaultKinds
               /\ faults < MaxFaults
               /\ faults' = faults + 1

Set(j, s) == rows' = [rows EXCEPT ![j] = UpdateJobState(@, s)]

ReleaseKeepsJob(w) == \* seeded bug: the loop keeps the finished job
    /\ wpc' = [wpc EXCEPT ![w] = "idle"]
    /\ UNCHANGED <<wjob, seen, owns>>

\* The worker is back in its loop: the locals of processOne are gone.
Release(w) ==
    /\ wpc' = [wpc EXCEPT ![w] = "idle"]
    /\ wjob' = [wjob EXCEPT ![w] = NoJob]
    /\ seen' = [seen EXCEPT ![w] = 0]
    /\ owns' = [owns EXCEPT ![w] = TRUE]

Goto(w, pc) == wpc' = [wpc EXCEPT ![w] = pc]

\* Write(w, from, to, s): a state write of the worker and its next call.
Write(w, from, to, s) ==
    /\ wpc[w] = from
    /\ Goto(w, to)
    /\ Set(wjob[w], s)
    /\ UNCHANGED <<sub, topicVars, wjob, seen, owns, routerVars, reaperVars,
                   faults>>

-----------------------------------------------------------------------------
(* The submit path after the idempotency check: INSERT, publish, QUEUED.   *)

InsertJob(j) ==
    /\ sub[j] = "new"
    /\ sub' = [sub EXCEPT ![j] = "publish"]
    /\ rows' = [rows EXCEPT ![j] = CreateJob]
    /\ UNCHANGED <<topicVars, workerVars, routerVars, reaperVars, faults,
                   historyVars>>

PublishJob(j) ==
    /\ sub[j] = "publish"
    /\ sub' = [sub EXCEPT ![j] = "setQueued"]
    /\ queue' = Bump(queue, j)
    /\ UNCHANGED <<rows, retryQ, dlq, workerVars, routerVars, reaperVars,
                   faults, historyVars>>

SetQueued(j) ==
    /\ sub[j] = "setQueued"
    /\ sub' = [sub EXCEPT ![j] = "answered"]
    /\ Set(j, "QUEUED")
    /\ overtaken' = IF rows[j].state = "ACCEPTED" THEN overtaken
                                                  ELSE overtaken \cup {j}
    /\ UNCHANGED <<topicVars, workerVars, routerVars, reaperVars, faults,
                   fails, succeeded, requeues, republished>>

\* The broker reports an error, and may have appended the message all the
\* same: the row stays ACCEPTED and the client is told so.
PublishJobFails(j) ==
    /\ sub[j] = "publish"
    /\ Fault("publish")
    /\ sub' = [sub EXCEPT ![j] = "unpublished"]
    /\ \E landed \in {0, 1} : queue' = Send(queue, j, landed)
    /\ UNCHANGED <<rows, retryQ, dlq, workerVars, routerVars, reaperVars,
                   historyVars>>

\* The QUEUED write fails, or the API stops before it: nobody writes it later.
SetQueuedFails(j) ==
    /\ sub[j] = "setQueued"
    /\ Fault("crash") \/ Fault("db")
    /\ sub' = [sub EXCEPT ![j] = "answered"]
    /\ UNCHANGED <<rows, topicVars, workerVars, routerVars, reaperVars,
                   historyVars>>

-----------------------------------------------------------------------------
(* The worker: Run, processOne, sendToRetry, sendToDLQ, startHeartbeat.    *)

DeliverToEach(j) == UNCHANGED queue \* seeded bug: consumers share no group
Deliver(j) == queue[j] > 0 /\ queue' = Take(queue, j)

FetchMessage(w, j) ==
    /\ wpc[w] = "idle"
    /\ Deliver(j)
    /\ Goto(w, "getJob")
    /\ wjob' = [wjob EXCEPT ![w] = j]
    /\ UNCHANGED <<rows, sub, retryQ, dlq, seen, owns, routerVars, reaperVars,
                   faults, historyVars>>

\* attempts is read here, once, and used after the handler has returned.
GetJob(w) ==
    /\ wpc[w] = "getJob"
    /\ Goto(w, "setRunning")
    /\ seen' = [seen EXCEPT ![w] = rows[wjob[w]].attempts]
    /\ UNCHANGED <<rows, sub, topicVars, wjob, owns, routerVars, reaperVars,
                   faults, historyVars>>

SetRunning(w) ==
    /\ Write(w, "setRunning", "handling", "RUNNING")
    /\ UNCHANGED historyVars

\* The ticker's first beat comes one interval after the handler started.  A
\* beat in flight when stopHB cancels it may still reach the row.
Heartbeat(w) ==
    /\ wpc[w] \in Running \cup {"setSuccess", "publishRetry", "publishDLQ"}
    /\ rows' = [rows EXCEPT ![wjob[w]] = Beat(@)]
    /\ Goto(w, IF wpc[w] \in Running THEN "beating" ELSE wpc[w])
    /\ UNCHANGED <<sub, topicVars, wjob, seen, owns, routerVars, reaperVars,
                   faults, historyVars>>

HandlerSucceeds(w) ==
    /\ wpc[w] \in Running
    /\ Goto(w, "setSuccess")
    /\ succeeded' = Bump(succeeded, wjob[w])
    /\ UNCHANGED <<rows, sub, topicVars, wjob, seen, owns, routerVars, reaperVars,
                   faults, fails, requeues, republished, overtaken>>

RetryOrDLQEarly(attempts) == \* seeded bug: the budget is one short
    IF attempts + 2 >= MaxAttempts THEN "publishDLQ" ELSE "publishRetry"
RetryOrDLQ(attempts) ==
    IF attempts + 1 >= MaxAttempts THEN "publishDLQ" ELSE "publishRetry"

HandlerFails(w) ==
    /\ wpc[w] \in Running
    /\ Goto(w, RetryOrDLQ(seen[w]))
    /\ fails' = Bump(fails, wjob[w])
    /\ UNCHANGED <<rows, sub, topicVars, wjob, seen, owns, routerVars, reaperVars,
                   faults, succeeded, requeues, republished, overtaken>>

SetSuccess(w) ==
    /\ Write(w, "setSuccess", "commit", "SUCCESS")
    /\ UNCHANGED historyVars

\* sendToRetry: publish first, then the row.
PublishRetry(w) ==
    /\ wpc[w] = "publishRetry"
    /\ Goto(w, "setRetry")
    /\ retryQ' = Bump(retryQ, wjob[w])
    /\ UNCHANGED <<rows, sub, queue, dlq, wjob, seen, owns, routerVars,
                   reaperVars, faults, historyVars>>

OthersClaim(w) ==
    \E v \in Workers \ {w} : wjob[v] = wjob[w] /\ wpc[v] \in Claimed

SetRetry(w) ==
    /\ Write(w, "setRetry", "increment", "RETRY")
    /\ overtaken' = IF rows[wjob[w]].state = "RUNNING" /\ ~OthersClaim(w)
                    THEN overtaken ELSE overtaken \cup {wjob[w]}
    /\ UNCHANGED <<fails, succeeded, requeues, republished>>

IncrementAttempts(w) ==
    /\ wpc[w] = "increment"
    /\ Goto(w, "commit")
    /\ rows' = [rows EXCEPT ![wjob[w]] = IncrementJobAttempts(@)]
    /\ UNCHANGED <<sub, topicVars, wjob, seen, owns, routerVars, reaperVars,
                   faults, historyVars>>

DeadLetterNowhere(j) == UNCHANGED dlq \* seeded bug: only the row is marked
DeadLetter(j) == dlq' = Bump(dlq, j)

PublishDLQ(w) ==
    /\ wpc[w] = "publishDLQ"
    /\ Goto(w, "setFailed")
    /\ DeadLetter(wjob[w])
    /\ UNCHANGED <<rows, sub, queue, retryQ, wjob, seen, owns, routerVars,
                   reaperVars, faults, historyVars>>

SetFailed(w) ==
    /\ Write(w, "setFailed", "commit", "FAILED")
    /\ UNCHANGED historyVars

\* After processOne, whatever it returned: the copy is consumed.  A commit of
\* a worker that lost the partition has no effect, its copy is elsewhere.
CommitMessage(w) ==
    /\ wpc[w] = "commit"
    /\ Release(w)
    /\ UNCHANGED <<rows, sub, topicVars, routerVars, reaperVars, faults,
                   historyVars>>

\* A query fails: the error is logged or returned, and Run commits.
WorkerQueryFails(w) ==
    /\ wpc[w] \in {"getJob", "setRunning", "setSuccess", "setRetry",
                   "increment", "setFailed"}
    /\ Fault("db")
    /\ Goto(w, "commit")
    /\ overtaken' = overtaken \cup {wjob[w]}
    /\ UNCHANGED <<rows, sub, topicVars, wjob, seen, owns, routerVars,
                   reaperVars, fails, succeeded, requeues, republished>>

OnPublishErrorGoOn(w) == \* seeded bug: the error is not looked at
    Goto(w, IF wpc[w] = "publishRetry" THEN "setRetry" ELSE "setFailed")
OnPublishError(w) == Goto(w, "commit")

\* A publish fails (it may have been appended): logged, and Run commits.
WorkerPublishFails(w) ==
    /\ wpc[w] \in {"publishRetry", "publishDLQ"}
    /\ Fault("publish")
    /\ OnPublishError(w)
    /\ \E landed \in {0, 1} :
          IF wpc[w] = "publishRetry"
          THEN retryQ' = Send(retryQ, wjob[w], landed) /\ dlq' = dlq
          ELSE dlq' = Send(dlq, wjob[w], landed) /\ retryQ' = retryQ
    /\ overtaken' = overtaken \cup {wjob[w]}
    /\ UNCHANGED <<rows, sub, queue, wjob, seen, owns, routerVars, reaperVars,
                   fails, succeeded, requeues, republished>>

GiveBackNothing(w) == UNCHANGED queue \* seeded bug: committed at the fetch

\* The copy goes back to the topic: its offset was not committed.
GiveBack(w) == queue' = Send(queue, wjob[w], IF owns[w] THEN 1 ELSE 0)

\* The worker dies (or is told to stop: its context is cancelled, so are its
\* calls); it restarts with nothing in memory.
WorkerCrashes(w) ==
    /\ wpc[w] # "idle"
    /\ Fault("crash")
    /\ GiveBack(w)
    /\ Release(w)
    /\ UNCHANGED <<rows, sub, retryQ, dlq, routerVars, reaperVars, historyVars>>

\* The group rebalances while the worker holds a message (or its commit fails
\* and it then loses the partition): the new owner gets the message too.
Rebalance(w) ==
    /\ wpc[w] # "idle"
    /\ owns[w]
    /\ Fault("rebalance")
    /\ GiveBack(w)
    /\ owns' = [owns EXCEPT ![w] = FALSE]
    /\ UNCHANGED <<rows, sub, retryQ, dlq, wpc, wjob, seen, routerVars,
                   reaperVars, historyVars>>

\* heartbeat_at passes the staleness interval.  A worker renews it six times
\* in an interval from its first beat to the end of its handler, so that this
\* takes a stall of the worker, or of its calls after the handler; a worker
\* that has not beaten yet may find there what an earlier run left.
HeartbeatAges(j) ==
    /\ rows[j].heartbeat = "fresh"
    /\ IF \E w \in Workers : wjob[w] = j /\ wpc[w] \in Claimed \ {"handling"}
       THEN Fault("stall") ELSE UNCHANGED faults
    /\ rows' = [rows EXCEPT ![j].heartbeat = "stale"]
    /\ UNCHANGED <<sub, topicVars, workerVars, routerVars, reaperVars,
                   historyVars>>

-----------------------------------------------------------------------------
(* The retry router: drain.  The wait until retry-at is the time between   *)
(* the fetch and the publish; it may be zero, the header is cut to seconds.*)

FetchRetry(j) ==
    /\ rpc = "idle"
    /\ retryQ[j] > 0
    /\ retryQ' = Take(retryQ, j)
    /\ rpc' = "publish" /\ rjob' = j
    /\ UNCHANGED <<rows, sub, queue, dlq, workerVars, reaperVars, faults,
                   historyVars>>

Republish ==
    /\ rpc = "publish"
    /\ rpc' = "commit" /\ rjob' = rjob
    /\ queue' = Bump(queue, rjob)
    /\ UNCHANGED <<rows, sub, retryQ, dlq, workerVars, reaperVars, faults,
                   historyVars>>

CommitRetryQueued == \* seeded bug: QUEUED written after the publish
    /\ rpc = "commit"
    /\ rpc' = "idle" /\ rjob' = NoJob
    /\ Set(rjob, "QUEUED")
    /\ UNCHANGED <<sub, topicVars, workerVars, reaperVars, faults, historyVars>>

CommitRetry ==
    /\ rpc = "commit"
    /\ rpc' = "idle" /\ rjob' = NoJob
    /\ UNCHANGED <<rows, sub, topicVars, workerVars, reaperVars, faults,
                   historyVars>>

\* "continue" without a commit: the message is fetched again only if the
\* router restarts before it commits a later one.
RepublishFails ==
    /\ rpc = "publish"
    /\ Fault("publish")
    /\ rpc' = "idle" /\ rjob' = NoJob
    /\ \E landed, kept \in {0, 1} : /\ queue' = Send(queue, rjob, landed)
                                    /\ retryQ' = Send(retryQ, rjob, kept)
    /\ overtaken' = overtaken \cup {rjob}
    /\ UNCHANGED <<rows, sub, dlq, workerVars, reaperVars,
                   fails, succeeded, requeues, republished>>

RouterCrashes ==
    /\ rpc # "idle"
    /\ Fault("crash")
    /\ rpc' = "idle" /\ rjob' = NoJob
    /\ retryQ' = Bump(retryQ, rjob)
    /\ UNCHANGED <<rows, sub, queue, dlq, workerVars, reaperVars, historyVars>>

-----------------------------------------------------------------------------
(* The reaper: scanOnce and requeue.                                       *)

ReaperIdle(r) == todo[r] = {} /\ picked[r] = NoJob

\* The scan: at most MaxBatch stale rows; SKIP LOCKED leaves out a row that
\* another query is writing at that moment.
ReapStaleJobs(r) ==
    /\ ReaperIdle(r)
    /\ \E batch \in SUBSET {j \in Jobs : IsStale(rows[j])} :
          /\ batch # {}
          /\ Cardinality(batch) <= MaxBatch
          /\ todo' = [todo EXCEPT ![r] = batch]
    /\ UNCHANGED <<rows, sub, topicVars, workerVars, routerVars, picked, faults,
                   historyVars>>

ExhaustedSoon(row) == row.attempts >= MaxAttempts \* seeded bug
Exhausted(row) == row.attempts > MaxAttempts

\* The row goes to QUEUED; it is published only if attempts allow it.
Requeue(r, j) ==
    /\ picked[r] = NoJob
    /\ j \in todo[r]
    /\ rows' = [rows EXCEPT ![j] = RequeueJob(@)]
    /\ todo' = [todo EXCEPT ![r] = @ \ {j}]
    /\ picked' = [picked EXCEPT ![r] =
                     IF Exhausted(RequeueJob(rows[j])) THEN NoJob ELSE j]
    /\ requeues' = Bump(requeues, j)
    /\ UNCHANGED <<sub, topicVars, workerVars, routerVars, faults, fails,
                   succeeded, republished, overtaken>>

PublishRequeued(r) ==
    /\ picked[r] # NoJob
    /\ queue' = Bump(queue, picked[r])
    /\ republished' = Bump(republished, picked[r])
    /\ picked' = [picked EXCEPT ![r] = NoJob]
    /\ UNCHANGED <<rows, sub, retryQ, dlq, workerVars, routerVars, todo, faults,
                   fails, succeeded, requeues, overtaken>>

\* RequeueJob fails for a row: logged, on to the next one.
RequeueFails(r, j) ==
    /\ picked[r] = NoJob
    /\ j \in todo[r]
    /\ Fault("db")
    /\ todo' = [todo EXCEPT ![r] = @ \ {j}]
    /\ UNCHANGED <<rows, sub, topicVars, workerVars, routerVars, picked,
                   historyVars>>

PublishRequeuedFails(r) ==
    /\ picked[r] # NoJob
    /\ Fault("publish")
    /\ \E landed \in {0, 1} :
          /\ queue' = Send(queue, picked[r], landed)
          /\ republished' = Send(republished, picked[r], landed)
    /\ picked' = [picked EXCEPT ![r] = NoJob]
    /\ overtaken' = overtaken \cup {picked[r]}
    /\ UNCHANGED <<rows, sub, retryQ, dlq, workerVars, routerVars, todo,
                   fails, succeeded, requeues>>

ReaperCrashes(r) ==
    /\ ~ReaperIdle(r)
    /\ Fault("crash")
    /\ todo' = [todo EXCEPT ![r] = {}]
    /\ picked' = [picked EXCEPT ![r] = NoJob]
    /\ overtaken' = overtaken \cup ({picked[r]} \ {NoJob})
    /\ UNCHANGED <<rows, sub, topicVars, workerVars, routerVars,
                   fails, succeeded, requeues, republished>>

-----------------------------------------------------------------------------
(* The system.                                                             *)

Init ==
    /\ rows = [j \in Jobs |-> NoRow]
    /\ sub = [j \in Jobs |-> "new"]
    /\ queue = [j \in Jobs |-> 0]
    /\ retryQ = [j \in Jobs |-> 0]
    /\ dlq = [j \in Jobs |-> 0]
    /\ wpc = [w \in Workers |-> "idle"]
    /\ wjob = [w \in Workers |-> NoJob]
    /\ seen = [w \in Workers |-> 0]
    /\ owns = [w \in Workers |-> TRUE]
    /\ rpc = "idle"
    /\ rjob = NoJob
    /\ todo = [r \in Reapers |-> {}]
    /\ picked = [r \in Reapers |-> NoJob]
    /\ faults = 0
    /\ fails = [j \in Jobs |-> 0]
    /\ succeeded = [j \in Jobs |-> 0]
    /\ requeues = [j \in Jobs |-> 0]
    /\ republished = [j \in Jobs |-> 0]
    /\ overtaken = {}

SubmitStep(j) == InsertJob(j) \/ PublishJob(j) \/ SetQueued(j)

WorkerStep(w) ==
    \/ GetJob(w) \/ SetRunning(w) \/ HandlerSucceeds(w) \/ HandlerFails(w)
    \/ SetSuccess(w) \/ PublishRetry(w) \/ SetRetry(w) \/ IncrementAttempts(w)
    \/ PublishDLQ(w) \/ SetFailed(w) \/ CommitMessage(w)

RouterStep == Republish \/ CommitRetry

ReaperStep(r) ==
    ReapStaleJobs(r) \/ (\E j \in Jobs : Requeue(r, j)) \/ PublishRequeued(r)

FaultStep ==
    \/ \E j \in Jobs : PublishJobFails(j) \/ SetQueuedFails(j)
    \/ \E w \in Workers : \/ WorkerQueryFails(w) \/ WorkerPublishFails(w)
                          \/ WorkerCrashes(w) \/ Rebalance(w)
    \/ RepublishFails \/ RouterCrashes
    \/ \E r \in Reapers : \/ \E j \in Jobs : RequeueFails(r, j)
                          \/ PublishRequeuedFails(r) \/ ReaperCrashes(r)

Quiet(j) == /\ queue[j] = 0 /\ retryQ[j] = 0 /\ rjob # j
            /\ sub[j] \in {"answered", "unpublished"}
            /\ \A w \in Workers : wjob[w] # j
            /\ \A r \in Reapers : picked[r] # j /\ j \notin todo[r]

\* No message is left and nobody is at work: only then may the system stop.
AllQuiet == (\A j \in Jobs : Quiet(j)) /\ UNCHANGED vars

Next ==
    \/ \E j \in Jobs : SubmitStep(j) \/ FetchRetry(j) \/ HeartbeatAges(j)
    \/ \E w \in Workers : \/ WorkerStep(w) \/ Heartbeat(w)
                          \/ \E j \in Jobs : FetchMessage(w, j)
    \/ RouterStep
    \/ \E r \in Reapers : ReaperStep(r)
    \/ FaultStep
    \/ AllQuiet

Spec == Init /\ [][Next]_vars

\* What the processes' loops guarantee: one that can take its next call takes
\* it (handlers bound their HTTP calls with a timeout), and a topic's order
\* brings each copy to the front however often consumers are busy (strong).
\* Nothing is assumed of clients, faults, heartbeats or the reaper's scan.
Fairness ==
    /\ \A j \in Jobs : /\ WF_vars(PublishJob(j) \/ SetQueued(j))
                       /\ SF_vars(\E w \in Workers : FetchMessage(w, j))
                       /\ SF_vars(FetchRetry(j))
    /\ \A w \in Workers : WF_vars(WorkerStep(w))
    /\ WF_vars(RouterStep)
    /\ \A r \in Reapers : WF_vars(\E j \in Jobs : Requeue(r, j))
                          /\ WF_vars(PublishRequeued(r))

FairSpec == Spec /\ Fairness

-----------------------------------------------------------------------------
(* Invariants.                                                             *)

\* Every variable has its type.
TypeOK ==
    /\ rows \in [Jobs -> Row]
    /\ sub \in [Jobs -> {"new", "publish", "setQueued", "answered",
                          "unpublished"}]
    /\ queue \in [Jobs -> Nat] /\ retryQ \in [Jobs -> Nat] /\ dlq \in [Jobs -> Nat]
    /\ wpc \in [Workers -> WorkerPcs]
    /\ wjob \in [Workers -> Jobs \cup {NoJob}]
    /\ \A w \in Workers : wjob[w] = NoJob <=> wpc[w] = "idle"
    /\ seen \in [Workers -> Nat]
    /\ owns \in [Workers -> BOOLEAN]
    /\ rpc \in {"idle", "publish", "commit"}
    /\ rjob \in Jobs \cup {NoJob}
    /\ rjob = NoJob <=> rpc = "idle"
    /\ todo \in [Reapers -> SUBSET Jobs]
    /\ picked \in [Reapers -> Jobs \cup {NoJob}]
    /\ faults \in Nat
    /\ fails \in [Jobs -> Nat] /\ succeeded \in [Jobs -> Nat]
    /\ requeues \in [Jobs -> Nat] /\ republished \in [Jobs -> Nat]
    /\ overtaken \subseteq Jobs

Published(j) == sub[j] \in {"setQueued", "answered"}
Settled(j) == succeeded[j] > 0 \/ dlq[j] > 0

\* The pcs of a worker that has neither an outcome nor a retry to show yet.
Undecided == {"getJob", "setRunning"} \cup Running
                 \cup {"publishRetry", "publishDLQ"}
Carried(j) == \/ queue[j] > 0 \/ retryQ[j] > 0
              \/ rjob = j /\ rpc = "publish"
              \/ \E w \in Workers : wjob[w] = j /\ owns[w] /\ wpc[w] \in Undecided

\* Whatever crashes, rebalances and reaper interventions do, a published job
\* is never dropped: until its handler has succeeded or it is in jobs.dlq,
\* some copy of its message is in a topic or with a process that owns it.
NoLostJob == \A j \in Jobs : Published(j) => Settled(j) \/ Carried(j)

\* A row says SUCCESS only after a handler returned nil for the job, and
\* FAILED only after a copy went to jobs.dlq, so an operator who finds a
\* FAILED row finds its message there.
OutcomeHasEvidence ==
    \A j \in Jobs : /\ rows[j].state = "SUCCESS" => succeeded[j] > 0
                    /\ rows[j].state = "FAILED" => dlq[j] > 0

\* No job is dead-lettered early: by the time it is, MaxAttempts of its
\* attempts were used up, each by a failed handler or by the reaper.
DeadLetterEarned ==
    \A j \in Jobs : dlq[j] > 0 => fails[j] + requeues[j] >= MaxAttempts

\* A job runs twice, in turn or side by side, only as often as a fault or the
\* reaper made a second copy: nothing in the retry cycle itself does.
NoUncausedDuplicate ==
    \A j \in Jobs :
        succeeded[j] + dlq[j]
            + Cardinality({w \in Workers : wjob[w] = j /\ wpc[w] \in Running})
        <= 1 + faults + republished[j]

\* However many reapers run, and whatever workers write to the row meanwhile,
\* the reaper puts a job back at most MaxAttempts times.
ReaperGivesUp == \A j \in Jobs : republished[j] <= MaxAttempts

\* attempts is incremented after the retry is published, so a run may read it
\* stale and the handler may fail more than MaxAttempts times: once more for
\* each other worker that has its increment ahead, once for each copy of the
\* reaper, and twice for a fault (a copy too many, or an increment lost).
FailuresBounded ==
    \A j \in Jobs :
        fails[j] <= MaxAttempts + Cardinality(Workers) - 1
                        + 2 * faults + republished[j]

\* When the last copy of a job is gone, its row tells the outcome, unless a
\* QUEUED or RETRY write came too late, a write or publish failed, or the
\* reaper gave the job up.  One fault does not hide it; two may (a worker that
\* lost its partition writes RUNNING over the new owner's SUCCESS and dies).
RowTellsOutcome ==
    \A j \in Jobs :
        Quiet(j) /\ Published(j) /\ j \notin overtaken /\ faults <= 1
            /\ rows[j].attempts <= MaxAttempts
        => IsTerminal(rows[j].state)

-----------------------------------------------------------------------------
(* Action properties.                                                      *)

\* Until a fault or the reaper steps in, a row moves along internal/jobs'
\* table, but for the worker's claim of an ACCEPTED or RETRY row (the table
\* has it pass QUEUED first) and for jobs a late write has overtaken.
LawfulUnlessOvertaken ==
    [][\A j \in Jobs :
        LET s == rows[j].state
            t == rows'[j].state
        IN  faults' = 0 /\ requeues'[j] = 0 =>
            \/ s = t \/ s = "ABSENT"
            \/ Transition(s, t)
            \/ s \in {"ACCEPTED", "RETRY"} /\ t = "RUNNING"
            \/ j \in overtaken']_vars

\* SUCCESS and FAILED are terminal (internal/jobs/state.go).
TerminalIsFinal ==
    [][\A j \in Jobs : IsTerminal(rows[j].state)
            => rows'[j].state = rows[j].state]_vars

\* A job the reaper gives up "sits as FAILED" (cmd/reaper, requeue).
ExhaustedIsFailed ==
    \A j \in Jobs : Quiet(j) /\ rows[j].attempts > MaxAttempts
        => IsTerminal(rows[j].state)

-----------------------------------------------------------------------------
(* Liveness, and the service the pipeline implements.                      *)

\* Every published job is some day executed or dead-lettered, although
\* workers crash, partitions move and attempts are read stale.
EventuallySettled == \A j \in Jobs : Published(j) ~> Settled(j)

Service == INSTANCE JobService
               WITH owed    <- {j \in Jobs : Carried(j)},
                    settled <- {j \in Jobs : Settled(j)}

\* The pipeline implements JobService: a job leaves the topics and the
\* processes only with an outcome, outcomes are never taken back, and every
\* copy in flight is settled some day.
ImplementsService == Service!FairSpec
=============================================================================
