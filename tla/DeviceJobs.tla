----------------------------- MODULE DeviceJobs -----------------------------
(***************************************************************************)
(* The jobs of one device and tier and what they do: the five handlers     *)
(* (internal/handlers), the device and the webhook receiver they call      *)
(* (internal/mockclients), the tables they write, and the partitions in    *)
(* which the device's messages wait.  Devices share nothing but workers,   *)
(* and tiers share neither topics nor workers nor tables, so one device    *)
(* and one tier, any of the three, are enough.                             *)
(*                                                                         *)
(* Messages carry the device as their key when a job is published first    *)
(* and the job when it is retried, so a retried job may wait in another    *)
(* partition than the rest of its device's.  A partition is a sequence     *)
(* whose head stays until it is committed.  JobPipeline has the worker     *)
(* call by call; here its bookkeeping before and after the handler is one  *)
(* step each, and the steps in between are the calls of the handlers.      *)
(*                                                                         *)
(* A definition marked "seeded bug" is a form the one after it could have  *)
(* had, used nowhere: in that one's place it must break a property.        *)
(***************************************************************************)
EXTENDS Naturals, Sequences, FiniteSets

CONSTANTS Jobs,         \* the jobs clients submit for the device
          Workers,
          Partitions,   \* of each topic jobs.<tier>
          Home,         \* the one the device's id hashes to
          Types,        \* the job types clients submit
          Alone,        \* bound: those of which one job is all they submit
          Payloads,     \* what their payloads may be like, see Fits
          None,         \* "no job" and "no partition"
          MaxAttempts, FaultKinds, MaxFaults

AllTypes == {"RemoteCommand", "FirmwareUpdate", "TelemetryProcessing",
             "HealthCheck", "AlertGeneration"}

ASSUME DeviceAssumption ==
    /\ Home \in Partitions
    /\ Types \subseteq AllTypes
    /\ Alone \subseteq Types
    /\ Payloads \subseteq {"good", "undecodable", "unstorable"}
    /\ MaxAttempts \in Nat \ {0}
    /\ MaxFaults \in Nat
    /\ FaultKinds \subseteq {"crash", "rebalance", "query", "publish"}
    /\ IsFiniteSet(Workers)

\* The alert job a health check submits, under the key "alert-from-" + its id.
AlertFrom(j) == <<j>>

JobIds == Jobs \cup {AlertFrom(j) : j \in Jobs}

\* Ids are UUIDs: an alert job's is no client's.
ASSUME JobIdAssumption ==
    /\ \A j \in Jobs : AlertFrom(j) \notin Jobs
    /\ None \notin JobIds \cup Partitions

VARIABLES
    tier,       \* chosen at the start
    type,       \* the jobs table: type of a row, "none" without one
    payload,
    state,      \* state of the row
    attempts,
    topic,      \* messages not committed yet, per partition of jobs.<tier>
    retrying,   \* messages on their way through the retry topic
    pc, job,    \* a worker's next call and its job
    part,       \* where it fetched the message
    owns,       \* it still owns that partition
    seen,       \* attempts as GetJob read it
    answer,     \* what the device or its client said in this run
    rows,       \* rows a job's runs wrote to its task table, by their result
    recorded,   \* devices.firmware_version, as the job that wrote it
    installed,  \* the firmware on the device, likewise
    effects,    \* what a job's runs did outside: commands and firmware
                \* accepted, webhooks received, alert jobs published
    order,      \* jobs in the order they were published first
    executed,   \* commands in the order the device executed them first
    missed,     \* commands that had a turn without being executed
    overlapped, \* jobs that ran beside another of the device and tier
    blocked,    \* health checks whose alert job was there already
    faults

tableVars  == <<rows, recorded>>
deviceVars == <<installed, effects, executed>>
jobVars    == <<tier, type, payload, state, attempts>>
kafkaVars  == <<topic, retrying, order>>
claimVars  == <<job, part, owns, seen>>
\* Read by no action, like order and executed.
historyVars == <<missed, overlapped, blocked>>
vars == <<tableVars, deviceVars, jobVars, kafkaVars, claimVars, pc, answer,
          historyVars, faults>>

Fault(kind) == kind \in FaultKinds /\ faults < MaxFaults /\ faults' = faults + 1

TierFor == [RemoteCommand       |-> "realtime",
            TelemetryProcessing |-> "standard",
            HealthCheck         |-> "standard",
            AlertGeneration     |-> "standard",
            FirmwareUpdate      |-> "bulk"]

Append2(f, x, j) == [f EXCEPT ![x] = Append(@, j)]

Goto(w, to) == pc' = [pc EXCEPT ![w] = to]

\* Payloads beside good ones: one the handler cannot unmarshal; one whose row
\* the table refuses (a severity outside its CHECK; a command without
\* arguments, which are NULL in a NOT NULL column).  A health check does not
\* look at its payload.
PayloadsOf(t) ==
    Payloads \cap ({"good"}
        \cup (IF t = "HealthCheck" THEN {} ELSE {"undecodable"})
        \cup (IF t \in {"AlertGeneration", "RemoteCommand"} THEN {"unstorable"} ELSE {}))

Decodes(j) == payload[j] # "undecodable"
Fits(j) == payload[j] # "unstorable"

-----------------------------------------------------------------------------
(* Kafka and the worker around the handler.                                *)

KeyedByJob == Partitions \* seeded bug: a job's id hashes to any partition

\* Where a job published first may go: all of a device's to one partition.
KeyedByDevice == {Home}

\* A client's job is inserted and published, keyed by the device.
Submit(j, t, load) ==
    /\ type[j] = "none"
    /\ TierFor[t] = tier
    /\ load \in PayloadsOf(t)
    /\ \A k \in Jobs : type[k] # "none" => {t, type[k]} \cap Alone = {}
    /\ type' = [type EXCEPT ![j] = t]
    /\ payload' = [payload EXCEPT ![j] = load]
    /\ state' = [state EXCEPT ![j] = "QUEUED"]
    /\ \E p \in KeyedByDevice : topic' = Append2(topic, p, j)
    /\ order' = Append(order, j)
    /\ UNCHANGED <<tier, tableVars, deviceVars, attempts, retrying, claimVars,
                   pc, answer, historyVars, faults>>

\* What a worker may fetch from a partition: its head, if no other owns it.
Fetchable(w, p) ==
    IF topic[p] = <<>> \/ (\E v \in Workers : owns[v] /\ part[v] = p)
    THEN {} ELSE {Head(topic[p])}

FirstCallWebhook == \* seeded bug: the webhook before the row
             [RemoteCommand       |-> "send",
              FirmwareUpdate      |-> "push",
              TelemetryProcessing |-> "insertMetric",
              AlertGeneration     |-> "webhook",
              HealthCheck         |-> "health"]

\* Each handler's first call.
FirstCall == [RemoteCommand       |-> "send",
              FirmwareUpdate      |-> "push",
              TelemetryProcessing |-> "insertMetric",
              AlertGeneration     |-> "insertAlert",
              HealthCheck         |-> "health"]

Busy == {v \in Workers : pc[v] # "idle"}

Claim(w, p, j) ==
    /\ job' = [job EXCEPT ![w] = j]
    /\ part' = [part EXCEPT ![w] = p]
    /\ owns' = [owns EXCEPT ![w] = TRUE]
    /\ seen' = [seen EXCEPT ![w] = attempts[j]]
    /\ answer' = [answer EXCEPT ![w] = "none"]
    /\ overlapped' = overlapped \cup
         (IF Busy = {} THEN {} ELSE {j} \cup {job[v] : v \in Busy})

\* processOne up to the handler: GetJob, RUNNING, and the handler's decoding.
Fetch(w, p) ==
    /\ pc[w] = "idle"
    /\ \E j \in Fetchable(w, p) :
          /\ Claim(w, p, j)
          /\ state' = [state EXCEPT ![j] = "RUNNING"]
          /\ Goto(w, IF Decodes(j) THEN FirstCall[type[j]] ELSE "failed")
          /\ missed' = IF Decodes(j) THEN missed ELSE missed \cup {j}
    /\ UNCHANGED <<tableVars, deviceVars, tier, type, payload, attempts, kafkaVars,
                   blocked, faults>>

\* GetJob or the RUNNING write fails: Run commits the message all the same.
FetchFails(w, p) ==
    /\ pc[w] = "idle"
    /\ Fault("query")
    /\ \E j \in Fetchable(w, p) :
          /\ Claim(w, p, j)
          /\ state' \in {state, [state EXCEPT ![j] = "RUNNING"]}
          /\ missed' = missed \cup {j}
    /\ Goto(w, "commit")
    /\ UNCHANGED <<tableVars, deviceVars, tier, type, payload, attempts, kafkaVars,
                   blocked>>

\* The handler returned nil.
Success(w) ==
    /\ pc[w] = "ok"
    /\ state' = [state EXCEPT ![job[w]] = "SUCCESS"]
    /\ Goto(w, "commit")
    /\ UNCHANGED <<tableVars, deviceVars, tier, type, payload, attempts, kafkaVars,
                   claimVars, answer, historyVars, faults>>

\* The handler returned an error: sendToRetry or sendToDLQ.
RetryOrDLQ(w) ==
    /\ pc[w] = "failed"
    /\ LET j == job[w]
       IN  IF seen[w] + 1 >= MaxAttempts
           THEN /\ state' = [state EXCEPT ![j] = "FAILED"]
                /\ UNCHANGED <<attempts, retrying>>
           ELSE /\ retrying' = [retrying EXCEPT ![j] = @ + 1]
                /\ state' = [state EXCEPT ![j] = "RETRY"]
                /\ attempts' = [attempts EXCEPT ![j] = @ + 1]
    /\ Goto(w, "commit")
    /\ UNCHANGED <<tableVars, deviceVars, tier, type, payload, topic, order,
                   claimVars, answer, historyVars, faults>>

\* A call of one of the two fails: the retry may be published or not.
ReportFails(w) ==
    /\ pc[w] \in {"ok", "failed"}
    /\ Fault("query")
    /\ IF pc[w] = "failed" /\ seen[w] + 1 < MaxAttempts
       THEN retrying' \in {retrying, [retrying EXCEPT ![job[w]] = @ + 1]}
       ELSE retrying' = retrying
    /\ Goto(w, "commit")
    /\ UNCHANGED <<tableVars, deviceVars, jobVars, topic, order, claimVars,
                   answer, historyVars>>

ReleaseKeepsJob(w) == \* seeded bug
    /\ Goto(w, "idle")
    /\ owns' = [owns EXCEPT ![w] = FALSE]
    /\ UNCHANGED <<job, part, seen, answer>>

Release(w) ==
    /\ Goto(w, "idle")
    /\ job' = [job EXCEPT ![w] = None]
    /\ part' = [part EXCEPT ![w] = None]
    /\ owns' = [owns EXCEPT ![w] = FALSE]
    /\ seen' = [seen EXCEPT ![w] = 0]
    /\ answer' = [answer EXCEPT ![w] = "none"]

CommitNothing(w) == \* seeded bug: the message is not committed
    /\ pc[w] = "commit"
    /\ Release(w)
    /\ UNCHANGED <<tableVars, deviceVars, jobVars, kafkaVars, historyVars, faults>>

\* A commit after the partition has moved on is refused by the group.
CommitMessage(w) ==
    /\ pc[w] = "commit"
    /\ topic' = IF owns[w] THEN [topic EXCEPT ![part[w]] = Tail(@)] ELSE topic
    /\ Release(w)
    /\ UNCHANGED <<tableVars, deviceVars, jobVars, retrying, order, historyVars,
                   faults>>

\* The retry router: the key is the job's id, its hash any partition.
Forward(j, p) ==
    /\ retrying[j] > 0
    /\ retrying' = [retrying EXCEPT ![j] = @ - 1]
    /\ topic' = Append2(topic, p, j)
    /\ UNCHANGED <<tableVars, deviceVars, jobVars, order, claimVars, pc, answer,
                   historyVars, faults>>

\* The worker dies: the message is at the head of its partition still.
Crash(w) ==
    /\ pc[w] # "idle"
    /\ Fault("crash")
    /\ Release(w)
    /\ UNCHANGED <<tableVars, deviceVars, jobVars, kafkaVars, historyVars>>

\* The partition moves to another worker while this one goes on.
Rebalance(w) ==
    /\ owns[w]
    /\ Fault("rebalance")
    /\ owns' = [owns EXCEPT ![w] = FALSE]
    /\ UNCHANGED <<tableVars, deviceVars, jobVars, kafkaVars, job, part, seen,
                   pc, answer, historyVars>>

-----------------------------------------------------------------------------
(* The handlers.  Each action is one call; a call that fails ends the run  *)
(* with its error.                                                         *)

\* A call to the device returns ok, or an error after it did nothing
\* ("refused"), or an error although it did it ("late": the 5 s ran out).
Answers == {"ok", "refused", "late"}

Did(w, a) == effects' = IF a = "refused" THEN effects
                        ELSE [effects EXCEPT ![job[w]] = @ + 1]

\* An INSERT into the task table, with the result it stores; it may be
\* refused for its contents, or fail, stored or not.
Insert(w, at, result, next) ==
    LET j == job[w]
        stored == [rows EXCEPT ![j][result] = @ + 1]
    IN  /\ pc[w] = at
        /\ \/ Fits(j) /\ rows' = stored /\ Goto(w, next) /\ UNCHANGED faults
           \/ ~Fits(j) /\ rows' = rows /\ Goto(w, "failed") /\ UNCHANGED faults
           \/ /\ Fault("query")
              /\ rows' \in (IF Fits(j) THEN {rows, stored} ELSE {rows})
              /\ Goto(w, "failed")
        /\ UNCHANGED <<recorded, deviceVars, jobVars, kafkaVars, claimVars,
                       answer, historyVars>>

Result(w) == IF answer[w] = "ok" THEN "ok" ELSE "error"

-----------------------------------------------------------------------------
(* RemoteCommandHandler.                                                   *)

SendCommand(w) ==
    /\ pc[w] = "send"
    /\ \E a \in Answers :
          /\ answer' = [answer EXCEPT ![w] = a]
          /\ Did(w, a)
          /\ executed' = IF a = "refused" \/ \E i \in DOMAIN executed :
                                                executed[i] = job[w]
                         THEN executed ELSE Append(executed, job[w])
          /\ missed' = IF a = "refused" THEN missed \cup {job[w]} ELSE missed
    /\ Goto(w, "insertAudit")
    /\ UNCHANGED <<tableVars, installed, jobVars, kafkaVars, claimVars,
                   overlapped, blocked, faults>>

AuditOnSuccess(w) == \* seeded bug: a failed command leaves no row
    IF answer[w] = "ok" THEN Insert(w, "insertAudit", "ok", "ok")
    ELSE /\ pc[w] = "insertAudit"
         /\ Goto(w, "failed")
         /\ UNCHANGED <<tableVars, deviceVars, jobVars, kafkaVars, claimVars,
                        answer, historyVars, faults>>

\* The audit row is written whether the command succeeded or not.
InsertCommandAudit(w) ==
    Insert(w, "insertAudit", Result(w), IF answer[w] = "ok" THEN "ok" ELSE "failed")

-----------------------------------------------------------------------------
(* FirmwareHandler.                                                        *)

PushFirmware(w) ==
    /\ pc[w] = "push"
    /\ \E a \in Answers :
          /\ answer' = [answer EXCEPT ![w] = a]
          /\ Did(w, a)
          /\ installed' = IF a = "refused" THEN installed ELSE job[w]
    /\ Goto(w, "insertAttempt")
    /\ UNCHANGED <<tableVars, executed, jobVars, kafkaVars, claimVars,
                   historyVars, faults>>

InsertFirmwareAttempt(w) ==
    Insert(w, "insertAttempt", Result(w),
           IF answer[w] = "ok" THEN "updateFirmware" ELSE "failed")

UpdateIgnoringError(w) == \* seeded bug: a failed update is not returned
    /\ pc[w] = "updateFirmware"
    /\ \/ recorded' = job[w] /\ UNCHANGED faults
       \/ Fault("query") /\ recorded' = recorded
    /\ Goto(w, "ok")
    /\ UNCHANGED <<rows, deviceVars, jobVars, kafkaVars, claimVars, answer,
                   historyVars>>

UpdateDeviceFirmware(w) ==
    /\ pc[w] = "updateFirmware"
    /\ \/ recorded' = job[w] /\ Goto(w, "ok") /\ UNCHANGED faults
       \/ Fault("query") /\ recorded' \in {recorded, job[w]} /\ Goto(w, "failed")
    /\ UNCHANGED <<rows, deviceVars, jobVars, kafkaVars, claimVars, answer,
                   historyVars>>

-----------------------------------------------------------------------------
(* TelemetryHandler and AlertHandler.                                      *)

InsertDeviceMetric(w) == Insert(w, "insertMetric", "ok", "ok")

InsertAlert(w) == Insert(w, "insertAlert", "ok", "webhook")

PostUnchecked(w) == \* seeded bug: the receiver's answer is not looked at
    /\ pc[w] = "webhook"
    /\ \E a \in Answers : Did(w, a) /\ answer' = [answer EXCEPT ![w] = a]
    /\ Goto(w, "ok")
    /\ UNCHANGED <<tableVars, installed, executed, jobVars, kafkaVars, claimVars,
                   historyVars, faults>>

\* "DB-write first": the receiver may get the alert and the answer be lost.
PostAlert(w) ==
    /\ pc[w] = "webhook"
    /\ \E a \in Answers :
          /\ Did(w, a)
          /\ answer' = [answer EXCEPT ![w] = a]
          /\ Goto(w, IF a = "ok" THEN "ok" ELSE "failed")
    /\ UNCHANGED <<tableVars, installed, executed, jobVars, kafkaVars, claimVars,
                   historyVars, faults>>

-----------------------------------------------------------------------------
(* HealthCheckHandler, and the Submit it ends with.                        *)

GetHealth(w) ==
    /\ pc[w] = "health"
    /\ \E a \in {"ok", "unhealthy", "refused"} :
          /\ answer' = [answer EXCEPT ![w] = a]
          /\ Goto(w, IF a = "refused" THEN "failed" ELSE "touch")
    /\ UNCHANGED <<tableVars, deviceVars, jobVars, kafkaVars, claimVars,
                   historyVars, faults>>

\* last_seen_at is not tracked.
TouchDevice(w) ==
    /\ pc[w] = "touch"
    /\ \/ Goto(w, IF answer[w] = "unhealthy" THEN "create" ELSE "ok")
          /\ UNCHANGED faults
       \/ Fault("query") /\ Goto(w, "failed")
    /\ UNCHANGED <<tableVars, deviceVars, jobVars, kafkaVars, claimVars, answer,
                   historyVars>>

NoConflict(j) == FALSE \* seeded bug: a fresh key for every run

\* The unique index holds a row under this check's key.
Conflicting(j) == type[AlertFrom(j)] # "none"

\* CreateJob of the alert.
CreateJob(w) ==
    LET j == job[w]
        created == [type EXCEPT ![AlertFrom(j)] = "AlertGeneration"]
    IN  /\ pc[w] = "create"
        /\ \/ /\ Conflicting(j)
              /\ Goto(w, "failed")
              /\ blocked' = blocked \cup {j}
              /\ UNCHANGED <<type, faults>>
           \/ /\ ~Conflicting(j)
              /\ type' = created
              /\ Goto(w, "publishAlert")
              /\ UNCHANGED <<blocked, faults>>
           \/ /\ Fault("query")
              /\ type' \in (IF Conflicting(j) THEN {type} ELSE {type, created})
              /\ Goto(w, "failed")
              /\ UNCHANGED blocked
        /\ UNCHANGED <<tableVars, deviceVars, tier, payload, state, attempts,
                       kafkaVars, claimVars, answer, missed, overlapped>>

\* The publish of the alert's message, keyed by the device; a failed one may
\* have been stored.  The QUEUED write after it is part of SubmitJob.
Publish(w) ==
    LET a == AlertFrom(job[w])
        sent == /\ \E p \in KeyedByDevice : topic' = Append2(topic, p, a)
                /\ order' = Append(order, a)
                /\ effects' = [effects EXCEPT ![job[w]] = @ + 1]
    IN  /\ pc[w] = "publishAlert"
        /\ \/ sent /\ Goto(w, "ok") /\ UNCHANGED faults
           \/ /\ Fault("publish")
              /\ sent \/ UNCHANGED <<topic, order, effects>>
              /\ Goto(w, "failed")
        /\ UNCHANGED <<tableVars, installed, executed, jobVars, retrying,
                       claimVars, answer, historyVars>>

-----------------------------------------------------------------------------

Init ==
    /\ tier \in {TierFor[t] : t \in Types}
    /\ type = [j \in JobIds |-> "none"]
    /\ payload = [j \in JobIds |-> "good"]
    /\ state = [j \in JobIds |-> "ACCEPTED"]
    /\ attempts = [j \in JobIds |-> 0]
    /\ topic = [p \in Partitions |-> <<>>]
    /\ retrying = [j \in JobIds |-> 0]
    /\ pc = [w \in Workers |-> "idle"]
    /\ job = [w \in Workers |-> None]
    /\ part = [w \in Workers |-> None]
    /\ owns = [w \in Workers |-> FALSE]
    /\ seen = [w \in Workers |-> 0]
    /\ answer = [w \in Workers |-> "none"]
    /\ rows = [j \in JobIds |-> [ok |-> 0, error |-> 0]]
    /\ recorded = None /\ installed = None
    /\ effects = [j \in JobIds |-> 0]
    /\ order = <<>> /\ executed = <<>>
    /\ missed = {} /\ overlapped = {} /\ blocked = {}
    /\ faults = 0

Handle(w) ==
    \/ SendCommand(w) \/ InsertCommandAudit(w)
    \/ PushFirmware(w) \/ InsertFirmwareAttempt(w) \/ UpdateDeviceFirmware(w)
    \/ InsertDeviceMetric(w)
    \/ InsertAlert(w) \/ PostAlert(w)
    \/ GetHealth(w) \/ TouchDevice(w) \/ CreateJob(w) \/ Publish(w)

\* A job has no copy anywhere and no worker at it.
Quiet(j) ==
    /\ retrying[j] = 0
    /\ \A p \in Partitions : \A i \in DOMAIN topic[p] : topic[p][i] # j
    /\ \A w \in Workers : job[w] # j

AllDone ==
    /\ order # <<>>
    /\ \A j \in JobIds : Quiet(j)
    /\ UNCHANGED vars

Next ==
    \/ \E j \in Jobs, t \in Types, load \in Payloads : Submit(j, t, load)
    \/ \E w \in Workers, p \in Partitions : Fetch(w, p) \/ FetchFails(w, p)
    \/ \E w \in Workers :
          \/ Handle(w)
          \/ Success(w) \/ RetryOrDLQ(w) \/ ReportFails(w) \/ CommitMessage(w)
          \/ Crash(w) \/ Rebalance(w)
    \/ \E j \in JobIds, p \in Partitions : Forward(j, p)
    \/ AllDone

Spec == Init /\ [][Next]_vars

-----------------------------------------------------------------------------
(* Properties.                                                             *)

Pcs == {"idle", "ok", "failed", "commit", "send", "insertAudit", "push",
        "insertAttempt", "updateFirmware", "insertMetric", "insertAlert",
        "webhook", "health", "touch", "create", "publishAlert"}

\* Every variable has its type.
TypeOK ==
    /\ tier \in {TierFor[t] : t \in Types}
    /\ type \in [JobIds -> AllTypes \cup {"none"}]
    /\ payload \in [JobIds -> {"good", "undecodable", "unstorable"}]
    /\ state \in [JobIds -> {"ACCEPTED", "QUEUED", "RUNNING", "SUCCESS", "RETRY",
                             "FAILED"}]
    /\ attempts \in [JobIds -> Nat] /\ retrying \in [JobIds -> Nat]
    /\ effects \in [JobIds -> Nat]
    /\ topic \in [Partitions -> Seq(JobIds)]
    /\ pc \in [Workers -> Pcs]
    /\ job \in [Workers -> JobIds \cup {None}]
    /\ \A w \in Workers : job[w] = None <=> pc[w] = "idle"
    /\ part \in [Workers -> Partitions \cup {None}]
    /\ owns \in [Workers -> BOOLEAN]
    /\ seen \in [Workers -> Nat]
    /\ answer \in [Workers -> Answers \cup {"none", "unhealthy"}]
    /\ rows \in [JobIds -> [ok : Nat, error : Nat]]
    /\ {recorded, installed} \subseteq JobIds \cup {None}
    /\ order \in Seq(JobIds) /\ executed \in Seq(JobIds)
    /\ missed \subseteq JobIds /\ overlapped \subseteq JobIds
    /\ blocked \subseteq JobIds
    /\ faults \in Nat

Of(t) == {j \in JobIds : type[j] = t}
Executing(j, at) == Cardinality({w \in Workers : job[w] = j /\ pc[w] = at})
Total(j) == rows[j].ok + rows[j].error

\* A SUCCESS row has behind it the row of the job's own table and, for jobs
\* that act outside, the act; no crash, rerun or lost answer comes between.
SuccessIsRecorded ==
    \A j \in JobIds :
        state[j] = "SUCCESS" /\ type[j] # "HealthCheck" =>
            /\ rows[j].ok > 0
            /\ type[j] # "TelemetryProcessing" => effects[j] > 0

\* "auditability requires we capture failures too" (RemoteCommandHandler):
\* what the device did and no row tells of is no more than the runs that are
\* between the two and the faults, but for rows the table refuses; firmware
\* likewise.  And no row claims what the device did not do.
Auditable ==
    \A j \in Of("RemoteCommand") \cup Of("FirmwareUpdate") :
        /\ rows[j].ok <= effects[j]
        /\ Fits(j) => effects[j] <= Total(j) + Executing(j, "insertAudit")
                                   + Executing(j, "insertAttempt") + faults

\* "We DB-write first so the alert is durable": through all reruns the
\* receiver never got more alerts than the table has.
WebhooksAreStored == \A j \in Of("AlertGeneration") : effects[j] <= rows[j].ok

\* A sample counts once, and once more per fault at most.
SamplesCounted == \A j \in Of("TelemetryProcessing") : rows[j].ok <= 1 + faults

\* "retries of THIS job don't double-alert" (HealthCheckHandler): a health
\* check publishes one alert job at most, however often it runs.
NoDoubleAlert == \A j \in Of("HealthCheck") : effects[j] <= 1

\* A health check is refused its own alert only after a fault, never because
\* the device's failures made it run again.
BlockedOnlyByFault == blocked # {} => faults > 0

\* When every firmware job of the device has succeeded and none ran beside
\* another, devices.firmware_version is what the device has, whatever the
\* order of retries, reruns and lost answers.
RecordedIsInstalled ==
    (\A j \in Of("FirmwareUpdate") :
        Quiet(j) /\ state[j] = "SUCCESS" /\ j \notin overlapped)
    => recorded = installed

Before(s, j, k) == \E m, n \in DOMAIN s : m < n /\ s[m] = j /\ s[n] = k

\* A device executes its commands in the order they were published, but for
\* those that had a turn and were not executed in it.
CommandsInOrder ==
    \A j, k \in Of("RemoteCommand") :
        Before(order, j, k) /\ j \notin missed => ~Before(executed, k, j)

\* "messages for the same device land on the same partition (preserving
\* order)" (Producer.Publish): without a rebalance no two workers are at jobs
\* of the device and tier at once.
OneAtATime ==
    \A v, w \in Workers :
        ~(v # w /\ owns[v] /\ owns[w])
=============================================================================
