-------------------------- MODULE DeviceJobsProofs --------------------------
(***************************************************************************)
(* What the handlers of DeviceJobs do, under all faults: a SUCCESS row has *)
(* its evidence in the tables and outside, a health check alerts once, no  *)
(* webhook goes before its row, what a device did is audited, the firmware *)
(* table tells what is installed, a partition's commands come in order,    *)
(* and no sample or refusal is counted that a run or a fault did not make. *)
(***************************************************************************)
EXTENDS DeviceJobs, FiniteSetTheorems, TLAPS

\* The calls of each handler.
CallsOf == [RemoteCommand       |-> {"send", "insertAudit"},
            FirmwareUpdate      |-> {"push", "insertAttempt", "updateFirmware"},
            TelemetryProcessing |-> {"insertMetric"},
            AlertGeneration     |-> {"insertAlert", "webhook"},
            HealthCheck         |-> {"health", "touch", "create", "publishAlert"}]

Calls == {"send", "insertAudit", "push", "insertAttempt", "updateFirmware",
          "insertMetric", "insertAlert", "webhook", "health", "touch", "create",
          "publishAlert"}

\* Jobs that have a row.
Known == {j \in JobIds : type[j] # "none"}

\* A job that waits or that a worker holds has a row, the worker is in the
\* handler of its type, and only clients' jobs are health checks.
RightHandler ==
    /\ topic \in [Partitions -> Seq(Known)]
    /\ \A j \in JobIds : retrying[j] > 0 => j \in Known
    /\ \A w \in Workers : pc[w] # "idle" =>
          /\ job[w] \in Known
          /\ pc[w] \in Calls => pc[w] \in CallsOf[type[job[w]]]
          /\ pc[w] = "publishAlert" => AlertFrom(job[w]) \in Known
    /\ \A j \in Jobs : type[AlertFrom(j)] \in {"none", "AlertGeneration"}

\* A worker that owns its partition has the message at its head, and no two
\* own the same.
HeldIsHead ==
    /\ \A w \in Workers : owns[w] =>
          /\ pc[w] # "idle" /\ part[w] \in Partitions
          /\ topic[part[w]] # <<>> /\ Head(topic[part[w]]) = job[w]
    /\ \A v, w \in Workers : v # w /\ owns[v] /\ owns[w] => part[v] # part[w]

-----------------------------------------------------------------------------
(* Types.                                                                  *)

LEMMA IdsAreJobs ==
    /\ Jobs \subseteq JobIds
    /\ \A j \in Jobs : AlertFrom(j) \in JobIds /\ AlertFrom(j) \notin Jobs
    /\ \A j, k \in Jobs : AlertFrom(j) = AlertFrom(k) => j = k
    /\ None \notin JobIds
BY JobIdAssumption DEF JobIds, AlertFrom

\* The jobs in the health check's handler are clients'.
LEMMA AlertOfCheck ==
    ASSUME TypeOK, RightHandler, NEW w \in Workers, pc[w] \in {"create", "publishAlert"}
    PROVE  job[w] \in Jobs /\ type[job[w]] = "HealthCheck" /\ AlertFrom(job[w]) \in JobIds
<1>1. pc[w] \in CallsOf[type[job[w]]] /\ type[job[w]] # "none" /\ job[w] \in JobIds
  BY DEF RightHandler, Known, Calls
<1>2. type[job[w]] = "HealthCheck"
  <2>1. type[job[w]] \in AllTypes
    BY <1>1 DEF TypeOK
  <2> QED BY <1>1, <2>1 DEF CallsOf, AllTypes
<1>3. job[w] \in Jobs
  BY <1>1, <1>2 DEF RightHandler, JobIds
<1> QED BY <1>2, <1>3, IdsAreJobs

\* TypeOK in three parts, each small enough for the provers.
JobStates == {"ACCEPTED", "QUEUED", "RUNNING", "SUCCESS", "RETRY", "FAILED"}

WorkersTyped ==
    /\ pc \in [Workers -> Pcs]
    /\ job \in [Workers -> JobIds \cup {None}]
    /\ \A w \in Workers : job[w] = None <=> pc[w] = "idle"
    /\ part \in [Workers -> Partitions \cup {None}]
    /\ owns \in [Workers -> BOOLEAN]
    /\ seen \in [Workers -> Nat]
    /\ answer \in [Workers -> Answers \cup {"none", "unhealthy"}]

JobsTyped ==
    /\ tier \in {TierFor[t] : t \in Types}
    /\ type \in [JobIds -> AllTypes \cup {"none"}]
    /\ payload \in [JobIds -> {"good", "undecodable", "unstorable"}]
    /\ state \in [JobIds -> JobStates]
    /\ attempts \in [JobIds -> Nat] /\ retrying \in [JobIds -> Nat]
    /\ effects \in [JobIds -> Nat]

RecordsTyped ==
    /\ topic \in [Partitions -> Seq(JobIds)]
    /\ rows \in [JobIds -> [ok : Nat, error : Nat]]
    /\ recorded \in JobIds \cup {None} /\ installed \in JobIds \cup {None}
    /\ order \in Seq(JobIds) /\ executed \in Seq(JobIds)
    /\ missed \subseteq JobIds /\ overlapped \subseteq JobIds
    /\ blocked \subseteq JobIds
    /\ faults \in Nat

LEMMA TypeParts ==
    /\ TypeOK <=> WorkersTyped /\ JobsTyped /\ RecordsTyped
    /\ TypeOK' <=> WorkersTyped' /\ JobsTyped' /\ RecordsTyped'
BY DEF TypeOK, WorkersTyped, JobsTyped, RecordsTyped, JobStates

LEMMA InitType == Init => TypeOK
BY DeviceAssumption, IdsAreJobs DEF Init, TypeOK, Pcs, Answers, AllTypes

LEMMA UnchangedType == TypeOK /\ UNCHANGED vars => TypeOK'
<1> SUFFICES ASSUME TypeOK, UNCHANGED vars PROVE TypeOK'
  OBVIOUS
<1> USE DEF vars, tableVars, deviceVars, jobVars, kafkaVars, claimVars, historyVars
<1>1. WorkersTyped'
  BY TypeParts DEF WorkersTyped
<1>2. JobsTyped'
  BY TypeParts DEF JobsTyped
<1>3. RecordsTyped'
  BY TypeParts DEF RecordsTyped
<1> QED BY <1>1, <1>2, <1>3, TypeParts

LEMMA SubmitType ==
    ASSUME TypeOK, NEW j \in Jobs, NEW t \in Types, NEW load \in Payloads,
           Submit(j, t, load)
    PROVE  TypeOK'
<1> USE TypeParts DEF tableVars, deviceVars, historyVars, claimVars
<1>0. j \in JobIds /\ Home \in Partitions /\ t \in AllTypes
      /\ load \in {"good", "undecodable", "unstorable"}
  BY DeviceAssumption, IdsAreJobs
<1>1. topic' = [topic EXCEPT ![Home] = Append(@, j)]
  BY DEF Submit, KeyedByDevice, Append2
<1>2. WorkersTyped'
  BY DEF Submit, WorkersTyped
<1>3. JobsTyped'
  BY <1>0 DEF Submit, JobsTyped, JobStates
<1>4. RecordsTyped'
  BY SMTT(30), <1>0, <1>1 DEF Submit, RecordsTyped
<1> QED BY <1>2, <1>3, <1>4

LEMMA FetchableIsJob ==
    ASSUME TypeOK, RightHandler, NEW w \in Workers, NEW p \in Partitions,
           NEW j \in Fetchable(w, p)
    PROVE  /\ topic[p] # <<>> /\ j = Head(topic[p])
           /\ j \in Known /\ j \in JobIds /\ type[j] \in AllTypes
           /\ \A v \in Workers : owns[v] => part[v] # p
<1>1. /\ topic[p] \in Seq(Known) /\ topic[p] # <<>> /\ j = Head(topic[p])
      /\ \A v \in Workers : owns[v] => part[v] # p
  BY DEF Fetchable, RightHandler
<1>2. j \in Known
  BY <1>1
<1> QED BY <1>1, <1>2 DEF Known, TypeOK

\* Where a fetch takes a worker.
Starts == {"send", "push", "insertMetric", "insertAlert", "health"}

LEMMA FirstCallStarts ==
    ASSUME NEW t \in AllTypes
    PROVE  /\ FirstCall[t] \in Starts
           /\ FirstCall[t] \in CallsOf[t]
<1>1. CASE t = "RemoteCommand"
  BY <1>1 DEF FirstCall, CallsOf, Starts
<1>2. CASE t = "FirmwareUpdate"
  BY <1>2 DEF FirstCall, CallsOf, Starts
<1>3. CASE t = "TelemetryProcessing"
  BY <1>3 DEF FirstCall, CallsOf, Starts
<1>4. CASE t = "AlertGeneration"
  BY <1>4 DEF FirstCall, CallsOf, Starts
<1>5. CASE t = "HealthCheck"
  BY <1>5 DEF FirstCall, CallsOf, Starts
<1> QED BY <1>1, <1>2, <1>3, <1>4, <1>5 DEF AllTypes

LEMMA ClaimType ==
    ASSUME TypeOK, NEW w \in Workers, NEW p \in Partitions, NEW j \in JobIds,
           Claim(w, p, j), NEW c \in Pcs \ {"idle"}, Goto(w, c)
    PROVE  WorkersTyped' /\ overlapped' \subseteq JobIds
<1>1. {job[v] : v \in Busy} \subseteq JobIds
  BY DEF TypeOK, Busy
<1>2. overlapped' \subseteq JobIds
  <2>1. overlapped \subseteq JobIds
    BY DEF TypeOK
  <2> QED BY <1>1, <2>1 DEF Claim
<1>3. WorkersTyped'
  <2>1. WorkersTyped /\ attempts[j] \in Nat
    BY TypeParts DEF JobsTyped
  <2> QED BY <2>1, IdsAreJobs DEF Claim, Goto, WorkersTyped
<1> QED BY <1>2, <1>3

LEMMA FetchType ==
    ASSUME TypeOK, RightHandler, NEW w \in Workers, NEW p \in Partitions,
           Fetch(w, p) \/ FetchFails(w, p)
    PROVE  TypeOK'
<1> USE TypeParts DEF tableVars, deviceVars, kafkaVars
<1>1. PICK j \in Fetchable(w, p), c \in Pcs \ {"idle"} :
         /\ Claim(w, p, j) /\ Goto(w, c)
         /\ state' \in {state, [state EXCEPT ![j] = "RUNNING"]}
         /\ missed' \in {missed, missed \cup {j}}
  <2>1. CASE Fetch(w, p)
    <3>1. PICK j \in Fetchable(w, p) :
             /\ Claim(w, p, j)
             /\ state' = [state EXCEPT ![j] = "RUNNING"]
             /\ Goto(w, IF Decodes(j) THEN FirstCall[type[j]] ELSE "failed")
             /\ missed' = IF Decodes(j) THEN missed ELSE missed \cup {j}
      BY <2>1 DEF Fetch
    <3>3. type[j] \in AllTypes
      BY <3>1, FetchableIsJob
    <3>4. (IF Decodes(j) THEN FirstCall[type[j]] ELSE "failed") \in Pcs \ {"idle"}
      BY <3>3, FirstCallStarts DEF Starts, Pcs
    <3> QED BY <3>1, <3>4
  <2>2. CASE FetchFails(w, p)
    BY <2>2 DEF FetchFails, Pcs
  <2> QED BY <2>1, <2>2
<1>2. j \in JobIds
  BY <1>1, FetchableIsJob
<1>3. WorkersTyped' /\ overlapped' \subseteq JobIds
  BY <1>1, <1>2, ClaimType
<1>4. JobsTyped'
  BY <1>1, <1>2 DEF Fetch, FetchFails, JobsTyped, JobStates
<1>5. RecordsTyped'
  BY <1>1, <1>2, <1>3 DEF Fetch, FetchFails, Fault, RecordsTyped
<1> QED BY <1>3, <1>4, <1>5

LEMMA ReleaseType ==
    ASSUME TypeOK, NEW w \in Workers, Release(w)
    PROVE  WorkersTyped'
<1>1. WorkersTyped
  BY TypeParts
<1> QED BY <1>1 DEF Release, Goto, WorkersTyped, Pcs

\* The steps around the handler.
Around(w) ==
    \/ Success(w) \/ RetryOrDLQ(w) \/ ReportFails(w) \/ CommitMessage(w)
    \/ Crash(w) \/ Rebalance(w)

LEMMA AroundType ==
    ASSUME TypeOK, HeldIsHead, NEW w \in Workers, Around(w)
    PROVE  TypeOK'
<1> USE TypeParts DEF tableVars, deviceVars, jobVars, kafkaVars, claimVars,
                      historyVars
<1>0. pc[w] # "idle" => job[w] \in JobIds
  BY DEF WorkersTyped
<1>1. WorkersTyped'
  <2>1. CASE CommitMessage(w) \/ Crash(w)
    BY <2>1, ReleaseType DEF CommitMessage, Crash
  <2>2. CASE Success(w) \/ RetryOrDLQ(w) \/ ReportFails(w)
    <3>1. WorkersTyped
      OBVIOUS
    <3>2. /\ Goto(w, "commit") /\ pc[w] # "idle"
          /\ UNCHANGED <<job, part, owns, seen, answer>>
      BY <2>2 DEF Success, RetryOrDLQ, ReportFails
    <3> QED BY <3>1, <3>2 DEF Goto, WorkersTyped, Pcs
  <2>3. CASE Rebalance(w)
    BY <2>3 DEF Rebalance, WorkersTyped
  <2> QED BY <2>1, <2>2, <2>3 DEF Around
<1>2. JobsTyped'
  BY <1>0 DEF Around, Success, RetryOrDLQ, ReportFails, CommitMessage, Crash,
              Rebalance, JobsTyped, JobStates
<1>3. RecordsTyped'
  <2>1. CASE CommitMessage(w)
    <3>1. topic' \in [Partitions -> Seq(JobIds)]
      <4>1. topic \in [Partitions -> Seq(JobIds)]
        BY DEF RecordsTyped
      <4>2. CASE owns[w]
        <5>1. /\ part[w] \in Partitions /\ topic[part[w]] # <<>>
              /\ topic[part[w]] \in Seq(JobIds)
          BY <4>1, <4>2 DEF HeldIsHead
        <5>2. Tail(topic[part[w]]) \in Seq(JobIds)
          BY <5>1
        <5> QED BY <2>1, <4>1, <4>2, <5>2 DEF CommitMessage
      <4> QED BY <2>1, <4>1, <4>2 DEF CommitMessage
    <3> QED BY <2>1, <3>1 DEF CommitMessage, RecordsTyped
  <2>2. CASE ~CommitMessage(w)
    BY SMTT(30), <2>2 DEF Around, Success, RetryOrDLQ, ReportFails, Crash, Rebalance, Fault,
                RecordsTyped
  <2> QED BY <2>1, <2>2
<1> QED BY <1>1, <1>2, <1>3

LEMMA ForwardType ==
    ASSUME TypeOK, NEW j \in JobIds, NEW p \in Partitions, Forward(j, p)
    PROVE  TypeOK'
<1> USE TypeParts DEF tableVars, deviceVars, jobVars, claimVars, historyVars
<1>1. WorkersTyped'
  BY DEF Forward, WorkersTyped
<1>2. JobsTyped'
  BY DEF Forward, JobsTyped
<1>3. RecordsTyped'
  BY DEF Forward, Append2, RecordsTyped
<1> QED BY <1>1, <1>2, <1>3

\* An INSERT in any handler.
LEMMA InsertType ==
    ASSUME TypeOK, NEW w \in Workers, NEW at \in Pcs \ {"idle"},
           NEW result \in {"ok", "error"}, NEW next \in Pcs \ {"idle"},
           Insert(w, at, result, next)
    PROVE  TypeOK'
<1> USE TypeParts DEF deviceVars, jobVars, kafkaVars, claimVars, historyVars
<1> DEFINE stored == [rows EXCEPT ![job[w]][result] = @ + 1]
<1>1. job[w] \in JobIds /\ pc[w] # "idle"
  BY DEF Insert, WorkersTyped
<1>2. stored \in [JobIds -> [ok : Nat, error : Nat]]
  <2>1. /\ rows \in [JobIds -> [ok : Nat, error : Nat]]
        /\ rows[job[w]] \in [ok : Nat, error : Nat]
    BY <1>1 DEF RecordsTyped
  <2>2. CASE result = "ok"
    <3>1. [rows[job[w]] EXCEPT !.ok = @ + 1] \in [ok : Nat, error : Nat]
      BY <2>1
    <3>2. stored = [rows EXCEPT ![job[w]] = [rows[job[w]] EXCEPT !.ok = rows[job[w]].ok + 1]]
      BY <2>2
    <3> QED BY <2>1, <3>1, <3>2
  <2>3. CASE result = "error"
    <3>1. [rows[job[w]] EXCEPT !.error = @ + 1] \in [ok : Nat, error : Nat]
      BY <2>1
    <3>2. stored = [rows EXCEPT ![job[w]] = [rows[job[w]] EXCEPT !.error = rows[job[w]].error + 1]]
      BY <2>3
    <3> QED BY <2>1, <3>1, <3>2
  <2> QED BY <2>2, <2>3
<1>3. rows' \in {rows, stored}
  BY DEF Insert
<1>4. pc' = [pc EXCEPT ![w] = next] \/ pc' = [pc EXCEPT ![w] = "failed"]
  BY DEF Insert, Goto
<1> HIDE DEF stored
<1>5. WorkersTyped'
  BY <1>1, <1>4 DEF Insert, WorkersTyped, Pcs
<1>6. JobsTyped'
  BY DEF Insert, JobsTyped
<1>7. RecordsTyped'
  BY SMTT(30), <1>2, <1>3 DEF Insert, RecordsTyped, Fault
<1> QED BY <1>5, <1>6, <1>7

\* The INSERTs, and the handlers' other calls.
Inserts(w) ==
    \/ InsertCommandAudit(w) \/ InsertFirmwareAttempt(w)
    \/ InsertDeviceMetric(w) \/ InsertAlert(w)

LEMMA HandleType ==
    ASSUME TypeOK, RightHandler, NEW w \in Workers, Handle(w)
    PROVE  TypeOK'
<1> USE TypeParts DEF tableVars, deviceVars, jobVars, kafkaVars, claimVars,
                      historyVars
<1>0. pc[w] # "idle" => job[w] \in JobIds
  BY DEF WorkersTyped
<1>1. CASE Inserts(w)
  <2>1. Result(w) \in {"ok", "error"}
    BY DEF Result
  <2> QED BY <1>1, <2>1, InsertType
          DEF Inserts, InsertCommandAudit, InsertFirmwareAttempt,
              InsertDeviceMetric, InsertAlert, Pcs
<1>2. CASE SendCommand(w)
  <2>1. WorkersTyped'
    BY <1>2 DEF SendCommand, Goto, Answers, WorkersTyped, Pcs
  <2>2. JobsTyped'
    BY <1>0, <1>2 DEF SendCommand, Did, JobsTyped
  <2>3. RecordsTyped'
    <3>1. executed' \in {executed, Append(executed, job[w])}
      BY <1>2 DEF SendCommand
    <3>2. executed' \in Seq(JobIds)
      BY <1>0, <1>2, <3>1 DEF SendCommand, RecordsTyped
    <3> QED BY <1>0, <1>2, <3>2 DEF SendCommand, RecordsTyped
  <2> QED BY <2>1, <2>2, <2>3
<1>3. CASE PushFirmware(w) \/ UpdateDeviceFirmware(w) \/ PostAlert(w)
  <2>1. WorkersTyped'
    BY <1>3 DEF PushFirmware, UpdateDeviceFirmware, PostAlert, Goto, Answers,
                WorkersTyped, Pcs
  <2>2. JobsTyped'
    BY <1>0, <1>3 DEF PushFirmware, UpdateDeviceFirmware, PostAlert, Did, JobsTyped
  <2>3. RecordsTyped'
    BY <1>0, <1>3 DEF PushFirmware, UpdateDeviceFirmware, PostAlert, Fault,
                      RecordsTyped
  <2> QED BY <2>1, <2>2, <2>3
<1>4. CASE GetHealth(w) \/ TouchDevice(w) \/ CreateJob(w)
  <2>1. WorkersTyped'
    BY <1>4 DEF GetHealth, TouchDevice, CreateJob, Goto, Answers, WorkersTyped, Pcs
  <2>2. JobsTyped'
    BY <1>4 DEF GetHealth, TouchDevice, CreateJob, JobsTyped, AllTypes
  <2>3. RecordsTyped'
    BY <1>0, <1>4 DEF GetHealth, TouchDevice, CreateJob, Fault, RecordsTyped
  <2> QED BY <2>1, <2>2, <2>3
<1>5. CASE Publish(w)
  <2>1. AlertFrom(job[w]) \in JobIds /\ job[w] \in JobIds
    BY <1>5, <1>0, AlertOfCheck DEF Publish
  <2>2. topic' \in [Partitions -> Seq(JobIds)] /\ order' \in Seq(JobIds)
    <3>1. /\ topic' \in {topic, [topic EXCEPT ![Home] = Append(@, AlertFrom(job[w]))]}
          /\ order' \in {order, Append(order, AlertFrom(job[w]))}
      BY <1>5 DEF Publish, KeyedByDevice, Append2
    <3>2. topic \in [Partitions -> Seq(JobIds)] /\ order \in Seq(JobIds)
      BY DEF RecordsTyped
    <3>3. /\ Append(topic[Home], AlertFrom(job[w])) \in Seq(JobIds)
          /\ Append(order, AlertFrom(job[w])) \in Seq(JobIds)
      BY <2>1, <3>2, DeviceAssumption
    <3> QED BY <2>1, <3>1, <3>2, <3>3
  <2>3. WorkersTyped'
    BY <1>5 DEF Publish, Goto, WorkersTyped, Pcs
  <2>4. JobsTyped'
    <3>1. effects' \in {effects, [effects EXCEPT ![job[w]] = @ + 1]}
      BY <1>5 DEF Publish
    <3>2. UNCHANGED <<tier, type, payload, state, attempts, retrying>>
      BY <1>5 DEF Publish
    <3> QED BY <2>1, <3>1, <3>2 DEF JobsTyped
  <2>5. RecordsTyped'
    BY SMTT(30), <1>5, <2>2 DEF Publish, Fault, RecordsTyped
  <2> QED BY <2>3, <2>4, <2>5
<1> QED BY <1>1, <1>2, <1>3, <1>4, <1>5 DEF Handle, Inserts

-----------------------------------------------------------------------------
(* Whose turn it is, and in which handler.                                 *)

\* Held messages stay at the head when others are appended.
LEMMA HeldStays ==
    ASSUME TypeOK, HeldIsHead, UNCHANGED <<owns, part, job>>,
           \A w \in Workers : pc[w] # "idle" => pc'[w] # "idle",
           \/ UNCHANGED topic
           \/ \E p \in Partitions, j \in JobIds : topic' = Append2(topic, p, j)
    PROVE  HeldIsHead'
<1>1. \A p \in Partitions : topic[p] # <<>> =>
         topic'[p] # <<>> /\ Head(topic'[p]) = Head(topic[p])
  <2>1. CASE UNCHANGED topic
    BY <2>1
  <2>2. ASSUME NEW q \in Partitions, NEW j \in JobIds, topic' = Append2(topic, q, j)
        PROVE  \A p \in Partitions : topic[p] # <<>> =>
                  topic'[p] # <<>> /\ Head(topic'[p]) = Head(topic[p])
    <3>1. \A s \in Seq(JobIds) :
             s # <<>> => Append(s, j) # <<>> /\ Head(Append(s, j)) = Head(s)
      OBVIOUS
    <3>2. topic \in [Partitions -> Seq(JobIds)]
      BY DEF TypeOK
    <3> QED BY <2>2, <3>1, <3>2 DEF Append2
  <2> QED BY <2>1, <2>2
<1> QED BY <1>1 DEF HeldIsHead

LEMMA NextHeldIsHead ==
    ASSUME TypeOK, RightHandler, HeldIsHead, Next
    PROVE  HeldIsHead'
<1> USE DEF tableVars, deviceVars, jobVars, kafkaVars, claimVars, historyVars
<1>1. ASSUME NEW j \in Jobs, NEW t \in Types, NEW load \in Payloads, Submit(j, t, load)
      PROVE  HeldIsHead'
  BY <1>1, HeldStays, IdsAreJobs, DeviceAssumption DEF Submit, KeyedByDevice
<1>2. ASSUME NEW w \in Workers, NEW p \in Partitions, Fetch(w, p) \/ FetchFails(w, p)
      PROVE  HeldIsHead'
  <2>1. PICK j \in Fetchable(w, p), c \in Pcs \ {"idle"} : Claim(w, p, j) /\ Goto(w, c)
    <3>1. CASE Fetch(w, p)
      <4>1. PICK j \in Fetchable(w, p) :
               Claim(w, p, j)
               /\ Goto(w, IF Decodes(j) THEN FirstCall[type[j]] ELSE "failed")
        BY <3>1 DEF Fetch
      <4>2. type[j] \in AllTypes
        BY <4>1, FetchableIsJob
      <4>3. (IF Decodes(j) THEN FirstCall[type[j]] ELSE "failed") \in Pcs \ {"idle"}
        BY <4>2, FirstCallStarts DEF Starts, Pcs
      <4> QED BY <4>1, <4>3
    <3>2. CASE FetchFails(w, p)
      BY <3>2 DEF FetchFails, Pcs
    <3> QED BY <1>2, <3>1, <3>2
  <2>2. /\ topic[p] # <<>> /\ j = Head(topic[p])
        /\ \A v \in Workers : owns[v] => part[v] # p
    BY <2>1, FetchableIsJob
  <2>3. UNCHANGED topic
    BY <1>2 DEF Fetch, FetchFails
  <2>4. /\ owns' = [owns EXCEPT ![w] = TRUE] /\ part' = [part EXCEPT ![w] = p]
        /\ job' = [job EXCEPT ![w] = j] /\ pc' = [pc EXCEPT ![w] = c]
        /\ c # "idle"
    BY <2>1 DEF Claim, Goto
  <2>5. owns \in [Workers -> BOOLEAN] /\ WorkersTyped
    BY TypeParts DEF WorkersTyped
  <2>6. ASSUME NEW v \in Workers, owns'[v]
        PROVE  /\ pc'[v] # "idle" /\ part'[v] \in Partitions
               /\ topic'[part'[v]] # <<>> /\ Head(topic'[part'[v]]) = job'[v]
    BY <2>2, <2>3, <2>4, <2>5, <2>6 DEF HeldIsHead, WorkersTyped
  <2>7. \A u, v \in Workers : u # v /\ owns'[u] /\ owns'[v] => part'[u] # part'[v]
    BY <2>2, <2>4, <2>5 DEF HeldIsHead, WorkersTyped
  <2> QED BY <2>6, <2>7 DEF HeldIsHead
<1>3. ASSUME NEW w \in Workers, Handle(w)
      PROVE  HeldIsHead'
  <2>1. CASE Publish(w)
    <3>1. AlertFrom(job[w]) \in JobIds
      BY <2>1, AlertOfCheck DEF Publish
    <3>2. topic' = topic \/ topic' = Append2(topic, Home, AlertFrom(job[w]))
      BY <2>1 DEF Publish, KeyedByDevice
    <3>3. /\ UNCHANGED <<owns, part, job>>
          /\ \A v \in Workers : pc[v] # "idle" => pc'[v] # "idle"
      BY <2>1 DEF Publish, Goto, TypeOK
    <3> QED BY <3>1, <3>2, <3>3, HeldStays, DeviceAssumption
  <2>2. CASE ~Publish(w)
    <3>1. UNCHANGED <<owns, part, job, topic>>
      BY <1>3, <2>2
         DEF Handle, SendCommand, InsertCommandAudit, PushFirmware,
             InsertFirmwareAttempt, UpdateDeviceFirmware, InsertDeviceMetric,
             InsertAlert, PostAlert, GetHealth, TouchDevice, CreateJob, Insert
    <3>2. \E c \in Pcs \ {"idle"} : Goto(w, c)
      BY <1>3, <2>2
         DEF Handle, SendCommand, InsertCommandAudit, PushFirmware,
             InsertFirmwareAttempt, UpdateDeviceFirmware, InsertDeviceMetric,
             InsertAlert, PostAlert, GetHealth, TouchDevice, CreateJob, Insert, Pcs
    <3>3. \A v \in Workers : pc[v] # "idle" => pc'[v] # "idle"
      BY <3>2 DEF Goto, TypeOK
    <3> QED BY <3>1, <3>3, HeldStays
  <2> QED BY <2>1, <2>2
<1>4. ASSUME NEW w \in Workers, Around(w)
      PROVE  HeldIsHead'
  <2>1. CASE Success(w) \/ RetryOrDLQ(w) \/ ReportFails(w)
    <3>1. Goto(w, "commit") /\ UNCHANGED <<owns, part, job, topic>>
      BY <2>1 DEF Success, RetryOrDLQ, ReportFails
    <3> QED BY <3>1, HeldStays DEF Goto, TypeOK
  <2>2. CASE CommitMessage(w)
    <3>1. \A p \in Partitions : ~owns[w] \/ p # part[w] => topic'[p] = topic[p]
      BY <2>2 DEF CommitMessage, TypeOK
    <3> QED BY ZenonT(30), <2>2, <3>1 DEF CommitMessage, Release, Goto, HeldIsHead, TypeOK
  <2>3. CASE Crash(w)
    BY ZenonT(30), <2>3 DEF Crash, Release, Goto, HeldIsHead, TypeOK
  <2>4. CASE Rebalance(w)
    <3>1. /\ \A v \in Workers : owns'[v] => owns[v]
          /\ UNCHANGED <<pc, job, part, topic>>
      BY <2>4 DEF Rebalance, TypeOK
    <3> QED BY <3>1 DEF HeldIsHead
  <2> QED BY <1>4, <2>1, <2>2, <2>3, <2>4 DEF Around
<1>5. ASSUME NEW j \in JobIds, NEW p \in Partitions, Forward(j, p)
      PROVE  HeldIsHead'
  BY <1>5, HeldStays DEF Forward
<1>6. CASE AllDone
  BY <1>6 DEF AllDone, vars, HeldIsHead
<1> QED BY <1>1, <1>2, <1>3, <1>4, <1>5, <1>6 DEF Next, Around

\* A row is written by a submit or a health check.
LEMMA TypeChanges ==
    ASSUME Next
    PROVE  \/ UNCHANGED type
           \/ \E j \in Jobs, t \in Types, load \in Payloads : Submit(j, t, load)
           \/ \E w \in Workers : CreateJob(w)
BY ZenonT(30) DEF Next, Fetch, FetchFails, Handle, SendCommand, InsertCommandAudit,
       PushFirmware, InsertFirmwareAttempt, UpdateDeviceFirmware,
       InsertDeviceMetric, InsertAlert, PostAlert, GetHealth, TouchDevice,
       Publish, Insert, Success, RetryOrDLQ, ReportFails, CommitMessage, Crash,
       Rebalance, Forward, AllDone, vars, jobVars

\* A row keeps its type, and a job its row.
LEMMA TypesStay ==
    ASSUME TypeOK, RightHandler, Next
    PROVE  /\ \A j \in Known : type'[j] = type[j]
           /\ Known \subseteq Known' /\ Seq(Known) \subseteq Seq(Known')
           /\ \A j \in Jobs : type'[AlertFrom(j)] \in {"none", "AlertGeneration"}
<1>1. ASSUME NEW j \in Jobs, NEW t \in Types, NEW load \in Payloads, Submit(j, t, load)
      PROVE  /\ \A k \in Known : type'[k] = type[k]
             /\ \A k \in Jobs : type'[AlertFrom(k)] = type[AlertFrom(k)]
  BY <1>1, IdsAreJobs DEF Submit, Known, TypeOK
<1>2. ASSUME NEW w \in Workers, CreateJob(w)
      PROVE  /\ \A k \in Known : type'[k] = type[k]
             /\ \A k \in Jobs : type'[AlertFrom(k)]
                                   \in {type[AlertFrom(k)], "AlertGeneration"}
  <2>1. \/ type' = type
        \/ /\ type[AlertFrom(job[w])] = "none"
           /\ type' = [type EXCEPT ![AlertFrom(job[w])] = "AlertGeneration"]
    BY <1>2 DEF CreateJob, Conflicting
  <2> QED BY SMTT(30), <2>1, IdsAreJobs DEF Known, TypeOK
<1>3. \A j \in Known : type'[j] = type[j]
  BY <1>1, <1>2, TypeChanges
<1>4. Known \subseteq Known'
  BY <1>3 DEF Known
<1>5. \A j \in Jobs : type'[AlertFrom(j)] \in {"none", "AlertGeneration"}
  BY <1>1, <1>2, TypeChanges DEF RightHandler
<1> QED BY <1>3, <1>4, <1>5

\* Every message that waits is of a job with a row.
LEMMA TopicsStay ==
    ASSUME TypeOK, RightHandler, HeldIsHead, Next
    PROVE  topic' \in [Partitions -> Seq(Known')]
<1> USE TypesStay
<1>0. topic \in [Partitions -> Seq(Known')]
  BY DEF RightHandler
<1>1. ASSUME NEW p \in Partitions, NEW j \in Known', topic' = Append2(topic, p, j)
      PROVE  topic' \in [Partitions -> Seq(Known')]
  BY <1>0, <1>1 DEF Append2
<1>2. ASSUME NEW j \in Jobs, NEW t \in Types, NEW load \in Payloads, Submit(j, t, load)
      PROVE  topic' \in [Partitions -> Seq(Known')]
  <2>1. type'[j] = t /\ t # "none" /\ j \in JobIds
    BY <1>2, IdsAreJobs, DeviceAssumption DEF Submit, TypeOK, AllTypes
  <2>2. topic' = Append2(topic, Home, j) /\ Home \in Partitions
    BY <1>2, DeviceAssumption DEF Submit, KeyedByDevice
  <2> QED BY <1>1, <2>1, <2>2 DEF Known
<1>3. ASSUME NEW w \in Workers, Publish(w)
      PROVE  topic' \in [Partitions -> Seq(Known')]
  <2>1. AlertFrom(job[w]) \in Known /\ Home \in Partitions
    BY <1>3, DeviceAssumption DEF Publish, RightHandler
  <2>2. topic' = topic \/ topic' = Append2(topic, Home, AlertFrom(job[w]))
    BY <1>3 DEF Publish, KeyedByDevice
  <2> QED BY <1>0, <1>1, <2>1, <2>2
<1>4. ASSUME NEW w \in Workers, CommitMessage(w)
      PROVE  topic' \in [Partitions -> Seq(Known')]
  <2>1. CASE owns[w]
    <3>1. part[w] \in Partitions /\ topic[part[w]] # <<>>
      BY <2>1 DEF HeldIsHead
    <3>2. Tail(topic[part[w]]) \in Seq(Known')
      BY <1>0, <3>1
    <3> QED BY <1>0, <1>4, <2>1, <3>2 DEF CommitMessage
  <2> QED BY <1>0, <1>4, <2>1 DEF CommitMessage
<1>5. ASSUME NEW j \in JobIds, NEW p \in Partitions, Forward(j, p)
      PROVE  topic' \in [Partitions -> Seq(Known')]
  <2>1. j \in Known
    BY <1>5 DEF Forward, RightHandler, TypeOK
  <2> QED BY <1>1, <1>5, <2>1 DEF Forward
<1>6. \/ UNCHANGED topic
      \/ \E j \in Jobs, t \in Types, load \in Payloads : Submit(j, t, load)
      \/ \E w \in Workers : Publish(w) \/ CommitMessage(w)
      \/ \E j \in JobIds, p \in Partitions : Forward(j, p)
  BY ZenonT(30) DEF Next, Fetch, FetchFails, Handle, SendCommand,
         InsertCommandAudit, PushFirmware, InsertFirmwareAttempt,
         UpdateDeviceFirmware, InsertDeviceMetric, InsertAlert, PostAlert,
         GetHealth, TouchDevice, CreateJob, Insert, Success,
         RetryOrDLQ, ReportFails, Crash, Rebalance, AllDone, vars, kafkaVars
<1> QED BY <1>0, <1>2, <1>3, <1>4, <1>5, <1>6

\* Every worker is in the handler of its job's type.
InHandler(w) ==
    pc[w] # "idle" =>
        /\ job[w] \in Known
        /\ pc[w] \in Calls => pc[w] \in CallsOf[type[job[w]]]
        /\ pc[w] = "publishAlert" => AlertFrom(job[w]) \in Known

LEMMA NextInHandler ==
    ASSUME TypeOK, RightHandler, Next, NEW v \in Workers
    PROVE  InHandler(v)'
<1> USE TypesStay DEF tableVars, deviceVars, jobVars, kafkaVars, claimVars,
                      historyVars
<1>0. InHandler(v)
  BY DEF RightHandler, InHandler
<1>1. ASSUME UNCHANGED <<pc[v], job[v]>> PROVE InHandler(v)'
  BY <1>0, <1>1 DEF InHandler
<1>2. ASSUME NEW w \in Workers, NEW p \in Partitions, Fetch(w, p)
      PROVE  InHandler(v)'
  <2>1. PICK j \in Fetchable(w, p) :
           Claim(w, p, j)
           /\ Goto(w, IF Decodes(j) THEN FirstCall[type[j]] ELSE "failed")
    BY <1>2 DEF Fetch
  <2>2. j \in Known /\ type[j] \in AllTypes /\ type'[j] = type[j]
    BY <2>1, FetchableIsJob
  <2>3. FirstCall[type[j]] \in CallsOf[type[j]] /\ FirstCall[type[j]] # "publishAlert"
    BY <2>2, FirstCallStarts DEF Starts
  <2>4. CASE v = w
    <3>1. job'[v] = j /\ pc'[v] \in {FirstCall[type[j]], "failed"}
      BY <2>1, <2>4 DEF Claim, Goto, TypeOK
    <3> QED BY <2>2, <2>3, <3>1 DEF InHandler, Calls
  <2>5. CASE v # w
    BY <1>1, <2>1, <2>5 DEF Claim, Goto, TypeOK
  <2> QED BY <2>4, <2>5
<1>3. ASSUME NEW w \in Workers, NEW p \in Partitions, FetchFails(w, p)
      PROVE  InHandler(v)'
  <2>1. PICK j \in Fetchable(w, p) : Claim(w, p, j) /\ Goto(w, "commit")
    BY <1>3 DEF FetchFails
  <2>2. j \in Known
    BY <2>1, FetchableIsJob
  <2>3. CASE v = w
    BY <2>1, <2>2, <2>3 DEF Claim, Goto, TypeOK, InHandler, Calls
  <2>4. CASE v # w
    BY <1>1, <2>1, <2>4 DEF Claim, Goto, TypeOK
  <2> QED BY <2>3, <2>4
<1>4. ASSUME NEW w \in Workers, Handle(w)
      PROVE  InHandler(v)'
  <2>1. UNCHANGED job
    BY <1>4 DEF Handle, SendCommand, InsertCommandAudit, PushFirmware,
             InsertFirmwareAttempt, UpdateDeviceFirmware, InsertDeviceMetric,
             InsertAlert, PostAlert, GetHealth, TouchDevice, CreateJob, Insert,
             Publish
  <2>2. /\ pc[w] # "idle" /\ pc[w] \in Calls
        /\ \E c \in Calls \cup {"ok", "failed"} :
              /\ Goto(w, c)
              /\ c \in Calls => \A t \in AllTypes : pc[w] \in CallsOf[t] => c \in CallsOf[t]
              /\ c = "publishAlert" => CreateJob(w) /\ ~Conflicting(job[w])
    BY <1>4 DEF Handle, SendCommand, InsertCommandAudit, PushFirmware,
             InsertFirmwareAttempt, UpdateDeviceFirmware, InsertDeviceMetric,
             InsertAlert, PostAlert, GetHealth, TouchDevice, CreateJob, Insert,
             Publish, Calls, CallsOf, AllTypes
  <2>3. CASE v # w
    BY <1>1, <2>1, <2>2, <2>3 DEF Goto, TypeOK
  <2>4. CASE v = w
    <3>1. PICK c \in Calls \cup {"ok", "failed"} :
             /\ Goto(w, c)
             /\ c \in Calls => \A t \in AllTypes : pc[w] \in CallsOf[t] => c \in CallsOf[t]
             /\ c = "publishAlert" => CreateJob(w) /\ ~Conflicting(job[w])
      BY <2>2
    <3>2. /\ job[v] \in Known /\ type[job[v]] \in AllTypes
          /\ pc[v] \in CallsOf[type[job[v]]] /\ pc'[v] = c
      BY <1>0, <2>2, <2>4, <3>1 DEF InHandler, Known, Goto, TypeOK
    <3>3. c \in Calls => c \in CallsOf[type[job[v]]]
      BY <2>4, <3>1, <3>2
    <3>4. c = "publishAlert" => AlertFrom(job[v]) \in Known'
      <4>1. SUFFICES ASSUME c = "publishAlert" PROVE AlertFrom(job[v]) \in Known'
        OBVIOUS
      <4>2. CreateJob(w) /\ ~Conflicting(job[w]) /\ pc'[w] = "publishAlert"
        BY <2>4, <3>1, <3>2, <4>1
      <4>3. type' = [type EXCEPT ![AlertFrom(job[w])] = "AlertGeneration"]
        BY <4>2 DEF CreateJob, Goto, TypeOK
      <4>4. AlertFrom(job[w]) \in JobIds
        BY <4>2, AlertOfCheck DEF CreateJob
      <4> QED BY <2>4, <4>3, <4>4 DEF Known, TypeOK
    <3> QED BY <2>1, <3>2, <3>3, <3>4 DEF InHandler
  <2> QED BY <2>3, <2>4
<1>5. ASSUME NEW w \in Workers, Around(w)
      PROVE  InHandler(v)'
  <2>1. CASE Success(w) \/ RetryOrDLQ(w) \/ ReportFails(w)
    <3>1. Goto(w, "commit") /\ UNCHANGED job /\ pc[w] # "idle"
      BY <2>1 DEF Success, RetryOrDLQ, ReportFails
    <3> QED BY <1>0, <1>1, <3>1 DEF Goto, TypeOK, InHandler, Calls
  <2>2. CASE CommitMessage(w) \/ Crash(w)
    <3>1. Release(w)
      BY <2>2 DEF CommitMessage, Crash
    <3> QED BY <1>1, <3>1 DEF Release, Goto, TypeOK, InHandler
  <2>3. CASE Rebalance(w)
    BY <1>1, <2>3 DEF Rebalance
  <2> QED BY <1>5, <2>1, <2>2, <2>3 DEF Around
<1>6. CASE \/ \E j \in Jobs, t \in Types, load \in Payloads : Submit(j, t, load)
           \/ \E j \in JobIds, p \in Partitions : Forward(j, p)
           \/ AllDone
  <2>1. UNCHANGED <<pc, job>>
    BY <1>6 DEF Submit, Forward, AllDone, vars
  <2> QED BY <1>1, <2>1
<1> QED BY <1>2, <1>3, <1>4, <1>5, <1>6 DEF Next, Around

LEMMA RetriesStay ==
    ASSUME TypeOK, RightHandler, Next
    PROVE  \A j \in JobIds : retrying'[j] > 0 => j \in Known'
<1>1. \A w \in Workers : pc[w] # "idle" => job[w] \in Known
  BY DEF RightHandler
<1>2. ASSUME NEW w \in Workers, RetryOrDLQ(w) \/ ReportFails(w)
      PROVE  retrying' \in {retrying, [retrying EXCEPT ![job[w]] = @ + 1]}
             /\ job[w] \in Known
  BY <1>1, <1>2 DEF RetryOrDLQ, ReportFails
<1>3. ASSUME NEW j \in JobIds, NEW p \in Partitions, Forward(j, p)
      PROVE  retrying' = [retrying EXCEPT ![j] = @ - 1]
  BY <1>3 DEF Forward
<1>4. \/ UNCHANGED retrying
      \/ \E w \in Workers : RetryOrDLQ(w) \/ ReportFails(w)
      \/ \E j \in JobIds, p \in Partitions : Forward(j, p)
  BY ZenonT(30) DEF Next, Submit, Fetch, FetchFails, Handle, SendCommand, InsertCommandAudit,
         PushFirmware, InsertFirmwareAttempt, UpdateDeviceFirmware,
         InsertDeviceMetric, InsertAlert, PostAlert, GetHealth, TouchDevice,
         CreateJob, Publish, Insert, Success, CommitMessage, Crash, Rebalance,
         AllDone, vars, kafkaVars
<1>5. \A j \in JobIds : retrying[j] > 0 => j \in Known
  BY DEF RightHandler
<1>6. retrying \in [JobIds -> Nat]
  BY DEF TypeOK
<1>7. \A j \in JobIds : retrying'[j] > 0 =>
         retrying[j] > 0 \/ \E w \in Workers : j = job[w] /\ job[w] \in Known
  BY <1>2, <1>3, <1>4, <1>6
<1> QED BY <1>5, <1>7, TypesStay

Sane == TypeOK /\ RightHandler /\ HeldIsHead

LEMMA NextSane ==
    ASSUME Sane, [Next]_vars
    PROVE  Sane'
<1>1. CASE UNCHANGED vars
  BY <1>1 DEF Sane, vars, tableVars, deviceVars, jobVars, kafkaVars, claimVars,
              historyVars, TypeOK, RightHandler, HeldIsHead, Known
<1>2. CASE Next
  <2> USE <1>2 DEF Sane
  <2>1. TypeOK'
    BY SubmitType, FetchType, AroundType, HandleType, ForwardType, UnchangedType
       DEF Next, Around, AllDone
  <2>2. HeldIsHead'
    BY NextHeldIsHead
  <2>3. RightHandler'
    BY TypesStay, TopicsStay, RetriesStay, NextInHandler DEF RightHandler, InHandler
  <2> QED BY <2>1, <2>2, <2>3
<1> QED BY <1>1, <1>2

LEMMA InitSane == Init => Sane
<1> SUFFICES ASSUME Init PROVE Sane
  OBVIOUS
<1>1. TypeOK
  BY InitType
<1>2. topic \in [Partitions -> Seq(Known)]
  BY DEF Init
<1>3. RightHandler
  BY <1>2, IdsAreJobs DEF Init, RightHandler
<1>4. HeldIsHead
  BY DEF Init, HeldIsHead
<1> QED BY <1>1, <1>3, <1>4 DEF Sane

LEMMA AlwaysSane == Spec => []Sane
BY InitSane, NextSane, PTL DEF Spec

\* Every variable of DeviceJobs keeps its type, whatever fails.
THEOREM DevicesTypeCorrect == Spec => []TypeOK
<1>1. Sane => TypeOK
  BY DEF Sane
<1> QED BY <1>1, AlwaysSane, PTL

-----------------------------------------------------------------------------
(* What the jobs' runs leave behind.                                       *)

\* A job without a row has left nothing.
Fresh ==
    \A j \in JobIds \ Known :
        /\ effects[j] = 0 /\ rows[j].ok = 0 /\ rows[j].error = 0
        /\ state[j] # "SUCCESS"

\* Acts outside the platform.
Acts(w) == SendCommand(w) \/ PushFirmware(w) \/ PostAlert(w)

LEMMA EffectsChange ==
    ASSUME Next
    PROVE  \/ UNCHANGED effects
           \/ \E w \in Workers : Acts(w)
           \/ \E w \in Workers : Publish(w)
BY ZenonT(30) DEF Next, Acts, Submit, Fetch, FetchFails, Handle, InsertCommandAudit,
       InsertFirmwareAttempt, UpdateDeviceFirmware, InsertDeviceMetric,
       InsertAlert, GetHealth, TouchDevice, CreateJob, Insert, Success,
       RetryOrDLQ, ReportFails, CommitMessage, Crash, Rebalance, Forward, AllDone,
       vars, deviceVars

LEMMA ActsOnce ==
    ASSUME Sane, NEW w \in Workers, Acts(w) \/ Publish(w)
    PROVE  /\ job[w] \in Known /\ job[w] \in JobIds
           /\ effects' \in {effects, [effects EXCEPT ![job[w]] = @ + 1]}
           /\ Acts(w) => type[job[w]] # "HealthCheck" /\ pc[w] # "publishAlert"
<1>1. pc[w] \in Calls
  BY DEF Acts, SendCommand, PushFirmware, PostAlert, Publish, Calls
<1>2. job[w] \in Known /\ job[w] \in JobIds /\ type[job[w]] \in AllTypes
      /\ pc[w] \in CallsOf[type[job[w]]]
  BY <1>1 DEF Sane, RightHandler, TypeOK, Known, Calls
<1>3. effects' \in {effects, [effects EXCEPT ![job[w]] = @ + 1]}
  BY DEF Acts, SendCommand, PushFirmware, PostAlert, Publish, Did
<1>4. Acts(w) => pc[w] \in {"send", "push", "webhook"}
  BY DEF Acts, SendCommand, PushFirmware, PostAlert
<1> QED BY <1>2, <1>3, <1>4 DEF CallsOf, AllTypes

LEMMA RowsChange ==
    ASSUME Next
    PROVE  UNCHANGED rows \/ \E w \in Workers : Inserts(w)
BY DEF Next, Submit, Fetch, FetchFails, Handle, SendCommand, PushFirmware,
       UpdateDeviceFirmware, PostAlert, GetHealth, TouchDevice, CreateJob,
       Publish, Success, RetryOrDLQ, ReportFails, CommitMessage, Crash,
       Rebalance, Forward, AllDone, Inserts, vars, tableVars

\* The rows a run of Insert adds: the job's own, of the result, one or none; none
\* only with a fault or a payload that does not fit, and then the run failed.
LEMMA InsertAdds ==
    ASSUME Sane, NEW w \in Workers, NEW at \in Calls, NEW result \in {"ok", "error"},
           NEW next, Insert(w, at, result, next)
    PROVE  /\ job[w] \in JobIds /\ job[w] \in Known /\ pc[w] = at
           /\ \A k \in JobIds : k # job[w] => rows'[k] = rows[k]
           /\ \/ /\ result = "ok" /\ rows'[job[w]].ok = rows[job[w]].ok + 1
                 /\ rows'[job[w]].error = rows[job[w]].error
                 /\ pc' = [pc EXCEPT ![w] = next] \/ pc' = [pc EXCEPT ![w] = "failed"]
                 /\ faults' \in Nat /\ faults' >= faults
              \/ /\ result = "error" /\ rows'[job[w]].error = rows[job[w]].error + 1
                 /\ rows'[job[w]].ok = rows[job[w]].ok
                 /\ pc' = [pc EXCEPT ![w] = next] \/ pc' = [pc EXCEPT ![w] = "failed"]
                 /\ faults' \in Nat /\ faults' >= faults
              \/ /\ rows' = rows /\ pc' = [pc EXCEPT ![w] = "failed"]
                 /\ faults' = faults + 1 \/ (faults' = faults /\ ~Fits(job[w]))
<1> DEFINE j == job[w]
           stored == [rows EXCEPT ![j][result] = @ + 1]
<1>1. pc[w] = at /\ pc[w] # "idle"
  BY DEF Insert, Calls
<1>2. j \in Known /\ j \in JobIds
  BY <1>1 DEF Sane, RightHandler, Known
<1>3. /\ rows \in [JobIds -> [ok : Nat, error : Nat]]
      /\ rows[j] \in [ok : Nat, error : Nat] /\ faults \in Nat
  BY <1>2 DEF Sane, TypeOK
<1>4. \/ rows' = stored /\ Goto(w, next) /\ faults' = faults
      \/ ~Fits(j) /\ rows' = rows /\ Goto(w, "failed") /\ faults' = faults
      \/ rows' \in {rows, stored} /\ Goto(w, "failed") /\ faults' = faults + 1
  BY DEF Insert, Fault
<1>5. \/ /\ result = "ok" /\ stored[j].ok = rows[j].ok + 1
         /\ stored[j].error = rows[j].error
      \/ /\ result = "error" /\ stored[j].error = rows[j].error + 1
         /\ stored[j].ok = rows[j].ok
  <2>1. CASE result = "ok"
    <3>1. stored[j] = [rows[j] EXCEPT !.ok = rows[j].ok + 1]
      BY <1>2, <1>3, <2>1
    <3> QED BY <1>3, <2>1, <3>1
  <2>2. CASE result = "error"
    <3>1. stored[j] = [rows[j] EXCEPT !.error = rows[j].error + 1]
      BY <1>2, <1>3, <2>2
    <3> QED BY <1>3, <2>2, <3>1
  <2> QED BY <2>1, <2>2
<1>6. \A k \in JobIds : k # j => stored[k] = rows[k]
  BY <1>3
<1> HIDE DEF stored
<1>7. CASE rows' = stored
  BY <1>1, <1>2, <1>3, <1>4, <1>5, <1>6, <1>7 DEF Goto
<1>8. CASE rows' = rows /\ rows # stored
  BY <1>1, <1>2, <1>4, <1>8 DEF Goto
<1> QED BY <1>4, <1>7, <1>8

\* Which INSERT: the call, the result it stores and the call after it.
LEMMA InsertsAre ==
    ASSUME NEW w \in Workers, Inserts(w)
    PROVE  \E at \in Calls, result \in {"ok", "error"}, next \in {"ok", "failed",
                  "updateFirmware", "webhook"} :
              /\ Insert(w, at, result, next)
              /\ at \in {"insertAudit", "insertAttempt"} =>
                    /\ result = "ok" <=> answer[w] = "ok"
                    /\ next \in {"ok", "updateFirmware"} => result = "ok"
              /\ at \in {"insertMetric", "insertAlert"} => result = "ok"
              /\ next = "updateFirmware" => at = "insertAttempt"
              /\ next = "webhook" => at = "insertAlert"
              /\ at = "insertAlert" => next = "webhook"
              /\ at \in {"insertAudit", "insertAttempt", "insertMetric", "insertAlert"}
BY DEF Inserts, InsertCommandAudit, InsertFirmwareAttempt, InsertDeviceMetric,
       InsertAlert, Result, Calls

\* Nothing is taken back, and only jobs that have a row leave anything.
LEMMA NothingIsTakenBack ==
    ASSUME Sane, Next, NEW j \in JobIds
    PROVE  /\ effects'[j] >= effects[j]
           /\ rows'[j].ok >= rows[j].ok /\ rows'[j].error >= rows[j].error
           /\ j \notin Known =>
                 /\ effects'[j] = effects[j] /\ rows'[j].ok = rows[j].ok
                 /\ rows'[j].error = rows[j].error
<1>1. /\ effects \in [JobIds -> Nat] /\ rows[j].ok \in Nat /\ rows[j].error \in Nat
      /\ effects[j] \in Nat
  BY DEF Sane, TypeOK
<1>2. effects'[j] >= effects[j] /\ (j \notin Known => effects'[j] = effects[j])
  <2>1. CASE UNCHANGED effects
    BY <1>1, <2>1
  <2>2. ASSUME NEW w \in Workers, Acts(w) \/ Publish(w)
        PROVE  effects'[j] >= effects[j] /\ (j \notin Known => effects'[j] = effects[j])
    BY <1>1, <2>2, ActsOnce
  <2> QED BY <2>1, <2>2, EffectsChange
<1>3. /\ rows'[j].ok >= rows[j].ok /\ rows'[j].error >= rows[j].error
      /\ j \notin Known => rows'[j].ok = rows[j].ok /\ rows'[j].error = rows[j].error
  <2>1. CASE UNCHANGED rows
    BY <1>1, <2>1
  <2>2. ASSUME NEW w \in Workers, Inserts(w)
        PROVE  /\ rows'[j].ok >= rows[j].ok /\ rows'[j].error >= rows[j].error
               /\ j \notin Known => rows'[j].ok = rows[j].ok
                                    /\ rows'[j].error = rows[j].error
    <3>1. PICK at \in Calls, result \in {"ok", "error"}, next \in {"ok", "failed",
                  "updateFirmware", "webhook"} : Insert(w, at, result, next)
      BY <2>2, InsertsAre
    <3> QED BY <1>1, <3>1, InsertAdds
  <2> QED BY <2>1, <2>2, RowsChange
<1> QED BY <1>2, <1>3

LEMMA StateChanges ==
    ASSUME Sane, Next, NEW j \in JobIds, state'[j] = "SUCCESS"
    PROVE  \/ state[j] = "SUCCESS"
           \/ \E w \in Workers : pc[w] = "ok" /\ job[w] = j
<1>1. state \in [JobIds -> JobStates]
  BY DEF Sane, TypeOK, JobStates
<1>2. \/ UNCHANGED state
      \/ \E k \in JobIds : state' = [state EXCEPT ![k] = "QUEUED"]
      \/ \E k \in JobIds : state' = [state EXCEPT ![k] = "RUNNING"]
      \/ \E w \in Workers : RetryOrDLQ(w) \/ Success(w)
  <2>1. ASSUME NEW w \in Workers, NEW p \in Partitions, Fetch(w, p) \/ FetchFails(w, p)
        PROVE  UNCHANGED state \/ \E k \in JobIds : state' = [state EXCEPT ![k] = "RUNNING"]
    BY <2>1, FetchableIsJob DEF Fetch, FetchFails, Sane
  <2> QED BY ZenonT(30), <2>1, IdsAreJobs
          DEF Next, Submit, Handle, SendCommand, InsertCommandAudit, PushFirmware,
              InsertFirmwareAttempt, UpdateDeviceFirmware, InsertDeviceMetric,
              InsertAlert, PostAlert, GetHealth, TouchDevice, CreateJob, Publish,
              Insert, ReportFails, CommitMessage, Crash, Rebalance, Forward,
              AllDone, vars, jobVars
<1>3. ASSUME NEW w \in Workers, RetryOrDLQ(w)
      PROVE  state'[j] = "SUCCESS" => state[j] = "SUCCESS"
  BY <1>1, <1>3 DEF RetryOrDLQ
<1>4. ASSUME NEW w \in Workers, Success(w)
      PROVE  state[j] = "SUCCESS" \/ (pc[w] = "ok" /\ job[w] = j)
  BY <1>1, <1>4 DEF Success
<1> QED BY <1>1, <1>2, <1>3, <1>4

\* Every step keeps Fresh: only a worker at a job adds to what it left.
LEMMA NextFresh ==
    ASSUME Sane, Fresh, Next
    PROVE  Fresh'
<1> SUFFICES ASSUME NEW j \in JobIds, j \notin Known'
             PROVE  /\ effects'[j] = 0 /\ rows'[j].ok = 0 /\ rows'[j].error = 0
                    /\ state'[j] # "SUCCESS"
  BY DEF Fresh
<1>1. j \notin Known
  BY TypesStay DEF Sane
<1>2. \A w \in Workers : pc[w] = "ok" => job[w] # j
  BY <1>1 DEF Sane, RightHandler
<1> QED BY <1>1, <1>2, NothingIsTakenBack, StateChanges DEF Fresh

\* What a step is to a worker: another's, a call of its handler, or one of the
\* steps around it.
LEMMA WorkerMoves ==
    ASSUME Sane, Next, NEW v \in Workers
    PROVE  \/ pc'[v] = pc[v] /\ job'[v] = job[v] /\ answer'[v] = answer[v]
           \/ Handle(v)
           \/ pc'[v] \in Starts \cup {"idle", "commit", "failed"}
<1> DEFINE Kept == pc'[v] = pc[v] /\ job'[v] = job[v] /\ answer'[v] = answer[v]
           Around0 == pc'[v] \in Starts \cup {"idle", "commit", "failed"}
<1> USE DEF Sane, TypeOK, claimVars
<1>1. ASSUME NEW w \in Workers, NEW p \in Partitions, Fetch(w, p)
      PROVE  Kept \/ Around0
  <2>1. PICK j \in Fetchable(w, p) :
           Claim(w, p, j)
           /\ Goto(w, IF Decodes(j) THEN FirstCall[type[j]] ELSE "failed")
    BY <1>1 DEF Fetch
  <2>2. type[j] \in AllTypes
    BY <2>1, FetchableIsJob
  <2>3. (IF Decodes(j) THEN FirstCall[type[j]] ELSE "failed") \in Starts \cup {"failed"}
    BY <2>2, FirstCallStarts DEF Starts
  <2> QED BY <2>1, <2>3 DEF Claim, Goto
<1>2. ASSUME NEW w \in Workers, NEW p \in Partitions, FetchFails(w, p)
      PROVE  Kept \/ Around0
  BY <1>2 DEF FetchFails, Claim, Goto
<1>3. ASSUME NEW w \in Workers, Handle(w), v # w
      PROVE  Kept
  <2>1. /\ UNCHANGED job /\ \E c \in Pcs : Goto(w, c)
        /\ UNCHANGED answer \/ \E a : answer' = [answer EXCEPT ![w] = a]
    BY <1>3 DEF Handle, SendCommand, InsertCommandAudit, PushFirmware,
              InsertFirmwareAttempt, UpdateDeviceFirmware, InsertDeviceMetric,
              InsertAlert, PostAlert, GetHealth, TouchDevice, CreateJob, Insert,
              Publish, Pcs
  <2> QED BY <1>3, <2>1 DEF Goto
<1>4. ASSUME NEW w \in Workers, Around(w)
      PROVE  Kept \/ Around0
  <2>1. CASE Success(w) \/ RetryOrDLQ(w) \/ ReportFails(w)
    <3>1. Goto(w, "commit") /\ UNCHANGED <<job, answer>>
      BY <2>1 DEF Success, RetryOrDLQ, ReportFails
    <3> QED BY <3>1 DEF Goto
  <2>2. CASE CommitMessage(w) \/ Crash(w)
    <3>1. Release(w)
      BY <2>2 DEF CommitMessage, Crash
    <3> QED BY <3>1 DEF Release, Goto
  <2>3. CASE Rebalance(w)
    BY <2>3 DEF Rebalance
  <2> QED BY <1>4, <2>1, <2>2, <2>3 DEF Around
<1>5. CASE \E w \in Workers, p \in Partitions : Fetch(w, p) \/ FetchFails(w, p)
  BY <1>1, <1>2, <1>5
<1>6. CASE \E w \in Workers : Handle(w)
  BY <1>3, <1>6
<1>7. CASE \E w \in Workers : Around(w)
  BY <1>4, <1>7
<1>8. CASE \/ \E j \in Jobs, t \in Types, load \in Payloads : Submit(j, t, load)
           \/ \E j \in JobIds, p \in Partitions : Forward(j, p)
           \/ AllDone
  <2>1. UNCHANGED <<pc, job, answer>>
    BY <1>8 DEF Submit, Forward, AllDone, vars
  <2> QED BY <2>1
<1> QED BY <1>5, <1>6, <1>7, <1>8 DEF Next, Around

-----------------------------------------------------------------------------
(* One alert for a health check.                                           *)

\* The alert is published by whoever inserted its row, and nobody published
\* before.
OneAlert ==
    \A j \in Jobs : type[j] = "HealthCheck" =>
        /\ effects[j] <= 1
        /\ type[AlertFrom(j)] = "none" => effects[j] = 0
        /\ \A v \in Workers : job[v] = j /\ pc[v] = "publishAlert" =>
              /\ effects[j] = 0
              /\ \A w \in Workers : job[w] = j /\ pc[w] = "publishAlert" => v = w

AlertInv == Sane /\ Fresh /\ OneAlert

\* A worker comes to the publish by inserting the alert's row.
LEMMA ComesToPublish ==
    ASSUME Sane, Next, NEW v \in Workers, pc'[v] = "publishAlert"
    PROVE  /\ job'[v] = job[v] /\ pc[v] # "idle"
           /\ \/ pc[v] = "publishAlert"
              \/ CreateJob(v) /\ type[AlertFrom(job[v])] = "none"
                 /\ type'[AlertFrom(job[v])] # "none"
<1>1. ASSUME Handle(v)
      PROVE  /\ job'[v] = job[v] /\ pc[v] # "idle"
             /\ CreateJob(v) /\ type[AlertFrom(job[v])] = "none"
             /\ type'[AlertFrom(job[v])] # "none"
  <2>1. /\ UNCHANGED job /\ pc[v] # "idle"
        /\ \E c \in Pcs : Goto(v, c) /\ (c = "publishAlert" =>
                                           CreateJob(v) /\ ~Conflicting(job[v]))
    BY <1>1 DEF Handle, SendCommand, InsertCommandAudit, PushFirmware,
              InsertFirmwareAttempt, UpdateDeviceFirmware, InsertDeviceMetric,
              InsertAlert, PostAlert, GetHealth, TouchDevice, CreateJob, Insert,
              Publish, Pcs, claimVars
  <2>2. CreateJob(v) /\ ~Conflicting(job[v])
    BY <2>1 DEF Goto, Sane, TypeOK
  <2>3. type' = [type EXCEPT ![AlertFrom(job[v])] = "AlertGeneration"]
    BY <2>2 DEF CreateJob, Goto, Sane, TypeOK
  <2>4. AlertFrom(job[v]) \in JobIds
    BY <2>2, AlertOfCheck DEF CreateJob, Sane
  <2> QED BY <2>1, <2>2, <2>3, <2>4 DEF Conflicting, Sane, TypeOK
<1>2. pc'[v] \notin Starts \cup {"idle", "commit", "failed"}
  BY DEF Starts
<1> QED BY <1>1, <1>2, WorkerMoves

LEMMA NextOneAlert ==
    ASSUME AlertInv, Next
    PROVE  OneAlert'
<1> SUFFICES ASSUME NEW j \in Jobs, type'[j] = "HealthCheck"
             PROVE  /\ effects'[j] <= 1
                    /\ type'[AlertFrom(j)] = "none" => effects'[j] = 0
                    /\ \A v \in Workers : job'[v] = j /\ pc'[v] = "publishAlert" =>
                          /\ effects'[j] = 0
                          /\ \A w \in Workers :
                                job'[w] = j /\ pc'[w] = "publishAlert" => v = w
  BY DEF OneAlert
<1> DEFINE Publishes(v) == job[v] = j /\ pc[v] = "publishAlert"
<1>0. Sane /\ Fresh /\ j \in JobIds /\ AlertFrom(j) \in JobIds /\ effects[j] \in Nat
  BY IdsAreJobs DEF AlertInv, Sane, TypeOK
<1> USE <1>0
<1>1. CASE j \notin Known
  \* Submitted in this step: nobody has it yet.
  <2>1. \A w \in Workers : pc[w] # "idle" => job[w] # j
    BY <1>1 DEF Sane, RightHandler
  <2>2. \A v \in Workers : ~(job'[v] = j /\ pc'[v] = "publishAlert")
    BY <2>1, ComesToPublish
  <2>3. effects'[j] = 0
    BY <1>1, NothingIsTakenBack DEF Fresh
  <2> QED BY <2>2, <2>3
<1>2. CASE j \in Known
  <2>1. type[j] = "HealthCheck"
    BY <1>2, TypesStay DEF Sane
  <2>2. /\ effects[j] <= 1
        /\ type[AlertFrom(j)] = "none" => effects[j] = 0
        /\ \A v \in Workers : Publishes(v) =>
              effects[j] = 0 /\ \A w \in Workers : Publishes(w) => v = w
    BY <2>1 DEF AlertInv, OneAlert
  <2>3. \A v \in Workers : Publishes(v) => type[AlertFrom(j)] # "none"
    BY DEF Sane, RightHandler, Known
  <2>4. type'[AlertFrom(j)] = "none" => type[AlertFrom(j)] = "none"
    BY TypesStay DEF Sane, Known
  <2>5. \A v \in Workers : job'[v] = j /\ pc'[v] = "publishAlert" =>
           \/ Publishes(v)
           \/ /\ CreateJob(v) /\ job[v] = j
              /\ type[AlertFrom(j)] = "none" /\ type'[AlertFrom(j)] # "none"
    BY ComesToPublish
  <2>6. CASE \E w \in Workers : Publish(w) /\ job[w] = j
    <3>1. PICK w \in Workers : Publish(w) /\ job[w] = j
      BY <2>6
    <3>2. Publishes(w) /\ pc'[w] # "publishAlert"
      BY <3>1 DEF Publish, Goto, Sane, TypeOK
    <3>3. effects'[j] <= 1
      <4>1. effects[j] = 0
        BY <2>2, <3>2
      <4>2. effects' \in {effects, [effects EXCEPT ![j] = @ + 1]}
        BY <3>1, ActsOnce
      <4> QED BY <4>1, <4>2 DEF Sane, TypeOK
    <3>4. \A v \in Workers : ~(job'[v] = j /\ pc'[v] = "publishAlert")
      BY <2>2, <2>3, <2>5, <3>2
    <3> QED BY <2>3, <2>4, <3>2, <3>3, <3>4
  <2>7. CASE ~\E w \in Workers : Publish(w) /\ job[w] = j
    <3>1. effects'[j] = effects[j]
      <4>1. ASSUME NEW w \in Workers, Acts(w) \/ Publish(w)
            PROVE  effects'[j] = effects[j]
        <5>1. job[w] # j
          BY <2>1, <2>7, <4>1, ActsOnce
        <5> QED BY ZenonT(30), <4>1, <5>1, ActsOnce DEF Sane, TypeOK
      <4> QED BY <4>1, EffectsChange
    <3>2. ASSUME NEW v \in Workers, job'[v] = j, pc'[v] = "publishAlert",
                 NEW w \in Workers, job'[w] = j, pc'[w] = "publishAlert"
          PROVE  v = w /\ effects[j] = 0
      <4>1. CASE Publishes(v) /\ Publishes(w)
        BY <2>2, <4>1
      <4>2. CASE ~Publishes(v) \/ ~Publishes(w)
        <5>1. type[AlertFrom(j)] = "none" /\ CreateJob(v) /\ CreateJob(w)
          BY <2>3, <2>5, <3>2, <4>2
        <5>2. pc[w] = "create" /\ \E c : pc' = [pc EXCEPT ![v] = c]
          BY <5>1 DEF CreateJob, Goto
        <5>3. pc \in [Workers -> Pcs]
          BY DEF Sane, TypeOK
        <5>4. v = w
          BY <3>2, <5>2, <5>3
        <5> QED BY <2>2, <5>1, <5>4
      <4> QED BY <4>1, <4>2
    <3> QED BY <2>2, <2>4, <3>1, <3>2
  <2> QED BY <2>6, <2>7
<1> QED BY <1>1, <1>2

\* "retries of THIS job don't double-alert" (HealthCheckHandler), under crashes,
\* rebalances, failed queries and failed publishes.
THEOREM AlertsOnce == Spec => []NoDoubleAlert
<1>1. Init => AlertInv
  <2> SUFFICES ASSUME Init PROVE AlertInv
    OBVIOUS
  <2>1. Sane
    BY InitSane
  <2>2. Fresh /\ OneAlert
    BY IdsAreJobs DEF Init, Fresh, OneAlert
  <2> QED BY <2>1, <2>2 DEF AlertInv
<1>2. AlertInv /\ [Next]_vars => AlertInv'
  <2> SUFFICES ASSUME AlertInv, [Next]_vars PROVE AlertInv'
    OBVIOUS
  <2>1. CASE UNCHANGED vars
    <3>1. Sane'
      BY NextSane DEF AlertInv
    <3>2. Fresh' /\ OneAlert'
      BY <2>1 DEF AlertInv, Fresh, OneAlert, Known, vars, tableVars, deviceVars,
                  jobVars, claimVars
    <3> QED BY <3>1, <3>2 DEF AlertInv
  <2>2. CASE Next
    BY <2>2, NextSane, NextFresh, NextOneAlert DEF AlertInv
  <2> QED BY <2>1, <2>2
<1>3. AlertInv => NoDoubleAlert
  <2> SUFFICES ASSUME AlertInv, NEW j \in JobIds, type[j] = "HealthCheck"
               PROVE  effects[j] <= 1
    BY DEF NoDoubleAlert, Of
  <2>1. j \in Jobs
    BY DEF AlertInv, Sane, RightHandler, JobIds
  <2> QED BY <2>1 DEF AlertInv, OneAlert
<1> QED BY <1>1, <1>2, <1>3, PTL DEF Spec

-----------------------------------------------------------------------------
(* The evidence of a SUCCESS row.                                          *)

\* What a worker's next call may rely on having happened.
EvidenceOf(v) ==
    LET j == job[v]
    IN  /\ pc[v] = "ok" /\ type[j] # "HealthCheck" =>
              rows[j].ok > 0 /\ (type[j] # "TelemetryProcessing" => effects[j] > 0)
        /\ pc[v] = "webhook" => rows[j].ok > 0
        /\ pc[v] \in {"insertAudit", "insertAttempt"} /\ answer[v] = "ok" => effects[j] > 0
        /\ pc[v] = "updateFirmware" => rows[j].ok > 0 /\ effects[j] > 0

RecordInv == Sane /\ Fresh /\ SuccessIsRecorded /\ \A v \in Workers : EvidenceOf(v)

LEMMA NextEvidence ==
    ASSUME RecordInv, Next, NEW v \in Workers
    PROVE  EvidenceOf(v)'
<1> DEFINE j == job[v]
<1>0. Sane /\ EvidenceOf(v)
  BY DEF RecordInv
<1>1. ASSUME pc[v] # "idle"
      PROVE  /\ j \in JobIds /\ j \in Known /\ type'[j] = type[j] /\ type[j] \in AllTypes
             /\ rows'[j].ok >= rows[j].ok /\ effects'[j] >= effects[j]
             /\ rows[j].ok \in Nat /\ rows'[j].ok \in Nat
             /\ effects[j] \in Nat /\ effects'[j] \in Nat
             /\ pc[v] \in Calls => pc[v] \in CallsOf[type[j]]
  <2>1. j \in JobIds /\ j \in Known /\ (pc[v] \in Calls => pc[v] \in CallsOf[type[j]])
    BY <1>0, <1>1 DEF Sane, RightHandler, Known
  <2>2. Sane'
    BY <1>0, NextSane
  <2>3. rows'[j].ok \in Nat /\ effects'[j] \in Nat /\ rows[j].ok \in Nat /\ effects[j] \in Nat
    BY ZenonT(30), <1>0, <2>1, <2>2 DEF Sane, TypeOK
  <2> QED BY <1>0, <2>1, <2>3, NothingIsTakenBack, TypesStay DEF Sane, TypeOK, Known
<1> HIDE DEF j
<1>2. CASE pc'[v] \in Starts \cup {"idle", "commit", "failed"}
  BY <1>2 DEF EvidenceOf, Starts
<1>3. CASE pc'[v] = pc[v] /\ job'[v] = job[v] /\ answer'[v] = answer[v]
  BY <1>0, <1>1, <1>3 DEF EvidenceOf, j
<1>4. CASE Handle(v)
  <2>0. pc[v] \in Calls /\ pc[v] # "idle" /\ job'[v] = job[v]
    BY <1>4 DEF Handle, SendCommand, InsertCommandAudit, PushFirmware,
              InsertFirmwareAttempt, UpdateDeviceFirmware, InsertDeviceMetric,
              InsertAlert, PostAlert, GetHealth, TouchDevice, CreateJob, Insert,
              Publish, Calls, claimVars
  <2>1. CASE SendCommand(v) \/ PushFirmware(v)
    <3>1. /\ pc'[v] \in {"insertAudit", "insertAttempt"}
          /\ answer'[v] = "ok" => effects'[j] > 0
      BY <1>0, <1>1, <2>0, <2>1 DEF SendCommand, PushFirmware, Goto, Did, Sane, TypeOK, j
    <3> QED BY <2>0, <3>1 DEF EvidenceOf, j
  <2>2. CASE Inserts(v)
    <3>1. PICK at \in Calls, result \in {"ok", "error"}, next \in {"ok", "failed",
                  "updateFirmware", "webhook"} :
              /\ Insert(v, at, result, next)
              /\ at \in {"insertAudit", "insertAttempt"} =>
                    /\ result = "ok" <=> answer[v] = "ok"
                    /\ next \in {"ok", "updateFirmware"} => result = "ok"
              /\ at \in {"insertMetric", "insertAlert"} => result = "ok"
              /\ next = "updateFirmware" => at = "insertAttempt"
              /\ next = "webhook" => at = "insertAlert"
              /\ at = "insertAlert" => next = "webhook"
              /\ at \in {"insertAudit", "insertAttempt", "insertMetric", "insertAlert"}
      BY <2>2, InsertsAre
    <3>2. /\ pc[v] = at
          /\ \/ result = "ok" /\ rows'[j].ok = rows[j].ok + 1 /\ pc'[v] \in {next, "failed"}
             \/ result = "error" /\ pc'[v] \in {next, "failed"}
             \/ pc'[v] = "failed"
      <4>1. pc \in [Workers -> Pcs]
        BY <1>0 DEF Sane, TypeOK
      <4>2. Insert(v, at, result, next)
        BY <3>1
      <4> QED BY <1>0, <4>1, <4>2, InsertAdds DEF j
    <3>3. CASE at \in {"insertAudit", "insertAttempt"}
      <4>1. result = "ok" => effects[j] > 0
        BY <1>0, <3>1, <3>2, <3>3 DEF EvidenceOf, j
      <4> QED BY <1>1, <2>0, <3>1, <3>2, <3>3, <4>1 DEF EvidenceOf, j
    <3>4. CASE at = "insertMetric"
      <4>1. type[j] = "TelemetryProcessing"
        BY <1>1, <2>0, <3>2, <3>4 DEF CallsOf, AllTypes
      <4> QED BY <1>1, <2>0, <3>1, <3>2, <3>4, <4>1 DEF EvidenceOf, j
    <3>5. CASE at = "insertAlert"
      BY <1>1, <2>0, <3>1, <3>2, <3>5 DEF EvidenceOf, j
    <3> QED BY <3>1, <3>3, <3>4, <3>5
  <2>3. CASE UpdateDeviceFirmware(v)
    <3>1. pc[v] = "updateFirmware" /\ pc'[v] \in {"ok", "failed"}
      BY <1>0, <2>3 DEF UpdateDeviceFirmware, Goto, Sane, TypeOK
    <3> QED BY <1>0, <1>1, <2>0, <3>1 DEF EvidenceOf, j
  <2>4. CASE PostAlert(v)
    <3>1. /\ pc[v] = "webhook" /\ pc'[v] \in {"ok", "failed"}
          /\ pc'[v] = "ok" => effects'[j] = effects[j] + 1
      BY <1>0, <1>1, <2>0, <2>4 DEF PostAlert, Goto, Did, Sane, TypeOK, j
    <3> QED BY <1>0, <1>1, <2>0, <3>1 DEF EvidenceOf, j
  <2>5. CASE GetHealth(v) \/ TouchDevice(v) \/ CreateJob(v) \/ Publish(v)
    <3>1. /\ pc[v] \in {"health", "touch", "create", "publishAlert"}
          /\ pc'[v] \in {"failed", "touch", "create", "ok", "publishAlert"}
      BY <1>0, <2>5 DEF GetHealth, TouchDevice, CreateJob, Publish, Goto, Sane, TypeOK
    <3>2. type[j] = "HealthCheck"
      BY <1>1, <2>0, <3>1 DEF CallsOf, AllTypes
    <3> QED BY <1>1, <2>0, <3>1, <3>2 DEF EvidenceOf, j
  <2> QED BY <1>4, <2>1, <2>2, <2>3, <2>4, <2>5 DEF Handle, Inserts
<1> QED BY <1>0, <1>2, <1>3, <1>4, WorkerMoves

LEMMA NextRecorded ==
    ASSUME RecordInv, Next
    PROVE  SuccessIsRecorded'
<1> SUFFICES ASSUME NEW j \in JobIds, state'[j] = "SUCCESS", type'[j] # "HealthCheck"
             PROVE  /\ rows'[j].ok > 0
                    /\ type'[j] # "TelemetryProcessing" => effects'[j] > 0
  BY DEF SuccessIsRecorded
<1>0. Sane
  BY DEF RecordInv
<1>1. j \in Known /\ type'[j] = type[j]
  <2>1. j \in Known
    BY <1>0, StateChanges DEF RecordInv, Fresh, Sane, RightHandler
  <2> QED BY <1>0, <2>1, TypesStay DEF Sane
<1>2. /\ rows[j].ok \in Nat /\ effects[j] \in Nat
      /\ rows'[j].ok >= rows[j].ok /\ effects'[j] >= effects[j]
  BY <1>0, NothingIsTakenBack DEF Sane, TypeOK
<1>3. /\ rows'[j].ok \in Nat /\ effects'[j] \in Nat
  BY <1>0, NextSane DEF Sane, TypeOK
<1>4. rows[j].ok > 0 /\ (type[j] # "TelemetryProcessing" => effects[j] > 0)
  <2>1. CASE state[j] = "SUCCESS"
    BY <1>1, <2>1 DEF RecordInv, SuccessIsRecorded
  <2>2. CASE \E w \in Workers : pc[w] = "ok" /\ job[w] = j
    BY <1>1, <2>2 DEF RecordInv, EvidenceOf
  <2> QED BY <1>0, <2>1, <2>2, StateChanges
<1> QED BY <1>1, <1>2, <1>3, <1>4

\* A SUCCESS row has its task row, and the act behind it, through every crash,
\* rerun, rebalance and lost answer.
THEOREM SuccessesAreRecorded == Spec => []SuccessIsRecorded
<1>1. Init => RecordInv
  <2> SUFFICES ASSUME Init PROVE RecordInv
    OBVIOUS
  <2>1. Sane
    BY InitSane
  <2>2. Fresh /\ SuccessIsRecorded
    BY DEF Init, Fresh, SuccessIsRecorded
  <2>3. \A v \in Workers : EvidenceOf(v)
    BY DEF Init, EvidenceOf
  <2> QED BY <2>1, <2>2, <2>3 DEF RecordInv
<1>2. RecordInv /\ [Next]_vars => RecordInv'
  <2> SUFFICES ASSUME RecordInv, [Next]_vars PROVE RecordInv'
    OBVIOUS
  <2>0. Sane'
    BY NextSane DEF RecordInv
  <2>1. CASE UNCHANGED vars
    <3> USE <2>1 DEF vars, tableVars, deviceVars, jobVars, claimVars
    <3>1. Fresh' /\ SuccessIsRecorded'
      BY DEF RecordInv, Fresh, Known, SuccessIsRecorded
    <3>2. \A v \in Workers : EvidenceOf(v)'
      BY DEF RecordInv, EvidenceOf
    <3> QED BY <2>0, <3>1, <3>2 DEF RecordInv
  <2>2. CASE Next
    <3>1. Fresh'
      BY <2>2, NextFresh DEF RecordInv
    <3> QED BY <2>0, <2>2, <3>1, NextEvidence, NextRecorded DEF RecordInv
  <2> QED BY <2>1, <2>2
<1>3. RecordInv => SuccessIsRecorded
  BY DEF RecordInv
<1> QED BY <1>1, <1>2, <1>3, PTL DEF Spec

-----------------------------------------------------------------------------
(* Runs between two of a handler's calls, counted.                         *)

\* Those of a job's runs that are at one of the calls.
At(j, calls) == {w \in Workers : job[w] = j /\ pc[w] \in calls}

LEMMA AtIsFinite ==
    ASSUME NEW T, T \subseteq Workers
    PROVE  IsFiniteSet(T) /\ Cardinality(T) \in Nat
BY DeviceAssumption, FS_Subset, FS_CardinalityType

\* One more element at most, and one less at least.
LEMMA CountGrows ==
    ASSUME NEW S, S \subseteq Workers, NEW x, NEW T, T \subseteq Workers,
           T \subseteq S \cup {x}
    PROVE  Cardinality(T) <= Cardinality(S) + 1
<1>1. IsFiniteSet(S) /\ Cardinality(S) \in Nat
  BY AtIsFinite
<1>2. /\ IsFiniteSet(S \cup {x})
      /\ Cardinality(S \cup {x}) \in {Cardinality(S), Cardinality(S) + 1}
  BY <1>1, FS_AddElement
<1>3. IsFiniteSet(T) /\ Cardinality(T) <= Cardinality(S \cup {x})
  BY <1>2, FS_Subset
<1> QED BY <1>1, <1>2, <1>3, AtIsFinite

LEMMA CountShrinks ==
    ASSUME NEW S, S \subseteq Workers, NEW x \in S, NEW T, T \subseteq S \ {x}
    PROVE  Cardinality(T) + 1 <= Cardinality(S)
<1>0. IsFiniteSet(S) /\ Cardinality(S) \in Nat
  BY AtIsFinite
<1>1. IsFiniteSet(S \ {x}) /\ Cardinality(S \ {x}) = Cardinality(S) - 1
  BY <1>0, FS_RemoveElement
<1>2. IsFiniteSet(T) /\ Cardinality(T) <= Cardinality(S \ {x})
  BY <1>1, FS_Subset
<1> QED BY <1>0, <1>1, <1>2, FS_CardinalityType

LEMMA CountStays ==
    ASSUME NEW S, S \subseteq Workers, NEW T, T \subseteq S
    PROVE  Cardinality(T) <= Cardinality(S)
BY AtIsFinite, FS_Subset

\* A call of one worker leaves the others where they are.
LEMMA HandleMovesOne ==
    ASSUME Sane, NEW w \in Workers, Handle(w)
    PROVE  /\ UNCHANGED job /\ pc[w] \in Calls /\ job[w] \in Known /\ job[w] \in JobIds
           /\ \A v \in Workers : v # w => pc'[v] = pc[v] /\ answer'[v] = answer[v]
<1>1. /\ UNCHANGED job /\ pc[w] \in Calls /\ \E c \in Pcs : Goto(w, c)
      /\ UNCHANGED answer \/ \E a : answer' = [answer EXCEPT ![w] = a]
  BY DEF Handle, SendCommand, InsertCommandAudit, PushFirmware,
         InsertFirmwareAttempt, UpdateDeviceFirmware, InsertDeviceMetric,
         InsertAlert, PostAlert, GetHealth, TouchDevice, CreateJob, Insert,
         Publish, Pcs, Calls, claimVars
<1>2. job[w] \in Known /\ job[w] \in JobIds
  BY <1>1 DEF Sane, RightHandler, Known, Calls
<1> QED BY <1>1, <1>2 DEF Goto, Sane, TypeOK

\* What a job's runs left changes only by a call of one of them.
LEMMA OnlyItsRuns ==
    ASSUME Sane, Next, NEW j \in JobIds,
           \A w \in Workers : Handle(w) => job[w] # j
    PROVE  effects'[j] = effects[j] /\ rows'[j] = rows[j]
<1>0. effects \in [JobIds -> Nat]
  BY DEF Sane, TypeOK
<1>1. effects'[j] = effects[j]
  <2>1. ASSUME NEW w \in Workers, Acts(w) \/ Publish(w)
        PROVE  effects'[j] = effects[j]
    <3>1. job[w] # j
      BY <2>1 DEF Acts, Handle
    <3> QED BY <1>0, <2>1, <3>1, ActsOnce
  <2> QED BY <2>1, EffectsChange
<1>2. rows'[j] = rows[j]
  <2>1. ASSUME NEW w \in Workers, Inserts(w)
        PROVE  rows'[j] = rows[j]
    <3>1. job[w] # j
      BY <2>1 DEF Inserts, Handle
    <3>2. PICK at \in Calls, result \in {"ok", "error"}, next \in {"ok", "failed",
                  "updateFirmware", "webhook"} : Insert(w, at, result, next)
      BY <2>1, InsertsAre
    <3> QED BY <3>1, <3>2, InsertAdds
  <2> QED BY <2>1, RowsChange
<1> QED BY <1>1, <1>2

-----------------------------------------------------------------------------
(* The row before the webhook.                                             *)

\* Runs between the row and the webhook have a row to themselves.
WebhookHasRow ==
    \A j \in Of("AlertGeneration") :
        effects[j] + Cardinality(At(j, {"webhook"})) <= rows[j].ok

WebhookInv == Sane /\ Fresh /\ WebhookHasRow

LEMMA NextWebhookHasRow ==
    ASSUME WebhookInv, Next
    PROVE  WebhookHasRow'
<1> SUFFICES ASSUME NEW j \in JobIds, type'[j] = "AlertGeneration"
             PROVE  effects'[j] + Cardinality(At(j, {"webhook"})') <= rows'[j].ok
  BY DEF WebhookHasRow, Of
<1> DEFINE S == At(j, {"webhook"})
           T == At(j, {"webhook"})'
<1>0. /\ Sane /\ Sane' /\ S \subseteq Workers /\ T \subseteq Workers
      /\ Cardinality(S) \in Nat /\ Cardinality(T) \in Nat
  BY NextSane, AtIsFinite DEF WebhookInv, At
<1>1. /\ effects[j] \in Nat /\ effects'[j] \in Nat
      /\ rows[j].ok \in Nat /\ rows'[j].ok \in Nat
  BY <1>0 DEF Sane, TypeOK
<1>2. CASE j \notin Known
  <2>1. effects'[j] = 0 /\ rows'[j].ok = 0
    BY <1>0, <1>2, NothingIsTakenBack DEF WebhookInv, Fresh
  <2>2. \A v \in Workers : pc[v] # "idle" => job[v] # j
    BY <1>0, <1>2 DEF Sane, RightHandler
  <2>3. T \subseteq {}
    <3>1. SUFFICES ASSUME NEW v \in Workers, job'[v] = j, pc'[v] = "webhook"
                   PROVE  FALSE
      BY DEF At
    <3>2. (pc'[v] = pc[v] /\ job'[v] = job[v]) \/ Handle(v)
      BY <1>0, <3>1, WorkerMoves DEF Starts
    <3> QED BY <1>0, <2>2, <3>1, <3>2, HandleMovesOne DEF Calls
  <2> QED BY <2>1, <2>3, FS_EmptySet
<1>3. CASE j \in Known
  <2>0. type[j] = "AlertGeneration"
    BY <1>0, <1>3, TypesStay DEF Sane
  <2>1. effects[j] + Cardinality(S) <= rows[j].ok
    BY <2>0 DEF WebhookInv, WebhookHasRow, Of
  <2> HIDE DEF S, T
  <2>2. ASSUME \A w \in Workers : Handle(w) => job[w] # j
        PROVE  effects'[j] + Cardinality(T) <= rows'[j].ok
    <3>1. T \subseteq S
      <4>1. SUFFICES ASSUME NEW v \in Workers, job'[v] = j, pc'[v] = "webhook"
                     PROVE  job[v] = j /\ pc[v] = "webhook"
        BY DEF At, S, T
      <4>2. (pc'[v] = pc[v] /\ job'[v] = job[v]) \/ Handle(v)
        BY <1>0, <4>1, WorkerMoves DEF Starts
      <4> QED BY <1>0, <2>2, <4>1, <4>2, HandleMovesOne
    <3>2. effects'[j] = effects[j] /\ rows'[j] = rows[j]
      BY <1>0, <2>2, OnlyItsRuns
    <3>3. Cardinality(T) <= Cardinality(S)
      BY <1>0, <3>1, CountStays
    <3> QED BY <1>0, <1>1, <2>1, <3>2, <3>3
  <2>3. ASSUME NEW w \in Workers, Handle(w), job[w] = j
        PROVE  effects'[j] + Cardinality(T) <= rows'[j].ok
    <3>0. /\ pc[w] \in Calls /\ UNCHANGED job
          /\ \A v \in Workers : v # w => pc'[v] = pc[v]
      BY <1>0, <2>3, HandleMovesOne
    <3>1. /\ pc[w] \in {"insertAlert", "webhook"}
          /\ \A v \in Workers : v # w => (v \in T <=> v \in S)
      <4>1. pc[w] \in CallsOf["AlertGeneration"]
        BY <1>0, <2>0, <2>3, <3>0 DEF Sane, RightHandler, Calls
      <4>2. \A v \in Workers : v # w => (v \in T <=> v \in S)
        BY <3>0 DEF At, S, T
      <4> QED BY <4>1, <4>2 DEF CallsOf
    <3>2. InsertAlert(w) \/ PostAlert(w)
      BY <2>3, <3>1 DEF Handle, SendCommand, InsertCommandAudit, PushFirmware,
              InsertFirmwareAttempt, UpdateDeviceFirmware, InsertDeviceMetric,
              GetHealth, TouchDevice, CreateJob, Insert, Publish
    <3>3. CASE InsertAlert(w)
      <4>1. Insert(w, "insertAlert", "ok", "webhook")
        BY <3>3 DEF InsertAlert
      <4>2. effects'[j] = effects[j]
        BY <4>1 DEF Insert, deviceVars
      <4>3. \/ rows'[j].ok = rows[j].ok + 1
            \/ rows'[j].ok = rows[j].ok /\ pc'[w] = "failed"
        <5>1. "insertAlert" \in Calls /\ pc \in [Workers -> Pcs]
          BY <1>0 DEF Calls, Sane, TypeOK
        <5> QED BY <1>0, <2>3, <4>1, <5>1, InsertAdds
      <4>4. T \subseteq S \cup {w} /\ (pc'[w] = "failed" => T \subseteq S)
        BY <1>0, <3>1 DEF T, At
      <4>5. /\ Cardinality(T) <= Cardinality(S) + 1
            /\ T \subseteq S => Cardinality(T) <= Cardinality(S)
        BY <1>0, <4>4, CountGrows, CountStays
      <4> QED BY <1>0, <1>1, <2>1, <4>2, <4>3, <4>4, <4>5
    <3>4. CASE PostAlert(w)
      <4>1. w \in S /\ T \subseteq S \ {w}
        BY <1>0, <2>3, <3>1, <3>4 DEF PostAlert, Goto, Sane, TypeOK, At, S, T
      <4>2. effects'[j] <= effects[j] + 1 /\ rows'[j].ok = rows[j].ok
        <5>1. effects' \in {effects, [effects EXCEPT ![j] = @ + 1]} /\ rows' = rows
          BY <2>3, <3>4 DEF PostAlert, Did, tableVars
        <5> QED BY SMTT(30), <1>0, <1>1, <5>1 DEF Sane, TypeOK
      <4> QED BY <1>0, <1>1, <2>1, <4>1, <4>2, CountShrinks
    <3> QED BY <3>2, <3>3, <3>4
  <2> QED BY <2>2, <2>3 DEF T
<1> QED BY <1>2, <1>3

\* The receiver never got more alerts than the table has, through all reruns.
THEOREM WebhooksComeSecond == Spec => []WebhooksAreStored
<1>1. Init => WebhookInv
  <2> SUFFICES ASSUME Init PROVE WebhookInv
    OBVIOUS
  <2>1. Sane
    BY InitSane
  <2>2. Fresh /\ WebhookHasRow
    BY DEF Init, Fresh, WebhookHasRow, Of
  <2> QED BY <2>1, <2>2 DEF WebhookInv
<1>2. WebhookInv /\ [Next]_vars => WebhookInv'
  <2> SUFFICES ASSUME WebhookInv, [Next]_vars PROVE WebhookInv'
    OBVIOUS
  <2>0. Sane'
    BY NextSane DEF WebhookInv
  <2>1. CASE UNCHANGED vars
    <3> USE <2>1 DEF vars, tableVars, deviceVars, jobVars, claimVars
    <3>1. Fresh' /\ WebhookHasRow'
      BY DEF WebhookInv, Fresh, Known, WebhookHasRow, Of, At
    <3> QED BY <2>0, <3>1 DEF WebhookInv
  <2>2. CASE Next
    BY <2>0, <2>2, NextFresh, NextWebhookHasRow DEF WebhookInv
  <2> QED BY <2>1, <2>2
<1>3. WebhookInv => WebhooksAreStored
  <2> SUFFICES ASSUME WebhookInv, NEW j \in JobIds, type[j] = "AlertGeneration"
               PROVE  effects[j] <= rows[j].ok
    BY DEF WebhooksAreStored, Of
  <2>1. effects[j] + Cardinality(At(j, {"webhook"})) <= rows[j].ok
    BY DEF WebhookInv, WebhookHasRow, Of
  <2>2. /\ Cardinality(At(j, {"webhook"})) \in Nat
        /\ effects[j] \in Nat /\ rows[j].ok \in Nat
    BY AtIsFinite DEF At, WebhookInv, Sane, TypeOK
  <2> QED BY <2>1, <2>2
<1> QED BY <1>1, <1>2, <1>3, PTL DEF Spec

-----------------------------------------------------------------------------
(* The audit rows of commands and firmware.                                *)

Audits == {"insertAudit", "insertAttempt"}

\* Runs that are between the device and the row, and those with good news.
Unaudited(j) == At(j, Audits)
Confirmed(j) == {w \in Unaudited(j) : answer[w] = "ok"}

\* Who is about to write a row has the act for it; who acted is to write one,
\* has, or met a fault.
EffectsAudited ==
    \A j \in Of("RemoteCommand") \cup Of("FirmwareUpdate") :
        /\ rows[j].ok + Cardinality(Confirmed(j)) <= effects[j]
        /\ Fits(j) => effects[j] <= Total(j) + Cardinality(Unaudited(j)) + faults

AuditInv == Sane /\ Fresh /\ EffectsAudited

LEMMA FaultsGrow ==
    ASSUME Sane, Next
    PROVE  faults \in Nat /\ faults' \in {faults, faults + 1}
<1>1. faults \in Nat
  BY DEF Sane, TypeOK
<1> QED BY ZenonT(30), <1>1 DEF Next, Submit, Fetch, FetchFails, Handle, SendCommand,
         InsertCommandAudit, PushFirmware, InsertFirmwareAttempt,
         UpdateDeviceFirmware, InsertDeviceMetric, InsertAlert, PostAlert,
         GetHealth, TouchDevice, CreateJob, Publish, Insert, Success,
         RetryOrDLQ, ReportFails, CommitMessage, Crash, Rebalance, Forward,
         AllDone, vars, Fault

LEMMA PayloadStays ==
    ASSUME Sane, Next, NEW j \in Known
    PROVE  payload'[j] = payload[j]
<1>1. ASSUME NEW k \in Jobs, NEW t \in Types, NEW load \in Payloads, Submit(k, t, load)
      PROVE  payload'[j] = payload[j]
  BY <1>1 DEF Submit, Known, Sane, TypeOK
<1>2. \/ UNCHANGED payload
      \/ \E k \in Jobs, t \in Types, load \in Payloads : Submit(k, t, load)
  BY ZenonT(30) DEF Next, Fetch, FetchFails, Handle, SendCommand,
         InsertCommandAudit, PushFirmware, InsertFirmwareAttempt,
         UpdateDeviceFirmware, InsertDeviceMetric, InsertAlert, PostAlert,
         GetHealth, TouchDevice, CreateJob, Publish, Insert, Success,
         RetryOrDLQ, ReportFails, CommitMessage, Crash, Rebalance, Forward,
         AllDone, vars, jobVars
<1> QED BY <1>1, <1>2

\* Only a crash takes a worker out of a handler's call without a step of it.
LEMMA OnlyCrashesLeave ==
    ASSUME Sane, Next, NEW v \in Workers, pc[v] \in Calls, ~Handle(v), ~Crash(v)
    PROVE  pc'[v] = pc[v] /\ job'[v] = job[v]
<1> DEFINE Kept == pc'[v] = pc[v] /\ job'[v] = job[v]
<1> USE DEF Sane, TypeOK, claimVars
<1>1. ASSUME NEW w \in Workers, NEW p \in Partitions, Fetch(w, p) \/ FetchFails(w, p)
      PROVE  Kept
  <2>1. v # w
    BY <1>1 DEF Fetch, FetchFails, Calls
  <2>2. /\ \E j : Claim(w, p, j)
        /\ \E c : Goto(w, c)
    BY <1>1 DEF Fetch, FetchFails
  <2> QED BY <2>1, <2>2 DEF Claim, Goto
<1>2. ASSUME NEW w \in Workers, Handle(w) \/ Crash(w)
      PROVE  Kept
  <2>1. CASE Handle(w)
    BY <2>1, HandleMovesOne
  <2>2. CASE Crash(w)
    BY <2>2 DEF Crash, Release, Goto
  <2> QED BY <1>2, <2>1, <2>2
<1>3. ASSUME NEW w \in Workers,
             Success(w) \/ RetryOrDLQ(w) \/ ReportFails(w) \/ CommitMessage(w)
      PROVE  Kept
  <2>1. pc[w] \in {"ok", "failed", "commit"}
    BY <1>3 DEF Success, RetryOrDLQ, ReportFails, CommitMessage
  <2>2. v # w
    BY <2>1 DEF Calls
  <2> QED BY <1>3, <2>2 DEF Success, RetryOrDLQ, ReportFails, CommitMessage, Release, Goto
<1>4. ASSUME NEW w \in Workers, Rebalance(w)
      PROVE  Kept
  BY <1>4 DEF Rebalance
<1>5. CASE \E w \in Workers, p \in Partitions : Fetch(w, p) \/ FetchFails(w, p)
  BY <1>1, <1>5
<1>6. CASE \E w \in Workers : Handle(w) \/ Crash(w)
  BY <1>2, <1>6
<1>7. CASE \E w \in Workers : \/ Success(w) \/ RetryOrDLQ(w) \/ ReportFails(w)
                              \/ CommitMessage(w) \/ Rebalance(w)
  BY <1>3, <1>4, <1>7
<1>8. CASE \/ \E j \in Jobs, t \in Types, load \in Payloads : Submit(j, t, load)
           \/ \E j \in JobIds, p \in Partitions : Forward(j, p)
           \/ AllDone
  <2>1. UNCHANGED <<pc, job>>
    BY <1>8 DEF Submit, Forward, AllDone, vars
  <2> QED BY <2>1
<1> QED BY <1>5, <1>6, <1>7, <1>8 DEF Next

LEMMA NextEffectsAudited ==
    ASSUME AuditInv, Next
    PROVE  EffectsAudited'
<1> SUFFICES ASSUME NEW j \in JobIds, type'[j] \in {"RemoteCommand", "FirmwareUpdate"}
             PROVE  /\ rows'[j].ok + Cardinality(Confirmed(j)') <= effects'[j]
                    /\ payload'[j] # "unstorable" =>
                          effects'[j] <= rows'[j].ok + rows'[j].error
                                            + Cardinality(Unaudited(j)') + faults'
  BY DEF EffectsAudited, Of, Total, Fits
<1> DEFINE A == Unaudited(j)
           A1 == Unaudited(j)'
           B == Confirmed(j)
           B1 == Confirmed(j)'
           Goal == /\ rows'[j].ok + Cardinality(B1) <= effects'[j]
                   /\ payload'[j] # "unstorable" =>
                         effects'[j] <= rows'[j].ok + rows'[j].error
                                           + Cardinality(A1) + faults'
<1>0. /\ Sane /\ Sane' /\ A \subseteq Workers /\ A1 \subseteq Workers
      /\ B \subseteq Workers /\ B1 \subseteq Workers
      /\ Cardinality(A) \in Nat /\ Cardinality(A1) \in Nat
      /\ Cardinality(B) \in Nat /\ Cardinality(B1) \in Nat
  BY NextSane, AtIsFinite DEF AuditInv, At, Unaudited, Confirmed
<1>1. /\ effects[j] \in Nat /\ effects'[j] \in Nat
      /\ rows[j].ok \in Nat /\ rows'[j].ok \in Nat
      /\ rows[j].error \in Nat /\ rows'[j].error \in Nat
      /\ faults \in Nat /\ faults' \in Nat /\ faults' >= faults
  <2>1. /\ effects[j] \in Nat /\ rows[j].ok \in Nat /\ rows[j].error \in Nat
    BY <1>0 DEF Sane, TypeOK
  <2>2. /\ effects'[j] \in Nat /\ rows'[j].ok \in Nat /\ rows'[j].error \in Nat
    BY <1>0 DEF Sane, TypeOK
  <2>3. faults \in Nat /\ faults' \in Nat /\ faults' >= faults
    BY <1>0, FaultsGrow
  <2> QED BY <2>1, <2>2, <2>3
<1> SUFFICES Goal
  OBVIOUS
<1>2. CASE j \notin Known
  <2>1. effects'[j] = 0 /\ rows'[j].ok = 0
    BY <1>0, <1>2, NothingIsTakenBack DEF AuditInv, Fresh
  <2>2. \A v \in Workers : pc[v] # "idle" => job[v] # j
    BY <1>0, <1>2 DEF Sane, RightHandler
  <2>3. B1 = {}
    <3>1. SUFFICES ASSUME NEW v \in Workers, job'[v] = j, pc'[v] \in Audits
                   PROVE  FALSE
      BY DEF At, Confirmed, Unaudited
    <3>2. (pc'[v] = pc[v] /\ job'[v] = job[v]) \/ Handle(v)
      BY <1>0, <3>1, WorkerMoves DEF Starts, Audits
    <3> QED BY <1>0, <2>2, <3>1, <3>2, HandleMovesOne DEF Calls, Audits
  <2>4. Cardinality(B1) = 0
    BY <2>3, FS_EmptySet
  <2> QED BY <1>0, <1>1, <2>1, <2>4
<1>3. CASE j \in Known
  <2>0. type[j] \in {"RemoteCommand", "FirmwareUpdate"} /\ payload'[j] = payload[j]
    BY <1>0, <1>3, TypesStay, PayloadStays DEF Sane
  <2>1. /\ rows[j].ok + Cardinality(B) <= effects[j]
        /\ payload[j] # "unstorable" =>
              effects[j] <= rows[j].ok + rows[j].error + Cardinality(A) + faults
    BY <2>0 DEF AuditInv, EffectsAudited, Of, Total, Fits
  <2>2. ASSUME NEW w \in Workers, Handle(w), job[w] = j
        PROVE  Goal
    <3>0. /\ pc[w] \in Calls /\ UNCHANGED job
          /\ \A v \in Workers : v # w => pc'[v] = pc[v] /\ answer'[v] = answer[v]
      BY <1>0, <2>2, HandleMovesOne
    <3>1. pc[w] \in CallsOf["RemoteCommand"] \cup CallsOf["FirmwareUpdate"]
      <4>1. pc[w] # "idle"
        BY <3>0 DEF Calls
      <4>2. pc[w] \in CallsOf[type[j]]
        BY <1>0, <2>2, <3>0, <4>1 DEF Sane, RightHandler
      <4>3. CASE type[j] = "RemoteCommand"
        BY <4>2, <4>3
      <4>4. CASE type[j] = "FirmwareUpdate"
        BY <4>2, <4>4
      <4> QED BY <2>0, <4>3, <4>4
    <3>2. \A v \in Workers : v # w => (v \in A1 <=> v \in A) /\ (v \in B1 <=> v \in B)
      BY <3>0 DEF At, Unaudited, Confirmed
    <3>3. /\ w \in A <=> pc[w] \in Audits
          /\ w \in A1 <=> pc'[w] \in Audits
          /\ w \in B <=> pc[w] \in Audits /\ answer[w] = "ok"
          /\ w \in B1 <=> pc'[w] \in Audits /\ answer'[w] = "ok"
      BY <2>2, <3>0 DEF At, Unaudited, Confirmed
    <3>4. \/ SendCommand(w) \/ PushFirmware(w) \/ UpdateDeviceFirmware(w)
          \/ InsertCommandAudit(w) \/ InsertFirmwareAttempt(w)
      BY <2>2, <3>1 DEF CallsOf, Handle, InsertDeviceMetric, InsertAlert, PostAlert,
                        GetHealth, TouchDevice, CreateJob, Publish, Insert
    <3> HIDE DEF A, A1, B, B1
    <3>5. CASE SendCommand(w) \/ PushFirmware(w)
      <4>1. /\ pc[w] \notin Audits /\ pc'[w] \in Audits /\ rows' = rows
            /\ \/ effects' = effects /\ answer'[w] # "ok"
               \/ effects' = [effects EXCEPT ![j] = @ + 1]
        <5>0. pc \in [Workers -> Pcs] /\ answer \in [Workers -> Answers \cup {"none", "unhealthy"}]
          BY <1>0 DEF Sane, TypeOK
        <5>1. /\ pc[w] \in {"send", "push"}
              /\ Goto(w, "insertAudit") \/ Goto(w, "insertAttempt")
              /\ rows' = rows
          BY <3>5 DEF SendCommand, PushFirmware, tableVars
        <5>2. PICK a \in Answers : answer' = [answer EXCEPT ![w] = a] /\ Did(w, a)
          BY <3>5 DEF SendCommand, PushFirmware
        <5>3. \/ effects' = effects /\ answer'[w] # "ok"
              \/ effects' = [effects EXCEPT ![j] = @ + 1]
          BY <2>2, <5>0, <5>2 DEF Did
        <5> QED BY <5>0, <5>1, <5>3 DEF Goto, Audits
      <4>2. /\ effects'[j] = effects[j] /\ answer'[w] # "ok"
            \/ effects'[j] = effects[j] + 1
        BY <1>0, <4>1 DEF Sane, TypeOK
      <4>3. w \in A1 /\ A \subseteq A1 \ {w} /\ B1 \subseteq B \cup {w}
            /\ (answer'[w] # "ok" => B1 \subseteq B)
        BY <1>0, <3>2, <3>3, <4>1
      <4>4. /\ Cardinality(A) + 1 <= Cardinality(A1)
            /\ Cardinality(B1) <= Cardinality(B) + 1
            /\ answer'[w] # "ok" => Cardinality(B1) <= Cardinality(B)
        BY <1>0, <4>3, CountShrinks, CountGrows, CountStays
      <4> QED BY <1>0, <1>1, <2>0, <2>1, <4>1, <4>2, <4>4
    <3>6. CASE UpdateDeviceFirmware(w)
      <4>1. /\ pc[w] \notin Audits /\ pc'[w] \notin Audits
            /\ rows' = rows /\ effects' = effects
        <5>0. pc \in [Workers -> Pcs]
          BY <1>0 DEF Sane, TypeOK
        <5>1. /\ pc[w] = "updateFirmware"
              /\ Goto(w, "ok") \/ Goto(w, "failed")
              /\ rows' = rows /\ effects' = effects
          BY <3>6 DEF UpdateDeviceFirmware, deviceVars
        <5> QED BY <5>0, <5>1 DEF Goto, Audits
      <4>2. A1 = A /\ B1 = B
        BY <1>0, <3>2, <3>3, <4>1
      <4>3. /\ rows'[j].ok = rows[j].ok /\ rows'[j].error = rows[j].error
            /\ effects'[j] = effects[j] /\ Cardinality(A1) = Cardinality(A)
            /\ Cardinality(B1) = Cardinality(B)
        BY <4>1, <4>2
      <4> QED BY <1>0, <1>1, <2>0, <2>1, <4>3
    <3>7. CASE InsertCommandAudit(w) \/ InsertFirmwareAttempt(w)
      <4>1. PICK at \in Calls, result \in {"ok", "error"},
                 next \in {"ok", "failed", "updateFirmware"} :
               /\ Insert(w, at, result, next) /\ at \in Audits
               /\ result = "ok" <=> answer[w] = "ok"
        BY <3>7 DEF InsertCommandAudit, InsertFirmwareAttempt, Result, Calls, Audits
      <4>2. /\ pc[w] = at
            /\ \/ /\ result = "ok" /\ rows'[j].ok = rows[j].ok + 1
                  /\ rows'[j].error = rows[j].error
               \/ /\ result = "error" /\ rows'[j].error = rows[j].error + 1
                  /\ rows'[j].ok = rows[j].ok
               \/ rows' = rows /\ (faults' = faults + 1 \/ ~Fits(j))
        BY <2>2, <1>0, <4>1, InsertAdds
      <4>3. pc'[w] \notin Audits /\ effects' = effects
        <5>0. pc \in [Workers -> Pcs]
          BY <1>0 DEF Sane, TypeOK
        <5>1. effects' = effects /\ (Goto(w, next) \/ Goto(w, "failed"))
          BY <4>1 DEF Insert, deviceVars
        <5> QED BY <5>0, <5>1 DEF Goto, Audits
      <4>4. A \subseteq A1 \cup {w} /\ B1 \subseteq B
            /\ (result = "ok" => w \in B /\ B1 \subseteq B \ {w})
        BY <1>0, <3>2, <3>3, <4>1, <4>2, <4>3
      <4>5. /\ Cardinality(A) <= Cardinality(A1) + 1
            /\ Cardinality(B1) <= Cardinality(B)
            /\ result = "ok" => Cardinality(B1) + 1 <= Cardinality(B)
        BY <1>0, <4>4, CountShrinks, CountGrows, CountStays
      <4> QED BY <1>0, <1>1, <2>0, <2>1, <4>2, <4>3, <4>5 DEF Fits
    <3> QED BY <3>4, <3>5, <3>6, <3>7
  <2>3. ASSUME \A w \in Workers : Handle(w) => job[w] # j
        PROVE  Goal
    <3>1. effects'[j] = effects[j] /\ rows'[j] = rows[j]
      BY <1>0, <2>3, OnlyItsRuns
    <3>2. B1 \subseteq B
      <4>1. SUFFICES ASSUME NEW v \in Workers, job'[v] = j, pc'[v] \in Audits,
                            answer'[v] = "ok"
                     PROVE  job[v] = j /\ pc[v] \in Audits /\ answer[v] = "ok"
        BY DEF At, Confirmed, Unaudited
      <4>2. (pc'[v] = pc[v] /\ job'[v] = job[v] /\ answer'[v] = answer[v]) \/ Handle(v)
        BY <1>0, <4>1, WorkerMoves DEF Starts, Audits
      <4> QED BY <1>0, <2>3, <4>1, <4>2, HandleMovesOne
    <3>3. \A v \in A : Crash(v) \/ v \in A1
      BY <1>0, <2>3, OnlyCrashesLeave DEF At, Unaudited, Audits, Calls
    <3>4. \/ A \subseteq A1
          \/ \E w \in Workers : A \subseteq A1 \cup {w} /\ faults' = faults + 1
      <4>1. ASSUME NEW w \in Workers, Crash(w)
            PROVE  A \subseteq A1 \cup {w} /\ faults' = faults + 1
        BY <1>0, <4>1 DEF Crash, Fault, Release, Goto, At, Unaudited, Sane, TypeOK
      <4> QED BY <1>0, <3>3, <4>1
    <3>5. Cardinality(B1) <= Cardinality(B)
      BY <1>0, <3>2, CountStays
    <3>6. Cardinality(A) + faults <= Cardinality(A1) + faults'
      <4>1. CASE A \subseteq A1
        <5>1. Cardinality(A) <= Cardinality(A1)
          BY <1>0, <4>1, CountStays
        <5> QED BY <1>0, <1>1, <5>1
      <4>2. ASSUME NEW w \in Workers, A \subseteq A1 \cup {w}, faults' = faults + 1
            PROVE  Cardinality(A) + faults <= Cardinality(A1) + faults'
        <5>1. Cardinality(A) <= Cardinality(A1) + 1
          BY <1>0, <4>2, CountGrows
        <5> QED BY <1>0, <1>1, <4>2, <5>1
      <4> QED BY <3>4, <4>1, <4>2
    <3> HIDE DEF A, A1, B, B1
    <3> QED BY <1>0, <1>1, <2>0, <2>1, <3>1, <3>5, <3>6
  <2> QED BY <2>2, <2>3
<1> QED BY <1>2, <1>3

\* What a device did is in the audit tables, but for the runs under way and the
\* faults, and nothing is in them that it did not do.
THEOREM ActsAreAudited == Spec => []Auditable
<1>1. Init => AuditInv
  <2> SUFFICES ASSUME Init PROVE AuditInv
    OBVIOUS
  <2>1. Sane
    BY InitSane
  <2>2. Fresh /\ EffectsAudited
    BY DEF Init, Fresh, EffectsAudited, Of
  <2> QED BY <2>1, <2>2 DEF AuditInv
<1>2. AuditInv /\ [Next]_vars => AuditInv'
  <2> SUFFICES ASSUME AuditInv, [Next]_vars PROVE AuditInv'
    OBVIOUS
  <2>0. Sane'
    BY NextSane DEF AuditInv
  <2>1. CASE UNCHANGED vars
    <3> USE <2>1 DEF vars, tableVars, deviceVars, jobVars, claimVars
    <3>1. Fresh' /\ EffectsAudited'
      BY DEF AuditInv, Fresh, Known, EffectsAudited, Of, Unaudited, Confirmed, At,
             Fits, Total
    <3> QED BY <2>0, <3>1 DEF AuditInv
  <2>2. CASE Next
    BY <2>0, <2>2, NextFresh, NextEffectsAudited DEF AuditInv
  <2> QED BY <2>1, <2>2
<1>3. AuditInv => Auditable
  <2> SUFFICES ASSUME AuditInv, NEW j \in Of("RemoteCommand") \cup Of("FirmwareUpdate")
               PROVE  /\ rows[j].ok <= effects[j]
                      /\ Fits(j) => effects[j] <= Total(j)
                            + Executing(j, "insertAudit") + Executing(j, "insertAttempt")
                            + faults
    BY DEF Auditable
  <2> DEFINE C == At(j, {"insertAudit"})
             D == At(j, {"insertAttempt"})
  <2>0. Executing(j, "insertAudit") = Cardinality(C)
        /\ Executing(j, "insertAttempt") = Cardinality(D)
    <3>1. \A at : {w \in Workers : job[w] = j /\ pc[w] = at} = At(j, {at})
      BY DEF At
    <3> QED BY <3>1 DEF Executing
  <2>1. /\ rows[j].ok + Cardinality(Confirmed(j)) <= effects[j]
        /\ Fits(j) => effects[j] <= Total(j) + Cardinality(Unaudited(j)) + faults
    BY DEF AuditInv, EffectsAudited
  <2>2. /\ Cardinality(Confirmed(j)) \in Nat /\ Cardinality(Unaudited(j)) \in Nat
        /\ IsFiniteSet(C) /\ Cardinality(C) \in Nat
        /\ IsFiniteSet(D) /\ Cardinality(D) \in Nat
    BY AtIsFinite DEF At, Confirmed, Unaudited
  <2>3. /\ effects[j] \in Nat /\ rows[j].ok \in Nat /\ rows[j].error \in Nat
        /\ faults \in Nat
    BY DEF AuditInv, Sane, TypeOK, Of
  <2>4. Cardinality(Unaudited(j)) <= Cardinality(C) + Cardinality(D)
    <3>1. Unaudited(j) = C \cup D /\ C \cap D = {}
      BY DEF Unaudited, At, Audits
    <3> HIDE DEF C, D
    <3>2. Cardinality(C \cup D) = Cardinality(C) + Cardinality(D) - Cardinality(C \cap D)
      BY <2>2, FS_Union
    <3>3. Cardinality(C \cap D) = 0
      BY <3>1, FS_EmptySet
    <3> QED BY <2>2, <3>1, <3>2, <3>3
  <2> HIDE DEF C, D
  <2> QED BY <2>0, <2>1, <2>2, <2>3, <2>4 DEF Total
<1> QED BY <1>1, <1>2, <1>3, PTL DEF Spec

-----------------------------------------------------------------------------
(* The firmware on the device and in the table.  RecordedIsInstalled rests  *)
(* on what a firmware job is at while nobody runs beside it: when the two   *)
(* differ, the job that is installed has not succeeded yet.                 *)

\* What a fetch does, in its two forms.
LEMMA FetchClaims ==
    ASSUME Sane, NEW w \in Workers, NEW p \in Partitions, Fetch(w, p) \/ FetchFails(w, p)
    PROVE  \E j \in Known, c \in Starts \cup {"failed", "commit"} :
              /\ pc[w] = "idle" /\ topic[p] # <<>> /\ j = Head(topic[p])
              /\ \A v \in Workers : owns[v] => part[v] # p
              /\ job' = [job EXCEPT ![w] = j] /\ part' = [part EXCEPT ![w] = p]
              /\ owns' = [owns EXCEPT ![w] = TRUE]
              /\ pc' = [pc EXCEPT ![w] = c]
              /\ answer' = [answer EXCEPT ![w] = "none"]
              /\ overlapped' = overlapped \cup
                   (IF Busy = {} THEN {} ELSE {j} \cup {job[v] : v \in Busy})
              /\ state' \in {state, [state EXCEPT ![j] = "RUNNING"]}
              /\ c \in Starts => /\ state' = [state EXCEPT ![j] = "RUNNING"]
                                 /\ c \in CallsOf[type[j]] /\ missed' = missed
              /\ c \notin Starts => missed' = missed \cup {j}
<1>1. CASE Fetch(w, p)
  <2>1. PICK j \in Fetchable(w, p) :
           /\ Claim(w, p, j)
           /\ state' = [state EXCEPT ![j] = "RUNNING"]
           /\ Goto(w, IF Decodes(j) THEN FirstCall[type[j]] ELSE "failed")
           /\ missed' = IF Decodes(j) THEN missed ELSE missed \cup {j}
    BY <1>1 DEF Fetch
  <2>2. /\ topic[p] # <<>> /\ j = Head(topic[p]) /\ j \in Known /\ type[j] \in AllTypes
        /\ \A v \in Workers : owns[v] => part[v] # p
    BY <2>1, FetchableIsJob DEF Sane
  <2>3. FirstCall[type[j]] \in Starts /\ FirstCall[type[j]] \in CallsOf[type[j]]
    BY <2>2, FirstCallStarts
  <2>4. pc[w] = "idle"
    BY <1>1 DEF Fetch
  <2>5. CASE Decodes(j)
    BY <2>1, <2>2, <2>3, <2>4, <2>5 DEF Claim, Goto
  <2>6. CASE ~Decodes(j)
    <3>1. "failed" \notin Starts
      BY DEF Starts
    <3> QED BY <2>1, <2>2, <2>4, <2>6, <3>1 DEF Claim, Goto
  <2> QED BY <2>5, <2>6
<1>2. CASE FetchFails(w, p)
  <2>1. PICK j \in Fetchable(w, p) :
           /\ Claim(w, p, j)
           /\ state' \in {state, [state EXCEPT ![j] = "RUNNING"]}
           /\ missed' = missed \cup {j}
    BY <1>2 DEF FetchFails
  <2>2. /\ topic[p] # <<>> /\ j = Head(topic[p]) /\ j \in Known
        /\ \A v \in Workers : owns[v] => part[v] # p
    BY <2>1, FetchableIsJob DEF Sane
  <2>3. pc[w] = "idle" /\ Goto(w, "commit") /\ "commit" \notin Starts
    BY <1>2 DEF FetchFails, Starts
  <2> QED BY <2>1, <2>2, <2>3 DEF Claim, Goto
<1> QED BY <1>1, <1>2

IsFetch == \E w \in Workers, p \in Partitions : Fetch(w, p) \/ FetchFails(w, p)

\* But for fetches, nobody comes to a job.
LEMMA NobodyClaims ==
    ASSUME Sane, Next, ~IsFetch
    PROVE  /\ overlapped' = overlapped
           /\ \A v \in Workers : pc'[v] # "idle" => pc[v] # "idle" /\ job'[v] = job[v]
<1> DEFINE Good == /\ overlapped' = overlapped
                   /\ \A v \in Workers : pc'[v] # "idle" => pc[v] # "idle"
                                                            /\ job'[v] = job[v]
<1> USE DEF Sane, TypeOK, claimVars, historyVars
<1>1. ASSUME NEW w \in Workers, Handle(w) PROVE Good
  <2>1. overlapped' = overlapped
    BY <1>1 DEF Handle, SendCommand, InsertCommandAudit, PushFirmware,
         InsertFirmwareAttempt, UpdateDeviceFirmware, InsertDeviceMetric,
         InsertAlert, PostAlert, GetHealth, TouchDevice, CreateJob, Insert, Publish
  <2> QED BY <1>1, <2>1, HandleMovesOne DEF Calls
<1>2. ASSUME NEW w \in Workers, Success(w) \/ RetryOrDLQ(w) \/ ReportFails(w) PROVE Good
  BY <1>2 DEF Success, RetryOrDLQ, ReportFails, Goto
<1>3. ASSUME NEW w \in Workers, CommitMessage(w) \/ Crash(w) PROVE Good
  BY <1>3 DEF CommitMessage, Crash, Release, Goto
<1>4. ASSUME NEW w \in Workers, Rebalance(w) PROVE Good
  BY <1>4 DEF Rebalance
<1>5. CASE \/ \E j \in Jobs, t \in Types, load \in Payloads : Submit(j, t, load)
           \/ \E j \in JobIds, p \in Partitions : Forward(j, p)
           \/ AllDone
  BY <1>5 DEF Submit, Forward, AllDone, vars
<1> QED BY <1>1, <1>2, <1>3, <1>4, <1>5 DEF Next, IsFetch

\* Two workers at jobs at once leave a mark on both.
Overlaps ==
    \A v, w \in Workers :
        v # w /\ pc[v] # "idle" /\ pc[w] # "idle" => job[v] \in overlapped

LEMMA NextOverlaps ==
    ASSUME Sane, Overlaps, Next
    PROVE  Overlaps' /\ overlapped \subseteq overlapped'
<1>1. CASE ~IsFetch
  BY <1>1, NobodyClaims DEF Overlaps
<1>2. ASSUME NEW u \in Workers, NEW p \in Partitions, Fetch(u, p) \/ FetchFails(u, p)
      PROVE  Overlaps' /\ overlapped \subseteq overlapped'
  <2>1. PICK j \in Known, c \in Starts \cup {"failed", "commit"} :
              /\ pc[u] = "idle"
              /\ job' = [job EXCEPT ![u] = j] /\ pc' = [pc EXCEPT ![u] = c]
              /\ overlapped' = overlapped \cup
                   (IF Busy = {} THEN {} ELSE {j} \cup {job[v] : v \in Busy})
    BY <1>2, FetchClaims
  <2>2. /\ job'[u] = j /\ \A v \in Workers : v # u => pc'[v] = pc[v] /\ job'[v] = job[v]
    BY <2>1 DEF Sane, TypeOK
  <2>3. ASSUME NEW v \in Workers, NEW w \in Workers, v # w,
               pc'[v] # "idle", pc'[w] # "idle"
        PROVE  job'[v] \in overlapped'
    <3>1. CASE v = u
      <4>1. w \in Busy
        BY <2>2, <2>3, <3>1 DEF Busy
      <4> QED BY <2>1, <2>2, <3>1, <4>1
    <3>2. CASE v # u
      <4>1. v \in Busy /\ job'[v] = job[v]
        BY <2>2, <2>3, <3>2 DEF Busy
      <4> QED BY <2>1, <4>1
    <3> QED BY <3>1, <3>2
  <2> QED BY <2>1, <2>3 DEF Overlaps
<1> QED BY <1>1, <1>2 DEF IsFetch

\* No firmware job ran beside another job.
FirmwareAlone == \A j \in Of("FirmwareUpdate") : j \notin overlapped

\* The two agree unless the job installed has yet to succeed.
TableBehind ==
    installed # recorded =>
        installed \in Of("FirmwareUpdate") /\ state[installed] # "SUCCESS"

FirmwareStage(w) ==
    pc[w] # "idle" /\ type[job[w]] = "FirmwareUpdate" =>
        /\ pc[w] = "push" => state[job[w]] = "RUNNING"
        /\ pc[w] = "insertAttempt" /\ answer[w] = "ok" => installed = job[w]
        /\ pc[w] = "updateFirmware" => installed = job[w]
        /\ pc[w] = "ok" => installed = recorded

FirmwareInv ==
    /\ Sane /\ Overlaps
    /\ FirmwareAlone => TableBehind /\ \A w \in Workers : FirmwareStage(w)

\* The device's firmware and the table's change in two calls.
LEMMA FirmwareChanges ==
    ASSUME NEW w \in Workers, Handle(w) \/ Around(w),
           ~PushFirmware(w), ~UpdateDeviceFirmware(w)
    PROVE  /\ UNCHANGED <<installed, recorded>>
           /\ UNCHANGED state \/ Success(w) \/ RetryOrDLQ(w)
BY ZenonT(30) DEF Handle, SendCommand, Around,
       InsertCommandAudit, InsertFirmwareAttempt, InsertDeviceMetric,
       InsertAlert, PostAlert, GetHealth, TouchDevice, CreateJob, Publish, Insert,
       ReportFails, CommitMessage, Crash, Rebalance, Success, RetryOrDLQ,
       tableVars, deviceVars, jobVars

\* The calls of a firmware job's run.
LEMMA FirmwareRun ==
    ASSUME FirmwareInv, FirmwareAlone, NEW w \in Workers,
           Handle(w) \/ Around(w), ~Rebalance(w), type[job[w]] = "FirmwareUpdate",
           job[w] \in Known, UNCHANGED type
    PROVE  TableBehind' /\ FirmwareStage(w)'
<1> DEFINE j == job[w]
<1>0. /\ Sane /\ TableBehind /\ FirmwareStage(w)
      /\ j \in Of("FirmwareUpdate") /\ Of("FirmwareUpdate")' = Of("FirmwareUpdate")
      /\ j \in JobIds
  BY DEF FirmwareInv, Of, Known
<1>1. state \in [JobIds -> JobStates] /\ pc \in [Workers -> Pcs]
      /\ answer \in [Workers -> Answers \cup {"none", "unhealthy"}]
  BY <1>0 DEF Sane, TypeOK, JobStates
<1>2. pc[w] \in Calls => pc[w] \in {"push", "insertAttempt", "updateFirmware"}
  BY <1>0 DEF Sane, RightHandler, CallsOf, Calls
<1>3. CASE PushFirmware(w)
  <2>1. /\ pc[w] = "push" /\ pc'[w] = "insertAttempt" /\ UNCHANGED <<job, state, recorded>>
        /\ answer'[w] # "refused" => installed' = j
        /\ answer'[w] = "refused" => installed' = installed
    BY <1>1, <1>3 DEF PushFirmware, Goto, claimVars, jobVars, tableVars
  <2>2. state[j] # "SUCCESS"
    BY <1>0, <2>1 DEF FirmwareStage
  <2>3. TableBehind'
    BY <1>0, <2>1, <2>2 DEF TableBehind
  <2> QED BY <2>1, <2>3 DEF FirmwareStage
<1>4. CASE UpdateDeviceFirmware(w)
  <2>1. /\ pc[w] = "updateFirmware" /\ pc'[w] \in {"ok", "failed"}
        /\ UNCHANGED <<job, state, installed>> /\ recorded' \in {recorded, j}
        /\ pc'[w] = "ok" => recorded' = j
    BY <1>1, <1>4 DEF UpdateDeviceFirmware, Goto, claimVars, jobVars, deviceVars
  <2>2. installed = j
    BY <1>0, <2>1 DEF FirmwareStage
  <2>3. TableBehind'
    BY <1>0, <2>1, <2>2 DEF TableBehind
  <2> QED BY <2>1, <2>2, <2>3 DEF FirmwareStage
<1>5. CASE InsertFirmwareAttempt(w)
  <2>1. /\ pc[w] = "insertAttempt" /\ UNCHANGED <<job, state, installed, recorded, answer>>
        /\ pc'[w] = "failed" \/ (pc'[w] = "updateFirmware" /\ answer[w] = "ok")
    BY <1>1, <1>5 DEF InsertFirmwareAttempt, Insert, Goto, claimVars, jobVars, deviceVars
  <2>2. TableBehind'
    BY <1>0, <2>1 DEF TableBehind
  <2> QED BY <1>0, <2>1, <2>2 DEF FirmwareStage
<1>6. CASE Success(w)
  <2>1. /\ pc[w] = "ok" /\ pc'[w] = "commit" /\ UNCHANGED <<installed, recorded>>
    BY <1>1, <1>6 DEF Success, Goto, tableVars, deviceVars
  <2>2. installed = recorded
    BY <1>0, <2>1 DEF FirmwareStage
  <2> QED BY <2>1, <2>2 DEF FirmwareStage, TableBehind
<1>7. CASE RetryOrDLQ(w) \/ ReportFails(w) \/ CommitMessage(w) \/ Crash(w)
  <2>1. pc'[w] \in {"idle", "commit"}
    BY <1>1, <1>7 DEF RetryOrDLQ, ReportFails, CommitMessage, Crash, Release, Goto
  <2>2. /\ UNCHANGED <<installed, recorded>>
        /\ state' \in {state, [state EXCEPT ![j] = "FAILED"], [state EXCEPT ![j] = "RETRY"]}
    BY <1>7 DEF RetryOrDLQ, ReportFails, CommitMessage, Crash, tableVars, deviceVars, jobVars
  <2>3. \A k \in JobIds : state[k] # "SUCCESS" => state'[k] # "SUCCESS"
    BY <1>0, <1>1, <2>2
  <2>4. TableBehind'
    BY <1>0, <2>2, <2>3 DEF TableBehind, Of
  <2> QED BY <2>1, <2>4 DEF FirmwareStage
<1>8. Handle(w) => pc[w] \in Calls
  BY <1>0, HandleMovesOne
<1> QED
  BY <1>2, <1>3, <1>4, <1>5, <1>6, <1>7, <1>8
     DEF Handle, Around, SendCommand, InsertCommandAudit, InsertDeviceMetric, InsertAlert,
         PostAlert, GetHealth, TouchDevice, CreateJob, Publish, Insert

\* A worker's step at another job leaves the two and their job alone.
LEMMA OtherRun ==
    ASSUME Sane, TableBehind, NEW w \in Workers, Handle(w) \/ Around(w),
           pc[w] # "idle", type[job[w]] # "FirmwareUpdate",
           \A k \in Known : type'[k] = type[k]
    PROVE  TableBehind'
<1>2. pc[w] \notin {"push", "updateFirmware"}
  <2>1. job[w] \in Known /\ (pc[w] \in Calls => pc[w] \in CallsOf[type[job[w]]])
    BY DEF Sane, RightHandler
  <2>2. type[job[w]] \in AllTypes
    BY <2>1 DEF Known, Sane, TypeOK
  <2> QED BY <2>1, <2>2 DEF CallsOf, AllTypes, Calls
<1>3. UNCHANGED <<installed, recorded>> /\ (UNCHANGED state \/ Success(w) \/ RetryOrDLQ(w))
  BY <1>2, FirmwareChanges DEF PushFirmware, UpdateDeviceFirmware
<1>4. \A k \in JobIds : k # job[w] => state'[k] = state[k]
  BY <1>3 DEF Success, RetryOrDLQ, Sane, TypeOK
<1>5. ASSUME installed # recorded
      PROVE  installed \in Of("FirmwareUpdate")' /\ state'[installed] # "SUCCESS"
  <2>1. /\ installed \in JobIds /\ type[installed] = "FirmwareUpdate"
        /\ state[installed] # "SUCCESS"
    BY <1>5 DEF TableBehind, Of
  <2>2. installed # job[w] /\ installed \in Known
    BY <2>1 DEF Known
  <2> QED BY <1>4, <2>1, <2>2 DEF Of
<1> QED BY <1>3, <1>5 DEF TableBehind

\* A worker's step moves it alone, and keeps it at its job or frees it.
LEMMA StepMovesOne ==
    ASSUME Sane, NEW w \in Workers, Handle(w) \/ Around(w), ~Rebalance(w)
    PROVE  /\ pc[w] # "idle" /\ job[w] \in Known /\ job[w] \in JobIds
           /\ pc'[w] = "idle" \/ job'[w] = job[w]
           /\ \A v \in Workers : v # w => pc'[v] = pc[v] /\ job'[v] = job[v]
<1>0. /\ pc \in [Workers -> Pcs] /\ job \in [Workers -> JobIds \cup {None}]
      /\ pc[w] # "idle" => job[w] \in Known /\ job[w] \in JobIds
  BY DEF Sane, TypeOK, RightHandler, Known
<1>1. CASE Handle(w)
  BY <1>0, <1>1, HandleMovesOne DEF Calls
<1>2. CASE Success(w) \/ RetryOrDLQ(w) \/ ReportFails(w)
  BY <1>0, <1>2 DEF Success, RetryOrDLQ, ReportFails, Goto, claimVars
<1>3. CASE CommitMessage(w) \/ Crash(w)
  BY <1>0, <1>3 DEF CommitMessage, Crash, Release, Goto
<1> QED BY <1>1, <1>2, <1>3 DEF Around

\* Firmware through a worker's step: nobody else is at a firmware job.
LEMMA StepFirmware ==
    ASSUME FirmwareInv, FirmwareAlone, Overlaps', FirmwareAlone',
           overlapped \subseteq overlapped', \A k \in Known : type'[k] = type[k],
           NEW w \in Workers, Handle(w) \/ Around(w), ~Rebalance(w)
    PROVE  TableBehind' /\ \A v \in Workers : FirmwareStage(v)'
<1>0. /\ Sane /\ Overlaps /\ TableBehind
      /\ \A v \in Workers : pc[v] # "idle" => job[v] \in Known /\ job[v] \in JobIds
  BY DEF FirmwareInv, Sane, RightHandler, Known
<1>1. /\ pc[w] # "idle" /\ job[w] \in Known /\ job[w] \in JobIds
      /\ pc'[w] = "idle" \/ job'[w] = job[w]
      /\ \A v \in Workers : v # w => pc'[v] = pc[v] /\ job'[v] = job[v]
  BY <1>0, StepMovesOne
<1>2. ASSUME NEW v \in Workers, v # w PROVE FirmwareStage(v)'
  <2> SUFFICES ASSUME pc[v] # "idle", type'[job[v]] = "FirmwareUpdate" PROVE FALSE
    BY <1>1, <1>2 DEF FirmwareStage
  <2>1. job[v] \in overlapped' /\ job[v] \in JobIds
    BY <1>0, <1>1, <1>2 DEF Overlaps
  <2> QED BY <2>1 DEF FirmwareAlone, Of
<1>3. CASE type[job[w]] = "FirmwareUpdate"
  <2>1. ~CreateJob(w)
    BY <1>0, <1>3, AlertOfCheck DEF CreateJob, Sane
  <2>2. UNCHANGED type
    BY ZenonT(30), <2>1
       DEF Handle, Around, SendCommand, InsertCommandAudit, PushFirmware,
           InsertFirmwareAttempt, UpdateDeviceFirmware, InsertDeviceMetric,
           InsertAlert, PostAlert, GetHealth, TouchDevice, Publish, Insert,
           Success, RetryOrDLQ, ReportFails, CommitMessage, Crash, Rebalance, jobVars
  <2> QED BY <1>1, <1>2, <1>3, <2>2, FirmwareRun
<1>4. CASE type[job[w]] # "FirmwareUpdate"
  <2>1. TableBehind'
    BY <1>0, <1>1, <1>4, OtherRun
  <2>2. FirmwareStage(w)'
    BY <1>1, <1>4 DEF FirmwareStage
  <2> QED BY <1>2, <2>1, <2>2
<1> QED BY <1>3, <1>4

\* A fetch restarts its job, and nobody else is at a firmware job.
LEMMA FetchFirmware ==
    ASSUME FirmwareInv, FirmwareAlone, Overlaps', FirmwareAlone',
           NEW w \in Workers, NEW p \in Partitions, Fetch(w, p) \/ FetchFails(w, p)
    PROVE  TableBehind' /\ \A v \in Workers : FirmwareStage(v)'
<1>0. Sane /\ TableBehind /\ \A v \in Workers : FirmwareStage(v)
  BY DEF FirmwareInv
<1>1. /\ UNCHANGED <<installed, recorded, type>>
      /\ state \in [JobIds -> JobStates] /\ pc \in [Workers -> Pcs]
      /\ job \in [Workers -> JobIds \cup {None}]
  BY <1>0 DEF Fetch, FetchFails, tableVars, deviceVars, Sane, TypeOK, JobStates
<1>2. PICK j \in Known, c \in Starts \cup {"failed", "commit"} :
         /\ pc[w] = "idle"
         /\ job' = [job EXCEPT ![w] = j] /\ pc' = [pc EXCEPT ![w] = c]
         /\ state' \in {state, [state EXCEPT ![j] = "RUNNING"]}
         /\ c \in Starts => state' = [state EXCEPT ![j] = "RUNNING"]
  BY <1>0, FetchClaims
<1>3. j \in JobIds /\ job'[w] = j /\ pc'[w] = c /\ c # "idle"
      /\ \A v \in Workers : v # w => pc'[v] = pc[v] /\ job'[v] = job[v]
  BY <1>1, <1>2 DEF Known, Starts
<1>4. TableBehind'
  BY <1>0, <1>1, <1>2 DEF TableBehind, Of
<1>5. ASSUME NEW v \in Workers, v # w PROVE FirmwareStage(v)'
  <2> SUFFICES ASSUME pc'[v] # "idle", type'[job'[v]] = "FirmwareUpdate" PROVE FALSE
    BY DEF FirmwareStage
  <2>1. job'[v] \in overlapped'
    BY <1>3, <1>5 DEF Overlaps
  <2>2. job'[v] \in JobIds
    BY <1>0, <1>3, <1>5 DEF Sane, RightHandler, Known
  <2> QED BY <2>1, <2>2 DEF FirmwareAlone, Of
<1>6. FirmwareStage(w)'
  <2>1. c = "push" => state'[j] = "RUNNING"
    BY <1>1, <1>2, <1>3 DEF Starts
  <2>2. c \notin {"insertAttempt", "updateFirmware", "ok"}
    BY <1>2 DEF Starts
  <2> QED BY <1>3, <2>1, <2>2 DEF FirmwareStage
<1> QED BY <1>4, <1>5, <1>6

LEMMA NextFirmwareInv ==
    ASSUME FirmwareInv, Next
    PROVE  FirmwareInv'
<1>0. Sane /\ Sane' /\ Overlaps /\ Overlaps' /\ overlapped \subseteq overlapped'
      /\ \A k \in Known : type'[k] = type[k]
  BY NextSane, NextOverlaps, TypesStay DEF FirmwareInv, Sane
<1> SUFFICES ASSUME FirmwareAlone'
             PROVE  TableBehind' /\ \A v \in Workers : FirmwareStage(v)'
  BY <1>0 DEF FirmwareInv
<1>1. FirmwareAlone
  <2> SUFFICES ASSUME NEW j \in Of("FirmwareUpdate") PROVE j \notin overlapped
    BY DEF FirmwareAlone
  <2>1. j \in Of("FirmwareUpdate")'
    BY <1>0 DEF Of, Known
  <2> QED BY <1>0, <2>1 DEF FirmwareAlone
<1>2. TableBehind /\ \A v \in Workers : FirmwareStage(v)
  BY <1>1 DEF FirmwareInv
<1>3. ASSUME NEW w \in Workers, Handle(w) \/ Around(w), ~Rebalance(w)
      PROVE  TableBehind' /\ \A v \in Workers : FirmwareStage(v)'
  BY <1>0, <1>1, <1>3, StepFirmware
<1>4. ASSUME NEW w \in Workers, NEW p \in Partitions, Fetch(w, p) \/ FetchFails(w, p)
      PROVE  TableBehind' /\ \A v \in Workers : FirmwareStage(v)'
  BY <1>0, <1>1, <1>4, FetchFirmware
<1>5. ASSUME UNCHANGED <<pc, job, answer, installed, recorded>>,
             \A k \in Known : state'[k] = state[k]
      PROVE  TableBehind' /\ \A v \in Workers : FirmwareStage(v)'
  <2>1. \A v \in Workers : pc[v] # "idle" => job[v] \in Known
    BY <1>0 DEF Sane, RightHandler
  <2>2. TableBehind'
    BY <1>0, <1>2, <1>5 DEF TableBehind, Of, Known
  <2>3. ASSUME NEW v \in Workers PROVE FirmwareStage(v)'
    BY <1>0, <1>2, <1>5, <2>1 DEF FirmwareStage
  <2> QED BY <2>2, <2>3
<1>6. ASSUME NEW w \in Workers, Rebalance(w)
      PROVE  TableBehind' /\ \A v \in Workers : FirmwareStage(v)'
  BY <1>5, <1>6 DEF Rebalance, tableVars, deviceVars, jobVars
<1>7. ASSUME NEW j \in Jobs, NEW t \in Types, NEW load \in Payloads, Submit(j, t, load)
      PROVE  TableBehind' /\ \A v \in Workers : FirmwareStage(v)'
  <2>1. j \notin Known /\ state \in [JobIds -> JobStates] /\ Known \subseteq JobIds
    BY <1>0, <1>7 DEF Submit, Known, Sane, TypeOK, JobStates
  <2>2. \A k \in Known : state'[k] = state[k]
    BY <1>7, <2>1 DEF Submit
  <2> QED BY <1>5, <1>7, <2>2 DEF Submit, tableVars, deviceVars, claimVars
<1>8. ASSUME NEW j \in JobIds, NEW p \in Partitions, Forward(j, p)
      PROVE  TableBehind' /\ \A v \in Workers : FirmwareStage(v)'
  BY <1>5, <1>8 DEF Forward, tableVars, deviceVars, jobVars, claimVars
<1>9. CASE AllDone
  BY <1>5, <1>9 DEF AllDone, vars, tableVars, deviceVars, jobVars, claimVars
<1> QED BY <1>3, <1>4, <1>6, <1>7, <1>8, <1>9 DEF Next, Around

\* When all firmware jobs of the device have succeeded and none ran beside
\* another job, devices.firmware_version (UpdateDeviceFirmware) is what the last
\* answer of the device left on it, whatever was retried, rerun or lost.
THEOREM TableTellsFirmware == Spec => []RecordedIsInstalled
<1>1. Init => FirmwareInv
  <2> SUFFICES ASSUME Init PROVE FirmwareInv
    OBVIOUS
  <2>1. Sane
    BY InitSane
  <2>2. Overlaps /\ TableBehind /\ \A w \in Workers : FirmwareStage(w)
    BY DEF Init, Overlaps, TableBehind, FirmwareStage
  <2> QED BY <2>1, <2>2 DEF FirmwareInv
<1>2. FirmwareInv /\ [Next]_vars => FirmwareInv'
  <2> SUFFICES ASSUME FirmwareInv, [Next]_vars PROVE FirmwareInv'
    OBVIOUS
  <2>1. CASE UNCHANGED vars
    <3>1. Sane'
      BY NextSane DEF FirmwareInv
    <3> QED BY <2>1, <3>1 DEF FirmwareInv, Overlaps, FirmwareAlone, TableBehind,
                 FirmwareStage, Of, vars, tableVars, deviceVars, jobVars, claimVars,
                 historyVars
  <2>2. CASE Next
    BY <2>2, NextFirmwareInv
  <2> QED BY <2>1, <2>2
<1>3. FirmwareInv => RecordedIsInstalled
  <2> SUFFICES ASSUME FirmwareInv,
                      \A j \in Of("FirmwareUpdate") :
                          state[j] = "SUCCESS" /\ j \notin overlapped
               PROVE  recorded = installed
    BY DEF RecordedIsInstalled
  <2>1. FirmwareAlone
    BY DEF FirmwareAlone
  <2> QED BY <2>1 DEF FirmwareInv, TableBehind
<1> QED BY <1>1, <1>2, <1>3, PTL DEF Spec

-----------------------------------------------------------------------------
(* The order of commands.  A job published later than one that has had no   *)
(* turn yet is behind it in the device's home partition and nowhere else:   *)
(* not running, not executed, and so not retried into another partition.    *)

In(s, x) == \E i \in DOMAIN s : s[i] = x

\* Each x in s has a y before it.
Follows(s, x, y) == \A m \in DOMAIN s : s[m] = x => \E n \in DOMAIN s : n < m /\ s[n] = y

LEMMA InAppend ==
    ASSUME NEW s \in Seq(JobIds), NEW x \in JobIds, NEW y
    PROVE  In(Append(s, x), y) <=> In(s, y) \/ y = x
<1>1. /\ DOMAIN Append(s, x) = 1..(Len(s) + 1) /\ DOMAIN s = 1..Len(s) /\ Len(s) \in Nat
      /\ Append(s, x)[Len(s) + 1] = x
      /\ \A i \in 1..Len(s) : Append(s, x)[i] = s[i]
  OBVIOUS
<1> QED BY <1>1 DEF In

LEMMA BeforeAppend ==
    ASSUME NEW s \in Seq(JobIds), NEW x \in JobIds, NEW y, NEW z,
           Before(Append(s, x), y, z)
    PROVE  Before(s, y, z) \/ (z = x /\ In(s, y))
<1>1. /\ DOMAIN Append(s, x) = 1..(Len(s) + 1) /\ DOMAIN s = 1..Len(s) /\ Len(s) \in Nat
      /\ Append(s, x)[Len(s) + 1] = x
      /\ \A i \in 1..Len(s) : Append(s, x)[i] = s[i]
  OBVIOUS
<1>2. PICK m, n \in 1..(Len(s) + 1) : m < n /\ Append(s, x)[m] = y /\ Append(s, x)[n] = z
  BY <1>1 DEF Before
<1>3. m \in 1..Len(s) /\ s[m] = y
  BY <1>1, <1>2
<1> QED BY <1>1, <1>2, <1>3 DEF Before, In

LEMMA FollowsAppend ==
    ASSUME NEW s \in Seq(JobIds), NEW x \in JobIds, NEW y, NEW z, Follows(s, z, y),
           x # z \/ In(s, y)
    PROVE  Follows(Append(s, x), z, y)
<1>1. /\ DOMAIN Append(s, x) = 1..(Len(s) + 1) /\ DOMAIN s = 1..Len(s) /\ Len(s) \in Nat
      /\ Append(s, x)[Len(s) + 1] = x
      /\ \A i \in 1..Len(s) : Append(s, x)[i] = s[i]
  OBVIOUS
<1> SUFFICES ASSUME NEW m \in 1..(Len(s) + 1), Append(s, x)[m] = z
             PROVE  \E n \in 1..(Len(s) + 1) : n < m /\ Append(s, x)[n] = y
  BY <1>1 DEF Follows
<1>2. CASE m \in 1..Len(s)
  BY <1>1, <1>2 DEF Follows
<1>3. CASE m = Len(s) + 1
  BY <1>1, <1>3 DEF In
<1> QED BY <1>1, <1>2, <1>3

LEMMA HeadAndTail ==
    ASSUME NEW s \in Seq(JobIds), s # <<>>, NEW y, NEW z
    PROVE  /\ In(Tail(s), y) => In(s, y)
           /\ In(s, y) /\ y # Head(s) => In(Tail(s), y)
           /\ In(s, Head(s))
           /\ Follows(s, z, y) => Head(s) # z
           /\ Follows(s, z, y) /\ Head(s) # y => Follows(Tail(s), z, y)
<1>1. /\ DOMAIN Tail(s) = 1..(Len(s) - 1) /\ DOMAIN s = 1..Len(s)
      /\ Len(s) \in Nat /\ Len(s) > 0 /\ Head(s) = s[1]
      /\ \A i \in 1..(Len(s) - 1) : Tail(s)[i] = s[i + 1]
  OBVIOUS
<1>2. In(Tail(s), y) => In(s, y)
  BY <1>1 DEF In
<1>3. In(s, y) /\ y # Head(s) => In(Tail(s), y)
  <2> SUFFICES ASSUME NEW i \in 1..Len(s), s[i] = y, y # Head(s) PROVE In(Tail(s), y)
    BY <1>1 DEF In
  <2>1. i - 1 \in 1..(Len(s) - 1) /\ Tail(s)[i - 1] = y
    BY <1>1
  <2> QED BY <1>1, <2>1 DEF In
<1>4. In(s, Head(s))
  BY <1>1 DEF In
<1>5. Follows(s, z, y) => Head(s) # z
  BY <1>1 DEF Follows
<1>6. ASSUME Follows(s, z, y), Head(s) # y PROVE Follows(Tail(s), z, y)
  <2> SUFFICES ASSUME NEW m \in 1..(Len(s) - 1), Tail(s)[m] = z
               PROVE  \E n \in 1..(Len(s) - 1) : n < m /\ Tail(s)[n] = y
    BY <1>1 DEF Follows
  <2>1. m + 1 \in 1..Len(s) /\ s[m + 1] = z
    BY <1>1
  <2>2. PICK n \in 1..Len(s) : n < m + 1 /\ s[n] = y
    BY <1>1, <1>6, <2>1 DEF Follows
  <2>3. n - 1 \in 1..(Len(s) - 1) /\ n - 1 < m /\ Tail(s)[n - 1] = y
    BY <1>1, <1>6, <2>2
  <2> QED BY <2>3
<1> QED BY <1>2, <1>3, <1>4, <1>5, <1>6

Commands == Of("RemoteCommand")

\* A command was sent, or its turn came to nothing.
HadTurn(j) == In(executed, j) \/ j \in missed

\* Only jobs with a row are published or executed.
Written ==
    /\ \A j \in JobIds : In(order, j) => j \in Known
    /\ \A j \in JobIds : In(executed, j) => j \in Known

\* A command a worker is past sending has had its turn.
TurnsTaken ==
    \A w \in Workers :
        pc[w] \notin {"idle", "send"} /\ job[w] \in Commands => HadTurn(job[w])

\* A command without a turn yet is in the home partition.
StillWaits == \A j \in Commands : In(order, j) /\ ~HadTurn(j) => In(topic[Home], j)

\* k waits behind j in the home partition, and nowhere else.
Waits(j, k) ==
    /\ ~In(executed, k) /\ retrying[k] = 0
    /\ \A w \in Workers : job[w] # k
    /\ \A p \in Partitions : p # Home => ~In(topic[p], k)
    /\ Follows(topic[Home], k, j)

Turns ==
    \A j, k \in Commands : Before(order, j, k) /\ ~HadTurn(j) => Waits(j, k)

TurnInv == Sane /\ Written /\ TurnsTaken /\ StillWaits /\ Turns /\ CommandsInOrder

TurnTypes ==
    /\ topic \in [Partitions -> Seq(JobIds)] /\ Home \in Partitions
    /\ retrying \in [JobIds -> Nat]
    /\ order \in Seq(JobIds) /\ executed \in Seq(JobIds)
    /\ pc \in [Workers -> Pcs] /\ job \in [Workers -> JobIds \cup {None}]
    /\ None \notin JobIds /\ Commands \subseteq JobIds /\ Commands \subseteq Known
    /\ \A w \in Workers : job[w] = None <=> pc[w] = "idle"

LEMMA TurnsTyped == ASSUME Sane PROVE TurnTypes
BY DeviceAssumption, IdsAreJobs DEF Sane, TypeOK, TurnTypes, Commands, Of, Known

\* Only Submit brings a command.
LEMMA CommandsStay ==
    ASSUME Sane, Next, ~\E j \in Jobs, t \in Types, load \in Payloads : Submit(j, t, load)
    PROVE  Commands' = Commands
<1>1. CASE UNCHANGED type
  BY <1>1 DEF Commands, Of
<1>2. ASSUME NEW w \in Workers, CreateJob(w) PROVE Commands' = Commands
  <2>1. job[w] \in Jobs /\ AlertFrom(job[w]) \in JobIds
    BY <1>2, AlertOfCheck DEF Sane, CreateJob
  <2>2. type' \in {type, [type EXCEPT ![AlertFrom(job[w])] = "AlertGeneration"]}
    BY <1>2 DEF CreateJob
  <2>3. type[AlertFrom(job[w])] \in {"none", "AlertGeneration"}
    BY <2>1 DEF Sane, RightHandler
  <2> QED BY <2>1, <2>2, <2>3 DEF Commands, Of, Sane, TypeOK
<1> QED BY <1>1, <1>2, TypeChanges

\* Steps that publish, execute and commit nothing.
LEMMA QuietTurns ==
    ASSUME TurnInv, Commands' = Commands, Known \subseteq Known',
           UNCHANGED <<topic, order, executed, missed>>,
           \A w \in Workers : job'[w] \in {job[w], None},
           \A k \in JobIds : retrying'[k] = retrying[k] \/ \E w \in Workers : job[w] = k
    PROVE  Written' /\ StillWaits' /\ Turns' /\ CommandsInOrder'
<1>0. TurnTypes
  BY TurnsTyped DEF TurnInv
<1>1. Written'
  BY DEF TurnInv, Written
<1>2. StillWaits'
  BY DEF TurnInv, StillWaits, HadTurn
<1>3. Turns'
  <2> SUFFICES ASSUME NEW j \in Commands, NEW k \in Commands,
                      Before(order, j, k), ~HadTurn(j)
               PROVE  Waits(j, k)'
    BY DEF Turns, HadTurn
  <2>1. Waits(j, k) /\ k \in JobIds /\ k # None
    BY <1>0 DEF TurnInv, Turns, TurnTypes
  <2> QED BY <2>1 DEF Waits
<1>4. CommandsInOrder'
  BY DEF TurnInv, CommandsInOrder, Commands
<1> QED BY <1>1, <1>2, <1>3, <1>4

\* A message is added that no command waits behind another for.
LEMMA AddTurns ==
    ASSUME TurnInv, Commands' = Commands, Known \subseteq Known',
           NEW p \in Partitions, NEW x \in Known,
           topic' = Append2(topic, p, x),
           \/ order' = order /\ retrying[x] > 0
           \/ order' = Append(order, x) /\ x \notin Commands,
           \A k \in JobIds : k # x => retrying'[k] = retrying[k],
           UNCHANGED <<executed, missed, job>>
    PROVE  Written' /\ StillWaits' /\ Turns' /\ CommandsInOrder'
<1>0. TurnTypes /\ x \in JobIds
  BY TurnsTyped DEF TurnInv, Known
<1>1. /\ \A q \in Partitions : q # p => topic'[q] = topic[q]
      /\ topic'[p] = Append(topic[p], x) /\ topic[p] \in Seq(JobIds)
      /\ topic[Home] \in Seq(JobIds)
  BY <1>0 DEF TurnTypes, Append2
<1>2. /\ \A j : In(order', j) => In(order, j) \/ j = x
      /\ \A j \in Commands : In(order', j) => In(order, j)
      /\ \A j, k \in Commands : Before(order', j, k) => Before(order, j, k)
  <2>1. CASE order' = order
    BY <2>1
  <2>2. CASE order' = Append(order, x) /\ x \notin Commands
    <3>1. order \in Seq(JobIds)
      BY <1>0 DEF TurnTypes
    <3>2. \A j : In(Append(order, x), j) <=> In(order, j) \/ j = x
      BY <1>0, <3>1, InAppend
    <3>3. \A j, k : Before(Append(order, x), j, k) => Before(order, j, k) \/ k = x
      BY <1>0, <3>1, BeforeAppend
    <3> QED BY <2>2, <3>2, <3>3
  <2> QED BY <2>1, <2>2
<1>3. \A q \in Partitions : \A y : In(topic'[q], y) <=> In(topic[q], y) \/ (q = p /\ y = x)
  <2>1. \A y : In(Append(topic[p], x), y) <=> In(topic[p], y) \/ y = x
    BY <1>0, <1>1, InAppend
  <2> QED BY <1>1, <2>1
<1>4. Written'
  BY <1>2 DEF TurnInv, Written
<1>5. StillWaits'
  <2> SUFFICES ASSUME NEW j \in Commands, In(order', j), ~HadTurn(j)
               PROVE  In(topic'[Home], j)
    BY DEF StillWaits, HadTurn
  <2>1. In(order, j)
    BY <1>2, <1>0 DEF TurnInv
  <2>2. In(topic[Home], j)
    BY <2>1 DEF TurnInv, StillWaits
  <2> QED BY <1>0, <1>3, <2>2 DEF TurnTypes
<1>6. Turns'
  <2> SUFFICES ASSUME NEW j \in Commands, NEW k \in Commands,
                      Before(order', j, k), ~HadTurn(j)
               PROVE  Waits(j, k)'
    BY DEF Turns, HadTurn
  <2>1. Waits(j, k) /\ k \in JobIds
    BY <1>0, <1>2 DEF TurnInv, Turns, TurnTypes
  <2>2. k # x
    BY <2>1 DEF Waits
  <2>3. ASSUME NEW q \in Partitions, q # Home PROVE ~In(topic'[q], k)
    BY <1>3, <2>1, <2>2, <2>3 DEF Waits
  <2>4. Follows(topic'[Home], k, j)
    <3>1. Follows(topic[Home], k, j) /\ Home \in Partitions
      BY <1>0, <2>1 DEF Waits, TurnTypes
    <3>2. CASE p = Home
      BY <1>0, <1>1, <2>2, <3>1, <3>2, FollowsAppend
    <3>3. CASE p # Home
      BY <1>1, <3>1, <3>3
    <3> QED BY <3>2, <3>3
  <2> QED BY <2>1, <2>2, <2>3, <2>4 DEF Waits
<1>7. CommandsInOrder'
  BY <1>2 DEF TurnInv, CommandsInOrder, Commands
<1> QED BY <1>4, <1>5, <1>6, <1>7

\* A new command goes behind those that wait.
LEMMA SubmitTurns ==
    ASSUME TurnInv, NEW x \in Jobs, NEW t \in Types, NEW load \in Payloads,
           Submit(x, t, load), Known \subseteq Known'
    PROVE  Written' /\ TurnsTaken' /\ StillWaits' /\ Turns' /\ CommandsInOrder'
<1>0. /\ TurnTypes /\ Sane /\ x \in JobIds /\ x \notin Known /\ t # "none"
      /\ type \in [JobIds -> AllTypes \cup {"none"}]
  BY TurnsTyped, IdsAreJobs, DeviceAssumption
     DEF TurnInv, Known, Submit, Sane, TypeOK, AllTypes
<1>1. /\ \A q \in Partitions : q # Home => topic'[q] = topic[q]
      /\ topic'[Home] = Append(topic[Home], x) /\ topic[Home] \in Seq(JobIds)
      /\ order' = Append(order, x)
      /\ UNCHANGED <<pc, job, retrying, executed, missed>>
      /\ type' = [type EXCEPT ![x] = t]
  BY <1>0 DEF TurnTypes, Submit, KeyedByDevice, Append2, deviceVars, claimVars, historyVars
<1>2. /\ Commands' \subseteq Commands \cup {x} /\ x \in Known'
  BY <1>0, <1>1 DEF Commands, Of, Known
<1>3. /\ ~In(order, x) /\ ~In(executed, x) /\ retrying[x] = 0
      /\ \A w \in Workers : job[w] # x
      /\ \A q \in Partitions : ~In(topic[q], x)
  <2>1. ~In(order, x) /\ ~In(executed, x)
    BY <1>0 DEF TurnInv, Written
  <2>2. retrying[x] = 0 /\ \A w \in Workers : job[w] # x
    BY <1>0 DEF Sane, RightHandler, TurnTypes
  <2>3. ASSUME NEW q \in Partitions PROVE ~In(topic[q], x)
    <3>1. topic[q] \in Seq(Known)
      BY <1>0 DEF Sane, RightHandler
    <3>2. \A i \in DOMAIN topic[q] : topic[q][i] \in Known
      BY <3>1
    <3> QED BY <1>0, <3>2 DEF In
  <2> QED BY <2>1, <2>2, <2>3
<1>4. /\ \A j : In(order', j) => In(order, j) \/ j = x
      /\ \A j, k : Before(order', j, k) => Before(order, j, k) \/ (k = x /\ In(order, j))
  BY <1>0, <1>1, InAppend, BeforeAppend DEF TurnTypes
<1>5. \A j, k : Before(order, j, k) => In(order, j) /\ In(order, k)
  BY DEF Before, In
<1>6. Written'
  BY <1>1, <1>2, <1>4 DEF TurnInv, Written
<1>7. TurnsTaken'
  BY <1>1, <1>2, <1>3 DEF TurnInv, TurnsTaken, HadTurn
<1>8. StillWaits'
  <2> SUFFICES ASSUME NEW j \in Commands', In(order', j), ~HadTurn(j)
               PROVE  In(topic'[Home], j)
    BY <1>1 DEF StillWaits, HadTurn
  <2> QED BY <1>0, <1>1, <1>2, <1>4, InAppend DEF TurnInv, StillWaits
<1>9. Turns'
  <2> SUFFICES ASSUME NEW j \in Commands', NEW k \in Commands',
                      Before(order', j, k), ~HadTurn(j)
               PROVE  Waits(j, k)'
    BY <1>1 DEF Turns, HadTurn
  <2>1. In(order, j) /\ j # x /\ j \in Commands
    BY <1>2, <1>3, <1>4, <1>5
  <2>2. CASE k = x
    <3>1. In(topic[Home], j)
      BY <2>1 DEF TurnInv, StillWaits
    <3>2. Follows(topic[Home], x, j)
      BY <1>0, <1>3 DEF Follows, In, TurnTypes
    <3>3. Follows(topic'[Home], x, j)
      BY <1>0, <1>1, <3>1, <3>2, FollowsAppend
    <3> QED BY <1>1, <1>3, <2>2, <3>3 DEF Waits
  <2>3. CASE k # x
    <3>1. Waits(j, k) /\ k \in Commands
      BY <1>2, <1>4, <2>1, <2>3 DEF TurnInv, Turns
    <3>2. Follows(topic'[Home], k, j)
      BY <1>0, <1>1, <2>3, <3>1, FollowsAppend DEF Waits
    <3> QED BY <1>1, <3>1, <3>2 DEF Waits
  <2> QED BY <2>2, <2>3
<1>10. CommandsInOrder'
  <2> SUFFICES ASSUME NEW j \in Commands', NEW k \in Commands',
                      Before(order', j, k), j \notin missed
               PROVE  ~Before(executed, k, j)
    BY <1>1 DEF CommandsInOrder, Commands
  <2>1. CASE k = x \/ j = x
    BY <1>3, <2>1 DEF Before, In
  <2>2. CASE k # x /\ j # x
    BY <1>2, <1>4, <2>2 DEF TurnInv, CommandsInOrder, Commands
  <2> QED BY <2>1, <2>2
<1> QED BY <1>6, <1>7, <1>8, <1>9, <1>10

LEMMA TakenStays ==
    ASSUME TurnInv, Commands' = Commands,
           \A j \in JobIds : HadTurn(j) => HadTurn(j)',
           \A w \in Workers : pc'[w] \notin {"idle", "send"} =>
               job'[w] = job[w] /\ pc[w] \notin {"idle", "send"}
    PROVE  TurnsTaken'
BY DEF TurnInv, TurnsTaken, Commands, Of

\* The committed message's job has had its turn.
LEMMA CommitTurns ==
    ASSUME TurnInv, NEW w \in Workers, CommitMessage(w), owns[w],
           Commands' = Commands, Known \subseteq Known'
    PROVE  Written' /\ StillWaits' /\ Turns' /\ CommandsInOrder'
<1>0. /\ TurnTypes /\ pc[w] = "commit" /\ part[w] \in Partitions
      /\ topic[part[w]] # <<>> /\ Head(topic[part[w]]) = job[w]
  BY TurnsTyped DEF TurnInv, CommitMessage, Sane, HeldIsHead
<1>1. /\ \A q \in Partitions : q # part[w] => topic'[q] = topic[q]
      /\ topic'[part[w]] = Tail(topic[part[w]])
      /\ \A q \in Partitions : topic[q] \in Seq(JobIds)
      /\ UNCHANGED <<order, executed, missed, retrying>>
      /\ \A v \in Workers : job'[v] \in {job[v], None}
  BY <1>0 DEF CommitMessage, Release, TurnTypes, deviceVars, historyVars
<1>2. \A j \in Commands : ~HadTurn(j) => j # job[w]
  BY <1>0 DEF TurnInv, TurnsTaken
<1> DEFINE s == topic[part[w]]
<1>3. /\ \A y : In(Tail(s), y) => In(s, y)
      /\ \A y : In(s, y) /\ y # job[w] => In(Tail(s), y)
      /\ \A y, z : Follows(s, z, y) /\ job[w] # y => Follows(Tail(s), z, y)
  <2>1. s \in Seq(JobIds) /\ s # <<>> /\ Head(s) = job[w]
    BY <1>0, <1>1
  <2> HIDE DEF s
  <2> QED BY <2>1, HeadAndTail
<1>4. ASSUME NEW q \in Partitions, NEW y PROVE In(topic'[q], y) => In(topic[q], y)
  <2>1. CASE q = part[w]
    BY <1>1, <1>3, <2>1
  <2> QED BY <1>1, <2>1
<1>5. Written'
  BY <1>1 DEF TurnInv, Written
<1>6. StillWaits'
  <2> SUFFICES ASSUME NEW j \in Commands, In(order, j), ~HadTurn(j)
               PROVE  In(topic'[Home], j)
    BY <1>1 DEF StillWaits, HadTurn
  <2>1. In(topic[Home], j) /\ j # job[w] /\ Home \in Partitions
    BY <1>0, <1>2 DEF TurnInv, StillWaits, TurnTypes
  <2>2. CASE part[w] = Home
    BY <1>1, <1>3, <2>1, <2>2
  <2>3. CASE part[w] # Home
    BY <1>1, <2>1, <2>3
  <2> QED BY <2>2, <2>3
<1>7. Turns'
  <2> SUFFICES ASSUME NEW j \in Commands, NEW k \in Commands,
                      Before(order, j, k), ~HadTurn(j)
               PROVE  Waits(j, k)'
    BY <1>1 DEF Turns, HadTurn
  <2>1. Waits(j, k) /\ j # job[w] /\ Home \in Partitions /\ k # None
    BY <1>0, <1>2 DEF TurnInv, Turns, TurnTypes
  <2>2. Follows(topic'[Home], k, j)
    <3>1. Follows(topic[Home], k, j)
      BY <2>1 DEF Waits
    <3>2. CASE part[w] = Home
      BY <1>1, <1>3, <2>1, <3>1, <3>2
    <3>3. CASE part[w] # Home
      BY <1>1, <2>1, <3>1, <3>3
    <3> QED BY <3>2, <3>3
  <2> QED BY <1>1, <1>4, <2>1, <2>2 DEF Waits
<1>8. CommandsInOrder'
  BY <1>1 DEF TurnInv, CommandsInOrder, Commands
<1> QED BY <1>5, <1>6, <1>7, <1>8

\* Whoever waits behind another is not fetched.
LEMMA FetchTurns ==
    ASSUME TurnInv, NEW w \in Workers, NEW p \in Partitions,
           Fetch(w, p) \/ FetchFails(w, p), Commands' = Commands, Known \subseteq Known'
    PROVE  Written' /\ TurnsTaken' /\ StillWaits' /\ Turns' /\ CommandsInOrder'
<1>0. /\ TurnTypes /\ Sane
      /\ UNCHANGED <<topic, order, executed, retrying>>
  BY TurnsTyped DEF TurnInv, Fetch, FetchFails, kafkaVars, deviceVars
<1>1. PICK x \in Known, c \in Starts \cup {"failed", "commit"} :
         /\ topic[p] # <<>> /\ x = Head(topic[p])
         /\ job' = [job EXCEPT ![w] = x] /\ pc' = [pc EXCEPT ![w] = c]
         /\ c \in Starts => c \in CallsOf[type[x]] /\ missed' = missed
         /\ c \notin Starts => missed' = missed \cup {x}
  BY <1>0, FetchClaims
<1>2. /\ job'[w] = x /\ pc'[w] = c /\ x \in JobIds /\ missed \subseteq missed'
      /\ \A v \in Workers : v # w => job'[v] = job[v] /\ pc'[v] = pc[v]
      /\ \A j : HadTurn(j) => HadTurn(j)'
  BY <1>0, <1>1 DEF TurnTypes, HadTurn, Known
<1>3. Written'
  BY <1>0 DEF TurnInv, Written
<1>4. TurnsTaken'
  <2> SUFFICES ASSUME NEW v \in Workers, pc'[v] \notin {"idle", "send"}, job'[v] \in Commands
               PROVE  HadTurn(job[v])'
    BY DEF TurnsTaken
  <2>1. CASE v # w
    BY <1>2, <2>1 DEF TurnInv, TurnsTaken
  <2>2. CASE v = w
    <3>1. type[x] = "RemoteCommand"
      BY <1>2, <2>2 DEF Commands, Of
    <3>2. c \notin Starts
      BY <1>1, <1>2, <2>2, <3>1 DEF Starts, CallsOf
    <3> QED BY <1>1, <1>2, <2>2, <3>2 DEF HadTurn
  <2> QED BY <2>1, <2>2
<1>5. StillWaits'
  BY <1>0, <1>2 DEF TurnInv, StillWaits
<1>6. Turns'
  <2> SUFFICES ASSUME NEW j \in Commands, NEW k \in Commands,
                      Before(order, j, k), ~HadTurn(j)
               PROVE  Waits(j, k)'
    BY <1>0, <1>2 DEF Turns
  <2>1. Waits(j, k)
    BY DEF TurnInv, Turns
  <2>2. k # x
    <3>1. topic[p] \in Seq(JobIds) /\ In(topic[p], x)
      BY <1>0, <1>1, HeadAndTail DEF TurnTypes
    <3>2. CASE p # Home
      BY <2>1, <3>1, <3>2 DEF Waits
    <3>3. CASE p = Home
      BY <1>1, <2>1, <3>1, <3>3, HeadAndTail DEF Waits
    <3> QED BY <3>2, <3>3
  <2>3. \A v \in Workers : job'[v] # k
    BY <1>2, <2>1, <2>2 DEF Waits
  <2> QED BY <1>0, <2>1, <2>3 DEF Waits
<1>7. CommandsInOrder'
  BY <1>0, <1>2 DEF TurnInv, CommandsInOrder, Commands
<1> QED BY <1>3, <1>4, <1>5, <1>6, <1>7

\* A command is sent when none before it waits.
LEMMA SendTurns ==
    ASSUME TurnInv, NEW w \in Workers, SendCommand(w),
           Commands' = Commands, Known \subseteq Known'
    PROVE  Written' /\ TurnsTaken' /\ StillWaits' /\ Turns' /\ CommandsInOrder'
<1> DEFINE x == job[w]
<1>0. /\ TurnTypes /\ Sane /\ x \in Known /\ x \in JobIds /\ x \in Commands
      /\ UNCHANGED <<topic, order, retrying, job>>
  <2>1. pc[w] = "send" /\ pc[w] \in Calls
    BY DEF SendCommand, Calls
  <2>2. x \in Known /\ x \in JobIds /\ "send" \in CallsOf[type[x]] /\ type[x] \in AllTypes
    BY <2>1 DEF TurnInv, Sane, RightHandler, Known, TypeOK
  <2>3. type[x] = "RemoteCommand"
    BY <2>2 DEF CallsOf, AllTypes
  <2> QED BY <2>2, <2>3, TurnsTyped
          DEF TurnInv, Commands, Of, SendCommand, kafkaVars, claimVars
<1>1. /\ \/ executed' = executed /\ missed \subseteq missed' /\ (x \in missed' \/ In(executed, x))
         \/ executed' = Append(executed, x) /\ missed' = missed /\ ~In(executed, x)
      /\ pc' = [pc EXCEPT ![w] = "insertAudit"]
  BY DEF SendCommand, In, Goto
<1>2. /\ \A j : In(executed', j) => In(executed, j) \/ j = x
      /\ \A j : In(executed, j) => In(executed', j)
      /\ In(executed', x) \/ x \in missed'
      /\ \A j, k : Before(executed', k, j) =>
             Before(executed, k, j) \/ (j = x /\ In(executed, k) /\ ~HadTurn(x))
                                    \/ (j = x /\ j \in missed')
  <2>1. CASE executed' = executed /\ (x \in missed' \/ In(executed, x))
    BY <2>1
  <2>2. CASE executed' = Append(executed, x) /\ missed' = missed /\ ~In(executed, x)
    <3>1. \A j : In(Append(executed, x), j) <=> In(executed, j) \/ j = x
      BY <1>0, InAppend DEF TurnTypes
    <3>2. \A j, k : Before(Append(executed, x), k, j) =>
             Before(executed, k, j) \/ (j = x /\ In(executed, k))
      BY <1>0, BeforeAppend DEF TurnTypes
    <3> QED BY <2>2, <3>1, <3>2 DEF HadTurn
  <2> QED BY <1>1, <2>1, <2>2
<1>3. missed \subseteq missed' /\ \A j : HadTurn(j) => HadTurn(j)'
  BY <1>1, <1>2 DEF HadTurn
<1>4. Written'
  BY <1>0, <1>2 DEF TurnInv, Written
<1>5. TurnsTaken'
  <2> SUFFICES ASSUME NEW v \in Workers, pc'[v] \notin {"idle", "send"}, job[v] \in Commands
               PROVE  HadTurn(job[v])'
    BY <1>0 DEF TurnsTaken
  <2>1. CASE v = w
    BY <1>0, <1>2, <2>1 DEF HadTurn
  <2>2. CASE v # w
    <3>1. pc'[v] = pc[v]
      BY <1>0, <1>1, <2>2 DEF TurnTypes
    <3>2. HadTurn(job[v])
      BY <3>1 DEF TurnInv, TurnsTaken
    <3> QED BY <1>0, <1>3, <3>2
  <2> QED BY <2>1, <2>2
<1>6. StillWaits'
  BY <1>0, <1>3 DEF TurnInv, StillWaits
<1>7. Turns'
  <2> SUFFICES ASSUME NEW j \in Commands, NEW k \in Commands,
                      Before(order, j, k), ~HadTurn(j)
               PROVE  Waits(j, k)'
    BY <1>0, <1>3 DEF Turns
  <2>1. Waits(j, k)
    BY DEF TurnInv, Turns
  <2>2. k # x
    BY <2>1 DEF Waits
  <2> QED BY <1>0, <1>2, <2>1, <2>2 DEF Waits
<1>8. CommandsInOrder'
  <2> SUFFICES ASSUME NEW j \in Commands, NEW k \in Commands,
                      Before(order, j, k), j \notin missed', Before(executed', k, j)
               PROVE  FALSE
    BY <1>0 DEF CommandsInOrder, Commands
  <2>1. ~Before(executed, k, j)
    BY <1>3 DEF TurnInv, CommandsInOrder, Commands
  <2>2. In(executed, k) /\ ~HadTurn(j)
    BY <1>2, <2>1
  <2> QED BY <2>2 DEF TurnInv, Turns, Waits
<1> QED BY <1>4, <1>5, <1>6, <1>7, <1>8

\* The other steps of a worker.
LEMMA OtherTurns ==
    ASSUME Sane, NEW w \in Workers, Handle(w) \/ Around(w),
           ~SendCommand(w), ~Publish(w), ~(CommitMessage(w) /\ owns[w])
    PROVE  /\ UNCHANGED <<topic, order, executed, missed>>
           /\ \A v \in Workers :
                 /\ job'[v] \in {job[v], None}
                 /\ pc'[v] \notin {"idle", "send"} =>
                        job'[v] = job[v] /\ pc[v] \notin {"idle", "send"}
           /\ \A k \in JobIds : retrying'[k] = retrying[k] \/ \E v \in Workers : job[v] = k
<1>0. TurnTypes
  BY TurnsTyped
<1>1. CASE Handle(w)
  <2>1. UNCHANGED <<topic, order, executed, missed, retrying>> /\ pc[w] # "send"
    BY <1>1, ZenonT(30)
       DEF Handle, InsertCommandAudit, PushFirmware, InsertFirmwareAttempt,
           UpdateDeviceFirmware, InsertDeviceMetric, InsertAlert, PostAlert, GetHealth,
           TouchDevice, CreateJob, Insert, deviceVars, kafkaVars, historyVars
  <2>2. /\ UNCHANGED job /\ pc[w] \in Calls
        /\ \A v \in Workers : v # w => pc'[v] = pc[v]
    BY <1>1, HandleMovesOne
  <2>3. "idle" \notin Calls
    BY DEF Calls
  <2> QED BY <2>1, <2>2, <2>3
<1>2. CASE Success(w) \/ RetryOrDLQ(w) \/ ReportFails(w)
  <2>1. /\ UNCHANGED <<topic, order, executed, missed, job>>
        /\ pc[w] \in {"ok", "failed"} /\ pc' = [pc EXCEPT ![w] = "commit"]
    BY <1>2 DEF Success, RetryOrDLQ, ReportFails, Goto, deviceVars, kafkaVars,
                historyVars, claimVars
  <2>2. retrying' \in {retrying, [retrying EXCEPT ![job[w]] = @ + 1]}
    BY <1>2 DEF Success, RetryOrDLQ, ReportFails, kafkaVars
  <2>3. \A k \in JobIds : retrying'[k] = retrying[k] \/ job[w] = k
    BY <1>0, <2>2 DEF TurnTypes
  <2> QED BY <1>0, <2>1, <2>3 DEF TurnTypes
<1>3. CASE CommitMessage(w) \/ Crash(w)
  <2>1. /\ UNCHANGED <<topic, order, executed, missed, retrying>> /\ Release(w)
    BY <1>3 DEF CommitMessage, Crash, deviceVars, kafkaVars, historyVars
  <2> QED BY <1>0, <2>1 DEF Release, Goto, TurnTypes
<1>4. CASE Rebalance(w)
  BY <1>4 DEF Rebalance, deviceVars, kafkaVars, historyVars
<1> QED BY <1>1, <1>2, <1>3, <1>4 DEF Around

LEMMA NextTurnInv ==
    ASSUME TurnInv, Next
    PROVE  TurnInv'
<1> DEFINE Goal == Written' /\ TurnsTaken' /\ StillWaits' /\ Turns' /\ CommandsInOrder'
<1>0. Sane /\ Sane' /\ Known \subseteq Known' /\ TurnTypes
  BY NextSane, TypesStay, TurnsTyped DEF TurnInv, Sane
<1>1. ASSUME NEW j \in Jobs, NEW t \in Types, NEW load \in Payloads, Submit(j, t, load)
      PROVE  Goal
  BY <1>0, <1>1, SubmitTurns
<1>2. ASSUME ~\E j \in Jobs, t \in Types, load \in Payloads : Submit(j, t, load)
      PROVE  Goal
  <2>0. Commands' = Commands
    BY <1>0, <1>2, CommandsStay
  <2>1. ASSUME NEW w \in Workers, NEW p \in Partitions, Fetch(w, p) \/ FetchFails(w, p)
        PROVE  Goal
    BY <1>0, <2>0, <2>1, FetchTurns
  <2>2. ASSUME NEW w \in Workers, SendCommand(w) PROVE Goal
    BY <1>0, <2>0, <2>2, SendTurns
  <2>3. ASSUME NEW w \in Workers, CommitMessage(w), owns[w] PROVE Goal
    <3>1. Written' /\ StillWaits' /\ Turns' /\ CommandsInOrder'
      BY <1>0, <2>0, <2>3, CommitTurns
    <3>2. /\ UNCHANGED <<executed, missed>>
          /\ \A v \in Workers : pc'[v] # "idle" => pc'[v] = pc[v] /\ job'[v] = job[v]
      BY <1>0, <2>3 DEF CommitMessage, Release, Goto, deviceVars, historyVars, TurnTypes
    <3>3. TurnsTaken'
      BY <2>0, <3>2, TakenStays DEF HadTurn
    <3> QED BY <3>1, <3>3
  <2>4. ASSUME NEW w \in Workers, Publish(w) PROVE Goal
    <3>1. /\ pc[w] = "publishAlert" /\ AlertFrom(job[w]) \in Known
          /\ AlertFrom(job[w]) \notin Commands
      <4>1. pc[w] = "publishAlert" /\ pc[w] # "idle"
        BY <2>4 DEF Publish
      <4>2. AlertFrom(job[w]) \in Known /\ job[w] \in Jobs
        BY <1>0, <4>1, AlertOfCheck DEF Sane, RightHandler
      <4>3. type[AlertFrom(job[w])] \in {"none", "AlertGeneration"}
        BY <1>0, <4>2 DEF Sane, RightHandler
      <4> QED BY <4>1, <4>2, <4>3 DEF Commands, Of
    <3>2. /\ UNCHANGED <<executed, missed, retrying, job>>
          /\ \/ UNCHANGED <<topic, order>>
             \/ /\ topic' = Append2(topic, Home, AlertFrom(job[w]))
                /\ order' = Append(order, AlertFrom(job[w]))
          /\ pc'[w] \in {"ok", "failed"} /\ \A v \in Workers : v # w => pc'[v] = pc[v]
      BY <1>0, <2>4 DEF Publish, KeyedByDevice, Goto, claimVars, historyVars, TurnTypes
    <3>3. Written' /\ StillWaits' /\ Turns' /\ CommandsInOrder'
      <4>1. CASE UNCHANGED <<topic, order>>
        BY <1>0, <2>0, <3>2, <4>1, QuietTurns
      <4>2. CASE /\ topic' = Append2(topic, Home, AlertFrom(job[w]))
                 /\ order' = Append(order, AlertFrom(job[w]))
        <5>1. Home \in Partitions
          BY <1>0 DEF TurnTypes
        <5> QED BY <1>0, <2>0, <3>1, <3>2, <4>2, <5>1, AddTurns
      <4> QED BY <3>2, <4>1, <4>2
    <3>4. TurnsTaken'
      <4>1. \A v \in Workers : pc'[v] \notin {"idle", "send"} =>
               job'[v] = job[v] /\ pc[v] \notin {"idle", "send"}
        BY <3>1, <3>2
      <4>2. \A k \in JobIds : HadTurn(k) => HadTurn(k)'
        BY <3>2 DEF HadTurn
      <4> QED BY <2>0, <4>1, <4>2, TakenStays
    <3> QED BY <3>3, <3>4
  <2>5. ASSUME NEW w \in Workers, Handle(w) \/ Around(w), ~SendCommand(w), ~Publish(w),
               ~(CommitMessage(w) /\ owns[w])
        PROVE  Goal
    <3>1. /\ UNCHANGED <<topic, order, executed, missed>>
          /\ \A v \in Workers :
                 /\ job'[v] \in {job[v], None}
                 /\ pc'[v] \notin {"idle", "send"} =>
                        job'[v] = job[v] /\ pc[v] \notin {"idle", "send"}
          /\ \A k \in JobIds : retrying'[k] = retrying[k] \/ \E v \in Workers : job[v] = k
      BY <1>0, <2>5, OtherTurns
    <3>2. \A k \in JobIds : HadTurn(k) => HadTurn(k)'
      BY <3>1 DEF HadTurn
    <3>3. TurnsTaken'
      BY <2>0, <3>1, <3>2, TakenStays
    <3> QED BY <1>0, <2>0, <3>1, <3>3, QuietTurns
  <2>6. ASSUME NEW j \in JobIds, NEW p \in Partitions, Forward(j, p) PROVE Goal
    <3>1. /\ topic' = Append2(topic, p, j) /\ order' = order /\ retrying[j] > 0
          /\ \A k \in JobIds : k # j => retrying'[k] = retrying[k]
          /\ UNCHANGED <<executed, missed, job, pc>>
      BY <1>0, <2>6 DEF Forward, deviceVars, historyVars, claimVars, TurnTypes
    <3>2. j \in Known
      BY <1>0, <3>1 DEF Sane, RightHandler
    <3>3. Written' /\ StillWaits' /\ Turns' /\ CommandsInOrder'
      BY <1>0, <2>0, <3>1, <3>2, AddTurns
    <3>4. TurnsTaken'
      BY <2>0, <3>1, TakenStays DEF HadTurn
    <3> QED BY <3>3, <3>4
  <2>7. ASSUME AllDone PROVE Goal
    <3>1. UNCHANGED <<topic, order, executed, missed, job, pc, retrying>>
      BY <2>7 DEF AllDone, vars, deviceVars, kafkaVars, claimVars, historyVars
    <3>2. TurnsTaken'
      BY <2>0, <3>1, TakenStays DEF HadTurn
    <3> QED BY <1>0, <2>0, <3>1, <3>2, QuietTurns
  <2> QED BY <1>2, <2>1, <2>2, <2>3, <2>4, <2>5, <2>6, <2>7 DEF Next, Around
<1>3. Goal
  BY <1>1, <1>2
<1> QED BY <1>0, <1>3 DEF TurnInv

\* "messages for the same device land on the same partition (preserving order)"
\* (Producer.Publish): the device executes its commands in the order in which
\* they were published, but for those that had a turn and were not executed in
\* it, under every fault and although retries go to any partition.
THEOREM CommandsKeepOrder == Spec => []CommandsInOrder
<1>1. Init => TurnInv
  <2> SUFFICES ASSUME Init PROVE TurnInv
    OBVIOUS
  <2>1. Sane
    BY InitSane
  <2>2. /\ Written /\ TurnsTaken /\ StillWaits /\ Turns /\ CommandsInOrder
    BY DEF Init, Written, TurnsTaken, StillWaits, Turns, CommandsInOrder, In, Before
  <2> QED BY <2>1, <2>2 DEF TurnInv
<1>2. TurnInv /\ [Next]_vars => TurnInv'
  <2> SUFFICES ASSUME TurnInv, [Next]_vars PROVE TurnInv'
    OBVIOUS
  <2>1. CASE UNCHANGED vars
    <3>1. Sane'
      BY NextSane DEF TurnInv
    <3> QED BY <2>1, <3>1 DEF TurnInv, Written, TurnsTaken, StillWaits, Turns, Waits,
                 CommandsInOrder, HadTurn, Commands, Of, Known, vars, deviceVars, jobVars,
                 kafkaVars, claimVars, historyVars
  <2>2. CASE Next
    BY <2>2, NextTurnInv
  <2> QED BY <2>1, <2>2
<1>3. TurnInv => CommandsInOrder
  BY DEF TurnInv
<1> QED BY <1>1, <1>2, <1>3, PTL DEF Spec

-----------------------------------------------------------------------------
(* What a job's runs are paid with.  A row of telemetry, and the alert job  *)
(* of a health check, take a run: a message that waits, or a worker that    *)
(* has still to run; a run that has done it commits its message.  A second  *)
(* one takes a fault, which leaves the message or sends it again.           *)

\* Calls after which a run owes nothing more.
Passed == {"ok", "commit", "publishAlert"}

\* Workers that have still to run the job, and those whose message it is.
Open(j) == {w \in Workers : job[w] = j /\ pc[w] \notin Passed}
Held(j) == {w \in Workers : job[w] = j /\ owns[w]}

Waiting(j) == {m \in Partitions \X Nat : m[2] \in DOMAIN topic[m[1]] /\ topic[m[1]][m[2]] = j}

\* Rows of a sample, alert jobs of a health check.
Score(j) == IF type[j] = "TelemetryProcessing" THEN rows[j].ok
            ELSE IF type[AlertFrom(j)] = "none" THEN 0 ELSE 1

Born(j) == IF type[j] = "none" THEN 0 ELSE 1

Books(j) ==
    Score(j) + Cardinality(Waiting(j)) + retrying[j] + Cardinality(Open(j))
        <= Born(j) + Cardinality(Held(j)) + faults

BooksInv ==
    /\ Sane /\ Fresh /\ BlockedOnlyByFault
    /\ \A j \in Jobs : IsFiniteSet(Waiting(j)) /\ Books(j)

LEMMA Injected ==
    ASSUME NEW S, NEW T, IsFiniteSet(T), NEW f \in [S -> T],
           \A a, b \in S : f[a] = f[b] => a = b
    PROVE  IsFiniteSet(S) /\ Cardinality(S) <= Cardinality(T)
BY FS_Injection DEF Injection, IsInjective

LEMMA BooksTyped ==
    ASSUME Sane, NEW j \in Jobs
    PROVE  /\ j \in JobIds /\ AlertFrom(j) \in JobIds /\ AlertFrom(j) \notin Jobs
           /\ Score(j) \in Nat /\ Born(j) \in {0, 1} /\ retrying[j] \in Nat /\ faults \in Nat
           /\ Open(j) \subseteq Workers /\ Held(j) \subseteq Workers
           /\ Cardinality(Open(j)) \in Nat /\ Cardinality(Held(j)) \in Nat
           /\ IsFiniteSet(Waiting(j)) => Cardinality(Waiting(j)) \in Nat
<1>1. j \in JobIds /\ AlertFrom(j) \in JobIds /\ AlertFrom(j) \notin Jobs
  BY IdsAreJobs
<1>2. Open(j) \subseteq Workers /\ Held(j) \subseteq Workers
  BY DEF Open, Held
<1>3. Score(j) \in Nat /\ Born(j) \in {0, 1} /\ retrying[j] \in Nat /\ faults \in Nat
  BY <1>1 DEF Sane, TypeOK, Score, Born
<1> QED BY <1>1, <1>2, <1>3, AtIsFinite, FS_CardinalityType

\* Every message held waits at the head of its partition.
LEMMA HeldWaits ==
    ASSUME Sane, NEW j, IsFiniteSet(Waiting(j))
    PROVE  Cardinality(Held(j)) <= Cardinality(Waiting(j))
<1> DEFINE f == [w \in Held(j) |-> <<part[w], 1>>]
<1>1. ASSUME NEW w \in Held(j) PROVE f[w] \in Waiting(j)
  <2>1. /\ part[w] \in Partitions /\ topic[part[w]] # <<>> /\ Head(topic[part[w]]) = j
    BY <1>1 DEF Held, Sane, HeldIsHead
  <2>2. topic[part[w]] \in Seq(JobIds)
    BY <2>1 DEF Sane, TypeOK
  <2>3. 1 \in DOMAIN topic[part[w]] /\ topic[part[w]][1] = j
    BY <2>1, <2>2
  <2> QED BY <2>1, <2>3 DEF Waiting
<1>2. f \in [Held(j) -> Waiting(j)]
  BY <1>1
<1>3. \A v, w \in Held(j) : f[v] = f[w] => v = w
  BY DEF Held, Sane, HeldIsHead
<1> HIDE DEF f
<1> QED BY <1>2, <1>3, Injected

\* What a new message and a commit change in what waits.
LEMMA WaitingGrows ==
    ASSUME Sane, NEW j, IsFiniteSet(Waiting(j)),
           NEW p \in Partitions, NEW x \in JobIds, topic' = Append2(topic, p, x)
    PROVE  /\ IsFiniteSet(Waiting(j)')
           /\ Cardinality(Waiting(j)') <= Cardinality(Waiting(j)) + 1
           /\ x # j => Waiting(j)' = Waiting(j)
<1> DEFINE n == Len(topic[p]) + 1
<1>1. /\ topic[p] \in Seq(JobIds) /\ topic'[p] = Append(topic[p], x)
      /\ \A q \in Partitions : q # p => topic'[q] = topic[q]
  BY DEF Sane, TypeOK, Append2
<1>2. /\ DOMAIN topic'[p] = 1..n /\ DOMAIN topic[p] = 1..Len(topic[p]) /\ Len(topic[p]) \in Nat
      /\ topic'[p][n] = x
      /\ \A i \in 1..Len(topic[p]) : topic'[p][i] = topic[p][i]
  BY <1>1
<1>3. Waiting(j)' \subseteq Waiting(j) \cup (IF x = j THEN {<<p, n>>} ELSE {})
  <2> SUFFICES ASSUME NEW q \in Partitions, NEW i \in Nat, i \in DOMAIN topic'[q],
                      topic'[q][i] = j, q = p /\ i = n => x # j
               PROVE  i \in DOMAIN topic[q] /\ topic[q][i] = j
    BY DEF Waiting
  <2>1. CASE q # p
    BY <1>1, <2>1
  <2>2. CASE q = p /\ i # n
    BY <1>2, <2>2
  <2>3. CASE q = p /\ i = n
    BY <1>2, <2>3
  <2> QED BY <2>1, <2>2, <2>3
<1>4. Waiting(j) \subseteq Waiting(j)'
  <2> SUFFICES ASSUME NEW q \in Partitions, NEW i \in Nat, i \in DOMAIN topic[q],
                      topic[q][i] = j
               PROVE  i \in DOMAIN topic'[q] /\ topic'[q][i] = j
    BY DEF Waiting
  <2>1. CASE q # p
    BY <1>1, <2>1
  <2>2. CASE q = p
    BY <1>2, <2>2
  <2> QED BY <2>1, <2>2
<1>5. /\ IsFiniteSet(Waiting(j) \cup {<<p, n>>}) /\ Cardinality(Waiting(j)) \in Nat
      /\ Cardinality(Waiting(j) \cup {<<p, n>>})
            \in {Cardinality(Waiting(j)), Cardinality(Waiting(j)) + 1}
  BY FS_AddElement, FS_CardinalityType
<1> HIDE DEF n
<1>6. /\ IsFiniteSet(Waiting(j)')
      /\ Cardinality(Waiting(j)') <= Cardinality(Waiting(j) \cup {<<p, n>>})
      /\ Cardinality(Waiting(j)') \in Nat
  <2>1. Waiting(j)' \subseteq Waiting(j) \cup {<<p, n>>}
    BY <1>3
  <2> QED BY <1>5, <2>1, FS_Subset, FS_CardinalityType
<1>7. x # j => Waiting(j)' = Waiting(j)
  BY <1>3, <1>4
<1> QED BY <1>5, <1>6, <1>7

LEMMA WaitingShrinks ==
    ASSUME Sane, NEW j, IsFiniteSet(Waiting(j)),
           NEW w \in Workers, CommitMessage(w), owns[w]
    PROVE  /\ IsFiniteSet(Waiting(j)')
           /\ Cardinality(Waiting(j)') <= Cardinality(Waiting(j))
           /\ job[w] = j => Cardinality(Waiting(j)') + 1 <= Cardinality(Waiting(j))
<1> DEFINE p == part[w]
           head == <<p, 1>>
           f == [m \in Waiting(j)' |-> IF m[1] = p THEN <<p, m[2] + 1>> ELSE m]
           Rest == Waiting(j) \ {head}
<1>1. /\ p \in Partitions /\ topic[p] \in Seq(JobIds) /\ topic[p] # <<>>
      /\ Head(topic[p]) = job[w] /\ topic'[p] = Tail(topic[p])
      /\ \A q \in Partitions : q # p => topic'[q] = topic[q]
  BY DEF Sane, HeldIsHead, TypeOK, CommitMessage
<1>2. /\ DOMAIN topic'[p] = 1..(Len(topic[p]) - 1) /\ DOMAIN topic[p] = 1..Len(topic[p])
      /\ Len(topic[p]) \in Nat /\ Len(topic[p]) > 0 /\ topic[p][1] = job[w]
      /\ \A i \in 1..(Len(topic[p]) - 1) : topic'[p][i] = topic[p][i + 1]
  BY <1>1
<1>3. ASSUME NEW m \in Waiting(j)' PROVE f[m] \in Rest
  <2>1. /\ m[1] \in Partitions /\ m[2] \in Nat /\ m = <<m[1], m[2]>>
        /\ m[2] \in DOMAIN topic'[m[1]] /\ topic'[m[1]][m[2]] = j
    BY DEF Waiting
  <2>2. CASE m[1] = p
    <3>1. /\ m[2] + 1 \in 1..Len(topic[p]) /\ topic[p][m[2] + 1] = j /\ m[2] + 1 # 1
      BY <1>2, <2>1, <2>2
    <3>2. <<p, m[2] + 1>> \in Waiting(j) /\ <<p, m[2] + 1>> # head
      BY <1>1, <1>2, <2>1, <3>1 DEF Waiting
    <3> QED BY <2>2, <3>2
  <2>3. CASE m[1] # p
    <3>1. m \in Waiting(j) /\ m # head
      BY <1>1, <2>1, <2>3 DEF Waiting
    <3> QED BY <2>3, <3>1
  <2> QED BY <2>2, <2>3
<1>4. f \in [Waiting(j)' -> Rest]
  BY <1>3
<1>5. ASSUME NEW a \in Waiting(j)', NEW b \in Waiting(j)', f[a] = f[b] PROVE a = b
  <2>1. /\ a = <<a[1], a[2]>> /\ b = <<b[1], b[2]>> /\ a[2] \in Nat /\ b[2] \in Nat
    BY DEF Waiting
  <2>2. CASE a[1] = p /\ b[1] = p
    <3>1. <<p, a[2] + 1>> = <<p, b[2] + 1>>
      BY <1>5, <2>2
    <3> QED BY <2>1, <2>2, <3>1
  <2>3. CASE a[1] # p /\ b[1] # p
    BY <1>5, <2>3
  <2>4. CASE a[1] = p /\ b[1] # p
    <3>1. <<p, a[2] + 1>> = b
      BY <1>5, <2>4
    <3> QED BY <2>4, <3>1
  <2>5. CASE a[1] # p /\ b[1] = p
    <3>1. a = <<p, b[2] + 1>>
      BY <1>5, <2>5
    <3> QED BY <2>5, <3>1
  <2> QED BY <2>2, <2>3, <2>4, <2>5
<1>6. /\ IsFiniteSet(Rest) /\ Cardinality(Waiting(j)) \in Nat
      /\ Cardinality(Rest) = IF head \in Waiting(j) THEN Cardinality(Waiting(j)) - 1
                             ELSE Cardinality(Waiting(j))
  BY FS_RemoveElement, FS_CardinalityType
<1>7. job[w] = j => head \in Waiting(j)
  BY <1>1, <1>2 DEF Waiting
<1>8. IsFiniteSet(Waiting(j)') /\ Cardinality(Waiting(j)') <= Cardinality(Rest)
  <2> HIDE DEF f, Rest
  <2> QED BY <1>4, <1>5, <1>6, Injected
<1>9. Cardinality(Waiting(j)') \in Nat
  BY <1>8, FS_CardinalityType
<1> HIDE DEF Rest, head, f
<1> QED BY <1>6, <1>7, <1>8, <1>9

\* One worker's move and the two counts of workers.
LEMMA OpenMoves ==
    ASSUME NEW w \in Workers, NEW j,
           \A v \in Workers : v # w => pc'[v] = pc[v] /\ job'[v] = job[v]
    PROVE  /\ Cardinality(Open(j)') <= Cardinality(Open(j)) + 1
           /\ w \notin Open(j)' \/ w \in Open(j) => Cardinality(Open(j)') <= Cardinality(Open(j))
           /\ w \notin Open(j)' /\ w \in Open(j) =>
                  Cardinality(Open(j)') + 1 <= Cardinality(Open(j))
<1>1. /\ Open(j) \subseteq Workers /\ Open(j)' \subseteq Workers
      /\ Open(j)' \subseteq Open(j) \cup {w}
      /\ w \notin Open(j)' => Open(j)' \subseteq Open(j) \ {w}
  BY DEF Open
<1> QED BY <1>1, CountGrows, CountStays, CountShrinks

LEMMA HeldMoves ==
    ASSUME NEW w \in Workers, NEW j,
           \A v \in Workers : v # w => owns'[v] = owns[v] /\ job'[v] = job[v]
    PROVE  /\ Cardinality(Held(j)) <= Cardinality(Held(j)') + 1
           /\ w \in Held(j)' \/ w \notin Held(j) => Cardinality(Held(j)) <= Cardinality(Held(j)')
           /\ w \in Held(j)' /\ w \notin Held(j) =>
                  Cardinality(Held(j)) + 1 <= Cardinality(Held(j)')
<1>1. /\ Held(j) \subseteq Workers /\ Held(j)' \subseteq Workers
      /\ Held(j) \subseteq Held(j)' \cup {w}
      /\ w \notin Held(j) => Held(j) \subseteq Held(j)' \ {w}
  BY DEF Held
<1> QED BY <1>1, CountGrows, CountStays, CountShrinks

\* A run scores when it passes, or by a fault.
LEMMA HandleScores ==
    ASSUME Sane, NEW w \in Workers, Handle(w)
    PROVE  /\ UNCHANGED <<owns, retrying, job>>
           /\ \A k \in Jobs : Born(k)' = Born(k) /\ (k # job[w] => Score(k)' = Score(k))
           /\ job[w] \in Jobs =>
                \/ pc[w] \notin Passed /\ pc'[w] \in Passed /\ Score(job[w])' <= Score(job[w]) + 1
                \/ (pc[w] \notin Passed \/ pc'[w] \in Passed) /\ Score(job[w])' = Score(job[w])
                \/ /\ pc[w] \notin Passed /\ faults' = faults + 1
                   /\ Score(job[w])' <= Score(job[w]) + 1
                \/ faults' = faults + 1 /\ Score(job[w])' = Score(job[w])
<1> DEFINE j == job[w]
<1>0. /\ pc \in [Workers -> Pcs] /\ rows \in [JobIds -> [ok : Nat, error : Nat]]
      /\ type \in [JobIds -> AllTypes \cup {"none"}]
      /\ \A k \in Jobs : k \in JobIds /\ AlertFrom(k) \in JobIds /\ AlertFrom(k) \notin Jobs
      /\ \A k, l \in Jobs : AlertFrom(k) = AlertFrom(l) => k = l
      /\ j \in JobIds /\ type[j] \in AllTypes /\ pc[w] \in CallsOf[type[j]]
  <2>1. j \in Known /\ j \in JobIds /\ pc[w] \in Calls /\ "idle" \notin Calls
    BY HandleMovesOne DEF Calls
  <2>2. pc[w] \in CallsOf[type[j]] /\ type[j] \in AllTypes
    BY <2>1 DEF Sane, RightHandler, Known, TypeOK
  <2> QED BY <2>1, <2>2, IdsAreJobs DEF Sane, TypeOK
<1>1. UNCHANGED <<owns, retrying, job>>
  BY DEF Handle, SendCommand, InsertCommandAudit, PushFirmware, InsertFirmwareAttempt,
         UpdateDeviceFirmware, InsertDeviceMetric, InsertAlert, PostAlert, GetHealth,
         TouchDevice, CreateJob, Publish, Insert, kafkaVars, claimVars
<1>2. CASE Inserts(w)
  <2>1. UNCHANGED type
    BY <1>2 DEF Inserts, InsertCommandAudit, InsertFirmwareAttempt, InsertDeviceMetric,
                InsertAlert, Insert, jobVars
  <2>2. /\ \A k \in JobIds : k # j => rows'[k] = rows[k]
        /\ pc[w] \in {"insertAudit", "insertAttempt", "insertMetric", "insertAlert"}
    BY <1>2, InsertsAre, InsertAdds
  <2>3. \A k \in Jobs : Born(k)' = Born(k) /\ (k # j => Score(k)' = Score(k))
    BY <1>0, <2>1, <2>2 DEF Born, Score
  <2>4. CASE type[j] # "TelemetryProcessing"
    <3>1. Score(j)' = Score(j)
      BY <1>1, <2>1, <2>4 DEF Score
    <3> QED BY <1>1, <2>2, <2>3, <3>1 DEF Passed
  <2>5. CASE type[j] = "TelemetryProcessing"
    <3>1. pc[w] = "insertMetric"
      BY <1>0, <2>5 DEF CallsOf
    <3>2. Insert(w, "insertMetric", "ok", "ok")
      BY <1>2, <3>1 DEF Inserts, InsertCommandAudit, InsertFirmwareAttempt,
                        InsertDeviceMetric, InsertAlert, Insert
    <3>3. \/ pc'[w] = "ok" \/ rows' = rows \/ faults' = faults + 1
      BY <1>0, <3>2 DEF Insert, Goto, Fault
    <3>4. rows'[j].ok \in {rows[j].ok, rows[j].ok + 1} /\ rows[j].ok \in Nat
      <4>1. "insertMetric" \in Calls
        BY DEF Calls
      <4>2. rows[j].ok \in Nat
        BY <1>0
      <4> QED BY <3>2, <4>1, <4>2, InsertAdds
    <3>5. Score(j)' = rows'[j].ok /\ Score(j) = rows[j].ok
      BY <1>1, <2>1, <2>5 DEF Score
    <3>6. rows' = rows => Score(j)' = Score(j)
      BY <1>1, <3>5
    <3>7. Score(j)' <= Score(j) + 1
      BY <3>4, <3>5
    <3> QED BY <1>1, <2>3, <3>1, <3>3, <3>6, <3>7 DEF Passed
  <2> QED BY <2>4, <2>5
<1>3. CASE CreateJob(w)
  <2>1. j \in Jobs /\ type[j] = "HealthCheck" /\ pc[w] = "create"
    BY <1>3, AlertOfCheck DEF Sane, CreateJob
  <2>2. /\ rows' = rows
        /\ \/ type' = type
           \/ /\ type' = [type EXCEPT ![AlertFrom(j)] = "AlertGeneration"]
              /\ pc'[w] = "publishAlert" \/ faults' = faults + 1
    BY <1>0, <1>3 DEF CreateJob, Goto, Fault, tableVars
  <2>3. \A k \in Jobs : type'[k] = type[k] /\ (k # j => type'[AlertFrom(k)] = type[AlertFrom(k)])
    BY <1>0, <2>1, <2>2
  <2>4. \A k \in Jobs : Born(k)' = Born(k) /\ (k # j => Score(k)' = Score(k))
    BY <2>2, <2>3 DEF Born, Score
  <2>5. Score(j)' \in {0, 1} /\ Score(j) \in {0, 1} /\ (type' = type => Score(j)' = Score(j))
    BY <1>1, <2>1, <2>2, <2>3 DEF Score
  <2>6. Score(j)' <= Score(j) + 1
    BY <2>5
  <2> QED BY <1>1, <2>1, <2>2, <2>4, <2>5, <2>6 DEF Passed
<1>4. CASE Publish(w)
  <2>1. /\ UNCHANGED <<rows, type>>
        /\ pc'[w] = "ok" \/ faults' = faults + 1
    BY <1>0, <1>4 DEF Publish, Goto, Fault, tableVars, jobVars
  <2> QED BY <1>1, <2>1 DEF Born, Score, Passed
<1>5. CASE \/ SendCommand(w) \/ PushFirmware(w) \/ UpdateDeviceFirmware(w)
           \/ PostAlert(w) \/ GetHealth(w) \/ TouchDevice(w)
  <2>1. /\ UNCHANGED <<rows, type>>
        /\ pc[w] \in {"send", "push", "updateFirmware", "webhook", "health", "touch"}
    BY <1>5 DEF SendCommand, PushFirmware, UpdateDeviceFirmware, PostAlert, GetHealth,
                TouchDevice, tableVars, jobVars
  <2> QED BY <1>1, <2>1 DEF Born, Score, Passed
<1> QED BY <1>2, <1>3, <1>4, <1>5 DEF Handle, Inserts

\* Outside the handler a job scores nothing.
LEMMA AroundScores ==
    ASSUME NEW w \in Workers, NEW p, Around(w) \/ Fetch(w, p) \/ FetchFails(w, p)
    PROVE  \A k \in Jobs : Born(k)' = Born(k) /\ Score(k)' = Score(k)
<1>1. UNCHANGED <<rows, type>>
  BY DEF Around, Success, RetryOrDLQ, ReportFails, CommitMessage, Crash, Rebalance,
         Fetch, FetchFails, tableVars, jobVars
<1> QED BY <1>1 DEF Born, Score

\* The sums, when each step is paid for.
LEMMA BooksBalance ==
    ASSUME Sane, Sane', NEW j \in Jobs, IsFiniteSet(Waiting(j)), IsFiniteSet(Waiting(j)'),
           Books(j),
           Score(j)' + Cardinality(Waiting(j)') + retrying'[j] + Cardinality(Open(j)')
                  + Born(j) + Cardinality(Held(j)) + faults
             <= Score(j) + Cardinality(Waiting(j)) + retrying[j] + Cardinality(Open(j))
                  + Born(j)' + Cardinality(Held(j)') + faults'
    PROVE  Books(j)'
<1>1. /\ Score(j) \in Nat /\ Born(j) \in {0, 1} /\ retrying[j] \in Nat /\ faults \in Nat
      /\ Cardinality(Open(j)) \in Nat /\ Cardinality(Held(j)) \in Nat
      /\ Cardinality(Waiting(j)) \in Nat
  BY BooksTyped
<1>2. /\ Score(j)' \in Nat /\ Born(j)' \in {0, 1} /\ retrying'[j] \in Nat /\ faults' \in Nat
      /\ Cardinality(Open(j)') \in Nat /\ Cardinality(Held(j)') \in Nat
      /\ Cardinality(Waiting(j)') \in Nat
  <2>1. Open(j)' \subseteq Workers /\ Held(j)' \subseteq Workers /\ j \in JobIds
    BY IdsAreJobs DEF Open, Held
  <2>2. Score(j)' \in Nat /\ Born(j)' \in {0, 1} /\ retrying'[j] \in Nat /\ faults' \in Nat
    BY <2>1 DEF Sane, TypeOK, Score, Born
  <2> QED BY <2>1, <2>2, AtIsFinite, FS_CardinalityType
<1> QED BY <1>1, <1>2 DEF Books

\* A handler's call.
LEMMA HandleBooks ==
    ASSUME BooksInv, Sane', faults' \in {faults, faults + 1}, NEW w \in Workers, Handle(w),
           NEW j \in Jobs
    PROVE  IsFiniteSet(Waiting(j)') /\ Books(j)'
<1>0. /\ Sane /\ IsFiniteSet(Waiting(j)) /\ Books(j) /\ j \in JobIds
      /\ faults \in Nat
  BY BooksTyped DEF BooksInv
<1>1. /\ UNCHANGED <<owns, retrying, job>> /\ Born(j)' = Born(j)
      /\ \A v \in Workers : v # w => pc'[v] = pc[v] /\ job'[v] = job[v] /\ owns'[v] = owns[v]
  BY <1>0, HandleScores, HandleMovesOne
<1>2. Held(j)' = Held(j)
  BY <1>1 DEF Held
<1>3. Waiting(j)' = Waiting(j)
  <2>1. CASE Publish(w)
    <3>1. pc[w] = "publishAlert"
      BY <2>1 DEF Publish
    <3>2. job[w] \in Jobs /\ AlertFrom(job[w]) \in JobIds /\ AlertFrom(job[w]) # j
      BY <1>0, <3>1, AlertOfCheck, IdsAreJobs DEF Sane
    <3>3. UNCHANGED topic \/ topic' = Append2(topic, Home, AlertFrom(job[w]))
      BY <2>1 DEF Publish, KeyedByDevice
    <3>4. CASE UNCHANGED topic
      BY <3>4 DEF Waiting
    <3>5. CASE topic' = Append2(topic, Home, AlertFrom(job[w]))
      BY <1>0, <3>2, <3>5, WaitingGrows, DeviceAssumption
    <3> QED BY <3>3, <3>4, <3>5
  <2>2. CASE ~Publish(w)
    <3>1. UNCHANGED topic
      BY <2>2 DEF Handle, SendCommand, InsertCommandAudit, PushFirmware,
             InsertFirmwareAttempt, UpdateDeviceFirmware, InsertDeviceMetric, InsertAlert,
             PostAlert, GetHealth, TouchDevice, CreateJob, Insert, kafkaVars
    <3> QED BY <3>1 DEF Waiting
  <2> QED BY <2>1, <2>2
<1>4. /\ Cardinality(Open(j)') <= Cardinality(Open(j)) + 1
      /\ w \notin Open(j)' \/ w \in Open(j) => Cardinality(Open(j)') <= Cardinality(Open(j))
      /\ w \notin Open(j)' /\ w \in Open(j) =>
             Cardinality(Open(j)') + 1 <= Cardinality(Open(j))
  BY <1>1, OpenMoves
<1>5. /\ Score(j) \in Nat /\ retrying[j] \in Nat /\ Cardinality(Open(j)) \in Nat
      /\ Cardinality(Held(j)) \in Nat /\ Cardinality(Waiting(j)) \in Nat
      /\ Born(j) \in {0, 1}
  BY <1>0, BooksTyped
<1>6. Score(j)' \in Nat /\ Cardinality(Open(j)') \in Nat
  <2>1. Open(j)' \subseteq Workers
    BY DEF Open
  <2> QED BY <1>0, <2>1, AtIsFinite DEF Sane, TypeOK, Score
<1>7. Score(j)' + Cardinality(Open(j)') + faults <= Score(j) + Cardinality(Open(j)) + faults'
  <2>1. CASE job[w] # j
    <3>1. Score(j)' = Score(j) /\ w \notin Open(j)'
      BY <1>0, <1>1, <2>1, HandleScores DEF Open
    <3> QED BY <1>0, <1>4, <1>5, <1>6, <3>1
  <2>2. CASE job[w] = j
    <3>1. /\ w \in Open(j) <=> pc[w] \notin Passed
          /\ w \in Open(j)' <=> pc'[w] \notin Passed
      BY <1>1, <2>2 DEF Open
    <3>2. \/ pc[w] \notin Passed /\ pc'[w] \in Passed /\ Score(j)' <= Score(j) + 1
          \/ (pc[w] \notin Passed \/ pc'[w] \in Passed) /\ Score(j)' = Score(j)
          \/ pc[w] \notin Passed /\ faults' = faults + 1 /\ Score(j)' <= Score(j) + 1
          \/ faults' = faults + 1 /\ Score(j)' = Score(j)
      <4>1. Score(job[w])' = Score(j)'
        BY <1>1, <2>2 DEF Score
      <4> QED BY <1>0, <2>2, <4>1, HandleScores
    <3> QED BY <1>0, <1>4, <1>5, <1>6, <3>1, <3>2
  <2> QED BY <2>1, <2>2
<1>8. Books(j)'
  BY <1>0, <1>1, <1>2, <1>3, <1>5, <1>6, <1>7, BooksBalance
<1> QED BY <1>0, <1>3, <1>8

\* The report, commit, crash or eviction of a run.
LEMMA AroundBooks ==
    ASSUME BooksInv, Sane', faults' \in {faults, faults + 1}, NEW w \in Workers, Around(w),
           NEW j \in Jobs
    PROVE  IsFiniteSet(Waiting(j)') /\ Books(j)'
<1>0. /\ Sane /\ IsFiniteSet(Waiting(j)) /\ Books(j) /\ j \in JobIds
      /\ faults \in Nat /\ None \notin JobIds /\ job \in [Workers -> JobIds \cup {None}]
      /\ pc \in [Workers -> Pcs] /\ owns \in [Workers -> BOOLEAN]
      /\ retrying \in [JobIds -> Nat]
  BY BooksTyped, IdsAreJobs DEF BooksInv, Sane, TypeOK
<1>1. Born(j)' = Born(j) /\ Score(j)' = Score(j)
  BY AroundScores
<1>2. /\ Score(j) \in Nat /\ retrying[j] \in Nat /\ Cardinality(Open(j)) \in Nat
      /\ Cardinality(Held(j)) \in Nat /\ Cardinality(Waiting(j)) \in Nat
      /\ Born(j) \in {0, 1}
  BY <1>0, BooksTyped
<1>3. Cardinality(Open(j)') \in Nat /\ Cardinality(Held(j)') \in Nat /\ retrying'[j] \in Nat
  <2>1. Open(j)' \subseteq Workers /\ Held(j)' \subseteq Workers
    BY DEF Open, Held
  <2> QED BY <1>0, <2>1, AtIsFinite DEF Sane, TypeOK
<1>4. CASE Success(w) \/ RetryOrDLQ(w) \/ ReportFails(w)
  <2>1. /\ UNCHANGED <<topic, owns, job>> /\ pc' = [pc EXCEPT ![w] = "commit"]
        /\ pc[w] \in {"ok", "failed"}
        /\ retrying' \in {retrying, [retrying EXCEPT ![job[w]] = @ + 1]}
        /\ pc[w] = "ok" => retrying' = retrying
    BY <1>4 DEF Success, RetryOrDLQ, ReportFails, Goto, kafkaVars, claimVars
  <2>2. Waiting(j)' = Waiting(j) /\ Held(j)' = Held(j)
    BY <2>1 DEF Waiting, Held
  <2>3. /\ \A v \in Workers : v # w => pc'[v] = pc[v] /\ job'[v] = job[v]
        /\ w \notin Open(j)'
        /\ w \in Open(j) <=> job[w] = j /\ pc[w] = "failed"
    BY <1>0, <2>1 DEF Open, Passed
  <2>4. /\ Cardinality(Open(j)') <= Cardinality(Open(j))
        /\ w \in Open(j) => Cardinality(Open(j)') + 1 <= Cardinality(Open(j))
    BY <2>3, OpenMoves
  <2>5. retrying'[j] = retrying[j] \/ (w \in Open(j) /\ retrying'[j] = retrying[j] + 1)
    BY <1>0, <2>1, <2>3
  <2>6. retrying'[j] + Cardinality(Open(j)') <= retrying[j] + Cardinality(Open(j))
    BY <1>2, <1>3, <2>4, <2>5
  <2>7. Books(j)'
    BY <1>0, <1>1, <1>2, <1>3, <2>2, <2>6, BooksBalance
  <2> QED BY <1>0, <2>2, <2>7
<1>5. CASE CommitMessage(w)
  <2>1. /\ retrying' = retrying /\ faults' = faults /\ pc[w] = "commit"
        /\ job' = [job EXCEPT ![w] = None] /\ owns' = [owns EXCEPT ![w] = FALSE]
        /\ pc' = [pc EXCEPT ![w] = "idle"]
    BY <1>5 DEF CommitMessage, Release, Goto
  <2>2. /\ \A v \in Workers : v # w => pc'[v] = pc[v] /\ job'[v] = job[v] /\ owns'[v] = owns[v]
        /\ w \notin Open(j)' /\ w \notin Held(j)'
        /\ w \in Held(j) <=> job[w] = j /\ owns[w]
    BY <1>0, <2>1 DEF Open, Held, Passed
  <2>3. /\ Cardinality(Open(j)') <= Cardinality(Open(j))
        /\ Cardinality(Held(j)) <= Cardinality(Held(j)') + 1
        /\ w \notin Held(j) => Cardinality(Held(j)) <= Cardinality(Held(j)')
    BY <2>2, OpenMoves, HeldMoves
  <2>4. /\ IsFiniteSet(Waiting(j)') /\ Cardinality(Waiting(j)') <= Cardinality(Waiting(j))
        /\ w \in Held(j) => Cardinality(Waiting(j)') + 1 <= Cardinality(Waiting(j))
    <3>1. CASE owns[w]
      BY <1>0, <1>5, <2>2, <3>1, WaitingShrinks
    <3>2. CASE ~owns[w]
      <4>1. topic' = topic
        BY <1>5, <3>2 DEF CommitMessage
      <4>2. Waiting(j)' = Waiting(j)
        BY <4>1 DEF Waiting
      <4> QED BY <1>0, <1>2, <2>2, <3>2, <4>2
    <3> QED BY <3>1, <3>2
  <2>5. Cardinality(Waiting(j)') \in Nat
    BY <2>4, FS_CardinalityType
  <2>6. Cardinality(Waiting(j)') + Cardinality(Open(j)') + Cardinality(Held(j))
          <= Cardinality(Waiting(j)) + Cardinality(Open(j)) + Cardinality(Held(j)')
    BY <1>2, <1>3, <2>3, <2>4, <2>5
  <2>7. Books(j)'
    BY <1>0, <1>1, <1>2, <1>3, <2>1, <2>4, <2>5, <2>6, BooksBalance
  <2> QED BY <2>4, <2>7
<1>6. CASE Crash(w) \/ Rebalance(w)
  <2>1. /\ UNCHANGED <<topic, retrying>> /\ faults' = faults + 1
        /\ owns' = [owns EXCEPT ![w] = FALSE]
        /\ job' \in {job, [job EXCEPT ![w] = None]}
        /\ pc' \in {pc, [pc EXCEPT ![w] = "idle"]}
        /\ pc' = pc <=> job' = job
    <3>1. CASE Crash(w)
      <4>1. pc[w] # "idle" /\ job[w] # None
        BY <1>0, <3>1 DEF Crash, Sane, TypeOK
      <4>2. /\ job' = [job EXCEPT ![w] = None] /\ pc' = [pc EXCEPT ![w] = "idle"]
            /\ owns' = [owns EXCEPT ![w] = FALSE] /\ UNCHANGED <<topic, retrying>>
            /\ faults' = faults + 1
        BY <3>1 DEF Crash, Release, Goto, kafkaVars, Fault
      <4>3. pc' # pc /\ job' # job
        BY <1>0, <4>1, <4>2
      <4> QED BY <4>2, <4>3
    <3>2. CASE Rebalance(w)
      BY <3>2 DEF Rebalance, kafkaVars, Fault
    <3> QED BY <1>6, <3>1, <3>2
  <2>2. /\ \A v \in Workers : v # w => pc'[v] = pc[v] /\ job'[v] = job[v] /\ owns'[v] = owns[v]
        /\ w \in Open(j)' => w \in Open(j)
    BY <1>0, <2>1 DEF Open
  <2>3. /\ Cardinality(Open(j)') <= Cardinality(Open(j))
        /\ Cardinality(Held(j)) <= Cardinality(Held(j)') + 1
    BY <2>2, OpenMoves, HeldMoves
  <2>4. Waiting(j)' = Waiting(j)
    BY <2>1 DEF Waiting
  <2>5. Cardinality(Open(j)') + Cardinality(Held(j)) + faults
          <= Cardinality(Open(j)) + Cardinality(Held(j)') + faults'
    BY <1>0, <1>2, <1>3, <2>1, <2>3
  <2>6. Books(j)'
    BY <1>0, <1>1, <1>2, <1>3, <2>1, <2>4, <2>5, BooksBalance
  <2> QED BY <1>0, <2>4, <2>6
<1> QED BY <1>4, <1>5, <1>6 DEF Around

\* A fetch opens a run and holds its message.
LEMMA FetchBooks ==
    ASSUME BooksInv, Sane', NEW w \in Workers, NEW p \in Partitions,
           Fetch(w, p) \/ FetchFails(w, p), NEW j \in Jobs
    PROVE  IsFiniteSet(Waiting(j)') /\ Books(j)'
<1>0. /\ Sane /\ IsFiniteSet(Waiting(j)) /\ Books(j) /\ j \in JobIds
      /\ faults \in Nat /\ None \notin JobIds /\ job \in [Workers -> JobIds \cup {None}]
      /\ pc \in [Workers -> Pcs] /\ owns \in [Workers -> BOOLEAN]
  BY BooksTyped, IdsAreJobs DEF BooksInv, Sane, TypeOK
<1>1. /\ Born(j)' = Born(j) /\ Score(j)' = Score(j)
      /\ UNCHANGED <<topic, retrying>> /\ faults' \in {faults, faults + 1}
  BY AroundScores DEF Fetch, FetchFails, kafkaVars, Fault
<1>2. /\ Score(j) \in Nat /\ retrying[j] \in Nat /\ Cardinality(Open(j)) \in Nat
      /\ Cardinality(Held(j)) \in Nat /\ Cardinality(Waiting(j)) \in Nat
      /\ Born(j) \in {0, 1}
  BY <1>0, BooksTyped
<1>3. Cardinality(Open(j)') \in Nat /\ Cardinality(Held(j)') \in Nat
  <2>1. Open(j)' \subseteq Workers /\ Held(j)' \subseteq Workers
    BY DEF Open, Held
  <2> QED BY <2>1, AtIsFinite
<1>4. PICK x \in Known : /\ pc[w] = "idle" /\ job' = [job EXCEPT ![w] = x]
                         /\ owns' = [owns EXCEPT ![w] = TRUE]
                         /\ \E c : pc' = [pc EXCEPT ![w] = c]
  BY <1>0, FetchClaims
<1>5. /\ \A v \in Workers : v # w => pc'[v] = pc[v] /\ job'[v] = job[v] /\ owns'[v] = owns[v]
      /\ w \notin Held(j) /\ (w \in Held(j)' <=> x = j) /\ (w \in Open(j)' => x = j)
  <2>1. ~owns[w]
    BY <1>0, <1>4 DEF Sane, HeldIsHead
  <2> QED BY <1>0, <1>4, <2>1 DEF Open, Held
<1>6. Waiting(j)' = Waiting(j)
  BY <1>1 DEF Waiting
<1>7. /\ Cardinality(Open(j)') <= Cardinality(Open(j)) + 1
      /\ x # j => Cardinality(Open(j)') <= Cardinality(Open(j))
      /\ Cardinality(Held(j)) <= Cardinality(Held(j)')
      /\ x = j => Cardinality(Held(j)) + 1 <= Cardinality(Held(j)')
  BY <1>5, OpenMoves, HeldMoves
<1>8. Cardinality(Open(j)') + Cardinality(Held(j)) + faults
        <= Cardinality(Open(j)) + Cardinality(Held(j)') + faults'
  BY <1>0, <1>1, <1>2, <1>3, <1>7
<1>9. Books(j)'
  BY <1>0, <1>1, <1>2, <1>3, <1>6, <1>8, BooksBalance
<1> QED BY <1>0, <1>6, <1>9

\* A new job comes with one message, and a retry that is forwarded is another.
LEMMA SubmitBooks ==
    ASSUME BooksInv, Sane', NEW x \in Jobs, NEW t \in Types, NEW load \in Payloads,
           Submit(x, t, load), NEW j \in Jobs
    PROVE  IsFiniteSet(Waiting(j)') /\ Books(j)'
<1>0. /\ Sane /\ Fresh /\ IsFiniteSet(Waiting(j)) /\ Books(j) /\ j \in JobIds /\ x \in JobIds
      /\ AlertFrom(j) # x /\ AlertFrom(j) \in JobIds /\ faults \in Nat
      /\ type \in [JobIds -> AllTypes \cup {"none"}] /\ t # "none"
  <2>1. Sane /\ Fresh /\ IsFiniteSet(Waiting(j)) /\ Books(j)
    BY DEF BooksInv
  <2>2. t # "none"
    BY DeviceAssumption DEF AllTypes
  <2>3. /\ j \in JobIds /\ x \in JobIds /\ AlertFrom(j) # x /\ AlertFrom(j) \in JobIds
    BY IdsAreJobs
  <2> QED BY <2>1, <2>2, <2>3 DEF Sane, TypeOK
<1>1. /\ type[x] = "none" /\ type' = [type EXCEPT ![x] = t]
      /\ topic' = Append2(topic, Home, x) /\ Home \in Partitions
      /\ UNCHANGED <<rows, retrying, job, owns, pc, faults>>
  BY DeviceAssumption DEF Submit, KeyedByDevice, tableVars, claimVars
<1>2. Open(j)' = Open(j) /\ Held(j)' = Held(j)
  BY <1>1 DEF Open, Held
<1>3. /\ IsFiniteSet(Waiting(j)')
      /\ Cardinality(Waiting(j)') <= Cardinality(Waiting(j)) + 1
      /\ x # j => Waiting(j)' = Waiting(j)
  BY <1>0, <1>1, WaitingGrows
<1>4. /\ Score(j) \in Nat /\ retrying[j] \in Nat /\ Cardinality(Open(j)) \in Nat
      /\ Cardinality(Held(j)) \in Nat /\ Cardinality(Waiting(j)) \in Nat
      /\ Born(j) \in {0, 1} /\ Cardinality(Waiting(j)') \in Nat
  BY <1>0, <1>3, BooksTyped, FS_CardinalityType
<1>5. CASE x # j
  <2>1. Score(j)' = Score(j) /\ Born(j)' = Born(j)
    BY <1>0, <1>1, <1>5 DEF Score, Born
  <2> QED BY <1>0, <1>1, <1>2, <1>3, <1>4, <1>5, <2>1, BooksBalance
<1>6. CASE x = j
  <2>1. Born(j) = 0 /\ Born(j)' = 1
    BY <1>0, <1>1, <1>6 DEF Born
  <2>2. Score(j)' \in Nat /\ Score(j)' <= Score(j)
    <3>1. rows[j].ok = 0 /\ rows' = rows
      BY <1>0, <1>1, <1>6 DEF Fresh, Known
    <3>2. /\ Score(j) = IF type[AlertFrom(j)] = "none" THEN 0 ELSE 1
          /\ Score(j)' \in {0, Score(j)}
      BY <1>0, <1>1, <1>6, <3>1 DEF Score
    <3> QED BY <1>4, <3>2
  <2>3. Score(j)' + Cardinality(Waiting(j)') + Born(j)
          <= Score(j) + Cardinality(Waiting(j)) + Born(j)'
    BY <1>3, <1>4, <2>1, <2>2
  <2>4. Books(j)'
    BY <1>0, <1>1, <1>2, <1>3, <1>4, <2>1, <2>2, <2>3, BooksBalance
  <2> QED BY <1>3, <2>4
<1> QED BY <1>5, <1>6

LEMMA ForwardBooks ==
    ASSUME BooksInv, Sane', NEW x \in JobIds, NEW p \in Partitions, Forward(x, p),
           NEW j \in Jobs
    PROVE  IsFiniteSet(Waiting(j)') /\ Books(j)'
<1>0. /\ Sane /\ IsFiniteSet(Waiting(j)) /\ Books(j) /\ j \in JobIds /\ faults \in Nat
      /\ retrying \in [JobIds -> Nat]
  BY BooksTyped DEF BooksInv, Sane, TypeOK
<1>1. /\ topic' = Append2(topic, p, x) /\ retrying[x] > 0
      /\ retrying' = [retrying EXCEPT ![x] = @ - 1]
      /\ UNCHANGED <<rows, type, job, owns, pc, faults>>
  BY DEF Forward, tableVars, jobVars, claimVars
<1>2. /\ Open(j)' = Open(j) /\ Held(j)' = Held(j)
      /\ Score(j)' = Score(j) /\ Born(j)' = Born(j)
  BY <1>1 DEF Open, Held, Score, Born
<1>3. /\ IsFiniteSet(Waiting(j)')
      /\ Cardinality(Waiting(j)') <= Cardinality(Waiting(j)) + 1
      /\ x # j => Waiting(j)' = Waiting(j)
  BY <1>0, <1>1, WaitingGrows
<1>4. /\ Score(j) \in Nat /\ retrying[j] \in Nat /\ Cardinality(Open(j)) \in Nat
      /\ Cardinality(Held(j)) \in Nat /\ Cardinality(Waiting(j)) \in Nat
      /\ Born(j) \in {0, 1} /\ Cardinality(Waiting(j)') \in Nat
  BY <1>0, <1>3, BooksTyped, FS_CardinalityType
<1>5. /\ retrying'[j] \in Nat
      /\ x = j => retrying'[j] + 1 = retrying[j]
      /\ x # j => retrying'[j] = retrying[j]
  BY <1>0, <1>1
<1>6. Cardinality(Waiting(j)') + retrying'[j] <= Cardinality(Waiting(j)) + retrying[j]
  BY <1>3, <1>4, <1>5
<1>7. Books(j)'
  BY <1>0, <1>1, <1>2, <1>3, <1>4, <1>5, <1>6, BooksBalance
<1> QED BY <1>3, <1>7

\* Who is refused its own alert has paid for the first with a fault.
LEMMA RefusalIsPaid ==
    ASSUME BooksInv, NEW w \in Workers, CreateJob(w), Conflicting(job[w])
    PROVE  faults > 0
<1> DEFINE j == job[w]
<1>0. /\ Sane /\ pc[w] = "create" /\ j \in Jobs /\ type[j] = "HealthCheck"
  BY AlertOfCheck DEF BooksInv, Sane, CreateJob
<1>1. IsFiniteSet(Waiting(j)) /\ Books(j)
  BY <1>0 DEF BooksInv
<1>2. Score(j) = 1 /\ Born(j) = 1
  BY <1>0 DEF Conflicting, Score, Born
<1>3. Cardinality(Open(j)) >= 1
  <2>1. w \in Open(j) /\ Open(j) \subseteq Workers
    BY <1>0 DEF Open, Passed
  <2>2. Cardinality({}) + 1 <= Cardinality(Open(j))
    BY <2>1, CountShrinks
  <2> QED BY <2>1, <2>2, FS_EmptySet, AtIsFinite
<1>4. Cardinality(Held(j)) <= Cardinality(Waiting(j))
  BY <1>0, <1>1, HeldWaits
<1>5. /\ retrying[j] \in Nat /\ Cardinality(Open(j)) \in Nat /\ faults \in Nat
      /\ Cardinality(Held(j)) \in Nat /\ Cardinality(Waiting(j)) \in Nat
  BY <1>0, <1>1, BooksTyped
<1> HIDE DEF j
<1> QED BY <1>1, <1>2, <1>3, <1>4, <1>5 DEF Books

LEMMA BlockedChanges ==
    ASSUME Next
    PROVE  UNCHANGED blocked \/ \E w \in Workers : CreateJob(w) /\ Conflicting(job[w])
<1>1. UNCHANGED blocked \/ \E w \in Workers : CreateJob(w)
  BY ZenonT(30) DEF Next, Submit, Fetch, FetchFails, Handle, SendCommand,
         InsertCommandAudit, PushFirmware, InsertFirmwareAttempt, UpdateDeviceFirmware,
         InsertDeviceMetric, InsertAlert, PostAlert, GetHealth, TouchDevice, Publish,
         Insert, Success, RetryOrDLQ, ReportFails, CommitMessage, Crash, Rebalance,
         Forward, AllDone, vars, historyVars
<1> QED BY <1>1 DEF CreateJob

LEMMA NextBooksInv ==
    ASSUME BooksInv, Next
    PROVE  BooksInv'
<1>0. Sane /\ Sane' /\ Fresh' /\ faults \in Nat /\ faults' \in {faults, faults + 1}
  BY NextSane, NextFresh, FaultsGrow DEF BooksInv
<1>1. BlockedOnlyByFault'
  <2>1. faults > 0 => faults' > 0
    BY <1>0
  <2>2. ASSUME NEW w \in Workers, CreateJob(w), Conflicting(job[w])
        PROVE  faults' > 0
    BY <2>1, <2>2, RefusalIsPaid
  <2> QED BY <2>1, <2>2, BlockedChanges DEF BooksInv, BlockedOnlyByFault
<1>2. ASSUME NEW j \in Jobs PROVE IsFiniteSet(Waiting(j)') /\ Books(j)'
  <2>1. CASE \E x \in Jobs, t \in Types, load \in Payloads : Submit(x, t, load)
    BY <1>0, <2>1, SubmitBooks
  <2>2. CASE \E w \in Workers, p \in Partitions : Fetch(w, p) \/ FetchFails(w, p)
    BY <1>0, <2>2, FetchBooks
  <2>3. CASE \E w \in Workers : Handle(w)
    BY <1>0, <2>3, HandleBooks
  <2>4. CASE \E w \in Workers : Around(w)
    BY <1>0, <2>4, AroundBooks
  <2>5. CASE \E x \in JobIds, p \in Partitions : Forward(x, p)
    BY <1>0, <2>5, ForwardBooks
  <2>6. CASE AllDone
    BY <2>6 DEF BooksInv, Books, Waiting, Open, Held, Score, Born, AllDone, vars,
                tableVars, jobVars, kafkaVars, claimVars
  <2> QED BY <2>1, <2>2, <2>3, <2>4, <2>5, <2>6 DEF Next, Around
<1> QED BY <1>0, <1>1, <1>2 DEF BooksInv

LEMMA AlwaysBooks == Spec => []BooksInv
<1>1. Init => BooksInv
  <2> SUFFICES ASSUME Init PROVE BooksInv
    OBVIOUS
  <2>1. Sane /\ Fresh /\ BlockedOnlyByFault
    BY InitSane DEF Init, Fresh, BlockedOnlyByFault
  <2>2. ASSUME NEW j \in Jobs PROVE IsFiniteSet(Waiting(j)) /\ Books(j)
    <3>1. Waiting(j) = {} /\ Open(j) = {} /\ Held(j) = {}
      <4>1. j # None
        BY IdsAreJobs
      <4> QED BY <4>1 DEF Init, Waiting, Open, Held
    <3>2. /\ Score(j) = 0 /\ Born(j) = 0 /\ retrying[j] = 0 /\ faults = 0
      BY IdsAreJobs DEF Init, Score, Born
    <3> QED BY <3>1, <3>2, FS_EmptySet DEF Books
  <2> QED BY <2>1, <2>2 DEF BooksInv
<1>2. BooksInv /\ [Next]_vars => BooksInv'
  <2> SUFFICES ASSUME BooksInv, [Next]_vars PROVE BooksInv'
    OBVIOUS
  <2>1. CASE UNCHANGED vars
    <3>1. Sane'
      BY NextSane DEF BooksInv
    <3> QED BY <2>1, <3>1 DEF BooksInv, Fresh, Known, BlockedOnlyByFault, Books, Waiting,
                 Open, Held, Score, Born, vars, tableVars, deviceVars, jobVars, kafkaVars,
                 claimVars, historyVars
  <2>2. CASE Next
    BY <2>2, NextBooksInv
  <2> QED BY <2>1, <2>2
<1> QED BY <1>1, <1>2, PTL DEF Spec

\* A sample is stored once (InsertDeviceMetric), and once more per fault at most:
\* each row took a run, and a run begins with the submission or with a fault.
THEOREM SamplesAreCounted == Spec => []SamplesCounted
<1>1. BooksInv => SamplesCounted
  <2> SUFFICES ASSUME BooksInv, NEW j \in Of("TelemetryProcessing")
               PROVE  rows[j].ok <= 1 + faults
    BY DEF SamplesCounted
  <2>1. Sane /\ j \in JobIds /\ type[j] = "TelemetryProcessing"
    BY DEF BooksInv, Of
  <2>2. j \in Jobs
    BY <2>1 DEF Sane, RightHandler, JobIds
  <2>3. IsFiniteSet(Waiting(j)) /\ Books(j)
    BY <2>2 DEF BooksInv
  <2>4. Score(j) = rows[j].ok /\ Born(j) = 1
    BY <2>1 DEF Score, Born
  <2>5. Cardinality(Held(j)) <= Cardinality(Waiting(j))
    BY <2>1, <2>3, HeldWaits
  <2>6. /\ Score(j) \in Nat /\ retrying[j] \in Nat /\ Cardinality(Open(j)) \in Nat
        /\ faults \in Nat
        /\ Cardinality(Held(j)) \in Nat /\ Cardinality(Waiting(j)) \in Nat
    BY <2>1, <2>2, <2>3, BooksTyped
  <2> QED BY <2>3, <2>4, <2>5, <2>6 DEF Books
<1> QED BY <1>1, AlwaysBooks, PTL

\* A health check is refused its own alert (ErrJobConflict in CreateJob) only
\* after a fault: the retries of a run that the device failed publish nothing
\* first.
THEOREM RefusedOnlyByFault == Spec => []BlockedOnlyByFault
<1>1. BooksInv => BlockedOnlyByFault
  BY DEF BooksInv
<1> QED BY <1>1, AlwaysBooks, PTL
=============================================================================
