----------------------------- MODULE Ingestion -----------------------------
(***************************************************************************)
(* The telemetry of one device on its way from MQTT into the jobs table:   *)
(* cmd/ingestion over SubmitJob.  The broker keeps a session for each      *)
(* ingestion pod and delivers its messages in order; the client library    *)
(* calls handleMessage for one at a time and acknowledges it (QoS 1) when  *)
(* the call is over, whatever it returned.                                 *)
(*                                                                         *)
(* A call of handleMessage is a request of SubmitJob, made by Submit under *)
(* the key "mqtt-<device>-<minute>", here the number of the minute.  No    *)
(* other submitter uses such keys, and devices share nothing: the requests *)
(* of one device's samples are enough.                                     *)
(*                                                                         *)
(* A definition marked "seeded bug" is a form the one after it could have  *)
(* had, used nowhere: in that one's place it must break a property.        *)
(***************************************************************************)
EXTENDS SubmitJob, Sequences

CONSTANTS Replicas,    \* the ingestion pods
          Samples,     \* what the device publishes
          Telemetry,   \* jobs.TypeTelemetryProcessing
          MaxMinute,   \* bound: the last minute
          OutageKinds, MaxOutages

ASSUME IngestionAssumption ==
    /\ None \notin Samples /\ IsFiniteSet(Replicas)
    /\ Telemetry \in Types
    /\ MaxMinute \in Nat /\ 0 .. MaxMinute \subseteq Keys
    /\ OutageKinds \subseteq {"disconnect", "restart", "broker"}
    /\ MaxOutages \in Nat

VARIABLES
    minute,     \* time.Now().Unix() / 60
    published,  \* the samples published so far
    status,     \* a pod has yet to subscribe, is subscribed, or is deaf
    session,    \* messages the broker holds for a pod, not acknowledged
    busy,       \* the call of handleMessage a pod is at
    origin,     \* the sample a request was made for
    heard,      \* history: the pods that were subscribed to a sample
    excused,    \* history: samples that an outage or a failed store may lose
    outages

mqttVars == <<minute, published, status, session, busy, origin, heard, excused,
              outages>>
brokerVars == <<published, status, session, busy, heard>>

Outage(kind) ==
    kind \in OutageKinds /\ outages < MaxOutages /\ outages' = outages + 1

-----------------------------------------------------------------------------
(* The device and the broker.                                              *)

\* What the broker has yet to deliver to a pod, or to see acknowledged.
Held(c) == {session[c][i] : i \in DOMAIN session[c]}

\* The sample a pod is at, if it is at one.
Handling(c) == {origin[q] : q \in {busy[c]} \ {None}}

\* The broker copies the message to every session: the subscription is not a
\* shared one.
PublishSample(s) ==
    LET hearers == {c \in Replicas : status[c] = "subscribed"}
    IN  /\ s \notin published
        /\ published' = published \cup {s}
        /\ session' = [c \in Replicas |-> IF c \in hearers THEN Append(session[c], s)
                                                           ELSE session[c]]
        /\ heard' = [heard EXCEPT ![s] = hearers]
        /\ excused' = IF hearers = {} THEN excused \cup {s} ELSE excused
        /\ UNCHANGED <<vars, minute, status, busy, origin, outages>>

\* Connect and Subscribe, under a client id with a random suffix: the session
\* is new, and what an earlier one holds goes to nobody.
Subscribe(c) ==
    /\ status[c] = "starting"
    /\ status' = [status EXCEPT ![c] = "subscribed"]
    /\ UNCHANGED <<vars, minute, published, session, busy, origin, heard,
                   excused, outages>>

Tick == /\ minute < MaxMinute
        /\ minute' = minute + 1
        /\ UNCHANGED <<vars, brokerVars, origin, excused, outages>>

-----------------------------------------------------------------------------
(* handleMessage.                                                          *)

PublishOnly(q, k, t) == \* seeded bug: to Kafka without a row
    /\ pc[q] = "new"
    /\ req' = [req EXCEPT ![q] = <<k, t>>]
    /\ direct' = direct \cup {q}
    /\ Goto(q, "publish")
    /\ UNCHANGED <<claim, table, state, sent, faults>>

\* CreateJob, Publish, QUEUED: the worker finds the row.
CallSubmit(q, k, t) == Submit(q, k, t)

\* The next message is handed to the handler, which takes the minute into the
\* key and calls Submit.
HandleMessage(q, c) ==
    /\ status[c] = "subscribed" /\ busy[c] = None
    /\ session[c] # <<>>
    /\ CallSubmit(q, minute, Telemetry)
    /\ busy' = [busy EXCEPT ![c] = q]
    /\ origin' = [origin EXCEPT ![q] = Head(session[c])]
    /\ UNCHANGED <<minute, published, status, session, heard, excused, outages>>

\* The handler is done, in time for its connection or not.
Done(c) == busy[c] # None /\ pc[busy[c]] = "done"

AckNothing(c) == \* seeded bug: the message is not acknowledged
    /\ Done(c)
    /\ busy' = [busy EXCEPT ![c] = None]
    /\ UNCHANGED <<vars, minute, published, status, session, origin, heard,
                   excused, outages>>

\* The message leaves the session, if there is one still.
Ack(c) ==
    /\ Done(c)
    /\ busy' = [busy EXCEPT ![c] = None]
    /\ session' = [session EXCEPT ![c] = IF @ = <<>> THEN @ ELSE Tail(@)]
    /\ UNCHANGED <<vars, minute, published, status, origin, heard, excused,
                   outages>>

DropQueued(c) == \* seeded bug: a clean session
    session' = [session EXCEPT ![c] = <<>>]

\* SetCleanSession(false): the broker keeps the session of a lost connection.
KeepQueued(c) == UNCHANGED session

\* The connection drops before the acknowledgement: when the handler is done
\* the client reconnects, and the broker delivers the message again.
Disconnect(c) ==
    /\ Done(c) /\ status[c] = "subscribed"
    /\ Outage("disconnect")
    /\ busy' = [busy EXCEPT ![c] = None]
    /\ KeepQueued(c)
    /\ UNCHANGED <<vars, minute, published, status, origin, heard, excused>>

OldSession(c) == UNCHANGED session \* seeded bug: nobody drops the old one

NewSession(c) == session' = [session EXCEPT ![c] = <<>>]

\* The pod is replaced.  The new one has another client id: nobody gets what
\* is in the old session, and it has to subscribe.
Restart(c) ==
    /\ status[c] # "starting"
    /\ IF busy[c] # None /\ pc[busy[c]] # "done"
       THEN Crash(busy[c]) /\ UNCHANGED outages
       ELSE Outage("restart") /\ UNCHANGED vars
    /\ status' = [status EXCEPT ![c] = "starting"]
    /\ NewSession(c)
    /\ busy' = [busy EXCEPT ![c] = None]
    /\ excused' = excused \cup Held(c) \cup Handling(c)
    /\ UNCHANGED <<minute, published, origin, heard>>

\* The broker restarts with nothing ("persistence false").  Its clients come
\* back by themselves, but the subscription was made once, after the first
\* Connect: nobody makes it again.
BrokerRestarts ==
    /\ Outage("broker")
    /\ status' = [c \in Replicas |-> IF status[c] = "subscribed" THEN "deaf"
                                                               ELSE status[c]]
    /\ session' = [c \in Replicas |-> <<>>]
    /\ excused' = excused \cup ((UNION {Held(c) : c \in Replicas})
                                 \ (UNION {Handling(c) : c \in Replicas}))
    /\ UNCHANGED <<vars, minute, published, busy, origin, heard>>

-----------------------------------------------------------------------------
(* The steps of Submit.                                                    *)

\* A handler that fails before the row is there loses the sample: the error is
\* logged and the message acknowledged.
HandlerLoses(q) ==
    /\ StoreFails(q) \/ CreateJobRejected(q)
    /\ excused' = excused \cup (IF q \in table THEN {} ELSE {origin[q]} \ {None})
    /\ UNCHANGED <<minute, brokerVars, origin, outages>>

SubmitStep(q) ==
    /\ \/ CreateJob(q) \/ Publish(q) \/ SetQueued(q)
       \/ PublishFails(q) \/ InsertAnswerLost(q)
    /\ UNCHANGED mqttVars

-----------------------------------------------------------------------------

IngestionInit ==
    /\ Init
    /\ minute = 0
    /\ published = {} /\ excused = {}
    /\ status = [c \in Replicas |-> "starting"]
    /\ session = [c \in Replicas |-> <<>>]
    /\ busy = [c \in Replicas |-> None]
    /\ origin = [q \in Requests |-> None]
    /\ heard = [s \in Samples |-> {}]
    /\ outages = 0

\* All samples are handled, or the instance has no request left for one.
Quiet ==
    /\ published = Samples
    /\ \A c \in Replicas : /\ busy[c] = None
                          /\ (session[c] = <<>> \/ \A q \in Requests : pc[q] # "new")
    /\ UNCHANGED <<vars, mqttVars>>

IngestionNext ==
    \/ \E q \in Requests : SubmitStep(q) \/ HandlerLoses(q)
    \/ \E s \in Samples : PublishSample(s)
    \/ \E c \in Replicas :
          \/ Subscribe(c) \/ Ack(c) \/ Disconnect(c) \/ Restart(c)
          \/ \E q \in Requests : HandleMessage(q, c)
    \/ BrokerRestarts
    \/ Tick
    \/ Quiet

IngestionSpec == IngestionInit /\ [][IngestionNext]_<<vars, mqttVars>>

-----------------------------------------------------------------------------
(* Properties.                                                             *)

\* Every variable has its type, those of SubmitJob too.
IngestionTypeOK ==
    /\ TypeOK
    /\ minute \in 0 .. MaxMinute
    /\ published \subseteq Samples /\ excused \subseteq published
    /\ status \in [Replicas -> {"starting", "subscribed", "deaf"}]
    /\ session \in [Replicas -> Seq(published)]
    /\ \A c \in Replicas : session[c] # <<>> => status[c] = "subscribed"
    /\ busy \in [Replicas -> Requests \cup {None}]
    /\ origin \in [Requests -> published \cup {None}]
    /\ \A c \in Replicas : busy[c] # None => origin[busy[c]] # None
    /\ heard \in [Samples -> SUBSET Replicas]
    /\ outages \in Nat

\* The telemetry jobs a sample was made into.
JobsOf(s) == {q \in table : origin[q] = s}

\* Through lost connections, overlapping pods and repeated deliveries a sample
\* that was heard is with the broker or a handler until a job exists under its
\* minute's key, its own or the one that was there before it; only what a
\* restart or a failed store took away is excused.
NoSampleLost ==
    \A s \in published \ excused :
        \/ \E c \in Replicas : s \in Held(c)
        \/ \E q \in Requests :
              origin[q] = s /\ (pc[q] # "done" \/ Matching(q) # {})

\* A sample becomes a second job only because a second pod was subscribed (a
\* rollout has two) or a connection was lost before the acknowledgement.
DuplicatesHaveCause ==
    \A s \in published : Cardinality(JobsOf(s)) <= Cardinality(heard[s]) + outages

\* Ingestion is one more caller of SubmitJob: nothing it does is a step a
\* submitter could not take, so that what SubmitJob promises holds beside it.
Submissions == Spec
=============================================================================
