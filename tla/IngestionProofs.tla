-------------------------- MODULE IngestionProofs --------------------------
(***************************************************************************)
(* Theorems about Ingestion, for any pods, samples and requests and        *)
(* whatever outages: it is a submitter like any other, its types, that a   *)
(* sample is lost only by what excuses it, and that it makes a second job  *)
(* only when a connection or a pod was lost or a key had expired.          *)
(***************************************************************************)
EXTENDS Ingestion, SubmitJobProofs, FiniteSetTheorems

ingestionVars == <<vars, mqttVars>>

-----------------------------------------------------------------------------
(* Ingestion only makes submissions.                                       *)

\* What a step needs to be a submitter's: the minute is a key, and a pod is at
\* a request.
CallsInRange ==
    /\ minute \in 0 .. MaxMinute
    /\ busy \in [Replicas -> Requests \cup {None}]

LEMMA CallsStayInRange ==
    ASSUME CallsInRange, [IngestionNext]_ingestionVars
    PROVE  CallsInRange'
<1> USE DEF CallsInRange, brokerVars, mqttVars, vars
<1>1. ASSUME NEW q \in Requests, SubmitStep(q) \/ HandlerLoses(q) PROVE CallsInRange'
  BY <1>1 DEF SubmitStep, HandlerLoses
<1>2. ASSUME NEW s \in Samples, PublishSample(s) PROVE CallsInRange'
  BY <1>2 DEF PublishSample
<1>3. ASSUME NEW c \in Replicas, Subscribe(c) \/ Ack(c) \/ Disconnect(c) \/ Restart(c)
      PROVE  CallsInRange'
  BY <1>3 DEF Subscribe, Ack, Disconnect, Restart
<1>4. ASSUME NEW c \in Replicas, NEW q \in Requests, HandleMessage(q, c)
      PROVE  CallsInRange'
  BY <1>4 DEF HandleMessage
<1>5. CASE BrokerRestarts
  BY <1>5 DEF BrokerRestarts
<1>6. CASE Tick
  BY <1>6, IngestionAssumption DEF Tick
<1>7. CASE UNCHANGED ingestionVars \/ Quiet
  BY <1>7 DEF ingestionVars, Quiet
<1> QED BY <1>1, <1>2, <1>3, <1>4, <1>5, <1>6, <1>7 DEF IngestionNext

LEMMA StepSubmits ==
    ASSUME CallsInRange, [IngestionNext]_ingestionVars
    PROVE  [Next]_vars
<1>1. ASSUME NEW q \in Requests, SubmitStep(q) PROVE Next
  BY <1>1 DEF SubmitStep, Next
<1>2. ASSUME NEW q \in Requests, HandlerLoses(q) PROVE Next
  BY <1>2 DEF HandlerLoses, Next
<1>3. ASSUME NEW c \in Replicas, NEW q \in Requests, HandleMessage(q, c) PROVE Next
  <2>1. Submit(q, minute, Telemetry)
    BY <1>3 DEF HandleMessage, CallSubmit
  <2>2. minute \in Keys /\ Telemetry \in Types
    BY IngestionAssumption DEF CallsInRange
  <2> QED BY <2>1, <2>2 DEF Next
<1>4. ASSUME NEW c \in Replicas, Restart(c) PROVE [Next]_vars
  <2>1. CASE UNCHANGED vars
    BY <2>1
  <2>2. CASE busy[c] # None /\ Crash(busy[c])
    <3>1. busy[c] \in Requests
      BY <2>2 DEF CallsInRange
    <3> QED BY <2>2, <3>1 DEF Next
  <2> QED BY <1>4, <2>1, <2>2 DEF Restart
<1>5. ASSUME NEW s \in Samples, PublishSample(s) PROVE UNCHANGED vars
  BY <1>5 DEF PublishSample
<1>6. ASSUME NEW c \in Replicas, Subscribe(c) \/ Ack(c) \/ Disconnect(c)
      PROVE  UNCHANGED vars
  BY <1>6 DEF Subscribe, Ack, Disconnect
<1>7. CASE BrokerRestarts \/ Tick \/ Quiet \/ UNCHANGED ingestionVars
  BY <1>7 DEF BrokerRestarts, Tick, Quiet, ingestionVars
<1> QED BY <1>1, <1>2, <1>3, <1>4, <1>5, <1>6, <1>7 DEF IngestionNext

LEMMA IngestionInRange == IngestionSpec => []CallsInRange
<1>1. IngestionInit => CallsInRange
  BY IngestionAssumption DEF IngestionInit, CallsInRange
<1> QED BY <1>1, CallsStayInRange, PTL DEF IngestionSpec, ingestionVars

\* Ingestion is one more caller of SubmitJob: every behaviour of it is one of
\* the submissions, however many pods, outages and repeated deliveries.
THEOREM IngestionSubmits == IngestionSpec => Submissions
<1>1. IngestionInit => Init
  BY DEF IngestionInit
<1> QED BY <1>1, IngestionInRange, StepSubmits, PTL
        DEF IngestionSpec, ingestionVars, Spec, Submissions

-----------------------------------------------------------------------------
(* Sequences.                                                              *)

LEMMA TailHolds ==
    ASSUME NEW S, NEW seq \in Seq(S), seq # <<>>, NEW i \in DOMAIN seq
    PROVE  seq[i] = Head(seq) \/ \E j \in DOMAIN Tail(seq) : Tail(seq)[j] = seq[i]
<1>1. CASE i = 1
  BY <1>1
<1>2. CASE i # 1
  <2>1. i - 1 \in DOMAIN Tail(seq) /\ Tail(seq)[i - 1] = seq[i]
    BY <1>2
  <2> QED BY <2>1
<1> QED BY <1>1, <1>2

LEMMA AppendHolds ==
    ASSUME NEW S, NEW seq \in Seq(S), NEW s \in S
    PROVE  /\ Append(seq, s) \in Seq(S) /\ Append(seq, s) # <<>>
           /\ seq # <<>> => Head(Append(seq, s)) = Head(seq)
           /\ \A i \in DOMAIN seq : i \in DOMAIN Append(seq, s)
                                  /\ Append(seq, s)[i] = seq[i]
           /\ Len(seq) + 1 \in DOMAIN Append(seq, s)
           /\ Append(seq, s)[Len(seq) + 1] = s
<1>1. Append(seq, s) \in Seq(S) /\ Len(Append(seq, s)) = Len(seq) + 1
  OBVIOUS
<1>2. \A i \in 1 .. Len(seq) : Append(seq, s)[i] = seq[i]
  OBVIOUS
<1>3. Append(seq, s)[Len(seq) + 1] = s
  OBVIOUS
<1>4. Len(seq) \in Nat /\ DOMAIN seq = 1 .. Len(seq)
  OBVIOUS
<1>5. DOMAIN Append(seq, s) = 1 .. Len(seq) + 1
  BY <1>1
<1>6. seq # <<>> => Head(Append(seq, s)) = Head(seq)
  OBVIOUS
<1>7. Append(seq, s) # <<>>
  BY <1>1, <1>4
<1> QED BY <1>1, <1>2, <1>3, <1>4, <1>5, <1>6, <1>7

-----------------------------------------------------------------------------
(* Type correctness.                                                       *)

LEMMA InitTyped == IngestionInit => IngestionTypeOK
<1> SUFFICES ASSUME IngestionInit PROVE IngestionTypeOK
  OBVIOUS
<1>1. TypeOK
  BY InitIInv DEF IngestionInit, IInv
<1> QED BY <1>1, IngestionAssumption DEF IngestionInit, IngestionTypeOK

LEMMA NextTyped ==
    ASSUME IngestionTypeOK, IInv, [IngestionNext]_ingestionVars
    PROVE  IngestionTypeOK'
<1> USE DEF IngestionTypeOK, brokerVars, mqttVars
<1>0. TypeOK'
  <2>1. CallsInRange
    BY DEF CallsInRange
  <2> QED BY <2>1, StepSubmits, NextIInv DEF IInv
<1>1. ASSUME NEW q \in Requests, SubmitStep(q) PROVE IngestionTypeOK'
  BY <1>0, <1>1 DEF SubmitStep
<1>2. ASSUME NEW q \in Requests, HandlerLoses(q) PROVE IngestionTypeOK'
  <2>1. /\ UNCHANGED <<minute, published, status, session, busy, heard, origin, outages>>
        /\ excused' \in {excused, excused \cup ({origin[q]} \ {None})}
    BY <1>2 DEF HandlerLoses
  <2>2. excused' \subseteq published
    BY <2>1
  <2> QED BY <1>0, <2>1, <2>2
<1>3. ASSUME NEW s \in Samples, PublishSample(s) PROVE IngestionTypeOK'
  <2> DEFINE hearers == {c \in Replicas : status[c] = "subscribed"}
  <2>1. /\ published' = published \cup {s}
        /\ session' = [c \in Replicas |-> IF c \in hearers THEN Append(session[c], s)
                                                            ELSE session[c]]
        /\ heard' = [heard EXCEPT ![s] = hearers]
        /\ excused' \in {excused, excused \cup {s}}
        /\ UNCHANGED <<minute, status, busy, origin, outages>>
    BY <1>3 DEF PublishSample
  <2>2. ASSUME NEW c \in Replicas
        PROVE  /\ session'[c] \in Seq(published')
               /\ session'[c] # <<>> => status[c] = "subscribed"
    <3>1. session[c] \in Seq(published') /\ s \in published'
      BY <2>1
    <3>2. Append(session[c], s) \in Seq(published')
      BY <3>1
    <3> QED BY <2>1, <3>1, <3>2
  <2>3. session' \in [Replicas -> Seq(published')]
    BY <2>1, <2>2
  <2> QED BY <1>0, <2>1, <2>2, <2>3
<1>4. ASSUME NEW c \in Replicas, Subscribe(c) PROVE IngestionTypeOK'
  BY <1>0, <1>4 DEF Subscribe
<1>5. ASSUME NEW c \in Replicas, Ack(c) PROVE IngestionTypeOK'
  <2>1. session[c] # <<>> => Tail(session[c]) \in Seq(published)
    OBVIOUS
  <2> QED BY <1>0, <1>5, <2>1 DEF Ack
<1>6. ASSUME NEW c \in Replicas, Disconnect(c) PROVE IngestionTypeOK'
  BY <1>0, <1>6 DEF Disconnect, KeepQueued, Outage
<1>7. ASSUME NEW c \in Replicas, Restart(c) PROVE IngestionTypeOK'
  <2>1. /\ UNCHANGED <<minute, published, origin, heard>>
        /\ status' = [status EXCEPT ![c] = "starting"]
        /\ session' = [session EXCEPT ![c] = <<>>]
        /\ busy' = [busy EXCEPT ![c] = None]
        /\ excused' = excused \cup Held(c) \cup Handling(c)
        /\ outages' \in {outages, outages + 1}
    BY <1>7 DEF Restart, NewSession, Outage
  <2>2. Held(c) \subseteq published /\ Handling(c) \subseteq published
    BY DEF Held, Handling
  <2>3. <<>> \in Seq(published)
    OBVIOUS
  <2> QED BY <1>0, <2>1, <2>2, <2>3
<1>8. ASSUME NEW c \in Replicas, NEW q \in Requests, HandleMessage(q, c)
      PROVE  IngestionTypeOK'
  <2>1. /\ busy' = [busy EXCEPT ![c] = q]
        /\ origin' = [origin EXCEPT ![q] = Head(session[c])]
        /\ session[c] # <<>>
        /\ UNCHANGED <<minute, published, status, session, heard, excused, outages>>
    BY <1>8 DEF HandleMessage
  <2>2. Head(session[c]) \in published
    BY <2>1
  <2>3. Head(session[c]) # None
    BY <2>2, IngestionAssumption
  <2> QED BY <1>0, <2>1, <2>2, <2>3
<1>9. CASE BrokerRestarts
  <2>1. /\ UNCHANGED <<minute, published, busy, origin, heard>>
        /\ status' = [c \in Replicas |-> IF status[c] = "subscribed" THEN "deaf"
                                                                     ELSE status[c]]
        /\ session' = [c \in Replicas |-> <<>>]
        /\ excused' \subseteq excused \cup UNION {Held(c) : c \in Replicas}
        /\ excused \subseteq excused'
        /\ outages' = outages + 1
    BY <1>9 DEF BrokerRestarts, Outage
  <2>2. \A c \in Replicas : Held(c) \subseteq published
    BY DEF Held
  <2>3. <<>> \in Seq(published)
    OBVIOUS
  <2> QED BY <1>0, <2>1, <2>2, <2>3
<1>10. CASE Tick
  BY <1>0, <1>10, IngestionAssumption DEF Tick
<1>11. CASE UNCHANGED ingestionVars \/ Quiet
  BY <1>0, <1>11 DEF ingestionVars, Quiet
<1> QED BY <1>1, <1>2, <1>3, <1>4, <1>5, <1>6, <1>7, <1>8, <1>9, <1>10, <1>11
        DEF IngestionNext

-----------------------------------------------------------------------------
(* No sample is lost.  NoSampleLost is not inductive: what it rests on is   *)
(* that a pod is at the head of its session (HeadHandled), so that an       *)
(* acknowledgement takes away a sample that has a request, and that a       *)
(* request that is over has its job or its excuse (EndedAccounted).         *)

NewAreFree == \A q \in Requests : pc[q] = "new" => origin[q] = None

EndedAccounted ==
    \A q \in Requests :
        origin[q] # None /\ pc[q] = "done"
        => Matching(q) # {} \/ origin[q] \in excused

HeadHandled ==
    \A c \in Replicas :
        busy[c] # None =>
            /\ status[c] # "starting"
            /\ status[c] = "subscribed"
                 => session[c] # <<>> /\ origin[busy[c]] = Head(session[c])

\* A sample is with the broker or has a request.
Kept ==
    \A s \in published \ excused :
        (\E c \in Replicas : s \in Held(c)) \/ (\E q \in Requests : origin[q] = s)

SampleInv == /\ IInv /\ IngestionTypeOK
             /\ NewAreFree /\ EndedAccounted /\ HeadHandled /\ Kept

\* Calls go on, and what a request finds in the table stays there.
LEMMA CallsGoOn ==
    ASSUME IInv, [Next]_vars, NEW q \in Requests, pc[q] # "new"
    PROVE  /\ pc'[q] # "new" /\ (pc[q] = "done" => pc'[q] = "done")
           /\ Matching(q) \subseteq Matching(q)'
<1> USE DEF IInv
<1> DEFINE Good == /\ pc'[q] # "new" /\ (pc[q] = "done" => pc'[q] = "done")
                   /\ req'[q] = req[q] /\ table \subseteq table'
                   /\ \A id \in table : req'[id] = req[id]
<1>1. ASSUME NEW p \in Requests, RequestStep(p) PROVE Good
  BY <1>1 DEF RequestStep, SetNX, Get, Lookup, CreateJob, Publish, SetQueued,
              CreateJobRejected, PublishFails, AfterPublishError, StoreFails,
              InsertAnswerLost, Crash, Goto, InternalError, Answer, TypeOK
<1>2. ASSUME NEW p \in Requests, NEW k \in Keys, NEW t \in Types,
             Receive(p, k, t) \/ Submit(p, k, t)
      PROVE  Good
  BY <1>2 DEF Receive, Submit, Goto, TypeOK, RowsMatchCalls
<1>3. ASSUME NEW k \in Keys, Expire(k) PROVE Good
  BY <1>3 DEF Expire
<1>4. ASSUME UNCHANGED vars PROVE Good
  BY <1>4 DEF vars
<1>5. Good
  BY <1>1, <1>2, <1>3, <1>4 DEF Next, AllAnswered, RequestStep
<1> QED BY <1>5 DEF Matching

\* A request that ends by a step of Submit has its job.
LEMMA SubmitStepAccounts ==
    ASSUME SampleInv, NEW q \in Requests, SubmitStep(q), pc'[q] = "done"
    PROVE  Matching(q)' # {}
<1> USE DEF SampleInv, IInv
<1>1. CASE CreateJob(q)
  BY <1>1 DEF CreateJob, Conflicting, Matching, Goto, TypeOK
<1>2. CASE Publish(q)
  BY <1>2 DEF Publish, Goto, TypeOK
<1>3. CASE SetQueued(q) \/ PublishFails(q)
  <2>1. q \in table /\ UNCHANGED <<table, req>>
    BY <1>3 DEF SetQueued, PublishFails, RowsMatchCalls
  <2> QED BY <2>1 DEF Matching
<1>4. CASE InsertAnswerLost(q)
  <2>1. table' = table \cup {q} /\ UNCHANGED req
    BY <1>4 DEF InsertAnswerLost
  <2> QED BY <2>1 DEF Matching
<1> QED BY <1>1, <1>2, <1>3, <1>4 DEF SubmitStep

\* Only a request's own step, or the crash of its pod, ends it.
LEMMA OthersStay ==
    ASSUME IInv, NEW q \in Requests, NEW p \in Requests \ {q},
           RequestStep(q) \/ \E k \in Keys, t \in Types : Submit(q, k, t)
    PROVE  pc'[p] = pc[p]
BY DEF RequestStep, SetNX, Get, Lookup, CreateJob, Publish, SetQueued,
       CreateJobRejected, PublishFails, AfterPublishError, StoreFails,
       InsertAnswerLost, Crash, Goto, InternalError, Answer, Submit, TypeOK, IInv

\* The four parts over a step that leaves the broker and the origins alone.
LEMMA CallStepKeeps ==
    ASSUME SampleInv, [Next]_vars, UNCHANGED <<published, status, session, busy, origin>>,
           excused \subseteq excused',
           \A q \in Requests : pc[q] # "done" /\ pc'[q] = "done" /\ origin[q] # None
               => Matching(q)' # {} \/ origin[q] \in excused'
    PROVE  NewAreFree' /\ EndedAccounted' /\ HeadHandled' /\ Kept'
<1> USE DEF SampleInv
<1>1. NewAreFree'
  BY CallsGoOn DEF NewAreFree
<1>2. EndedAccounted'
  <2> SUFFICES ASSUME NEW q \in Requests, origin[q] # None, pc'[q] = "done"
               PROVE  Matching(q)' # {} \/ origin[q] \in excused'
    BY DEF EndedAccounted
  <2>1. CASE pc[q] = "done"
    BY <2>1, CallsGoOn DEF EndedAccounted
  <2> QED BY <2>1
<1>3. HeadHandled'
  BY DEF HeadHandled
<1>4. Kept'
  BY DEF Kept, Held
<1> QED BY <1>1, <1>2, <1>3, <1>4

\* Steps of the device, the broker and the clock: the calls stay as they are.
LEMMA MqttStepEnds ==
    ASSUME SampleInv, UNCHANGED <<vars, origin>>, excused \subseteq excused'
    PROVE  NewAreFree' /\ EndedAccounted'
<1>1. UNCHANGED <<pc, req, table>>
  BY DEF vars
<1> QED BY <1>1 DEF SampleInv, NewAreFree, EndedAccounted, Matching

LEMMA PublishSampleKeeps ==
    ASSUME SampleInv, NEW s \in Samples, PublishSample(s)
    PROVE  NewAreFree' /\ EndedAccounted' /\ HeadHandled' /\ Kept'
<1> USE DEF SampleInv, IngestionTypeOK
<1> DEFINE hearers == {c \in Replicas : status[c] = "subscribed"}
<1>1. /\ published' = published \cup {s}
      /\ session' = [c \in Replicas |-> IF c \in hearers THEN Append(session[c], s)
                                                          ELSE session[c]]
      /\ excused' = IF hearers = {} THEN excused \cup {s} ELSE excused
      /\ UNCHANGED <<vars, status, busy, origin>>
  BY DEF PublishSample
<1>2. \A c \in Replicas :
         /\ c \in hearers => session'[c] = Append(session[c], s)
         /\ c \notin hearers => session'[c] = session[c]
         /\ session[c] \in Seq(published \cup {s})
  BY <1>1
<1>3. HeadHandled'
  <2> SUFFICES ASSUME NEW c \in Replicas, busy[c] # None
               PROVE  /\ status[c] # "starting"
                      /\ status[c] = "subscribed"
                           => session'[c] # <<>> /\ origin[busy[c]] = Head(session'[c])
    BY <1>1 DEF HeadHandled
  <2>1. CASE status[c] = "subscribed"
    <3>1. session[c] # <<>> /\ origin[busy[c]] = Head(session[c])
      BY <2>1 DEF HeadHandled
    <3>2. session'[c] = Append(session[c], s) /\ session[c] \in Seq(published \cup {s})
      BY <1>2, <2>1
    <3>3. session'[c] # <<>> /\ Head(session'[c]) = Head(session[c])
      BY <3>1, <3>2, AppendHolds
    <3> QED BY <2>1, <3>1, <3>3
  <2>2. CASE status[c] # "subscribed"
    BY <2>2 DEF HeadHandled
  <2> QED BY <2>1, <2>2
<1>4. ASSUME NEW c \in Replicas PROVE Held(c) \subseteq Held(c)'
  <2>1. CASE c \in hearers
    <3>1. \A i \in DOMAIN session[c] : /\ i \in DOMAIN session'[c]
                                     /\ session'[c][i] = session[c][i]
      BY SMTT(30), <1>2, <2>1, AppendHolds
    <3> QED BY <3>1 DEF Held
  <2>2. CASE c \notin hearers
    BY <1>2, <2>2 DEF Held
  <2> QED BY <2>1, <2>2
<1>5. ASSUME NEW c \in hearers PROVE s \in Held(c)'
  <2>1. /\ Len(session[c]) + 1 \in DOMAIN session'[c]
        /\ session'[c][Len(session[c]) + 1] = s
    BY <1>2, AppendHolds
  <2> QED BY <2>1 DEF Held
<1>6. Kept'
  <2> SUFFICES ASSUME NEW r \in published' \ excused'
               PROVE  \/ \E c \in Replicas : r \in Held(c)'
                      \/ \E q \in Requests : origin[q] = r
    BY <1>1 DEF Kept
  <2>1. CASE r \in published
    <3>1. r \in published \ excused
      BY <1>1, <2>1
    <3> QED BY <1>4, <3>1 DEF Kept
  <2>2. CASE r = s
    <3>1. hearers # {}
      BY <1>1, <2>2
    <3> QED BY <1>5, <2>2, <3>1
  <2> QED BY <1>1, <2>1, <2>2
<1>7. excused \subseteq excused'
  BY <1>1
<1> QED BY <1>1, <1>3, <1>6, <1>7, MqttStepEnds

LEMMA AckKeeps ==
    ASSUME SampleInv, NEW c \in Replicas, Ack(c)
    PROVE  NewAreFree' /\ EndedAccounted' /\ HeadHandled' /\ Kept'
<1> USE DEF SampleInv, IngestionTypeOK
<1>1. /\ busy' = [busy EXCEPT ![c] = None] /\ busy[c] # None
      /\ session' = [session EXCEPT ![c] = IF @ = <<>> THEN @ ELSE Tail(@)]
      /\ UNCHANGED <<vars, published, status, origin, excused>>
  BY DEF Ack, Done
<1>2. \A d \in Replicas \ {c} : session'[d] = session[d] /\ busy'[d] = busy[d]
  BY <1>1
<1>3. HeadHandled'
  BY <1>1, <1>2 DEF HeadHandled
<1>4. Kept'
  <2> SUFFICES ASSUME NEW s \in published \ excused, NEW d \in Replicas, s \in Held(d)
               PROVE  \/ \E e \in Replicas : s \in Held(e)'
                      \/ \E q \in Requests : origin[q] = s
    BY <1>1 DEF Kept
  <2>1. CASE d # c
    BY <1>2, <2>1 DEF Held
  <2>2. CASE d = c
    <3>1. PICK i \in DOMAIN session[c] : session[c][i] = s
      BY <2>2 DEF Held
    <3>2. session[c] # <<>> /\ session'[c] = Tail(session[c])
      BY <1>1, <3>1
    <3>3. CASE s = Head(session[c])
      <4>1. busy[c] \in Requests /\ origin[busy[c]] = s
        BY <1>1, <3>2, <3>3 DEF HeadHandled
      <4> QED BY <4>1
    <3>4. CASE \E j \in DOMAIN Tail(session[c]) : Tail(session[c])[j] = s
      <4>1. PICK j \in DOMAIN session'[c] : session'[c][j] = s
        BY <3>2, <3>4
      <4>2. s \in Held(c)'
        BY <4>1 DEF Held
      <4> QED BY <4>2
    <3>5. session[c] \in Seq(published)
      OBVIOUS
    <3> DEFINE seq == session[c]
    <3>6. seq \in Seq(published) /\ seq # <<>> /\ i \in DOMAIN seq
      BY <3>1, <3>2, <3>5
    <3> HIDE DEF seq
    <3>7. seq[i] = Head(seq) \/ \E j \in DOMAIN Tail(seq) : Tail(seq)[j] = seq[i]
      BY <3>6, TailHolds
    <3> QED BY <3>1, <3>3, <3>4, <3>7 DEF seq
  <2> QED BY <2>1, <2>2
<1> QED BY <1>1, <1>3, <1>4, MqttStepEnds

LEMMA HandleMessageKeeps ==
    ASSUME SampleInv, [Next]_vars, NEW c \in Replicas, NEW q \in Requests,
           HandleMessage(q, c)
    PROVE  NewAreFree' /\ EndedAccounted' /\ HeadHandled' /\ Kept'
<1> USE DEF SampleInv, IngestionTypeOK
<1>1. /\ pc[q] = "new" /\ origin[q] = None
      /\ status[c] = "subscribed" /\ session[c] # <<>>
      /\ busy' = [busy EXCEPT ![c] = q]
      /\ origin' = [origin EXCEPT ![q] = Head(session[c])]
      /\ UNCHANGED <<published, status, session, excused>>
  BY DEF HandleMessage, CallSubmit, Submit, NewAreFree
<1>2. Submit(q, minute, Telemetry) /\ minute \in Keys /\ Telemetry \in Types
  BY IngestionAssumption DEF HandleMessage, CallSubmit
<1>3. pc'[q] = "insert" /\ \A p \in Requests \ {q} : pc'[p] = pc[p]
  BY <1>2 DEF Submit, Goto, TypeOK
<1>4. origin'[q] = Head(session[c]) /\ \A p \in Requests \ {q} : origin'[p] = origin[p]
  BY <1>1
<1>5. NewAreFree'
  BY <1>3, <1>4 DEF NewAreFree
<1>6. EndedAccounted'
  BY <1>1, <1>3, <1>4, CallsGoOn DEF EndedAccounted
<1>7. HeadHandled'
  <2> SUFFICES ASSUME NEW d \in Replicas, busy'[d] # None
               PROVE  /\ status[d] # "starting"
                      /\ status[d] = "subscribed"
                           => session[d] # <<>> /\ origin'[busy'[d]] = Head(session[d])
    BY <1>1 DEF HeadHandled
  <2>1. CASE d = c
    BY <1>1, <1>4, <2>1
  <2>2. CASE d # c
    <3>1. busy'[d] = busy[d] /\ busy[d] \in Requests /\ origin[busy[d]] # None
      BY <1>1, <2>2
    <3>2. busy[d] # q
      BY <1>1, <3>1
    <3> QED BY <1>4, <3>1, <3>2 DEF HeadHandled
  <2> QED BY <2>1, <2>2
<1>8. Kept'
  <2>0. published' = published /\ excused' = excused /\ \A d \in Replicas : Held(d)' = Held(d)
    BY <1>1 DEF Held
  <2> SUFFICES ASSUME NEW s \in published \ excused
               PROVE  \/ \E d \in Replicas : s \in Held(d)
                      \/ \E p \in Requests : origin'[p] = s
    BY SMTT(30), <2>0 DEF Kept
  <2>1. ASSUME NEW p \in Requests, origin[p] = s PROVE origin'[p] = s
    BY <1>1, <1>4, <2>1, IngestionAssumption
  <2> QED BY <2>1 DEF Kept
<1> QED BY <1>5, <1>6, <1>7, <1>8

LEMMA RestartKeeps ==
    ASSUME SampleInv, [Next]_vars, NEW c \in Replicas, Restart(c)
    PROVE  NewAreFree' /\ EndedAccounted' /\ HeadHandled' /\ Kept'
<1> USE DEF SampleInv, IngestionTypeOK
<1>1. /\ status' = [status EXCEPT ![c] = "starting"]
      /\ session' = [session EXCEPT ![c] = <<>>]
      /\ busy' = [busy EXCEPT ![c] = None]
      /\ excused' = excused \cup Held(c) \cup Handling(c)
      /\ UNCHANGED <<published, origin>>
  BY DEF Restart, NewSession
<1>2. NewAreFree'
  BY <1>1, CallsGoOn DEF NewAreFree
<1>3. EndedAccounted'
  <2> SUFFICES ASSUME NEW q \in Requests, origin[q] # None, pc'[q] = "done"
               PROVE  Matching(q)' # {} \/ origin[q] \in excused'
    BY <1>1 DEF EndedAccounted
  <2>1. CASE pc[q] = "done"
    BY <1>1, <2>1, CallsGoOn DEF EndedAccounted
  <2>2. CASE pc[q] # "done"
    <3>1. busy[c] # None /\ Crash(busy[c])
      BY <2>2 DEF Restart, vars
    <3>2. q = busy[c]
      BY <2>2, <3>1, OthersStay DEF RequestStep
    <3>3. origin[q] \in Handling(c)
      BY <3>1, <3>2 DEF Handling
    <3> QED BY <1>1, <3>3
  <2> QED BY <2>1, <2>2
<1>4. HeadHandled'
  BY <1>1 DEF HeadHandled
<1>5. Kept'
  <2> SUFFICES ASSUME NEW s \in published \ excused', NEW d \in Replicas, s \in Held(d)
               PROVE  \E e \in Replicas : s \in Held(e)'
    BY <1>1 DEF Kept
  <2>1. d # c
    BY <1>1
  <2> QED BY <1>1, <2>1 DEF Held
<1> QED BY <1>2, <1>3, <1>4, <1>5

LEMMA BrokerRestartsKeeps ==
    ASSUME SampleInv, BrokerRestarts
    PROVE  NewAreFree' /\ EndedAccounted' /\ HeadHandled' /\ Kept'
<1> USE DEF SampleInv, IngestionTypeOK
<1>1. /\ status' = [c \in Replicas |-> IF status[c] = "subscribed" THEN "deaf"
                                                                   ELSE status[c]]
      /\ excused' = excused \cup ((UNION {Held(c) : c \in Replicas})
                                   \ (UNION {Handling(c) : c \in Replicas}))
      /\ UNCHANGED <<vars, published, busy, origin>>
  BY DEF BrokerRestarts
<1>2. HeadHandled'
  BY <1>1 DEF HeadHandled
<1>3. Kept'
  <2> SUFFICES ASSUME NEW s \in published \ excused', NEW c \in Replicas, s \in Held(c)
               PROVE  \E q \in Requests : origin[q] = s
    BY <1>1 DEF Kept
  <2>1. PICK d \in Replicas : s \in Handling(d)
    BY <1>1
  <2> QED BY <2>1 DEF Handling
<1> QED BY <1>1, <1>2, <1>3, MqttStepEnds

LEMMA NextSampleInv ==
    ASSUME SampleInv, [IngestionNext]_ingestionVars
    PROVE  SampleInv'
<1> USE DEF SampleInv
<1> DEFINE Parts == NewAreFree /\ EndedAccounted /\ HeadHandled /\ Kept
<1>1. [Next]_vars
  <2>1. CallsInRange
    BY DEF CallsInRange, IngestionTypeOK
  <2> QED BY <2>1, StepSubmits
<1>2. IInv' /\ IngestionTypeOK'
  BY <1>1, NextIInv, NextTyped
<1>3. ASSUME NEW q \in Requests, SubmitStep(q) PROVE Parts'
  <2>1. \A p \in Requests \ {q} : pc'[p] = pc[p]
    BY <1>3, OthersStay DEF SubmitStep, RequestStep
  <2>2. UNCHANGED <<published, status, session, busy, origin, excused>>
    BY <1>3 DEF SubmitStep, mqttVars
  <2> QED BY <1>1, <1>3, <2>1, <2>2, SubmitStepAccounts, CallStepKeeps
<1>4. ASSUME NEW q \in Requests, HandlerLoses(q) PROVE Parts'
  <2>1. \A p \in Requests \ {q} : pc'[p] = pc[p]
    BY <1>4, OthersStay DEF HandlerLoses, RequestStep
  <2>2. /\ UNCHANGED <<published, status, session, busy, origin>>
        /\ excused \subseteq excused'
    BY <1>4 DEF HandlerLoses, brokerVars
  <2>3. origin[q] # None => Matching(q)' # {} \/ origin[q] \in excused'
    <3>1. UNCHANGED <<req, table>>
      BY <1>4 DEF HandlerLoses, StoreFails, CreateJobRejected
    <3>2. CASE q \in table
      BY <3>1, <3>2 DEF Matching
    <3>3. CASE q \notin table
      BY <1>4, <3>3 DEF HandlerLoses
    <3> QED BY <3>2, <3>3
  <2> QED BY <1>1, <2>1, <2>2, <2>3, CallStepKeeps
<1>5. ASSUME NEW s \in Samples, PublishSample(s) PROVE Parts'
  BY <1>5, PublishSampleKeeps
<1>6. ASSUME NEW c \in Replicas, Ack(c) PROVE Parts'
  BY <1>6, AckKeeps
<1>7. ASSUME NEW c \in Replicas, Restart(c) PROVE Parts'
  BY <1>1, <1>7, RestartKeeps
<1>8. ASSUME NEW c \in Replicas, NEW q \in Requests, HandleMessage(q, c) PROVE Parts'
  BY <1>1, <1>8, HandleMessageKeeps
<1>9. ASSUME NEW c \in Replicas, Subscribe(c) \/ Disconnect(c) PROVE Parts'
  <2>1. UNCHANGED <<vars, published, session, origin, excused>>
    BY <1>9 DEF Subscribe, Disconnect, KeepQueued
  <2>2. NewAreFree' /\ EndedAccounted'
    BY <2>1, MqttStepEnds
  <2>3. Kept'
    BY <2>1 DEF Kept, Held
  <2>4. HeadHandled'
    BY <1>9 DEF HeadHandled, Subscribe, Disconnect, KeepQueued, IngestionTypeOK
  <2> QED BY <2>2, <2>3, <2>4
<1>10. ASSUME Tick \/ Quiet \/ UNCHANGED ingestionVars PROVE Parts'
  <2>1. UNCHANGED <<vars, published, status, session, busy, origin, excused>>
    BY <1>10 DEF Tick, Quiet, ingestionVars, mqttVars, brokerVars
  <2>2. NewAreFree' /\ EndedAccounted'
    BY <2>1, MqttStepEnds
  <2> QED BY <2>1, <2>2 DEF HeadHandled, Kept, Held
<1>11. ASSUME BrokerRestarts PROVE Parts'
  BY <1>11, BrokerRestartsKeeps
<1>12. Parts'
  BY <1>3, <1>4, <1>5, <1>6, <1>7, <1>8, <1>9, <1>10, <1>11 DEF IngestionNext
<1> QED BY <1>2, <1>12

LEMMA IngestionInv == IngestionSpec => []SampleInv
<1>1. IngestionInit => SampleInv
  BY InitTyped, InitIInv DEF IngestionInit, Init, SampleInv, NewAreFree,
                             EndedAccounted, HeadHandled, Kept
<1> QED BY <1>1, NextSampleInv, PTL DEF IngestionSpec, ingestionVars

\* The types of pods, sessions and requests.
THEOREM IngestionTypeCorrect == IngestionSpec => []IngestionTypeOK
<1>1. SampleInv => IngestionTypeOK
  BY DEF SampleInv
<1> QED BY <1>1, IngestionInv, PTL

\* A sample somebody was subscribed to is with the broker or a handler until a
\* job exists for it, but for what restarts and failed stores took away.
THEOREM SamplesAreKept == IngestionSpec => []NoSampleLost
<1>1. SampleInv => NoSampleLost
  <2> SUFFICES ASSUME SampleInv, NEW s \in published \ excused,
                      NEW q \in Requests, origin[q] = s
               PROVE  pc[q] # "done" \/ Matching(q) # {}
    BY DEF NoSampleLost, SampleInv, Kept
  <2>1. s # None
    BY IngestionAssumption DEF SampleInv, IngestionTypeOK
  <2> QED BY <2>1 DEF SampleInv, EndedAccounted
<1> QED BY <1>1, IngestionInv, PTL

-----------------------------------------------------------------------------
(* Second jobs.  Each call made for a sample, and each pod that has yet to  *)
(* make one, is paid for by a pod that was subscribed when the sample came  *)
(* or by an outage; a job is made by a call.                                *)

CallsFor(s) == {q \in Requests : origin[q] = s}

IsAt(c, s) == busy[c] # None /\ origin[busy[c]] = s

\* The pods that will be handed the sample, or handed it again.
DuePods(s) == {c \in Replicas : s \in Held(c) /\ ~IsAt(c, s)}

\* A sample is published once: a session holds it once.
HeldOnce ==
    \A c \in Replicas : \A i, j \in DOMAIN session[c] :
        session[c][i] = session[c][j] => i = j

Balanced(s) ==
    /\ IsFiniteSet(CallsFor(s))
    /\ Cardinality(CallsFor(s)) + Cardinality(DuePods(s))
          <= Cardinality(heard[s]) + outages

CauseInv == SampleInv /\ HeldOnce /\ \A s \in published : Balanced(s)

LEMMA PodsAreFinite ==
    ASSUME NEW T \in SUBSET Replicas
    PROVE  IsFiniteSet(T) /\ Cardinality(T) \in Nat
BY IngestionAssumption, FS_Subset, FS_CardinalityType

LEMMA SumsGrow ==
    ASSUME NEW a \in Nat, NEW d \in Nat, NEW d1 \in Nat, NEW h \in Nat,
           NEW o \in Nat, NEW o1 \in Nat, d1 <= d, o <= o1, a + d <= h + o
    PROVE  a + d1 <= h + o1
OBVIOUS

\* What keeps the balance: a pod comes to be due only by an outage, and a call
\* is made by a pod that was due.
LEMMA BalanceMoves ==
    ASSUME IngestionTypeOK, NEW s \in published, Balanced(s), heard'[s] = heard[s],
           NEW c, NEW q,
           \/ /\ outages' \in Nat /\ outages <= outages'
              /\ CallsFor(s)' = CallsFor(s) /\ DuePods(s)' \subseteq DuePods(s)
           \/ /\ outages' = outages + 1
              /\ CallsFor(s)' = CallsFor(s) /\ DuePods(s)' \subseteq DuePods(s) \cup {c}
           \/ /\ outages' = outages /\ c \in DuePods(s)
              /\ CallsFor(s)' = CallsFor(s) \cup {q} /\ DuePods(s)' = DuePods(s) \ {c}
    PROVE  Balanced(s)'
<1> DEFINE a == Cardinality(CallsFor(s))
           d == Cardinality(DuePods(s))
           h == Cardinality(heard[s])
           a1 == Cardinality(CallsFor(s)')
           d1 == Cardinality(DuePods(s)')
<1>1. /\ IsFiniteSet(DuePods(s)) /\ d \in Nat
      /\ IsFiniteSet(DuePods(s)') /\ d1 \in Nat
  <2>1. DuePods(s) \in SUBSET Replicas /\ DuePods(s)' \in SUBSET Replicas
    BY DEF DuePods
  <2> QED BY <2>1, PodsAreFinite
<1>2. h \in Nat /\ outages \in Nat
  <2>1. heard[s] \in SUBSET Replicas /\ outages \in Nat
    BY DEF IngestionTypeOK
  <2> QED BY <2>1, PodsAreFinite
<1>3. IsFiniteSet(CallsFor(s)) /\ a \in Nat /\ a + d <= h + outages
  BY FS_CardinalityType DEF Balanced
<1>4. Cardinality(heard'[s]) = h
  OBVIOUS
<1>5. /\ IsFiniteSet(CallsFor(s) \cup {q})
      /\ Cardinality(CallsFor(s) \cup {q}) \in {a, a + 1}
  BY <1>3, FS_AddElement
<1>6. /\ IsFiniteSet(DuePods(s) \cup {c})
      /\ Cardinality(DuePods(s) \cup {c}) \in {d, d + 1}
      /\ c \in DuePods(s) => Cardinality(DuePods(s) \ {c}) = d - 1
  BY <1>1, FS_AddElement, FS_RemoveElement
<1>7. SUFFICES IsFiniteSet(CallsFor(s)') /\ a1 + d1 <= h + outages'
  BY <1>4 DEF Balanced
<1>8. CASE /\ outages' \in Nat /\ outages <= outages'
           /\ CallsFor(s)' = CallsFor(s) /\ DuePods(s)' \subseteq DuePods(s)
  <2>1. d1 <= d /\ a1 = a
    BY <1>1, <1>8, FS_Subset
  <2>2. a1 + d1 <= h + outages'
    <3>1. outages \in Nat /\ outages' \in Nat /\ outages <= outages'
      BY <1>2, <1>8
    <3> HIDE DEF a, d, h, a1, d1
    <3> QED BY <1>1, <1>2, <1>3, <2>1, <3>1, SumsGrow
  <2> QED BY <1>3, <1>8, <2>2
<1>9. CASE /\ outages' = outages + 1
           /\ CallsFor(s)' = CallsFor(s) /\ DuePods(s)' \subseteq DuePods(s) \cup {c}
  <2>1. d1 <= Cardinality(DuePods(s) \cup {c}) /\ a1 = a
    BY <1>6, <1>9, FS_Subset
  <2>2. d1 <= d + 1
    BY <1>1, <1>6, <2>1
  <2>3. a1 + d1 <= h + outages'
    <3> HIDE DEF a, d, h, a1, d1
    <3> QED BY <1>1, <1>2, <1>3, <1>9, <2>1, <2>2
  <2> QED BY <1>3, <1>9, <2>3
<1>10. CASE /\ outages' = outages /\ c \in DuePods(s)
            /\ CallsFor(s)' = CallsFor(s) \cup {q} /\ DuePods(s)' = DuePods(s) \ {c}
  <2>1. d1 = d - 1 /\ a1 \in {a, a + 1}
    BY <1>5, <1>6, <1>10
  <2>2. a1 + d1 <= h + outages'
    <3> HIDE DEF a, d, h, a1, d1
    <3> QED BY <1>1, <1>2, <1>3, <1>10, <2>1
  <2> QED BY <1>5, <1>10, <2>2
<1> QED BY <1>8, <1>9, <1>10

\* A sample that was not published is with no pod, and no call is made for it.
LEMMA FreshSample ==
    ASSUME IngestionTypeOK, NEW s \in Samples \ published
    PROVE  CallsFor(s) = {} /\ \A c \in Replicas : s \notin Held(c)
<1>1. s # None
  BY IngestionAssumption
<1>2. \A c \in Replicas : session[c] \in Seq(published)
  BY DEF IngestionTypeOK
<1>3. \A c \in Replicas : Held(c) \subseteq published
  BY <1>2 DEF Held
<1>4. CallsFor(s) = {}
  BY <1>1 DEF IngestionTypeOK, CallsFor
<1> QED BY <1>3, <1>4

LEMMA AppendHeld ==
    ASSUME NEW S, NEW seq \in Seq(S), NEW s \in S,
           s \notin {seq[i] : i \in DOMAIN seq},
           \A i, j \in DOMAIN seq : seq[i] = seq[j] => i = j
    PROVE  /\ {Append(seq, s)[i] : i \in DOMAIN Append(seq, s)}
                = {seq[i] : i \in DOMAIN seq} \cup {s}
           /\ \A i, j \in DOMAIN Append(seq, s) :
                    Append(seq, s)[i] = Append(seq, s)[j] => i = j
<1> DEFINE new == Append(seq, s)
           n == Len(seq)
<1>1. DOMAIN new = 1 .. n + 1 /\ DOMAIN seq = 1 .. n /\ n \in Nat
  OBVIOUS
<1>2. new[n + 1] = s /\ \A i \in 1 .. n : new[i] = seq[i]
  OBVIOUS
<1>3. \A i \in 1 .. n + 1 : i \in 1 .. n \/ i = n + 1
  BY <1>1
<1>4. n + 1 \in 1 .. n + 1 /\ \A i \in 1 .. n : i \in 1 .. n + 1
  BY <1>1
<1> HIDE DEF new, n
<1>5. {new[i] : i \in 1 .. n + 1} = {seq[i] : i \in 1 .. n} \cup {s}
  BY <1>2, <1>3, <1>4
<1>6. \A i, j \in 1 .. n + 1 : new[i] = new[j] => i = j
  <2>1. /\ s \notin {seq[i] : i \in 1 .. n}
        /\ \A i, j \in 1 .. n : seq[i] = seq[j] => i = j
    BY <1>1
  <2> QED BY <1>2, <1>3, <2>1
<1> QED BY <1>1, <1>5, <1>6 DEF new

LEMMA TailHeld ==
    ASSUME NEW S, NEW seq \in Seq(S), seq # <<>>,
           \A i, j \in DOMAIN seq : seq[i] = seq[j] => i = j
    PROVE  /\ {Tail(seq)[i] : i \in DOMAIN Tail(seq)}
                = {seq[i] : i \in DOMAIN seq} \ {Head(seq)}
           /\ \A i, j \in DOMAIN Tail(seq) : Tail(seq)[i] = Tail(seq)[j] => i = j
           /\ Head(seq) \in {seq[i] : i \in DOMAIN seq}
<1> DEFINE rest == Tail(seq)
           n == Len(seq)
<1>1. /\ n \in Nat \ {0} /\ DOMAIN seq = 1 .. n /\ DOMAIN rest = 1 .. n - 1
      /\ Head(seq) = seq[1]
  OBVIOUS
<1>2. \A i \in 1 .. n - 1 : rest[i] = seq[i + 1]
  OBVIOUS
<1>3. \A i \in 1 .. n - 1 : i + 1 \in 1 .. n /\ i + 1 # 1
  BY <1>1
<1>4. \A i \in 1 .. n : i # 1 => i - 1 \in 1 .. n - 1 /\ (i - 1) + 1 = i
  BY <1>1
<1>5. 1 \in 1 .. n
  BY <1>1
<1> HIDE DEF rest
<1>6. {rest[i] : i \in 1 .. n - 1} \subseteq {seq[i] : i \in 1 .. n} \ {seq[1]}
  BY <1>1, <1>2, <1>3, <1>5
<1>7. {seq[i] : i \in 1 .. n} \ {seq[1]} \subseteq {rest[i] : i \in 1 .. n - 1}
  <2> SUFFICES ASSUME NEW i \in 1 .. n, i # 1
               PROVE  \E j \in 1 .. n - 1 : rest[j] = seq[i]
    OBVIOUS
  <2>1. i - 1 \in 1 .. n - 1 /\ rest[i - 1] = seq[i]
    BY <1>2, <1>4
  <2> QED BY <2>1
<1>8. \A i, j \in 1 .. n - 1 : rest[i] = rest[j] => i = j
  <2> SUFFICES ASSUME NEW i \in 1 .. n - 1, NEW j \in 1 .. n - 1, rest[i] = rest[j]
               PROVE  i = j
    OBVIOUS
  <2>1. i + 1 = j + 1
    BY <1>1, <1>2, <1>3
  <2> QED BY <2>1, <1>1
<1> QED BY <1>1, <1>5, <1>6, <1>7, <1>8 DEF rest

LEMMA PublishSampleBalances ==
    ASSUME CauseInv, IngestionTypeOK', NEW s \in Samples, PublishSample(s)
    PROVE  HeldOnce' /\ \A r \in published' : Balanced(r)'
<1> USE DEF CauseInv, SampleInv
<1> DEFINE hearers == {c \in Replicas : status[c] = "subscribed"}
<1>1. /\ s \notin published /\ published' = published \cup {s}
      /\ session' = [c \in Replicas |-> IF c \in hearers THEN Append(session[c], s)
                                                          ELSE session[c]]
      /\ heard' = [heard EXCEPT ![s] = hearers]
      /\ UNCHANGED <<busy, origin, outages>>
  BY DEF PublishSample
<1>2. CallsFor(s) = {} /\ \A c \in Replicas : s \notin Held(c)
  BY <1>1, FreshSample
<1>3. ASSUME NEW c \in Replicas
      PROVE  /\ Held(c)' = IF c \in hearers THEN Held(c) \cup {s} ELSE Held(c)
             /\ \A i, j \in DOMAIN session'[c] : session'[c][i] = session'[c][j] => i = j
  <2>1. session[c] \in Seq(published \cup {s})
    BY <1>1 DEF IngestionTypeOK
  <2>2. CASE c \in hearers
    <3>1. session'[c] = Append(session[c], s)
      BY <1>1, <2>2
    <3>2. s \notin Held(c)
      BY <1>2
    <3>3. /\ {Append(session[c], s)[i] : i \in DOMAIN Append(session[c], s)}
                = Held(c) \cup {s}
          /\ \A i, j \in DOMAIN Append(session[c], s) :
                Append(session[c], s)[i] = Append(session[c], s)[j] => i = j
      <4> DEFINE seq == session[c]
                 S == published \cup {s}
      <4>1. seq \in Seq(S) /\ s \in S
        BY <2>1
      <4>2. /\ s \notin {seq[i] : i \in DOMAIN seq}
            /\ \A i, j \in DOMAIN seq : seq[i] = seq[j] => i = j
        BY <3>2 DEF Held, HeldOnce
      <4>3. Held(c) = {seq[i] : i \in DOMAIN seq}
        BY DEF Held
      <4> HIDE DEF seq, S
      <4>4. /\ {Append(seq, s)[i] : i \in DOMAIN Append(seq, s)} = Held(c) \cup {s}
            /\ \A i, j \in DOMAIN Append(seq, s) :
                  Append(seq, s)[i] = Append(seq, s)[j] => i = j
        BY <4>1, <4>2, <4>3, AppendHeld
      <4> QED BY <4>4 DEF seq
    <3> QED BY <2>2, <3>1, <3>3 DEF Held
  <2>3. CASE c \notin hearers
    <3>1. session'[c] = session[c]
      BY <1>1, <2>3
    <3> QED BY <2>3, <3>1 DEF Held, HeldOnce
  <2> QED BY <2>2, <2>3
<1>4. HeldOnce'
  BY <1>3 DEF HeldOnce
<1>5. Balanced(s)'
  <2>1. CallsFor(s)' = {}
    BY <1>1, <1>2 DEF CallsFor
  <2>2. DuePods(s)' \subseteq hearers
    BY <1>2, <1>3 DEF DuePods
  <2>3. heard'[s] = hearers /\ outages' \in Nat
    BY <1>1 DEF IngestionTypeOK
  <2>4. IsFiniteSet(hearers) /\ Cardinality(hearers) \in Nat
    BY PodsAreFinite
  <2>5. /\ IsFiniteSet(DuePods(s)') /\ Cardinality(DuePods(s)') \in Nat
        /\ Cardinality(DuePods(s)') <= Cardinality(hearers)
    BY <2>2, <2>4, FS_Subset, FS_CardinalityType
  <2>6. IsFiniteSet(CallsFor(s)') /\ Cardinality(CallsFor(s)') = 0
    BY <2>1, FS_EmptySet
  <2>7. Cardinality(CallsFor(s)') + Cardinality(DuePods(s)')
          <= Cardinality(hearers) + outages'
    <3> HIDE DEF hearers
    <3> QED BY <2>3, <2>4, <2>5, <2>6
  <2> QED BY <2>3, <2>6, <2>7 DEF Balanced
<1>6. ASSUME NEW r \in published PROVE Balanced(r)'
  <2>1. r # s /\ heard'[r] = heard[r]
    BY <1>1 DEF IngestionTypeOK
  <2>2. CallsFor(r)' = CallsFor(r)
    BY <1>1 DEF CallsFor
  <2>3. DuePods(r)' \subseteq DuePods(r)
    BY <1>1, <1>3, <2>1 DEF DuePods, IsAt
  <2>4. outages' \in Nat /\ outages <= outages'
    BY <1>1 DEF IngestionTypeOK
  <2> QED BY <2>1, <2>2, <2>3, <2>4, BalanceMoves
<1> QED BY <1>1, <1>4, <1>5, <1>6

\* The message acknowledged is the one the pod is at, and its session holds
\* that one no more.
LEMMA AckBalances ==
    ASSUME CauseInv, NEW c \in Replicas, Ack(c)
    PROVE  HeldOnce' /\ \A r \in published' : Balanced(r)'
<1> USE DEF CauseInv, SampleInv
<1>1. /\ busy' = [busy EXCEPT ![c] = None] /\ busy[c] # None
      /\ session' = [session EXCEPT ![c] = IF @ = <<>> THEN @ ELSE Tail(@)]
      /\ UNCHANGED <<published, origin, heard, outages>>
  BY DEF Ack, Done
<1>2. /\ \A d \in Replicas \ {c} : session'[d] = session[d] /\ busy'[d] = busy[d]
      /\ busy'[c] = None
  BY <1>1 DEF IngestionTypeOK
<1>3. /\ \A r \in Held(c)' : r \in Held(c) /\ r # origin[busy[c]]
      /\ \A i, j \in DOMAIN session'[c] : session'[c][i] = session'[c][j] => i = j
  <2>1. CASE session[c] = <<>>
    <3>1. session'[c] = <<>>
      BY <1>1, <2>1 DEF IngestionTypeOK
    <3> QED BY <3>1 DEF Held
  <2>2. CASE session[c] # <<>>
    <3>1. session'[c] = Tail(session[c]) /\ session[c] \in Seq(published)
      BY <1>1, <2>2 DEF IngestionTypeOK
    <3>2. origin[busy[c]] = Head(session[c])
      BY <1>1, <2>2 DEF HeadHandled, IngestionTypeOK
    <3>3. /\ {Tail(session[c])[i] : i \in DOMAIN Tail(session[c])}
                = Held(c) \ {Head(session[c])}
          /\ \A i, j \in DOMAIN Tail(session[c]) :
                Tail(session[c])[i] = Tail(session[c])[j] => i = j
      BY <2>2, <3>1, TailHeld DEF Held, HeldOnce
    <3> QED BY <3>1, <3>2, <3>3 DEF Held
  <2> QED BY <2>1, <2>2
<1>4. HeldOnce'
  BY <1>2, <1>3 DEF HeldOnce
<1>5. ASSUME NEW r \in published PROVE Balanced(r)'
  <2>1. CallsFor(r)' = CallsFor(r)
    BY <1>1 DEF CallsFor
  <2>2. ASSUME NEW d \in DuePods(r)' PROVE d \in DuePods(r)
    <3>1. CASE d = c
      BY <1>3, <2>2, <3>1 DEF DuePods, IsAt
    <3>2. CASE d # c
      BY <1>1, <1>2, <2>2, <3>2 DEF DuePods, IsAt, Held
    <3> QED BY <3>1, <3>2
  <2>3. outages' \in Nat /\ outages <= outages' /\ heard'[r] = heard[r]
    BY <1>1 DEF IngestionTypeOK
  <2> QED BY <2>1, <2>2, <2>3, BalanceMoves
<1> QED BY <1>1, <1>4, <1>5

\* The pod that takes the head of its session was due, and is no more.
LEMMA HandleMessageBalances ==
    ASSUME CauseInv, NEW c \in Replicas, NEW q \in Requests, HandleMessage(q, c)
    PROVE  HeldOnce' /\ \A r \in published' : Balanced(r)'
<1> USE DEF CauseInv, SampleInv
<1>1. /\ pc[q] = "new" /\ origin[q] = None /\ busy[c] = None /\ session[c] # <<>>
      /\ busy' = [busy EXCEPT ![c] = q]
      /\ origin' = [origin EXCEPT ![q] = Head(session[c])]
      /\ UNCHANGED <<published, session, heard, outages>>
  BY DEF HandleMessage, CallSubmit, Submit, NewAreFree
<1>2. PICK s \in published : /\ s = Head(session[c]) /\ s \in Held(c)
                            /\ s # None /\ q # None
  <2>1. session[c] \in Seq(published)
    BY DEF IngestionTypeOK
  <2>2. Head(session[c]) \in Held(c)
    BY <1>1, <2>1, TailHeld DEF Held, HeldOnce
  <2>3. Held(c) \subseteq published
    BY <2>1 DEF Held
  <2> QED BY <2>2, <2>3, IngestionAssumption, SubmitAssumption DEF IngestionTypeOK
<1>3. /\ busy'[c] = q /\ \A d \in Replicas \ {c} : busy'[d] = busy[d]
      /\ origin'[q] = s /\ \A p \in Requests \ {q} : origin'[p] = origin[p]
  BY <1>1, <1>2 DEF IngestionTypeOK
<1>4. \A d \in Replicas : busy[d] # None => busy[d] \in Requests \ {q}
  BY <1>1 DEF IngestionTypeOK
<1>5. \A d \in Replicas : Held(d)' = Held(d)
  BY <1>1 DEF Held
<1>6. HeldOnce'
  BY <1>1 DEF HeldOnce
<1>7. ASSUME NEW r, NEW d \in Replicas \ {c} PROVE IsAt(d, r)' <=> IsAt(d, r)
  BY <1>3, <1>4 DEF IsAt
<1>8. Balanced(s)'
  <2>1. c \in DuePods(s)
    BY <1>1, <1>2 DEF DuePods, IsAt
  <2>2. IsAt(c, s)'
    BY <1>2, <1>3 DEF IsAt
  <2>3. DuePods(s)' = DuePods(s) \ {c}
    BY <1>5, <1>7, <2>2 DEF DuePods
  <2>4. CallsFor(s)' = CallsFor(s) \cup {q}
    BY <1>3 DEF CallsFor
  <2>5. heard'[s] = heard[s] /\ outages' = outages
    BY <1>1
  <2> QED BY <1>2, <2>1, <2>3, <2>4, <2>5, BalanceMoves
<1>9. ASSUME NEW r \in published, r # s PROVE Balanced(r)'
  <2>1. r # None
    BY IngestionAssumption DEF IngestionTypeOK
  <2>2. CallsFor(r)' = CallsFor(r)
    BY <1>1, <1>3, <1>9, <2>1 DEF CallsFor
  <2>3. ~IsAt(c, r) /\ ~IsAt(c, r)'
    BY <1>1, <1>3, <1>9 DEF IsAt
  <2>4. DuePods(r)' \subseteq DuePods(r)
    BY <1>5, <1>7, <2>3 DEF DuePods
  <2>5. heard'[r] = heard[r] /\ outages' \in Nat /\ outages <= outages'
    BY <1>1 DEF IngestionTypeOK
  <2> QED BY <2>2, <2>4, <2>5, BalanceMoves
<1> QED BY <1>1, <1>6, <1>8, <1>9

\* A pod that reconnects is handed the message again; the outage pays for it.
LEMMA DisconnectBalances ==
    ASSUME CauseInv, NEW c \in Replicas, Disconnect(c)
    PROVE  HeldOnce' /\ \A r \in published' : Balanced(r)'
<1> USE DEF CauseInv, SampleInv
<1>1. /\ busy' = [busy EXCEPT ![c] = None] /\ outages' = outages + 1
      /\ UNCHANGED <<published, session, origin, heard>>
  BY DEF Disconnect, KeepQueued, Outage
<1>2. \A d \in Replicas \ {c} : busy'[d] = busy[d]
  BY <1>1 DEF IngestionTypeOK
<1>3. ASSUME NEW r \in published PROVE Balanced(r)'
  <2>1. CallsFor(r)' = CallsFor(r)
    BY <1>1 DEF CallsFor
  <2>2. DuePods(r)' \subseteq DuePods(r) \cup {c}
    BY <1>1, <1>2 DEF DuePods, IsAt, Held
  <2> QED BY <1>1, <2>1, <2>2, BalanceMoves
<1> QED BY <1>1, <1>3 DEF HeldOnce

\* Sessions that are lost make nobody due.
LEMMA LossBalances ==
    ASSUME CauseInv, BrokerRestarts \/ \E c \in Replicas : Restart(c)
    PROVE  HeldOnce' /\ \A r \in published' : Balanced(r)'
<1> USE DEF CauseInv, SampleInv
<1>1. /\ UNCHANGED <<published, origin, heard>>
      /\ outages' \in Nat /\ outages <= outages'
      /\ \A d \in Replicas :
            \/ session'[d] = <<>>
            \/ session'[d] = session[d] /\ busy'[d] = busy[d]
  <2>1. ASSUME NEW c \in Replicas, Restart(c)
        PROVE  /\ UNCHANGED <<published, origin, heard>>
               /\ outages' \in {outages, outages + 1}
               /\ session' = [session EXCEPT ![c] = <<>>]
               /\ busy' = [busy EXCEPT ![c] = None]
    BY <2>1 DEF Restart, NewSession, Outage
  <2>2. ASSUME BrokerRestarts
        PROVE  /\ UNCHANGED <<published, origin, heard, busy>>
               /\ outages' = outages + 1 /\ session' = [d \in Replicas |-> <<>>]
    BY <2>2 DEF BrokerRestarts, Outage
  <2> QED BY <2>1, <2>2 DEF IngestionTypeOK
<1>2. ASSUME NEW r \in published PROVE Balanced(r)'
  <2>1. CallsFor(r)' = CallsFor(r)
    BY <1>1 DEF CallsFor
  <2>2. ASSUME NEW d \in DuePods(r)' PROVE d \in DuePods(r)
    <3>1. d \in Replicas /\ session'[d] # <<>>
      BY <2>2 DEF DuePods, Held
    <3> QED BY <1>1, <2>2, <3>1 DEF DuePods, IsAt, Held
  <2> QED BY <1>1, <2>1, <2>2, BalanceMoves
<1>3. HeldOnce'
  BY <1>1 DEF HeldOnce
<1> QED BY <1>1, <1>2, <1>3

LEMMA NextCauseInv ==
    ASSUME CauseInv, [IngestionNext]_ingestionVars
    PROVE  CauseInv'
<1> DEFINE Parts == HeldOnce /\ \A r \in published : Balanced(r)
<1>1. SampleInv'
  BY NextSampleInv DEF CauseInv
<1>2. ASSUME UNCHANGED <<published, session, busy, origin, heard, outages>> PROVE Parts'
  BY <1>2 DEF CauseInv, HeldOnce, Balanced, CallsFor, DuePods, IsAt, Held
<1>3. ASSUME NEW q \in Requests, SubmitStep(q) \/ HandlerLoses(q) PROVE Parts'
  <2>1. UNCHANGED <<published, session, busy, origin, heard, outages>>
    BY <1>3 DEF SubmitStep, HandlerLoses, mqttVars, brokerVars
  <2> QED BY <1>2, <2>1
<1>4. ASSUME \/ Tick \/ Quiet \/ UNCHANGED ingestionVars
             \/ \E c \in Replicas : Subscribe(c)
      PROVE  Parts'
  <2>1. UNCHANGED <<published, session, busy, origin, heard, outages>>
    BY <1>4 DEF Tick, Quiet, Subscribe, ingestionVars, mqttVars, brokerVars
  <2> QED BY <1>2, <2>1
<1>5. ASSUME NEW s \in Samples, PublishSample(s) PROVE Parts'
  BY <1>1, <1>5, PublishSampleBalances DEF SampleInv
<1>6. ASSUME NEW c \in Replicas, Ack(c) PROVE Parts'
  BY <1>6, AckBalances
<1>7. ASSUME NEW c \in Replicas, Disconnect(c) PROVE Parts'
  BY <1>7, DisconnectBalances
<1>8. ASSUME BrokerRestarts \/ \E c \in Replicas : Restart(c) PROVE Parts'
  BY <1>8, LossBalances
<1>9. ASSUME NEW c \in Replicas, NEW q \in Requests, HandleMessage(q, c) PROVE Parts'
  BY <1>9, HandleMessageBalances
<1>10. Parts'
  BY <1>3, <1>4, <1>5, <1>6, <1>7, <1>8, <1>9 DEF IngestionNext
<1> QED BY <1>1, <1>10 DEF CauseInv

\* A sample becomes more jobs than one only by as many pods that were
\* subscribed to it, or outages.
THEOREM SecondJobsHaveCause == IngestionSpec => []DuplicatesHaveCause
<1>1. IngestionInit => HeldOnce /\ \A s \in published : Balanced(s)
  BY DEF IngestionInit, HeldOnce
<1>2. IngestionSpec => []CauseInv
  <2>1. IngestionInit /\ SampleInv => CauseInv
    BY <1>1 DEF CauseInv
  <2> QED BY <2>1, IngestionInv, NextCauseInv, PTL DEF IngestionSpec, ingestionVars
<1>3. CauseInv => DuplicatesHaveCause
  <2> SUFFICES ASSUME CauseInv, NEW s \in published
               PROVE  Cardinality(JobsOf(s)) <= Cardinality(heard[s]) + outages
    BY DEF DuplicatesHaveCause
  <2> DEFINE a == Cardinality(CallsFor(s))
             d == Cardinality(DuePods(s))
             h == Cardinality(heard[s])
             n == Cardinality(JobsOf(s))
  <2>1. TypeOK /\ IngestionTypeOK
    BY DEF CauseInv, SampleInv, IngestionTypeOK
  <2>2. JobsOf(s) \subseteq CallsFor(s)
    BY <2>1 DEF JobsOf, CallsFor, TypeOK
  <2>3. IsFiniteSet(CallsFor(s)) /\ a + d <= h + outages
    BY DEF CauseInv, Balanced
  <2>4. n <= a /\ n \in Nat /\ a \in Nat
    BY <2>2, <2>3, FS_Subset, FS_CardinalityType
  <2>5. d \in Nat /\ h \in Nat /\ outages \in Nat
    <3>1. DuePods(s) \in SUBSET Replicas /\ heard[s] \in SUBSET Replicas
      BY <2>1 DEF DuePods, IngestionTypeOK
    <3> QED BY <2>1, <3>1, PodsAreFinite DEF IngestionTypeOK
  <2>6. n <= h + outages
    <3> HIDE DEF a, d, h, n
    <3> QED BY <2>3, <2>4, <2>5
  <2> QED BY <2>6
<1> QED BY <1>2, <1>3, PTL
=============================================================================
