------------------------------ MODULE SubmitJob ------------------------------
(***************************************************************************)
(* How a job is created: the handler submitJob of cmd/api, with the        *)
(* idempotency key in Redis (internal/idempotency), and Submitter.Submit   *)
(* of internal/jobsubmitter, which ingestion and the health-check handler  *)
(* call and which has only the unique index of the jobs table.  Requests   *)
(* run concurrently, each taking one step per call to Redis, Postgres or   *)
(* Kafka; a caller that repeats a submission is another request with the   *)
(* same key and type.                                                      *)
(*                                                                         *)
(* The job a request inserts is named after the request: CreateJob gives   *)
(* it a fresh id (the uuid that Acquire stores in Redis is never used).    *)
(*                                                                         *)
(* A definition marked "seeded bug" is a form the one after it could have  *)
(* had, used nowhere: in that one's place it must break a property.        *)
(***************************************************************************)
EXTENDS Naturals, FiniteSets

CONSTANTS Requests, Keys, Types,
          None,        \* "no request" and "no job"
          FaultKinds, MaxFaults

ASSUME SubmitAssumption ==
    /\ None \notin Requests
    /\ MaxFaults \in Nat
    /\ FaultKinds \subseteq {"crash", "store", "publish", "rejected"}

VARIABLES
    pc,      \* a request's next call
    direct,  \* the requests that are calls of Submitter.Submit
    req,     \* its idempotency key and job type
    answer,  \* HTTP status (Submit: 202 is nil, 500 an error), job and state
    claim,   \* per Redis key, the request whose SETNX set it
    table,   \* the rows of jobs: the requests that inserted one
    state,   \* state of the row
    sent,    \* the jobs whose message was published
    faults

vars == <<pc, direct, req, answer, claim, table, state, sent, faults>>

Fault(kind) == kind \in FaultKinds /\ faults < MaxFaults /\ faults' = faults + 1

NoAnswer == [code |-> 0, job |-> None, state |-> "none"]

\* The response and the end of the request.
Answer(q, code, job, s) ==
    /\ pc' = [pc EXCEPT ![q] = "done"]
    /\ answer' = [answer EXCEPT ![q] = [code |-> code, job |-> job, state |-> s]]

InternalError(q) == Answer(q, 500, None, "none")

Goto(q, to) == pc' = [pc EXCEPT ![q] = to] /\ UNCHANGED answer

\* Seeded bugs: the lookup leaves out the type; so does the unique index.
MatchingKey(q) == {id \in table : req[id][1] = req[q][1]}

\* Rows with the request's (idempotency_key, type).
Matching(q) == {id \in table : req[id] = req[q]}

-----------------------------------------------------------------------------
(* The handler.                                                            *)

\* A valid request arrives: body, type and key passed the checks.
Receive(q, k, t) ==
    /\ pc[q] = "new"
    /\ req' = [req EXCEPT ![q] = <<k, t>>]
    /\ Goto(q, "setnx")
    /\ UNCHANGED <<direct, claim, table, state, sent, faults>>

\* Submitter.Submit: no key in Redis.
Submit(q, k, t) ==
    /\ pc[q] = "new"
    /\ req' = [req EXCEPT ![q] = <<k, t>>]
    /\ direct' = direct \cup {q}
    /\ Goto(q, "insert")
    /\ UNCHANGED <<claim, table, state, sent, faults>>

\* Acquire, first call: the key alone, whatever the type.
SetNX(q) ==
    /\ pc[q] = "setnx"
    /\ LET k == req[q][1]
       IN  IF claim[k] = None
           THEN claim' = [claim EXCEPT ![k] = q] /\ Goto(q, "insert")
           ELSE claim' = claim /\ Goto(q, "get")
    /\ UNCHANGED <<direct, req, table, state, sent, faults>>

\* Acquire, second call: the key may have expired since.
Get(q) ==
    /\ pc[q] = "get"
    /\ IF claim[req[q][1]] = None THEN InternalError(q) ELSE Goto(q, "lookup")
    /\ UNCHANGED <<direct, req, claim, table, state, sent, faults>>

\* The row GetJobByIdempotencyKey returns.
Found(q) == Matching(q)

LookupUnchecked(q) == \* seeded bug: a missing row is shown as it is
    /\ pc[q] = "lookup"
    /\ Answer(q, 200, q, state[q])
    /\ UNCHANGED <<direct, req, claim, table, state, sent, faults>>

\* GetJobByIdempotencyKey, with the type: no row is an internal error.
Lookup(q) ==
    /\ pc[q] = "lookup"
    /\ \/ Found(q) = {} /\ InternalError(q)
       \/ \E id \in Found(q) : Answer(q, 200, id, state[id])
    /\ UNCHANGED <<direct, req, claim, table, state, sent, faults>>

NoIndex(q) == {} \* seeded bug: SETNX alone guards the key

\* The rows the unique index holds against the INSERT.
Conflicting(q) == Matching(q)

\* INSERT, under the unique index on (idempotency_key, type).
CreateJob(q) ==
    /\ pc[q] = "insert"
    /\ IF Conflicting(q) # {}
       THEN InternalError(q) /\ UNCHANGED <<table, state>>
       ELSE /\ Goto(q, "publish")
            /\ table' = table \cup {q}
            /\ state' = [state EXCEPT ![q] = "ACCEPTED"]
    /\ UNCHANGED <<direct, req, claim, sent, faults>>

\* The INSERT is refused for its contents: the device is not registered.
\* The Redis key stays claimed.
CreateJobRejected(q) ==
    /\ pc[q] = "insert"
    /\ Fault("rejected")
    /\ InternalError(q)
    /\ UNCHANGED <<direct, req, claim, table, state, sent>>

Publish(q) ==
    /\ pc[q] = "publish"
    /\ Goto(q, "setQueued")
    /\ sent' = sent \cup {q}
    /\ UNCHANGED <<direct, req, claim, table, state, faults>>

QueuedAnyway(q) == Goto(q, "setQueued") \* seeded bug

\* The API answers 202 with the row as it was inserted, "so client doesn't
\* retry"; Submit returns the error, though the row exists.
AfterPublishError(q) == IF q \in direct THEN InternalError(q)
                                        ELSE Answer(q, 202, q, "ACCEPTED")

PublishFails(q) ==
    /\ pc[q] = "publish"
    /\ Fault("publish")
    /\ AfterPublishError(q)
    /\ sent' \in {sent, sent \cup {q}}
    /\ UNCHANGED <<direct, req, claim, table, state>>

SetQueued(q) ==
    /\ pc[q] = "setQueued"
    /\ state' = [state EXCEPT ![q] = "QUEUED"]
    /\ Answer(q, 202, q, "QUEUED")
    /\ UNCHANGED <<direct, req, claim, table, sent, faults>>

\* Redis or Postgres fails a call.
StoreFails(q) ==
    /\ pc[q] \in {"setnx", "get", "lookup", "insert", "setQueued"}
    /\ Fault("store")
    /\ IF pc[q] = "setQueued" THEN Answer(q, 202, q, "ACCEPTED")
                              ELSE InternalError(q)
    /\ UNCHANGED <<direct, req, claim, table, state, sent>>

\* The row is inserted and the answer lost: nobody goes on with the job.
InsertAnswerLost(q) ==
    /\ pc[q] = "insert" /\ Conflicting(q) = {}
    /\ Fault("store")
    /\ InternalError(q)
    /\ table' = table \cup {q}
    /\ state' = [state EXCEPT ![q] = "ACCEPTED"]
    /\ UNCHANGED <<direct, req, claim, sent>>

\* The pod stops in the middle of a request: the client gets no answer.
Crash(q) ==
    /\ pc[q] \notin {"new", "done"}
    /\ Fault("crash")
    /\ Goto(q, "done")
    /\ UNCHANGED <<direct, req, claim, table, state, sent>>

\* The 24 hours are over.  No request lasts that long.
Expire(k) ==
    /\ claim[k] # None
    /\ pc[claim[k]] = "done"
    /\ claim' = [claim EXCEPT ![k] = None]
    /\ UNCHANGED <<pc, direct, req, answer, table, state, sent, faults>>

-----------------------------------------------------------------------------

Init ==
    /\ pc = [q \in Requests |-> "new"]
    /\ direct = {}
    /\ req = [q \in Requests |-> <<>>]
    /\ answer = [q \in Requests |-> NoAnswer]
    /\ claim = [k \in Keys |-> None]
    /\ table = {}
    /\ state = [q \in Requests |-> "ABSENT"]
    /\ sent = {}
    /\ faults = 0

AllAnswered == (\A q \in Requests : pc[q] = "done") /\ UNCHANGED vars

Next ==
    \/ \E q \in Requests :
          \/ \E k \in Keys, t \in Types : Receive(q, k, t) \/ Submit(q, k, t)
          \/ SetNX(q) \/ Get(q) \/ Lookup(q) \/ CreateJob(q) \/ Publish(q)
          \/ SetQueued(q)
          \/ CreateJobRejected(q) \/ PublishFails(q) \/ StoreFails(q)
          \/ InsertAnswerLost(q) \/ Crash(q)
    \/ \E k \in Keys : Expire(k)
    \/ AllAnswered

Spec == Init /\ [][Next]_vars

-----------------------------------------------------------------------------
(* Properties.                                                             *)

\* Every variable has its type.
TypeOK ==
    /\ pc \in [Requests -> {"new", "setnx", "get", "lookup", "insert", "publish",
                            "setQueued", "done"}]
    /\ direct \subseteq Requests
    /\ req \in [Requests -> (Keys \X Types) \cup {<<>>}]
    /\ \A q \in Requests : pc[q] # "new" => req[q] # <<>>
    /\ answer \in [Requests -> [code : {0, 200, 202, 500},
                                job : Requests \cup {None},
                                state : {"none", "ACCEPTED", "QUEUED"}]]
    /\ claim \in [Keys -> Requests \cup {None}]
    /\ table \subseteq Requests
    /\ state \in [Requests -> {"ABSENT", "ACCEPTED", "QUEUED"}]
    /\ sent \subseteq Requests
    /\ faults \in Nat

Told(q) == answer[q].code \in {200, 202}

\* "Submit twice, get the same job_id": two requests with the same key and
\* type that were told of a job were told of the same one, through crashes,
\* failed calls and the expiry of the key in between.
SameKeySameJob ==
    \A p, q \in Requests :
        Told(p) /\ Told(q) /\ req[p] = req[q] => answer[p].job = answer[q].job

\* For one key and type at most one job's message is ever published.
OneMessagePerKey ==
    \A p, q \in sent : req[p] = req[q] => p = q

\* A key is wedged (claimed, its request over, no row for it) only after a
\* fault: in a healthy platform whoever loses the key finds the row in the end.
WedgedOnlyByFault ==
    \A k \in Keys :
        claim[k] # None /\ pc[claim[k]] = "done" /\ faults = 0
        => Matching(claim[k]) # {}

\* A client is shown QUEUED only for a job whose message is in Kafka.
QueuedIsTrue ==
    \A q \in Requests : answer[q].state = "QUEUED" => answer[q].job \in sent
=============================================================================
