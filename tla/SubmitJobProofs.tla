-------------------------- MODULE SubmitJobProofs --------------------------
(***************************************************************************)
(* Theorems about SubmitJob, for any requests, keys and types and whatever *)
(* faults: type correctness, one job per key and type, and answers that    *)
(* are true.                                                               *)
(*                                                                         *)
(* None of the properties is inductive.  What makes them so is where a     *)
(* request is when it has a row (RowsMatchCalls), that rows differ in key  *)
(* or type (RowsUnique), that whoever was told of a job was told of the    *)
(* row for its own key and type (AnswersMatchRows), and that a claimed key *)
(* has its claimer at or after the INSERT (ClaimersInsert).                *)
(***************************************************************************)
EXTENDS SubmitJob, TLAPS

\* A request has a row from its INSERT on, and a message from its publish on.
RowsMatchCalls ==
    \A q \in Requests :
        /\ q \in table => /\ pc[q] \in {"publish", "setQueued", "done"}
                          /\ state[q] # "ABSENT"
        /\ pc[q] \in {"publish", "setQueued"} => q \in table
        /\ pc[q] = "setQueued" => q \in sent
        /\ state[q] = "QUEUED" => q \in sent
        /\ q \in sent => q \in table

\* No two rows have the same key and type.
RowsUnique == \A p, q \in table : req[p] = req[q] => p = q

\* Requests under way have no answer, and answers name the row of their key.
AnswersMatchRows ==
    \A q \in Requests :
        /\ pc[q] # "done" => answer[q] = NoAnswer
        /\ Told(q) => answer[q].job \in table /\ req[answer[q].job] = req[q]

\* The claimer of a key is at the INSERT or past it; past it without a fault,
\* there is a row for its key and type.
ClaimersInsert ==
    \A k \in Keys :
        claim[k] # None =>
            /\ pc[claim[k]] \in {"insert", "publish", "setQueued", "done"}
            /\ pc[claim[k]] = "done" /\ faults = 0 => Matching(claim[k]) # {}

IInv == /\ TypeOK /\ RowsMatchCalls /\ RowsUnique /\ AnswersMatchRows
        /\ QueuedIsTrue /\ ClaimersInsert

LEMMA InitIInv == Init => IInv
BY SubmitAssumption DEF Init, IInv, TypeOK, RowsMatchCalls, RowsUnique, NoAnswer,
                        AnswersMatchRows, Told, QueuedIsTrue, ClaimersInsert

-----------------------------------------------------------------------------
(* Type correctness.                                                       *)

Shown == {"none", "ACCEPTED", "QUEUED"}

\* The conjuncts of TypeOK that speak of the calls and the answers.
CallsTyped ==
    /\ pc \in [Requests -> {"new", "setnx", "get", "lookup", "insert", "publish",
                            "setQueued", "done"}]
    /\ \A q \in Requests : pc[q] # "new" => req[q] # <<>>
    /\ answer \in [Requests -> [code : {0, 200, 202, 500},
                                job : Requests \cup {None},
                                state : {"none", "ACCEPTED", "QUEUED"}]]

\* An answer, and going to another call, keep them.
LEMMA AnswerTyped ==
    ASSUME TypeOK, NEW q \in Requests, pc[q] # "new", UNCHANGED req,
           NEW code \in {0, 200, 202, 500}, NEW job \in Requests \cup {None},
           NEW s \in Shown, Answer(q, code, job, s)
    PROVE  CallsTyped'
BY DEF TypeOK, CallsTyped, Answer, Shown

LEMMA ErrorTyped ==
    ASSUME TypeOK, NEW q \in Requests, pc[q] # "new", UNCHANGED req,
           InternalError(q)
    PROVE  CallsTyped'
BY AnswerTyped DEF InternalError, Shown

LEMMA GotoTyped ==
    ASSUME TypeOK, NEW q \in Requests, pc[q] # "new", UNCHANGED req,
           NEW to \in {"get", "lookup", "insert", "publish", "setQueued", "done"},
           Goto(q, to)
    PROVE  CallsTyped'
BY DEF TypeOK, CallsTyped, Goto

\* The steps of a request that is there already.
RequestStep(q) ==
    \/ SetNX(q) \/ Get(q) \/ Lookup(q) \/ CreateJob(q) \/ Publish(q)
    \/ SetQueued(q) \/ CreateJobRejected(q) \/ PublishFails(q) \/ StoreFails(q)
    \/ InsertAnswerLost(q) \/ Crash(q)

LEMMA ReceiveTypeOK ==
    ASSUME TypeOK, NEW q \in Requests, NEW k \in Keys, NEW t \in Types,
           Receive(q, k, t) \/ Submit(q, k, t)
    PROVE  TypeOK'
<1>1. /\ req' = [req EXCEPT ![q] = <<k, t>>]
      /\ pc' = [pc EXCEPT ![q] = "setnx"] \/ pc' = [pc EXCEPT ![q] = "insert"]
      /\ direct' = direct \/ direct' = direct \cup {q}
      /\ UNCHANGED <<answer, claim, table, state, sent, faults>>
  BY DEF Receive, Submit, Goto
<1>2. <<k, t>> \in Keys \X Types /\ <<k, t>> # <<>>
  OBVIOUS
<1> QED BY <1>1, <1>2 DEF TypeOK

LEMMA RequestTypeOK ==
    ASSUME TypeOK, RowsMatchCalls, NEW q \in Requests, RequestStep(q)
    PROVE  TypeOK'
<1>1. CASE SetNX(q)
  <2>1. CallsTyped'
    BY <1>1, GotoTyped DEF SetNX
  <2> QED BY <1>1, <2>1 DEF SetNX, TypeOK, CallsTyped
<1>2. CASE Get(q)
  <2>1. CallsTyped'
    BY <1>2, GotoTyped, ErrorTyped DEF Get
  <2> QED BY <1>2, <2>1 DEF Get, TypeOK, CallsTyped
<1>3. CASE Lookup(q)
  <2>1. ASSUME NEW id \in Found(q) PROVE id \in Requests /\ state[id] \in Shown
    BY DEF Found, Matching, RowsMatchCalls, TypeOK, Shown
  <2>2. CallsTyped'
    BY <1>3, <2>1, AnswerTyped, ErrorTyped DEF Lookup
  <2> QED BY <1>3, <2>2 DEF Lookup, TypeOK, CallsTyped
<1>4. CASE CreateJob(q)
  <2>1. CallsTyped'
    BY <1>4, GotoTyped, ErrorTyped DEF CreateJob
  <2> QED BY <1>4, <2>1 DEF CreateJob, TypeOK, CallsTyped
<1>5. CASE Publish(q)
  <2>1. CallsTyped'
    BY <1>5, GotoTyped DEF Publish
  <2> QED BY <1>5, <2>1 DEF Publish, TypeOK, CallsTyped
<1>6. CASE SetQueued(q)
  <2>1. CallsTyped'
    BY <1>6, AnswerTyped DEF SetQueued, Shown
  <2> QED BY <1>6, <2>1 DEF SetQueued, TypeOK, CallsTyped
<1>7. CASE CreateJobRejected(q)
  <2>1. CallsTyped'
    BY <1>7, ErrorTyped DEF CreateJobRejected
  <2> QED BY <1>7, <2>1 DEF CreateJobRejected, Fault, TypeOK, CallsTyped
<1>8. CASE PublishFails(q)
  <2>1. CallsTyped'
    BY <1>8, AnswerTyped, ErrorTyped DEF PublishFails, AfterPublishError, Shown
  <2> QED BY <1>8, <2>1 DEF PublishFails, Fault, TypeOK, CallsTyped
<1>9. CASE StoreFails(q)
  <2>1. CallsTyped'
    BY <1>9, AnswerTyped, ErrorTyped DEF StoreFails, Shown
  <2> QED BY <1>9, <2>1 DEF StoreFails, Fault, TypeOK, CallsTyped
<1>10. CASE InsertAnswerLost(q)
  <2>1. CallsTyped'
    BY <1>10, ErrorTyped DEF InsertAnswerLost
  <2>2. /\ table' = table \cup {q} /\ state' = [state EXCEPT ![q] = "ACCEPTED"]
        /\ faults' = faults + 1 /\ UNCHANGED <<direct, req, claim, sent>>
    BY <1>10 DEF InsertAnswerLost, Fault
  <2> QED BY <2>1, <2>2 DEF TypeOK, CallsTyped
<1>11. CASE Crash(q)
  <2>1. CallsTyped'
    BY <1>11, GotoTyped DEF Crash
  <2> QED BY <1>11, <2>1 DEF Crash, Fault, TypeOK, CallsTyped
<1> QED BY <1>1, <1>2, <1>3, <1>4, <1>5, <1>6, <1>7, <1>8, <1>9, <1>10, <1>11
        DEF RequestStep

LEMMA NextTypeOK ==
    ASSUME TypeOK, RowsMatchCalls, [Next]_vars
    PROVE  TypeOK'
<1>1. ASSUME NEW k \in Keys, Expire(k) PROVE TypeOK'
  BY <1>1 DEF Expire, TypeOK
<1>2. CASE UNCHANGED vars
  BY <1>2 DEF vars, TypeOK
<1> QED BY <1>1, <1>2, ReceiveTypeOK, RequestTypeOK
        DEF Next, AllAnswered, RequestStep

-----------------------------------------------------------------------------
(* One job per key and type.                                               *)

\* A request comes in: it has no row, nothing else knows of it.
LEMMA ReceiveRows ==
    ASSUME IInv, NEW q \in Requests, NEW k \in Keys, NEW t \in Types,
           Receive(q, k, t) \/ Submit(q, k, t)
    PROVE  RowsMatchCalls' /\ RowsUnique' /\ AnswersMatchRows' /\ QueuedIsTrue'
               /\ ClaimersInsert'
<1> USE DEF IInv
<1>1. /\ q \notin table
      /\ req' = [req EXCEPT ![q] = <<k, t>>]
      /\ pc' = [pc EXCEPT ![q] = "setnx"] \/ pc' = [pc EXCEPT ![q] = "insert"]
      /\ UNCHANGED <<answer, claim, table, state, sent, faults>>
      /\ pc[q] = "new"
  BY DEF Receive, Submit, Goto, RowsMatchCalls
<1>2. /\ \A p \in Requests \ {q} : req'[p] = req[p] /\ pc'[p] = pc[p]
      /\ pc'[q] \in {"setnx", "insert"}
  BY <1>1 DEF TypeOK
<1>3. RowsMatchCalls'
  BY <1>1, <1>2 DEF RowsMatchCalls
<1>4. RowsUnique'
  BY <1>1, <1>2 DEF RowsUnique, TypeOK
<1>5. AnswersMatchRows'
  <2> SUFFICES ASSUME NEW p \in Requests
               PROVE  /\ pc'[p] # "done" => answer[p] = NoAnswer
                      /\ Told(p) => /\ answer[p].job \in table
                                    /\ req'[answer[p].job] = req'[p]
    BY <1>1 DEF AnswersMatchRows, Told
  <2>1. CASE p = q
    BY <1>1, <2>1 DEF AnswersMatchRows, Told, NoAnswer
  <2>2. CASE p # q
    BY <1>1, <1>2, <2>2 DEF AnswersMatchRows, Told, TypeOK
  <2> QED BY <2>1, <2>2
<1>6. QueuedIsTrue'
  BY <1>1 DEF QueuedIsTrue
<1>7. ClaimersInsert'
  <2> SUFFICES ASSUME NEW l \in Keys, claim[l] # None
               PROVE  /\ pc'[claim[l]] \in {"insert", "publish", "setQueued", "done"}
                      /\ pc'[claim[l]] = "done" /\ faults = 0
                           => Matching(claim[l])' # {}
    BY <1>1 DEF ClaimersInsert
  <2>1. claim[l] \in Requests \ {q}
    BY <1>1 DEF ClaimersInsert, TypeOK
  <2>2. Matching(claim[l])' = Matching(claim[l])
    BY <1>1, <1>2, <2>1 DEF Matching, TypeOK
  <2> QED BY <1>2, <2>1, <2>2 DEF ClaimersInsert
<1> QED BY <1>3, <1>4, <1>5, <1>6, <1>7

\* What a request's step does to the calls and the answers: it goes to another
\* call, or answers and is over.
Goes(q, to) ==
    /\ pc'[q] = to /\ answer' = answer
    /\ \A p \in Requests \ {q} : pc'[p] = pc[p]

Ends(q, code, job, s) ==
    /\ pc'[q] = "done" /\ answer'[q] = [code |-> code, job |-> job, state |-> s]
    /\ \A p \in Requests \ {q} : pc'[p] = pc[p] /\ answer'[p] = answer[p]

LEMMA GotoGoes ==
    ASSUME TypeOK, NEW q \in Requests, NEW to, Goto(q, to) PROVE Goes(q, to)
BY DEF TypeOK, Goto, Goes

LEMMA AnswerEnds ==
    ASSUME TypeOK, NEW q \in Requests, NEW code, NEW job, NEW s,
           Answer(q, code, job, s)
    PROVE  Ends(q, code, job, s)
BY DEF TypeOK, Answer, Ends

\* A step that leaves the rows alone.
RowsStay == UNCHANGED <<req, table, state, sent>>

\* A request that ends, told of nothing or of the row of its key.
LEMMA EndsKeepsIInv ==
    ASSUME IInv, NEW q \in Requests, NEW code, NEW job, NEW s,
           Ends(q, code, job, s), pc[q] # "done",
           code \in {200, 202} => job \in table /\ req[job] = req[q],
           s = "QUEUED" => job \in sent,
           UNCHANGED <<req, table, state, claim>>, sent \subseteq sent',
           sent' \subseteq sent \cup {q}, sent' # sent => q \in table,
           faults' \in Nat, faults \in Nat, faults <= faults',
           \A k \in Keys : claim[k] = q /\ faults' = 0 => Matching(q) # {}
    PROVE  RowsMatchCalls' /\ RowsUnique' /\ AnswersMatchRows' /\ QueuedIsTrue'
               /\ ClaimersInsert'
<1> USE DEF IInv
<1>1. RowsMatchCalls'
  BY DEF RowsMatchCalls, Ends
<1>2. RowsUnique'
  BY DEF RowsUnique
<1>3. AnswersMatchRows'
  <2> SUFFICES ASSUME NEW p \in Requests
               PROVE  /\ pc'[p] # "done" => answer'[p] = NoAnswer
                      /\ answer'[p].code \in {200, 202}
                           => /\ answer'[p].job \in table
                              /\ req[answer'[p].job] = req[p]
    BY DEF AnswersMatchRows, Told
  <2>1. CASE p = q
    BY <2>1 DEF Ends
  <2>2. CASE p # q
    BY <2>2 DEF Ends, AnswersMatchRows, Told
  <2> QED BY <2>1, <2>2
<1>4. QueuedIsTrue'
  BY DEF QueuedIsTrue, Ends
<1>5. ClaimersInsert'
  <2> SUFFICES ASSUME NEW k \in Keys, claim[k] # None
               PROVE  /\ pc'[claim[k]] \in {"insert", "publish", "setQueued", "done"}
                      /\ pc'[claim[k]] = "done" /\ faults' = 0
                           => Matching(claim[k]) # {}
    BY DEF ClaimersInsert, Matching
  <2>1. claim[k] \in Requests
    BY DEF TypeOK
  <2>2. faults' = 0 => faults = 0
    OBVIOUS
  <2> QED BY <2>1, <2>2 DEF ClaimersInsert, Ends
<1> QED BY <1>1, <1>2, <1>3, <1>4, <1>5

\* A request that goes on without touching the rows.
LEMMA GoesKeepsIInv ==
    ASSUME IInv, NEW q \in Requests, NEW to, Goes(q, to), pc[q] # "done",
           to # "new", RowsStay, to \in {"publish", "setQueued"} => q \in table,
           to = "setQueued" => q \in sent,
           q \in table => to \in {"publish", "setQueued", "done"},
           UNCHANGED faults \/ (faults \in Nat /\ faults' = faults + 1),
           \A k \in Keys : claim'[k] \in {claim[k], q},
           \A k \in Keys : claim'[k] = q
               => /\ to \in {"insert", "publish", "setQueued", "done"}
                  /\ to # "done" \/ faults' # 0
    PROVE  RowsMatchCalls' /\ RowsUnique' /\ AnswersMatchRows' /\ QueuedIsTrue'
               /\ ClaimersInsert'
<1> USE DEF IInv, RowsStay
<1>1. RowsMatchCalls'
  BY DEF RowsMatchCalls, Goes
<1>2. RowsUnique'
  BY DEF RowsUnique
<1>3. AnswersMatchRows'
  BY DEF AnswersMatchRows, Goes, Told
<1>4. QueuedIsTrue'
  BY DEF QueuedIsTrue, Goes
<1>5. ClaimersInsert'
  <2> SUFFICES ASSUME NEW k \in Keys, claim'[k] # None
               PROVE  /\ pc'[claim'[k]] \in {"insert", "publish", "setQueued", "done"}
                      /\ pc'[claim'[k]] = "done" /\ faults' = 0
                           => Matching(claim'[k]) # {}
    BY DEF ClaimersInsert, Matching
  <2>1. CASE claim'[k] = q
    BY <2>1 DEF Goes
  <2>2. CASE claim'[k] # q
    <3>1. claim'[k] = claim[k] /\ claim[k] \in Requests
      BY <2>2 DEF TypeOK
    <3> QED BY <2>2, <3>1 DEF ClaimersInsert, Goes, TypeOK
  <2> QED BY <2>1, <2>2
<1> QED BY <1>1, <1>2, <1>3, <1>4, <1>5

Steady == RowsMatchCalls /\ RowsUnique /\ AnswersMatchRows /\ QueuedIsTrue
              /\ ClaimersInsert

\* A row is inserted: there was none with its key and type.
LEMMA InsertKeepsIInv ==
    ASSUME IInv, NEW q \in Requests, pc[q] = "insert", Matching(q) = {},
           table' = table \cup {q}, state' = [state EXCEPT ![q] = "ACCEPTED"],
           UNCHANGED <<req, claim, sent>>, faults' \in {faults, faults + 1},
           Goes(q, "publish") \/ Ends(q, 500, None, "none")
    PROVE  Steady'
<1> USE DEF IInv
<1>1. /\ pc'[q] \in {"publish", "done"}
      /\ \A p \in Requests \ {q} : pc'[p] = pc[p] /\ answer'[p] = answer[p]
      /\ \A p \in Requests \ {q} : state'[p] = state[p]
      /\ state'[q] = "ACCEPTED"
      /\ pc'[q] = "done" \/ answer'[q] = answer[q]
  BY DEF Goes, Ends, TypeOK
<1>2. q \notin table
  BY DEF RowsMatchCalls
<1>3. RowsMatchCalls'
  BY <1>1, <1>2 DEF RowsMatchCalls
<1>4. RowsUnique'
  <2>1. \A p \in table : req[p] # req[q]
    BY DEF Matching
  <2> QED BY <2>1 DEF RowsUnique
<1>5. AnswersMatchRows'
  <2>1. answer[q] = NoAnswer
    BY DEF AnswersMatchRows
  <2>2. ~Told(q)'
    BY <2>1 DEF Goes, Ends, Told, NoAnswer
  <2> QED BY <1>1, <2>1, <2>2 DEF AnswersMatchRows, Told
<1>6. QueuedIsTrue'
  <2>1. answer'[q].state # "QUEUED"
    BY DEF AnswersMatchRows, Goes, Ends, NoAnswer
  <2> QED BY <1>1, <2>1 DEF QueuedIsTrue
<1>7. ClaimersInsert'
  <2> SUFFICES ASSUME NEW k \in Keys, claim[k] # None
               PROVE  /\ pc'[claim[k]] \in {"insert", "publish", "setQueued", "done"}
                      /\ pc'[claim[k]] = "done" /\ faults' = 0
                           => Matching(claim[k])' # {}
    BY DEF ClaimersInsert
  <2>1. claim[k] \in Requests
    BY DEF TypeOK
  <2>2. Matching(claim[k]) \subseteq Matching(claim[k])'
    BY DEF Matching
  <2>3. q \in Matching(q)'
    BY DEF Matching
  <2>4. faults' = 0 => faults = 0
    BY DEF TypeOK
  <2> QED BY <1>1, <2>1, <2>2, <2>3, <2>4 DEF ClaimersInsert
<1> QED BY <1>3, <1>4, <1>5, <1>6, <1>7 DEF Steady

LEMMA PublishKeepsIInv ==
    ASSUME IInv, NEW q \in Requests, Publish(q)
    PROVE  Steady'
<1> USE DEF IInv
<1>1. Goes(q, "setQueued") /\ pc[q] = "publish" /\ q \in table
  BY GotoGoes DEF Publish, RowsMatchCalls
<1>2. UNCHANGED <<req, claim, table, state, faults>> /\ sent' = sent \cup {q}
  BY DEF Publish
<1>3. RowsMatchCalls'
  BY <1>1, <1>2 DEF RowsMatchCalls, Goes
<1>4. RowsUnique'
  BY <1>2 DEF RowsUnique
<1>5. AnswersMatchRows'
  BY <1>1, <1>2 DEF AnswersMatchRows, Goes, Told
<1>6. QueuedIsTrue'
  BY <1>1, <1>2 DEF QueuedIsTrue, Goes
<1>7. ClaimersInsert'
  BY <1>1, <1>2 DEF ClaimersInsert, Goes, Matching, TypeOK
<1> QED BY <1>3, <1>4, <1>5, <1>6, <1>7 DEF Steady

LEMMA SetQueuedKeepsIInv ==
    ASSUME IInv, NEW q \in Requests, SetQueued(q)
    PROVE  Steady'
<1> USE DEF IInv
<1>1. Ends(q, 202, q, "QUEUED") /\ pc[q] = "setQueued" /\ q \in table /\ q \in sent
  BY AnswerEnds DEF SetQueued, RowsMatchCalls
<1>2. /\ UNCHANGED <<req, claim, table, sent, faults>>
      /\ state'[q] = "QUEUED" /\ \A p \in Requests \ {q} : state'[p] = state[p]
  BY DEF SetQueued, TypeOK
<1>3. RowsMatchCalls'
  BY <1>1, <1>2 DEF RowsMatchCalls, Ends
<1>4. RowsUnique'
  BY <1>2 DEF RowsUnique
<1>5. AnswersMatchRows'
  BY <1>1, <1>2 DEF AnswersMatchRows, Ends, Told
<1>6. QueuedIsTrue'
  BY <1>1, <1>2 DEF QueuedIsTrue, Ends
<1>7. ClaimersInsert'
  <2>1. q \in Matching(q)
    BY <1>1 DEF Matching
  <2> QED BY <1>1, <1>2, <2>1 DEF ClaimersInsert, Ends, Matching, TypeOK
<1> QED BY <1>3, <1>4, <1>5, <1>6, <1>7 DEF Steady

\* The steps that leave the rows alone are instances of EndsKeepsIInv and
\* GoesKeepsIInv.
LEMMA RequestKeepsIInv ==
    ASSUME IInv, NEW q \in Requests, RequestStep(q)
    PROVE  Steady'
<1> USE DEF IInv
<1>1. CASE SetNX(q)
  <2>1. \A k \in Keys : claim[k] # q
    BY <1>1, SubmitAssumption DEF SetNX, ClaimersInsert, TypeOK
  <2>2. CASE Goto(q, "insert")
    BY <1>1, <2>1, <2>2, GotoGoes, GoesKeepsIInv
       DEF SetNX, RowsStay, RowsMatchCalls, TypeOK, Steady
  <2>3. CASE Goto(q, "get") /\ UNCHANGED claim
    BY <1>1, <2>1, <2>3, GotoGoes, GoesKeepsIInv
       DEF SetNX, RowsStay, RowsMatchCalls, Steady
  <2> QED BY <1>1, <2>2, <2>3 DEF SetNX
<1>2. CASE Get(q)
  <2>1. \A k \in Keys : claim[k] # q
    BY <1>2, SubmitAssumption DEF Get, ClaimersInsert, TypeOK
  <2>2. CASE Goto(q, "lookup")
    BY <1>2, <2>1, <2>2, GotoGoes, GoesKeepsIInv
       DEF Get, RowsStay, RowsMatchCalls, Steady
  <2>3. CASE InternalError(q)
    BY <1>2, <2>1, <2>3, AnswerEnds, EndsKeepsIInv
       DEF Get, InternalError, TypeOK, Steady
  <2> QED BY <1>2, <2>2, <2>3 DEF Get
<1>3. CASE Lookup(q)
  <2>1. \A k \in Keys : claim[k] # q
    BY <1>3, SubmitAssumption DEF Lookup, ClaimersInsert, TypeOK
  <2>2. CASE InternalError(q)
    BY <1>3, <2>1, <2>2, AnswerEnds, EndsKeepsIInv
       DEF Lookup, InternalError, TypeOK, Steady
  <2>3. ASSUME NEW id \in Found(q), Answer(q, 200, id, state[id]) PROVE Steady'
    <3>1. id \in table /\ req[id] = req[q] /\ (state[id] = "QUEUED" => id \in sent)
      BY DEF Found, Matching, RowsMatchCalls, TypeOK
    <3>2. Ends(q, 200, id, state[id])
      BY <2>3, AnswerEnds
    <3> QED BY <1>3, <2>1, <3>1, <3>2, EndsKeepsIInv DEF Lookup, TypeOK, Steady
  <2> QED BY <1>3, <2>2, <2>3 DEF Lookup
<1>4. CASE CreateJob(q)
  <2>1. CASE Conflicting(q) # {}
    <3>1. Ends(q, 500, None, "none")
      BY <1>4, <2>1, AnswerEnds DEF CreateJob, InternalError
    <3> QED BY <1>4, <2>1, <3>1, EndsKeepsIInv DEF CreateJob, Conflicting, TypeOK, Steady
  <2>2. CASE Conflicting(q) = {}
    <3>1. Goes(q, "publish")
      BY <1>4, <2>2, GotoGoes DEF CreateJob
    <3> QED BY <1>4, <2>2, <3>1, InsertKeepsIInv DEF CreateJob, Conflicting
  <2> QED BY <2>1, <2>2
<1>5. CASE Publish(q)
  BY <1>5, PublishKeepsIInv
<1>6. CASE SetQueued(q)
  BY <1>6, SetQueuedKeepsIInv
<1>7. CASE CreateJobRejected(q)
  <2>1. Ends(q, 500, None, "none") /\ faults' = faults + 1
    BY <1>7, AnswerEnds DEF CreateJobRejected, InternalError, Fault
  <2> QED BY <1>7, <2>1, EndsKeepsIInv DEF CreateJobRejected, TypeOK, Steady
<1>8. CASE PublishFails(q)
  <2>1. q \in table
    BY <1>8 DEF PublishFails, RowsMatchCalls
  <2>2. faults' = faults + 1 /\ faults \in Nat
    BY <1>8 DEF PublishFails, Fault, TypeOK
  <2>3. Ends(q, 500, None, "none") \/ Ends(q, 202, q, "ACCEPTED")
    BY <1>8, AnswerEnds DEF PublishFails, AfterPublishError, InternalError
  <2> QED BY <1>8, <2>1, <2>2, <2>3, EndsKeepsIInv DEF PublishFails, Steady
<1>9. CASE StoreFails(q)
  <2>1. faults' = faults + 1 /\ faults \in Nat
    BY <1>9 DEF StoreFails, Fault, TypeOK
  <2>2. CASE pc[q] = "setQueued"
    <3>1. Ends(q, 202, q, "ACCEPTED") /\ q \in table
      BY <1>9, <2>2, AnswerEnds DEF StoreFails, RowsMatchCalls
    <3> QED BY <1>9, <2>1, <2>2, <3>1, EndsKeepsIInv DEF StoreFails, Steady
  <2>3. CASE pc[q] # "setQueued"
    <3>1. Ends(q, 500, None, "none")
      BY <1>9, <2>3, AnswerEnds DEF StoreFails, InternalError
    <3> QED BY <1>9, <2>1, <3>1, EndsKeepsIInv DEF StoreFails, Steady
  <2> QED BY <2>2, <2>3
<1>10. CASE InsertAnswerLost(q)
  <2>1. Ends(q, 500, None, "none")
    BY <1>10, AnswerEnds DEF InsertAnswerLost, InternalError
  <2>2. /\ pc[q] = "insert" /\ Matching(q) = {} /\ faults' = faults + 1
        /\ table' = table \cup {q} /\ state' = [state EXCEPT ![q] = "ACCEPTED"]
        /\ UNCHANGED <<req, claim, sent>>
    BY <1>10 DEF InsertAnswerLost, Conflicting, Fault
  <2> QED BY <2>1, <2>2, InsertKeepsIInv
<1>11. CASE Crash(q)
  <2>1. Goes(q, "done") /\ faults' = faults + 1 /\ faults \in Nat
    BY <1>11, GotoGoes DEF Crash, Fault, TypeOK
  <2> QED BY <1>11, <2>1, GoesKeepsIInv DEF Crash, RowsStay, Steady, TypeOK
<1> QED BY <1>1, <1>2, <1>3, <1>4, <1>5, <1>6, <1>7, <1>8, <1>9, <1>10, <1>11
        DEF RequestStep

LEMMA NextIInv ==
    ASSUME IInv, [Next]_vars
    PROVE  IInv'
<1> USE DEF IInv
<1>1. TypeOK'
  BY NextTypeOK
<1>2. ASSUME NEW q \in Requests, RequestStep(q) PROVE Steady'
  BY <1>2, RequestKeepsIInv
<1>3. ASSUME NEW q \in Requests, NEW k \in Keys, NEW t \in Types,
             Receive(q, k, t) \/ Submit(q, k, t)
      PROVE  Steady'
  BY <1>3, ReceiveRows DEF Steady
<1>4. ASSUME UNCHANGED <<pc, req, answer, table, state, sent, faults>>,
             \A k \in Keys : claim'[k] \in {claim[k], None}
      PROVE  Steady'
  <2>1. RowsMatchCalls' /\ RowsUnique' /\ QueuedIsTrue'
    BY <1>4 DEF RowsMatchCalls, RowsUnique, QueuedIsTrue
  <2>2. AnswersMatchRows'
    BY <1>4 DEF AnswersMatchRows, Told
  <2>3. ClaimersInsert'
    BY <1>4 DEF ClaimersInsert, Matching
  <2> QED BY <2>1, <2>2, <2>3 DEF Steady
<1>5. ASSUME NEW k \in Keys, Expire(k) PROVE Steady'
  <2>1. \A l \in Keys : claim'[l] \in {claim[l], None}
    BY <1>5 DEF Expire, TypeOK
  <2>2. UNCHANGED <<pc, req, answer, table, state, sent, faults>>
    BY <1>5 DEF Expire
  <2> QED BY <1>4, <2>1, <2>2
<1>6. ASSUME UNCHANGED vars PROVE Steady'
  <2>1. \A l \in Keys : claim'[l] \in {claim[l], None}
    BY <1>6 DEF vars
  <2>2. UNCHANGED <<pc, req, answer, table, state, sent, faults>>
    BY <1>6 DEF vars
  <2> QED BY <1>4, <2>1, <2>2
<1>7. Steady'
  BY <1>2, <1>3, <1>5, <1>6 DEF Next, AllAnswered, RequestStep
<1> QED BY <1>1, <1>7 DEF Steady

LEMMA SpecIInv == Spec => []IInv
BY InitIInv, NextIInv, PTL DEF Spec

\* Every variable has its type, whatever fails and however many requests.
THEOREM SubmitTypeCorrect == Spec => []TypeOK
<1>1. IInv => TypeOK
  BY DEF IInv
<1> QED BY <1>1, SpecIInv, PTL

\* Two requests with the same key and type are told of the same job, through
\* crashes, failed calls and the expiry of the key.
THEOREM SameJobForAKey == Spec => []SameKeySameJob
<1>1. IInv => SameKeySameJob
  <2> SUFFICES ASSUME IInv, NEW p \in Requests, NEW q \in Requests,
                      Told(p), Told(q), req[p] = req[q]
               PROVE  answer[p].job = answer[q].job
    BY DEF SameKeySameJob
  <2> QED BY DEF IInv, AnswersMatchRows, RowsUnique
<1> QED BY <1>1, SpecIInv, PTL

\* One message at most is published for a key and type.
THEOREM OneMessageForAKey == Spec => []OneMessagePerKey
<1>1. IInv => OneMessagePerKey
  BY DEF IInv, OneMessagePerKey, RowsMatchCalls, RowsUnique, TypeOK
<1> QED BY <1>1, SpecIInv, PTL

\* Whoever is shown QUEUED has a message in Kafka.
THEOREM QueuedMeansSent == Spec => []QueuedIsTrue
<1>1. IInv => QueuedIsTrue
  BY DEF IInv
<1> QED BY <1>1, SpecIInv, PTL

\* Without a fault no key stays claimed without a row behind it.
THEOREM KeysWedgeByFault == Spec => []WedgedOnlyByFault
<1>1. IInv => WedgedOnlyByFault
  BY DEF IInv, WedgedOnlyByFault, ClaimersInsert
<1> QED BY <1>1, SpecIInv, PTL
=============================================================================
