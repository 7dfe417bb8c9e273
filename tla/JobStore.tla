------------------------------ MODULE JobStore ------------------------------
(***************************************************************************)
(* The row of a job in Postgres and the queries that change it, with the   *)
(* state machine internal/jobs declares for it.  A query is a pure         *)
(* operator from the row before to the row after: each is one autocommitted *)
(* SQL statement, so a caller applies one of them per step.                *)
(*                                                                         *)
(* heartbeat_at is abstracted to what the reaper's scan can tell apart:    *)
(* SQL NULL, younger than the staleness interval, or older.                *)
(***************************************************************************)
EXTENDS Naturals

States == {"ACCEPTED", "QUEUED", "RUNNING", "SUCCESS", "FAILED", "RETRY"}

Heartbeats == {"NULL", "fresh", "stale"}

\* ABSENT stands for the row before its INSERT.
Row == [state : States \cup {"ABSENT"}, attempts : Nat, heartbeat : Heartbeats]

NoRow == [state |-> "ABSENT", attempts |-> 0, heartbeat |-> "NULL"]

-----------------------------------------------------------------------------
(* The declared state machine: internal/jobs/state.go.                     *)

validTransitions ==
    [ACCEPTED |-> {"QUEUED", "FAILED"},
     QUEUED   |-> {"RUNNING", "FAILED"},
     RUNNING  |-> {"SUCCESS", "FAILED", "RETRY"},
     RETRY    |-> {"QUEUED", "FAILED"},
     SUCCESS  |-> {},
     FAILED   |-> {}]

Transition(from, to) == from \in States /\ to \in validTransitions[from]

IsTerminal(s) == s \in {"SUCCESS", "FAILED"}

-----------------------------------------------------------------------------
(* The queries.                                                            *)

\* INSERT ... 'ACCEPTED': attempts takes its default, heartbeat_at is NULL.
CreateJob == [state |-> "ACCEPTED", attempts |-> 0, heartbeat |-> "NULL"]

UpdateIfLawful(row, s) == \* seeded bug: refused unless Transition allows it
    IF Transition(row.state, s) THEN [row EXCEPT !.state = s] ELSE row

\* UPDATE jobs SET state = s: no guard on the state it overwrites, and
\* heartbeat_at keeps what an earlier run left there.
UpdateJobState(row, s) == [row EXCEPT !.state = s]

IncrementNothing(row) == row \* seeded bug
IncrementJobAttempts(row) == [row EXCEPT !.attempts = @ + 1]

\* The worker's UPDATE jobs SET heartbeat_at = NOW(), whatever the state.
Beat(row) == [row EXCEPT !.heartbeat = "fresh"]

\* The WHERE clause of ReapStaleJobs: NULL < t is not true in SQL.
IsStale(row) == row.state = "RUNNING" /\ row.heartbeat = "stale"

RequeueUncounted(row) == \* seeded bug
    [state |-> "QUEUED", attempts |-> row.attempts, heartbeat |-> "NULL"]

\* Again without a guard on the state: the row may have moved on since the
\* scan that picked it.
RequeueJob(row) ==
    [state |-> "QUEUED", attempts |-> row.attempts + 1, heartbeat |-> "NULL"]
=============================================================================
