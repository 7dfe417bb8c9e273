---------------------------- MODULE RetryRouter ----------------------------
(***************************************************************************)
(* cmd/retry-router with what JobPipeline leaves out: the offsets of one   *)
(* partition of jobs.<tier>.retry, the reader's position against the       *)
(* committed offset, and the time at which a retry is due.                 *)
(*                                                                         *)
(* Time is counted in ticks, TicksPerSecond of them to the second, because *)
(* the retry-at header holds whole seconds.                                *)
(***************************************************************************)
EXTENDS Naturals, Sequences, FiniteSets

CONSTANTS TicksPerSecond,
          Attempts,     \* the attempt numbers workers retry with
          MaxMessages,  \* bound: messages appended
          MaxTime,      \* bound: the last tick at which one is appended
          FaultKinds, MaxFaults

ASSUME RouterAssumption ==
    /\ TicksPerSecond \in Nat \ {0}
    /\ Attempts \subseteq Nat \ {0}
    /\ MaxMessages \in Nat /\ MaxTime \in Nat /\ MaxFaults \in Nat
    /\ FaultKinds \subseteq {"crash", "commit", "publish"}

VARIABLES
    now,
    log,        \* the partition: for each offset, when its retry is due
    position,   \* the offset the reader fetches next
    committed,  \* the last offset committed: a new reader starts after it
    pc, held,   \* the next call of drain, and the offset it works on
    out,        \* what was republished, in order: offset and tick
    refused,    \* history: the offsets whose publish failed
    faults

vars == <<now, log, position, committed, pc, held, out, refused, faults>>

Fault(kind) == kind \in FaultKinds /\ faults < MaxFaults /\ faults' = faults + 1

-----------------------------------------------------------------------------
(* The worker's side: sendToRetry with internal/retry.                     *)

\* 5^(attempt-1) seconds times a jitter in [0.5, 1.5).
Delay(attempt) ==
    LET base == 5 ^ (attempt - 1) * TicksPerSecond
    IN  (base + 1) \div 2 .. (3 * base - 1) \div 2

\* A fact about powers of 5 that the provers do not know.
ASSUME DelayAssumption == \A attempt \in Attempts : Delay(attempt) \subseteq Nat

\* time.Time.Unix(): the fraction of the second is cut off.
Unix(t) == TicksPerSecond * (t \div TicksPerSecond)

SendToRetry(attempt) ==
    /\ Len(log) < MaxMessages
    /\ now <= MaxTime
    /\ \E d \in Delay(attempt) : log' = Append(log, now + d)
    /\ UNCHANGED <<now, position, committed, pc, held, out, refused, faults>>

-----------------------------------------------------------------------------
(* Seeded bugs: forms the actions of drain could have had.  They are not in *)
(* Next: put in place of the action, each must break one of the properties. *)

\* The offset is committed when the message is fetched.
FetchAndCommit ==
    /\ pc = "fetch" /\ position <= Len(log)
    /\ pc' = "wait" /\ held' = position /\ position' = position + 1
    /\ committed' = position
    /\ UNCHANGED <<now, log, out, refused, faults>>

\* The header is not looked at.
WakeAtOnce ==
    /\ pc = "wait" /\ pc' = "publish"
    /\ UNCHANGED <<now, log, position, committed, held, out, refused, faults>>

\* No message is ever committed.
CommitNothing ==
    /\ pc = "commit" /\ pc' = "fetch" /\ held' = 0
    /\ UNCHANGED <<now, log, position, committed, out, refused, faults>>

\* A new reader starts at the latest offset ...
RestartAtLatest ==
    /\ Fault("crash")
    /\ pc' = "fetch" /\ held' = 0
    /\ UNCHANGED <<now, log, position, committed, out, refused>>

\* ... or at the committed message itself.
RestartAtCommitted ==
    /\ Fault("crash")
    /\ pc' = "fetch" /\ held' = 0
    /\ position' = committed
    /\ UNCHANGED <<now, log, committed, out, refused>>

-----------------------------------------------------------------------------
(* drain.                                                                  *)

FetchMessage ==
    /\ pc = "fetch"
    /\ position <= Len(log)
    /\ pc' = "wait" /\ held' = position /\ position' = position + 1
    /\ UNCHANGED <<now, log, committed, out, refused, faults>>

\* Sleep until retry-at; not at all when that is past.
Wake ==
    /\ pc = "wait"
    /\ now >= Unix(log[held])
    /\ pc' = "publish"
    /\ UNCHANGED <<now, log, position, committed, held, out, refused, faults>>

Publish ==
    /\ pc = "publish"
    /\ pc' = "commit"
    /\ out' = Append(out, [offset |-> held, at |-> now])
    /\ UNCHANGED <<now, log, position, committed, held, refused, faults>>

\* Logged, and on to the next message: the reader's position is past this one.
\* The broker may have appended it all the same.
PublishFails ==
    /\ pc = "publish"
    /\ Fault("publish")
    /\ pc' = "fetch" /\ held' = 0
    /\ out' \in {out, Append(out, [offset |-> held, at |-> now])}
    /\ refused' = refused \cup {held}
    /\ UNCHANGED <<now, log, position, committed>>

CommitMessage ==
    /\ pc = "commit"
    /\ pc' = "fetch" /\ held' = 0
    /\ committed' = held
    /\ UNCHANGED <<now, log, position, out, refused, faults>>

\* Logged: the next commit covers this offset too.
CommitFails ==
    /\ pc = "commit"
    /\ Fault("commit")
    /\ pc' = "fetch" /\ held' = 0
    /\ UNCHANGED <<now, log, position, committed, out, refused>>

\* The pod restarts, or loses the partition: the next reader starts at the
\* first offset that was not committed.
Restart ==
    /\ Fault("crash")
    /\ pc' = "fetch" /\ held' = 0
    /\ position' = committed + 1
    /\ UNCHANGED <<now, log, committed, out, refused>>

-----------------------------------------------------------------------------

\* The clock runs as long as a message may come or is not due yet.
Tick == /\ \/ now < MaxTime /\ Len(log) < MaxMessages
           \/ \E i \in DOMAIN log : now < log[i]
        /\ now' = now + 1
        /\ UNCHANGED <<log, position, committed, pc, held, out, refused, faults>>

Init ==
    /\ now = 0
    /\ log = <<>>
    /\ position = 1 /\ committed = 0
    /\ pc = "fetch" /\ held = 0
    /\ out = <<>>
    /\ refused = {}
    /\ faults = 0

DrainStep == FetchMessage \/ Wake \/ Publish \/ CommitMessage

\* Every message was fetched and the topic is drained: only then may it stop.
Drained == pc = "fetch" /\ position > Len(log) /\ UNCHANGED vars

Next == \/ \E a \in Attempts : SendToRetry(a)
        \/ DrainStep
        \/ PublishFails \/ CommitFails \/ Restart
        \/ Tick
        \/ Drained

Spec == Init /\ [][Next]_vars

\* The clock runs and the goroutine takes its next call when it can.
FairSpec == Spec /\ WF_vars(Tick) /\ WF_vars(DrainStep)

-----------------------------------------------------------------------------
(* Properties.                                                             *)

Times(i) == {k \in DOMAIN out : out[k].offset = i}

\* Every variable has its type.
TypeOK ==
    /\ now \in Nat /\ faults \in Nat
    /\ log \in Seq(Nat)
    /\ position \in 1 .. Len(log) + 1
    /\ committed \in 0 .. Len(log)
    /\ pc \in {"fetch", "wait", "publish", "commit"}
    /\ held \in 0 .. Len(log) /\ (held = 0 <=> pc = "fetch")
    /\ out \in Seq([offset : 1 .. Len(log), at : Nat])
    /\ refused \subseteq DOMAIN log

\* An offset is committed only over messages that went back to the tier's
\* topic: "Don't commit - let it redeliver" (cmd/retry-router, drain).
CommittedWasRepublished ==
    \A i \in 1 .. committed : Times(i) # {}

\* Restarts and failed commits skip no message: an offset is committed over a
\* message that was not republished only if the broker refused its publish.
LostOnlyIfRefused ==
    \A i \in 1 .. committed : Times(i) # {} \/ i \in refused

\* The wait honours the backoff: a retry comes back less than a second before
\* the time the worker chose for it (the header drops the fraction).
BackoffHonoured ==
    \A k \in DOMAIN out : out[k].at + TicksPerSecond > log[out[k].offset]

\* Repeats have a cause each: the router republishes a message again only
\* after a restart or a failed commit.
RepeatsBounded ==
    Len(out) <= Cardinality({out[k].offset : k \in DOMAIN out}) + faults

Service == INSTANCE JobService
               WITH Jobs    <- 1 .. MaxMessages,
                    owed    <- {i \in DOMAIN log : i >= position}
                                 \cup (IF pc \in {"wait", "publish"} THEN {held} ELSE {}),
                    settled <- {i \in DOMAIN log : Times(i) # {}} \cup refused

\* The router forwards at least once: no message leaves the retry topic or the
\* router's hands before it was republished (or its publish refused), and every
\* one is in the end, whatever waits in front of it.
ForwardsAtLeastOnce == Service!FairSpec
=============================================================================
