# processing-platform: verification project

The repository is a job platform for devices: an API accepts jobs, Postgres
holds a row per job, Kafka carries a message per job to the workers of a tier,
and a retry router and a reaper bring failed and abandoned jobs back. This
directory holds TLA+ models of its core, the TLC configurations that check them
on small instances, and theorems that TLAPS checks for every value of the
constants. `PROJECT.json` lists components, runs, hazards, findings, theorems
and, under `map`, the source lines each definition stands for.

Run a check with `tlc -config pipeline_live.cfg MCJobPipeline` and a proof with
`tlapm JobPipelineProofs.tla`.

## Inventory

| Part | State | Operations | Hard behaviour |
|---|---|---|---|
| jobs table (`migrations`, `internal/store/db`, `internal/jobs`) | a row per job: state, attempts, heartbeat_at | CreateJob, UpdateJobState, IncrementJobAttempts, RequeueJob, ReapStaleJobs, GetJob | every query is its own transaction; UpdateJobState does not look at the state it overwrites, and `jobs.Transition` is called only by its tests |
| API (`cmd/api`) | none of its own | `submitJob`: Acquire, lookup or INSERT, publish, QUEUED | four calls to three stores, each may fail or be the last one |
| idempotency (`internal/idempotency`) | Redis key per idempotency key, 24 h | SETNX, GET | key without type, claimed before the row exists, never released |
| jobsubmitter (`internal/jobsubmitter`) | none | `Submit`: INSERT, publish, QUEUED | no Redis key; errors after the INSERT leave the row |
| worker (`internal/worker`, `cmd/worker-*`) | the message in hand, `job` as read | fetch, GetJob, RUNNING, handler with heartbeat, SUCCESS / retry / DLQ, commit | redelivery at any call, stale `attempts`, heartbeat of an earlier run, commit after any error |
| Kafka topics `jobs.<tier>`, `.retry`, `jobs.dlq` (`internal/kafka`) | messages, committed offsets | publish, fetch, commit | at-least-once, rebalances |
| retry router (`cmd/retry-router`, `internal/retry`) | reader position | fetch, sleep until retry-at, republish, commit | restart between publish and commit, failed publish, order at the head of the partition |
| reaper (`cmd/reaper`) | the batch of a scan | ReapStaleJobs, RequeueJob, publish | several replicas, rows that move between scan and requeue |
| handlers (`internal/handlers`) | task tables, devices | five job types | re-execution; a health check submits another job |
| ingestion (`cmd/ingestion`) | the broker's session per pod | MQTT message to `Submit`, acknowledged afterwards | key by minute of processing, redelivery, two pods that hear the same, restarts of pod and broker |
| lag exporter (`cmd/kafka-lag-exporter`) | a gauge per partition | `collectOne`: ListOffsets, OffsetFetch, Set | offsets of different moments, -1 for no offset and for an error |
| lag cache and middleware (`internal/lagcache`) | lag per topic | `refresh`, `Get`, 503 | as old as three pollers make it, missing series |
| simulators, mocks, observability, deploy, web | - | - | test tools (what the device and the receiver answer is modelled), metrics, configuration |

How they interact: the API and the Submitter write the row and publish; workers
read the row, write it and publish to the retry topic or to jobs.dlq; the router
moves messages back; the reaper reads and writes rows and publishes. Ingestion
turns MQTT messages into submissions. The exporter reads the topics' offsets,
Prometheus the exporter, the lag cache Prometheus, and the API's middleware the
lag cache; a tier over its threshold gets 503. Nobody
holds a lock across two calls, so any two of these processes interleave between
any two calls. What makes the whole correct is that a job that was published
gets an outcome, that its row tells that outcome, that it is executed again
only for a cause, that one submission is one job and no sample is lost on the
way to one, and that the API stops admitting exactly when a tier stays backed up.

## Modules

`JobStore` is the row and the queries, as operators from a row to a row, with
the declared state machine. heartbeat_at is NULL, fresh or stale, which is all
the reaper's WHERE can tell apart.

`JobPipeline` extends it with the processes. A process takes one step per call
to Postgres or Kafka; its pc names the next call (`wpc[w] = "setRetry"` is the
UpdateJobState of `sendToRetry`). `seen` is `job.Attempts` as GetJob returned
it. A topic is a bag of the copies no consumer holds, `owns[w]` says whether the
worker still has the partition of the copy it works on: a crash returns an owned
copy to the topic, a rebalance does so while the worker goes on with it.

| Code | Actions |
|---|---|
| `submitJob` after the key check | InsertJob, PublishJob, SetQueued, and the two failing ways out |
| `Run`, `processOne` | FetchMessage, GetJob, SetRunning, HandlerSucceeds, HandlerFails, SetSuccess, CommitMessage |
| `sendToRetry` | PublishRetry, SetRetry, IncrementAttempts |
| `sendToDLQ` | PublishDLQ, SetFailed |
| `startHeartbeat` | Heartbeat, HeartbeatAges (time passing) |
| `drain` | FetchRetry, Republish, CommitRetry, RepublishFails |
| `scanOnce`, `requeue` | ReapStaleJobs, Requeue, PublishRequeued and their failures |
| faults | WorkerQueryFails, WorkerPublishFails, WorkerCrashes, Rebalance, RouterCrashes, ReaperCrashes |

Five history variables (`fails`, `succeeded`, `requeues`, `republished`,
`overtaken`) are read by no action; properties use them. `overtaken` holds the
jobs for which a QUEUED or RETRY write came after the message published just
before it was already at work on.

`JobService` is what the platform promises with none of this in sight: it owes
jobs, settles them, and stops owing one only when it is settled.
`JobPipeline!Service` and `RetryRouter!Service` are the refinement mappings.

`RetryRouter` is `drain` alone with what the pipeline leaves out: offsets (the
reader's position against the committed offset) and time (the jitter of
`retry.Delay`, the retry-at header in whole seconds, the sleep).

`SubmitJob` is `submitJob` with Redis and the unique index, and `Submit` beside
it: requests run concurrently, one step per call.

`DeviceJobs` opens the handler, which JobPipeline keeps closed: the jobs of one
device and tier, the five handlers call by call, what they write (`rows`,
`recorded`) and what the device, the webhook receiver and Kafka get (`installed`,
`effects`). Around the handler the worker's calls are one step on either side.
It also has what a bag cannot show, the order of a partition: the first message
of a job is keyed by its device, a retry by the job, so that a retry comes back
in any partition (`Forward`). A call to the device may be refused, or time out
after the device has done it (`Answers`); these need no fault. A health check's
`CreateJob` and `Publish` are those of the Submitter; the alert job is then run
like any other. `missed`, `overlapped`, `blocked`, `order` and `executed` are
history.

`Ingestion` is composed with `SubmitJob`: a call of `handleMessage` is a request
whose key is the minute, and its steps are those of `Submit` (`SubmitStep`,
`HandlerLoses`). Above them it has the broker: `session[c]` is what the broker
holds for pod c, `status[c]` whether the pod has subscribed. `Ack` follows the
handler whatever it returned; `Disconnect` loses the acknowledgement,
`Restart` replaces a pod (a new random client id, hence a new session, and
`Subscribe` again), `BrokerRestarts` empties a broker that keeps nothing on disk
(`deploy/helm/.../mosquitto/templates/configmap.yaml:9`) and leaves its clients connected but
subscribed to nothing. `PublishSample` is the device. `heard` and `excused` are
history. `Submissions` is the refinement: what ingestion does to the row, the
key and the topic is what a submitter may do.

`Backpressure` is the chain from a topic's offsets to the 503, every link with
its own pace: `ListOffsets`, `OffsetFetch` and `SetGauge` are `collectOne` call
by call and partition by partition, `Scrape` is Prometheus, `Refresh` is
`LagCache.refresh`, `PostJob` the middleware, `SubmitJob` the publish of a
request it let through; `PublishUnasked` stands for the producers that do not
ask. A failed query of Prometheus, or a refused request, changes nothing and is
no step. An offset that could not be had is -1, as in the client library.
`low` and `garbled` are history.

`MCJobPipeline`, `MCSubmitJob`, `MCIngestion` and `MCDeviceJobs` add the symmetry
of the model values; `Backpressure` and `RetryRouter` are run as they are.
The modules named `...Proofs` hold the theorems.

A definition commented "seeded bug" is a form its neighbour could have had
(a counter not incremented, a guard left out). Nothing uses it. Put in its
neighbour's place it must break the property `mutants` names; this is how each
property is known to depend on the code.

## Runs

| Run | Instance | Shows |
|---|---|---|
| pipeline_live | 1 job, 2 workers, max_attempts 2, one crash or rebalance | NoLostJob, EventuallySettled, ImplementsService |
| pipeline_faults | 1 job, 2 workers, 1 reaper, max_attempts 2, one fault of any kind | TypeOK, OutcomeHasEvidence, DeadLetterEarned, FailuresBounded, RowTellsOutcome, LawfulUnlessOvertaken |
| pipeline_reapers | 1 job, 2 workers, max_attempts 1, 2 reapers, two faults of any kind | ReaperGivesUp, NoUncausedDuplicate |
| ingestion | 2 samples, 2 pods, 4 requests, 2 minutes, two outages and a fault | IngestionTypeOK, NoSampleLost, DuplicatesHaveCause, Submissions |
| backpressure | 2 partitions, threshold 2, 3 messages, a fault | TypeOK, NeverOverreports, FailsOpenOnlyByFault, BacklogIsNoticed, AdmitsAgain |
| submit_job | 3 requests, 2 keys, 2 types, two faults | TypeOK, SameKeySameJob, OneMessagePerKey, WedgedOnlyByFault, QueuedIsTrue |
| retry_router | 2 messages, half-second ticks, two faults | TypeOK, LostOnlyIfRefused, BackoffHonoured, RepeatsBounded, ForwardsAtLeastOnce |
| device_jobs | 2 commands, 2 firmware updates or 1 job of another type, 2 workers, 2 partitions, a fault | TypeOK, SuccessIsRecorded, Auditable, WebhooksAreStored, SamplesCounted, NoDoubleAlert, BlockedOnlyByFault, RecordedIsInstalled, CommandsInOrder |
| terminal_is_final, exhausted_is_failed, router_publish_error, one_at_a_time | the smallest that reach it | what the code does where a comment says otherwise, see Findings |

Bounds and why they are enough. Jobs share only workers, the router and the
reaper's batch: with one job the other ones could only make these busy, which
interleaving already allows. A row of a larger batch waits in `todo` while the
reaper works on the others, and a single one may wait there as long. Two workers are
needed for two runs of one job side by side, and one fault for any call of
either of them to fail or be the last. A budget of two attempts has both
branches of the retry test. `MaxFaults` counts faults of any kind and place; in
pipeline_reapers two of them let a fault hit the recovery from another. Three
requests are the winner of a key, a loser and one that comes after expiry. In
RetryRouter the delays of attempts 1 and 2 in half seconds give messages that
are due in the wrong order, at once, and seconds later; `MaxTime` only bounds
when the last one is appended. In Ingestion two pods overlap as they do in a
rollout, four requests are each sample once per pod, or one sample again after
a lost acknowledgement, and two minutes put the redelivery on the other side of a boundary. In
Backpressure a topic of two partitions can be backed up in both or in one, and
three messages are just more than the threshold, which an empty topic reaches
(one too many per partition never used); one fault is any round of any poller,
or a restart of one of them.
In DeviceJobs two jobs of a device are needed where jobs meet (the order of
commands, the installed version); the other handlers write only under their own
job, so `Alone` gives them the device for themselves, and a health check brings
its alert. Two partitions are the device's and another one.

The reaper and the workers may in principle go round for ever (each requeue
makes a copy), but attempts bound it, so that all runs are finite without a
constraint. Deadlock is checked in every run: `AllQuiet`, `AllAnswered`,
`Drained`, `AllDone` and `Quiet` stutter only in the states in which the system has nothing
to do (in Backpressure the pollers never stop).

RowTellsOutcome has `faults <= 1` among its premises: a worker
that lost its partition may write RUNNING over the SUCCESS of the new owner and
then die, and the row stays RUNNING with no heartbeat. That takes two faults, a
rebalance and a crash.

## Fairness

FairSpec of JobPipeline assumes that a process that can take its next call takes
it: `Run`, `drain` and `scanOnce` are loops whose calls return, and the handlers'
HTTP clients have timeouts. Fetching a given job's copy is strongly fair: a
partition is read in order, so that a copy gets its turn although the consumers
are busy again and again. Nothing is assumed of clients, of faults, of
heartbeats, or that the reaper's scan selects a row. RetryRouter assumes that
the clock runs and that the goroutine takes its next call. Backpressure assumes
that the three loops go on at their intervals and that not every round fails
(they are tickers whose calls have timeouts, `POLL_INTERVAL`, the scrape
interval and 5 s); that the topic comes to rest is a premise of
BacklogIsNoticed, because a sum of gauges set at different moments is no lag of
any moment while it does not. SubmitJob, Ingestion and DeviceJobs promise no
liveness and assume no fairness.

## Findings

1. terminal_is_final. SUCCESS and FAILED are declared terminal, but the API
   writes QUEUED after publishing, over whatever a fast worker left. The row of
   a finished job then says QUEUED for good. No fault is needed.
2. exhausted_is_failed. `requeue` writes QUEUED before it looks at attempts; the
   job it then gives up does not "sit as FAILED" but stays QUEUED.
3. router_publish_error. After a failed republish the reader goes on to the next
   message, whose commit covers the failed one: it is skipped.
4. one_at_a_time. `sendToRetry` keys the retry by the job and the router keeps
   the key: a retried job runs in another partition beside the next job of its
   device. For two firmware updates `devices.firmware_version` may then name the
   one the device does not have, which is what `overlapped` exempts in
   RecordedIsInstalled.

Also seen, and visible in the models without a run of their own:

- A second run of a job whose first run had a heartbeat more than a minute ago
  looks dead to the reaper until its own first beat, 10 s later: RUNNING and
  RETRY keep `heartbeat_at`. The requeue is one of the causes
  NoUncausedDuplicate counts.
- A duplicate request gets 500 while the winner has claimed the key and not
  inserted the row yet, and so does a reuse of the key with another type
  (`Lookup`).
- A command without arguments (as `test/load/submit-rest.js:78` sends) is
  executed and then refused by `command_audit`, where `arguments` is NOT NULL:
  every attempt executes it and none leaves a row. Auditable exempts it (`Fits`).
- A health check that found its device unhealthy cannot be rerun: its alert's key
  is taken, so a crash before the commit, or a failed publish of the alert, ends
  in jobs.dlq, in the second case with no alert sent (`CreateJob`).

- A sample redelivered after the minute has turned is a second job
  (`DuplicatesHaveCause` counts it), although `开发日志.md:84` has QoS 1
  redelivery not double what is downstream. Samples that were queued while a pod
  was away and are handled in one minute become one job, the first's.
- After a restart of the broker every pod is connected and deaf until it is
  restarted, since `Subscribe` is called once and the broker forgets; NoSampleLost
  speaks of samples somebody was subscribed to. A pod that is replaced leaves its
  session behind (`excused`).
- The lag of a partition nobody has committed in is one too high. Backpressure
  fails open whenever the series is missing: after a restart of API or exporter,
  and while scrapes fail.

### Limits of at-least-once

NoLostJob and the refinement of JobService hold under crashes, rebalances and
stalls, not under failed calls: `Run` commits whatever `processOne` returned, so
a failed GetJob, or a failed publish to the retry topic or to jobs.dlq, consumes
the only copy ("Only commit after the work is durably persisted",
`internal/kafka/consumer.go:59`). The theorems state this as the assumption
`MildFaults`; OutcomeHasEvidence, DeadLetterEarned, NoUncausedDuplicate and
ReaperGivesUp need no such assumption. Also without any fault the handler may
fail more than max_attempts times, because attempts is read before the earlier
run's increment: FailuresBounded says by how much.

## Proofs

Each inductive invariant below was model-checked on an instance of a run before it
was proved for every value of the constants. All safety invariants of the runs, all
their action properties and the steps of all three refinements are theorems; what is
left to TLC is at the end of this section.

### The job pipeline (any jobs, workers, reapers, attempts and faults)

`JobPipelineProofs`:

- TypeCorrect: `Spec => []TypeOK`. One lemma per process; TypeOK is inductive.
- NoJobIsLost: under `MildFaults`, `Spec => []NoLostJob`. NoLostJob alone is not
  inductive. A worker that lost its partition may still succeed, and nothing in
  NoLostJob says that its job was published; and a worker that fetches must own
  the copy it gets. `IInv` adds both: `NotBeforePublish` (of an unpublished job
  there is no copy, no holder and no RUNNING row) and `IdleOwns`. Every step
  then either keeps every job's copies (`KeepsAll`) or is one of the two that
  settle a job (`Settles`).
- PipelineServes: under `MildFaults`, `Spec => Service!Spec`, the safety half of
  ImplementsService, from the same step lemma.

`JobAttemptsProofs` (all faults; Workers and Reapers are assumed finite):

- ReapersGiveUp and DeadLettersAreEarned. `attempts` is counted behind the event it
  counts, by workers and reapers that may be stopped in between, so the invariant
  counts for each job those who have yet to count: what is republished, with the
  reapers about to publish, is in attempts and within the budget; attempts, with the
  workers that have yet to increment, is no more than the failures and requeues that
  happened; and of a job that is not inserted nobody has heard.
- DuplicatesAreCaused. Two books are kept for each job, of its copies and outcomes
  (`Outcomes`) and of its copies and the workers that hold one (`InWork`), and
  neither exceeds the `Grant`: one for the publish of the API, one for each
  republish of a reaper, one for each fault. Each step moves an entry inside a book
  or raises the grant with it. The second book is needed because a worker that has
  counted its success is no run any more but still acknowledges a copy.
- FailuresAreBounded. A third book (`Failures`) has the copies that may still run
  the handler and the failures there were. What bounds it changes with the row:
  while another failure is surely retried, the failures are the attempts and those
  on the way to being counted; from then on, only workers that read an older
  `attempts` (`Hopeful`) can add one, and each once. `FailuresFit` has both phases
  and the proof follows the increment from one to the other.

`JobOutcomeProofs` (all faults):

- OutcomesAreReal: `Spec => []OutcomeHasEvidence`. `PendingHasEvidence` carries the
  evidence from the outcome to the write that reports it.
- RowsTellOutcomes: `Spec => []RowTellsOutcome`. The property is about the last
  moment of a job; the invariant (`Tells`) is about every earlier one: a published
  job has an excuse, a terminal row, or somebody still busy with it who will write
  it. That a partition is lost only by a fault (`LossIsFault`) makes the second
  fault, which the property excuses, a second one.
- RowsMoveLawfully: `Spec => LawfulUnlessOvertaken`. As no query tests the state it
  overwrites, a write is lawful only because nobody else writes. `ClaimStands`: from
  the claim to its outcome a worker's job is RUNNING, while the job is
  `Undisturbed`. That nobody else writes is the first book of DuplicatesAreCaused
  with the grant at one.

### Submission and ingestion

`SubmitJobProofs` (any requests, keys, types and faults): SubmitTypeCorrect,
SameJobForAKey, OneMessageForAKey, QueuedMeansSent and KeysWedgeByFault, from
one invariant. What SubmitJob's properties say of answers needs what holds on
the way to them: a row is in the table from the INSERT on, a request at or after
its publish has its own row, no two rows have a key and type in common
(the unique index), and whoever holds a claim without a row is still about to
insert one unless a fault stopped it.

`IngestionProofs` extends it (any pods, samples and outages; Replicas are finite).
IngestionSubmits: every step is a step of SubmitJob or a stutter, so that its
invariant holds in Ingestion too, and is used there. IngestionTypeCorrect and
SamplesAreKept add that a pod's request is its own, that the message at hand is
still the head of the session while the pod is subscribed, and that a request whose
row is missing at the end has its sample excused. That acknowledging removes just the
head is a lemma about Tail. SecondJobsHaveCause counts causes: the requests made for
a sample, with the pods to whom it is still to be handed (`DuePods`), are no more
than the pods that heard it and the outages (`Balanced`); a lost connection turns a
pod that was handed the sample into one that is due again, and is an outage. Since a
session has a sample once (`HeldOnce`), an acknowledgement makes no pod due.

### The retry router (any log, delays, restarts and faults)

`RetryRouterProofs`: RouterTypeCorrect, SkippedWasRefused and BackoffIsHonoured. The
inductive part is that the reader's position never runs ahead of what was forwarded
or refused, with the message in hand as the only exception, and that what is past
its sleep is due. RepeatsAreBounded: a fault does not repeat a message, it exposes
one that no commit covers to be read again; `RepeatsPaid` counts the exposed messages
with the repeats, since each fault adds no more than one to the two. RouterServes:
`Spec => Service!Spec`, the steps of the refinement of ForwardsAtLeastOnce: a restart
makes JobService owe a settled message again, a publish or its refusal settles one.

### Backpressure (any partitions, messages and faults)

`BackpressureProofs`: ExporterNeverOverreports. `low` follows the lag down while a
collection is under way; the invariant ties what ListOffsets and OffsetFetch answered
to it, unless the answer was an error. BackpressureTypeCorrect and
BackpressureFailsOpenByFault need that what Prometheus answers is a number:
SumByTopic is a fold, that is, a recursive function on the subsets of a finite set.
That such a function exists, that two of them agree where both are defined, and that
it returns naturals, is each proved by the minimal subset for which it would fail
(`MinimalSubset`, from the library's theorems on well-founded orders). `OnceSeen` is
the chain behind the second: without a fault, what is in the cache is in the next
answer too, and what is in an answer has a gauge, which stays.

### The handlers (any jobs, workers and partitions, all faults)

`DeviceJobsProofs`. All rest on `Sane`: a job that waits or is held has a row, a
worker is in the handler of its job's type (so that only an alert's run posts
webhooks), and a worker that owns a partition has its message at the head, which is
why the commit never meets an empty one (DevicesTypeCorrect).

- AlertsOnce needs that at most one run is between the alert's row and its publish;
  SuccessesAreRecorded what each call relies on (`EvidenceOf`); WebhooksComeSecond
  and ActsAreAudited count the runs between two calls of a handler, each of which has
  a row, or an act, to itself.
- TableTellsFirmware. The device and devices.firmware_version change in two calls, so
  they differ now and then; `TableBehind` says when: the job installed has yet to
  succeed. `FirmwareStage` has what a run knows at each call, true only as long as no
  run is beside it, and `Overlaps` that any two runs at once mark both jobs.
- CommandsKeepOrder. Retries go to any partition, but a retry has had its turn. Until
  its turn a command is in the device's home partition, and whatever was published
  after it is behind it there and nowhere else (`Waits`); so it is not executed first.
- SamplesAreCounted and RefusedOnlyByFault share one book: the rows of a sample (the
  alert jobs of a health check), its messages that wait, its retries and its runs,
  are no more than its submission, the messages a worker holds (which also wait, at
  the head) and the faults. If there is a row, a second run has no other source than
  a fault.

### Assumptions, and what stays with TLC

The assumptions used are those named in the modules (`PipelineAssumption`,
`SubmitAssumption`, `IngestionAssumption`, `BackpressureAssumption`,
`JobIdAssumption`: the ids of alert jobs are no client's, ...), where
named `MildFaults`, and in RetryRouter `DelayAssumption`: that delays are natural
numbers, which TLC evaluates and the provers, who know no powers of two, cannot
derive. TLC evaluates the ASSUMEs in the runs.

Model-checked only: liveness, that is EventuallySettled, BacklogIsNoticed, AdmitsAgain
and the fairness of JobService in ImplementsService and ForwardsAtLeastOnce. The
prover has no rules for fairness or ENABLED. Also only checked is that the four runs
that expect a violation find one.

## Plan

Done: the modules above, and a theorem for each of the runs' safety properties. Left,
in the order of what it would add: theorems of invariants that no run states by
itself but the arguments above use (the bound of a job's copies, `CausesFit`; the
command order of `Turns`), stated as properties; NoLostJob under all faults with the
lost publish as its excuse; JobPipeline over DeviceJobs' ordered topics, to have the
order of a partition and the reaper in one module.

## Not modelled

Payloads, formatting, metrics and traces; the order within a partition in
JobPipeline (any copy may be next, which includes every order); messages that
cannot be decoded, are misrouted or of unknown type (no producer of `src/` sends
one); the reaper's ORDER BY (any batch up to the limit may be returned); reads
of the API; the tools under `cmd/mock-*` and chaosmonkey (a stub), deployment
and the web UI. In Ingestion, other devices (they share neither key nor row) and
topics of another form, which the subscription excludes; in Backpressure, the
body that does not decode or has an unknown type, which passes the middleware
and is refused by the handler without effect, and the number's way through JSON.
