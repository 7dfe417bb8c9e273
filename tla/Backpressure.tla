---------------------------- MODULE Backpressure ----------------------------
(***************************************************************************)
(* How POST /jobs learns that a tier is backed up: the offsets of the      *)
(* topic jobs.<tier>, cmd/kafka-lag-exporter that reads them into a gauge  *)
(* per partition, Prometheus that scrapes the gauges, and in the API the   *)
(* cache that polls Prometheus (internal/lagcache) and the middleware that *)
(* looks into the cache.  Each runs by itself at its own interval, so any  *)
(* of them may be far behind the one before it.  Tiers share nothing here, *)
(* and API pods only the topic: one of each is enough.                     *)
(*                                                                         *)
(* A definition marked "seeded bug" is a form the one after it could have  *)
(* had, used nowhere: in that one's place it must break a property.        *)
(***************************************************************************)
EXTENDS Integers, FiniteSets, FiniteSetsExt

CONSTANTS Partitions,
          Threshold,    \* DefaultThresholds of the tier
          Missing,      \* no such series, no such topic
          MaxMessages,  \* bound: messages published to the topic
          MaxInFlight,  \* bound: requests between middleware and publish
          FaultKinds, MaxFaults

\* A partition without a committed offset counts one too many: a threshold of
\* fewer than that would refuse jobs for an empty topic.
ASSUME BackpressureAssumption ==
    /\ IsFiniteSet(Partitions)
    /\ Threshold \in Nat /\ Cardinality(Partitions) <= Threshold
    /\ Missing \notin Int
    /\ MaxMessages \in Nat /\ MaxInFlight \in Nat /\ MaxFaults \in Nat
    /\ FaultKinds \subseteq {"crash", "collect", "answer", "scrape"}

VARIABLES
    end,        \* per partition, the log-end offset
    committed,  \* and the offset the workers' group has committed, or -1
    epc,        \* the exporter's next call
    ends,       \* what ListOffsets answered
    fetched,    \* what OffsetFetch answered
    todo,       \* partitions whose gauge is not set yet
    gauge,      \* pp_kafka_consumer_lag, per partition
    prom,       \* its sum over the topic, as Prometheus scraped it last
    cache,      \* LagCache.lag[topic]
    inFlight,   \* requests that passed the middleware
    low,        \* history: least lag of a partition in this collection
    garbled,    \* history: an answer of this collection was an error
    faults

kafkaVars    == <<end, committed>>
exporterVars == <<epc, ends, fetched, todo, gauge>>
apiVars      == <<cache, inFlight>>
vars == <<kafkaVars, exporterVars, prom, apiVars, low, garbled, faults>>

Fault(kind) == kind \in FaultKinds /\ faults < MaxFaults /\ faults' = faults + 1

Least(m, n) == IF m <= n THEN m ELSE n

\* Messages of a partition, and of the topic, that are not committed.
LagOf(p) == end[p] - (IF committed[p] = -1 THEN 0 ELSE committed[p])
Lag == MapThenSumSet(LagOf, Partitions)
Published == MapThenSumSet(LAMBDA p : end[p], Partitions)

-----------------------------------------------------------------------------
(* The topic: what the API, the other producers and the workers do to it.  *)

Append1(p) ==
    /\ Published < MaxMessages
    /\ end' = [end EXCEPT ![p] = @ + 1]

\* LagCache.Get: a missing topic counts as not backed up.
Get == IF cache = Missing THEN 0 ELSE cache

AdmitsBelow == ~(Threshold > 0 /\ Get >= Threshold) \* seeded bug

\* The middleware: 503 when the cached lag is over the threshold.
Admits == ~(Threshold > 0 /\ Get > Threshold)

PostJob ==
    /\ inFlight < MaxInFlight
    /\ Admits
    /\ inFlight' = inFlight + 1
    /\ UNCHANGED <<kafkaVars, exporterVars, prom, cache, low, garbled, faults>>

\* The handler publishes, or ends without (a duplicate, an error).
SubmitJob ==
    /\ inFlight > 0
    /\ inFlight' = inFlight - 1
    /\ end' = end \/ \E p \in Partitions : Append1(p)
    /\ UNCHANGED <<committed, exporterVars, prom, cache, low, garbled, faults>>

\* Ingestion, health checks, the retry router and the reaper do not ask.
PublishUnasked(p) ==
    /\ Append1(p)
    /\ UNCHANGED <<committed, exporterVars, prom, apiVars, low, garbled, faults>>

\* A worker commits the next message.
CommitMessage(p) ==
    /\ LagOf(p) > 0
    /\ committed' = [committed EXCEPT ![p] = IF @ = -1 THEN 1 ELSE @ + 1]
    /\ low' = IF epc = "OffsetFetch" THEN [low EXCEPT ![p] = Least(@, LagOf(p) - 1)]
                                     ELSE low
    /\ UNCHANGED <<end, exporterVars, prom, apiVars, garbled, faults>>

-----------------------------------------------------------------------------
(* The exporter: collectOne.  An answer for a partition may be an error,   *)
(* which nobody looks at: the offset in it is -1.                          *)

Nothing == [p \in Partitions |-> -1]

\* collectOne returns and its locals are gone, the history with them.
CollectEnds ==
    /\ epc' = "ListOffsets"
    /\ ends' = Nothing /\ fetched' = Nothing /\ todo' = {}
    /\ low' = Nothing /\ garbled' = FALSE

Answered(real, p, garbage) == [q \in Partitions |-> IF garbage /\ q = p THEN -1
                                                                       ELSE real[q]]

ListOffsets ==
    /\ epc = "ListOffsets"
    /\ \E p \in Partitions, garbage \in BOOLEAN :
          /\ IF garbage THEN Fault("answer") ELSE UNCHANGED faults
          /\ ends' = Answered(end, p, garbage)
          /\ garbled' = garbage
    /\ low' = [p \in Partitions |-> LagOf(p)]
    /\ epc' = "OffsetFetch"
    /\ UNCHANGED <<kafkaVars, fetched, todo, gauge, prom, apiVars>>

OffsetFetch ==
    /\ epc = "OffsetFetch"
    /\ \E p \in Partitions, garbage \in BOOLEAN :
          /\ IF garbage THEN Fault("answer") ELSE UNCHANGED faults
          /\ fetched' = Answered(committed, p, garbage)
          /\ garbled' = (garbled \/ garbage)
    /\ todo' = Partitions
    /\ epc' = "Set"
    /\ UNCHANGED <<kafkaVars, ends, gauge, prom, apiVars, low>>

Unclamped(lag) == lag \* seeded bug

\* "negative numbers go to zero": committed is read after the end.
Clamp(lag) == IF lag < 0 THEN 0 ELSE lag

EndNow(p) == end[p] \* seeded bug: the end is asked for last
EndAsked(p) == ends[p]

\* Seeded bug: no gauge for a partition that is drained.
DropZero(p, lag) == gauge' = [gauge EXCEPT ![p] = IF lag = 0 THEN Missing ELSE lag]
Set(p, lag) == gauge' = [gauge EXCEPT ![p] = lag]

SetGauge(p) ==
    /\ epc = "Set"
    /\ p \in todo
    /\ Set(p, Clamp(EndAsked(p) - fetched[p]))
    /\ \/ todo = {p} /\ CollectEnds
       \/ /\ todo # {p}
          /\ todo' = todo \ {p}
          /\ UNCHANGED <<epc, ends, fetched, low, garbled>>
    /\ UNCHANGED <<kafkaVars, prom, apiVars, faults>>

\* Metadata, ListOffsets or OffsetFetch fails: the gauges stay as they are.
CollectFails ==
    /\ epc \in {"ListOffsets", "OffsetFetch"}
    /\ Fault("collect")
    /\ CollectEnds
    /\ UNCHANGED <<kafkaVars, gauge, prom, apiVars>>

ExporterRestarts ==
    /\ Fault("crash")
    /\ CollectEnds
    /\ gauge' = [p \in Partitions |-> Missing]
    /\ UNCHANGED <<kafkaVars, prom, apiVars>>

-----------------------------------------------------------------------------
(* Prometheus.                                                             *)

Known == {p \in Partitions : gauge[p] # Missing}

\* The cache asks for sum by (topic).
SumByTopic == MapThenSumSet(LAMBDA p : gauge[p], Known)

\* The gauges as they are, whichever collection each is from.
Scrape ==
    /\ prom' = IF Known = {} THEN Missing ELSE SumByTopic
    /\ UNCHANGED <<kafkaVars, exporterVars, apiVars, low, garbled, faults>>

\* A failed scrape makes the series stale: they are in no answer.
ScrapeFails ==
    /\ Fault("scrape")
    /\ prom' = Missing
    /\ UNCHANGED <<kafkaVars, exporterVars, apiVars, low, garbled>>

-----------------------------------------------------------------------------
(* LagCache.refresh.  The answer is as old as the scrape: that it also      *)
(* takes its time adds nothing.  No answer within 5 s, or one that is not   *)
(* "success", leaves the map as it is and is no step.                       *)

\* Seeded bug: a topic that is in the map stays as it is.
KeepFirst == cache' = IF cache = Missing THEN prom ELSE cache

\* The new map replaces the old one.
Replace == cache' = prom

Refresh ==
    /\ Replace
    /\ UNCHANGED <<kafkaVars, exporterVars, prom, inFlight, low, garbled, faults>>

\* The API restarts with an empty map.
ApiRestarts ==
    /\ Fault("crash")
    /\ cache' = Missing /\ inFlight' = 0
    /\ UNCHANGED <<kafkaVars, exporterVars, prom, low, garbled>>

-----------------------------------------------------------------------------

Init ==
    /\ end = [p \in Partitions |-> 0]
    /\ committed = [p \in Partitions |-> -1]
    /\ epc = "ListOffsets"
    /\ ends = Nothing /\ fetched = Nothing
    /\ todo = {}
    /\ gauge = [p \in Partitions |-> Missing]
    /\ prom = Missing
    /\ cache = Missing /\ inFlight = 0
    /\ low = Nothing
    /\ garbled = FALSE
    /\ faults = 0

Collect == ListOffsets \/ OffsetFetch \/ \E p \in Partitions : SetGauge(p)

Next ==
    \/ PostJob \/ SubmitJob
    \/ \E p \in Partitions : PublishUnasked(p) \/ CommitMessage(p)
    \/ Collect \/ Scrape \/ Refresh
    \/ CollectFails \/ ExporterRestarts \/ ScrapeFails \/ ApiRestarts

Spec == Init /\ [][Next]_vars

\* The three loops go on, at their intervals, and not every round fails.
\* Nothing is assumed of clients, workers and faults.
FairSpec ==
    /\ Spec
    /\ WF_vars(Collect) /\ WF_vars(Scrape) /\ WF_vars(Refresh)

-----------------------------------------------------------------------------
(* Properties.                                                             *)

LagOrMissing == Nat \cup {Missing}

\* Every variable has its type.
TypeOK ==
    /\ end \in [Partitions -> Nat]
    /\ committed \in [Partitions -> Nat \cup {-1}]
    /\ \A p \in Partitions : committed[p] <= end[p]
    /\ epc \in {"ListOffsets", "OffsetFetch", "Set"}
    /\ ends \in [Partitions -> Nat \cup {-1}]
    /\ fetched \in [Partitions -> Nat \cup {-1}]
    /\ todo \subseteq Partitions /\ (todo # {} <=> epc = "Set")
    /\ gauge \in [Partitions -> LagOrMissing]
    /\ prom \in LagOrMissing /\ cache \in LagOrMissing
    /\ inFlight \in Nat
    /\ low \in [Partitions -> Nat \cup {-1}]
    /\ garbled \in BOOLEAN
    /\ faults \in Nat

\* The exporter errs on the side of admitting: whatever is published and
\* committed between its calls, no gauge is set above the least lag the
\* partition had meanwhile, but for the one of a partition never committed.
NeverOverreports ==
    [][\A p \in Partitions :
         p \in todo \ todo' /\ gauge'[p] # Missing /\ ~garbled
            => gauge'[p] <= low[p] + 1]_vars

\* Backpressure fails open only by a fault: once the API has seen a tier's lag
\* the topic never drops out of its map, drained or not.
FailsOpenOnlyByFault == [][cache' = Missing => cache = Missing \/ faults' > 0]_vars

\* Messages stop coming and going: only then is the sum of gauges that were
\* set one by one the lag of one moment.
TopicIsQuiet == <>[][UNCHANGED kafkaVars]_kafkaVars

\* A backlog that stays is noticed for good ...
BacklogIsNoticed == TopicIsQuiet /\ <>[](Lag > Threshold) => <>[]~Admits

\* ... and when it is gone jobs are admitted again, although faults made the
\* pollers miss rounds and partitions never used count as one.
AdmitsAgain == <>[](Lag = 0) => <>[]Admits
=============================================================================
