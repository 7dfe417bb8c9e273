------------------------- MODULE BackpressureProofs -------------------------
(***************************************************************************)
(* Theorems about Backpressure, for any partitions, thresholds and faults: *)
(* the exporter never reports more than the least lag a partition had      *)
(* while it was collecting, but for the one of a partition without a       *)
(* commit; type correctness; and that only a fault makes the API lose      *)
(* sight of a topic.  The first rests on what the two answers have to do    *)
(* with the history (AnswersBound), which holds because the end is asked    *)
(* for first; the others on what a sum over the gauges is.                  *)
(***************************************************************************)
EXTENDS Backpressure, FiniteSetTheorems, TLAPS

\* The types the argument needs.
OffsetsOK ==
    /\ end \in [Partitions -> Nat]
    /\ committed \in [Partitions -> Nat \cup {-1}]
    /\ \A p \in Partitions : committed[p] <= end[p]
    /\ ends \in [Partitions -> Nat \cup {-1}]
    /\ fetched \in [Partitions -> Nat \cup {-1}]
    /\ low \in [Partitions -> Nat \cup {-1}]
    /\ garbled \in BOOLEAN
    /\ gauge \in [Partitions -> Nat \cup {Missing}]
    /\ epc \in {"ListOffsets", "OffsetFetch", "Set"}
    /\ todo \subseteq Partitions /\ (epc # "Set" => todo = {})

\* While a collection waits for the committed offsets, no lag since its first
\* answer was below that answer's end less what is committed now; afterwards
\* the difference of the two answers is bounded.
AnswersBound ==
    \A p \in Partitions :
        ~garbled =>
            /\ epc = "OffsetFetch" => /\ ends[p] - low[p] <= end[p] - LagOf(p)
                                      /\ ends[p] <= end[p] /\ low[p] >= 0
            /\ epc = "Set" => ends[p] - fetched[p] <= low[p] + 1 /\ low[p] >= 0

IInv == OffsetsOK /\ AnswersBound

LEMMA InitIInv == Init => IInv
<1> SUFFICES ASSUME Init PROVE IInv
  OBVIOUS
<1>1. /\ end = [p \in Partitions |-> 0] /\ committed = Nothing
      /\ ends = Nothing /\ fetched = Nothing /\ low = Nothing
      /\ gauge = [p \in Partitions |-> Missing]
      /\ epc = "ListOffsets" /\ todo = {} /\ garbled = FALSE
  BY DEF Init, Nothing
<1>2. Nothing \in [Partitions -> Nat \cup {-1}] /\ \A p \in Partitions : Nothing[p] = -1
  BY DEF Nothing
<1>3. /\ end \in [Partitions -> Nat] /\ gauge \in [Partitions -> Nat \cup {Missing}]
      /\ \A p \in Partitions : committed[p] <= end[p]
  BY <1>1, <1>2
<1>4. OffsetsOK
  BY <1>1, <1>2, <1>3 DEF OffsetsOK
<1> QED BY <1>1, <1>4 DEF IInv, AnswersBound

\* Messages come and go between the answers.
LEMMA KafkaKeeps ==
    ASSUME IInv, NEW p \in Partitions,
           PostJob \/ SubmitJob \/ PublishUnasked(p) \/ CommitMessage(p)
    PROVE  IInv'
<1> USE DEF IInv, OffsetsOK, exporterVars, kafkaVars, apiVars
<1>1. ASSUME NEW q \in Partitions, Append1(q), UNCHANGED <<committed, exporterVars, low, garbled>>
      PROVE  IInv'
  <2>1. OffsetsOK'
    BY <1>1 DEF Append1
  <2>2. /\ \A r \in Partitions : /\ end[r] <= end'[r]
                               /\ end'[r] - LagOf(r)' = end[r] - LagOf(r)
        /\ UNCHANGED <<epc, ends, fetched, low, garbled>>
    BY <1>1 DEF Append1, LagOf
  <2>3. AnswersBound'
    <3> SUFFICES ASSUME NEW r \in Partitions, ~garbled
                 PROVE  /\ epc = "OffsetFetch"
                             => /\ ends[r] - low[r] <= end'[r] - LagOf(r)'
                                /\ ends[r] <= end'[r] /\ low[r] >= 0
                        /\ epc = "Set" => ends[r] - fetched[r] <= low[r] + 1
                                              /\ low[r] >= 0
      BY <2>2 DEF AnswersBound
    <3>1. end[r] \in Nat /\ end'[r] \in Nat /\ ends[r] \in Int
      BY <2>1
    <3> QED BY <2>2, <3>1 DEF AnswersBound
  <2> QED BY <2>1, <2>3
<1>2. ASSUME UNCHANGED <<kafkaVars, exporterVars, low, garbled>> PROVE IInv'
  BY <1>2 DEF AnswersBound, LagOf
<1>3. CASE CommitMessage(p)
  <2>1. /\ committed' = [committed EXCEPT ![p] = IF @ = -1 THEN 1 ELSE @ + 1]
        /\ LagOf(p) > 0
        /\ low' = IF epc = "OffsetFetch" THEN [low EXCEPT ![p] = Least(@, LagOf(p) - 1)]
                                         ELSE low
        /\ UNCHANGED <<end, exporterVars, garbled>>
    BY <1>3 DEF CommitMessage
  <2>2. LagOf(p) \in Nat /\ LagOf(p) <= end[p]
    BY <2>1 DEF LagOf
  <2>3. OffsetsOK'
    BY <2>1, <2>2 DEF LagOf, Least
  <2>4. AnswersBound'
    <3> SUFFICES ASSUME NEW q \in Partitions, ~garbled
                 PROVE  /\ epc = "OffsetFetch"
                             => /\ ends[q] - low'[q] <= end[q] - LagOf(q)'
                                /\ ends[q] <= end[q] /\ low'[q] >= 0
                        /\ epc = "Set" => ends[q] - fetched[q] <= low'[q] + 1
                                              /\ low'[q] >= 0
      BY <2>1 DEF AnswersBound
    <3>1. CASE q = p
      BY <2>1, <2>2, <3>1 DEF AnswersBound, LagOf, Least
    <3>2. CASE q # p
      BY <2>1, <3>2 DEF AnswersBound, LagOf
    <3> QED BY <3>1, <3>2
  <2> QED BY <2>3, <2>4
<1>4. CASE PostJob
  BY <1>2, <1>4 DEF PostJob
<1>5. CASE SubmitJob
  BY <1>1, <1>2, <1>5 DEF SubmitJob
<1>6. CASE PublishUnasked(p)
  BY <1>1, <1>6 DEF PublishUnasked
<1> QED BY <1>3, <1>4, <1>5, <1>6

\* The exporter's own steps.
LEMMA CollectKeeps ==
    ASSUME IInv, Collect \/ CollectFails \/ ExporterRestarts
    PROVE  IInv'
<1> USE DEF IInv, OffsetsOK, kafkaVars, apiVars
<1>0. \A p \in Partitions : /\ LagOf(p) \in Nat /\ LagOf(p) <= end[p]
                            /\ committed[p] <= end[p] - LagOf(p)
                            /\ end[p] - LagOf(p) <= committed[p] + 1
  BY DEF LagOf
<1>1. CASE ListOffsets
  <2>1. PICK r \in Partitions, garbage \in BOOLEAN :
           ends' = Answered(end, r, garbage) /\ garbled' = garbage
    BY <1>1 DEF ListOffsets
  <2>2. /\ low' = [p \in Partitions |-> LagOf(p)] /\ epc' = "OffsetFetch"
        /\ UNCHANGED <<end, committed, fetched, todo, gauge>> /\ todo = {}
    BY <1>1 DEF ListOffsets
  <2>3. ends' \in [Partitions -> Nat \cup {-1}] /\ (~garbled' => ends' = end)
    BY <2>1 DEF Answered
  <2>4. \A p \in Partitions : LagOf(p)' = LagOf(p)
    BY <2>2 DEF LagOf
  <2>5. OffsetsOK'
    BY <1>0, <2>1, <2>2, <2>3
  <2>6. AnswersBound'
    BY <1>0, <2>2, <2>3, <2>4 DEF AnswersBound
  <2> QED BY <2>5, <2>6
<1>2. CASE OffsetFetch
  <2>1. PICK r \in Partitions, garbage \in BOOLEAN :
           fetched' = Answered(committed, r, garbage) /\ garbled' = (garbled \/ garbage)
    BY <1>2 DEF OffsetFetch
  <2>2. /\ epc = "OffsetFetch" /\ epc' = "Set" /\ todo' = Partitions
        /\ UNCHANGED <<end, committed, ends, gauge, low>>
    BY <1>2 DEF OffsetFetch
  <2>3. /\ fetched' \in [Partitions -> Nat \cup {-1}]
        /\ ~garbled' => fetched' = committed /\ ~garbled
    BY <2>1 DEF Answered
  <2>4. OffsetsOK'
    BY <2>1, <2>2, <2>3
  <2>5. AnswersBound'
    BY <1>0, <2>2, <2>3 DEF AnswersBound
  <2> QED BY <2>4, <2>5
<1>3. ASSUME CollectEnds, UNCHANGED <<end, committed>>,
             gauge' \in [Partitions -> Nat \cup {Missing}]
      PROVE  IInv'
  <2>1. Nothing \in [Partitions -> Nat \cup {-1}]
    BY DEF Nothing
  <2>2. /\ ends' = Nothing /\ fetched' = Nothing /\ low' = Nothing /\ todo' = {}
        /\ epc' = "ListOffsets" /\ garbled' = FALSE
    BY <1>3 DEF CollectEnds
  <2>3. OffsetsOK'
    BY <1>3, <2>1, <2>2
  <2> QED BY <2>2, <2>3 DEF AnswersBound
<1>4. ASSUME NEW p \in Partitions, SetGauge(p) PROVE IInv'
  <2>1. gauge' = [gauge EXCEPT ![p] = Clamp(ends[p] - fetched[p])]
    BY <1>4 DEF SetGauge, Set, EndAsked
  <2>2. Clamp(ends[p] - fetched[p]) \in Nat
    BY DEF Clamp
  <2>3. gauge' \in [Partitions -> Nat \cup {Missing}]
    BY <2>1, <2>2
  <2>4. CASE CollectEnds
    BY <1>3, <1>4, <2>3, <2>4 DEF SetGauge
  <2>5. CASE UNCHANGED <<epc, ends, fetched, low, garbled>> /\ todo' = todo \ {p}
    <3>1. UNCHANGED <<end, committed>> /\ epc = "Set"
      BY <1>4 DEF SetGauge
    <3>2. OffsetsOK'
      BY <2>3, <2>5, <3>1
    <3> QED BY <2>5, <3>1, <3>2 DEF AnswersBound, LagOf
  <2> QED BY <1>4, <2>4, <2>5 DEF SetGauge
<1>5. CASE CollectFails
  BY <1>3, <1>5 DEF CollectFails
<1>6. CASE ExporterRestarts
  <2>1. gauge' \in [Partitions -> Nat \cup {Missing}]
    BY <1>6 DEF ExporterRestarts
  <2> QED BY <1>3, <1>6, <2>1 DEF ExporterRestarts
<1> QED BY <1>1, <1>2, <1>4, <1>5, <1>6 DEF Collect

LEMMA NextIInv ==
    ASSUME IInv, [Next]_vars
    PROVE  IInv'
<1>1. ASSUME UNCHANGED <<end, committed, epc, ends, fetched, todo, gauge, low, garbled>>
      PROVE  IInv'
  BY <1>1 DEF IInv, OffsetsOK, AnswersBound, LagOf
<1>2. ASSUME Scrape \/ ScrapeFails \/ Refresh \/ ApiRestarts \/ UNCHANGED vars PROVE IInv'
  <2>1. UNCHANGED <<end, committed, epc, ends, fetched, todo, gauge, low, garbled>>
    BY <1>2 DEF Scrape, ScrapeFails, Refresh, ApiRestarts, vars, kafkaVars, exporterVars
  <2> QED BY <1>1, <2>1
<1>3. ASSUME PostJob PROVE IInv'
  <2>1. UNCHANGED <<end, committed, epc, ends, fetched, todo, gauge, low, garbled>>
    BY <1>3 DEF PostJob, kafkaVars, exporterVars
  <2> QED BY <1>1, <2>1
<1>4. ASSUME SubmitJob PROVE IInv'
  <2>1. CASE \E p \in Partitions : Append1(p)
    BY <1>4, <2>1, KafkaKeeps
  <2>2. CASE end' = end
    <3>1. UNCHANGED <<end, committed, epc, ends, fetched, todo, gauge, low, garbled>>
      BY <1>4, <2>2 DEF SubmitJob, exporterVars
    <3> QED BY <1>1, <3>1
  <2> QED BY <1>4, <2>1, <2>2 DEF SubmitJob
<1> QED BY <1>2, <1>3, <1>4, KafkaKeeps, CollectKeeps DEF Next

\* Whatever is published and committed between the exporter's two calls, it sets
\* no gauge above the least lag of the partition meanwhile, plus the one that
\* the offset -1 of a partition without a commit costs.
THEOREM ExporterNeverOverreports == Spec => NeverOverreports
<1>1. Init => IInv
  BY InitIInv
<1>2. IInv /\ [Next]_vars => IInv'
  BY NextIInv
<1>3. ASSUME IInv, Next, NEW p \in Partitions, p \in todo \ todo',
             gauge'[p] # Missing, ~garbled
      PROVE  gauge'[p] <= low[p] + 1
  <2>1. epc = "Set"
    BY <1>3 DEF IInv, OffsetsOK
  <2>2. CASE \E q \in Partitions : SetGauge(q)
    <3>1. SetGauge(p)
      BY <1>3, <2>2 DEF SetGauge, CollectEnds
    <3>2. gauge'[p] = Clamp(ends[p] - fetched[p])
      <4>1. gauge' = [gauge EXCEPT ![p] = Clamp(ends[p] - fetched[p])]
        BY <3>1 DEF SetGauge, Set, EndAsked
      <4>2. gauge \in [Partitions -> Nat \cup {Missing}]
        BY <1>3 DEF IInv, OffsetsOK
      <4> QED BY <4>1, <4>2
    <3> QED BY <1>3, <2>1, <3>2 DEF Clamp, IInv, OffsetsOK, AnswersBound
  <2>3. CASE ExporterRestarts
    BY <1>3, <2>3 DEF ExporterRestarts
  <2> QED BY <1>3, <2>1, <2>2, <2>3
          DEF Next, Collect, ListOffsets, OffsetFetch, CollectFails, PostJob, SubmitJob,
              PublishUnasked, CommitMessage, Scrape, ScrapeFails, Refresh, ApiRestarts,
              exporterVars
<1>4. IInv /\ [Next]_vars
      => [\A p \in Partitions : p \in todo \ todo' /\ gauge'[p] # Missing /\ ~garbled
            => gauge'[p] <= low[p] + 1]_vars
  BY <1>3
<1> QED BY <1>1, <1>2, <1>4, PTL DEF Spec, NeverOverreports
-----------------------------------------------------------------------------
(* Sums over a finite set.  MapThenSumSet is a recursive function on the    *)
(* subsets; that there is one, and what it returns, comes from the minimal  *)
(* subset for which it would fail.                                         *)

\* The element that is added first.
First(s) == CHOOSE x \in s : TRUE

\* g has the sum of f over every subset of A.
Sums(f, g, A) ==
    g = [s \in SUBSET A |-> IF s = {} THEN 0 ELSE f[First(s)] + g[s \ {First(s)}]]

LEMMA MinimalSubset ==
    ASSUME NEW S, IsFiniteSet(S), NEW T \in SUBSET SUBSET S, T # {}
    PROVE  \E s \in T : \A t \in T : t \subseteq s => t = s
<1>1. IsWellFoundedOn(StrictSubsetOrdering(S), SUBSET S)
  BY FS_StrictSubsetOrderingWellFounded, FS_FiniteSubsetsOfFinite
<1>2. PICK s \in T : \A t \in T : <<t, s>> \notin StrictSubsetOrdering(S)
  BY <1>1, WFMin, Zenon
<1>3. ASSUME NEW t \in T, t \subseteq s PROVE t = s
  <2>1. <<t, s>> \notin StrictSubsetOrdering(S)
    BY <1>2
  <2>2. <<t, s>> \in (SUBSET S) \X (SUBSET S)
    OBVIOUS
  <2> QED BY <1>3, <2>1, <2>2 DEF StrictSubsetOrdering
<1> QED BY <1>2, <1>3

LEMMA SumsStep ==
    ASSUME NEW f, NEW A, NEW g, Sums(f, g, A), NEW s \in SUBSET A
    PROVE  /\ s = {} => g[s] = 0
           /\ s # {} => /\ g[s] = f[First(s)] + g[s \ {First(s)}]
                        /\ First(s) \in s
                        /\ s \ {First(s)} \in SUBSET A
<1>1. g[s] = IF s = {} THEN 0 ELSE f[First(s)] + g[s \ {First(s)}]
  BY DEF Sums
<1>2. s # {} => First(s) \in s
  BY DEF First
<1> QED BY <1>1, <1>2

\* Where two such functions are defined they agree.
LEMMA SumsAgree ==
    ASSUME NEW f, NEW A, NEW B, NEW g, NEW h, IsFiniteSet(A),
           Sums(f, g, A), Sums(f, h, B), NEW u \in SUBSET A, u \in SUBSET B
    PROVE  g[u] = h[u]
<1> DEFINE T == {s \in SUBSET A : s \in SUBSET B /\ g[s] # h[s]}
<1> SUFFICES ASSUME T # {} PROVE FALSE
  OBVIOUS
<1>1. PICK s \in T : \A t \in T : t \subseteq s => t = s
  <2>1. T \in SUBSET SUBSET A
    OBVIOUS
  <2> HIDE DEF T
  <2> QED BY <2>1, MinimalSubset
<1>2. s # {}
  <2>1. s = {} => g[s] = 0
    BY <1>1, SumsStep
  <2>2. s = {} => h[s] = 0
    BY <1>1, SumsStep
  <2> QED BY <1>1, <2>1, <2>2
<1>3. First(s) \in s /\ s \ {First(s)} \in SUBSET A /\ s \ {First(s)} \in SUBSET B
  BY <1>1, <1>2, SumsStep
<1>4. g[s \ {First(s)}] = h[s \ {First(s)}]
  BY <1>1, <1>3
<1>5. /\ g[s] = f[First(s)] + g[s \ {First(s)}]
      /\ h[s] = f[First(s)] + h[s \ {First(s)}]
  BY <1>1, <1>2, SumsStep
<1> QED BY <1>1, <1>4, <1>5

\* There is such a function.
LEMMA SumsExist ==
    ASSUME NEW f, NEW S, IsFiniteSet(S)
    PROVE  \E g : Sums(f, g, S)
<1> DEFINE T == {A \in SUBSET S : ~\E g : Sums(f, g, A)}
<1> SUFFICES ASSUME T # {} PROVE FALSE
  OBVIOUS
<1>1. PICK A \in T : \A B \in T : B \subseteq A => B = A
  <2>1. T \in SUBSET SUBSET S
    OBVIOUS
  <2> HIDE DEF T
  <2> QED BY <2>1, MinimalSubset
<1> DEFINE SumOf(B) == (CHOOSE g : Sums(f, g, B))[B]
           Rest(s) == s \ {First(s)}
           G == [s \in SUBSET A |-> IF s = {} THEN 0 ELSE f[First(s)] + SumOf(Rest(s))]
<1>2. ASSUME NEW B \in SUBSET A, B # A
      PROVE  Sums(f, CHOOSE g : Sums(f, g, B), B)
  <2>1. B \notin T /\ B \in SUBSET S
    BY <1>1, <1>2
  <2> QED BY <2>1
<1>3. ASSUME NEW s \in SUBSET A, s # {}
      PROVE  First(s) \in s /\ Rest(s) \in SUBSET A /\ Rest(s) # A
  BY <1>3 DEF First
<1>4. ASSUME NEW u \in SUBSET A, u # A
      PROVE  G[u] = SumOf(u)
  <2> DEFINE g == CHOOSE h : Sums(f, h, u)
  <2>1. Sums(f, g, u)
    BY <1>2, <1>4
  <2> HIDE DEF g
  <2>2. CASE u = {}
    <3>1. g[u] = 0
      BY <2>1, <2>2, SumsStep
    <3> QED BY <2>2, <3>1 DEF g
  <2>3. CASE u # {}
    <3>1. /\ g[u] = f[First(u)] + g[Rest(u)]
          /\ Rest(u) \in SUBSET u
      BY <2>1, <2>3, SumsStep
    <3>2. Sums(f, CHOOSE h : Sums(f, h, Rest(u)), Rest(u))
      BY <1>2, <1>3, <2>3
    <3>3. IsFiniteSet(u)
      BY FS_Subset, <1>1
    <3>4. g[Rest(u)] = SumOf(Rest(u))
      BY <2>1, <3>1, <3>2, <3>3, SumsAgree
    <3>5. G[u] = f[First(u)] + SumOf(Rest(u))
      BY <2>3
    <3>6. g[u] = SumOf(u)
      BY DEF g
    <3> QED BY <3>1, <3>4, <3>5, <3>6
  <2> QED BY <2>2, <2>3
<1>5. ASSUME NEW s \in SUBSET A, s # {}
      PROVE  SumOf(Rest(s)) = G[Rest(s)]
  BY <1>3, <1>4, <1>5
<1>6. G = [s \in SUBSET A |-> IF s = {} THEN 0 ELSE f[First(s)] + G[Rest(s)]]
  <2> HIDE DEF SumOf, Rest
  <2>1. ASSUME NEW s \in SUBSET A
        PROVE  (IF s = {} THEN 0 ELSE f[First(s)] + SumOf(Rest(s)))
                  = (IF s = {} THEN 0 ELSE f[First(s)] + G[Rest(s)])
    BY <1>5
  <2> QED BY <2>1
<1>7. Sums(f, G, A)
  BY <1>6 DEF Sums
<1> QED BY <1>1, <1>7

\* What it returns is natural when what is added is.
LEMMA SumsAreNatural ==
    ASSUME NEW f, NEW S, IsFiniteSet(S), \A p \in S : f[p] \in Nat,
           NEW g, Sums(f, g, S)
    PROVE  g[S] \in Nat
<1> DEFINE T == {s \in SUBSET S : g[s] \notin Nat}
<1> SUFFICES ASSUME T # {} PROVE FALSE
  OBVIOUS
<1>1. PICK s \in T : \A t \in T : t \subseteq s => t = s
  <2>1. T \in SUBSET SUBSET S
    OBVIOUS
  <2> HIDE DEF T
  <2> QED BY <2>1, MinimalSubset
<1>2. s # {}
  <2>1. s \in SUBSET S
    BY <1>1
  <2>2. s = {} => g[s] = 0
    BY <2>1 DEF Sums
  <2> QED BY <1>1, <2>2
<1>3. /\ g[s] = f[First(s)] + g[s \ {First(s)}]
      /\ First(s) \in s /\ s \ {First(s)} \in SUBSET S
  BY <1>1, <1>2, SumsStep
<1>4. g[s \ {First(s)}] \in Nat
  BY <1>1, <1>3
<1>5. f[First(s)] \in Nat
  BY <1>1, <1>3
<1> QED BY <1>1, <1>3, <1>4, <1>5

\* What Prometheus answers for a topic with gauges is a number.
LEMMA AnswerIsNatural ==
    ASSUME gauge \in [Partitions -> LagOrMissing]
    PROVE  SumByTopic \in Nat
<1>1. SumByTopic = (CHOOSE g : Sums(gauge, g, Known))[Known]
  BY DEF SumByTopic, MapThenSumSet, MapThenFoldSet, Sums, First
<1>2. IsFiniteSet(Known)
  BY FS_Subset, BackpressureAssumption DEF Known
<1>3. PICK h : Sums(gauge, h, Known)
  BY <1>2, SumsExist
<1>4. Sums(gauge, CHOOSE g : Sums(gauge, g, Known), Known)
  BY <1>3, Zenon
<1>5. \A p \in Known : gauge[p] \in Nat
  BY DEF Known, LagOrMissing
<1> QED BY <1>1, <1>2, <1>4, <1>5, SumsAreNatural
-----------------------------------------------------------------------------
(* The types, and what it takes for the API to lose sight of a topic.       *)

\* The types of what the exporter does not use.
AnswersOK ==
    /\ epc = "Set" => todo # {}
    /\ prom \in LagOrMissing /\ cache \in LagOrMissing
    /\ inFlight \in Nat /\ faults \in Nat

\* Without a fault, what is in the cache is in the next answer, and what is in
\* an answer has a gauge, which stays.
OnceSeen ==
    faults = 0 => /\ cache # Missing => prom # Missing
                  /\ prom # Missing => Known # {}

SeenInv == OffsetsOK /\ AnswersOK /\ OnceSeen

LEMMA InitSeenInv == Init => SeenInv
<1> SUFFICES ASSUME Init PROVE SeenInv
  OBVIOUS
<1>1. OffsetsOK
  BY InitIInv DEF IInv
<1>2. AnswersOK /\ OnceSeen
  BY DEF Init, AnswersOK, OnceSeen, LagOrMissing
<1> QED BY <1>1, <1>2 DEF SeenInv

\* Gauges are only set, or lost with the exporter.
LEMMA CollectSees ==
    ASSUME SeenInv, Collect \/ CollectFails \/ ExporterRestarts
    PROVE  AnswersOK' /\ OnceSeen'
<1> USE DEF AnswersOK, kafkaVars, apiVars
<1>1. /\ faults \in Nat /\ gauge \in [Partitions -> LagOrMissing]
      /\ UNCHANGED <<prom, cache, inFlight>>
  BY DEF SeenInv, OffsetsOK, LagOrMissing, Collect, ListOffsets, OffsetFetch, SetGauge,
         CollectFails, ExporterRestarts
<1>2. ASSUME UNCHANGED gauge, faults' = faults \/ faults' = faults + 1 PROVE OnceSeen'
  BY <1>1, <1>2 DEF SeenInv, OnceSeen, Known
<1>3. CASE ListOffsets
  <2>1. faults' \in Nat /\ (faults' = faults \/ faults' = faults + 1)
    BY <1>1, <1>3 DEF ListOffsets, Fault
  <2>2. UNCHANGED gauge /\ epc' = "OffsetFetch"
    BY <1>3 DEF ListOffsets
  <2> QED BY <1>1, <1>2, <2>1, <2>2 DEF SeenInv
<1>4. CASE OffsetFetch
  <2>1. faults' \in Nat /\ (faults' = faults \/ faults' = faults + 1)
    BY <1>1, <1>4 DEF OffsetFetch, Fault
  <2>2. UNCHANGED gauge /\ todo' = Partitions /\ Partitions # {}
    BY <1>4 DEF OffsetFetch
  <2> QED BY <1>1, <1>2, <2>1, <2>2 DEF SeenInv
<1>5. ASSUME NEW p \in Partitions, SetGauge(p) PROVE AnswersOK' /\ OnceSeen'
  <2>1. /\ gauge' = [gauge EXCEPT ![p] = Clamp(ends[p] - fetched[p])]
        /\ UNCHANGED faults
    BY <1>5 DEF SetGauge, Set, EndAsked
  <2>2. Clamp(ends[p] - fetched[p]) \in Nat
    BY DEF SeenInv, OffsetsOK, Clamp
  <2>3. Clamp(ends[p] - fetched[p]) # Missing
    BY <2>2, BackpressureAssumption
  <2>4. p \in Known'
    BY <1>1, <2>1, <2>3 DEF Known
  <2>5. epc' = "Set" => todo' # {}
    BY <1>5 DEF SetGauge, CollectEnds
  <2> QED BY <1>1, <2>1, <2>4, <2>5 DEF SeenInv, OnceSeen
<1>6. CASE CollectFails
  <2>1. faults' = faults + 1 /\ UNCHANGED gauge /\ epc' = "ListOffsets"
    BY <1>6 DEF CollectFails, Fault, CollectEnds
  <2> QED BY <1>1, <1>2, <2>1 DEF SeenInv
<1>7. CASE ExporterRestarts
  <2>1. faults' = faults + 1 /\ epc' = "ListOffsets"
    BY <1>7 DEF ExporterRestarts, Fault, CollectEnds
  <2> QED BY <1>1, <2>1 DEF SeenInv, OnceSeen
<1> QED BY <1>3, <1>4, <1>5, <1>6, <1>7 DEF Collect

\* The answers go from one to the next as they are.
LEMMA PollsSee ==
    ASSUME SeenInv, Scrape \/ ScrapeFails \/ Refresh \/ ApiRestarts
    PROVE  AnswersOK' /\ OnceSeen'
<1> USE DEF AnswersOK, SeenInv, OnceSeen, exporterVars
<1>1. UNCHANGED <<epc, todo, gauge>> /\ Known' = Known
  BY DEF Scrape, ScrapeFails, Refresh, ApiRestarts, Known
<1>2. CASE Scrape
  <2>1. SumByTopic \in Nat
    BY AnswerIsNatural DEF OffsetsOK, LagOrMissing
  <2>2. SumByTopic # Missing
    BY <2>1, BackpressureAssumption
  <2>3. UNCHANGED <<cache, inFlight, faults>>
    BY <1>2 DEF Scrape, apiVars
  <2>4. prom' = IF Known = {} THEN Missing ELSE SumByTopic
    BY <1>2 DEF Scrape
  <2>5. AnswersOK'
    BY <1>1, <2>1, <2>3, <2>4 DEF LagOrMissing
  <2> QED BY <1>1, <2>2, <2>3, <2>4, <2>5
<1>3. CASE ScrapeFails
  BY <1>1, <1>3 DEF ScrapeFails, Fault, LagOrMissing, apiVars
<1>4. CASE Refresh
  BY <1>1, <1>4 DEF Refresh, Replace
<1>5. CASE ApiRestarts
  BY <1>1, <1>5 DEF ApiRestarts, Fault, LagOrMissing
<1> QED BY <1>2, <1>3, <1>4, <1>5

LEMMA NextSeenInv ==
    ASSUME SeenInv, AnswersBound, [Next]_vars
    PROVE  SeenInv'
<1>1. OffsetsOK'
  BY NextIInv DEF SeenInv, IInv
<1>2. ASSUME UNCHANGED <<exporterVars, prom, cache, faults>>, inFlight' \in Nat
      PROVE  AnswersOK' /\ OnceSeen'
  BY <1>2 DEF SeenInv, AnswersOK, OnceSeen, Known, exporterVars
<1>3. inFlight \in Nat
  BY DEF SeenInv, AnswersOK
<1>4. ASSUME PostJob PROVE AnswersOK' /\ OnceSeen'
  BY <1>2, <1>3, <1>4 DEF PostJob
<1>5. ASSUME SubmitJob PROVE AnswersOK' /\ OnceSeen'
  BY <1>2, <1>3, <1>5 DEF SubmitJob
<1>6. ASSUME NEW p \in Partitions, PublishUnasked(p) \/ CommitMessage(p)
      PROVE  AnswersOK' /\ OnceSeen'
  BY <1>2, <1>3, <1>6 DEF PublishUnasked, CommitMessage, apiVars
<1>7. ASSUME UNCHANGED vars PROVE AnswersOK' /\ OnceSeen'
  BY <1>2, <1>3, <1>7 DEF vars, apiVars
<1>8. AnswersOK' /\ OnceSeen'
  BY <1>4, <1>5, <1>6, <1>7, CollectSees, PollsSee DEF Next
<1> QED BY <1>1, <1>8 DEF SeenInv

\* Every variable has its type: an answer of Prometheus is a number or nothing,
\* and an exporter that sets gauges has one to set.
THEOREM BackpressureTypeCorrect == Spec => []TypeOK
<1>1. Init => IInv /\ SeenInv
  BY InitIInv, InitSeenInv
<1>2. IInv /\ SeenInv /\ [Next]_vars => (IInv /\ SeenInv)'
  BY NextIInv, NextSeenInv DEF IInv
<1>3. SeenInv => TypeOK
  BY DEF SeenInv, OffsetsOK, AnswersOK, TypeOK, LagOrMissing
<1> QED BY <1>1, <1>2, <1>3, PTL DEF Spec

\* As long as nothing fails, the API never loses sight of a topic whose lag it
\* has seen: not by draining it, not by any order of the three loops.
THEOREM BackpressureFailsOpenByFault == Spec => FailsOpenOnlyByFault
<1>1. Init => IInv /\ SeenInv
  BY InitIInv, InitSeenInv
<1>2. IInv /\ SeenInv /\ [Next]_vars => (IInv /\ SeenInv)'
  BY NextIInv, NextSeenInv DEF IInv
<1>3. ASSUME SeenInv, SeenInv', Next, cache' = Missing, cache # Missing
      PROVE  faults' > 0
  <2>1. faults \in Nat /\ faults' \in Nat
    BY <1>3 DEF SeenInv, AnswersOK
  <2>2. CASE Refresh
    BY <1>3, <2>1, <2>2 DEF Refresh, Replace, SeenInv, OnceSeen
  <2>3. CASE ApiRestarts
    BY <2>1, <2>3 DEF ApiRestarts, Fault
  <2>4. CASE ~Refresh /\ ~ApiRestarts
    BY <1>3, <2>4 DEF Next, Collect, ListOffsets, OffsetFetch, SetGauge, CollectFails,
       ExporterRestarts, PostJob, SubmitJob, PublishUnasked, CommitMessage, Scrape,
       ScrapeFails, apiVars
  <2> QED BY <2>2, <2>3, <2>4
<1>4. SeenInv /\ SeenInv' /\ [Next]_vars
      => [cache' = Missing => cache = Missing \/ faults' > 0]_vars
  BY <1>3
<1> QED BY <1>1, <1>2, <1>4, PTL DEF Spec, FailsOpenOnlyByFault
=============================================================================
