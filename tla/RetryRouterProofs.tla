------------------------- MODULE RetryRouterProofs -------------------------
(***************************************************************************)
(* Theorems about RetryRouter, for any messages, attempts and resolution   *)
(* of the clock, and whatever restarts and failures: type correctness, that *)
(* a message is skipped only when its publish was refused, that the backoff *)
(* is kept to the second, that each repeat has a fault of its own, and that *)
(* the router implements the steps of the abstract service.                *)
(***************************************************************************)
EXTENDS RetryRouter, Integers, FiniteSetTheorems, TLAPS

-----------------------------------------------------------------------------
(* Arithmetic of the header.                                                *)

\* Cutting the fraction of a second off takes less than a second.
LEMMA UnixIsClose ==
    ASSUME NEW t \in Nat
    PROVE  Unix(t) + TicksPerSecond > t /\ Unix(t) \in Nat
<1>1. TicksPerSecond \in Int /\ TicksPerSecond > 0
  BY RouterAssumption
<1>2. t < TicksPerSecond * (t \div TicksPerSecond) + TicksPerSecond
  BY <1>1, SMTT(30)
<1>3. TicksPerSecond * (t \div TicksPerSecond) \in Nat
  BY <1>1, SMTT(30)
<1> QED BY <1>1, <1>2, <1>3 DEF Unix

-----------------------------------------------------------------------------
(* The offsets.                                                            *)

\* The reader is one ahead of the message it works on, and every message
\* before that one was republished or refused; the committed offset is behind
\* the message until drain comes to the commit.
Passed(i) == (\E k \in DOMAIN out : out[k].offset = i) \/ i \in refused

Positions ==
    /\ pc # "fetch" => held = position - 1 /\ committed < held
    /\ committed < position
    /\ \A i \in 1 .. position - 1 :
          Passed(i) \/ (i = held /\ pc \in {"wait", "publish"})

\* A message that is waited for no more is due up to the second.
DueWhenWoken == pc = "publish" => now + TicksPerSecond > log[held]

IInv == TypeOK /\ Positions /\ DueWhenWoken /\ BackoffHonoured

LEMMA InitIInv == Init => IInv
BY RouterAssumption DEF Init, IInv, TypeOK, Positions, DueWhenWoken, BackoffHonoured

\* The conjuncts of TypeOK on offsets, apart from those on sequences.
Records(n) == [offset : 1 .. n, at : Nat]

OffsetsTyped(n) ==
    /\ n \in Nat
    /\ position \in 1 .. n + 1 /\ committed \in 0 .. n
    /\ pc \in {"fetch", "wait", "publish", "commit"}
    /\ held \in 0 .. n /\ (held = 0 <=> pc = "fetch")
    /\ refused \subseteq 1 .. n

RestTyped == now \in Nat /\ faults \in Nat /\ log \in Seq(Nat)

LEMMA TypeParts ==
    TypeOK <=> RestTyped /\ OffsetsTyped(Len(log)) /\ out \in Seq(Records(Len(log)))
<1>1. log \in Seq(Nat) => DOMAIN log = 1 .. Len(log) /\ Len(log) \in Nat
  OBVIOUS
<1> QED BY <1>1 DEF TypeOK, RestTyped, OffsetsTyped, Records

LEMMA SeqGrows ==
    ASSUME NEW S, NEW T, S \subseteq T, NEW seq \in Seq(S) PROVE seq \in Seq(T)
OBVIOUS

LEMMA SendToRetryKeeps ==
    ASSUME IInv, NEW a \in Attempts, SendToRetry(a)
    PROVE  IInv'
<1> USE DEF IInv
<1>0. RestTyped /\ OffsetsTyped(Len(log)) /\ out \in Seq(Records(Len(log)))
  BY TypeParts
<1>1. PICK d \in Delay(a) : log' = Append(log, now + d)
  BY DEF SendToRetry
<1>2. now + d \in Nat
  BY <1>0, DelayAssumption DEF RestTyped
<1>3. /\ log' \in Seq(Nat) /\ Len(log') = Len(log) + 1
      /\ \A i \in 1 .. Len(log) : log'[i] = log[i]
  BY <1>0, <1>1, <1>2 DEF RestTyped
<1>4. UNCHANGED <<now, position, committed, pc, held, out, refused, faults>>
  BY DEF SendToRetry
<1>5. TypeOK'
  <2>1. OffsetsTyped(Len(log))'
    BY <1>0, <1>3, <1>4 DEF OffsetsTyped
  <2>2. Records(Len(log)) \subseteq Records(Len(log'))
    BY <1>0, <1>3 DEF Records, OffsetsTyped
  <2>3. out \in Seq(Records(Len(log')))
    BY <1>0, <2>2, SeqGrows
  <2>4. RestTyped'
    BY <1>0, <1>3, <1>4 DEF RestTyped
  <2> QED BY <1>4, <2>1, <2>3, <2>4, TypeParts DEF TypeOK, RestTyped, OffsetsTyped, Records
<1>6. Positions'
  BY <1>4 DEF Positions, Passed
<1>7. DueWhenWoken'
  <2>1. pc = "publish" => held \in 1 .. Len(log)
    BY <1>0 DEF OffsetsTyped
  <2> QED BY <1>3, <1>4, <2>1 DEF DueWhenWoken
<1>8. BackoffHonoured'
  <2> SUFFICES ASSUME NEW k \in DOMAIN out
               PROVE  out[k].at + TicksPerSecond > log'[out[k].offset]
    BY <1>4 DEF BackoffHonoured
  <2>1. out[k] \in Records(Len(log))
    BY <1>0
  <2>2. log'[out[k].offset] = log[out[k].offset]
    BY <1>3, <2>1 DEF Records
  <2> QED BY <2>2 DEF BackoffHonoured
<1> QED BY <1>5, <1>6, <1>7, <1>8

\* The message held is republished: where the log of what was sent goes.
LEMMA AppendOut ==
    ASSUME IInv, pc = "publish",
           out' = Append(out, [offset |-> held, at |-> now]), UNCHANGED log
    PROVE  /\ out' \in Seq(Records(Len(log)))
           /\ \A i : (\E k \in DOMAIN out : out[k].offset = i)
                     => \E k \in DOMAIN out' : out'[k].offset = i
           /\ \E k \in DOMAIN out' : out'[k].offset = held
           /\ BackoffHonoured'
<1>0. RestTyped /\ OffsetsTyped(Len(log)) /\ out \in Seq(Records(Len(log)))
  BY TypeParts DEF IInv
<1> DEFINE new == [offset |-> held, at |-> now]
<1>1. new \in Records(Len(log))
  BY <1>0 DEF Records, OffsetsTyped, RestTyped
<1>2. /\ out' \in Seq(Records(Len(log))) /\ Len(out') = Len(out) + 1
      /\ \A k \in 1 .. Len(out) : out'[k] = out[k]
      /\ out'[Len(out) + 1] = new
  BY <1>0, <1>1
<1>3. DOMAIN out = 1 .. Len(out) /\ DOMAIN out' = 1 .. Len(out) + 1 /\ Len(out) \in Nat
  BY <1>0, <1>2
<1>4. BackoffHonoured'
  <2> SUFFICES ASSUME NEW k \in DOMAIN out'
               PROVE  out'[k].at + TicksPerSecond > log[out'[k].offset]
    BY DEF BackoffHonoured
  <2>1. CASE k = Len(out) + 1
    BY <1>2, <2>1 DEF IInv, DueWhenWoken
  <2>2. CASE k \in 1 .. Len(out)
    BY <1>2, <1>3, <2>2 DEF IInv, BackoffHonoured
  <2> QED BY <1>3, <2>1, <2>2
<1>5. ASSUME NEW k \in DOMAIN out PROVE k \in DOMAIN out' /\ out'[k].offset = out[k].offset
  BY <1>2, <1>3
<1>6. Len(out) + 1 \in DOMAIN out' /\ out'[Len(out) + 1].offset = held
  BY <1>2, <1>3
<1> QED BY <1>2, <1>4, <1>5, <1>6

LEMMA DrainKeeps ==
    ASSUME IInv, DrainStep
    PROVE  IInv'
<1> USE DEF IInv
<1>0. RestTyped /\ OffsetsTyped(Len(log)) /\ out \in Seq(Records(Len(log)))
  BY TypeParts
<1>1. CASE FetchMessage
  <2>1. OffsetsTyped(Len(log))'
    BY <1>0, <1>1 DEF FetchMessage, OffsetsTyped
  <2>2. RestTyped' /\ (out \in Seq(Records(Len(log))))'
    BY <1>0, <1>1 DEF FetchMessage, RestTyped
  <2>3. Positions'
    BY <1>0, <1>1 DEF FetchMessage, OffsetsTyped, Positions, Passed
  <2>4. TypeOK'
    BY <2>1, <2>2, TypeParts, PTL
  <2> QED BY <1>1, <2>3, <2>4 DEF FetchMessage, DueWhenWoken, BackoffHonoured
<1>2. CASE Wake
  <2>1. OffsetsTyped(Len(log))'
    BY <1>0, <1>2 DEF Wake, OffsetsTyped
  <2>2. RestTyped' /\ (out \in Seq(Records(Len(log))))'
    BY <1>0, <1>2 DEF Wake, RestTyped
  <2>3. Positions'
    BY <1>2 DEF Wake, Positions, Passed
  <2>4. TypeOK'
    BY <2>1, <2>2, TypeParts, PTL
  <2>5. DueWhenWoken'
    <3>1. log[held] \in Nat /\ now >= Unix(log[held]) /\ now \in Nat
      BY <1>0, <1>2 DEF Wake, OffsetsTyped, RestTyped
    <3>2. Unix(log[held]) + TicksPerSecond > log[held] /\ Unix(log[held]) \in Nat
      BY <3>1, UnixIsClose
    <3>3. now + TicksPerSecond > log[held]
      BY <3>1, <3>2, RouterAssumption
    <3> QED BY <1>2, <3>3 DEF Wake, DueWhenWoken
  <2> QED BY <1>2, <2>3, <2>4, <2>5 DEF Wake, BackoffHonoured
<1>3. CASE Publish
  <2>1. /\ pc = "publish" /\ pc' = "commit"
        /\ UNCHANGED <<now, log, position, committed, held, refused, faults>>
        /\ out' = Append(out, [offset |-> held, at |-> now])
    BY <1>3 DEF Publish
  <2>2. OffsetsTyped(Len(log))' /\ RestTyped'
    BY <1>0, <2>1 DEF OffsetsTyped, RestTyped
  <2>3. (out \in Seq(Records(Len(log))))' /\ BackoffHonoured'
    BY <2>1, AppendOut
  <2>4. TypeOK'
    BY <2>2, <2>3, TypeParts, PTL
  <2>5. Positions'
    BY <2>1, AppendOut DEF Positions, Passed
  <2> QED BY <2>1, <2>3, <2>4, <2>5 DEF DueWhenWoken
<1>4. CASE CommitMessage
  <2>1. OffsetsTyped(Len(log))'
    BY <1>0, <1>4 DEF CommitMessage, OffsetsTyped
  <2>2. RestTyped' /\ (out \in Seq(Records(Len(log))))'
    BY <1>0, <1>4 DEF CommitMessage, RestTyped
  <2>3. Positions'
    BY <1>0, <1>4 DEF CommitMessage, OffsetsTyped, Positions, Passed
  <2>4. TypeOK'
    BY <2>1, <2>2, TypeParts, PTL
  <2> QED BY <1>4, <2>3, <2>4 DEF CommitMessage, DueWhenWoken, BackoffHonoured
<1> QED BY <1>1, <1>2, <1>3, <1>4 DEF DrainStep

LEMMA FaultKeeps ==
    ASSUME IInv, PublishFails \/ CommitFails \/ Restart
    PROVE  IInv'
<1> USE DEF IInv
<1>0. RestTyped /\ OffsetsTyped(Len(log)) /\ out \in Seq(Records(Len(log)))
  BY TypeParts
<1>1. CASE PublishFails
  <2>1. /\ pc = "publish" /\ pc' = "fetch" /\ held' = 0 /\ faults' = faults + 1
        /\ refused' = refused \cup {held}
        /\ UNCHANGED <<now, log, position, committed>>
    BY <1>1 DEF PublishFails, Fault
  <2>2. /\ out' \in Seq(Records(Len(log))) /\ BackoffHonoured'
        /\ \A i : (\E k \in DOMAIN out : out[k].offset = i)
                  => \E k \in DOMAIN out' : out'[k].offset = i
    <3>1. CASE out' = out
      BY <1>0, <2>1, <3>1 DEF BackoffHonoured
    <3>2. CASE out' = Append(out, [offset |-> held, at |-> now])
      BY <2>1, <3>2, AppendOut
    <3> QED BY <1>1, <3>1, <3>2 DEF PublishFails
  <2>3. OffsetsTyped(Len(log))' /\ RestTyped'
    BY <1>0, <2>1 DEF OffsetsTyped, RestTyped
  <2>4. (out \in Seq(Records(Len(log))))'
    BY <2>1, <2>2
  <2>5. TypeOK'
    BY <2>3, <2>4, TypeParts, PTL
  <2>6. Positions'
    BY <1>0, <2>1, <2>2 DEF OffsetsTyped, Positions, Passed
  <2> QED BY <2>1, <2>2, <2>5, <2>6 DEF DueWhenWoken
<1>2. CASE CommitFails \/ Restart
  <2>1. /\ pc' = "fetch" /\ held' = 0 /\ faults' = faults + 1
        /\ \/ position' = position /\ pc = "commit"
           \/ position' = committed + 1
        /\ UNCHANGED <<now, log, committed, out, refused>>
    BY <1>2 DEF CommitFails, Restart, Fault
  <2>2. OffsetsTyped(Len(log))' /\ RestTyped' /\ (out \in Seq(Records(Len(log))))'
    BY <1>0, <2>1 DEF OffsetsTyped, RestTyped
  <2>3. TypeOK'
    BY <2>2, TypeParts, PTL
  <2>4. Positions'
    BY <1>0, <2>1 DEF OffsetsTyped, Positions, Passed
  <2> QED BY <2>1, <2>3, <2>4 DEF DueWhenWoken, BackoffHonoured
<1> QED BY <1>1, <1>2

LEMMA NextIInv ==
    ASSUME IInv, [Next]_vars
    PROVE  IInv'
<1> USE DEF IInv
<1>1. ASSUME Tick PROVE IInv'
  BY <1>1, RouterAssumption DEF Tick, TypeOK, Positions, Passed, DueWhenWoken,
                                BackoffHonoured
<1>2. ASSUME UNCHANGED vars PROVE IInv'
  BY <1>2 DEF vars, TypeOK, Positions, Passed, DueWhenWoken, BackoffHonoured
<1> QED BY <1>1, <1>2, SendToRetryKeeps, DrainKeeps, FaultKeeps DEF Next, Drained

LEMMA SpecIInv == Spec => []IInv
BY InitIInv, NextIInv, PTL DEF Spec

\* Every variable has its type.
THEOREM RouterTypeCorrect == Spec => []TypeOK
<1>1. IInv => TypeOK
  BY DEF IInv
<1> QED BY <1>1, SpecIInv, PTL

\* Restarts and failed commits skip no message: only a refused publish does.
THEOREM SkippedWasRefused == Spec => []LostOnlyIfRefused
<1>1. IInv => LostOnlyIfRefused
  <2> SUFFICES ASSUME IInv, NEW i \in 1 .. committed
               PROVE  Times(i) # {} \/ i \in refused
    BY DEF LostOnlyIfRefused
  <2>1. Passed(i)
    BY DEF IInv, TypeOK, Positions
  <2> QED BY <2>1 DEF Passed, Times
<1> QED BY <1>1, SpecIInv, PTL

\* No retry comes back a second or more before the time chosen for it.
THEOREM BackoffIsHonoured == Spec => []BackoffHonoured
<1>1. IInv => BackoffHonoured
  BY DEF IInv
<1> QED BY <1>1, SpecIInv, PTL

-----------------------------------------------------------------------------
(* Repeats.                                                                *)

Republished == {out[k].offset : k \in DOMAIN out}

\* The offsets that went out and that no commit covers: what a new reader
\* would send a second time, except for the one about to be committed.
Exposed == {i \in Republished : i > committed /\ ~(pc = "commit" /\ i = held)}

\* Each fault pays for one repeat: for one that was made, or for one that an
\* offset out of the committed range still has to come.
RepeatsPaid ==
    Len(out) + Cardinality(Exposed) <= Cardinality(Republished) + faults

LEMMA OffsetsAreLogged ==
    ASSUME TypeOK
    PROVE  \A k \in DOMAIN out : out[k].offset \in 1 .. Len(log)
<1>1. out \in Seq(Records(Len(log)))
  BY TypeParts
<1>2. \A k \in DOMAIN out : out[k] \in Records(Len(log))
  BY <1>1
<1> QED BY <1>2 DEF Records

LEMMA OffsetsAreFinite ==
    ASSUME TypeOK
    PROVE  /\ IsFiniteSet(Republished) /\ Cardinality(Republished) \in Nat
           /\ IsFiniteSet(Exposed) /\ Cardinality(Exposed) \in Nat
           /\ Len(out) \in Nat /\ DOMAIN out = 1 .. Len(out)
<1>1. Len(log) \in Nat /\ log \in Seq(Nat) /\ out \in Seq([offset : 1 .. Len(log), at : Nat])
  BY DEF TypeOK
<1>2. \A k \in DOMAIN out : out[k].offset \in 1 .. Len(log)
  BY OffsetsAreLogged
<1>3. IsFiniteSet(1 .. Len(log))
  BY <1>1, FS_Interval
<1>4. Republished \in SUBSET (1 .. Len(log)) /\ Exposed \in SUBSET Republished
  BY <1>2 DEF Republished, Exposed
<1>5. IsFiniteSet(Republished)
  BY <1>3, <1>4, FS_Subset
<1>6. IsFiniteSet(Exposed)
  BY <1>4, <1>5, FS_Subset
<1> QED BY <1>1, <1>5, <1>6, FS_CardinalityType

\* Appending the message held adds its offset, and one to the length.
LEMMA AppendRepublished ==
    ASSUME TypeOK, out' = Append(out, [offset |-> held, at |-> now])
    PROVE  Len(out') = Len(out) + 1 /\ Republished' = Republished \cup {held}
<1> DEFINE new == [offset |-> held, at |-> now]
<1>1. /\ DOMAIN out = 1 .. Len(out) /\ Len(out) \in Nat
      /\ Len(out') = Len(out) + 1 /\ DOMAIN out' = 1 .. Len(out) + 1
      /\ \A k \in 1 .. Len(out) : out'[k] = out[k]
      /\ out'[Len(out) + 1] = new
  BY DEF TypeOK
<1>2. new.offset = held
  OBVIOUS
<1>3. Republished' \subseteq Republished \cup {held}
  <2> SUFFICES ASSUME NEW k \in DOMAIN out', out'[k].offset # held
               PROVE  out'[k].offset \in Republished
    BY DEF Republished
  <2>1. k \in 1 .. Len(out)
    BY <1>1, <1>2
  <2> QED BY <1>1, <2>1 DEF Republished
<1>4. Republished \subseteq Republished'
  <2> SUFFICES ASSUME NEW k \in DOMAIN out PROVE out[k].offset \in Republished'
    BY DEF Republished
  <2>1. k \in DOMAIN out' /\ out'[k] = out[k]
    BY <1>1
  <2> QED BY <2>1 DEF Republished
<1>5. held \in Republished'
  <2>1. Len(out) + 1 \in DOMAIN out' /\ out'[Len(out) + 1].offset = held
    BY <1>1, <1>2
  <2> QED BY <2>1 DEF Republished
<1> QED BY <1>1, <1>3, <1>4, <1>5

\* A step that sends nothing and exposes nothing costs nothing; a fault pays
\* for the one offset it may expose.
LEMMA NothingSent ==
    ASSUME TypeOK, TypeOK', RepeatsPaid, UNCHANGED out,
           \/ faults' = faults /\ Exposed' \subseteq Exposed
           \/ faults' = faults + 1 /\ Exposed' \subseteq Exposed \cup {held}
    PROVE  RepeatsPaid'
<1> DEFINE e == Cardinality(Exposed)
           f == Cardinality(Exposed')
           r == Cardinality(Republished)
<1>1. IsFiniteSet(Exposed) /\ e \in Nat /\ r \in Nat /\ Len(out) \in Nat
  BY OffsetsAreFinite
<1>2. faults \in Nat
  BY DEF TypeOK
<1>3. IsFiniteSet(Exposed \cup {held})
      /\ Cardinality(Exposed \cup {held}) \in {e, e + 1}
  BY <1>1, FS_AddElement
<1>4. Republished' = Republished
  BY DEF Republished
<1>5. Cardinality(Republished') = r /\ Len(out') = Len(out)
  BY <1>4
<1>6. CASE faults' = faults /\ Exposed' \subseteq Exposed
  <2>1. IsFiniteSet(Exposed') /\ f <= e
    BY <1>1, <1>6, FS_Subset
  <2>2. f \in Nat
    BY <2>1, FS_CardinalityType
  <2>3. Len(out') + f <= Cardinality(Republished') + faults'
    <3>1. Len(out) + e <= r + faults
      BY DEF RepeatsPaid
    <3> HIDE DEF e, f, r
    <3> QED BY <1>1, <1>2, <1>5, <1>6, <2>1, <2>2, <3>1
  <2> QED BY <2>3 DEF RepeatsPaid
<1>7. CASE faults' = faults + 1 /\ Exposed' \subseteq Exposed \cup {held}
  <2>1. IsFiniteSet(Exposed') /\ f <= Cardinality(Exposed \cup {held})
    BY <1>3, <1>7, FS_Subset
  <2>2. f \in Nat
    BY <2>1, FS_CardinalityType
  <2>3. Len(out') + f <= Cardinality(Republished') + faults'
    <3>1. Len(out) + e <= r + faults
      BY DEF RepeatsPaid
    <3>2. f <= e + 1
      BY <1>1, <1>3, <2>1, <2>2
    <3> HIDE DEF e, f, r
    <3> QED BY <1>1, <1>2, <1>5, <1>7, <3>2, <2>2, <3>1
  <2> QED BY <2>3 DEF RepeatsPaid
<1> QED BY <1>6, <1>7

\* Sending a message again takes an offset that was exposed; it stays exposed
\* only when the step is a fault.
LEMMA HeldSent ==
    ASSUME IInv, TypeOK', RepeatsPaid, pc = "publish",
           out' = Append(out, [offset |-> held, at |-> now]),
           \/ faults' = faults /\ Exposed' \subseteq Exposed \ {held}
           \/ faults' = faults + 1 /\ Exposed' \subseteq Exposed \cup {held}
    PROVE  RepeatsPaid'
<1> DEFINE e == Cardinality(Exposed)
           f == Cardinality(Exposed')
           r == Cardinality(Republished)
           s == Cardinality(Republished')
<1>1. /\ IsFiniteSet(Exposed) /\ e \in Nat /\ Len(out) \in Nat
      /\ IsFiniteSet(Republished) /\ r \in Nat
  BY OffsetsAreFinite DEF IInv
<1>2. faults \in Nat
  BY DEF IInv, TypeOK
<1>3. Len(out') = Len(out) + 1 /\ Republished' = Republished \cup {held}
  BY AppendRepublished DEF IInv
<1>4. s = (IF held \in Republished THEN r ELSE r + 1)
  BY <1>1, <1>3, FS_AddElement
<1>5. held \in Republished <=> held \in Exposed
  <2>1. held > committed
    BY DEF IInv, TypeOK, Positions
  <2> QED BY <2>1 DEF Exposed
<1>6. /\ IsFiniteSet(Exposed \cup {held}) /\ IsFiniteSet(Exposed \ {held})
      /\ Cardinality(Exposed \cup {held}) = IF held \in Exposed THEN e ELSE e + 1
      /\ Cardinality(Exposed \ {held}) = IF held \in Exposed THEN e - 1 ELSE e
  BY <1>1, FS_AddElement, FS_RemoveElement
<1>7. f \in Nat
  <2>1. Exposed' \in SUBSET (Exposed \cup {held})
    OBVIOUS
  <2>2. IsFiniteSet(Exposed')
    BY <1>6, <2>1, FS_Subset
  <2> QED BY <2>2, FS_CardinalityType
<1>8. Len(out) + e <= r + faults
  BY DEF RepeatsPaid
<1>9. CASE faults' = faults /\ Exposed' \subseteq Exposed \ {held}
  <2>1. f <= Cardinality(Exposed \ {held})
    BY <1>6, <1>9, FS_Subset
  <2>2. f <= (IF held \in Exposed THEN e - 1 ELSE e)
    BY <1>6, <2>1
  <2>3. Len(out') + f <= s + faults'
    <3> HIDE DEF e, f, r, s
    <3> QED BY <1>1, <1>2, <1>3, <1>4, <1>5, <1>7, <1>8, <1>9, <2>2
  <2> QED BY <2>3 DEF RepeatsPaid
<1>10. CASE faults' = faults + 1 /\ Exposed' \subseteq Exposed \cup {held}
  <2>1. f <= Cardinality(Exposed \cup {held})
    BY <1>6, <1>10, FS_Subset
  <2>2. f <= (IF held \in Exposed THEN e ELSE e + 1)
    BY <1>6, <2>1
  <2>3. Len(out') + f <= s + faults'
    <3> HIDE DEF e, f, r, s
    <3> QED BY <1>1, <1>2, <1>3, <1>4, <1>5, <1>7, <1>8, <1>10, <2>2
  <2> QED BY <2>3 DEF RepeatsPaid
<1> QED BY <1>9, <1>10

LEMMA NextRepeatsPaid ==
    ASSUME IInv, IInv', RepeatsPaid, [Next]_vars
    PROVE  RepeatsPaid'
<1>0. TypeOK /\ TypeOK'
  BY DEF IInv
<1>1. ASSUME \/ (\E a \in Attempts : SendToRetry(a)) \/ FetchMessage \/ Wake
             \/ Tick \/ UNCHANGED vars
      PROVE  RepeatsPaid'
  <2>1. UNCHANGED <<out, committed, faults>> /\ (pc = "commit" <=> pc' = "commit")
        /\ (pc = "commit" => UNCHANGED held)
    BY <1>1 DEF SendToRetry, FetchMessage, Wake, Tick, vars
  <2>2. Exposed' \subseteq Exposed
    BY <2>1 DEF Exposed, Republished
  <2> QED BY <1>0, <2>1, <2>2, NothingSent
<1>2. ASSUME CommitMessage PROVE RepeatsPaid'
  <2>1. /\ pc = "commit" /\ committed' = held /\ pc' = "fetch"
        /\ UNCHANGED <<out, faults>> /\ committed < held
    BY <1>2 DEF CommitMessage, IInv, Positions
  <2>2. Republished' = Republished
    BY <2>1 DEF Republished
  <2>3. \A i \in Republished : i \in Nat
    BY <1>0, OffsetsAreLogged DEF Republished
  <2>4. committed \in Nat /\ held \in Nat
    BY <1>0 DEF TypeOK
  <2>5. Exposed' \subseteq Exposed
    BY <2>1, <2>2, <2>3, <2>4 DEF Exposed
  <2> QED BY <1>0, <2>1, <2>5, NothingSent
<1>3. ASSUME CommitFails \/ Restart PROVE RepeatsPaid'
  <2>1. faults' = faults + 1 /\ UNCHANGED <<out, committed>>
    BY <1>3 DEF CommitFails, Restart, Fault
  <2>2. Exposed' \subseteq Exposed \cup {held}
    BY <2>1 DEF Exposed, Republished
  <2> QED BY <1>0, <2>1, <2>2, NothingSent
<1>4. ASSUME Publish PROVE RepeatsPaid'
  <2>1. /\ pc = "publish" /\ pc' = "commit" /\ UNCHANGED <<held, committed, faults>>
        /\ out' = Append(out, [offset |-> held, at |-> now])
    BY <1>4 DEF Publish
  <2>2. Republished' = Republished \cup {held}
    BY <1>0, <2>1, AppendRepublished
  <2>3. Exposed' \subseteq Exposed \ {held}
    BY <2>1, <2>2 DEF Exposed
  <2> QED BY <1>0, <2>1, <2>3, HeldSent
<1>5. ASSUME PublishFails PROVE RepeatsPaid'
  <2>1. /\ pc = "publish" /\ pc' = "fetch" /\ faults' = faults + 1 /\ UNCHANGED committed
    BY <1>5 DEF PublishFails, Fault
  <2>2. CASE out' = out
    <3>1. Exposed' \subseteq Exposed \cup {held}
      BY <2>1, <2>2 DEF Exposed, Republished
    <3> QED BY <1>0, <2>1, <2>2, <3>1, NothingSent
  <2>3. CASE out' = Append(out, [offset |-> held, at |-> now])
    <3>1. Republished' = Republished \cup {held}
      BY <1>0, <2>3, AppendRepublished
    <3>2. Exposed' \subseteq Exposed \cup {held}
      BY <2>1, <3>1 DEF Exposed
    <3> QED BY <1>0, <2>1, <2>3, <3>2, HeldSent
  <2> QED BY <1>5, <2>2, <2>3 DEF PublishFails
<1> QED BY <1>1, <1>2, <1>3, <1>4, <1>5 DEF Next, DrainStep, Drained

\* A message is republished again only after a restart, a failed commit or a
\* failed publish, and once for each.
THEOREM RepeatsAreBounded == Spec => []RepeatsBounded
<1>1. Init => RepeatsPaid
  <2> SUFFICES ASSUME Init PROVE RepeatsPaid
    OBVIOUS
  <2>1. out = <<>> /\ faults = 0
    BY DEF Init
  <2>2. Republished = {} /\ Exposed = {} /\ Len(out) = 0
    BY <2>1 DEF Republished, Exposed
  <2> QED BY <2>1, <2>2, FS_EmptySet DEF RepeatsPaid
<1>2. IInv /\ IInv' /\ RepeatsPaid /\ [Next]_vars => RepeatsPaid'
  BY NextRepeatsPaid
<1>3. IInv /\ RepeatsPaid => RepeatsBounded
  <2> SUFFICES ASSUME IInv, RepeatsPaid PROVE RepeatsBounded
    OBVIOUS
  <2>1. /\ Cardinality(Republished) \in Nat /\ Cardinality(Exposed) \in Nat
        /\ Len(out) \in Nat /\ faults \in Nat
    BY OffsetsAreFinite DEF IInv, TypeOK
  <2>2. Len(out) <= Cardinality(Republished) + faults
    BY <2>1 DEF RepeatsPaid
  <2> QED BY <2>2 DEF RepeatsBounded, Republished
<1> QED BY <1>1, <1>2, <1>3, SpecIInv, PTL DEF Spec

-----------------------------------------------------------------------------
(* The router implements the steps of the abstract service.                *)

InHand == IF pc \in {"wait", "publish"} THEN {held} ELSE {}
OwedMessages == {i \in DOMAIN log : i >= position} \cup InHand
SettledMessages == {i \in DOMAIN log : Times(i) # {}} \cup refused

\* The published messages are those Republished.
LEMMA SettledIsRepublished ==
    ASSUME TypeOK
    PROVE  SettledMessages = Republished \cup refused
<1>1. \A k \in DOMAIN out : out[k].offset \in DOMAIN log
  <2>1. log \in Seq(Nat)
    BY DEF TypeOK
  <2>2. DOMAIN log = 1 .. Len(log)
    BY <2>1
  <2> QED BY <2>2, OffsetsAreLogged
<1> QED BY <1>1 DEF SettledMessages, Republished, Times

\* What no action does but the ones that publish: settle a message.
LEMMA MoreIsOwed ==
    ASSUME TypeOK', UNCHANGED SettledMessages, OwedMessages \subseteq OwedMessages',
           Len(log') <= MaxMessages
    PROVE  Service!Owe
<1>1. OwedMessages' \subseteq 1 .. MaxMessages
  BY RouterAssumption DEF TypeOK, OwedMessages, InHand
<1>2. OwedMessages' = OwedMessages \cup OwedMessages'
  OBVIOUS
<1> QED BY <1>1, <1>2 DEF Service!Owe, OwedMessages, SettledMessages, InHand

\* The types of the offsets, as the steps below use them.
LEMMA Logged ==
    ASSUME TypeOK
    PROVE  /\ DOMAIN log = 1 .. Len(log) /\ Len(log) \in Nat /\ log \in Seq(Nat)
           /\ held \in 0 .. Len(log) /\ (held = 0 <=> pc = "fetch")
           /\ position \in 1 .. Len(log) + 1 /\ committed \in 0 .. Len(log)
           /\ now \in Nat
<1>1. RestTyped /\ OffsetsTyped(Len(log))
  BY TypeParts
<1> QED BY <1>1 DEF RestTyped, OffsetsTyped

\* The message held leaves the router's hands for good.
LEMMA HeldIsSettled ==
    ASSUME IInv, Len(log) <= MaxMessages, pc = "publish", pc' \notin {"wait", "publish"},
           UNCHANGED <<log, position>>,
           SettledMessages' = SettledMessages \cup {held}
    PROVE  Service!Next
<1>1. /\ held \in DOMAIN log /\ held \in 1 .. MaxMessages
      /\ held < position /\ held \in Nat /\ position \in Nat
  BY RouterAssumption, Logged DEF IInv, Positions
<1>2. held \in OwedMessages /\ OwedMessages' = OwedMessages \ {held}
  BY <1>1 DEF OwedMessages, InHand
<1>3. CASE held \in SettledMessages
  <2>1. SettledMessages' = SettledMessages
    BY <1>3
  <2> QED
    BY <1>1, <1>2, <1>3, <2>1
       DEF Service!Discharge, Service!Next, OwedMessages, SettledMessages, InHand
<1>4. CASE held \notin SettledMessages
  BY <1>1, <1>2, <1>4
     DEF Service!Settle, Service!Next, OwedMessages, SettledMessages, InHand
<1> QED BY <1>3, <1>4

LEMMA RouterRefines ==
    ASSUME IInv, IInv', Len(log') <= MaxMessages, [Next]_vars
    PROVE  [Service!Next]_(Service!serviceVars)
<1>0. TypeOK /\ TypeOK'
  BY DEF IInv
<1>1. /\ SettledMessages = Republished \cup refused
      /\ SettledMessages' = Republished' \cup refused'
  <2>1. (SettledMessages = Republished \cup refused)'
    BY <1>0, SettledIsRepublished, PTL
  <2> QED BY <1>0, <2>1, SettledIsRepublished
<1>2. ASSUME UNCHANGED <<out, refused>>, OwedMessages \subseteq OwedMessages'
      PROVE  Service!Next
  <2>1. Republished' = Republished
    BY <1>2 DEF Republished
  <2>2. UNCHANGED SettledMessages
    BY <1>1, <1>2, <2>1
  <2>3. Service!Owe
    BY <1>0, <1>2, <2>2, MoreIsOwed
  <2> QED BY <2>3 DEF Service!Next
<1>3. ASSUME NEW a \in Attempts, SendToRetry(a) PROVE Service!Next
  <2>1. UNCHANGED <<out, refused, position, pc, held>> /\ DOMAIN log \subseteq DOMAIN log'
    <3>1. PICK d \in Delay(a) : log' = Append(log, now + d)
      BY <1>3 DEF SendToRetry
    <3>2. now + d \in Nat /\ log \in Seq(Nat)
      BY <1>0, DelayAssumption, Logged
    <3>3. DOMAIN log \subseteq DOMAIN log'
      BY <3>1, <3>2
    <3> QED BY <1>3, <3>3 DEF SendToRetry
  <2>2. OwedMessages \subseteq OwedMessages'
    BY <2>1 DEF OwedMessages, InHand
  <2> QED BY <1>2, <2>1, <2>2
<1>4. ASSUME FetchMessage PROVE Service!Next
  <2>1. OwedMessages \subseteq OwedMessages'
    BY <1>0, <1>4 DEF FetchMessage, OwedMessages, InHand, TypeOK
  <2> QED BY <1>2, <1>4, <2>1 DEF FetchMessage
<1>5. ASSUME Wake PROVE Service!Next
  <2>1. OwedMessages \subseteq OwedMessages'
    BY <1>5 DEF Wake, OwedMessages, InHand
  <2> QED BY <1>2, <1>5, <2>1 DEF Wake
<1>6. ASSUME CommitMessage \/ CommitFails \/ Tick \/ UNCHANGED vars PROVE Service!Next
  <2>1. OwedMessages \subseteq OwedMessages' /\ UNCHANGED <<out, refused>>
    BY <1>6 DEF CommitMessage, CommitFails, Tick, vars, OwedMessages, InHand
  <2> QED BY <1>2, <2>1
<1>7. ASSUME Restart PROVE Service!Next
  <2>1. /\ position' = committed + 1 /\ UNCHANGED <<log, out, refused>>
        /\ committed < position /\ committed \in Nat /\ position \in Nat
        /\ log \in Seq(Nat)
    BY <1>0, <1>7 DEF Restart, IInv, Positions, TypeOK
  <2>2. \A i \in DOMAIN log : i >= position => i >= position'
    BY <2>1
  <2>3. pc \in {"wait", "publish"} => held \in DOMAIN log /\ held >= committed + 1
    BY <1>0, Logged DEF IInv, Positions
  <2>4. OwedMessages \subseteq OwedMessages'
    BY <2>1, <2>2, <2>3 DEF OwedMessages, InHand
  <2> QED BY <1>2, <2>1, <2>4
<1>8. ASSUME Publish \/ PublishFails PROVE Service!Next
  <2>1. /\ pc = "publish" /\ pc' \notin {"wait", "publish"}
        /\ UNCHANGED <<log, position>>
    BY <1>8 DEF Publish, PublishFails
  <2>2. out' = Append(out, [offset |-> held, at |-> now])
        => Republished' = Republished \cup {held}
    BY <1>0, AppendRepublished
  <2>3. out' = out => Republished' = Republished
    BY DEF Republished
  <2>4. SettledMessages' = SettledMessages \cup {held}
    BY <1>1, <1>8, <2>2, <2>3 DEF Publish, PublishFails
  <2> QED BY <2>1, <2>4, HeldIsSettled
<1> QED BY <1>3, <1>4, <1>5, <1>6, <1>7, <1>8 DEF Next, DrainStep, Drained

LEMMA SpecBounded == Spec => []IInv /\ [](Len(log) <= MaxMessages)
<1> DEFINE Bounded == Len(log) <= MaxMessages
<1>1. Init => Bounded
  BY RouterAssumption DEF Init
<1>2. IInv /\ Bounded /\ [Next]_vars => Bounded'
  <2> SUFFICES ASSUME IInv, Bounded, [Next]_vars PROVE Bounded'
    OBVIOUS
  <2>1. ASSUME NEW a \in Attempts, SendToRetry(a) PROVE Bounded'
    <3>1. PICK d \in Delay(a) : log' = Append(log, now + d)
      BY <2>1 DEF SendToRetry
    <3>2. now + d \in Nat /\ log \in Seq(Nat)
      BY DelayAssumption, Logged DEF IInv
    <3>3. Len(log') = Len(log) + 1 /\ Len(log) < MaxMessages /\ Len(log) \in Nat
      BY <2>1, <3>1, <3>2 DEF SendToRetry
    <3> QED BY <3>3, RouterAssumption
  <2>2. CASE UNCHANGED log
    BY <2>2
  <2>3. (\A a \in Attempts : ~SendToRetry(a)) => UNCHANGED log
    BY DEF Next, vars, DrainStep, FetchMessage, Wake, Publish, CommitMessage,
           PublishFails, CommitFails, Restart, Tick, Drained
  <2> QED BY <2>1, <2>2, <2>3
<1> QED BY <1>1, <1>2, SpecIInv, PTL DEF Spec

\* The router implements the steps of the abstract service: a message leaves
\* the retry topic or the router's hands only republished or refused, whatever
\* the restarts; what it owes again after one was settled before.
THEOREM RouterServes == Spec => Service!Spec
<1>1. Init => Service!Init
  <2> SUFFICES ASSUME Init PROVE Service!Init
    OBVIOUS
  <2>1. log = <<>> /\ refused = {} /\ pc = "fetch"
    BY DEF Init
  <2> QED BY <2>1 DEF Service!Init
<1>2. IInv /\ IInv' /\ (Len(log) <= MaxMessages)' /\ [Next]_vars
      => [Service!Next]_(Service!serviceVars)
  BY RouterRefines
<1> QED BY <1>1, <1>2, SpecBounded, PTL DEF Spec, Service!Spec
=============================================================================
