----------------------------- MODULE JobService -----------------------------
(***************************************************************************)
(* What the platform promises of a job it has accepted, with no workers,   *)
(* topics or retries in sight: it owes each published job an outcome, the  *)
(* handler's success or a copy in the dead-letter topic, and it stops      *)
(* owing it only after that outcome.  It may come to owe a settled job     *)
(* again, when a message is redelivered: execution is at least once.       *)
(***************************************************************************)
CONSTANT Jobs

VARIABLES owed, settled

serviceVars == <<owed, settled>>

Init == owed = {} /\ settled = {}

Owe == \E js \in SUBSET Jobs : owed' = owed \cup js /\ UNCHANGED settled

Settle(j) == /\ j \in owed \ settled
             /\ settled' = settled \cup {j}
             /\ owed' \in {owed, owed \ {j}}

Discharge(j) == /\ j \in owed \cap settled
                /\ owed' = owed \ {j}
                /\ UNCHANGED settled

Next == Owe \/ \E j \in Jobs : Settle(j) \/ Discharge(j)

Spec == Init /\ [][Next]_serviceVars

FairSpec == Spec /\ \A j \in Jobs : WF_serviceVars(Settle(j))
=============================================================================
