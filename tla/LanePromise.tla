---------------------------- MODULE LanePromise ----------------------------
(***************************************************************************)
(* What a certification lane promises, without its RPCs: each operation is *)
(* observed, then settled once and for all, and only what was earned while *)
(* it was observed may be settled as a pass; the verdict is given when     *)
(* every operation is settled, or the lane dies.                           *)
(***************************************************************************)
CONSTANTS
  Ops,        \* the operations the lane executes
  Governed    \* those whose failure fails the lane

VARIABLES
  earned,     \* operations on which the server kept the contract, so far
  result,     \* what the lane has recorded for each operation
  verdict     \* exit status of the lane

vars == <<earned, result, verdict>>

Init ==
  /\ earned = {}
  /\ result = [op \in Ops |-> "none"]
  /\ verdict = "none"

\* Another exchange with the server shows an unsettled operation right, or wrong.
Observe(op) ==
  /\ result[op] = "none"
  /\ earned' \in {earned \cup {op}, earned \ {op}}
  /\ UNCHANGED <<result, verdict>>

Settle(op) ==
  /\ verdict = "none" /\ result[op] = "none"
  /\ \E r \in {"pass", "fail"} :
       /\ r = "pass" => op \in earned
       /\ result' = [result EXCEPT ![op] = r]
  /\ UNCHANGED <<earned, verdict>>

Close ==
  /\ verdict = "none"
  /\ \A op \in Ops : result[op] # "none"
  /\ verdict' = IF \E op \in Governed : result[op] = "fail" THEN "failure" ELSE "success"
  /\ UNCHANGED <<earned, result>>

Die ==
  /\ verdict = "none" /\ verdict' = "failure"
  /\ UNCHANGED <<earned, result>>

Next == (\E op \in Ops : Observe(op) \/ Settle(op)) \/ Close \/ Die
Spec == Init /\ [][Next]_vars
=============================================================================
