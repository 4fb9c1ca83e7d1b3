----------------------------- MODULE BatchContract -----------------------------
(***************************************************************************)
(* What a caller of "autofix batch" may rely on, whatever its containers   *)
(* and its stores do: cases are accounted for one by one, only runs of     *)
(* accounted cases enter the batch database and none ever leaves it, and   *)
(* the batch returns only when every case is accounted for.                *)
(***************************************************************************)
EXTENDS Naturals

CONSTANT Total

VARIABLES
  accounted,  \* cases with a result
  recorded,   \* runs with a row in batch.db
  state       \* of the batch process

contractVars == <<accounted, recorded, state>>

ContractInit == accounted = 0 /\ recorded = {} /\ state = "running"

Account ==
  /\ state = "running" /\ accounted < Total
  /\ accounted' = accounted + 1
  /\ UNCHANGED <<recorded, state>>

Record ==
  /\ state = "running"
  /\ recorded \subseteq recorded' /\ recorded' \subseteq 1..accounted
  /\ UNCHANGED <<accounted, state>>

Return ==
  /\ state = "running" /\ accounted = Total
  /\ state' = "returned"
  /\ UNCHANGED <<accounted, recorded>>

Stop ==
  /\ state = "running"
  /\ state' = "stopped"
  /\ UNCHANGED <<accounted, recorded>>

ContractNext == Account \/ Record \/ Return \/ Stop

Contract == ContractInit /\ [][ContractNext]_contractVars
================================================================================
