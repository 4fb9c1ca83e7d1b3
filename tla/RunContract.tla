------------------------------ MODULE RunContract ------------------------------
(***************************************************************************)
(* What a caller of RunOrchestrator.run may rely on, without the agent,    *)
(* the workspace or the policies: a bounded number of attempts made one    *)
(* after the other, evidence that is gathered about the latest attempt     *)
(* only and is not revised, and one verdict, a success only on good        *)
(* evidence, never taken back.                                             *)
(***************************************************************************)
EXTENDS Naturals

CONSTANT MaxAttempts

VARIABLES
  attempts,  \* attempts started
  evidence,  \* what the latest attempt (before the first: the baseline) showed
  verdict    \* what the caller was told; "lost" when the call itself raised

contractVars == <<attempts, evidence, verdict>>

Verdicts == {"open", "success", "failed", "lost"}

ContractInit == attempts = 0 /\ evidence = "none" /\ verdict = "open"

\* A new attempt starts; evidence of an earlier one no longer counts.
Attempt ==
  /\ verdict = "open" /\ attempts < MaxAttempts
  /\ attempts' = attempts + 1
  /\ evidence' = "none"
  /\ UNCHANGED verdict

\* The latest attempt is tested.
Gather ==
  /\ verdict = "open" /\ evidence = "none"
  /\ evidence' \in {"good", "bad"}
  /\ UNCHANGED <<attempts, verdict>>

Conclude ==
  /\ verdict = "open"
  /\ verdict' \in {"success", "failed", "lost"}
  /\ verdict' = "success" => evidence = "good"
  /\ UNCHANGED <<attempts, evidence>>

ContractNext == Attempt \/ Gather \/ Conclude

Contract == ContractInit /\ [][ContractNext]_contractVars

\* A verdict is reached in the end.
Concludes == <>(verdict # "open")
================================================================================
