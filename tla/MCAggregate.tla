------------------------------ MODULE MCAggregate ------------------------------
(***************************************************************************)
(* Aggregate on a small instance.                                          *)
(***************************************************************************)
EXTENDS Aggregate

CONSTANTS s0, s1, s2, b1, b2

MCMode   == [s \in Sessions |-> IF s = s2 THEN "ollama" ELSE "gpt"]
MCPlan   == [s \in Sessions |-> CASE s = s0 -> {b1} [] s = s1 -> {b1, b2} [] s = s2 -> {}]
MCFamily == [b \in {b1, b2} |-> None]
================================================================================
