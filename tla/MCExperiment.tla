------------------------------ MODULE MCExperiment ------------------------------
(***************************************************************************)
(* Experiment on a small instance: the two models of DEFAULT_MODEL_VRAM_MIB *)
(* and one it has no weight of, as in experiment/scheduler.py.             *)
(***************************************************************************)
EXTENDS Experiment

MCSubBatches == <<"light-a", "heavy-a", "other-a">>
MCModels     == {"light", "heavy", "other"}
MCModelOf    == [s \in {"light-a", "heavy-a", "other-a"} |->
                  CASE s = "light-a" -> "light"
                    [] s = "other-a" -> "other"
                    [] s = "heavy-a" -> "heavy"]
MCWeight     == [m \in {"light", "heavy"} |-> IF m = "light" THEN 1 ELSE 2]
MCSortedModels == <<"heavy", "light">>
MCFreeLevels == {0, 1, 2, None}
================================================================================
