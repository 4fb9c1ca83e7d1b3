--------------------------- MODULE BatchRunnerClaims ---------------------------
(***************************************************************************)
(* What the repository says about the batch database of an interrupted     *)
(* batch, and what the code does not do: a run refutes it, and the README  *)
(* quotes the text.                                                        *)
(***************************************************************************)
EXTENDS BatchRunner

\* scripts/run_experiment_ollama.py: batch.db is written after all bugs have
\* run, and an interrupted batch has none.  It is created by the first merge.
InterruptedHasNoDb ==
  pc = "stopped" /\ dbExists => \A c \in Case : results[c] # None
================================================================================
