--------------------------- MODULE ExperimentClaims ---------------------------
(***************************************************************************)
(* Where the drivers are not alone although their lock says so: drivers of *)
(* run_final_experiment.py, even when they are started one after the       *)
(* other, have the steps of Experiment and a signal handler.  The README   *)
(* quotes the texts.                                                       *)
(***************************************************************************)
EXTENDS MCExperiment

\* The signal handler of run_final_experiment.py gives the lock back and sends a
\* notification; then SystemExit ends the batch and comes to the finally clause.
HandleSignal(d) ==
  /\ Working(d)
  /\ pc' = [pc EXCEPT ![d] = "stopping"]
  /\ lock' = "absent"
  /\ UNCHANGED <<pending, job, passed, failed, db, starts>>

SystemExit(d) ==
  /\ Go(d, "stopping", "release")
  /\ job' = [job EXCEPT ![d] = None]
  /\ UNCHANGED <<lock, pending, passed, failed, db, starts>>

FinalNext == Next \/ \E d \in Drivers : HandleSignal(d) \/ SystemExit(d)

FinalSpec == Init /\ [][FinalNext]_vars
================================================================================
