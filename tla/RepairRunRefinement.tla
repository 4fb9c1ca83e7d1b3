-------------------------- MODULE RepairRunRefinement --------------------------
(***************************************************************************)
(* RepairRun implements RunContract: an iteration is an attempt, a test    *)
(* execution with no change to a test file and no rejection is the         *)
(* evidence, and the verdict is what run() returns.                        *)
(***************************************************************************)
EXTENDS RepairRun

evidenceShown ==
  IF iteration = 0
  THEN IF baseline = None THEN "none" ELSE IF baseline.passed THEN "good" ELSE "bad"
  ELSE IF ~Seen THEN "none"
       ELSE IF observed.test.passed /\ observed.changed \cap TestFiles = {}
            THEN "good" ELSE "bad"

verdictReached ==
  IF pc = "done" THEN output.status ELSE IF pc = "raised" THEN "lost" ELSE "open"

Promise == INSTANCE RunContract
             WITH MaxAttempts <- MaxIterations, attempts <- iteration,
                  evidence <- evidenceShown, verdict <- verdictReached

\* Every behaviour of a run is one the contract allows.
ImplementsContract == Promise!Contract

\* Under the fairness of the run, the caller gets its verdict.
ReachesVerdict == Promise!Concludes
================================================================================
