------------------------- MODULE BatchRunnerRefinement -------------------------
(***************************************************************************)
(* BatchRunner implements BatchContract, and it is the batch process that  *)
(* the drivers of Experiment and the sessions of FinalExperiment start.    *)
(***************************************************************************)
EXTENDS BatchRunner

accountedCases == Cardinality({c \in Case : results[c] # None})
processState ==
  IF pc = "done" THEN "returned" ELSE IF pc = "stopped" THEN "stopped" ELSE "running"

Promise == INSTANCE BatchContract
             WITH Total <- Cases, accounted <- accountedCases,
                  recorded <- {c \in Case : batchDb[c] # "none"}, state <- processState

\* Every behaviour of a batch is one its caller may rely on: no case is left
\* out or counted twice, no recorded run is lost, and success is returned only
\* at the end, also beside containers that survived their kill.
ImplementsBatchContract == Promise!Contract

-----------------------------------------------------------------------------
(* The batch as its callers see it: one driver, or one session, waits for it. *)
(* Whoever waits looks at the exit code, and at batch.db in the directory.    *)

jobState ==
  IF pc = "done" THEN "returned" ELSE IF pc = "stopped" THEN "died" ELSE "running"
batchOutput == IF ~dbExists THEN "none" ELSE IF pc = "done" THEN "all" ELSE "some"

ForDriver == INSTANCE Experiment
               WITH Drivers <- {"driver"}, SubBatches <- <<"batch">>,
                    Models <- {"model"}, ModelOf <- [s \in {"batch"} |-> "model"],
                    Weight <- << >>, SortedModels <- << >>, FreeLevels <- {0},
                    None <- [sub |-> "none", state |-> "none"], ForceRun <- FALSE,
                    Overlap <- FALSE, Kills <- HostStops, MaxStarts <- 1,
                    lock <- "driver", pc <- [d \in {"driver"} |-> "batch"],
                    job <- [d \in {"driver"} |-> [sub |-> "batch", state |-> jobState]],
                    db <- [s \in {"batch"} |-> batchOutput],
                    pending <- [d \in {"driver"} |-> {}], passed <- [d \in {"driver"} |-> {}],
                    failed <- [d \in {"driver"} |-> {}], starts <- 1

\* To the driver that waits for it a batch does what Experiment has it do: it makes
\* batch.db, once, returns, or dies; nothing else it does can be seen from there.
IsBatchOfDriver ==
  /\ jobState = "running" /\ batchOutput = "none"
  /\ [][ForDriver!BatchRecords("driver") \/ ForDriver!BatchReturns("driver")
        \/ ForDriver!BatchDies("driver")]_(ForDriver!vars)

rowSeen(c) ==
  IF batchDb[c] = "none" THEN "none"
  ELSE IF batchDb[c] = "success" THEN "resolved" ELSE "unresolved"
exitSeen ==
  IF pc = "done" THEN "passed" ELSE IF pc = "stopped" THEN "failed" ELSE "running"
batchDir == <<"batch", "session">>

ForSession == INSTANCE FinalExperiment
                WITH Sessions <- {"session"}, Earlier <- {}, Batches <- {"batch"}, Cases <- Case,
                     Mode <- [s \in {"session"} |-> "ollama"], Plan <- [s \in {"session"} |-> {"batch"}],
                     ValidationOnly <- {}, Family <- [b \in {"batch"} |-> None], Chunk <- 1,
                     Verdicts <- {"correct"},
                     runs <- [d \in {batchDir} |-> [c \in Case |-> rowSeen(c)]],
                     process <- [d \in {batchDir} |-> exitSeen],
                     verdicts <- [d \in {batchDir} |-> {}],
                     pc <- [s \in {"session"} |-> "batch"], pending <- [s \in {"session"} |-> {}],
                     current <- [s \in {"session"} |-> batchDir],
                     produced <- [s \in {"session"} |-> {}], groups <- [s \in {"session"} |-> {}],
                     unread <- [s \in {"session"} |-> {}], failed <- [s \in {"session"} |-> {}],
                     rc <- [s \in {"session"} |-> None], validators <- << >>

\* To a session it is the writer of batch.db that FinalExperiment has it be: it adds
\* the row of one case, closes a resolved one that timed out, or ends, and writes
\* nothing when it has ended, however long its containers live.
IsBatchOfSession ==
  /\ exitSeen = "running" /\ \A c \in Case : rowSeen(c) = "none"
  /\ [][ForSession!RecordRun(batchDir) \/ ForSession!CloseTimedOut(batchDir)
        \/ ForSession!BatchEnds(batchDir)]_(ForSession!finalVars)
================================================================================
