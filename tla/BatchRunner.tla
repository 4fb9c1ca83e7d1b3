------------------------------ MODULE BatchRunner ------------------------------
(***************************************************************************)
(* One batch: BatchRunner.run_batch on the host, and the containers it     *)
(* starts, each running batch/executor.py and through it one repair run.   *)
(*                                                                         *)
(* The host takes the cases one after the other, but it is not alone: a    *)
(* container is a process of its own that writes into the batch directory  *)
(* until it ends, may be timed out in any state, and survives when         *)
(* "docker kill" does not reach it.                                        *)
(*                                                                         *)
(* Abstractions.  The run of case c is called c.  A run directory is the   *)
(* row of its run.db, whether its events.jsonl names the run, and its      *)
(* summary.json.  Case ids are distinct, so the archived directory of a    *)
(* case has a name no other directory has.                                 *)
(***************************************************************************)
EXTENDS Naturals, FiniteSets

CONSTANTS
  Cases,         \* number of bugs of the batch
  KillFails,     \* "docker kill" may fail (its failure is only logged)
  Lossy,         \* an observer may lose an event (CompositeObserver swallows it)
  StoreFaults,   \* the host may fail to merge or to finalize a run (only logged)
  HostStops,     \* the batch process may raise or be stopped
  None

ASSUME BatchAssumption ==
  /\ Cases \in Nat \ {0}
  /\ KillFails \in BOOLEAN
  /\ Lossy \in BOOLEAN
  /\ StoreFaults \in BOOLEAN
  /\ HostStops \in BOOLEAN

Case == 1..Cases

VARIABLES
  pc,        \* where run_batch is
  idx,       \* the case it is at
  results,   \* BugRunResult of each case
  found,     \* the run whose directory is being archived
  fresh,     \* run directories modified since the container was started
  cont,      \* what the container of each case is at
  outcome,   \* the outcome the run in the container has come to
  runDir,    \* <batch>/<run id>, by run
  caseDir,   \* <batch>/<case>-<architecture>-<model>, by case
  batchDb,   \* the run's row of batch.db, by run
  dbExists,  \* batch.db exists
  saved      \* the batch summary.json is written

hostVars      == <<pc, idx, results, found>>
containerVars == <<cont, outcome>>
storeVars     == <<caseDir, batchDb, dbExists, saved>>
vars == <<hostVars, containerVars, storeVars, fresh, runDir>>

-----------------------------------------------------------------------------
Outcomes == {"success", "failed"}
Rows     == {"none", "open", "timed_out"} \cup Outcomes
Dirs     == [run : Case, row : Rows, log : BOOLEAN, summary : {"none", "timed_out"} \cup Outcomes]
EmptyDir(c) == [run |-> c, row |-> "none", log |-> FALSE, summary |-> "none"]

Phases   == {"none", "starting", "created", "recorded", "running", "summarised",
             "closed", "reported", "failed", "killed"}
Alive(c) == cont[c] \notin {"none", "reported", "failed", "killed"}

Result(status, run) == [status |-> status, run |-> run]
Results == [status : {"timed_out", "infra_failure"} \cup Outcomes, run : Case \cup {None}]

\* The value that stands for nothing is none of the others.
ASSUME NoneAssumption ==
  None \notin Case /\ None \notin Outcomes /\ None \notin Results /\ None \notin Dirs

Init ==
  /\ pc = "prepare" /\ idx = 1
  /\ results = [c \in Case |-> None]
  /\ found = None
  /\ fresh = {}
  /\ cont = [c \in Case |-> "none"]
  /\ outcome = [c \in Case |-> None]
  /\ runDir = [c \in Case |-> None] /\ caseDir = [c \in Case |-> None]
  /\ batchDb = [c \in Case |-> "none"]
  /\ dbExists = FALSE /\ saved = FALSE

-----------------------------------------------------------------------------
(* A container: executor.main and the observers of its run.  Every write   *)
(* into the run directory makes it newer than the start of the container.  *)

ContainerStep(c, from, to) ==
  /\ cont[c] = from
  /\ cont' = [cont EXCEPT ![c] = to]
  /\ UNCHANGED <<hostVars, storeVars>>

\* SQLite and the event log write into an existing directory only, and the
\* observers swallow the failure; result files create their directory.
Touched(c, content) ==
  /\ runDir' = [runDir EXCEPT ![c] = content]
  /\ fresh' = fresh \cup {c}
Kept(old, new) ==
  IF Lossy THEN {[new EXCEPT !.row = r, !.log = l] : r \in {old.row, new.row}, l \in {old.log, new.log}}
           ELSE {new}
Observe(c, new) ==
  IF runDir[c] = None
  THEN UNCHANGED <<runDir, fresh>>
  ELSE \E d \in Kept(runDir[c], new) : Touched(c, d)
Directory(c) == IF runDir[c] = None THEN EmptyDir(c) ELSE runDir[c]

\* build_observer: the directory and the schema of run.db.
CreateRunDir(c) ==
  /\ ContainerStep(c, "starting", "created")
  /\ Touched(c, EmptyDir(c))
  /\ UNCHANGED outcome

\* RunStarted: the row of run.db, then the first line of events.jsonl.
RecordRun(c) ==
  /\ ContainerStep(c, "created", "recorded")
  /\ Observe(c, [Directory(c) EXCEPT !.row = "open"])
  /\ UNCHANGED outcome

LogRun(c) ==
  /\ ContainerStep(c, "recorded", "running")
  /\ Observe(c, [Directory(c) EXCEPT !.log = TRUE])
  /\ UNCHANGED outcome

\* An iteration: its patch file and its events, which name the run.
RunIteration(c) ==
  /\ ContainerStep(c, "running", "running")
  /\ \E d \in Kept(Directory(c), [Directory(c) EXCEPT !.log = TRUE]) : Touched(c, d)
  /\ UNCHANGED outcome

\* RunFinalizer: summary.json, then the RunFinished event.
WriteSummary(c) ==
  /\ ContainerStep(c, "running", "summarised")
  /\ \E s \in Outcomes :
       /\ outcome' = [outcome EXCEPT ![c] = s]
       /\ Touched(c, [Directory(c) EXCEPT !.summary = s])

\* An update of a row that was never inserted changes nothing.
CloseRun(c) ==
  /\ ContainerStep(c, "summarised", "closed")
  /\ Observe(c, [Directory(c) EXCEPT !.log = TRUE, !.row = IF @ = "none" THEN "none" ELSE outcome[c]])
  /\ UNCHANGED outcome

\* The report goes to stdout; the exit code is 0 or 1.
Report(c) ==
  /\ ContainerStep(c, "closed", "reported")
  /\ UNCHANGED <<outcome, fresh, runDir>>

\* A configuration error (exit code 2), an exception, or a killed process.
ExitWithoutReport(c) ==
  /\ Alive(c)
  /\ ContainerStep(c, cont[c], "failed")
  /\ UNCHANGED <<outcome, fresh, runDir>>

Container(c) ==
  \/ CreateRunDir(c) \/ RecordRun(c) \/ LogRun(c) \/ RunIteration(c)
  \/ WriteSummary(c) \/ CloseRun(c) \/ Report(c) \/ ExitWithoutReport(c)

-----------------------------------------------------------------------------
(* The host.                                                               *)

SetResult(r) == results' = [results EXCEPT ![idx] = r]

\* After a case: the next one, or the summary.
NextCaseUnchecked == pc' = "prepare" /\ idx' = idx + 1
NextCase ==
  /\ pc' = IF idx < Cases THEN "prepare" ELSE "save"
  /\ idx' = IF idx < Cases THEN idx + 1 ELSE idx

PrepareCase ==
  /\ pc = "prepare"
  /\ pc' = "start"
  /\ UNCHANGED <<idx, results, found, fresh, containerVars, runDir, storeVars>>

PrepareFailsUncounted ==
  /\ pc = "prepare"
  /\ NextCase
  /\ UNCHANGED <<results, found, fresh, containerVars, runDir, storeVars>>
PrepareFails ==
  /\ pc = "prepare"
  /\ SetResult(Result("infra_failure", None))
  /\ NextCase
  /\ UNCHANGED <<found, fresh, containerVars, runDir, storeVars>>

\* "started" is taken: no directory is newer.
StartContainer ==
  /\ pc = "start"
  /\ cont' = [cont EXCEPT ![idx] = "starting"]
  /\ fresh' = {}
  /\ pc' = "wait"
  /\ UNCHANGED <<idx, results, found, outcome, runDir, storeVars>>

\* _parse_result of a container that ended by itself: its report, or none.
ContainerReportedByAge ==
  /\ pc = "wait" /\ cont[idx] = "reported"
  /\ SetResult(Result(outcome[idx], idx))
  /\ found' \in {c \in Case : runDir[c] # None /\ c \in fresh}
  /\ pc' = "rename"
  /\ UNCHANGED <<idx, fresh, containerVars, runDir, storeVars>>
ContainerReported ==
  /\ pc = "wait" /\ cont[idx] = "reported"
  /\ SetResult(Result(outcome[idx], idx))
  /\ found' = idx
  /\ pc' = "rename"
  /\ UNCHANGED <<idx, fresh, containerVars, runDir, storeVars>>

ContainerFailed ==
  /\ pc = "wait" /\ cont[idx] = "failed"
  /\ SetResult(Result("infra_failure", None))
  /\ pc' = "cleanup"
  /\ UNCHANGED <<idx, found, fresh, containerVars, runDir, storeVars>>

\* The container is killed, unless it has ended; docker's answer is ignored.
NotKilled(c) == cont
Killed(c) == IF Alive(c) THEN [cont EXCEPT ![c] = "killed"] ELSE cont

\* communicate() times out, which may happen while the container is ending.
WaitsForever == FALSE
ContainerTimesOut ==
  /\ pc = "wait"
  /\ \/ cont' = Killed(idx)
     \/ KillFails /\ UNCHANGED cont
  /\ SetResult(Result("timed_out", None))
  /\ pc' = "orphan"
  /\ UNCHANGED <<idx, found, fresh, outcome, runDir, storeVars>>

AnyCandidates == {c \in Case : runDir[c] # None}
Candidates    == {c \in Case : runDir[c] # None /\ c \in fresh}

\* _find_orphan_run_dir: the run directory of a timed out container is found
\* by its age, and only if nothing else is that young.
FindOrphan ==
  /\ pc = "orphan"
  /\ \/ \E c \in Candidates :
          /\ Candidates = {c}
          /\ found' = c
          /\ SetResult(Result("timed_out", c))
          /\ pc' = "rename"
     \/ /\ Cardinality(Candidates) # 1
        /\ pc' = "cleanup"
        /\ UNCHANGED <<found, results>>
  /\ UNCHANGED <<idx, fresh, containerVars, runDir, storeVars>>

NameOfTheBatch == 1
DestName == idx
RenameRunDir ==
  /\ pc = "rename"
  /\ IF runDir[found] = None
     THEN pc' = "cleanup" /\ UNCHANGED <<runDir, caseDir>>
     ELSE /\ caseDir' = [caseDir EXCEPT ![DestName] = runDir[found]]
          /\ runDir' = [runDir EXCEPT ![found] = None]
          /\ pc' = "merge"
  /\ UNCHANGED <<idx, results, found, fresh, containerVars, batchDb, dbExists, saved>>

AfterMerge == IF results[idx].status = "timed_out" THEN "finalize" ELSE "cleanup"

\* merge_from: INSERT OR IGNORE of the rows of run.db.
MergedAsFailed(d) ==
  IF batchDb[d.run] = "none" /\ d.row = "open" THEN [batchDb EXCEPT ![d.run] = "failed"] ELSE batchDb
Merged(d) == IF batchDb[d.run] = "none" THEN [batchDb EXCEPT ![d.run] = d.row] ELSE batchDb

MergeIntoBatchDb ==
  /\ pc = "merge"
  /\ dbExists' = TRUE
  /\ batchDb' = Merged(caseDir[idx])
  /\ pc' = AfterMerge
  /\ UNCHANGED <<idx, results, found, fresh, containerVars, runDir, caseDir, saved>>

\* A failing merge is logged; batch.db may have been created.
MergeFails ==
  /\ pc = "merge" /\ StoreFaults
  /\ dbExists' \in {dbExists, TRUE}
  /\ pc' = AfterMerge
  /\ UNCHANGED <<idx, results, found, fresh, containerVars, runDir, caseDir, batchDb, saved>>

\* _finalize_timed_out_run: the run id is read from the event log, and the
\* summary and the rows are closed as timed_out.
OpenRow(row)   == row
ClosedRow(row) == IF row = "none" THEN "none" ELSE "timed_out"
FinalizeTimedOut ==
  /\ pc = "finalize"
  /\ LET d == caseDir[idx]
     IN IF d.log
        THEN /\ caseDir' = [caseDir EXCEPT ![idx].summary = "timed_out", ![idx].row = ClosedRow(@)]
             /\ batchDb' = [batchDb EXCEPT ![d.run] = ClosedRow(@)]
             /\ dbExists' = TRUE
        ELSE UNCHANGED <<caseDir, batchDb, dbExists>>
  /\ pc' = "cleanup"
  /\ UNCHANGED <<idx, results, found, fresh, containerVars, runDir, saved>>

\* The summary and the databases fail one without the other; batch.db is
\* updated after run.db.
FinalizeFails ==
  /\ pc = "finalize" /\ StoreFaults
  /\ \E summary \in {caseDir[idx].summary, "timed_out"}, row \in {caseDir[idx].row, ClosedRow(caseDir[idx].row)} :
       caseDir' = [caseDir EXCEPT ![idx].summary = summary, ![idx].row = row]
  /\ pc' = "cleanup"
  /\ UNCHANGED <<idx, results, found, fresh, containerVars, runDir, batchDb, dbExists, saved>>

CleanupCase ==
  /\ pc = "cleanup"
  /\ NextCase
  /\ UNCHANGED <<results, found, fresh, containerVars, runDir, storeVars>>

SaveSummary ==
  /\ pc = "save"
  /\ saved' = TRUE
  /\ pc' = "done"
  /\ UNCHANGED <<idx, results, found, fresh, containerVars, runDir, caseDir, batchDb, dbExists>>

\* Nothing guards _run_case and _save_summary: building the prompt, starting
\* docker, renaming the directory or writing the summary ends the batch, and
\* so does a signal.  Ctrl-C while waiting kills the container first.
BatchStops ==
  /\ HostStops /\ pc \notin {"done", "stopped"}
  /\ pc' = "stopped"
  /\ \/ pc = "wait" /\ cont' = Killed(idx)
     \/ UNCHANGED cont
  /\ UNCHANGED <<idx, results, found, fresh, outcome, runDir, storeVars>>

HostStep ==
  \/ PrepareCase \/ PrepareFails \/ StartContainer
  \/ ContainerReported \/ ContainerFailed \/ ContainerTimesOut
  \/ FindOrphan \/ RenameRunDir \/ MergeIntoBatchDb \/ MergeFails
  \/ FinalizeTimedOut \/ FinalizeFails \/ CleanupCase \/ SaveSummary

Terminated == pc \in {"done", "stopped"} /\ UNCHANGED vars

Next == HostStep \/ BatchStops \/ (\E c \in Case : Container(c)) \/ Terminated

Spec == Init /\ [][Next]_vars

\* The host thread runs on, and communicate() has a timeout: nothing is asked
\* of the containers.
FairSpec == Spec /\ WF_vars(HostStep)

-----------------------------------------------------------------------------
(* What a batch promises.                                                  *)

HostPhases == {"prepare", "start", "wait", "orphan", "rename", "merge", "finalize",
               "cleanup", "save", "done", "stopped"}

\* Every variable has its type.
TypeOK ==
  /\ pc \in HostPhases /\ idx \in Case
  /\ results \in [Case -> Results \cup {None}]
  /\ found \in Case \cup {None}
  /\ fresh \subseteq Case
  /\ cont \in [Case -> Phases]
  /\ outcome \in [Case -> Outcomes \cup {None}]
  /\ runDir \in [Case -> Dirs \cup {None}] /\ caseDir \in [Case -> Dirs \cup {None}]
  /\ batchDb \in [Case -> Rows]
  /\ dbExists \in BOOLEAN /\ saved \in BOOLEAN

\* The host is past case c.
Past(c) == c < idx \/ (c = idx /\ pc \in {"cleanup", "save", "done"})

\* A case never starts while the container of another one still works on the
\* same GPU and in the same batch directory, as long as kill works.
OneContainerAtATime ==
  ~KillFails => \A c, d \in Case : Alive(c) /\ Alive(d) => c = d

\* The directory archived under the name of a case holds the run of that case:
\* by its report, or, when the container was timed out, by its age.
ArchivedUnderItsCase ==
  ~KillFails => \A c \in Case : caseDir[c] # None => caseDir[c].run = c

\* The batch summary, batch.db and the archived run.db tell the same story of a
\* run: batch.db has the row of run.db, and the row has the status of the
\* summary, unless an observer lost it, or, after a timeout, unless the event
\* log does not name the run.
SummaryAgreesWithDb ==
  ~StoreFaults /\ ~KillFails =>
    \A c \in Case :
      Past(c) /\ caseDir[c] # None
      => /\ batchDb[c] = caseDir[c].row
         /\ IF results[c].status = "timed_out"
            THEN caseDir[c].log => caseDir[c].row \in {"none", "timed_out"}
            ELSE caseDir[c].row \in {"none", "open", results[c].status}

\* Even beside containers that survived their kill and stores that refuse
\* writes: a case counted as a success or a failure is one whose own run came
\* to that outcome, and no other run is archived under it.
VerdictIsItsOwn ==
  \A c \in Case :
    results[c] # None /\ results[c].status \in Outcomes
    => /\ results[c] = Result(outcome[c], c)
       /\ caseDir[c] # None => caseDir[c].run = c

\* What batch.db says of a run is what became of it: an outcome only if the run
\* came to it, timed_out only if its own container was timed out.
RecordIsGenuine ==
  \A r \in Case :
    /\ batchDb[r] \in Outcomes => batchDb[r] = outcome[r]
    /\ batchDb[r] = "timed_out" => results[r] # None /\ results[r].status = "timed_out"

\* What is archived is final: no container, however late, and no later case
\* changes an archived directory once the host has gone on.
ArchivesAreFinal ==
  [][\A c \in Case : Past(c) => caseDir'[c] = caseDir[c]]_vars

\* A batch ends whatever its containers do.
BatchEnds == <>(pc \in {"done", "stopped"})

=============================================================================
