---------------------------- MODULE FinalExperiment ----------------------------
(***************************************************************************)
(* scripts/run_final_experiment.py: sessions that run the batches of their  *)
(* mode and have the results judged, several groups at a time, by copilot  *)
(* processes that list the resolved runs of a batch.db and write verdicts  *)
(* through validate_batch.py.  A session is one call of the script; those  *)
(* of one mode take one lock, those of two modes work side by side, and a  *)
(* batch or a validator may outlive the session that started it.           *)
(*                                                                         *)
(* Abstractions.  The lock works and the order in which batches are taken  *)
(* is left open: both are the subject of Experiment.  A batch process is a  *)
(* writer of batch.db, as in BatchRunner; its directory is named for the    *)
(* session that started it, which find_produced_batch_dir finds by time.   *)
(* Pauses have no length, and notifications are left out.                  *)
(***************************************************************************)
EXTENDS Naturals, FiniteSets

CONSTANTS
  Sessions,
  Earlier,  \* those that ended some days ago, and whose batches did
  Batches,
  Cases,
  Mode,     \* [Sessions -> "ollama" or "gpt"]
  Plan,     \* [Sessions -> the batches of its mode]
  ValidationOnly,  \* those called with --validation-only
  Family,   \* [Batches -> architecture and model of a QuixBugs batch, None for another]
  Chunk,    \* validators at a time
  Verdicts, \* what a judge may say
  None

ASSUME FinalExperimentAssumption ==
  /\ IsFiniteSet(Sessions) /\ IsFiniteSet(Batches) /\ IsFiniteSet(Cases)
  /\ Earlier \subseteq Sessions /\ ValidationOnly \subseteq Sessions
  /\ Mode \in [Sessions -> {"ollama", "gpt"}] /\ Plan \in [Sessions -> SUBSET Batches]
  /\ Chunk \in Nat \ {0}
  /\ None \notin Sessions \cup (Batches \X Sessions) \cup Nat

VARIABLES
  runs,        \* [Dirs -> [Cases -> the row in batch.db]]
  process,     \* [Dirs -> the batch process that writes it]
  verdicts,    \* [Dirs -> rows of run_validations]
  pc,          \* [Sessions -> where the script is]
  pending,     \* [Sessions -> batches still to run]
  current,     \* [Sessions -> the directory of its batch, or None]
  produced,    \* [Sessions -> directories to validate]
  groups,      \* [Sessions -> groups not submitted yet]
  unread,      \* [Sessions -> groups of the chunk whose result is not read yet]
  failed,      \* [Sessions -> validation_failed]
  rc,          \* [Sessions -> exit code of main, or None]
  validators   \* the copilot processes: [Sessions and groups -> what they are at]

results    == <<runs, process, verdicts>>
sessionVars == <<pc, pending, current, produced, groups, unread, failed, rc>>
finalVars  == <<results, sessionVars, validators>>

-----------------------------------------------------------------------------
Dirs == Batches \X Sessions
Rows == [case : Cases, by : Sessions, verdict : Verdicts]

Outcomes == {"ok", "failed", "oauth"}
Jobs == [left : SUBSET Dirs, todo : SUBSET (Dirs \X Cases), state : {"running"} \cup Outcomes]

HasDb(d) == \E c \in Cases : runs[d][c] # "none"
Judged(d, c) == {r \in verdicts[d] : r.case = c}

Key(d) == IF Family[d[1]] = None THEN d ELSE Family[d[1]]
Grouped(dirs) == {{e \in dirs : Key(e) = Key(d)} : d \in dirs}

FinalInit ==
  /\ LET Old(d) == d[2] \in Earlier /\ d[1] \in Plan[d[2]] IN
     /\ runs = [d \in Dirs |-> [c \in Cases |-> IF Old(d) THEN "resolved" ELSE "none"]]
     /\ process = [d \in Dirs |-> IF Old(d) THEN "passed" ELSE "absent"]
  /\ verdicts = [d \in Dirs |-> {}]
  /\ pc = [s \in Sessions |-> IF s \in Earlier THEN "ended" ELSE "off"]
  /\ pending = [s \in Sessions |-> {}] /\ current = [s \in Sessions |-> None]
  /\ produced = [s \in Sessions |-> {}]
  /\ groups = [s \in Sessions |-> {}] /\ unread = [s \in Sessions |-> {}]
  /\ failed = [s \in Sessions |-> {}] /\ rc = [s \in Sessions |-> None]
  /\ validators = << >>

-----------------------------------------------------------------------------
(* The batch processes.                                                    *)

\* A case is merged into batch.db when its container has ended.
RecordRun(d) ==
  /\ process[d] = "running"
  /\ \E c \in Cases, row \in {"resolved", "unresolved"} :
       runs[d][c] = "none" /\ runs' = [runs EXCEPT ![d][c] = row]
  /\ UNCHANGED <<process, verdicts, sessionVars, validators>>

\* One that timed out is closed after the merge, whatever its row said.
CloseTimedOut(d) ==
  /\ process[d] = "running"
  /\ \E c \in Cases : runs[d][c] = "resolved" /\ runs' = [runs EXCEPT ![d][c] = "unresolved"]
  /\ UNCHANGED <<process, verdicts, sessionVars, validators>>

BatchEnds(d) ==
  /\ process[d] = "running"
  /\ \E r \in {"passed", "failed"} : process' = [process EXCEPT ![d] = r]
  /\ UNCHANGED <<runs, verdicts, sessionVars, validators>>

-----------------------------------------------------------------------------
(* A session runs its batches.                                             *)

At(s, label)  == pc[s] = label
Goto(s, label) == pc' = [pc EXCEPT ![s] = label]

\* The signal handler gives the lock back before it waits for anything.
Locked(mode) ==
  \E s \in Sessions : Mode[s] = mode /\ pc[s] \in {"batches", "batch", "validation", "chunk"}

Start(s) ==
  /\ At(s, "off") /\ s \notin ValidationOnly /\ ~Locked(Mode[s])
  /\ pending' = [pending EXCEPT
                   ![s] = {b \in Plan[s] : ~\E t \in Sessions : HasDb(<<b, t>>)}]
  /\ Goto(s, "batches")
  /\ UNCHANGED <<results, current, produced, groups, unread, failed, rc, validators>>

\* --validation-only takes every results directory there is, of either mode.
StartValidationOnly(s) ==
  /\ At(s, "off") /\ s \in ValidationOnly /\ ~Locked(Mode[s])
  /\ LET dirs == {d \in Dirs : HasDb(d)} IN
     /\ produced' = [produced EXCEPT ![s] = dirs]
     /\ groups' = [groups EXCEPT ![s] = Grouped(dirs)]
  /\ Goto(s, "validation")
  /\ UNCHANGED <<results, pending, current, unread, failed, rc, validators>>

StartBatch(s) ==
  /\ At(s, "batches")
  /\ \E b \in pending[s] :
       /\ pending' = [pending EXCEPT ![s] = @ \ {b}]
       /\ current' = [current EXCEPT ![s] = <<b, s>>]
       /\ process' = [process EXCEPT ![<<b, s>>] = "running"]
  /\ Goto(s, "batch")
  /\ UNCHANGED <<runs, verdicts, produced, groups, unread, failed, rc, validators>>

\* Out of credits: no further batch, but what was produced is validated.
BalanceStop(s) ==
  /\ At(s, "batches") /\ Mode[s] = "gpt"
  /\ pending[s] # {} /\ pending' = [pending EXCEPT ![s] = {}]
  /\ UNCHANGED <<results, pc, current, produced, groups, unread, failed, rc, validators>>

ReadBatch(s) ==
  /\ At(s, "batch") /\ process[current[s]] \in {"passed", "failed"}
  /\ produced' = IF process[current[s]] = "passed"
                 THEN [produced EXCEPT ![s] = @ \cup {current[s]}] ELSE produced
  /\ current' = [current EXCEPT ![s] = None]
  /\ Goto(s, "batches")
  /\ UNCHANGED <<results, pending, groups, unread, failed, rc, validators>>

BeginValidation(s) ==
  /\ At(s, "batches") /\ pending[s] = {}
  /\ groups' = [groups EXCEPT ![s] = Grouped(produced[s])]
  /\ Goto(s, "validation")
  /\ UNCHANGED <<results, pending, current, produced, unread, failed, rc, validators>>

\* What the script keeps in its variables ends with it.
Forget(s) ==
  /\ pending' = [pending EXCEPT ![s] = {}] /\ current' = [current EXCEPT ![s] = None]
  /\ groups' = [groups EXCEPT ![s] = {}] /\ unread' = [unread EXCEPT ![s] = {}]
  /\ failed' = [failed EXCEPT ![s] = {}]

-----------------------------------------------------------------------------
(* A session has its results validated, one chunk of groups after another.  *)

Asked(s) == {v \in DOMAIN validators : v[1] = s}
Working(s) == {v \in Asked(s) : validators[v].state = "running"}
Stopped(s) == \E v \in Asked(s) : v[2] \notin unread[s] /\ validators[v].state = "oauth"

NewJob(g) == [left |-> g, todo |-> {}, state |-> "running"]

SubmitChunk(s) ==
  /\ At(s, "validation") /\ groups[s] # {} /\ ~Stopped(s)
  /\ \E chunk \in SUBSET groups[s] :
       /\ Cardinality(chunk) <= Chunk
       /\ Cardinality(chunk) = Chunk \/ chunk = groups[s]
       /\ groups' = [groups EXCEPT ![s] = @ \ chunk]
       /\ unread' = [unread EXCEPT ![s] = chunk]
       /\ validators' = [v \in DOMAIN validators \cup ({s} \X chunk) |->
                           IF v \in DOMAIN validators THEN validators[v] ELSE NewJob(v[2])]
  /\ Goto(s, "chunk")
  /\ UNCHANGED <<results, pending, current, produced, failed, rc>>

ReadButOauth(s) ==
  /\ At(s, "chunk") /\ ~Stopped(s)
  /\ \E g \in unread[s] :
       /\ validators[<<s, g>>].state # "running"
       /\ unread' = [unread EXCEPT ![s] = @ \ {g}]
       /\ failed' = IF validators[<<s, g>>].state \in {"ok", "oauth"} THEN failed
                    ELSE [failed EXCEPT ![s] = @ \cup {g}]
  /\ UNCHANGED <<results, pc, pending, current, produced, groups, rc, validators>>

\* as_completed; after an oauth failure no further result is read.
ReadValidation(s) ==
  /\ At(s, "chunk") /\ ~Stopped(s)
  /\ \E g \in unread[s] :
       /\ validators[<<s, g>>].state # "running"
       /\ unread' = [unread EXCEPT ![s] = @ \ {g}]
       /\ failed' = IF validators[<<s, g>>].state = "ok" THEN failed
                    ELSE [failed EXCEPT ![s] = @ \cup {g}]
  /\ UNCHANGED <<results, pc, pending, current, produced, groups, rc, validators>>

EndChunkRead(s) ==
  /\ At(s, "chunk") /\ Working(s) = {} /\ unread[s] = {}
  /\ Goto(s, "validation")
  /\ UNCHANGED <<results, pending, current, produced, groups, unread, failed, rc,
                 validators>>

\* The executor waits for all it has started before the chunk is left.
EndChunk(s) ==
  /\ At(s, "chunk") /\ Working(s) = {}
  /\ unread[s] = {} \/ Stopped(s)
  /\ Goto(s, "validation")
  /\ UNCHANGED <<results, pending, current, produced, groups, unread, failed, rc,
                 validators>>

ReturnCount(s) ==
  /\ At(s, "validation")
  /\ groups[s] = {} \/ Stopped(s)
  /\ rc' = [rc EXCEPT ![s] = Cardinality(failed[s])]
  /\ Forget(s)
  /\ Goto(s, "ended")
  /\ UNCHANGED <<results, produced, validators>>

Return(s) ==
  /\ At(s, "validation")
  /\ groups[s] = {} \/ Stopped(s)
  /\ rc' = [rc EXCEPT ![s] = IF failed[s] = {} THEN 0 ELSE 1]
  /\ Forget(s)
  /\ Goto(s, "ended")
  /\ UNCHANGED <<results, produced, validators>>

-----------------------------------------------------------------------------
(* The copilot processes, through run_validation and validate_batch.py.     *)

Job(v, j) == validators' = [validators EXCEPT ![v] = j]

ListRuns(v) ==
  /\ validators[v].state = "running"
  /\ \E d \in validators[v].left :
       Job(v, [validators[v] EXCEPT
                 !.left = @ \ {d},
                 !.todo = @ \cup {<<d, c>> : c \in {k \in Cases : /\ runs[d][k] = "resolved"
                                                                  /\ Judged(d, k) = {}}}])
  /\ UNCHANGED <<results, sessionVars>>

AddVerdict(v) ==
  /\ \E x \in validators[v].todo, verdict \in Verdicts :
       /\ verdicts' = [verdicts EXCEPT
            ![x[1]] = @ \cup {[case |-> x[2], by |-> v[1], verdict |-> verdict]}]
       /\ Job(v, [validators[v] EXCEPT !.todo = @ \ {x}])
  /\ UNCHANGED <<runs, process, sessionVars>>

\* One commit puts the verdict in the place of every row of the run.  A writer that
\* copilot had started goes on when copilot is gone.
WriteVerdict(v) ==
  /\ \E x \in validators[v].todo, verdict \in Verdicts :
       /\ verdicts' = [verdicts EXCEPT
            ![x[1]] = (@ \ Judged(x[1], x[2]))
                      \cup {[case |-> x[2], by |-> v[1], verdict |-> verdict]}]
       /\ Job(v, [validators[v] EXCEPT !.todo = @ \ {x}])
  /\ UNCHANGED <<runs, process, sessionVars>>

\* It ends, the agent decides when; or it fails, or is killed after 900 seconds, and
\* leaves a writer behind.
ValidatorEnds(v) ==
  /\ validators[v].state = "running"
  /\ \/ Job(v, [left |-> {}, todo |-> {}, state |-> "ok"])
     \/ \E todo \in {{}, validators[v].todo} :
          Job(v, [left |-> {}, todo |-> todo, state |-> "failed"])
  /\ UNCHANGED <<results, sessionVars>>

NotLoggedIn(v) ==
  /\ validators[v] = NewJob(v[2])
  /\ Job(v, [left |-> {}, todo |-> {}, state |-> "oauth"])
  /\ UNCHANGED <<results, sessionVars>>

-----------------------------------------------------------------------------
(* A signal.  The session waits for its validators on the way out; a batch  *)
(* may go on without it.                                                   *)

Interrupt(s) ==
  /\ pc[s] \in {"batches", "batch", "validation", "chunk"}
  /\ Goto(s, "stopping")
  /\ \/ UNCHANGED process
     \/ /\ current[s] # None /\ process[current[s]] = "running"
        /\ process' = [process EXCEPT ![current[s]] = "failed"]
  /\ Forget(s) /\ produced' = [produced EXCEPT ![s] = {}]
  /\ UNCHANGED <<runs, verdicts, rc, validators>>

Exit130(s) ==
  /\ At(s, "stopping") /\ Working(s) = {}
  /\ rc' = [rc EXCEPT ![s] = 130]
  /\ Goto(s, "ended")
  /\ UNCHANGED <<results, pending, current, produced, groups, unread, failed, validators>>

-----------------------------------------------------------------------------
Session(s) ==
  \/ StartBatch(s) \/ BalanceStop(s) \/ ReadBatch(s) \/ BeginValidation(s)
  \/ SubmitChunk(s) \/ ReadValidation(s) \/ EndChunk(s) \/ Return(s) \/ Exit130(s)

Validator(v) == ListRuns(v) \/ WriteVerdict(v) \/ NotLoggedIn(v) \/ ValidatorEnds(v)

FinalNext ==
  \/ \E d \in Dirs : RecordRun(d) \/ CloseTimedOut(d) \/ BatchEnds(d)
  \/ \E s \in Sessions : Start(s) \/ StartValidationOnly(s) \/ Session(s) \/ Interrupt(s)
  \/ \E v \in DOMAIN validators : Validator(v)

-----------------------------------------------------------------------------
FinalTypeOK ==
  /\ runs \in [Dirs -> [Cases -> {"none", "resolved", "unresolved"}]]
  /\ process \in [Dirs -> {"absent", "running", "passed", "failed"}]
  /\ verdicts \in [Dirs -> SUBSET Rows]
  /\ pc \in [Sessions ->
             {"off", "batches", "batch", "validation", "chunk", "stopping", "ended"}]
  /\ pending \in [Sessions -> SUBSET Batches]
  /\ current \in [Sessions -> Dirs \cup {None}]
  /\ produced \in [Sessions -> SUBSET Dirs]
  /\ groups \in [Sessions -> SUBSET SUBSET Dirs]
  /\ unread \in [Sessions -> SUBSET SUBSET Dirs]
  /\ failed \in [Sessions -> SUBSET SUBSET Dirs]
  /\ rc \in [Sessions -> {0, 1, 130, None}]
  /\ DOMAIN validators \subseteq Sessions \X SUBSET Dirs
  /\ \A v \in DOMAIN validators : validators[v] \in Jobs
  /\ \A s \in Sessions : Cardinality(Working(s)) <= Chunk

\* Exit code 0 after a validation means that every directory was in one group whose
\* validator returned 0, and 1 that one did not, whatever stopped the phase: a group
\* is neither skipped between chunks nor asked for twice.
ExitTellsValidation ==
  \A s \in Sessions :
    LET Of(d) == {v \in Asked(s) : d \in v[2]} IN
    /\ \A d \in Dirs : Cardinality(Of(d)) <= 1
    /\ rc[s] = 0 => \A d \in produced[s] : \E v \in Of(d) : validators[v].state = "ok"
    /\ rc[s] = 1 => \E v \in Asked(s) : validators[v].state \notin {"running", "ok"}

\* A session that is not over can go on, or waits for a process that is at work: it is
\* not left waiting for a result it has stopped reading, nor for a batch that ended.
NeverStuck ==
  \A s \in Sessions :
    pc[s] \notin {"off", "ended"} =>
      \/ ENABLED Session(s)
      \/ Working(s) # {}
      \/ current[s] # None /\ process[current[s]] = "running"
================================================================================
