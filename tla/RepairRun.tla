------------------------------- MODULE RepairRun -------------------------------
(***************************************************************************)
(* One repair run of llm_autofix_agents.flow: RunOrchestrator.run, the     *)
(* iteration strategies, IterationRunner.execute_iteration, the decision   *)
(* policies, IterationDecisionEnactor and the git workspace they act on.   *)
(*                                                                         *)
(* The run is one thread; what makes it hard is the agent, which edits any *)
(* file in any order and may be cut off at any point, and the failures of  *)
(* git, of the provider and of the result files, each of which takes       *)
(* another path through the same state.                                    *)
(*                                                                         *)
(* Abstractions.  A file content is one of a few versions.  A test         *)
(* execution is a pass or a failure with a signature.  A proposal is the   *)
(* status, the normalised text and the confidence the policies compare.    *)
(***************************************************************************)
EXTENDS Naturals

CONSTANTS
  SourceFiles,    \* files the agent is meant to repair
  TestFiles,      \* files _is_test_file accepts
  Committed,      \* the files of HEAD
  DirtyFiles,     \* files that may differ from HEAD before the run starts
                  \* (the test copies a benchmark checkout leaves behind)
  Edits,          \* contents an agent can write
  Summaries,      \* normalised proposal texts (reasoning_summary and notes)
  MaxConfidence,  \* confidences are levels 0..MaxConfidence
  PassSigs,       \* signatures of passing test executions
  FailSigs,       \* signatures of failing or timed out test executions
  MaxIterations,  \* cfg.max_iterations
  HasTests,       \* run_input.test_command is not None
  Phased,         \* planner_executor architecture (PhasedIterationStrategy)
  AgentStages,    \* the agent may run "git add" through execute_command
  GitFaults,      \* git commands may fail (index.lock, disk, permissions)
  None,           \* Python's None
  Damaged         \* a file whose writing failed half-way

Files == SourceFiles \cup TestFiles

ASSUME ConstantsAssumption ==
  /\ SourceFiles \cap TestFiles = {}
  /\ Committed \subseteq Files
  /\ DirtyFiles \subseteq Files
  /\ {"absent", "head"} \cap Edits = {}
  /\ "timed_out" \notin Summaries
  /\ PassSigs \cap FailSigs = {}
  /\ "no_tests" \notin PassSigs \cup FailSigs
  /\ MaxConfidence \in Nat
  /\ MaxIterations \in Nat \ {0}      \* resolve_max_iterations: 1..30
  /\ HasTests \in BOOLEAN
  /\ Phased \in BOOLEAN
  /\ AgentStages \in BOOLEAN
  /\ GitFaults \in BOOLEAN

VARIABLES
  pc,            \* where RunOrchestrator.run is
  start,         \* the working tree the run was given (never changes)
  repo,          \* the workspace: on a branch, on a detached HEAD, not git
  gitRef,        \* what HEAD points to: the original ref or the temp branch
  branchExists,  \* the temporary branch exists in the repository
  worktree,      \* [Files -> Versions]
  index,         \* git's index, [Files -> Versions]
  tempBranch,    \* state.temp_branch is not None
  iteration,     \* state.current_iteration
  baseline,      \* state.baseline_test_execution
  before,        \* _IterationPrep.before_snapshot
  feedback,      \* state.validation_feedback
  retries,       \* state.validation_retries
  memory,        \* state.previous_*: what no-progress detection remembers
  invocation,    \* the feedback part of the input the agent was started with
  proposal,      \* what the agent execution produced
  observed,      \* IterationObservation of the last observed iteration
  decision,      \* the last IterationDecision enacted
  error,         \* category of the exception being handled
  output,        \* the RunOutput built so far
  summary,       \* summary.json
  event          \* the run_finished event

gitVars     == <<start, repo, gitRef, branchExists, index, tempBranch>>
loopVars    == <<iteration, baseline, before, feedback, retries, memory>>
attemptVars == <<invocation, proposal, observed, decision>>
resultVars  == <<error, output, summary, event>>
vars == <<pc, worktree, gitVars, loopVars, attemptVars, resultVars>>

-----------------------------------------------------------------------------
(* Data.                                                                   *)

Versions == {"absent", "head"} \cup Edits
Trees    == [Files -> Versions]
Head     == [f \in Files |-> IF f \in Committed THEN "head" ELSE "absent"]

Statuses  == {"done", "in_progress", "stuck"}
Proposals == [status : Statuses,
              text : Summaries \cup {"timed_out"},
              confidence : 0..MaxConfidence]

\* run_test_command returns exit code 0 without running anything when there
\* is no test command; a timeout is exit code 124, so a test execution passes
\* exactly when its exit code is 0.
NoTests  == [passed |-> TRUE, sig |-> "no_tests"]
TestRuns == [passed : {TRUE}, sig : PassSigs] \cup [passed : {FALSE}, sig : FailSigs]
Tests    == IF HasTests THEN TestRuns ELSE {NoTests}

\* is_no_progress compares proposals by status and normalised text.
Signature(p) == <<p.status, p.text>>

Categories  == {"model", "infra", "unknown"}
StopReasons == {"completed", "max_iterations", "no_progress", "tool_failure",
                "infra_failure", "validation_failure", "baseline_already_passes"}
Output(status, reason, n) == [status |-> status, reason |-> reason, iteration |-> n]
Outputs == [status : {"success", "failed"}, reason : StopReasons, iteration : 1..MaxIterations]
Failed(reason) == Output("failed", reason, iteration)

\* error_category_from_exception and _stop_reason_for_category.
StopReasonFor(category) ==
  IF category = "model" THEN "tool_failure" ELSE "infra_failure"

-----------------------------------------------------------------------------
(* detect_workspace_change_set, against the snapshot taken in _prepare.    *)

Changed == {f \in Files : worktree[f] # before[f]}
Added   == {f \in Changed : before[f] = "absent"}

\* git diff compares the working tree with the index and knows nothing of
\* files outside the index; without a repository it returns nothing.
DiffEmpty ==
  \/ repo = "none"
  \/ \A f \in Changed : index[f] \in {"absent", worktree[f]}

Observation(p, t) ==
  [iteration |-> iteration, proposal |-> p, test |-> t, changed |-> Changed, added |-> Added, diffEmpty |-> DiffEmpty]
Observations ==
  [iteration : 1..MaxIterations, proposal : Proposals, test : TestRuns \cup {NoTests},
   changed : SUBSET Files, added : SUBSET Files, diffEmpty : BOOLEAN]

ASSUME NoneAssumption == None \notin Observations \cup TestRuns

-----------------------------------------------------------------------------
(* The policies.                                                           *)

\* is_regression needs a passing baseline, which ends the run before any
\* iteration starts: this failure type is never produced by a run.
IsRegression(base, test) == base # None /\ base.passed /\ ~test.passed

\* validate_iteration: the failure type, or "ok".
ValidateDiffOnly(o) ==
  IF o.changed # {} /\ o.diffEmpty /\ o.added = {} THEN "diff_integrity" ELSE "ok"
Validate(o) ==
  IF o.changed # {} /\ o.diffEmpty /\ o.added = {} THEN "diff_integrity"
  ELSE IF o.changed \cap TestFiles # {} THEN "test_file_modified"
  ELSE IF IsRegression(baseline, o.test) THEN "regression"
  ELSE "ok"

Retryable(failure) == failure = "test_file_modified"

NeverPlanning == FALSE
Planning == Phased /\ iteration = 1

\* is_no_progress
NoProgressByText(o) ==
  /\ memory # None
  /\ o.changed = {}
  /\ memory.signature = Signature(o.proposal)
  /\ o.proposal.confidence <= memory.confidence
NoProgress(o) ==
  /\ memory # None
  /\ o.changed = {}
  /\ memory.testSig = o.test.sig
  /\ \/ o.proposal.status = "stuck"
     \/ /\ memory.signature = Signature(o.proposal)
        /\ o.proposal.confidence <= memory.confidence

\* StopPolicy.success
SuccessByStatus(o) == o.proposal.status = "done" /\ (HasTests => o.test.passed)
SuccessByExitCode(o) == o.test.passed /\ (o.changed # {} \/ o.proposal.status = "done")
Success(o) ==
  \/ HasTests /\ o.test.passed /\ o.changed # {}
  \/ o.proposal.status = "done" /\ (HasTests => o.test.passed)

\* A rejected iteration is retried once in a run.
MayRetryAlways(failure) == Retryable(failure)
MayRetry(failure) == Retryable(failure) /\ retries < 1

\* decide_iteration_outcome; PlannerStopPolicy overrides the three stop
\* conditions of the policy with False.
Decide(o) ==
  LET failure == Validate(o) IN
  IF failure # "ok"
  THEN IF MayRetry(failure) THEN "retry" ELSE "stop_validation_failure"
  ELSE IF ~Planning /\ NoProgress(o) THEN "stop_no_progress"
  ELSE IF ~Planning /\ Success(o) THEN "stop_success"
  ELSE IF ~Planning /\ o.proposal.status = "stuck" THEN "stop_agent_stuck"
  ELSE "continue"

Decisions == {"retry", "stop_validation_failure", "stop_no_progress",
              "stop_success", "stop_agent_stuck", "continue"}

-----------------------------------------------------------------------------
(* The workspace.                                                          *)

\* git switch <original>: cannot succeed when the run started on a detached
\* HEAD, whose "branch name" is recorded as HEAD.
SwitchWorks == repo = "branch"
SwitchFails == repo = "detached" \/ GitFaults

\* restore_temp_branch_for_debug logs a failure and goes on.
RestoreNothing == UNCHANGED gitRef
RestoreTempBranchForDebug ==
  \/ ~tempBranch /\ UNCHANGED gitRef
  \/ tempBranch /\ SwitchWorks /\ gitRef' = "original"
  \/ tempBranch /\ SwitchFails /\ UNCHANGED gitRef

\* git checkout -- <files> restores the index version of every file, and
\* refuses them all when one of them is not in the index.
Restorable(files) == repo # "none" /\ \A f \in files : index[f] # "absent"
NotRestored(files) == worktree
Restored(files)   == [f \in Files |-> IF f \in files THEN index[f] ELSE worktree[f]]

-----------------------------------------------------------------------------
(* RunOrchestrator.run up to the strategy.                                 *)

Init ==
  /\ pc = "baseline"
  /\ repo \in {"branch", "detached", "none"}
  /\ gitRef = "original" /\ branchExists = FALSE /\ tempBranch = FALSE
  /\ worktree \in {t \in Trees : \A f \in Files \ DirtyFiles : t[f] = Head[f]}
  /\ start = worktree
  /\ index = Head
  /\ iteration = 0
  /\ baseline = None /\ before = Head
  /\ feedback = None /\ retries = 0 /\ memory = None
  /\ invocation = None /\ proposal = None /\ observed = None /\ decision = None
  /\ error = None /\ output = None /\ summary = None /\ event = None

SkipBaseline ==
  /\ pc = "baseline" /\ ~HasTests
  /\ pc' = "loop"
  /\ UNCHANGED <<worktree, gitVars, loopVars, attemptVars, resultVars>>

BaselineFails ==
  /\ pc = "baseline" /\ HasTests
  /\ \E t \in TestRuns : ~t.passed /\ baseline' = t
  /\ pc' = "loop"
  /\ UNCHANGED <<worktree, gitVars, iteration, before, feedback, retries, memory,
                 attemptVars, resultVars>>

BaselinePasses ==
  /\ pc = "baseline" /\ HasTests
  /\ \E t \in TestRuns : t.passed /\ baseline' = t
  /\ output' = Output("success", "baseline_already_passes", 1)
  /\ pc' = "finalize"
  /\ UNCHANGED <<worktree, gitVars, iteration, before, feedback, retries, memory,
                 attemptVars, error, summary, event>>

\* An exception in a step of the run: the try block of run() is left.
Raise(category) ==
  /\ error' = category
  /\ pc' = "except"
  /\ UNCHANGED <<output, summary, event>>

\* validate_bugsinpy_workspace, or the test command could not be run.
BaselineRaises ==
  /\ pc = "baseline" /\ HasTests
  /\ \E c \in {"infra", "unknown"} : Raise(c)
  /\ UNCHANGED <<worktree, gitVars, loopVars, attemptVars>>

-----------------------------------------------------------------------------
(* The strategy loop and IterationRunner._prepare.                         *)

\* ensure_temp_branch, in an iteration numbered n.
NeedsTempBranch(n) == n = 1 /\ ~tempBranch /\ repo # "none"
EnsureTempBranchUnrecorded(n) ==
  IF NeedsTempBranch(n)
  THEN branchExists' = TRUE /\ gitRef' = "temp" /\ UNCHANGED tempBranch
  ELSE UNCHANGED <<tempBranch, branchExists, gitRef>>
EnsureTempBranch(n) ==
  IF NeedsTempBranch(n)
  THEN tempBranch' = TRUE /\ branchExists' = TRUE /\ gitRef' = "temp"
  ELSE UNCHANGED <<tempBranch, branchExists, gitRef>>

SameIteration == iteration
NextIteration == iteration + 1

StartIteration ==
  /\ pc = "loop" /\ iteration < MaxIterations
  /\ iteration' = NextIteration
  /\ EnsureTempBranch(NextIteration)
  /\ before' = worktree
  /\ feedback' = None
  /\ pc' = "invoke"
  /\ UNCHANGED <<worktree, start, repo, index, baseline, retries, memory, attemptVars, resultVars>>

\* Creating the branch fails, or the snapshot after it.
StartIterationRaises ==
  /\ pc = "loop" /\ iteration < MaxIterations
  /\ iteration' = NextIteration
  /\ \/ GitFaults /\ NeedsTempBranch(NextIteration) /\ UNCHANGED <<tempBranch, branchExists, gitRef>>
     \/ EnsureTempBranch(NextIteration)
  /\ Raise("infra")
  /\ UNCHANGED <<worktree, start, repo, index, baseline, before, feedback, retries, memory, attemptVars>>

LoopExhausted ==
  /\ pc = "loop" /\ iteration = MaxIterations
  /\ RestoreTempBranchForDebug
  /\ output' = Failed("max_iterations")
  /\ pc' = "finalize"
  /\ UNCHANGED <<worktree, start, repo, branchExists, index, tempBranch, loopVars, attemptVars,
                 error, summary, event>>

-----------------------------------------------------------------------------
(* The agent execution: IterationRunner._run_agent and invoke_agent.       *)

\* The input is built from the state as _prepare left it.
InvokeAgent ==
  /\ pc = "invoke"
  /\ invocation' = [iteration |-> iteration, feedback |-> feedback]
  /\ pc' = "agent"
  /\ UNCHANGED <<worktree, gitVars, loopVars, proposal, observed, decision, resultVars>>

\* A tool call writes, creates, deletes or restores a file.  execute_command
\* runs any shell command, so no tool guard keeps test files out of reach.
AgentEdits(f, v) ==
  /\ pc = "agent"
  /\ v = "head" => f \in Committed
  /\ worktree' = [worktree EXCEPT ![f] = v]
  /\ UNCHANGED <<pc, gitVars, loopVars, attemptVars, resultVars>>

AgentAdds(f) ==
  /\ pc = "agent" /\ AgentStages /\ repo # "none"
  /\ index' = [index EXCEPT ![f] = worktree[f]]
  /\ UNCHANGED <<pc, worktree, start, repo, gitRef, branchExists, tempBranch, loopVars,
                 attemptVars, resultVars>>

AgentReturns(p) ==
  /\ pc = "agent"
  /\ proposal' = p
  /\ pc' = "observe"
  /\ UNCHANGED <<worktree, gitVars, loopVars, invocation, observed, decision, resultVars>>

\* asyncio.wait_for cancels the provider call; the edits made so far stay.
AgentTimesOut ==
  AgentReturns([status |-> "in_progress", text |-> "timed_out", confidence |-> 0])

\* Any other exception of the provider becomes a ProviderExecutionError;
\* building the agent or its input may fail as well.
AgentRaises ==
  /\ pc \in {"invoke", "agent"}
  /\ Raise(IF pc = "agent" THEN "model" ELSE "unknown")
  /\ UNCHANGED <<worktree, gitVars, loopVars, attemptVars>>

-----------------------------------------------------------------------------
(* IterationRunner._observe.                                               *)

ObserveIteration ==
  /\ pc = "observe"
  /\ \E t \in Tests : observed' = Observation(proposal, t)
  /\ pc' = "decide"
  /\ UNCHANGED <<worktree, gitVars, loopVars, invocation, proposal, decision, resultVars>>

\* The change inspection, the patch file, the workspace validator or the
\* test command fails before the state is recorded.
ObserveRaises ==
  /\ pc = "observe"
  /\ \E c \in {"infra", "unknown"} : Raise(c)
  /\ UNCHANGED <<worktree, gitVars, loopVars, attemptVars>>

-----------------------------------------------------------------------------
(* IterationDecisionEnactor.enact, one action per outcome of a decision.   *)

Deciding(action) == pc = "decide" /\ Decide(observed) = action /\ decision' = action

ChangedTests == observed.changed \cap TestFiles

\* retry, test files restored: the source fix is kept, the proposal is not
\* remembered, and the next pass of the strategy loop follows.
Retry ==
  /\ Deciding("retry")
  /\ Restorable(ChangedTests)
  /\ worktree' = Restored(ChangedTests)
  /\ feedback' = "rejection"
  /\ retries' = retries + 1
  /\ pc' = "loop"
  /\ UNCHANGED <<gitVars, iteration, baseline, before, memory, invocation, proposal,
                 observed, resultVars>>

RetryRaises ==
  /\ Deciding("retry")
  /\ ~Restorable(ChangedTests) \/ GitFaults
  /\ Raise("infra")
  /\ UNCHANGED <<worktree, gitVars, loopVars, invocation, proposal, observed>>

Stop(action, reason) ==
  /\ Deciding(action)
  /\ RestoreTempBranchForDebug
  /\ output' = Failed(reason)
  /\ pc' = "finalize"
  /\ UNCHANGED <<worktree, start, repo, branchExists, index, tempBranch, loopVars, invocation,
                 proposal, observed, error, summary, event>>

StopValidationFailure == Stop("stop_validation_failure", "validation_failure")
StopNoProgress        == Stop("stop_no_progress", "no_progress")
StopAgentStuck        == Stop("stop_agent_stuck", "no_progress")

\* cleanup_temp_branch_after_success: switch back, delete the branch.
StopSuccess ==
  /\ Deciding("stop_success")
  /\ \/ ~tempBranch /\ UNCHANGED <<gitRef, branchExists>>
     \/ tempBranch /\ SwitchWorks /\ gitRef' = "original" /\ branchExists' = FALSE
  /\ output' = Output("success", "completed", iteration)
  /\ pc' = "finalize"
  /\ UNCHANGED <<worktree, start, repo, index, tempBranch, loopVars, invocation, proposal,
                 observed, error, summary, event>>

\* Either git command fails: a finished repair is reported as a failure.
StopSuccessCleanupFails ==
  /\ Deciding("stop_success") /\ tempBranch
  /\ \/ SwitchFails /\ UNCHANGED gitRef
     \/ SwitchWorks /\ GitFaults /\ gitRef' = "original"
  /\ output' = Failed("infra_failure")
  /\ pc' = "finalize"
  /\ UNCHANGED <<worktree, start, repo, branchExists, index, tempBranch, loopVars, invocation,
                 proposal, observed, error, summary, event>>

\* _remember_progress
Continue ==
  /\ Deciding("continue")
  /\ memory' = [signature  |-> Signature(proposal),
                confidence |-> proposal.confidence,
                testSig    |-> observed.test.sig]
  /\ pc' = "loop"
  /\ UNCHANGED <<worktree, gitVars, iteration, baseline, before, feedback, retries,
                 invocation, proposal, observed, resultVars>>

-----------------------------------------------------------------------------
(* RunFinalizer.finalize and the exception handler of run().               *)

FirstIteration == 1
IterationInFlight == IF iteration = 0 THEN 1 ELSE iteration

\* The handler reports the iteration in flight, switches back and finalizes.
HandleException ==
  /\ pc = "except"
  /\ output' = Output("failed", StopReasonFor(error), IterationInFlight)
  /\ RestoreTempBranchForDebug
  /\ pc' = "finalize_error"
  /\ UNCHANGED <<worktree, start, repo, branchExists, index, tempBranch, loopVars, attemptVars,
                 error, summary, event>>

\* summary.json, then the run_finished event; observers never raise.
Finalize ==
  /\ pc \in {"finalize", "finalize_error"}
  /\ summary' = output
  /\ event' = output
  /\ pc' = "done"
  /\ UNCHANGED <<worktree, gitVars, loopVars, attemptVars, error, output>>

\* write_summary fails inside the try block: the outcome is replaced.
FinalizeRaises ==
  /\ pc = "finalize"
  /\ error' = "unknown"
  /\ summary' \in {summary, Damaged}
  /\ pc' = "except"
  /\ UNCHANGED <<worktree, gitVars, loopVars, attemptVars, output, event>>

\* write_summary fails in the handler: run() itself raises.
RunRaises ==
  /\ pc = "finalize_error"
  /\ summary' \in {summary, Damaged}
  /\ pc' = "raised"
  /\ UNCHANGED <<worktree, gitVars, loopVars, attemptVars, error, output, event>>

\* The run is over; the process goes on to print the output.
Terminated == pc \in {"done", "raised"} /\ UNCHANGED vars

-----------------------------------------------------------------------------
AgentAction ==
  \/ \E f \in Files, v \in Versions : AgentEdits(f, v)
  \/ \E f \in Files : AgentAdds(f)

AgentEnds ==
  \/ \E p \in Proposals : p.text # "timed_out" /\ AgentReturns(p)
  \/ AgentTimesOut
  \/ AgentRaises

Enact == Retry \/ RetryRaises \/ StopValidationFailure \/ StopNoProgress \/ StopAgentStuck
         \/ StopSuccess \/ StopSuccessCleanupFails \/ Continue

RunStep ==
  \/ SkipBaseline \/ BaselineFails \/ BaselinePasses \/ BaselineRaises
  \/ StartIteration \/ StartIterationRaises \/ LoopExhausted
  \/ InvokeAgent \/ AgentEnds
  \/ ObserveIteration \/ ObserveRaises
  \/ Enact
  \/ HandleException \/ Finalize \/ FinalizeRaises \/ RunRaises

Next == AgentAction \/ RunStep \/ Terminated

Spec == Init /\ [][Next]_vars

\* The thread runs on, and an agent execution ends: max_turns bounds the model
\* calls of an execution and the iteration timeout its duration.
FairSpec == Spec /\ WF_vars(RunStep)

-----------------------------------------------------------------------------
(* What a run promises.                                                    *)

Memories    == [signature : Statuses \X (Summaries \cup {"timed_out"}),
                confidence : 0..MaxConfidence,
                testSig : PassSigs \cup FailSigs \cup {"no_tests"}]
Phases      == {"baseline", "loop", "invoke", "agent", "observe", "decide", "except",
                "finalize", "finalize_error", "done", "raised"}
Invocations == [iteration : 1..MaxIterations, feedback : {None, "rejection"}]

\* Every variable has its type; in particular a run retries at most once and
\* starts at most MaxIterations iterations.
TypeOK ==
  /\ pc \in Phases
  /\ start \in Trees /\ worktree \in Trees /\ index \in Trees /\ before \in Trees
  /\ repo \in {"branch", "detached", "none"}
  /\ gitRef \in {"original", "temp"}
  /\ branchExists \in BOOLEAN /\ tempBranch \in BOOLEAN
  /\ iteration \in 0..MaxIterations
  /\ baseline \in TestRuns \cup {None}
  /\ feedback \in {None, "rejection"}
  /\ retries \in 0..1
  /\ memory \in Memories \cup {None}
  /\ invocation \in Invocations \cup {None}
  /\ proposal \in Proposals \cup {None}
  /\ observed \in Observations \cup {None}
  /\ decision \in Decisions \cup {None}
  /\ error \in Categories \cup {None}
  /\ output \in Outputs \cup {None}
  /\ summary \in Outputs \cup {None, Damaged}
  /\ event \in Outputs \cup {None}

Over      == pc \in {"done", "raised"}
Succeeded == pc = "done" /\ output.status = "success"
\* The current iteration was observed.
Seen      == observed # None /\ observed.iteration = iteration

\* A repair reported as a success leaves every test file as the run was given
\* it or as HEAD has it, whatever the agent did to the test files in earlier
\* iterations: test_file_modified is found before the success test, and the
\* retry undoes it before the next snapshot is taken.
SuccessKeepsTests ==
  ~AgentStages /\ Succeeded =>
    \A f \in TestFiles : worktree[f] \in {start[f], Head[f]}

\* "Test results and file changes are ground truth" (StopPolicy.success): an
\* iteration that passed validation, changed files and made the tests pass
\* ends the run, and ends it with a success unless git or the result files
\* fail; neither the status the agent reports nor no-progress detection nor
\* the iteration limit gets in between.
ObservableSuccessWins ==
  /\ pc \in {"loop", "done"}
  /\ HasTests /\ Seen /\ ~Planning
  /\ observed.test.passed /\ observed.changed # {} /\ Validate(observed) = "ok"
  => pc = "done" /\ (output.status = "success" \/ output.reason = "infra_failure")

\* The fallback of StopPolicy.success: an agent that reports "done" over
\* passing tests succeeds although it changed nothing.  No-progress detection
\* is asked first and never says otherwise, except after a planner, whose
\* proposal is remembered although it passed the tests.
ReportedSuccessWins ==
  /\ pc \in {"loop", "done"}
  /\ ~Phased /\ Seen
  /\ observed.proposal.status = "done" /\ observed.test.passed /\ observed.changed = {}
  => pc = "done" /\ (output.status = "success" \/ output.reason = "infra_failure")

\* Evidence of the very iteration the output reports: it changed no test file,
\* and the tests passed after it or, when there is no test command, the agent
\* reported "done"; or the baseline passed and no agent was started.  What was
\* tested is what the workspace holds.
Earned ==
  \/ /\ output.reason = "baseline_already_passes"
     /\ baseline.passed /\ invocation = None /\ worktree = start
  \/ /\ output.reason = "completed"
     /\ Seen /\ output.iteration = iteration
     /\ observed.test.passed /\ (HasTests \/ observed.proposal.status = "done")
     /\ observed.changed \cap TestFiles = {} /\ observed.changed = Changed

\* No run reports a success it has not earned: not over a test run of an
\* earlier iteration, not after touching the workspace again, not over tests
\* the agent changed.
SuccessIsEarned == Succeeded => Earned

\* The planner plans: only the baseline, a failure or a validation stop ends a
\* planner_executor run in its first iteration (PlannerStopPolicy).
PlannerNeverConcludes ==
  Phased /\ pc = "done" /\ output.reason \in {"completed", "no_progress"}
  => output.iteration > 1

\* A success leaves the workspace on the original ref with the temporary
\* branch gone, even where git commands fail.
SuccessLeavesNoBranch ==
  Succeeded => gitRef = "original" /\ ~branchExists

\* However the run ends, the workspace is back on the branch it started from
\* (when git works and there was a branch to go back to).
BranchGivenBack ==
  Over /\ ~GitFaults /\ repo # "detached" => gitRef = "original"

\* The outcome names the iteration the run was in (RunState.current_iteration:
\* "rather than a hardcoded 1"), on every path to an output.
ReportsItsIteration ==
  pc = "done" => output.iteration = IF iteration > 0 THEN iteration ELSE 1

=============================================================================
