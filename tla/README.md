# Verification of llm-autofix-agents

TLA+ models of the program under `src/`, TLC configurations that check them on
small instances, and TLAPS proofs of the theorems that hold for every instance.
Paths below are relative to `src/src/llm_autofix_agents/` unless they start
with `scripts/` or `specs/`, which are relative to `src/`.

## 1. The system

The program repairs a bug with a language model.  One *run* gives an agent a
workspace and a failing test, lets it edit, tests the result and repeats; a
*batch* runs many bugs, each in a container; an *experiment* runs many batches
on a shared GPU host.

| Component | State it keeps | Operations | Talks to |
|---|---|---|---|
| Repair run (`flow/`) | `RunState` (iteration, feedback, retries, remembered proposal, branch), the git workspace, the result files | baseline, iteration (prepare, agent, observe, decide, enact), finalize, exception handler | provider (call), git (subprocess), test command (subprocess), observers (events) |
| Provider (`llm/provider.py`, `provider_events.py`) | attempt number, context gathered by the failed attempt | attempt, retry with backoff, fallback record, failure | the agents SDK, the hooks (callbacks), the event callback |
| Agent tools (`tools/`) | counters of a tool context (searches, edits, guards) | read, search, edit, test, command | workspace, hooks |
| Hooks (`observability/lifecycle_hooks.py`) | queues of started calls, the retry snapshot | tool start/end, handoff | the SDK calls them, provider reads the snapshot, emitter gets the records |
| Observability store (`observability/sqlite_*.py`, `jsonl_observer.py`, `observer.py`) | `run.db`, `batch.db`, `events.jsonl` | migrations, inserts, updates, merge | the emitter, the batch runner, the aggregators |
| Batch (`batch/runner.py`, `batch/executor.py`) | the batch directory, one directory and database per run, the results list | prepare, start container, time out and kill, parse, rename, merge, finalize, save | docker, the executor inside the container (through exit code, stdout and files) |
| Experiment (`experiment/scheduler.py`, `scripts/run_experiment_ollama.py`) | the lock file, the pending list, the results directories | lock, skip completed, pick by free VRAM, run, release | batch processes (exit code, `batch.db`), nvidia-smi, Ollama |
| Final experiment (`scripts/run_final_experiment.py`) | the pending batches, the produced directories, the groups to validate and how each ended | run batches until done or out of credits, validate in chunks, stop at an oauth failure, `--validation-only`, exit code | batch processes, copilot processes (exit code and text), `batch.db` |
| Patch validation (`validation/`, `scripts/validate_batch.py`, `scripts/revalidate_all.py`) | rows of `run_validations` | list the resolved runs without a verdict, record a verdict | the store, a model or copilot |
| Aggregation (`scripts/aggregate_experiment_results.py`, `observability/aggregate.py`) | the output database | discover, count, merge, normalize, verify | every `batch.db` |
| Architectures, agent instructions, datasets, contracts | none of their own | build agents, prompts, prepare workspaces | used by the parts above |

Where it is hard: the agent may do anything to the workspace between two steps
of the run and may be cut off in the middle of it; git, provider, tests and
result files fail one by one, each leading into a different path over the same
state; a container may finish in the moment it is timed out, may survive the
kill and go on writing while the next one runs; an interrupted batch leaves
files that look like those of a finished one; two experiment drivers race for a
lock file.  Inside a run, the model asks for several tools in one turn: they run
on threads that share the counters of one tool context and the workspace, their
hooks run on an event loop that does not wait for them in any order, an attempt
may fail after half of its work and is begun again, and the iteration timeout
abandons threads that go on editing.  Above the batches, validators judge
databases that a batch still writes, and the aggregate is made beside both.


## 2. Modules

| Module | What it is |
|---|---|
| `RepairRun` | one repair run: orchestrator, both strategies, iteration, policies, enactor, git workspace, finalizer, exception handler |
| `RunContract` | what a caller of `RunOrchestrator.run` may rely on |
| `RepairRunRefinement` | `RepairRun` implements `RunContract` |
| `RepairRunClaims` | statements of the documentation the code does not keep |
| `RepairRunProofs`, `RepairRunOutcomeProofs` | theorems about `RepairRun` and its refinement, the second building on the first |
| `ToolCalls` | the tool calls of one iteration: hooks, threads, the guards over the shared context, specialists inside a call |
| `AgentCall` | one agent call: attempts, turns, retries, events, the timeout; extends `ToolCalls` |
| `CallContract` | what an iteration may rely on when it calls an agent, and how `RepairRun` models it |
| `AgentCallProofs`, `AgentCallToolProofs`, `AgentCallRecordProofs` | theorems about `AgentCall`, each module building on the one before |
| `BatchRunner` | one batch: the host loop, and each container as a process of its own |
| `BatchContract`, `BatchRunnerRefinement` | what a caller of `autofix batch` may rely on, and that `BatchRunner` implements it |
| `BatchRunnerProofs` | theorems about `BatchRunner` and its refinement |
| `BatchRunnerClaims` | what a script says of an interrupted batch |
| `Experiment` | drivers, their lock file, the VRAM scheduler, batch processes, kills and restarts |
| `MCExperiment` | a small instance of `Experiment` for TLC |
| `ExperimentClaims` | `Experiment` with the signal handler of `run_final_experiment.py` |
| `ExperimentProofs` | theorems about `Experiment` and its scheduler |
| `FinalExperiment` | sessions of `run_final_experiment.py`, their batches, and the copilot processes that judge them |
| `Aggregate` | the aggregator beside `FinalExperiment`, which it extends |
| `MCAggregate` | a small instance of both for TLC |
| `AggregateProofs` | theorems about `FinalExperiment` and `Aggregate` |

The levels are composed by contract.  `RepairRun` has of its agent what
`CallContract` leaves of an `AgentCall`: it is opened, changes the workspace at
will, comes to one outcome, and nothing it began touches the workspace after that
(`CallImplementsContract`).  `Experiment` has a batch as a process that makes
`batch.db` once, returns or dies, and `FinalExperiment` has it as a process that adds
rows, closes those of runs that timed out, and ends.  That a batch is such a process
is proved (`BatchOfADriver`, `BatchOfASession`): `BatchRunnerRefinement` maps the
state of a batch to the variables of those two modules and says that every step of
its host and of its containers is one of the steps they allow a batch, or cannot be
seen from there.  `BatchRunner` has of a repair run what `RunContract` leaves of it (a
run comes to one outcome, or dies); this link is no refinement, because a container
writes `summary.json` and `run.db` in steps of their own and a run in one, and rests
on reading both.  A model that ran all levels at once would have the product of their
states and nothing more to say: they share no state but the files that each model has.

### RepairRun and the code

| State | Code |
|---|---|
| `pc` | the position in `RunOrchestrator.run` (`flow/orchestrator.py`) |
| `worktree`, `index`, `gitRef`, `branchExists`, `repo` | the repository: file contents, git's index, what HEAD points to |
| `iteration`, `feedback`, `retries`, `memory`, `tempBranch` | the fields of `RunState` (`flow/runtime/context.py`) |
| `before` | the snapshot of `_prepare`, `detect_workspace_change_set` compares with it |
| `invocation`, `proposal`, `observed`, `decision` | input and result of the agent execution, `IterationObservation`, `IterationDecision` |
| `output`, `summary`, `event`, `error` | `RunOutput`, `summary.json`, the `run_finished` event, the category of the exception being handled |

An iteration is `StartIteration` (`_prepare`), `InvokeAgent`, any number of
`AgentEdits` and `AgentAdds`, one of `AgentReturns`, `AgentTimesOut` and
`AgentRaises`, `ObserveIteration`, and one action for each thing the enactor may
do with the decision.  Where the code can raise there is a failing form
(`...Raises`), which goes to the exception handler; a success whose branch
cleanup fails (`StopSuccessCleanupFails`) is finalized as `infra_failure`.  The policies
(`Validate`, `NoProgress`, `Success`, `Decide`) are operators with the conditions
of `flow/policies/`, in their order.

### AgentCall and the code

| State | Code |
|---|---|
| `phase`, `attempt`, `turns` | the position in `OpenAIAgentsProvider.run_agent` and in the SDK's `Runner.run` |
| `accumulated`, `recovery` | `accumulated_context` and the recovery text an attempt begins with |
| `events`, `row` | rows of `provider_calls`, the status of the row of `agent_executions` |
| `ctx` | `APRToolContext` (`tools/context.py`) |
| `seq`, `starts`, `gathered`, `rows` | `_seq`, `_pending_starts` and the retry context of the hooks; the table `tool_calls` |
| `calls` | the tool calls in flight: their `pc` is where the hook or the tool function is |
| `files` | the workspace, as the edits each file has in it |

A tool is taken apart where its thread may lose the interpreter lock between two
accesses to something shared: `search_files` checks the counter (`CheckSearch`)
before it compiles the pattern and counts after it (`Search`); the edit tools read
(`ReadOriginal`), write (`WriteUpdated`, `WriteFile`) and count (`CountEdit`);
`apply_unified_diff` reads and writes (`ApplyDiff`).
`OnToolStart` and `OnToolEnd` are the hooks, each a step of the event loop.
`Delegate` is a tool call of a specialist, which has no hooks.  `TimeOut` cancels
the loop (`Abandon`): calls that have not begun are dropped, threads go on
(`Orphan`) until `asyncio.run` has joined them (`Join`).

### BatchRunner and the code

`pc`, `idx`, `results` are the loop of `run_batch`; `runDir` and `caseDir` are the
directories under the batch directory before and after `_rename_run_dir`, each
with the row of its `run.db`, whether `events.jsonl` names the run, and the
status in `summary.json`; `batchDb` and `dbExists` are `batch.db`.  `cont` is the
progress of each container through `batch/executor.py`, and every write of a
container into a directory puts it into `fresh`, which is what
`_find_orphan_run_dir` sees through modification times.

### Experiment and the code

`lock` is the file, `pc` the place of each driver in `main`, with the steps of
`acquire_lock` apart: look (`CheckLock`), read and ask for the process
(`InspectLock`), and `write_text` as truncate and write.  `pending`, `passed`,
`failed` are the lists of `_run`, as sets: `_run` only filters the plan and removes
from it, so that the order of `pending` is the order of the plan, in which `First`
finds its head.  `job` is the child process; `db` is what `find_completed_batch` can
see of a sub-batch.  `SelectNext` is `select_next_batch` over a level of free memory
that stands for `free + loaded - buffer`, `None` when `nvidia-smi` fails.

### FinalExperiment, Aggregate and the code

`pc`, `pending`, `current`, `produced` are the batch loop of a session; `groups`,
`unread`, `failed` the validation phase: the groups of
`_group_batch_dirs_for_validation` not submitted yet, those of the chunk whose result
`as_completed` has not given yet, and `validation_failed`; `rc` is what `main` returns.
`runs`, `process` and `verdicts` are a `batch.db` and the process that writes it,
`validators` the copilot processes: `ListRuns` and `WriteVerdict` are the two calls of
`validate_batch.py`, and a writer may outlive the copilot that started it.

In `Aggregate` each step of `main` (`Discover`, `CountRuns`, `MergeDb`, `Normalize`,
`VerifyIntegrity`) is an action, so that batches and validators write between any
two of them.  `settled` remembers which batches had ended when they were counted;
it is there for the property only.

## 3. What is checked

| Run | What it shows |
|---|---|
| `repair_run_standard` | standard strategy, three iterations, a committed and an untracked test file, any workspace kind: `SuccessKeepsTests`, `ObservableSuccessWins`, `ReportedSuccessWins`, `SuccessIsEarned`, `BranchGivenBack`, `ReportsItsIteration` |
| `repair_run_phased` | planner/executor without a test command: `PlannerNeverConcludes`, `SuccessIsEarned` |
| `repair_run_faults` | git commands fail, the agent stages files: `SuccessLeavesNoBranch`, `ImplementsContract`, `ReachesVerdict` |
| `batch_runner_timeouts` | containers report, fail, hang, are timed out in any state; observers lose events; the host may stop: `OneContainerAtATime`, `ArchivedUnderItsCase`, `SummaryAgreesWithDb`, `BatchEnds` |
| `batch_runner_faults` | a container survives its kill and writes on, merging and finalizing fail: `VerdictIsItsOwn`, `RecordIsGenuine`, `ArchivesAreFinal`, `ImplementsBatchContract` |
| `experiment_restarts` | drivers killed and interrupted at every point, stale locks, orphan batches, memory that comes and goes: `OneDriverIfStartedApart`, `EachSubBatchOnce`, `NotRunAgain`, `DriverEnds` |
| `agent_call` | two tools of a turn on threads, specialists, three attempts, the timeout at every point: `SearchesWithinBudget`, `EveryStartIsRecordedOnce`, `OnlyACutCallLosesRows`, `RecoveryIsOfTheLastAttempt`, `EventsTellTheAttempts`, `TestsSeeAnEdit`, `LostOnlyToASibling`, `ImplementsCallContract`, `CallEnds` |
| `final_experiment` | a session that runs its batch, one that validates all there is and the aggregator side by side, with signals and oauth failures: `ExitTellsValidation`, `NeverStuck`, `CleanAggregate` |

The comment above each property in its module says what it means for the code.

Bounds, and why they are enough:

- `MaxIterations` 3: a rejected iteration, its retry, and one after it that meets
  what the retry left behind.  There is one retry per run, so a fourth iteration
  repeats a state of the third; the proofs hold for every number.
- One source file, two test files (one of HEAD, one not): the policies ask of a
  file only whether it is a test, changed, added, and known to git.  One content
  to write, next to the one of HEAD and "absent".
- One or two proposal texts, one passing and one failing signature, one
  confidence level: no-progress asks only whether they are equal to the
  remembered ones; a text that differs is what a status that differs is to it.
- Two cases in a batch: every hazard is between the container of a case and the
  host at the next case.  A third container could only repeat the part of the
  first; the proofs hold for every number of cases.
- Two drivers at a time, three starts, three sub-batches, one for each kind of
  model the scheduler tells apart (lighter, heavier, unknown weight): a stale
  lock, its successor and a third that meets both.  `MaxStarts` is the only bound
  that is not in the code.
- Two tool calls at a time, three in an iteration, two turns and three attempts,
  and a search budget of 1: two searches pass the guard together, one tool ends
  while a sibling of the same name runs, an attempt fails twice.  `MaxCalls`
  and `MaxInner` (tool calls of specialists) are the only bounds that are not in
  the code; the proofs are for every value of them and for any number of threads.
  `LostOnlyToASibling` speaks of two calls in flight: with three, the call that
  wrote over an edit may have ended.
- Profiles: one agent that edits and tests, one that searches and edits, one that
  reads and leaves the searching to a specialist.  Every tool has its interleavings
  with the tools that share state with it; a profile with all of them has only
  more of their products.
- One batch of one case from days ago and one that runs, two sessions, chunks of two
  groups: an oauth failure stops the reading of a chunk while its other validator is at
  work, two judges list the same run, and the aggregator reads between any two writes.
  A third group, and with it a second chunk, is beyond the five minutes of a run beside
  the aggregator (millions of states); with `Chunk = 1`, where the run passes as well,
  two groups are two chunks.  The theorems about
  `FinalExperiment` are for chunks of any size and any number of groups.

Fairness:

- `RepairRun`, `WF(RunStep)`: the thread runs on.  That an agent execution ends is
  part of it: `max_turns` bounds the model calls and `asyncio.wait_for` their
  duration (`flow/agent_execution/runner.py:98`); nothing is asked of the agent.
- `AgentCall`, `WF(Step)`: requests have a timeout (`llm/provider.py`), so have the
  subprocesses tools start, a wait ends by itself, and threads run on.  The timeout
  need not strike, and an iteration need not follow.
- `final_experiment` assumes none: a batch or a validator may hang for ever (only
  copilot is killed, after 900 seconds), and a session is not promised to end.
  `NeverStuck` says instead that every session that has not ended can take a step or
  waits for a process; `NobodyWaitsInVain` proves the same for any number of them.
- `BatchRunner`, `WF(HostStep)`: the host runs on, and `communicate()` has a
  timeout (`batch/runner.py:326`).  Nothing is asked of the containers.
- `Experiment`: drivers run on, a batch process ends (`BatchEnds`), and
  `WF(LaunchWith(d, Ample))`: a driver with work left polls, some time, when all
  memory is free.  The last one is about the other users of the host; without
  it the script polls for ever, which its docstring calls the design intent.
  A model that is heavier than the whole card is never launched, and its driver
  never ends.

## 4. What the code does not keep

Each of these is a run whose property states what a text of the repository says
and for which TLC finds the execution that breaks it.

- `claim_feedback_reaches_agent`: `specs/status.md:367` says of a retryable
  rejection "inyectan feedback explícito en el prompt de la siguiente
  iteración".  `decision_enactor.py:45` stores the feedback, and `_prepare` of the
  next iteration clears it (`iteration/runner.py:169`) before the input is built
  from it (`runner.py:217`).
- `claim_rejection_can_be_undone`: `workspace/manager.py:90` says "Restore only
  the specified test files, leaving source changes intact."  One changed test
  file that git does not know makes `git checkout` refuse them all
  (`workspace/git.py:82`); the run fails as `infra_failure` instead of being
  retried.
- `claim_interrupted_has_no_db`: `scripts/run_experiment_ollama.py:24-26` says of
  `batch.db` "the file the framework writes after all bugs have run.  A results
  dir without batch.db means the run was interrupted and will be re-executed."
  It is created by the first merge (`batch/runner.py:505`), so a batch
  interrupted later is taken for a complete one and never continued.
- `claim_one_driver_final`: `scripts/run_final_experiment.py:338-341` refuses with
  "Otra instancia ya está corriendo".  Its signal handler gives the lock back
  (line 513), notifies, and exits through the `finally` clause, which gives it
  back again (line 530): by then it may be the lock of a driver started
  meanwhile, and the next one works beside that.

Seen while reading, without a run of their own:

- `acquire_lock` (`scripts/run_experiment_ollama.py:174`) "Raises AlreadyRunningError
  if another instance is running."  Two drivers that both look for the file before
  either writes it both run; so does one that reads the file between truncate and
  write.  `Experiment` has these steps, and `OneDriverIfStartedApart` therefore asks
  that the drivers were not started in the same moment.
- A search that is asked for again is refused with "The result is in your context —
  use it instead of calling again." (`tools/fs_tools.py:148`), but the queries are
  remembered for the iteration: a retried attempt, or an agent whose specialist made
  the search, never had the result.
- The search limit is "Lifted as soon as any code edit is made"
  (`tools/fs_tools.py:153`), and the tests are refused with "no_changes_yet"; but
  `apply_unified_diff`, which a single agent has by default, edits without being
  counted (`tools/patch_tools.py:23`): neither guard knows of its edits, nor is a
  retried attempt told of them (`observability/lifecycle_hooks.py:254`).
- An edit reported as done may be undone by a second edit of the same file in the
  same turn, which had read the file before (`tools/edit_tools.py:187`).
- The search budget is checked and counted in two steps; calls of one turn may go
  beyond it together (`SearchesWithinBudget` says how far).
- `_validation_group_key` (`scripts/run_final_experiment.py`) drops the last segment
  of a name, which is the part of a split batch; a batch that is not split loses a
  part of its model's name, and two models may share one validator.
- After an oauth failure the notification counts the groups that were never
  submitted as validated (`run_final_experiment.py:855`); the exit code is right.
- `autofix validate` looks for a verdict before it asks its judge and adds one under
  an id of its own afterwards (`validation/runner.py:64`); one that a copilot wrote in
  between stays beside it, and the aggregate then has two verdicts of one run.
- A `FAIL` that `autofix validate` records for an error of the judge counts as a
  verdict, and the run is not asked about again without `--force`
  (`validation/runner.py:87`).
- The batches a killed driver had completed are not validated by the next one, which
  validates what it produced itself; `--validation-only` takes them.
- A retry uses up an iteration of the loop (`flow/strategy.py:59`), although
  `flow/models.py:82` describes it as the same iteration done again; a retry in
  the last iteration ends the run with `max_iterations`.
- The source change kept by a retry (`decision_enactor.py:38`) is not in the
  change set of the next iteration, so `StopPolicy.success` needs another change
  or a reported "done" to accept it.
- `restore_files` restores git's version of a test file, not the one the run was
  given: test copies a benchmark checkout left uncommitted are lost
  (`workspace/manager.py:93`, `git.py:82`).
- A run that starts on a detached HEAD is not brought back (`workspace/git.py:21`),
  while `specs/status.md:282` promises the original ref.
- A run that had finished when its container was timed out is closed again as
  `timed_out` (`batch/runner.py:525`).
- After a kill that failed, the directory a surviving container wrote last may
  be archived under the next case that times out (`batch/runner.py:152`):
  `ArchivedUnderItsCase` therefore asks for a working kill.
- The aggregate is "a faithful snapshot of exactly the batch dirs you specified"
  (`observability/aggregate.py:12`), but a `batch.db` hides every `run.db` beside it,
  also of runs whose merge failed.
- The sort key of `discover_configs` (`run_experiment_ollama.py:84`) is the last two
  dash-separated parts of a file name, not the model.
- A `--dry-run` of `run_final_experiment.py` that gets a signal removes the lock of
  a driver at work (line 513; the `finally` clause asks for `dry_run`, the handler
  does not).

## 5. What is proved

Every theorem is proved for every value of the constants that the named assumptions
allow: `ConstantsAssumption` and `NoneAssumption` in `RepairRun`, `BatchAssumption` and
`NoneAssumption` in `BatchRunner`, `ToolCallsAssumption`, `NoCallAssumption` and
`AgentCallAssumption` in `ToolCalls` and `AgentCall`, `ExperimentAssumption` in
`Experiment` (a sub-batch occurs once in the plan) with `SortedAssumption` (what
`sorted()` answers: the models of known weight, none before a heavier one, models of one
weight in any order) and `FinalExperimentAssumption` (finitely many sessions, batches
and cases). `EditsLostOnlyToSiblings` has a hypothesis of its own, at most two tool
calls at a time, which the run shares. A theorem without a property says more of the
code than a run could ask.

| Module | Theorem | Property |
|---|---|---|
| `RepairRunProofs` | `TypeCorrect` | `TypeOK` |
| | `SuccessLeavesNoBranchHolds` | `SuccessLeavesNoBranch` |
| | `BranchGivenBackHolds` | `BranchGivenBack` |
| | `SuccessKeepsTestsHolds` | `SuccessKeepsTests` |
| | `SuccessIsEarnedHolds` | `SuccessIsEarned` |
| `RepairRunOutcomeProofs` | `ReportsItsIterationHolds` | `ReportsItsIteration` |
| | `ObservableSuccessWinsHolds` | `ObservableSuccessWins` |
| | `ReportedSuccessWinsHolds` | `ReportedSuccessWins` |
| | `PlannerNeverConcludesHolds` | `PlannerNeverConcludes` |
| | `NoAgentIsToldOfARejection` | `FeedbackReachesAgent` fails in every run with a retry |
| | `OnlyUnknownTestsBlockARetry` | when `RejectionCanBeUndone` fails |
| | `RunIsBounded`, `RunNeverBlocks` | the safety half of `ReachesVerdict` |
| | `RunImplementsContract` | `ImplementsContract` |
| `AgentCallProofs` | `CallTypeCorrect` | `TypeOK` |
| | `CallImplementsContract` | `ImplementsCallContract` |
| `AgentCallToolProofs` | `SearchesStayWithinBudget` | `SearchesWithinBudget` |
| | `TestsRunOnAnEdit` | `TestsSeeAnEdit` |
| | `EditsLostOnlyToSiblings` | `LostOnlyToASibling` |
| | `CallIsBounded`, `CallNeverBlocks` | the safety half of `CallEnds` |
| `AgentCallRecordProofs` | `EveryStartHasItsRow` | `EveryStartIsRecordedOnce` |
| | `NoRowIsLost` | `OnlyACutCallLosesRows` |
| | `RetryIsToldOfTheLastAttempt` | `RecoveryIsOfTheLastAttempt` |
| | `EventsAreInOrder` | `EventsTellTheAttempts` |
| `BatchRunnerProofs` | `BatchTypes` | `TypeOK` |
| | `VerdictsAreOwn` | `VerdictIsItsOwn` |
| | `RecordsAreGenuine` | `RecordIsGenuine` |
| | `ArchivesFinal` | `ArchivesAreFinal` |
| | `OneContainer` | `OneContainerAtATime` |
| | `ArchivedRight` | `ArchivedUnderItsCase` |
| | `StoriesAgree` | `SummaryAgreesWithDb` |
| | `BatchIsBounded`, `BatchNeverBlocks` | the safety half of `BatchEnds` |
| | `BatchKeepsContract` | `ImplementsBatchContract` |
| | `BatchOfADriver` | a batch is the batch process of `Experiment` |
| | `BatchOfASession` | a batch is the batch process of `FinalExperiment` |
| `ExperimentProofs` | `OneDriverHolds` | `OneDriverIfStartedApart` |
| | `TypeCorrect` | `TypeOK` |
| | `EachSubBatchOnceHolds` | `EachSubBatchOnce` |
| | `NotRunAgainHolds` | `NotRunAgain` |
| | `HeaviestThatFits` | what `select_next_batch` returns |
| | `DriverIsBounded`, `DriverWaitsOnlyForMemory` | the safety half of `DriverEnds` |
| `AggregateProofs` | `TypeCorrect` | `TypeOK` |
| | `ExitTellsValidationHolds` | `ExitTellsValidation` |
| | `CleanAggregateHolds` | `CleanAggregate` |
| | `NobodyWaitsInVain` | `NeverStuck`, without `ENABLED` |
| | `SessionIsBounded` | how many steps a session takes |

The argument for `RepairRun` has layers.  `TypeInv` says what `TypeOK` says, with
what each phase adds (in `decide` there is an observation of this iteration, and
so on).  None of the safety properties is inductive: they speak of the end of a
run and rest on what happened iterations before.  `BranchInv` follows the
temporary branch through its life (HEAD is on it only while `temp_branch` is
set).  `DeliveryInv` says what the test files and the evidence look like in
each phase: the snapshot has every test file as given or as committed, a
rejected change is undone before the next snapshot, and from the decision on the
workspace is not touched.  `OutcomeInv` ties the decision to the output.  Each
module proves that its part holds initially, that every action keeps it, and
that it implies its properties.  `ReportedSuccessWins` rests on the history of the
run: `ClaimInv` says that what no-progress detection remembers of a reported "done"
is a test run that failed, so that a passing one is never taken for its repetition.

The refinement proof maps an iteration to an attempt and the observation to its
evidence; every action becomes a step of the contract or a stutter.

Two claims of section 4 are refuted by a run each; the theorems say how far.
`RetryInv` keeps the feedback empty whenever an agent is about to be started, because
`StartIteration` clears it and only `Retry`, which goes to the loop, sets it: no agent
of any run is told of a rejection.  And while git works, a retry that failed had a
changed test file that is not in the index: this is the only way to reach the
exception handler after a retry was decided and before the next iteration.

For `AgentCall`, `CallInv` is types and control: tools are in flight only during a
turn and while the call waits for what a timeout left of one, so a call that has
returned has no thread, which is the contract.  Each property has its own
invariant on top:

- `BudgetInv` counts the searches that passed the guard as if they were counted.
  The guard lets one through below the budget, when at most one call for each
  thread is between guard and counter.
- `EditInv`: a counted edit, or one about to be counted, is in a file.  It holds
  because the tools write before they count.
- `RecordInv`: every number the hooks gave out is in one place (`Exact`), and as many
  starts of a tool wait as there are calls of it to end (`Matched`).  The second part
  is why `on_tool_end` always finds a start, although it takes the oldest.
- `GatheredInv` and `EventInv`: what the hooks gathered began with this attempt, and
  the length of `events` follows from attempt and phase.
- `SiblingInv`: what an edit tool has read of a file holds every older edit that is in
  it now (`BaseIsCurrent`), and all it has read is still there while its sibling has
  not written (`BaseIsThere`), so writing it back loses nothing of an earlier turn.  A
  specialist and its call never stand beside such a tool (`NoThirdCall`).  This is
  where two calls at a time matter: with three, TLC finds the edit that one sibling
  lost and another wrote back.

For `BatchRunner`, `BatchInv` holds whatever kill and the stores do:

- `OrderInv`: nothing has happened to the cases after `idx`, and those before it have
  a result.  So the results are those of a prefix of the cases, which the contract
  counts.
- `RunsInv`: a run directory holds its own run, and an outcome in it is the one the
  run came to.
- `LateInv`: a container that still lives was timed out, unless the host waits for
  it; so a directory taken for that of a timed out case (found by its age) is of a
  timed out case, if not of this one.  This is why a survivor can spoil a timeout but
  never a verdict.
- `VerdictInv` and `RecordInv` follow a result and a row of `batch.db` from there.

`KillInv` adds, while kill works, that at most the current container lives and that
only its directory is fresh; `AgreeInv` adds, while the stores work too, that the row
merged is the row archived, and that both are closed together.  For the refinement
every step is one case more (`Account`), rows of cases already counted (`Record`), the
end, or a stutter.

What the callers of a batch see moves in few ways: `StoreMoves` says what a step does to
`batch.db` and to the place of the host, that a row appears or is closed only while the
host is at work and that the file never goes away.  From it `SeenByDriver` and
`SeenBySession` take the step of `Experiment` or `FinalExperiment` each one is.

For `Experiment`, `OneDriver`: a working driver's lock names a living process, so
whoever went past the inspection did so while nobody worked, and nobody can have begun
since, because no other driver is acquiring.  That the lock file has no owner check on
release does not matter as long as only the owner releases, which the signal
handler of `run_final_experiment.py` breaks.

`EachSubBatchOnce` needs where a driver comes from and where its process may be: it
plans with nothing reported (`PlansAfresh`), a batch process is there exactly while it
is waited for, or runs on after a kill (`JobOfBatch`), and results do not go away.  That
a launch takes a pending sub-batch is a matter of the scheduler (`NextIsPending`): a
least position in the plan and a least place among the sorted models that fit exist,
which follows from the well-foundedness of finite sets (`Smallest`).  The same lemmas,
and that an earlier place is no lighter model (`EarlierIsHeavier`), give
`HeaviestThatFits`.

`NotRunAgain`, that results which appear do not belong to a sub-batch a working driver
still has before it: a driver takes a sub-batch from its pending list before it runs it
(`OwnJobIsNotPending`), and another driver is not at work, because the lock admits one
(`OneDriver`); so what may still record a pending sub-batch is the process a dead driver
left behind, which is the exception the property names.

For `FinalExperiment` and `Aggregate`:

- `PhaseInv` follows a session: while it validates, every run it was given is in a group
  that is still to be submitted or has a validator; a validator whose answer was read
  has said "ok" or its group has failed, and a failed group has one that did not.  So
  exit code 0 leaves nothing but validated groups.
- `BatchInv`: a batch without a process has recorded nothing, and a pending batch has had
  no process.  So a session starts the batch of a directory once, and (`Lasting`) what it
  recorded stays, and a batch that has ended writes no more.
- `BatchIsThere` and `ChunkExists`: a session that waits for a batch has started it, and
  groups that are left have a chunk, so nobody waits in vain.  `GroupedSize` (no more
  groups than directories) and one directory for each batch bound the steps it takes.
- `OneVerdict`: a run has at most one verdict.
- `AggregateInv` (`CountInv`, `OutRunsInv`, `OutRowsInv`) ties each step of `main` to what
  the databases had then.  `VerifyIntegrity` compares numbers only; `SameCount` turns
  equal numbers of runs back into equal sets, because every counted run is among the
  merged ones.

Termination.  For `RepairRun`, `AgentCall`, `BatchRunner` and `Experiment` the liveness
properties are proved as far as the prover reaches: a number that is bounded
(`StepsLeft`, `CallStepsLeft`, `HostStepsLeft`, `DriverStepsLeft`) becomes smaller with
every step of the component and is left alone by every step around it, and until the
end one of those steps is possible, with the guards of the actions written out
(`CanStep`, `CallCanStep`, `HostCanStep`, `MayGoOn`).  Weak fairness of the steps then
gives the end; that last conclusion needs `ENABLED` and is not machine-checked, which
is why the runs check the liveness properties themselves.  Each number counts what the
code counts: iterations and the places of `RunOrchestrator.run`; attempts, turns and, as
a set of tickets, the steps ahead of the calls in flight, where delegating a call is paid
from the calls that specialists may still make; cases; pending sub-batches, two steps
for each.  `Experiment` has one gap, which is the code's: a driver may find that
nothing fits, and then polls again without a step.  A session of `FinalExperiment` is
promised no end, since a batch may hang; but it has a bounded number of steps
(`SessionStepsLeft`), and `NobodyWaitsInVain` says what the next one waits for.

Only model-checked: `ReachesVerdict`, `BatchEnds`, `DriverEnds` and `CallEnds` as
liveness properties, and the form of `NeverStuck` with `ENABLED`.  Every other property
of a passing run is a theorem.

## 6. What is not modelled

- In `RepairRun`: an agent that commits or switches branches through
  `execute_command`; one that edits the files the test command needs; processes
  it started that outlive a timeout; ignore rules; the text of prompts; tokens
  and costs.
- In `BatchRunner`: error texts, image builds, model eviction and environment
  variables; two batches in one directory (its name has a timestamp).
- In `AgentCall`: the prompts, token counts and the parsing of errors; the recovery
  text built from the messages when the hooks gathered nothing (it pairs a tool's
  output with the call seen last); handoffs, which pass the conversation to another
  agent of the same hooks and context; and the tools that only read, for which
  `read_file` stands.
- In `Experiment`: `--from`, the YAML splitting, the reuse of a pid, and drivers of
  different users: `os.kill` answers `PermissionError` for a living process of
  another user, which `acquire_lock` takes for a stale lock.
- In `FinalExperiment`: a `batch.db` that has no row yet (its first merge may have failed), which
  `find_completed_batch` takes for a result and `HasDb` does not; in `BatchRunner` and
  `Experiment` it is there.  Notifications, `--dry-run`, `--from` and `--smoke-test`, and
  how long anything takes.  `autofix validate` (`validation/runner.py`) is one
  sequential loop that writes a row under an id made from the run's, and
  `scripts/revalidate_all.py` has the loop of the validation phase over again.
- In `Aggregate`: tables other than `runs` and `run_validations`, which are copied in
  the same transaction.  `observability/aggregate.py` copies databases in one pass
  and has no state a second actor changes.
- The migrations of the store: `initialize` is called for new files only.
- Building agents, prompts, datasets, the command line and the analysis scripts
  keep no state that outlives a call, or only read and write files.  Notebooks and
  the demo are about half of the repository's lines, and analyse results or show
  the SDK; they are not part of the program.

## 7. Plan

Done: `RepairRun`, `AgentCall` and `BatchRunner` with their contracts, refinements and
proofs; `Experiment` with its lock, its report and its scheduler proved;
`FinalExperiment` and `Aggregate` with theirs; and the links between a batch and the two
drivers that start one.

Left: `LostOnlyToASibling` for more than two calls at a time, which takes a memory of
the calls of the turn that have ended; a repair run in which a container writes its
results step by step, so that `BatchRunner` could be proved to have it; and a model of
handoffs between agents, if they come to share more than the hooks and the context.
