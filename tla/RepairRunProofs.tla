---------------------------- MODULE RepairRunProofs ----------------------------
(***************************************************************************)
(* Proofs about RepairRun, for every set of files, contents and signatures *)
(* and every iteration limit.                                              *)
(*                                                                         *)
(* TypeInv is inductive.  The other invariants are conjunctions of a       *)
(* property and of what it takes to carry the property from one step to    *)
(* the next; each is inductive relative to TypeInv.                        *)
(***************************************************************************)
EXTENDS RepairRun, TLAPS

\* What the control state says about the attempt: inside an iteration there
\* is one, and the enactor has a proposal and an observation to work on.
PhaseOK ==
  /\ pc \in {"invoke", "agent", "observe", "decide"} => iteration \in 1..MaxIterations
  /\ pc \in {"observe", "decide"} => proposal \in Proposals
  /\ pc = "decide" => observed \in Observations

TypeInv == TypeOK /\ PhaseOK

-----------------------------------------------------------------------------
(* Types of the operators.                                                 *)

\* The numeric limits, apart from the other assumptions.
LEMMA Limits == MaxIterations \in Nat \ {0} /\ MaxConfidence \in Nat
BY ConstantsAssumption DEF ConstantsAssumption

\* HEAD's tree is a tree.
LEMMA HeadType == Head \in Trees
BY DEF Head, Trees, Versions

\* An iteration in flight, observed after any test execution, is an
\* observation.
LEMMA ObservationType ==
  ASSUME NEW p \in Proposals, NEW t \in Tests, iteration \in 1..MaxIterations
  PROVE  Observation(p, t) \in Observations
<1>1. t \in TestRuns \cup {NoTests}
  BY DEF Tests
<1>2. Changed \in SUBSET Files /\ Added \in SUBSET Files
  BY DEF Changed, Added
<1>3. DiffEmpty \in BOOLEAN
  BY DEF DiffEmpty
<1>4. QED
  BY <1>1, <1>2, <1>3 DEF Observation, Observations

\* An output made in an iteration has the type of an output.
LEMMA OutputType ==
  ASSUME NEW status \in {"success", "failed"}, NEW reason \in StopReasons,
         NEW n \in 1..MaxIterations
  PROVE  Output(status, reason, n) \in Outputs
BY DEF Output, Outputs

LEMMA FailedType ==
  ASSUME NEW reason \in StopReasons, iteration \in 1..MaxIterations
  PROVE  Failed(reason) \in Outputs
BY OutputType DEF Failed

\* Restoring files from the index yields a tree.
LEMMA RestoredType ==
  ASSUME worktree \in Trees, index \in Trees, NEW files
  PROVE  Restored(files) \in Trees
BY DEF Restored, Trees

\* A test execution has a signature.
LEMMA SignatureType ==
  ASSUME NEW t \in TestRuns \cup {NoTests}
  PROVE  t.sig \in PassSigs \cup FailSigs \cup {"no_tests"}
<1>1. CASE t \in [passed : {TRUE}, sig : PassSigs]
  BY <1>1
<1>2. CASE t \in [passed : {FALSE}, sig : FailSigs]
  BY <1>2
<1>3. CASE t = NoTests
  BY <1>3 DEF NoTests
<1>4. QED
  BY <1>1, <1>2, <1>3 DEF TestRuns

LEMMA OneIsAnIteration == 1 \in 1..MaxIterations
BY Limits

\* What a decision says about the observation it was made on.
LEMMA RetryDecision ==
  ASSUME Decide(observed) = "retry"
  PROVE  Validate(observed) # "ok" /\ retries < 1
BY DEF Decide, MayRetry

LEMMA AcceptingDecision ==
  ASSUME Decide(observed) \in {"stop_no_progress", "stop_success", "stop_agent_stuck", "continue"}
  PROVE  Validate(observed) = "ok"
BY DEF Decide

-----------------------------------------------------------------------------
LEMMA TypeInitially == Init => TypeInv
<1> SUFFICES ASSUME Init PROVE TypeInv
  OBVIOUS
<1>1. worktree \in Trees /\ start \in Trees /\ index \in Trees /\ before \in Trees
  BY HeadType DEF Init
<1>2. 0 \in 0..MaxIterations
  BY Limits
<1>3. TypeOK
  <2>1. branchExists \in BOOLEAN /\ tempBranch \in BOOLEAN
    BY DEF Init
  <2>2. pc \in Phases /\ repo \in {"branch", "detached", "none"} /\ gitRef \in {"original", "temp"}
    BY DEF Init, Phases
  <2>3. iteration \in 0..MaxIterations /\ retries \in 0..1
    BY <1>2 DEF Init
  <2>4. /\ baseline = None /\ feedback = None /\ memory = None /\ invocation = None
        /\ proposal = None /\ observed = None /\ decision = None /\ error = None
        /\ output = None /\ summary = None /\ event = None
    BY DEF Init
  <2>5. QED
    BY <1>1, <2>1, <2>2, <2>3, <2>4 DEF TypeOK
<1>4. PhaseOK
  BY DEF Init, PhaseOK
<1>5. QED
  BY <1>3, <1>4 DEF TypeInv

LEMMA TypeStep == TypeInv /\ [Next]_vars => TypeInv'
<1> SUFFICES ASSUME TypeInv, [Next]_vars PROVE TypeInv'
  OBVIOUS
<1> USE DEF vars, gitVars, loopVars, attemptVars, resultVars
<1>1. CASE SkipBaseline
  BY <1>1 DEF Phases, SkipBaseline, TypeInv, TypeOK, PhaseOK
<1>2. CASE BaselineFails
  BY <1>2 DEF Phases, BaselineFails, TypeInv, TypeOK, PhaseOK
<1>3. CASE BaselinePasses
  <2>1. output' \in Outputs
    BY <1>3, OneIsAnIteration, OutputType DEF BaselinePasses, StopReasons
  <2>2. QED
    BY <1>3, <2>1 DEF Phases, BaselinePasses, TypeInv, TypeOK, PhaseOK
<1>4. CASE BaselineRaises
  BY <1>4 DEF Phases, BaselineRaises, Raise, TypeInv, TypeOK, PhaseOK, Categories
<1>5. CASE StartIteration
  <2>1. iteration' \in 1..MaxIterations
    BY <1>5, Limits DEF StartIteration, NextIteration, TypeInv, TypeOK
  <2>2. gitRef' \in {"original", "temp"} /\ branchExists' \in BOOLEAN /\ tempBranch' \in BOOLEAN
    BY <1>5 DEF StartIteration, EnsureTempBranch, TypeInv, TypeOK
  <2>3. QED
    BY <1>5, <2>1, <2>2 DEF Phases, StartIteration, TypeInv, TypeOK, PhaseOK
<1>6. CASE StartIterationRaises
  <2>1. iteration' \in 1..MaxIterations
    BY <1>6, Limits DEF StartIterationRaises, NextIteration, TypeInv, TypeOK
  <2>2. gitRef' \in {"original", "temp"} /\ branchExists' \in BOOLEAN /\ tempBranch' \in BOOLEAN
    BY <1>6 DEF StartIterationRaises, EnsureTempBranch, TypeInv, TypeOK
  <2>3. QED
    BY <1>6, <2>1, <2>2 DEF Phases, StartIterationRaises, Raise, TypeInv, TypeOK, PhaseOK, Categories
<1>7. CASE LoopExhausted
  <2>1. output' \in Outputs
    BY <1>7, FailedType, Limits DEF LoopExhausted, StopReasons
  <2>2. gitRef' \in {"original", "temp"}
    BY <1>7 DEF LoopExhausted, RestoreTempBranchForDebug, TypeInv, TypeOK
  <2>3. QED
    BY <1>7, <2>1, <2>2 DEF Phases, LoopExhausted, TypeInv, TypeOK, PhaseOK
<1>8. CASE InvokeAgent
  <2>1. invocation' \in Invocations
    BY <1>8 DEF Phases, InvokeAgent, Invocations, TypeInv, TypeOK, PhaseOK
  <2>2. QED
    BY <1>8, <2>1 DEF Phases, InvokeAgent, TypeInv, TypeOK, PhaseOK
<1>9. CASE \E f \in Files, v \in Versions : AgentEdits(f, v)
  <2>1. PICK f \in Files, v \in Versions : AgentEdits(f, v)
    BY <1>9
  <2>2. worktree' \in Trees
    BY <2>1 DEF AgentEdits, Trees, TypeInv, TypeOK
  <2>3. QED
    BY <2>1, <2>2 DEF AgentEdits, TypeInv, TypeOK, PhaseOK
<1>10. CASE \E f \in Files : AgentAdds(f)
  <2>1. PICK f \in Files : AgentAdds(f)
    BY <1>10
  <2>2. index' \in Trees
    BY <2>1 DEF AgentAdds, Trees, TypeInv, TypeOK
  <2>3. QED
    BY <2>1, <2>2 DEF AgentAdds, TypeInv, TypeOK, PhaseOK
<1>11. CASE \E p \in Proposals : p.text # "timed_out" /\ AgentReturns(p)
  BY <1>11 DEF Phases, AgentReturns, TypeInv, TypeOK, PhaseOK
<1>12. CASE AgentTimesOut
  <2>1. [status |-> "in_progress", text |-> "timed_out", confidence |-> 0] \in Proposals
    BY Limits DEF Proposals, Statuses
  <2>2. QED
    BY <1>12, <2>1 DEF Phases, AgentTimesOut, AgentReturns, TypeInv, TypeOK, PhaseOK
<1>13. CASE AgentRaises
  <2>1. error' \in Categories
    BY <1>13 DEF AgentRaises, Raise, Categories
  <2>2. QED
    BY <1>13, <2>1 DEF Phases, AgentRaises, Raise, TypeInv, TypeOK, PhaseOK
<1>14. CASE ObserveIteration
  <2>1. observed' \in Observations
    BY <1>14, ObservationType DEF ObserveIteration, TypeInv, PhaseOK
  <2>2. QED
    BY <1>14, <2>1 DEF Phases, ObserveIteration, TypeInv, TypeOK, PhaseOK
<1>15. CASE ObserveRaises
  BY <1>15 DEF Phases, ObserveRaises, Raise, TypeInv, TypeOK, PhaseOK, Categories
<1>16. CASE Retry
  <2>1. worktree' \in Trees
    BY <1>16, RestoredType DEF Retry, TypeInv, TypeOK
  <2>2. retries' \in 0..1
    BY <1>16, RetryDecision DEF Retry, Deciding, TypeInv, TypeOK
  <2>3. QED
    BY <1>16, <2>1, <2>2 DEF Phases, Retry, Deciding, Decisions, TypeInv, TypeOK, PhaseOK
<1>17. CASE RetryRaises
  BY <1>17 DEF Phases, RetryRaises, Deciding, Decisions, Raise, TypeInv, TypeOK, PhaseOK, Categories
<1>18. ASSUME NEW action \in Decisions, NEW reason \in StopReasons, Stop(action, reason)
       PROVE  TypeInv'
  <2>1. output' \in Outputs
    BY <1>18, FailedType DEF Stop, Deciding, TypeInv, PhaseOK
  <2>2. gitRef' \in {"original", "temp"}
    BY <1>18 DEF Stop, RestoreTempBranchForDebug, TypeInv, TypeOK
  <2>3. QED
    BY <1>18, <2>1, <2>2 DEF Phases, Stop, Deciding, TypeInv, TypeOK, PhaseOK
<1>19. CASE StopValidationFailure \/ StopNoProgress \/ StopAgentStuck
  BY <1>18, <1>19 DEF StopValidationFailure, StopNoProgress, StopAgentStuck, Decisions, StopReasons
<1>20. CASE StopSuccess
  <2>1. output' \in Outputs
    BY <1>20, OutputType DEF StopSuccess, Deciding, StopReasons, TypeInv, PhaseOK
  <2>2. gitRef' \in {"original", "temp"} /\ branchExists' \in BOOLEAN
    BY <1>20 DEF StopSuccess, TypeInv, TypeOK
  <2>3. QED
    BY <1>20, <2>1, <2>2 DEF Phases, StopSuccess, Deciding, Decisions, TypeInv, TypeOK, PhaseOK
<1>21. CASE StopSuccessCleanupFails
  <2>1. output' \in Outputs
    BY <1>21, FailedType DEF StopSuccessCleanupFails, Deciding, StopReasons, TypeInv, PhaseOK
  <2>2. gitRef' \in {"original", "temp"}
    BY <1>21 DEF StopSuccessCleanupFails, TypeInv, TypeOK
  <2>3. QED
    BY <1>21, <2>1, <2>2 DEF Phases, StopSuccessCleanupFails, Deciding, Decisions, TypeInv, TypeOK, PhaseOK
<1>22. CASE Continue
  <2>1. proposal \in Proposals /\ observed \in Observations
    BY <1>22 DEF Continue, Deciding, TypeInv, PhaseOK
  <2>2. observed.test \in TestRuns \cup {NoTests}
    BY <2>1 DEF Observations
  <2>3. observed.test.sig \in PassSigs \cup FailSigs \cup {"no_tests"}
    BY <2>2, SignatureType
  <2>4. memory' \in Memories
    BY <1>22, <2>1, <2>3 DEF Continue, Signature, Proposals, Memories
  <2>5. QED
    BY <1>22, <2>4 DEF Phases, Continue, Deciding, Decisions, TypeInv, TypeOK, PhaseOK
<1>23. CASE HandleException
  <2>1. IterationInFlight \in 1..MaxIterations
    <3>1. iteration \in 0..MaxIterations
      BY DEF TypeInv, TypeOK
    <3>2. QED
      BY <3>1, Limits DEF IterationInFlight
  <2>2. output' \in Outputs
    BY <1>23, <2>1, OutputType DEF HandleException, StopReasonFor, StopReasons
  <2>3. gitRef' \in {"original", "temp"}
    BY <1>23 DEF HandleException, RestoreTempBranchForDebug, TypeInv, TypeOK
  <2>4. QED
    BY <1>23, <2>2, <2>3 DEF Phases, HandleException, TypeInv, TypeOK, PhaseOK
<1>24. CASE Finalize
  <2>1. summary' \in Outputs \cup {None, Damaged} /\ event' \in Outputs \cup {None}
    BY <1>24 DEF Finalize, TypeInv, TypeOK
  <2>2. QED
    BY <1>24, <2>1 DEF Phases, Finalize, TypeInv, TypeOK, PhaseOK
<1>25. CASE FinalizeRaises
  BY <1>25 DEF Phases, FinalizeRaises, TypeInv, TypeOK, PhaseOK, Categories
<1>26. CASE RunRaises
  <2>1. summary' \in Outputs \cup {None, Damaged}
    BY <1>26 DEF RunRaises, TypeInv, TypeOK
  <2>2. QED
    BY <1>26, <2>1 DEF Phases, RunRaises, TypeInv, TypeOK, PhaseOK
<1>27. CASE UNCHANGED vars
  <2>1. TypeOK'
    BY <1>27 DEF TypeInv, TypeOK
  <2>2. PhaseOK'
    BY <1>27 DEF TypeInv, PhaseOK
  <2>3. QED
    BY <2>1, <2>2 DEF TypeInv
<1>28. QED
  BY <1>1, <1>2, <1>3, <1>4, <1>5, <1>6, <1>7, <1>8, <1>9, <1>10, <1>11, <1>12, <1>13, <1>14,
     <1>15, <1>16, <1>17, <1>19, <1>20, <1>21, <1>22, <1>23, <1>24, <1>25, <1>26, <1>27
  DEF Next, AgentAction, RunStep, AgentEnds, Enact, Terminated

LEMMA TypeInvariant == Spec => []TypeInv
<1>1. Init => TypeInv
  BY TypeInitially
<1>2. TypeInv /\ [Next]_vars => TypeInv'
  BY TypeStep
<1>3. QED
  BY <1>1, <1>2, PTL DEF Spec

\* In every reachable state every variable has its type: no path through a run
\* retries twice, starts more than max_iterations iterations or reports an
\* iteration the run cannot have had.
THEOREM TypeCorrect == Spec => []TypeOK
<1>1. TypeInv => TypeOK
  BY DEF TypeInv
<1>2. QED
  BY <1>1, TypeInvariant, PTL

-----------------------------------------------------------------------------
(* The branches.  The temporary branch is recorded before anything else    *)
(* can fail, which is what lets every ending find it again.                *)

Ending == {"finalize", "finalize_error", "done", "raised"}

BranchInv ==
  /\ branchExists => tempBranch
  /\ gitRef = "temp" => tempBranch
  /\ tempBranch => repo # "none"
  /\ pc = "baseline" => ~branchExists /\ gitRef = "original"
  /\ pc = "finalize_error" => output.status = "failed"
  /\ pc \in {"finalize", "done"} /\ output.status = "success" => gitRef = "original" /\ ~branchExists
  /\ pc \in Ending /\ ~GitFaults /\ repo # "detached" => gitRef = "original"

\* Switching back works where git works and there is a branch to switch to.
LEMMA SwitchedBack ==
  ASSUME RestoreTempBranchForDebug, TypeOK, BranchInv, ~GitFaults, repo # "detached"
  PROVE  gitRef' = "original"
BY DEF RestoreTempBranchForDebug, SwitchFails, TypeOK, BranchInv

LEMMA BranchInitially == Init => BranchInv
BY DEF Init, BranchInv, Ending

LEMMA BranchStep == TypeInv /\ BranchInv /\ [Next]_vars => BranchInv'
<1> SUFFICES ASSUME TypeOK, BranchInv, [Next]_vars PROVE BranchInv'
  BY DEF TypeInv
<1> USE DEF vars, gitVars, loopVars, attemptVars, resultVars
<1>1. CASE SkipBaseline
  BY <1>1 DEF SkipBaseline, BranchInv, Ending
<1>2. CASE BaselineFails
  BY <1>2 DEF BaselineFails, BranchInv, Ending
<1>3. CASE BaselinePasses
  BY <1>3 DEF BaselinePasses, BranchInv, Ending
<1>4. CASE BaselineRaises
  BY <1>4 DEF BaselineRaises, Raise, BranchInv, Ending
<1>5. CASE StartIteration
  BY <1>5 DEF StartIteration, EnsureTempBranch, NeedsTempBranch, BranchInv, Ending
<1>6. CASE StartIterationRaises
  BY <1>6 DEF StartIterationRaises, EnsureTempBranch, NeedsTempBranch, Raise, BranchInv, Ending
<1>7. CASE LoopExhausted
  <2>1. output'.status = "failed"
    BY <1>7 DEF LoopExhausted, Failed, Output
  <2>2. gitRef' \in {gitRef, "original"}
    BY <1>7 DEF LoopExhausted, RestoreTempBranchForDebug
  <2>3. QED
    BY <1>7, <2>1, <2>2, SwitchedBack DEF LoopExhausted, BranchInv, Ending
<1>8. CASE InvokeAgent
  BY <1>8 DEF InvokeAgent, BranchInv, Ending
<1>9. CASE \E f \in Files, v \in Versions : AgentEdits(f, v)
  BY <1>9 DEF AgentEdits, BranchInv, Ending
<1>10. CASE \E f \in Files : AgentAdds(f)
  BY <1>10 DEF AgentAdds, BranchInv, Ending
<1>11. CASE (\E p \in Proposals : p.text # "timed_out" /\ AgentReturns(p)) \/ AgentTimesOut
  BY <1>11 DEF AgentTimesOut, AgentReturns, BranchInv, Ending
<1>12. CASE AgentRaises
  BY <1>12 DEF AgentRaises, Raise, BranchInv, Ending
<1>13. CASE ObserveIteration
  BY <1>13 DEF ObserveIteration, BranchInv, Ending
<1>14. CASE ObserveRaises
  BY <1>14 DEF ObserveRaises, Raise, BranchInv, Ending
<1>15. CASE Retry
  BY <1>15 DEF Retry, BranchInv, Ending
<1>16. CASE RetryRaises
  BY <1>16 DEF RetryRaises, Raise, BranchInv, Ending
<1>17. ASSUME NEW action, NEW reason, Stop(action, reason)
       PROVE  BranchInv'
  <2>1. output'.status = "failed"
    BY <1>17 DEF Stop, Failed, Output
  <2>2. gitRef' \in {gitRef, "original"}
    BY <1>17 DEF Stop, RestoreTempBranchForDebug
  <2>3. QED
    BY <1>17, <2>1, <2>2, SwitchedBack DEF Stop, BranchInv, Ending
<1>18. CASE StopValidationFailure \/ StopNoProgress \/ StopAgentStuck
  BY <1>17, <1>18 DEF StopValidationFailure, StopNoProgress, StopAgentStuck
<1>19. CASE StopSuccess
  BY <1>19 DEF StopSuccess, TypeOK, BranchInv, Ending
<1>20. CASE StopSuccessCleanupFails
  <2>1. output'.status = "failed"
    BY <1>20 DEF StopSuccessCleanupFails, Failed, Output
  <2>2. QED
    BY <1>20, <2>1 DEF StopSuccessCleanupFails, SwitchFails, SwitchWorks, BranchInv, Ending
<1>21. CASE Continue
  BY <1>21 DEF Continue, BranchInv, Ending
<1>22. CASE HandleException
  <2>1. output'.status = "failed"
    BY <1>22 DEF HandleException, Output
  <2>2. gitRef' \in {gitRef, "original"}
    BY <1>22 DEF HandleException, RestoreTempBranchForDebug
  <2>3. QED
    BY <1>22, <2>1, <2>2, SwitchedBack DEF HandleException, BranchInv, Ending
<1>23. CASE Finalize
  BY <1>23 DEF Finalize, BranchInv, Ending
<1>24. CASE FinalizeRaises
  BY <1>24 DEF FinalizeRaises, BranchInv, Ending
<1>25. CASE RunRaises
  BY <1>25 DEF RunRaises, BranchInv, Ending
<1>26. CASE UNCHANGED vars
  BY <1>26 DEF BranchInv, Ending
<1>27. QED
  BY <1>1, <1>2, <1>3, <1>4, <1>5, <1>6, <1>7, <1>8, <1>9, <1>10, <1>11, <1>12, <1>13, <1>14,
     <1>15, <1>16, <1>18, <1>19, <1>20, <1>21, <1>22, <1>23, <1>24, <1>25, <1>26
  DEF Next, AgentAction, RunStep, AgentEnds, Enact, Terminated

LEMMA BranchInvariant == Spec => []BranchInv
<1>1. Init => BranchInv
  BY BranchInitially
<1>2. TypeInv /\ BranchInv /\ [Next]_vars => BranchInv'
  BY BranchStep
<1>3. QED
  BY <1>1, <1>2, TypeInvariant, PTL DEF Spec

\* No run that reports a success leaves its temporary branch behind or the
\* workspace on it, whatever git commands failed on the way.
THEOREM SuccessLeavesNoBranchHolds == Spec => []SuccessLeavesNoBranch
<1>1. BranchInv => SuccessLeavesNoBranch
  BY DEF BranchInv, SuccessLeavesNoBranch, Succeeded
<1>2. QED
  BY <1>1, BranchInvariant, PTL

\* Every way a run ends gives the original branch back.
THEOREM BranchGivenBackHolds == Spec => []BranchGivenBack
<1>1. BranchInv => BranchGivenBack
  BY DEF BranchInv, BranchGivenBack, Over, Ending
<1>2. QED
  BY <1>1, BranchInvariant, PTL

-----------------------------------------------------------------------------
(* What a success delivers.  The observation the enactor decides on is     *)
(* still true of the workspace, and the test files of the workspace are    *)
(* given ones whenever a snapshot is about to be taken.                    *)

Given(tree) == \A f \in TestFiles : tree[f] \in {start[f], Head[f]}

TestsKept ==
  /\ index = Head
  /\ pc \in {"baseline", "loop"} => Given(worktree)
  /\ pc \in {"invoke", "agent", "observe", "decide"} => Given(before)
  /\ pc \in {"finalize", "done"} /\ output.status = "success" => Given(worktree)

DeliveryInv ==
  /\ pc = "baseline" => worktree = start /\ invocation = None
  /\ pc = "decide" => /\ observed.iteration = iteration /\ observed.changed = Changed
                      /\ observed.test \in Tests
  /\ pc \in {"finalize", "done"} /\ output.status = "success" => Earned
  /\ ~AgentStages => TestsKept

\* Files the iteration did not change are as the snapshot has them.
LEMMA UnchangedFile ==
  ASSUME NEW f \in Files, f \notin Changed
  PROVE  worktree[f] = before[f]
BY DEF Changed

\* An accepted iteration changed no test file.
LEMMA AcceptedKeepsTests ==
  ASSUME Validate(observed) = "ok"
  PROVE  observed.changed \cap TestFiles = {}
BY DEF Validate

LEMMA DeliveryInitially == Init => DeliveryInv
BY DEF Init, DeliveryInv, TestsKept, Given

LEMMA DeliveryStep == TypeInv /\ BranchInv /\ DeliveryInv /\ [Next]_vars => DeliveryInv'
<1> SUFFICES ASSUME TypeInv, BranchInv, DeliveryInv, [Next]_vars PROVE DeliveryInv'
  OBVIOUS
<1> USE DEF vars, gitVars, loopVars, attemptVars, resultVars
<1>1. CASE SkipBaseline
  BY <1>1 DEF SkipBaseline, DeliveryInv, TestsKept, Given
<1>2. CASE BaselineFails
  BY <1>2 DEF BaselineFails, DeliveryInv, TestsKept, Given
<1>3. CASE BaselinePasses
  <2>1. baseline'.passed /\ output'.reason = "baseline_already_passes"
    BY <1>3 DEF BaselinePasses, Output
  <2>2. QED
    BY <1>3, <2>1 DEF BaselinePasses, DeliveryInv, TestsKept, Given, Earned
<1>4. CASE BaselineRaises
  BY <1>4 DEF BaselineRaises, Raise, DeliveryInv, TestsKept, Given
<1>5. CASE StartIteration
  BY <1>5 DEF StartIteration, DeliveryInv, TestsKept, Given
<1>6. CASE StartIterationRaises
  BY <1>6 DEF StartIterationRaises, Raise, DeliveryInv, TestsKept, Given
<1>7. CASE LoopExhausted
  <2>1. output'.status = "failed"
    BY <1>7 DEF LoopExhausted, Failed, Output
  <2>2. QED
    BY <1>7, <2>1 DEF LoopExhausted, DeliveryInv, TestsKept, Given
<1>8. CASE InvokeAgent
  BY <1>8 DEF InvokeAgent, DeliveryInv, TestsKept, Given
<1>9. CASE \E f \in Files, v \in Versions : AgentEdits(f, v)
  BY <1>9 DEF AgentEdits, DeliveryInv, TestsKept, Given
<1>10. CASE \E f \in Files : AgentAdds(f)
  BY <1>10 DEF AgentAdds, DeliveryInv, TestsKept, Given
<1>11. CASE (\E p \in Proposals : p.text # "timed_out" /\ AgentReturns(p)) \/ AgentTimesOut
  BY <1>11 DEF AgentTimesOut, AgentReturns, DeliveryInv, TestsKept, Given
<1>12. CASE AgentRaises
  BY <1>12 DEF AgentRaises, Raise, DeliveryInv, TestsKept, Given
<1>13. CASE ObserveIteration
  <2>1. PICK t \in Tests : observed' = Observation(proposal, t)
    BY <1>13 DEF ObserveIteration
  <2>2. observed'.iteration = iteration' /\ observed'.test \in Tests
    BY <1>13, <2>1 DEF ObserveIteration, Observation
  <2>3. observed'.changed = Changed'
    BY <1>13, <2>1 DEF ObserveIteration, Observation, Changed
  <2>4. QED
    BY <1>13, <2>2, <2>3 DEF ObserveIteration, DeliveryInv, TestsKept, Given
<1>14. CASE ObserveRaises
  BY <1>14 DEF ObserveRaises, Raise, DeliveryInv, TestsKept, Given
<1>15. CASE Retry
  <2>1. ASSUME ~AgentStages PROVE Given(worktree)'
    <3> SUFFICES ASSUME NEW f \in TestFiles PROVE worktree'[f] \in {start'[f], Head[f]}
      BY DEF Given, Head
    <3>1. f \in Files /\ index[f] = Head[f] /\ start' = start /\ pc = "decide"
      BY <1>15, <2>1 DEF Retry, Deciding, DeliveryInv, TestsKept, Files
    <3>2. CASE f \in ChangedTests
      BY <1>15, <3>1, <3>2 DEF Retry, Restored
    <3>3. CASE f \notin ChangedTests
      <4>1. worktree'[f] = worktree[f]
        BY <1>15, <3>1, <3>3 DEF Retry, Restored
      <4>2. worktree[f] = before[f]
        BY <3>1, <3>3, UnchangedFile DEF ChangedTests, DeliveryInv
      <4>3. before[f] \in {start[f], Head[f]}
        BY <2>1, <3>1 DEF DeliveryInv, TestsKept, Given
      <4>4. QED
        BY <3>1, <4>1, <4>2, <4>3
    <3>4. QED
      BY <3>2, <3>3
  <2>2. QED
    BY <1>15, <2>1 DEF Retry, DeliveryInv, TestsKept
<1>16. CASE RetryRaises
  BY <1>16 DEF RetryRaises, Raise, DeliveryInv, TestsKept, Given
<1>17. ASSUME NEW action, NEW reason, Stop(action, reason)
       PROVE  DeliveryInv'
  <2>1. output'.status = "failed"
    BY <1>17 DEF Stop, Failed, Output
  <2>2. QED
    BY <1>17, <2>1 DEF Stop, DeliveryInv, TestsKept, Given
<1>18. CASE StopValidationFailure \/ StopNoProgress \/ StopAgentStuck
  BY <1>17, <1>18 DEF StopValidationFailure, StopNoProgress, StopAgentStuck
<1>19. ASSUME ~AgentStages, pc = "decide", Validate(observed) = "ok"
       PROVE  Given(worktree)
  <2> SUFFICES ASSUME NEW f \in TestFiles PROVE worktree[f] \in {start[f], Head[f]}
    BY DEF Given
  <2>1. f \in Files /\ f \notin Changed
    BY <1>19, AcceptedKeepsTests DEF DeliveryInv, Files
  <2>2. worktree[f] = before[f]
    BY <2>1, UnchangedFile
  <2>3. QED
    BY <1>19, <2>2 DEF DeliveryInv, TestsKept, Given
<1>20. CASE StopSuccess
  <2>1. pc = "decide" /\ Validate(observed) = "ok" /\ Success(observed)
    BY <1>20, AcceptingDecision DEF StopSuccess, Deciding, Decide
  <2>2. observed.test.passed /\ (HasTests \/ observed.proposal.status = "done")
    <3>1. CASE HasTests
      BY <2>1, <3>1 DEF Success
    <3>2. CASE ~HasTests
      BY <2>1, <3>2 DEF Success, DeliveryInv, Tests, NoTests
    <3>3. QED
      BY <3>1, <3>2
  <2>3. observed \in Observations
    BY <2>1 DEF TypeInv, PhaseOK
  <2>4. Changed' = Changed /\ observed' = observed /\ iteration' = iteration
    BY <1>20 DEF StopSuccess, Changed
  <2>5. output'.reason = "completed" /\ output'.iteration = iteration
    BY <1>20 DEF StopSuccess, Output
  <2>6. Earned'
    BY <2>1, <2>2, <2>3, <2>4, <2>5, AcceptedKeepsTests, NoneAssumption
    DEF NoneAssumption, Earned, Seen, DeliveryInv
  <2>7. ~AgentStages => TestsKept'
    BY <1>19, <1>20, <2>1 DEF StopSuccess, DeliveryInv, TestsKept, Given
  <2>8. QED
    BY <1>20, <2>6, <2>7 DEF StopSuccess, DeliveryInv
<1>21. CASE StopSuccessCleanupFails
  <2>1. output'.status = "failed"
    BY <1>21 DEF StopSuccessCleanupFails, Failed, Output
  <2>2. QED
    BY <1>21, <2>1 DEF StopSuccessCleanupFails, DeliveryInv, TestsKept, Given
<1>22. CASE Continue
  <2>1. pc = "decide" /\ Validate(observed) = "ok"
    BY <1>22, AcceptingDecision DEF Continue, Deciding
  <2>2. ~AgentStages => TestsKept'
    BY <1>19, <1>22, <2>1 DEF Continue, DeliveryInv, TestsKept, Given
  <2>3. QED
    BY <1>22, <2>2 DEF Continue, DeliveryInv
<1>23. CASE HandleException
  <2>1. output'.status = "failed"
    BY <1>23 DEF HandleException, Output
  <2>2. QED
    BY <1>23, <2>1 DEF HandleException, DeliveryInv, TestsKept, Given
<1>24. CASE Finalize
  BY <1>24 DEF Finalize, BranchInv, DeliveryInv, TestsKept, Given, Earned, Seen, Changed
<1>25. CASE FinalizeRaises
  BY <1>25 DEF FinalizeRaises, DeliveryInv, TestsKept, Given
<1>26. CASE RunRaises
  BY <1>26 DEF RunRaises, DeliveryInv, TestsKept, Given
<1>27. CASE UNCHANGED vars
  BY <1>27 DEF DeliveryInv, TestsKept, Given, Earned, Seen, Changed
<1>28. QED
  BY <1>1, <1>2, <1>3, <1>4, <1>5, <1>6, <1>7, <1>8, <1>9, <1>10, <1>11, <1>12, <1>13, <1>14,
     <1>15, <1>16, <1>18, <1>20, <1>21, <1>22, <1>23, <1>24, <1>25, <1>26, <1>27
  DEF Next, AgentAction, RunStep, AgentEnds, Enact, Terminated

LEMMA DeliveryInvariant == Spec => []DeliveryInv
<1>1. Init => DeliveryInv
  BY DeliveryInitially
<1>2. TypeInv /\ BranchInv /\ DeliveryInv /\ [Next]_vars => DeliveryInv'
  BY DeliveryStep
<1>3. QED
  BY <1>1, <1>2, TypeInvariant, BranchInvariant, PTL DEF Spec

\* Whatever an agent that stages nothing does to the test files, in however
\* many iterations, a run that ends in a success delivers the given ones.
THEOREM SuccessKeepsTestsHolds == Spec => []SuccessKeepsTests
<1>1. DeliveryInv => SuccessKeepsTests
  BY DEF DeliveryInv, TestsKept, Given, SuccessKeepsTests, Succeeded
<1>2. QED
  BY <1>1, DeliveryInvariant, PTL

\* Every success rests on evidence of the iteration it reports.
THEOREM SuccessIsEarnedHolds == Spec => []SuccessIsEarned
<1>1. DeliveryInv => SuccessIsEarned
  BY DEF DeliveryInv, SuccessIsEarned, Succeeded
<1>2. QED
  BY <1>1, DeliveryInvariant, PTL
================================================================================
