------------------------- MODULE RepairRunOutcomeProofs -------------------------
(***************************************************************************)
(* Proofs about the outcome a run reports: it names the iteration the run  *)
(* was in, it is a success when the workspace passed the tests, a planner  *)
(* does not conclude, a retry fails for one reason and its agent hears of  *)
(* no rejection, and what the caller sees is what RunContract allows.      *)
(* The last part counts the steps a run has left.                          *)
(***************************************************************************)
EXTENDS RepairRunRefinement, RepairRunProofs

\* The premise of ObservableSuccessWins, wherever the run is.
Won == /\ HasTests /\ Seen /\ ~Planning
       /\ observed.test.passed /\ observed.changed # {} /\ Validate(observed) = "ok"

OutcomeInv ==
  /\ pc = "baseline" => iteration = 0 /\ observed = None /\ baseline = None
  /\ observed # None => observed.iteration <= iteration
  /\ pc \in {"invoke", "agent", "observe"} => ~Seen
  /\ pc = "loop" => ~Won
  /\ pc = "except" /\ Won => error # "model"
  /\ pc \in {"finalize", "finalize_error", "done"} =>
       /\ output \in Outputs
       /\ output.iteration = IF iteration > 0 THEN iteration ELSE 1
       /\ output.reason = "baseline_already_passes" => iteration = 0 /\ baseline # None
       /\ Won => output.status = "success" \/ output.reason = "infra_failure"
       /\ Phased /\ output.reason \in {"completed", "no_progress"} => output.iteration > 1

\* A step that leaves the observed iteration alone leaves its merit alone.
LEMMA SameMerit ==
  ASSUME UNCHANGED <<iteration, observed, baseline>>
  PROVE  Won' = Won /\ Seen' = Seen /\ Validate(observed)' = Validate(observed)
BY DEF Won, Seen, Planning, Validate, IsRegression

\* The iteration an observation was made in is a number.
LEMMA ObservedIteration ==
  ASSUME TypeOK, observed # None
  PROVE  observed.iteration \in 1..MaxIterations
BY DEF TypeOK, Observations

\* A new iteration has not been observed.
LEMMA NewIterationUnseen ==
  ASSUME TypeOK, OutcomeInv, iteration' = iteration + 1, observed' = observed
  PROVE  ~Seen' /\ (observed # None => observed'.iteration <= iteration')
<1>1. CASE observed = None
  BY <1>1 DEF Seen
<1>2. CASE observed # None
  <2>1. observed.iteration \in Nat /\ iteration \in Nat /\ observed.iteration <= iteration
    BY <1>2, ObservedIteration, Limits DEF TypeOK, OutcomeInv
  <2>2. QED
    BY <2>1 DEF Seen
<1>3. QED
  BY <1>1, <1>2

LEMMA OutcomeInitially == Init => OutcomeInv
BY DEF Init, OutcomeInv

LEMMA OutcomeStep == TypeInv /\ OutcomeInv /\ [Next]_vars => OutcomeInv'
<1> SUFFICES ASSUME TypeInv, TypeOK, PhaseOK, OutcomeInv, [Next]_vars PROVE OutcomeInv'
  BY DEF TypeInv
<1> USE DEF vars, gitVars, loopVars, attemptVars, resultVars
<1>1. CASE SkipBaseline
  BY <1>1 DEF SkipBaseline, OutcomeInv, Won, Seen
<1>2. CASE BaselineFails
  BY <1>2 DEF BaselineFails, OutcomeInv, Won, Seen
<1>3. CASE BaselinePasses
  <2>1. output' = Output("success", "baseline_already_passes", 1) /\ iteration' = 0 /\ ~Won'
    BY <1>3 DEF BaselinePasses, OutcomeInv, Won, Seen
  <2>2. output' \in Outputs /\ baseline' # None
    BY <1>3, <2>1, OutputType, OneIsAnIteration, NoneAssumption
    DEF BaselinePasses, StopReasons, NoneAssumption
  <2>3. QED
    BY <1>3, <2>1, <2>2 DEF BaselinePasses, OutcomeInv, Output
<1>4. CASE BaselineRaises
  BY <1>4 DEF BaselineRaises, Raise, OutcomeInv, Won, Seen
<1>5. CASE StartIteration
  BY <1>5, NewIterationUnseen DEF StartIteration, NextIteration, OutcomeInv
<1>6. CASE StartIterationRaises
  <2>1. ~Won'
    BY <1>6, NewIterationUnseen DEF StartIterationRaises, NextIteration, Won
  <2>2. QED
    BY <1>6, <2>1, NewIterationUnseen DEF StartIterationRaises, NextIteration, Raise, OutcomeInv
<1>7. CASE LoopExhausted
  <2>1. output'.iteration = iteration /\ output'.reason = "max_iterations" /\ iteration > 0
    BY <1>7, Limits DEF LoopExhausted, Failed, Output
  <2>2. ~Won'
    BY <1>7, SameMerit DEF LoopExhausted, OutcomeInv
  <2>3. output' \in Outputs
    BY <1>7, FailedType, Limits DEF LoopExhausted, StopReasons
  <2>4. QED
    BY <1>7, <2>1, <2>2, <2>3 DEF LoopExhausted, OutcomeInv
<1>8. CASE InvokeAgent
  BY <1>8, SameMerit DEF InvokeAgent, OutcomeInv
<1>9. CASE \E f \in Files, v \in Versions : AgentEdits(f, v)
  BY <1>9, SameMerit DEF AgentEdits, OutcomeInv
<1>10. CASE \E f \in Files : AgentAdds(f)
  BY <1>10, SameMerit DEF AgentAdds, OutcomeInv
<1>11. CASE (\E p \in Proposals : p.text # "timed_out" /\ AgentReturns(p)) \/ AgentTimesOut
  BY <1>11, SameMerit DEF AgentTimesOut, AgentReturns, OutcomeInv
<1>12. CASE AgentRaises
  <2>1. ~Won'
    BY <1>12, SameMerit DEF AgentRaises, OutcomeInv, Won
  <2>2. QED
    BY <1>12, <2>1 DEF AgentRaises, Raise, OutcomeInv
<1>13. CASE ObserveIteration
  <2>1. observed'.iteration = iteration /\ iteration' = iteration /\ iteration \in Nat
    BY <1>13, Limits DEF ObserveIteration, Observation, TypeOK
  <2>2. QED
    BY <1>13, <2>1 DEF ObserveIteration, OutcomeInv
<1>14. CASE ObserveRaises
  <2>1. ~Won'
    BY <1>14, SameMerit DEF ObserveRaises, OutcomeInv, Won
  <2>2. QED
    BY <1>14, <2>1 DEF ObserveRaises, Raise, OutcomeInv
<1>15. CASE Retry
  <2>1. ~Won'
    BY <1>15, SameMerit, RetryDecision DEF Retry, Deciding, Won
  <2>2. QED
    BY <1>15, <2>1 DEF Retry, OutcomeInv
<1>16. CASE RetryRaises
  BY <1>16, SameMerit DEF RetryRaises, Raise, OutcomeInv
<1>17. ASSUME NEW action, NEW reason, Stop(action, reason),
              Won => reason = "infra_failure", Phased /\ reason = "no_progress" => iteration > 1,
              reason \in StopReasons \ {"completed", "baseline_already_passes"}
       PROVE  OutcomeInv'
  <2>1. output'.iteration = iteration /\ output'.reason = reason
    BY <1>17 DEF Stop, Failed, Output
  <2>2. iteration \in 1..MaxIterations
    BY <1>17 DEF Stop, Deciding, PhaseOK
  <2>3. output' \in Outputs
    BY <1>17, <2>2, FailedType DEF Stop
  <2>4. QED
    BY <1>17, <2>1, <2>2, <2>3, SameMerit DEF Stop, OutcomeInv
<1>18. CASE StopValidationFailure
  <2>1. ~Won
    BY <1>18 DEF StopValidationFailure, Stop, Deciding, Decide, Won
  <2>2. QED
    BY <1>17, <1>18, <2>1 DEF StopValidationFailure, StopReasons
<1>19. ASSUME Decide(observed) \in {"stop_no_progress", "stop_success", "stop_agent_stuck"}, pc = "decide"
       PROVE  ~Planning /\ (Phased => iteration > 1)
  <2>1. ~Planning
    BY <1>19 DEF Decide
  <2>2. iteration \in 1..MaxIterations
    BY <1>19 DEF PhaseOK
  <2>3. QED
    BY <2>1, <2>2, Limits DEF Planning
<1>20. CASE StopNoProgress
  <2>1. NoProgress(observed) /\ pc = "decide"
    BY <1>20 DEF StopNoProgress, Stop, Deciding, Decide
  <2>2. ~Won
    BY <2>1 DEF NoProgress, Won
  <2>3. Phased => iteration > 1
    BY <1>19, <1>20 DEF StopNoProgress, Stop, Deciding
  <2>4. QED
    BY <1>17, <1>20, <2>2, <2>3 DEF StopNoProgress, StopReasons
<1>21. CASE StopAgentStuck
  <2>1. ~Success(observed)
    BY <1>21 DEF StopAgentStuck, Stop, Deciding, Decide
  <2>2. ~Won
    BY <2>1 DEF Success, Won
  <2>3. Phased => iteration > 1
    BY <1>19, <1>21 DEF StopAgentStuck, Stop, Deciding
  <2>4. QED
    BY <1>17, <1>21, <2>2, <2>3 DEF StopAgentStuck, StopReasons
<1>22. CASE StopSuccess
  <2>1. output' = Output("success", "completed", iteration) /\ (Phased => iteration > 1)
    BY <1>19, <1>22 DEF StopSuccess, Deciding
  <2>2. iteration \in 1..MaxIterations
    BY <1>22 DEF StopSuccess, Deciding, PhaseOK
  <2>3. output' \in Outputs
    BY <2>1, <2>2, OutputType DEF StopReasons
  <2>4. QED
    BY <1>22, <2>1, <2>2, <2>3, SameMerit DEF StopSuccess, Output, OutcomeInv
<1>23. CASE StopSuccessCleanupFails
  <2>1. output' = Output("failed", "infra_failure", iteration)
    BY <1>23 DEF StopSuccessCleanupFails, Failed
  <2>2. iteration \in 1..MaxIterations
    BY <1>23 DEF StopSuccessCleanupFails, Deciding, PhaseOK
  <2>3. output' \in Outputs
    BY <2>1, <2>2, OutputType DEF StopReasons
  <2>4. QED
    BY <1>23, <2>1, <2>2, <2>3, SameMerit DEF StopSuccessCleanupFails, Output, OutcomeInv
<1>24. CASE Continue
  <2>1. Validate(observed) = "ok" /\ (Planning \/ ~Success(observed))
    BY <1>24 DEF Continue, Deciding, Decide
  <2>2. ~Won
    BY <2>1 DEF Success, Won
  <2>3. QED
    BY <1>24, <2>2, SameMerit DEF Continue, OutcomeInv
<1>25. CASE HandleException
  <2>1. output' = Output("failed", StopReasonFor(error), IterationInFlight)
    BY <1>25 DEF HandleException
  <2>2. IterationInFlight = IF iteration > 0 THEN iteration ELSE 1
    BY Limits DEF IterationInFlight, TypeOK
  <2>3. StopReasonFor(error) \in StopReasons \ {"completed", "no_progress", "baseline_already_passes"}
    BY DEF StopReasonFor, StopReasons
  <2>4. Won => StopReasonFor(error) = "infra_failure"
    BY <1>25 DEF HandleException, OutcomeInv, StopReasonFor
  <2>5. output' \in Outputs
    BY <2>1, <2>2, <2>3, OutputType, OneIsAnIteration, Limits DEF TypeOK
  <2>6. QED
    BY <1>25, <2>1, <2>2, <2>3, <2>4, <2>5, SameMerit DEF HandleException, Output, OutcomeInv
<1>26. CASE Finalize
  BY <1>26, SameMerit DEF Finalize, OutcomeInv
<1>27. CASE FinalizeRaises
  BY <1>27, SameMerit DEF FinalizeRaises, OutcomeInv
<1>28. CASE RunRaises
  BY <1>28, SameMerit DEF RunRaises, OutcomeInv
<1>29. CASE UNCHANGED vars
  BY <1>29, SameMerit DEF OutcomeInv
<1>30. QED
  BY <1>1, <1>2, <1>3, <1>4, <1>5, <1>6, <1>7, <1>8, <1>9, <1>10, <1>11, <1>12, <1>13, <1>14,
     <1>15, <1>16, <1>18, <1>20, <1>21, <1>22, <1>23, <1>24, <1>25, <1>26, <1>27, <1>28, <1>29
  DEF Next, AgentAction, RunStep, AgentEnds, Enact, Terminated

LEMMA OutcomeInvariant == Spec => []OutcomeInv
<1>1. Init => OutcomeInv
  BY OutcomeInitially
<1>2. TypeInv /\ OutcomeInv /\ [Next]_vars => OutcomeInv'
  BY OutcomeStep
<1>3. QED
  BY <1>1, <1>2, TypeInvariant, PTL DEF Spec

\* Every path to an output, the exception handler's included, reports the
\* iteration the run was in.
THEOREM ReportsItsIterationHolds == Spec => []ReportsItsIteration
<1>1. OutcomeInv => ReportsItsIteration
  BY DEF OutcomeInv, ReportsItsIteration
<1>2. QED
  BY <1>1, OutcomeInvariant, PTL

\* Passing tests over a valid change end the run, as a success or with an
\* infrastructure failure, never as another outcome or as another iteration.
THEOREM ObservableSuccessWinsHolds == Spec => []ObservableSuccessWins
<1>1. OutcomeInv => ObservableSuccessWins
  BY DEF OutcomeInv, ObservableSuccessWins, Won
<1>2. QED
  BY <1>1, OutcomeInvariant, PTL

\* A planner's iteration never ends a run as completed or without progress.
THEOREM PlannerNeverConcludesHolds == Spec => []PlannerNeverConcludes
<1>1. OutcomeInv => PlannerNeverConcludes
  BY DEF OutcomeInv, PlannerNeverConcludes
<1>2. QED
  BY <1>1, OutcomeInvariant, PTL
-----------------------------------------------------------------------------
(* An agent that reports "done".                                           *)

\* The premise of ReportedSuccessWins, wherever the run is.
Claimed == /\ ~Phased /\ Seen
           /\ observed.proposal.status = "done" /\ observed.test.passed
           /\ observed.changed = {}

\* What no-progress detection remembers of an agent that said "done" is a test
\* execution that failed: it never finds "no progress" over a claim that holds.
ClaimInv ==
  /\ pc = "decide" => observed # None /\ observed.proposal = proposal /\ observed.test \in Tests
  /\ ~Phased /\ memory # None /\ memory.signature[1] = "done" => memory.testSig \in FailSigs
  /\ pc = "loop" => ~Claimed
  /\ pc = "except" /\ Claimed => error # "model"
  /\ pc \in {"finalize", "finalize_error", "done"} /\ Claimed =>
       output.status = "success" \/ output.reason = "infra_failure"

LEMMA SameClaim ==
  ASSUME UNCHANGED <<iteration, observed>>
  PROVE  Claimed' = Claimed
BY DEF Claimed, Seen

LEMMA ClaimedIsValid ==
  ASSUME Claimed
  PROVE  Validate(observed) = "ok" /\ Success(observed)
BY DEF Claimed, Validate, IsRegression, Success

\* A test execution fails exactly when its signature is one of a failure.
LEMMA FailureSignature ==
  ASSUME NEW t \in Tests
  PROVE  t.passed <=> t.sig \notin FailSigs
<1> USE ConstantsAssumption DEF ConstantsAssumption
<1>1. CASE t = NoTests
  BY <1>1 DEF NoTests
<1>2. CASE t \in [passed : {TRUE}, sig : PassSigs]
  <2>1. t.passed = TRUE /\ t.sig \in PassSigs
    BY <1>2
  <2>2. QED
    BY <2>1
<1>3. CASE t \in [passed : {FALSE}, sig : FailSigs]
  <2>1. t.passed = FALSE /\ t.sig \in FailSigs
    BY <1>3
  <2>2. QED
    BY <2>1
<1>4. QED
  BY <1>1, <1>2, <1>3 DEF Tests, TestRuns

LEMMA ClaimIsProgress ==
  ASSUME ClaimInv, pc = "decide", Claimed
  PROVE  ~NoProgress(observed)
<1> SUFFICES ASSUME NoProgress(observed) PROVE FALSE
  OBVIOUS
<1>1. memory # None /\ memory.testSig = observed.test.sig /\ memory.signature = Signature(observed.proposal)
  BY DEF NoProgress, Claimed
<1>2. memory.signature[1] = "done"
  BY <1>1 DEF Signature, Claimed
<1>3. observed.test.sig \in FailSigs
  BY <1>1, <1>2 DEF ClaimInv, Claimed
<1>4. QED
  BY <1>3, FailureSignature DEF ClaimInv, Claimed

LEMMA RememberedClaimFailed ==
  ASSUME ClaimInv, Continue, ~Phased, memory'.signature[1] = "done"
  PROVE  memory'.testSig \in FailSigs
<1>1. pc = "decide" /\ observed.proposal = proposal /\ observed.test \in Tests
  BY DEF Continue, Deciding, ClaimInv
<1>2. memory'.signature[1] = proposal.status /\ memory'.testSig = observed.test.sig
  BY DEF Continue, Signature
<1>3. ~Success(observed)
  BY DEF Continue, Deciding, Decide, Planning
<1>4. ~observed.test.passed
  BY <1>1, <1>2, <1>3 DEF Success
<1>5. QED
  BY <1>1, <1>2, <1>4, FailureSignature

LEMMA ClaimInitially == Init => ClaimInv
BY DEF Init, ClaimInv, Claimed, Seen

LEMMA ClaimStep == TypeInv /\ OutcomeInv /\ ClaimInv /\ [Next]_vars => ClaimInv'
<1> SUFFICES ASSUME TypeInv, TypeOK, PhaseOK, OutcomeInv, ClaimInv, [Next]_vars PROVE ClaimInv'
  BY DEF TypeInv
<1> USE DEF vars, gitVars, loopVars, attemptVars, resultVars
<1>1. CASE SkipBaseline \/ BaselineFails \/ BaselinePasses \/ BaselineRaises
  <2>1. ~Claimed' /\ UNCHANGED memory /\ pc' # "decide"
    BY <1>1 DEF SkipBaseline, BaselineFails, BaselinePasses, BaselineRaises, Raise, OutcomeInv,
                Claimed, Seen
  <2>2. QED
    BY <2>1 DEF ClaimInv
<1>2. CASE StartIteration \/ StartIterationRaises
  <2>1. /\ iteration' = iteration + 1 /\ UNCHANGED <<observed, memory>>
        /\ pc' \in {"invoke", "except"}
    BY <1>2 DEF StartIteration, StartIterationRaises, NextIteration, Raise
  <2>2. ~Claimed'
    BY <2>1, NewIterationUnseen DEF Claimed
  <2>3. QED
    BY <2>1, <2>2 DEF ClaimInv
<1>3. CASE LoopExhausted
  BY <1>3, SameClaim DEF LoopExhausted, ClaimInv
<1>4. CASE InvokeAgent \/ (\E f \in Files, v \in Versions : AgentEdits(f, v))
           \/ (\E f \in Files : AgentAdds(f))
           \/ (\E p \in Proposals : p.text # "timed_out" /\ AgentReturns(p)) \/ AgentTimesOut
  <2>1. pc' \in {"agent", "observe"} /\ UNCHANGED memory
    BY <1>4 DEF InvokeAgent, AgentEdits, AgentAdds, AgentReturns, AgentTimesOut
  <2>2. QED
    BY <2>1 DEF ClaimInv
<1>5. CASE AgentRaises \/ ObserveRaises
  <2>1. ~Claimed' /\ UNCHANGED memory /\ pc' = "except"
    BY <1>5 DEF AgentRaises, ObserveRaises, Raise, OutcomeInv, Claimed, Seen
  <2>2. QED
    BY <2>1 DEF ClaimInv
<1>6. CASE ObserveIteration
  <2>1. pc' = "decide" /\ UNCHANGED <<memory, proposal>>
    BY <1>6 DEF ObserveIteration
  <2>2. PICK t \in Tests : observed' = Observation(proposal, t)
    BY <1>6 DEF ObserveIteration
  <2>3. observed' \in Observations /\ observed'.proposal = proposal /\ observed'.test = t
    BY <1>6, <2>2, ObservationType DEF ObserveIteration, PhaseOK, Observation
  <2>4. observed' # None /\ observed'.proposal = proposal' /\ observed'.test \in Tests
    BY <2>1, <2>2, <2>3, NoneAssumption DEF NoneAssumption
  <2>5. QED
    BY <2>1, <2>4 DEF ClaimInv
<1>7. CASE Retry
  <2>1. ~Claimed
    BY <1>7, RetryDecision, ClaimedIsValid DEF Retry, Deciding
  <2>2. QED
    BY <1>7, <2>1, SameClaim DEF Retry, ClaimInv
<1>8. CASE RetryRaises
  BY <1>8, SameClaim DEF RetryRaises, Raise, ClaimInv
<1>9. CASE StopValidationFailure
  <2>1. ~Claimed
    BY <1>9, ClaimedIsValid DEF StopValidationFailure, Stop, Deciding, Decide
  <2>2. QED
    BY <1>9, <2>1, SameClaim DEF StopValidationFailure, Stop, ClaimInv
<1>10. CASE StopNoProgress
  <2>1. ~Claimed
    BY <1>10, ClaimIsProgress DEF StopNoProgress, Stop, Deciding, Decide
  <2>2. QED
    BY <1>10, <2>1, SameClaim DEF StopNoProgress, Stop, ClaimInv
<1>11. CASE StopAgentStuck
  <2>1. ~Claimed
    BY <1>11 DEF StopAgentStuck, Stop, Deciding, Decide, Success, Claimed
  <2>2. QED
    BY <1>11, <2>1, SameClaim DEF StopAgentStuck, Stop, ClaimInv
<1>12. CASE StopSuccess
  BY <1>12, SameClaim DEF StopSuccess, Output, ClaimInv
<1>13. CASE StopSuccessCleanupFails
  BY <1>13, SameClaim DEF StopSuccessCleanupFails, Failed, Output, ClaimInv
<1>14. CASE Continue
  <2>1. Planning \/ ~Success(observed)
    BY <1>14 DEF Continue, Deciding, Decide
  <2>2. ~Claimed
    BY <2>1, ClaimedIsValid DEF Claimed, Planning
  <2>3. ~Claimed' /\ pc' = "loop"
    BY <1>14, <2>2, SameClaim DEF Continue
  <2>4. QED
    BY <1>14, <2>3, RememberedClaimFailed DEF ClaimInv
<1>15. CASE HandleException
  <2>1. output'.reason = StopReasonFor(error)
    BY <1>15 DEF HandleException, Output
  <2>2. QED
    BY <1>15, <2>1, SameClaim DEF HandleException, StopReasonFor, ClaimInv
<1>16. CASE Finalize \/ FinalizeRaises \/ RunRaises
  BY <1>16, SameClaim DEF Finalize, FinalizeRaises, RunRaises, ClaimInv
<1>17. CASE UNCHANGED vars
  BY <1>17, SameClaim DEF ClaimInv, Tests
<1>18. QED
  BY <1>1, <1>2, <1>3, <1>4, <1>5, <1>6, <1>7, <1>8, <1>9, <1>10, <1>11, <1>12, <1>13, <1>14,
     <1>15, <1>16, <1>17
  DEF Next, AgentAction, RunStep, AgentEnds, Enact, Terminated

LEMMA ClaimInvariant == Spec => []ClaimInv
<1>1. Init => ClaimInv
  BY ClaimInitially
<1>2. TypeInv /\ OutcomeInv /\ ClaimInv /\ [Next]_vars => ClaimInv'
  BY ClaimStep
<1>3. QED
  BY <1>1, <1>2, TypeInvariant, OutcomeInvariant, PTL DEF Spec

\* Outside planner_executor, an agent that reports "done" over passing tests
\* is believed although it changed nothing: what no-progress detection
\* remembers of an earlier "done" never has the signature of a passing run.
THEOREM ReportedSuccessWinsHolds == Spec => []ReportedSuccessWins
<1>1. ClaimInv => ReportedSuccessWins
  BY DEF ClaimInv, ReportedSuccessWins, Claimed
<1>2. QED
  BY <1>1, ClaimInvariant, PTL

-----------------------------------------------------------------------------
(* The two claims of RepairRunClaims that a run refutes, for every instance: *)
(* how far the first is from the truth, and when the second is true.         *)

\* A retry failed to restore the test files of the iteration it rejected.
RetryFailed == pc = "except" /\ error = "infra" /\ decision = "retry" /\ Seen

RetryInv ==
  /\ pc = "invoke" => feedback = None
  /\ invocation # None => invocation.feedback = None
  /\ ~GitFaults /\ repo # "none" /\ RetryFailed => \E f \in ChangedTests : index[f] = "absent"

LEMMA RetryInitially == Init => RetryInv
BY DEF Init, RetryInv, RetryFailed

LEMMA RetryStep == TypeInv /\ OutcomeInv /\ RetryInv /\ [Next]_vars => RetryInv'
<1> SUFFICES ASSUME TypeInv, TypeOK, PhaseOK, OutcomeInv, RetryInv, [Next]_vars PROVE RetryInv'
  BY DEF TypeInv
<1> USE DEF vars, gitVars, loopVars, attemptVars, resultVars
<1>1. ASSUME UNCHANGED invocation, pc' = "invoke" => UNCHANGED feedback /\ pc = "invoke", ~RetryFailed'
      PROVE  RetryInv'
  BY <1>1 DEF RetryInv
<1>2. CASE SkipBaseline \/ BaselineFails \/ BaselinePasses
  BY <1>1, <1>2 DEF SkipBaseline, BaselineFails, BaselinePasses, RetryFailed
<1>3. CASE BaselineRaises
  BY <1>1, <1>3 DEF BaselineRaises, Raise, OutcomeInv, RetryFailed, Seen
<1>4. CASE StartIteration
  BY <1>4 DEF StartIteration, RetryInv, RetryFailed
<1>5. CASE StartIterationRaises
  <2>1. ~Seen'
    BY <1>5, NewIterationUnseen DEF StartIterationRaises, NextIteration
  <2>2. QED
    BY <1>1, <1>5, <2>1 DEF StartIterationRaises, Raise, RetryFailed
<1>6. CASE InvokeAgent
  <2>1. invocation'.feedback = None
    BY <1>6 DEF InvokeAgent, RetryInv
  <2>2. QED
    BY <1>6, <2>1 DEF InvokeAgent, RetryInv, RetryFailed
<1>7. CASE AgentAction
  BY <1>1, <1>7 DEF AgentAction, AgentEdits, AgentAdds, RetryFailed
<1>8. CASE AgentEnds
  BY <1>1, <1>8 DEF AgentEnds, AgentTimesOut, AgentReturns, AgentRaises, Raise, RetryFailed
<1>9. CASE ObserveIteration
  BY <1>1, <1>9 DEF ObserveIteration, RetryFailed
<1>10. CASE ObserveRaises
  BY <1>1, <1>10 DEF ObserveRaises, Raise, OutcomeInv, RetryFailed, Seen
<1>11. CASE RetryRaises
  <2>1. ~GitFaults /\ repo # "none" => \E f \in ChangedTests : index[f] = "absent"
    BY <1>11 DEF RetryRaises, Restorable
  <2>2. UNCHANGED <<repo, index, ChangedTests, invocation>> /\ pc' = "except"
    BY <1>11 DEF RetryRaises, Raise, ChangedTests
  <2>3. QED
    BY <2>1, <2>2 DEF RetryInv
<1>12. CASE Retry \/ Continue
  BY <1>1, <1>12 DEF Retry, Continue, RetryFailed
<1>13. CASE LoopExhausted \/ StopValidationFailure \/ StopNoProgress \/ StopAgentStuck
            \/ StopSuccess \/ StopSuccessCleanupFails
  BY <1>1, <1>13 DEF LoopExhausted, StopValidationFailure, StopNoProgress, StopAgentStuck, Stop,
     StopSuccess, StopSuccessCleanupFails, RetryFailed
<1>14. CASE HandleException \/ Finalize \/ FinalizeRaises \/ RunRaises
  BY <1>1, <1>14 DEF HandleException, Finalize, FinalizeRaises, RunRaises, RetryFailed
<1>15. CASE UNCHANGED vars
  BY <1>15 DEF RetryInv, RetryFailed, Seen, ChangedTests
<1>16. QED
  BY <1>2, <1>3, <1>4, <1>5, <1>6, <1>7, <1>8, <1>9, <1>10, <1>11, <1>12, <1>13, <1>14, <1>15
  DEF Next, RunStep, Enact, Terminated

LEMMA RetryInvariant == Spec => []RetryInv
<1>1. TypeInv /\ OutcomeInv /\ RetryInv /\ [Next]_vars => RetryInv'
  BY RetryStep
<1>2. QED
  BY <1>1, RetryInitially, TypeInvariant, OutcomeInvariant, PTL DEF Spec

\* No agent of any run is ever told why its last iteration was rejected: _prepare
\* clears validation_feedback before _run_agent reads it.
THEOREM NoAgentIsToldOfARejection == Spec => [](invocation # None => invocation.feedback = None)
<1>1. RetryInv => (invocation # None => invocation.feedback = None)
  BY DEF RetryInv
<1>2. QED
  BY <1>1, RetryInvariant, PTL

\* While git works, a retry in a repository can fail for one reason only: the agent
\* changed a test file that git does not know, which "git checkout --" refuses.
THEOREM OnlyUnknownTestsBlockARetry ==
  Spec => [](~GitFaults /\ repo # "none" /\ RetryFailed => \E f \in ChangedTests : index[f] = "absent")
<1>1. RetryInv => (~GitFaults /\ repo # "none" /\ RetryFailed => \E f \in ChangedTests : index[f] = "absent")
  BY DEF RetryInv
<1>2. QED
  BY <1>1, RetryInvariant, PTL

-----------------------------------------------------------------------------
(* RepairRun implements RunContract: the initial states map to its initial *)
(* state, and every step of a run maps to a step of the contract or leaves *)
(* what the caller can see unchanged.                                      *)

RunInv == TypeInv /\ BranchInv /\ DeliveryInv /\ OutcomeInv

LEMMA RunInvariant == Spec => []RunInv
BY TypeInvariant, BranchInvariant, DeliveryInvariant, OutcomeInvariant, PTL DEF RunInv

LEMMA MapsInitially == Init => Promise!ContractInit
BY DEF Init, Promise!ContractInit, evidenceShown, verdictReached

\* What the contract sees: a step that keeps these keeps it.
LEMMA NothingShown ==
  ASSUME UNCHANGED <<iteration, baseline, observed>>, verdictReached' = verdictReached
  PROVE  UNCHANGED Promise!contractVars
BY DEF Promise!contractVars, evidenceShown, Seen

\* A run that is neither done nor raised has told its caller nothing.
LEMMA StillOpen ==
  ASSUME pc \notin {"done", "raised"}, pc' \notin {"done", "raised"}
  PROVE  verdictReached = "open" /\ verdictReached' = "open"
BY DEF verdictReached

LEMMA AttemptMaps ==
  ASSUME RunInv, StartIteration \/ StartIterationRaises
  PROVE  Promise!Attempt
<1>1. /\ pc = "loop" /\ iteration < MaxIterations /\ iteration' = iteration + 1
      /\ observed' = observed /\ pc' \in {"invoke", "except"}
  BY DEF StartIteration, StartIterationRaises, NextIteration, Raise, attemptVars
<1>2. ~Seen' /\ iteration' # 0
  BY <1>1, NewIterationUnseen, Limits DEF RunInv, TypeInv, TypeOK
<1>3. evidenceShown' = "none"
  BY <1>2 DEF evidenceShown
<1>4. QED
  BY <1>1, <1>3, StillOpen DEF Promise!Attempt

LEMMA BaselineMaps ==
  ASSUME RunInv, BaselineFails \/ BaselinePasses
  PROVE  Promise!Gather
<1>1. /\ pc = "baseline" /\ iteration = 0 /\ iteration' = 0 /\ baseline = None
      /\ baseline' \in TestRuns /\ pc' \in {"loop", "finalize"}
  BY DEF BaselineFails, BaselinePasses, RunInv, OutcomeInv, loopVars
<1>2. evidenceShown = "none" /\ evidenceShown' \in {"good", "bad"}
  BY <1>1, NoneAssumption DEF evidenceShown, NoneAssumption
<1>3. QED
  BY <1>1, <1>2, StillOpen DEF Promise!Gather

LEMMA ObservationMaps ==
  ASSUME RunInv, ObserveIteration
  PROVE  Promise!Gather
<1>1. pc = "observe" /\ pc' = "decide" /\ iteration' = iteration /\ iteration \in 1..MaxIterations
  BY DEF ObserveIteration, loopVars, RunInv, TypeInv, PhaseOK
<1>2. PICK t \in Tests : observed' = Observation(proposal, t)
  BY DEF ObserveIteration
<1>3. observed' \in Observations /\ observed'.iteration = iteration
  BY <1>1, <1>2, ObservationType DEF RunInv, TypeInv, PhaseOK, Observation
<1>4. ~Seen /\ Seen'
  BY <1>1, <1>3, NoneAssumption DEF RunInv, OutcomeInv, Seen, NoneAssumption
<1>5. iteration # 0
  BY <1>1, Limits
<1>6. evidenceShown = "none" /\ evidenceShown' \in {"good", "bad"}
  BY <1>1, <1>4, <1>5 DEF evidenceShown
<1>7. QED
  BY <1>1, <1>6, StillOpen DEF Promise!Gather

LEMMA FinalizeMaps ==
  ASSUME RunInv, Finalize
  PROVE  Promise!Conclude
<1>1. /\ pc \in {"finalize", "finalize_error"} /\ pc' = "done" /\ output \in Outputs
      /\ UNCHANGED <<iteration, baseline, observed, output>>
  BY DEF Finalize, RunInv, OutcomeInv, loopVars, attemptVars
<1>2. verdictReached = "open" /\ verdictReached' = output.status
  BY <1>1 DEF verdictReached
<1>3. output.status \in {"success", "failed"}
  BY <1>1 DEF Outputs
<1>4. evidenceShown' = evidenceShown
  BY <1>1 DEF evidenceShown, Seen
<1>5. ASSUME output.status = "success" PROVE evidenceShown = "good"
  <2>1. Earned
    BY <1>1, <1>5 DEF RunInv, BranchInv, DeliveryInv
  <2>2. CASE output.reason = "baseline_already_passes" /\ baseline.passed
    <3>1. iteration = 0 /\ baseline # None
      BY <1>1, <2>2 DEF RunInv, OutcomeInv
    <3>2. QED
      BY <2>2, <3>1 DEF evidenceShown
  <2>3. CASE Seen /\ observed.test.passed /\ observed.changed \cap TestFiles = {}
    <3>1. iteration # 0
      BY <2>3, ObservedIteration, Limits DEF Seen, RunInv, TypeInv
    <3>2. QED
      BY <2>3, <3>1 DEF evidenceShown
  <2>4. QED
    BY <2>1, <2>2, <2>3 DEF Earned
<1>6. QED
  BY <1>1, <1>2, <1>3, <1>4, <1>5 DEF Promise!Conclude

LEMMA RunRaisesMaps ==
  ASSUME RunRaises
  PROVE  Promise!Conclude
<1>1. /\ pc = "finalize_error" /\ pc' = "raised"
      /\ UNCHANGED <<iteration, baseline, observed>>
  BY DEF RunRaises, loopVars, attemptVars
<1>2. verdictReached = "open" /\ verdictReached' = "lost"
  BY <1>1 DEF verdictReached
<1>3. evidenceShown' = evidenceShown
  BY <1>1 DEF evidenceShown, Seen
<1>4. QED
  BY <1>1, <1>2, <1>3 DEF Promise!Conclude

LEMMA MapsStep ==
  RunInv /\ [Next]_vars => [Promise!ContractNext]_Promise!contractVars
<1> SUFFICES ASSUME RunInv, [Next]_vars
             PROVE  Promise!ContractNext \/ UNCHANGED Promise!contractVars
  OBVIOUS
<1> USE DEF vars, gitVars, loopVars, attemptVars, resultVars
<1>1. CASE StartIteration \/ StartIterationRaises
  BY <1>1, AttemptMaps DEF Promise!ContractNext
<1>2. CASE BaselineFails \/ BaselinePasses
  BY <1>2, BaselineMaps DEF Promise!ContractNext
<1>3. CASE ObserveIteration
  BY <1>3, ObservationMaps DEF Promise!ContractNext
<1>4. CASE Finalize
  BY <1>4, FinalizeMaps DEF Promise!ContractNext
<1>5. CASE RunRaises
  BY <1>5, RunRaisesMaps DEF Promise!ContractNext
<1>6. CASE SkipBaseline \/ BaselineRaises \/ LoopExhausted
  BY <1>6, NothingShown, StillOpen DEF SkipBaseline, BaselineRaises, LoopExhausted, Raise
<1>7. CASE InvokeAgent \/ AgentAction \/ AgentEnds \/ ObserveRaises
  BY <1>7, NothingShown, StillOpen
  DEF InvokeAgent, AgentAction, AgentEdits, AgentAdds, AgentEnds, AgentReturns, AgentTimesOut,
      AgentRaises, ObserveRaises, Raise
<1>8. CASE Enact
  BY <1>8, NothingShown, StillOpen
  DEF Enact, Deciding, Retry, RetryRaises, Raise, Stop, StopValidationFailure, StopNoProgress,
      StopAgentStuck, StopSuccess, StopSuccessCleanupFails, Continue
<1>9. CASE HandleException \/ FinalizeRaises
  BY <1>9, NothingShown, StillOpen DEF HandleException, FinalizeRaises
<1>10. CASE UNCHANGED vars
  BY <1>10, NothingShown DEF verdictReached
<1>11. QED
  BY <1>1, <1>2, <1>3, <1>4, <1>5, <1>6, <1>7, <1>8, <1>9, <1>10 DEF Next, RunStep, Terminated

\* A run implements the contract: attempts are made one after the other,
\* evidence is about the latest attempt, and the one verdict is a success
\* only on good evidence and is never taken back.
THEOREM RunImplementsContract == Spec => ImplementsContract
<1>1. Init => Promise!ContractInit
  BY MapsInitially
<1>2. RunInv /\ [Next]_vars => [Promise!ContractNext]_Promise!contractVars
  BY MapsStep
<1>3. QED
  BY <1>1, <1>2, RunInvariant, PTL DEF Spec, ImplementsContract, Promise!Contract

-----------------------------------------------------------------------------
(* A run comes to its end.                                                 *)

\* Steps a run may take before it is over: no iteration takes more than five, and
\* one that fails or stops is finalized, the second time by the exception handler.
Rank == [baseline |-> 5, invoke |-> 8, agent |-> 7, observe |-> 6, decide |-> 5, loop |-> 4,
         finalize |-> 3, except |-> 2, finalize_error |-> 1, done |-> 0, raised |-> 0]
StepsLeft == 5 * (MaxIterations - iteration) + Rank[pc]

\* A step of RunStep is possible: the guards of its actions, written out.
CanRestore == ~tempBranch \/ SwitchWorks \/ SwitchFails
CanStep ==
  \/ pc \in {"baseline", "invoke", "agent", "observe", "finalize", "finalize_error"}
  \/ pc = "loop" /\ (iteration < MaxIterations \/ (iteration = MaxIterations /\ CanRestore))
  \/ /\ pc = "decide"
     /\ \/ Decide(observed) \in {"retry", "continue"}
        \/ Decide(observed) \in {"stop_validation_failure", "stop_no_progress", "stop_agent_stuck",
                                 "stop_success"} /\ CanRestore
  \/ pc = "except" /\ CanRestore

LEMMA StepsLeftType ==
  ASSUME TypeInv
  PROVE  StepsLeft \in 0 .. 5 * MaxIterations + 8
<1>1. Rank[pc] \in 0..8
  BY DEF TypeInv, TypeOK, Phases, Rank
<1>2. iteration \in 0..MaxIterations /\ MaxIterations \in Nat
  BY Limits DEF TypeInv, TypeOK
<1> HIDE DEF Rank
<1>3. QED
  BY <1>1, <1>2 DEF StepsLeft

\* To a later place in the same iteration, or into the next one.
LEMMA Nearer ==
  ASSUME TypeInv, pc' \in Phases,
         \/ iteration' = iteration /\ Rank[pc'] < Rank[pc]
         \/ iteration' = iteration + 1 /\ Rank[pc'] < Rank[pc] + 5
  PROVE  StepsLeft' < StepsLeft
<1>1. Rank[pc] \in 0..8 /\ Rank[pc'] \in 0..8
  BY DEF TypeInv, TypeOK, Phases, Rank
<1>2. iteration \in Nat /\ MaxIterations \in Nat
  BY Limits DEF TypeInv, TypeOK
<1>3. StepsLeft' = 5 * (MaxIterations - iteration') + Rank[pc']
  BY DEF StepsLeft, Rank
<1> HIDE DEF Rank
<1>4. QED
  BY <1>1, <1>2, <1>3 DEF StepsLeft

LEMMA StepIsNearer ==
  ASSUME TypeInv, RunStep
  PROVE  StepsLeft' < StepsLeft
<1> USE DEF gitVars, loopVars, attemptVars, resultVars, Raise
<1>1. CASE SkipBaseline \/ BaselineFails \/ BaselinePasses \/ BaselineRaises
  BY <1>1, Nearer DEF SkipBaseline, BaselineFails, BaselinePasses, BaselineRaises, Rank, Phases
<1>2. CASE StartIteration \/ StartIterationRaises
  BY <1>2, Nearer DEF StartIteration, StartIterationRaises, NextIteration, Rank, Phases
<1>3. CASE LoopExhausted
  BY <1>3, Nearer DEF LoopExhausted, Rank, Phases
<1>4. CASE InvokeAgent \/ AgentEnds
  BY <1>4, Nearer DEF InvokeAgent, AgentEnds, AgentReturns, AgentTimesOut, AgentRaises, Rank, Phases
<1>5. CASE ObserveIteration \/ ObserveRaises
  BY <1>5, Nearer DEF ObserveIteration, ObserveRaises, Rank, Phases
<1>6. CASE Enact
  BY <1>6, Nearer
  DEF Enact, Deciding, Retry, RetryRaises, Stop, StopValidationFailure, StopNoProgress,
      StopAgentStuck, StopSuccess, StopSuccessCleanupFails, Continue, Rank, Phases
<1>7. CASE HandleException \/ Finalize \/ FinalizeRaises \/ RunRaises
  BY <1>7, Nearer DEF HandleException, Finalize, FinalizeRaises, RunRaises, Rank, Phases
<1>8. QED
  BY <1>1, <1>2, <1>3, <1>4, <1>5, <1>6, <1>7 DEF RunStep

\* A run takes at most 5 * MaxIterations + 5 steps, whatever its agent does between
\* them: every step of the run itself brings it nearer to its end, through retries,
\* failed finalizers and exceptions, and no edit of an agent takes it back.
THEOREM RunIsBounded ==
  Spec => /\ [](StepsLeft \in 0 .. 5 * MaxIterations + 5)
          /\ [][IF RunStep THEN StepsLeft' < StepsLeft ELSE StepsLeft' = StepsLeft]_vars
<1>1. Init => StepsLeft = 5 * MaxIterations + 5
  BY Limits DEF Init, StepsLeft, Rank
<1> DEFINE Within  == StepsLeft <= 5 * MaxIterations + 5
           Closer  == IF RunStep THEN StepsLeft' < StepsLeft ELSE StepsLeft' = StepsLeft
<1>2. TypeInv /\ Within /\ [Next]_vars => Within' /\ Closer
  <2> SUFFICES ASSUME TypeInv, Within, [Next]_vars PROVE Within' /\ Closer
    OBVIOUS
  <2>1. StepsLeft \in Nat /\ MaxIterations \in Nat
    BY StepsLeftType, Limits
  <2>2. StepsLeft' \in Nat
    <3>1. Rank[pc'] \in Nat /\ iteration' \in 0..MaxIterations
      BY TypeStep DEF TypeInv, TypeOK, Phases, Rank
    <3>2. StepsLeft' = 5 * (MaxIterations - iteration') + Rank[pc']
      BY DEF StepsLeft, Rank
    <3> HIDE DEF Rank
    <3>3. QED
      BY <2>1, <3>1, <3>2
  <2>3. RunStep => StepsLeft' < StepsLeft
    BY StepIsNearer
  <2>4. ~RunStep => UNCHANGED <<pc, iteration>>
    BY DEF Next, Terminated, AgentAction, AgentEdits, AgentAdds, vars, loopVars
  <2>5. ~RunStep => StepsLeft' = StepsLeft
    BY <2>4 DEF StepsLeft, Rank
  <2>6. QED
    BY <2>1, <2>2, <2>3, <2>5
<1>3. TypeInv /\ Within => StepsLeft \in 0 .. 5 * MaxIterations + 5
  BY StepsLeftType, Limits
<1>4. Init => Within
  <2>1. 5 * MaxIterations + 5 \in Nat
    BY Limits
  <2>2. QED
    BY <1>1, <2>1
<1> HIDE DEF Within, Closer
<1>5. Spec => [](TypeInv /\ Within) /\ [][Closer]_vars
  BY <1>2, <1>4, TypeInvariant, PTL DEF Spec
<1>6. Spec => [](StepsLeft \in 0 .. 5 * MaxIterations + 5)
  BY <1>3, <1>5, PTL
<1>7. QED
  BY <1>5, <1>6 DEF Closer

\* A run that is not over can go on: whatever the policies decide has its
\* enactment, and the branch can be given back, or failing to is survived.
THEOREM RunNeverBlocks == Spec => [](~Over => CanStep)
<1>1. ASSUME TypeInv, BranchInv, ~Over PROVE CanStep
  <2>1. CanRestore
    BY <1>1 DEF CanRestore, SwitchWorks, SwitchFails, BranchInv, TypeInv, TypeOK
  <2>2. Decide(observed) \in Decisions
    BY DEF Decide, Decisions
  <2>3. pc = "loop" => iteration < MaxIterations \/ iteration = MaxIterations
    BY <1>1, Limits DEF TypeInv, TypeOK
  <2>4. QED
    BY <1>1, <2>1, <2>2, <2>3 DEF CanStep, Over, Decisions, TypeInv, TypeOK, Phases
<1>2. TypeInv /\ BranchInv => (~Over => CanStep)
  BY <1>1
<1>3. QED
  BY <1>2, TypeInvariant, BranchInvariant, PTL
================================================================================
