-------------------------- MODULE AgentCallToolProofs --------------------------
(***************************************************************************)
(* What the guards of the tools are worth when calls run on several        *)
(* threads: the search budget, the edits the tests see, and the edits of   *)
(* earlier turns that a sibling may undo, with two calls in flight at most. *)
(* Each invariant is inductive relative to CallInv.  The last part counts   *)
(* what a call has still to do: a call has a ticket for each step that may *)
(* be ahead of it, a turn pays for its calls and an attempt for its turns. *)
(***************************************************************************)
EXTENDS AgentCallProofs

\* Searches that passed the guard are as good as counted.
Checked == {c \in Slots : At(c, "search_files", "checked")}

BudgetInv ==
  ctx.edits = 0 => ctx.searches + Cardinality(Checked) <= Budget + Cardinality(Slots) - 1

\* A counted edit, or one that is about to be counted, is in a file.
EditInv ==
  ctx.edits > 0 \/ (\E c \in Slots : calls[c] # None /\ calls[c].pc = "written")
    => \E f \in Files : files[f] # {}

-----------------------------------------------------------------------------
(* Where a step leaves the calls.                                          *)

\* A call that moved stands where it moved to, and no other call did.
LEMMA Moved ==
  ASSUME CallsOK, NEW c \in Slots, calls[c] # None, NEW pc, Move(c, pc)
  PROVE  /\ calls'[c].pc = pc /\ calls'[c].tool = calls[c].tool
         /\ \A d \in Slots \ {c} : calls'[d] = calls[d]
BY DEF CallsOK, Move, Calls

LEMMA Returned ==
  ASSUME CallsOK, NEW c \in Slots, calls[c] # None, NEW r, Return(c, r)
  PROVE  /\ calls'[c].pc = "ended" /\ calls'[c].tool = calls[c].tool /\ calls'[c].result = r
         /\ \A d \in Slots \ {c} : calls'[d] = calls[d]
BY DEF CallsOK, Return, Calls

\* No step but CheckSearch brings a search past its guard.
LEMMA ThreadStepsCheckNothing ==
  ASSUME CallInv, NEW c \in Slots, ThreadStep(c), ~(CheckSearch(c) /\ Move(c, "checked"))
  PROVE  Checked' \subseteq Checked /\ (Search(c) => Checked' = Checked \ {c})
<1>0. CallsOK
  BY DEF CallInv, TypeOK, ToolTypeOK, CallsOK
<1>1. calls[c] # None
  BY ThreadIsInFlight
<1>2. CASE ReadOriginal(c)
  <2>1. calls[c].tool \in {"replace_in_file", "apply_unified_diff"} /\ calls[c] \in Calls
    BY <1>0, <1>1, <1>2 DEF ReadOriginal, At, CallsOK
  <2>2. calls'[c].tool = calls[c].tool /\ \A d \in Slots \ {c} : calls'[d] = calls[d]
    BY <1>0, <1>2, <2>1 DEF ReadOriginal, CallsOK, Calls
  <2>3. QED
    BY <1>2, <2>1, <2>2 DEF Checked, At, ReadOriginal, Search
<1>3. CASE \E r : Return(c, r)
  <2>1. calls'[c].pc = "ended" /\ \A d \in Slots \ {c} : calls'[d] = calls[d]
    BY <1>0, <1>1, <1>3, Returned
  <2>2. QED
    BY <2>1 DEF Checked, At
<1>4. CASE Move(c, "written")
  <2>1. calls'[c].pc = "written" /\ \A d \in Slots \ {c} : calls'[d] = calls[d]
    BY <1>0, <1>1, <1>4, Moved
  <2>2. QED
    BY <2>1 DEF Checked, At
<1>5. ReadOriginal(c) \/ (\E r : Return(c, r)) \/ Move(c, "written")
  BY DEF ThreadStep, CheckSearch, InvalidRegex, Search, ReadFile, RefuseEdit,
         WriteUpdated, WriteFile, CountEdit, RunTests, RefuseTests, ApplyDiff, ExecuteCommand
<1>6. QED
  BY <1>2, <1>3, <1>4, <1>5

LEMMA LoopStepsCheckNothing ==
  ASSUME CallInv, NEW c \in Slots, LoopStep(c)
  PROVE  Checked' \subseteq Checked
<1>0. CallsOK
  BY DEF CallInv, TypeOK, ToolTypeOK, CallsOK
<1>1. CASE OnToolStart(c)
  <2>1. calls[c] \in Calls /\ calls'[c].pc = "started"
        /\ \A d \in Slots \ {c} : calls'[d] = calls[d]
    BY <1>0, <1>1 DEF OnToolStart, CallsOK, Calls
  <2>2. QED
    BY <2>1 DEF Checked, At
<1>2. CASE StartInner(c)
  <2>1. calls'[c].pc = "started" /\ \A d \in Slots \ {c} : calls'[d] = calls[d]
    BY <1>0, <1>2, Moved DEF StartInner
  <2>2. QED
    BY <2>1 DEF Checked, At
<1>3. CASE OnToolEnd(c) \/ EndInner(c)
  <2>1. calls'[c] = None /\ \A d \in Slots \ {c} : calls'[d] = calls[d]
    BY <1>0, <1>3 DEF OnToolEnd, EndInner, CallsOK
  <2>2. QED
    BY <2>1 DEF Checked, At
<1>4. CASE SpecialistReturns(c)
  <2>1. calls'[c].pc = "ended" /\ \A d \in Slots \ {c} : calls'[d] = calls[d]
    BY <1>0, <1>4, Returned DEF SpecialistReturns, At
  <2>2. QED
    BY <2>1 DEF Checked, At
<1>5. CASE \E d \in Slots : Delegate(c, d)
  <2>1. PICK d \in Slots : Delegate(c, d)
    BY <1>5
  <2>2. PICK r \in InnerRequests : calls' = [calls EXCEPT ![d] = NewCall(r, c)]
    BY <2>1 DEF Delegate
  <2>3. calls'[d].pc = "requested" /\ \A e \in Slots \ {d} : calls'[e] = calls[e]
    BY <1>0, <2>2 DEF CallsOK, NewCall
  <2>4. QED
    BY <2>3 DEF Checked, At
<1>6. QED
  BY <1>1, <1>2, <1>3, <1>4, <1>5 DEF LoopStep

-----------------------------------------------------------------------------
(* The budget of the searches.                                             *)

LEMMA Sizes ==
  /\ Cardinality(Slots) \in Nat /\ Budget \in Nat \ {0}
  /\ \A S \in SUBSET Slots :
       IsFiniteSet(S) /\ Cardinality(S) \in Nat /\ Cardinality(S) <= Cardinality(Slots)
BY FS_Subset, FS_CardinalityType, ToolCallsAssumption DEF ToolCallsAssumption

LEMMA CheckedFewer ==
  ASSUME NEW S \in SUBSET Slots, NEW T \in SUBSET S
  PROVE  Cardinality(T) <= Cardinality(S)
BY FS_Subset, Sizes

\* Steps that do not search, and let no search through, can only help.
LEMMA QuietKeepsBudget ==
  ASSUME CallInv, BudgetInv, Checked' \subseteq Checked, ctx' \in Contexts,
         ctx'.searches = ctx.searches, ctx'.edits >= ctx.edits
  PROVE  BudgetInv'
<1>1. Checked \in SUBSET Slots
  BY DEF Checked
<1>2. Cardinality(Checked') <= Cardinality(Checked) /\ Cardinality(Checked) \in Nat
      /\ Cardinality(Checked') \in Nat
  BY <1>1, CheckedFewer, Sizes
<1>3. ctx.searches \in Nat /\ ctx.edits \in Nat /\ ctx'.edits \in Nat
  BY DEF CallInv, TypeOK, ToolTypeOK, Contexts
<1>4. QED
  BY <1>2, <1>3, Sizes DEF BudgetInv

\* A search is let through only below the budget.
LEMMA CheckKeepsBudget ==
  ASSUME CallInv, NEW c \in Slots, CheckSearch(c), Move(c, "checked")
  PROVE  BudgetInv'
<1>0. calls[c] \in Calls /\ calls[c] # None /\ calls[c].pc = "started" /\ CallsOK
  BY DEF CheckSearch, At, CallInv, TypeOK, ToolTypeOK, CallsOK
<1>1. ~Exhausted
  <2>1. ASSUME NEW r, Return(c, r) PROVE FALSE
    BY <1>0, <2>1, Moved, Returned
  <2>2. QED
    BY <2>1 DEF CheckSearch
<1>2. ctx' = ctx /\ ctx.searches \in Nat /\ ctx.edits \in Nat
  BY DEF CheckSearch, CallInv, TypeOK, ToolTypeOK, Contexts
<1>3. Cardinality(Checked') \in Nat /\ Cardinality(Checked') <= Cardinality(Slots)
  BY Sizes DEF Checked
<1>4. QED
  BY <1>1, <1>2, <1>3, Sizes DEF BudgetInv, Exhausted

\* A search that is counted leaves those that passed the guard.
LEMMA SearchKeepsBudget ==
  ASSUME CallInv, BudgetInv, NEW c \in Slots, Search(c)
  PROVE  BudgetInv'
<1>0. calls[c] # None /\ calls[c].pc = "checked" /\ c \in Checked /\ Checked \in SUBSET Slots
  BY DEF Search, At, Checked
<1>1. Checked' = Checked \ {c}
  BY <1>0, ThreadStepsCheckNothing DEF ThreadStep, CheckSearch, At
<1>2. Cardinality(Checked') = Cardinality(Checked) - 1 /\ Cardinality(Checked) \in Nat
  BY <1>0, <1>1, Sizes, FS_RemoveElement
<1>3. ctx.searches \in Nat /\ ctx'.searches = ctx.searches + 1 /\ ctx'.edits = ctx.edits
  BY DEF Search, CallInv, TypeOK, ToolTypeOK, Contexts
<1>4. QED
  BY <1>2, <1>3, Sizes DEF BudgetInv

\* What the steps of a tool do to the counters.
LEMMA ToolStepCounters ==
  ASSUME CallInv, NEW c \in Slots, ToolStep(c) \/ Forgotten(c), ~Search(c)
  PROVE  ctx'.searches = ctx.searches /\ ctx'.edits >= ctx.edits
<1>1. ctx \in Contexts /\ ctx.edits \in Nat
  BY DEF CallInv, TypeOK, ToolTypeOK, Contexts
<1>2. CASE CountEdit(c) \/ RunTests(c)
  BY <1>1, <1>2 DEF CountEdit, RunTests, Contexts
<1>3. CASE ctx' = ctx
  BY <1>1, <1>3
<1>4. QED
  BY <1>2, <1>3 DEF ToolStep, ThreadStep, LoopStep, CheckSearch, InvalidRegex, ReadFile,
     ReadOriginal, RefuseEdit, WriteUpdated, WriteFile, RefuseTests, ApplyDiff, ExecuteCommand,
     OnToolStart, StartInner, OnToolEnd, EndInner, SpecialistReturns, Delegate, Forgotten

LEMMA ToolStepKeepsBudget ==
  ASSUME CallInv, BudgetInv, NEW c \in Slots, ToolStep(c) \/ Forgotten(c)
  PROVE  BudgetInv'
<1>1. CASE Search(c)
  BY <1>1, SearchKeepsBudget
<1>2. CASE CheckSearch(c) /\ Move(c, "checked")
  BY <1>2, CheckKeepsBudget
<1>3. CASE ~Search(c) /\ ~(CheckSearch(c) /\ Move(c, "checked"))
  <2>1. Checked' \subseteq Checked
    <3>1. CASE Forgotten(c)
      BY <3>1 DEF Forgotten, Checked, At, CallInv, TypeOK, ToolTypeOK
    <3>2. QED
      BY <1>3, <3>1, ThreadStepsCheckNothing, LoopStepsCheckNothing DEF ToolStep
  <2>2. ctx' \in Contexts
    BY ToolStepType, ForgottenType DEF CallInv, TypeOK, ToolTypeOK
  <2>3. QED
    BY <1>3, <2>1, <2>2, ToolStepCounters, QuietKeepsBudget
<1>4. QED
  BY <1>1, <1>2, <1>3

LEMMA FreshKeepsBudget ==
  /\ ToolsInit => BudgetInv
  /\ ToolsReset => BudgetInv'
<1>1. Cardinality({}) = 0
  BY FS_EmptySet
<1>2. ToolsInit => Checked = {} /\ ctx.searches = 0
  BY DEF ToolsInit, Checked, At, FreshContext
<1>3. ToolsReset => Checked' = {} /\ ctx'.searches = 0
  BY DEF ToolsReset, Checked, At, FreshContext
<1>4. QED
  BY <1>1, <1>2, <1>3, Sizes DEF BudgetInv

\* The other steps: no tool moves.
LEMMA OthersKeepBudget ==
  ASSUME CallInv, BudgetInv, TimeOut \/ Attempting \/ UNCHANGED vars
  PROVE  BudgetInv'
<1>1. ctx' = ctx
  BY DEF TimeOut, Abandon, Attempting, BeginAttempt, RequestTools, BeginTurn, EndTurn, Answer,
     MaxTurnsExceeded, ModelBehaviorError, NonRetryable, RetriesExhausted, ScheduleRetry,
     Wake, Join, Close, toolVars, vars
<1>2. Checked' \subseteq Checked
  <2>1. CASE RequestTools
    <3>1. PICK wanted : BeginTurn(wanted)
      BY <2>1 DEF RequestTools
    <3>2. \A c \in Slots : calls'[c] = None \/ calls'[c].pc = "requested"
      BY <3>1 DEF BeginTurn, NewCall
    <3>3. QED
      BY <3>2 DEF Checked, At
  <2>2. CASE TimeOut
    BY <2>2 DEF TimeOut, Abandon, Checked, At
  <2>3. CASE calls' = calls
    BY <2>3 DEF Checked, At
  <2>4. QED
    BY <2>1, <2>2, <2>3 DEF Attempting, BeginAttempt, EndTurn, Answer, MaxTurnsExceeded,
       ModelBehaviorError, NonRetryable, RetriesExhausted, ScheduleRetry, Wake, Join, Close,
       toolVars, vars
<1>3. ctx \in Contexts /\ ctx.edits \in Nat
  BY DEF CallInv, TypeOK, ToolTypeOK, Contexts
<1>4. QED
  BY <1>1, <1>2, <1>3, QuietKeepsBudget

\* With any number of threads, the searches without an edit exceed the budget by at
\* most the calls that were in flight with them.
THEOREM SearchesStayWithinBudget == Spec => []SearchesWithinBudget
<1>1. Init => CallInv /\ BudgetInv
  BY CallInvInit, FreshKeepsBudget DEF Init
<1>2. CallInv /\ BudgetInv /\ [Next]_vars => CallInv' /\ BudgetInv'
  <2> SUFFICES ASSUME CallInv, BudgetInv, [Next]_vars PROVE BudgetInv'
    BY CallInvNext
  <2>1. CASE Invoke
    BY <2>1, FreshKeepsBudget DEF Invoke
  <2>2. CASE TimeOut \/ Attempting \/ UNCHANGED vars
    BY <2>2, OthersKeepBudget
  <2>3. CASE \E c \in Slots : RunTool(c) \/ Orphan(c)
    BY <2>3, ToolStepKeepsBudget DEF RunTool, Orphan, ToolStep
  <2>4. QED
    BY <2>1, <2>2, <2>3 DEF Next, Step
<1>3. CallInv /\ BudgetInv => SearchesWithinBudget
  <2>1. Checked \in SUBSET Slots
    BY DEF Checked
  <2>2. Cardinality(Checked) \in Nat
    BY <2>1, Sizes
  <2>3. QED
    BY <2>2, Sizes DEF SearchesWithinBudget, BudgetInv, CallInv, TypeOK, ToolTypeOK, Contexts
<1>4. QED
  BY <1>1, <1>2, <1>3, PTL DEF Spec

-----------------------------------------------------------------------------
(* The edits the tests see.                                                *)

SomeEdit == \E f \in Files : files[f] # {}

\* The counter of edits moves, and a call comes to the point where it is about to,
\* only with an edit in a file.
LEMMA ThreadStepEdits ==
  ASSUME CallInv, EditInv, NEW c \in Slots, ThreadStep(c)
  PROVE  EditInv' /\ (SomeEdit => SomeEdit')
<1>0. /\ CallsOK /\ calls[c] # None /\ calls[c] \in Calls
      /\ files \in [Files -> SUBSET Nat] /\ ctx \in Contexts
  BY ThreadIsInFlight DEF CallInv, TypeOK, ToolTypeOK, CallsOK
<1>1. CASE WriteUpdated(c) \/ WriteFile(c)
  <2>1. calls[c].arg \in Files
    BY <1>0, <1>1 DEF WriteUpdated, WriteFile, At, CallsOK, Argued, FileTools, EditTools
  <2>2. files'[calls[c].arg] # {}
    BY <1>0, <1>1, <2>1 DEF WriteUpdated, WriteFile
  <2>3. QED
    BY <2>1, <2>2 DEF EditInv, SomeEdit
<1>2. CASE CountEdit(c)
  <2>1. SomeEdit
    BY <1>0, <1>2 DEF CountEdit, EditInv, SomeEdit
  <2>2. QED
    BY <1>2, <2>1 DEF CountEdit, EditInv, SomeEdit
<1>3. CASE /\ (\E r : Return(c, r)) \/ ReadOriginal(c) \/ CheckSearch(c)
           /\ SomeEdit => SomeEdit'
           /\ ctx'.edits = ctx.edits
  <2>1. calls'[c].pc # "written" /\ \A d \in Slots \ {c} : calls'[d] = calls[d]
    <3>1. CASE \E r : Return(c, r)
      BY <1>0, <3>1, Returned
    <3>2. CASE ReadOriginal(c)
      BY <1>0, <3>2 DEF ReadOriginal, CallsOK, Calls
    <3>3. CASE CheckSearch(c)
      <4>1. Move(c, "checked") \/ \E r : Return(c, r)
        BY <3>3 DEF CheckSearch
      <4>2. CASE Move(c, "checked")
        BY <1>0, <4>2, Moved
      <4>3. QED
        BY <3>1, <4>1, <4>2
    <3>4. QED
      BY <1>3, <3>1, <3>2, <3>3
  <2>2. QED
    BY <1>3, <2>1 DEF EditInv, SomeEdit
<1>4. QED
  <2>1. CASE ApplyDiff(c) \/ ExecuteCommand(c)
    <3>1. calls[c].arg \in Files
      BY <1>0, <2>1 DEF ApplyDiff, ExecuteCommand, At, CallsOK, Argued, FileTools
    <3>2. SomeEdit => SomeEdit'
      BY <1>0, <2>1, <3>1 DEF ApplyDiff, ExecuteCommand, SomeEdit
    <3>3. QED
      BY <1>3, <2>1, <3>2 DEF ApplyDiff, ExecuteCommand
  <2>2. CASE Search(c) \/ RunTests(c)
    <3>1. ctx'.edits = ctx.edits
      BY <1>0, <2>2 DEF Search, RunTests, Contexts
    <3>2. files' = files /\ \E r : Return(c, r)
      BY <2>2 DEF Search, RunTests
    <3>3. QED
      BY <1>3, <3>1, <3>2 DEF SomeEdit
  <2>3. CASE CheckSearch(c) \/ InvalidRegex(c) \/ ReadFile(c) \/ ReadOriginal(c)
             \/ RefuseEdit(c) \/ RefuseTests(c)
    BY <1>3, <2>3 DEF CheckSearch, InvalidRegex, ReadFile, ReadOriginal, RefuseEdit,
                      RefuseTests, SomeEdit
  <2>4. QED
    BY <1>1, <1>2, <2>1, <2>2, <2>3 DEF ThreadStep

LEMMA LoopStepEdits ==
  ASSUME CallInv, EditInv, NEW c \in Slots, LoopStep(c) \/ Forgotten(c)
  PROVE  EditInv'
<1>0. CallsOK
  BY DEF CallInv, TypeOK, ToolTypeOK, CallsOK
<1>1. files' = files /\ ctx' = ctx
  BY DEF LoopStep, OnToolStart, StartInner, OnToolEnd, EndInner, SpecialistReturns, Delegate,
         Forgotten
<1>2. \A d \in Slots : calls'[d] = None \/ calls'[d].pc # "written" \/ calls'[d] = calls[d]
  <2>1. CASE OnToolStart(c)
    <3>1. calls[c] \in Calls /\ calls'[c].pc = "started"
          /\ \A d \in Slots \ {c} : calls'[d] = calls[d]
      BY <1>0, <2>1 DEF OnToolStart, CallsOK, Calls
    <3>2. QED
      BY <3>1
  <2>2. CASE StartInner(c)
    BY <1>0, <2>2, Moved DEF StartInner
  <2>3. CASE OnToolEnd(c) \/ EndInner(c) \/ Forgotten(c)
    BY <1>0, <2>3 DEF OnToolEnd, EndInner, Forgotten, CallsOK
  <2>4. CASE SpecialistReturns(c)
    BY <1>0, <2>4, Returned DEF SpecialistReturns, At
  <2>5. CASE \E d \in Slots : Delegate(c, d)
    <3>1. PICK d \in Slots : Delegate(c, d)
      BY <2>5
    <3>2. PICK r \in InnerRequests : calls' = [calls EXCEPT ![d] = NewCall(r, c)]
      BY <3>1 DEF Delegate
    <3>3. calls'[d].pc = "requested" /\ \A e \in Slots \ {d} : calls'[e] = calls[e]
      BY <1>0, <3>2 DEF CallsOK, NewCall
    <3>4. QED
      BY <3>3
  <2>6. QED
    BY <2>1, <2>2, <2>3, <2>4, <2>5 DEF LoopStep
<1>3. QED
  BY <1>1, <1>2 DEF EditInv

LEMMA OthersKeepEdits ==
  ASSUME CallInv, EditInv, TimeOut \/ Attempting \/ UNCHANGED vars
  PROVE  EditInv'
<1>1. ctx' = ctx /\ files' = files
  BY DEF TimeOut, Abandon, Attempting, BeginAttempt, RequestTools, BeginTurn, EndTurn, Answer,
     MaxTurnsExceeded, ModelBehaviorError, NonRetryable, RetriesExhausted, ScheduleRetry,
     Wake, Join, Close, toolVars, vars
<1>2. \A d \in Slots : calls'[d] = None \/ calls'[d].pc # "written" \/ calls'[d] = calls[d]
  <2>1. CASE RequestTools
    <3>1. PICK wanted : BeginTurn(wanted)
      BY <2>1 DEF RequestTools
    <3>2. QED
      BY <3>1 DEF BeginTurn, NewCall
  <2>2. CASE TimeOut
    BY <2>2 DEF TimeOut, Abandon
  <2>3. CASE calls' = calls
    BY <2>3
  <2>4. QED
    BY <2>1, <2>2, <2>3 DEF Attempting, BeginAttempt, EndTurn, Answer, MaxTurnsExceeded,
       ModelBehaviorError, NonRetryable, RetriesExhausted, ScheduleRetry, Wake, Join, Close,
       toolVars, vars
<1>3. QED
  BY <1>1, <1>2 DEF EditInv

LEMMA FreshKeepsEdits ==
  /\ ToolsInit => EditInv
  /\ ToolsReset => EditInv'
BY DEF ToolsInit, ToolsReset, FreshContext, EditInv

LEMMA EditInvNext ==
  ASSUME CallInv, EditInv, [Next]_vars
  PROVE  EditInv'
<1>1. CASE Invoke
  BY <1>1, FreshKeepsEdits DEF Invoke
<1>2. CASE TimeOut \/ Attempting \/ UNCHANGED vars
  BY <1>2, OthersKeepEdits
<1>3. CASE \E c \in Slots : RunTool(c) \/ Orphan(c)
  BY <1>3, ThreadStepEdits, LoopStepEdits DEF RunTool, Orphan, ToolStep
<1>4. QED
  BY <1>1, <1>2, <1>3 DEF Next, Step

\* The result of a test run, of this call or of none.
LEMMA OnlyRunTestsTests ==
  ASSUME CallInv, [Next]_vars, NEW c \in Slots, phase # "returned",
         At(c, "run_test_target", "started"), calls'[c] # None,
         calls'[c].result \in {"ok", "failed"}
  PROVE  RunTests(c)
<1>0. /\ CallsOK /\ calls[c] # None /\ calls[c].result = "none"
      /\ calls[c].tool = "run_test_target" /\ calls[c].pc = "started" /\ ~Idle
      /\ phase \in {"tools", "joining"}
  BY DEF At, Argued, CallInv, TypeOK, ToolTypeOK, CallsOK, Idle, Controlled
<1>1. calls'[c] # calls[c]
  BY <1>0
<1>2. ~(Invoke \/ TimeOut \/ Attempting \/ UNCHANGED vars)
  BY <1>0, <1>1 DEF Invoke, TimeOut, Abandon, Attempting, BeginAttempt, RequestTools,
     BeginTurn, EndTurn, Answer, MaxTurnsExceeded, ModelBehaviorError, NonRetryable,
     RetriesExhausted, ScheduleRetry, Wake, Join, AsksModel, vars, toolVars
<1>3. PICK d \in Slots : ThreadStep(d) \/ LoopStep(d) \/ Forgotten(d)
  BY <1>2 DEF Next, Step, RunTool, Orphan, ToolStep
<1>4. ~Forgotten(d)
  BY <1>0, <1>1 DEF Forgotten, CallsOK
<1>5. ~LoopStep(d)
  <2>1. ~(OnToolStart(d) \/ OnToolEnd(d) \/ EndInner(d))
    BY <1>0, <1>1 DEF OnToolStart, OnToolEnd, EndInner, CallsOK
  <2>2. ~(StartInner(d) \/ SpecialistReturns(d))
    BY <1>0, <1>1 DEF StartInner, SpecialistReturns, Move, Return, At, Specialist, CallsOK
  <2>3. ~\E e \in Slots : Delegate(d, e)
    BY <1>0, <1>1 DEF Delegate, CallsOK
  <2>4. QED
    BY <2>1, <2>2, <2>3 DEF LoopStep
<1>6. ThreadStep(d) /\ d = c
  <2>1. ASSUME ThreadStep(d), d # c PROVE FALSE
    <3>1. calls'[c] = calls[c]
      BY <1>0, <2>1 DEF ThreadStep, CheckSearch, InvalidRegex, Search, ReadFile, ReadOriginal,
         RefuseEdit, WriteUpdated, WriteFile, CountEdit, RunTests, RefuseTests,
         ApplyDiff, ExecuteCommand, Move, Return, CallsOK
    <3>2. QED
      BY <1>1, <3>1
  <2>2. QED
    BY <1>3, <1>4, <1>5, <2>1
<1>7. ~RefuseTests(c)
  BY <1>0, Returned DEF RefuseTests
<1>8. QED
  BY <1>0, <1>6, <1>7 DEF ThreadStep, CheckSearch, InvalidRegex, Search, ReadFile,
     ReadOriginal, RefuseEdit, WriteUpdated, WriteFile, CountEdit, ApplyDiff, ExecuteCommand, At, EditTools

\* Whatever the threads write and count, tests run with an edit in the workspace or as
\* the one probe of a collection failure.
THEOREM TestsRunOnAnEdit == Spec => TestsSeeAnEdit
<1>1. Init => CallInv /\ EditInv
  BY CallInvInit, FreshKeepsEdits DEF Init
<1>2. CallInv /\ EditInv /\ [Next]_vars => CallInv' /\ EditInv'
  BY CallInvNext, EditInvNext
<1>3. CallInv /\ EditInv /\ [Next]_vars =>
        [\A c \in Slots :
           phase # "returned" /\ At(c, "run_test_target", "started")
             /\ calls'[c] # None /\ calls'[c].result \in {"ok", "failed"}
           => (\E f \in Files : files[f] # {}) \/ Probing]_vars
  <2> SUFFICES ASSUME CallInv, EditInv, [Next]_vars, NEW c \in Slots, phase # "returned",
                      At(c, "run_test_target", "started"), calls'[c] # None,
                      calls'[c].result \in {"ok", "failed"}
               PROVE  (\E f \in Files : files[f] # {}) \/ Probing
    OBVIOUS
  <2>1. ctx.edits > 0 \/ Probing
    BY OnlyRunTestsTests DEF RunTests
  <2>2. QED
    BY <2>1 DEF EditInv
<1>4. QED
  BY <1>1, <1>2, <1>3, PTL DEF Spec, TestsSeeAnEdit

-----------------------------------------------------------------------------
(* The edits of siblings.                                                  *)

Updaters  == {"replace_in_file", "apply_unified_diff"}
Rewriters == {"write_file", "execute_command"}

\* A call that is numbered has a number of its turn, and edits come from the model
\* itself.
Numbered ==
  /\ turnStart <= seq
  /\ \A c \in Slots : calls[c] # None =>
       /\ calls[c].by = None /\ calls[c].pc # "requested" => calls[c].id > turnStart
       /\ calls[c].tool \in Updaters \cup {"write_file"} => calls[c].by = None
       /\ calls[c].pc = "read" => calls[c].tool \in Updaters

\* Who makes a call for a specialist has it in a slot, until the timeout drops it.
Delegation == \A c \in Slots : calls[c] # None /\ calls[c].by # None =>
  LET p == calls[c].by IN
  /\ p # c
  /\ calls[p] = None \/ calls[p].tool = Specialist
  /\ phase = "tools" => At(p, Specialist, "started")

\* What a tool has read of a file holds all older edits that are in it now...
Reading(c) == calls[c] # None /\ calls[c].pc = "read"
BaseIsCurrent == \A c \in Slots : Reading(c) =>
  \A e \in files[calls[c].arg] : e <= turnStart => e \in calls[c].base

\* ... and they are all still there, as long as its sibling has not written.
Unwritten == {"requested", "started", "checked", "read"}
BaseIsThere == \A c, d \in Slots :
  Reading(c) /\ d # c /\ calls[d] # None /\ calls[d].pc \in Unwritten =>
    \A e \in calls[c].base : e <= turnStart => e \in files[calls[c].arg]

FewSlots == \A c, d, e \in Slots : c = d \/ c = e \/ d = e

\* A call on its way keeps its tool, its argument, its number and who makes it.
Same(new, old) ==
  new.tool = old.tool /\ new.arg = old.arg /\ new.by = old.by /\ new.id = old.id

LEMMA MovedCall ==
  ASSUME CallsOK, NEW c \in Slots, calls[c] # None, NEW pc, Move(c, pc)
  PROVE  /\ calls'[c].pc = pc /\ Same(calls'[c], calls[c]) /\ calls'[c].base = calls[c].base
         /\ \A d \in Slots \ {c} : calls'[d] = calls[d]
BY DEF CallsOK, Move, Calls, Same

LEMMA ReturnedCall ==
  ASSUME CallsOK, NEW c \in Slots, calls[c] # None, NEW r, Return(c, r)
  PROVE  /\ calls'[c].pc = "ended" /\ Same(calls'[c], calls[c])
         /\ \A d \in Slots \ {c} : calls'[d] = calls[d]
BY DEF CallsOK, Return, Calls, Same

\* A step of a thread moves its own call on; the call has been numbered before.
LEMMA ThreadMovesOn ==
  ASSUME CallsOK, NEW c \in Slots, ThreadStep(c)
  PROVE  /\ calls[c] # None /\ calls[c] \in Calls
         /\ Same(calls'[c], calls[c])
         /\ \A d \in Slots \ {c} : calls'[d] = calls[d]
         /\ calls[c].pc \in {"started", "checked", "read", "written"}
         /\ calls[c].tool = Specialist => calls[c].pc = "written"
         /\ calls'[c].pc # "requested"
         /\ calls[c].pc = "written" => calls'[c].pc = "ended"
         /\ calls'[c].pc = "read" =>
              /\ calls[c].pc = "started" /\ calls[c].tool \in Updaters
              /\ calls'[c].base = files[calls[c].arg] /\ files' = files
<1>0. calls[c] # None /\ calls[c] \in Calls
  BY ThreadIsInFlight DEF CallsOK
<1>1. CASE ReadOriginal(c)
  BY <1>0, <1>1 DEF ReadOriginal, At, Same, Updaters, CallsOK, Calls, Specialist
<1>2. CASE CheckSearch(c)
  <2>1. Move(c, "checked") \/ \E r : Return(c, r)
    BY <1>2 DEF CheckSearch
  <2> QED BY <1>0, <1>2, <2>1, MovedCall, ReturnedCall DEF CheckSearch, At, Specialist
<1>3. CASE InvalidRegex(c) \/ Search(c) \/ ReadFile(c) \/ RefuseEdit(c) \/ ApplyDiff(c)
           \/ RunTests(c) \/ RefuseTests(c) \/ ExecuteCommand(c)
  <2>1. /\ \E r : Return(c, r)
        /\ calls[c].pc \in {"started", "checked", "read"} /\ calls[c].tool # Specialist
    BY <1>3 DEF InvalidRegex, Search, ReadFile, RefuseEdit, ApplyDiff, RunTests, RefuseTests,
                ExecuteCommand, At, Specialist
  <2> QED BY <1>0, <2>1, ReturnedCall
<1>4. CASE WriteUpdated(c) \/ WriteFile(c)
  <2>1. /\ Move(c, "written")
        /\ calls[c].pc \in {"started", "read"} /\ calls[c].tool # Specialist
    BY <1>4 DEF WriteUpdated, WriteFile, At, Specialist
  <2> QED BY <1>0, <2>1, MovedCall
<1>5. CASE CountEdit(c)
  BY <1>0, <1>5, ReturnedCall DEF CountEdit
<1> QED BY <1>1, <1>2, <1>3, <1>4, <1>5 DEF ThreadStep

\* What else moves a call: the hooks, a specialist that answers, a thread that ends.
LEMMA OthersMove ==
  ASSUME CallsOK, NEW c \in Slots, LoopStep(c) \/ Forgotten(c),
         ~ \E d \in Slots : Delegate(c, d)
  PROVE  /\ calls[c] # None /\ calls[c] \in Calls
         /\ \A d \in Slots \ {c} : calls'[d] = calls[d]
         /\ files' = files /\ turnStart' = turnStart /\ seq' \in {seq, seq + 1}
         /\ calls'[c] # None =>
              /\ calls'[c].tool = calls[c].tool /\ calls'[c].arg = calls[c].arg
              /\ calls'[c].by = calls[c].by /\ calls'[c].pc \in {"started", "ended"}
              /\ calls'[c].pc = "started" => calls[c].pc = "requested"
              /\ calls[c].by = None =>
                   calls'[c].id = IF calls[c].pc = "requested" THEN seq + 1 ELSE calls[c].id
         /\ calls[c].pc = "started" => Delegated(c) = {}
<1>1. CASE OnToolStart(c)
  <2>1. calls[c] # None /\ calls[c] \in Calls /\ calls[c].pc = "requested"
    BY <1>1 DEF OnToolStart, CallsOK
  <2>2. /\ calls'[c].tool = calls[c].tool /\ calls'[c].arg = calls[c].arg
        /\ calls'[c].by = calls[c].by /\ calls'[c].pc = "started" /\ calls'[c].id = seq + 1
        /\ \A d \in Slots \ {c} : calls'[d] = calls[d]
    BY <1>1, <2>1 DEF OnToolStart, CallsOK, Calls
  <2>3. files' = files /\ turnStart' = turnStart /\ seq' = seq + 1
    BY <1>1 DEF OnToolStart
  <2> QED BY <2>1, <2>2, <2>3
<1>2. CASE StartInner(c)
  <2>1. /\ calls[c] # None /\ calls[c].pc = "requested" /\ calls[c].by # None /\ Move(c, "started")
        /\ files' = files /\ turnStart' = turnStart /\ seq' = seq
    BY <1>2 DEF StartInner
  <2> QED BY <2>1, MovedCall DEF Same, CallsOK
<1>3. CASE OnToolEnd(c) \/ EndInner(c) \/ Forgotten(c)
  <2>1. /\ calls[c] # None /\ calls[c].pc = "ended" /\ calls' = [calls EXCEPT ![c] = None]
        /\ files' = files /\ turnStart' = turnStart /\ seq' = seq
    BY <1>3 DEF OnToolEnd, EndInner, Forgotten
  <2> QED BY <2>1 DEF CallsOK
<1>4. CASE SpecialistReturns(c)
  <2>1. /\ calls[c] # None /\ calls[c].pc = "started" /\ Delegated(c) = {}
        /\ \E r : Return(c, r)
        /\ files' = files /\ turnStart' = turnStart /\ seq' = seq
    BY <1>4 DEF SpecialistReturns, At
  <2> QED BY <2>1, ReturnedCall DEF Same, CallsOK
<1> QED BY <1>1, <1>2, <1>3, <1>4 DEF LoopStep

LEMMA DelegateMoves ==
  ASSUME CallsOK, NEW p \in Slots, NEW c \in Slots, Delegate(p, c)
  PROVE  /\ calls[c] = None /\ At(p, Specialist, "started")
         /\ calls'[c].tool \in {"search_files", "run_test_target", "execute_command"}
         /\ calls'[c].by = p /\ calls'[c].pc = "requested"
         /\ \A d \in Slots \ {c} : calls'[d] = calls[d]
         /\ files' = files /\ turnStart' = turnStart /\ seq' = seq
<1>1. PICK r \in InnerRequests : calls' = [calls EXCEPT ![c] = NewCall(r, p)]
  BY DEF Delegate
<1>2. r[1] \in {"search_files", "run_test_target", "execute_command"}
  BY DEF InnerRequests, RequestsOf
<1>3. calls'[c] = NewCall(r, p) /\ \A d \in Slots \ {c} : calls'[d] = calls[d]
  BY <1>1 DEF CallsOK
<1> QED BY <1>2, <1>3 DEF NewCall, Delegate

\* Calls that were there before, or are gone, with the numbers of before.
LEMMA FewerCalls ==
  ASSUME CallInv, Numbered, Delegation,
         \A c \in Slots : calls'[c] = None \/ calls'[c] = calls[c],
         seq' = seq, turnStart' = turnStart,
         phase' = "tools" => (phase' = phase /\ calls' = calls)
  PROVE  Numbered' /\ Delegation'
<1>1. Numbered'
  BY DEF Numbered
<1>2. Delegation'
  <2>1. \A c \in Slots : calls[c] \in Calls \cup {None}
    BY DEF CallInv, TypeOK, ToolTypeOK
  <2>2. \A c \in Slots : calls[c] # None => calls[c].by \in Slots \cup {None}
    BY <2>1 DEF Calls
  <2> QED BY <2>2 DEF Delegation, At
<1> QED BY <1>1, <1>2

LEMMA ThreadKeepsFamily ==
  ASSUME CallInv, Numbered, Delegation, NEW c \in Slots, ThreadStep(c), phase' = phase
  PROVE  Numbered' /\ Delegation'
<1>0. CallsOK /\ \A d \in Slots : calls[d] # None => calls[d].by \in Slots \cup {None}
  BY DEF CallInv, TypeOK, ToolTypeOK, CallsOK, Calls
<1>1. Same(calls'[c], calls[c]) /\ calls[c] # None /\ \A d \in Slots \ {c} : calls'[d] = calls[d]
  BY <1>0, ThreadMovesOn
<1>2. calls[c].tool = Specialist => calls[c].pc = "written"
  BY <1>0, ThreadMovesOn
<1>3. Numbered'
  <2>1. turnStart' = turnStart /\ seq' = seq
    BY ThreadStepFrame
  <2>2. calls[c].pc # "requested" /\ (calls'[c].pc = "read" => calls[c].tool \in Updaters)
    BY <1>0, ThreadMovesOn
  <2> QED BY <1>1, <2>1, <2>2 DEF Numbered, Same
<1>4. Delegation'
  <2> SUFFICES ASSUME NEW d \in Slots, calls'[d] # None, calls'[d].by # None
               PROVE  LET p == calls'[d].by IN
                      /\ p # d
                      /\ calls'[p] = None \/ calls'[p].tool = Specialist
                      /\ phase' = "tools" => calls'[p] # None /\ calls'[p].tool = Specialist
                                             /\ calls'[p].pc = "started"
    BY DEF Delegation, At
  <2> DEFINE p == calls[d].by
  <2>1. calls[d] # None /\ calls'[d].by = p /\ p \in Slots /\ p # None
    BY <1>0, <1>1 DEF Same
  <2>2. /\ p # d
        /\ calls[p] = None \/ calls[p].tool = Specialist
        /\ phase = "tools" => At(p, Specialist, "started")
    BY <2>1 DEF Delegation
  <2> HIDE DEF p
  <2>3. CASE p = c
    BY <1>1, <1>2, <2>1, <2>2, <2>3 DEF At, Same
  <2>4. CASE p # c
    BY <1>1, <2>1, <2>2, <2>4 DEF At
  <2> QED BY <2>3, <2>4
<1> QED BY <1>3, <1>4

LEMMA OthersKeepFamily ==
  ASSUME CallInv, Numbered, Delegation, NEW c \in Slots, phase' = phase,
         (LoopStep(c) /\ phase = "tools") \/ Forgotten(c)
  PROVE  Numbered' /\ Delegation'
<1>0. /\ CallsOK /\ seq \in Nat /\ turnStart \in Nat
      /\ \A d \in Slots : calls[d] # None => calls[d].by \in Slots \cup {None}
  BY DEF CallInv, TypeOK, ToolTypeOK, CallsOK, Calls
<1>1. CASE ~ \E d \in Slots : Delegate(c, d)
  <2>1. /\ calls[c] # None
        /\ \A d \in Slots \ {c} : calls'[d] = calls[d]
        /\ turnStart' = turnStart /\ seq' \in {seq, seq + 1}
        /\ calls'[c] # None =>
             /\ calls'[c].tool = calls[c].tool
             /\ calls'[c].by = calls[c].by /\ calls'[c].pc \in {"started", "ended"}
             /\ calls[c].by = None =>
                  calls'[c].id = IF calls[c].pc = "requested" THEN seq + 1 ELSE calls[c].id
        /\ calls[c].pc = "started" => Delegated(c) = {}
    BY <1>0, <1>1, OthersMove
  <2>2. Numbered'
    BY <1>0, <2>1 DEF Numbered
  <2>3. Delegation'
    <3> SUFFICES ASSUME NEW d \in Slots, calls'[d] # None, calls'[d].by # None
                 PROVE  LET p == calls'[d].by IN
                        /\ p # d
                        /\ calls'[p] = None \/ calls'[p].tool = Specialist
                        /\ phase' = "tools" => calls'[p] # None /\ calls'[p].tool = Specialist
                                               /\ calls'[p].pc = "started"
      BY DEF Delegation, At
    <3> DEFINE p == calls[d].by
    <3>1. calls[d] # None /\ calls'[d].by = p /\ p \in Slots /\ p # None
      BY <1>0, <2>1
    <3>2. /\ p # d
          /\ calls[p] = None \/ calls[p].tool = Specialist
          /\ phase = "tools" => At(p, Specialist, "started")
      BY <3>1 DEF Delegation
    <3>3. d \in Delegated(p)
      BY <3>1 DEF Delegated
    <3> HIDE DEF p
    <3>4. CASE p = c
      BY <1>0, <2>1, <3>1, <3>2, <3>3, <3>4 DEF At
    <3>5. CASE p # c
      BY <2>1, <3>1, <3>2, <3>5 DEF At
    <3> QED BY <3>4, <3>5
  <2> QED BY <2>2, <2>3
<1>2. ASSUME NEW d \in Slots, Delegate(c, d) PROVE Numbered' /\ Delegation'
  <2>0. phase = "tools"
    BY <1>2 DEF Forgotten, Delegate, At
  <2>1. /\ calls[d] = None /\ At(c, Specialist, "started")
        /\ calls'[d].tool \in {"search_files", "run_test_target", "execute_command"}
        /\ calls'[d].by = c /\ calls'[d].pc = "requested"
        /\ \A e \in Slots \ {d} : calls'[e] = calls[e]
        /\ turnStart' = turnStart /\ seq' = seq
    BY <1>0, <1>2, DelegateMoves
  <2>2. c # None /\ c # d
    BY <2>1, ToolCallsAssumption DEF At
  <2>3. Numbered'
    BY <2>1, <2>2 DEF Numbered, Updaters
  <2>4. Delegation'
    <3> SUFFICES ASSUME NEW e \in Slots, calls'[e] # None, calls'[e].by # None
                 PROVE  LET p == calls'[e].by IN
                        /\ p # e
                        /\ calls'[p] = None \/ calls'[p].tool = Specialist
                        /\ phase' = "tools" => calls'[p] # None /\ calls'[p].tool = Specialist
                                               /\ calls'[p].pc = "started"
      BY DEF Delegation, At
    <3>1. CASE e = d
      BY <2>1, <2>2, <3>1 DEF At
    <3>2. CASE e # d
      <4> DEFINE p == calls[e].by
      <4>1. calls[e] # None /\ calls'[e].by = p /\ p \in Slots /\ p # None
        BY <1>0, <2>1, <3>2
      <4>2. /\ p # e
            /\ calls[p] = None \/ calls[p].tool = Specialist
            /\ phase = "tools" => At(p, Specialist, "started")
        BY <4>1 DEF Delegation
      <4> HIDE DEF p
      <4> QED BY <2>0, <2>1, <4>1, <4>2 DEF At
    <3> QED BY <3>1, <3>2
  <2> QED BY <2>3, <2>4
<1> QED BY <1>1, <1>2

\* The steps of the call itself, on the calls and the files.
LEMMA CallSteps ==
  ASSUME CallInv, TimeOut \/ Attempting \/ UNCHANGED vars
  PROVE  /\ files' = files /\ seq' = seq
         /\ \/ /\ turnStart' = turnStart
               /\ \A c \in Slots : calls'[c] = None \/ calls'[c] = calls[c]
               /\ phase' = "tools" => (phase' = phase /\ calls' = calls)
            \/ /\ turnStart' = seq
               /\ \A c \in Slots : calls'[c] # None =>
                    calls'[c].by = None /\ calls'[c].pc = "requested"
<1>1. CASE RequestTools
  <2>1. PICK wanted : BeginTurn(wanted)
    BY <1>1 DEF RequestTools
  <2> QED BY <2>1 DEF BeginTurn, NewCall
<1>2. CASE TimeOut
  BY <1>2 DEF TimeOut, Abandon
<1>3. CASE EndTurn \/ UNCHANGED vars
  BY <1>3 DEF EndTurn, vars, toolVars, callOnly
<1>4. CASE BeginAttempt \/ Answer \/ MaxTurnsExceeded \/ ModelBehaviorError
           \/ NonRetryable \/ RetriesExhausted \/ ScheduleRetry \/ Wake \/ Join
  BY <1>4 DEF BeginAttempt, Answer, MaxTurnsExceeded, ModelBehaviorError, NonRetryable,
              RetriesExhausted, ScheduleRetry, Wake, Join, Close, toolVars
<1> QED BY <1>1, <1>2, <1>3, <1>4 DEF Attempting

LEMMA FreshFamily ==
  /\ ToolsInit => Numbered /\ Delegation
  /\ ToolsReset => Numbered' /\ Delegation'
BY DEF ToolsInit, ToolsReset, Numbered, Delegation

LEMMA FamilyNext ==
  ASSUME CallInv, Numbered, Delegation, [Next]_vars
  PROVE  Numbered' /\ Delegation'
<1>1. CASE Invoke
  BY <1>1, FreshFamily DEF Invoke
<1>2. CASE TimeOut \/ Attempting \/ UNCHANGED vars
  <2>1. CASE /\ turnStart' = turnStart /\ seq' = seq
             /\ \A c \in Slots : calls'[c] = None \/ calls'[c] = calls[c]
             /\ phase' = "tools" => (phase' = phase /\ calls' = calls)
    BY <2>1, FewerCalls
  <2>2. CASE /\ turnStart' = seq /\ seq' = seq
             /\ \A c \in Slots : calls'[c] # None =>
                  calls'[c].by = None /\ calls'[c].pc = "requested"
    <3>1. seq \in Nat
      BY DEF CallInv, TypeOK, ToolTypeOK
    <3> QED BY <2>2, <3>1 DEF Numbered, Delegation
  <2> QED BY <1>2, <2>1, <2>2, CallSteps
<1>3. ASSUME NEW c \in Slots, RunTool(c) \/ Orphan(c) PROVE Numbered' /\ Delegation'
  <2>1. phase' = phase /\ (ThreadStep(c) \/ (LoopStep(c) /\ phase = "tools") \/ Forgotten(c))
    BY <1>3 DEF RunTool, Orphan, ToolStep, callOnly
  <2> QED BY <2>1, ThreadKeepsFamily, OthersKeepFamily
<1> QED BY <1>1, <1>2, <1>3 DEF Next, Step

\* A thread changes the file its call names, from what it has read or as a whole, and
\* has written then.
Overwrites(c, text) ==
  /\ calls[c].arg \in Files /\ files' = [files EXCEPT ![calls[c].arg] = text]
  /\ calls'[c].pc \notin Unwritten

LEMMA ThreadWrites ==
  ASSUME CallsOK, NEW c \in Slots, ThreadStep(c), files' # files
  PROVE  \/ /\ Reading(c) /\ Overwrites(c, calls[c].base \cup {calls[c].id})
         \/ /\ calls[c].tool \in Rewriters /\ calls[c].pc \in Unwritten
            /\ Overwrites(c, {calls[c].id})
<1>0. calls[c] # None
  BY ThreadIsInFlight
<1>1. CASE WriteUpdated(c)
  <2>1. Reading(c) /\ calls[c].arg \in Files
    BY <1>0, <1>1 DEF WriteUpdated, At, Reading, CallsOK, Argued, FileTools, EditTools
  <2>2. calls'[c].pc = "written"
    BY <1>0, <1>1, MovedCall DEF WriteUpdated
  <2> QED BY <1>1, <2>1, <2>2 DEF WriteUpdated, Overwrites, Unwritten
<1>2. CASE ApplyDiff(c)
  <2>1. Reading(c) /\ calls[c].arg \in Files
    BY <1>0, <1>2 DEF ApplyDiff, At, Reading, CallsOK, Argued, FileTools
  <2>2. calls'[c].pc = "ended"
    BY <1>0, <1>2, ReturnedCall DEF ApplyDiff
  <2> QED BY <1>2, <2>1, <2>2 DEF ApplyDiff, Overwrites, Unwritten
<1>3. CASE WriteFile(c)
  <2>1. calls[c].tool \in Rewriters /\ calls[c].pc \in Unwritten /\ calls[c].arg \in Files
    BY <1>0, <1>3 DEF WriteFile, At, Rewriters, Unwritten, CallsOK, Argued, FileTools, EditTools
  <2>2. calls'[c].pc = "written"
    BY <1>0, <1>3, MovedCall DEF WriteFile
  <2> QED BY <1>3, <2>1, <2>2 DEF WriteFile, Overwrites, Unwritten
<1>4. CASE ExecuteCommand(c)
  <2>1. calls[c].tool \in Rewriters /\ calls[c].pc \in Unwritten /\ calls[c].arg \in Files
    BY <1>0, <1>4 DEF ExecuteCommand, At, Rewriters, Unwritten, CallsOK, Argued, FileTools
  <2>2. calls'[c].pc = "ended"
    BY <1>0, <1>4, ReturnedCall DEF ExecuteCommand
  <2> QED BY <1>4, <2>1, <2>2 DEF ExecuteCommand, Overwrites, Unwritten
<1> QED
  BY <1>1, <1>2, <1>3, <1>4 DEF ThreadStep, CheckSearch, InvalidRegex, Search, ReadFile,
     ReadOriginal, RefuseEdit, CountEdit, RunTests, RefuseTests

SiblingInv == Numbered /\ Delegation /\ BaseIsCurrent /\ BaseIsThere

\* Whoever is in flight beside a tool that has read was asked for by the model itself:
\* a specialist and its call would make three.
LEMMA NoThirdCall ==
  ASSUME FewSlots, CallsOK, SiblingInv, NEW c \in Slots, Reading(c), NEW d \in Slots, d # c,
         calls[d] # None
  PROVE  calls[d].by = None
<1> SUFFICES ASSUME calls[d].by # None PROVE FALSE
  OBVIOUS
<1> DEFINE p == calls[d].by
<1>1. p \in Slots
  BY DEF CallsOK, Calls
<1>2. p # d /\ (calls[p] = None \/ calls[p].tool = Specialist)
  BY <1>1 DEF SiblingInv, Delegation
<1>3. calls[c].tool \in Updaters /\ calls[c] # None
  BY DEF SiblingInv, Numbered, Reading
<1>4. c # p
  BY <1>2, <1>3 DEF Updaters, Specialist
<1> QED BY <1>1, <1>2, <1>4 DEF FewSlots

\* A step that leaves the files alone, and the calls or moves them on without a read.
LEMMA FilesKept ==
  ASSUME SiblingInv, files' = files, turnStart' = turnStart,
         \A c \in Slots : calls'[c] # None =>
           /\ calls[c] # None /\ calls'[c].arg = calls[c].arg
           /\ calls'[c].pc = "read" =>
                \/ calls'[c].base = files[calls[c].arg]
                \/ calls[c].pc = "read" /\ calls'[c].base = calls[c].base
           /\ calls'[c].pc \in Unwritten => calls[c].pc \in Unwritten
  PROVE  BaseIsCurrent' /\ BaseIsThere'
<1>1. BaseIsCurrent'
  BY DEF SiblingInv, BaseIsCurrent, Reading
<1>2. BaseIsThere'
  BY DEF SiblingInv, BaseIsThere, Reading
<1> QED BY <1>1, <1>2

LEMMA ThreadKeepsBases ==
  ASSUME FewSlots, CallInv, SiblingInv, NEW c \in Slots, ThreadStep(c)
  PROVE  BaseIsCurrent' /\ BaseIsThere'
<1>0. /\ CallsOK /\ turnStart' = turnStart /\ turnStart \in Nat
      /\ files \in [Files -> SUBSET Nat]
  BY ThreadStepFrame DEF CallInv, TypeOK, ToolTypeOK, CallsOK
<1>1. /\ calls[c] # None /\ calls[c] \in Calls
      /\ Same(calls'[c], calls[c]) /\ \A d \in Slots \ {c} : calls'[d] = calls[d]
      /\ calls[c].pc \in {"started", "checked", "read", "written"}
      /\ calls[c].pc = "written" => calls'[c].pc = "ended"
  BY <1>0, ThreadMovesOn
<1>2. CASE files' = files
  <2>1. calls'[c].pc = "read" => calls'[c].base = files[calls[c].arg]
    BY <1>0, ThreadMovesOn
  <2>2. calls'[c].pc \in Unwritten => calls[c].pc \in Unwritten
    BY <1>1 DEF Unwritten
  <2> QED BY <1>0, <1>1, <1>2, <2>1, <2>2, FilesKept DEF Same
<1>3. CASE files' # files
  <2> DEFINE f == calls[c].arg
  <2>1. PICK text : Overwrites(c, text)
    BY <1>0, <1>3, ThreadWrites
  <2>2. f \in Files /\ files' = [files EXCEPT ![f] = text] /\ calls'[c].pc # "read"
        /\ calls'[c].pc \notin Unwritten
    BY <2>1 DEF Overwrites, Unwritten
  <2>3. ASSUME NEW d \in Slots, d # c, Reading(d), calls[d].arg = f,
               NEW e \in text, e <= turnStart
        PROVE  e \in calls[d].base
    <3>1. calls[c].by = None
      BY <1>0, <1>1, <2>3, NoThirdCall
    <3>2. calls[c].id > turnStart
      BY <1>1, <3>1 DEF SiblingInv, Numbered
    <3>3. calls[c].id \in Nat /\ calls[c].base \subseteq Nat
      BY <1>1 DEF Calls
    <3>4. files'[f] = text
      BY <1>0, <2>2
    <3>5. CASE Reading(c) /\ Overwrites(c, calls[c].base \cup {calls[c].id})
      <4>1. text = calls[c].base \cup {calls[c].id}
        BY <1>0, <3>4, <3>5 DEF Overwrites
      <4>2. e \in calls[c].base
        BY <1>0, <2>3, <3>2, <3>3, <4>1
      <4>3. calls[d] # None /\ calls[d].pc \in Unwritten
        BY <2>3 DEF Reading, Unwritten
      <4>4. e \in files[f]
        BY <2>3, <3>5, <4>2, <4>3 DEF SiblingInv, BaseIsThere
      <4> QED BY <2>3, <4>4 DEF SiblingInv, BaseIsCurrent
    <3>6. CASE Overwrites(c, {calls[c].id})
      <4>1. text = {calls[c].id}
        BY <1>0, <3>4, <3>6 DEF Overwrites
      <4> QED BY <1>0, <2>3, <3>2, <3>3, <4>1
    <3> QED BY <1>0, <1>3, <3>5, <3>6, ThreadWrites
  <2> HIDE DEF f
  <2>4. BaseIsCurrent'
    <3> SUFFICES ASSUME NEW d \in Slots, Reading(d)', NEW e \in files'[calls'[d].arg],
                        e <= turnStart
                 PROVE  e \in calls'[d].base
      BY <1>0 DEF BaseIsCurrent
    <3>1. d # c /\ Reading(d) /\ calls'[d] = calls[d]
      BY <1>1, <2>2 DEF Reading
    <3>2. CASE calls[d].arg = f
      <4>1. e \in text
        BY <1>0, <2>2, <3>1, <3>2
      <4> QED BY <2>3, <3>1, <3>2, <4>1
    <3>3. CASE calls[d].arg # f
      <4>1. files'[calls[d].arg] = files[calls[d].arg]
        BY <1>0, <2>2, <3>3
      <4> QED BY <3>1, <4>1 DEF SiblingInv, BaseIsCurrent
    <3> QED BY <3>2, <3>3
  <2>5. BaseIsThere'
    <3> SUFFICES ASSUME NEW d \in Slots, NEW x \in Slots, Reading(d)', x # d,
                        calls'[x] # None, calls'[x].pc \in Unwritten
                 PROVE  FALSE
      BY DEF BaseIsThere
    <3>1. d # c /\ x # c
      BY <2>2 DEF Reading, Unwritten
    <3> QED BY <3>1 DEF FewSlots
  <2> QED BY <2>4, <2>5
<1> QED BY <1>2, <1>3

LEMMA OthersKeepBases ==
  ASSUME FewSlots, CallInv, SiblingInv, NEW c \in Slots, LoopStep(c) \/ Forgotten(c)
  PROVE  BaseIsCurrent' /\ BaseIsThere'
<1>0. CallsOK
  BY DEF CallInv, TypeOK, ToolTypeOK, CallsOK
<1>1. CASE ~ \E d \in Slots : Delegate(c, d)
  <2>1. /\ calls[c] # None
        /\ \A d \in Slots \ {c} : calls'[d] = calls[d]
        /\ files' = files /\ turnStart' = turnStart
        /\ calls'[c] # None =>
             /\ calls'[c].arg = calls[c].arg /\ calls'[c].pc \in {"started", "ended"}
             /\ calls'[c].pc = "started" => calls[c].pc = "requested"
    BY <1>0, <1>1, OthersMove
  <2> QED BY <2>1, FilesKept DEF Unwritten
<1>2. ASSUME NEW d \in Slots, Delegate(c, d) PROVE BaseIsCurrent' /\ BaseIsThere'
  <2>1. /\ calls[d] = None /\ At(c, Specialist, "started")
        /\ calls'[d].pc = "requested"
        /\ \A e \in Slots \ {d} : calls'[e] = calls[e]
        /\ files' = files /\ turnStart' = turnStart
    BY <1>0, <1>2, DelegateMoves
  <2>2. \A e \in Slots : ~Reading(e)'
    <3> SUFFICES ASSUME NEW e \in Slots, Reading(e)' PROVE FALSE
      OBVIOUS
    <3>1. e # d /\ Reading(e)
      BY <2>1 DEF Reading
    <3>2. calls[e].tool \in Updaters
      BY <3>1 DEF Reading, SiblingInv, Numbered
    <3>3. e # c /\ c # d
      BY <2>1, <3>2 DEF At, Updaters, Specialist
    <3> QED BY <3>1, <3>3 DEF FewSlots
  <2> QED BY <2>2 DEF BaseIsCurrent, BaseIsThere
<1> QED BY <1>1, <1>2

LEMMA BasesNext ==
  ASSUME FewSlots, CallInv, SiblingInv, [Next]_vars
  PROVE  BaseIsCurrent' /\ BaseIsThere'
<1>1. CASE Invoke
  BY <1>1 DEF Invoke, ToolsReset, BaseIsCurrent, BaseIsThere, Reading
<1>2. CASE TimeOut \/ Attempting \/ UNCHANGED vars
  <2>1. CASE /\ files' = files /\ turnStart' = turnStart
             /\ \A c \in Slots : calls'[c] = None \/ calls'[c] = calls[c]
    BY <2>1, FilesKept
  <2>2. CASE \A c \in Slots : calls'[c] # None => calls'[c].pc = "requested"
    BY <2>2 DEF BaseIsCurrent, BaseIsThere, Reading
  <2> QED BY <1>2, <2>1, <2>2, CallSteps
<1>3. CASE \E c \in Slots : RunTool(c) \/ Orphan(c)
  BY <1>3, ThreadKeepsBases, OthersKeepBases DEF RunTool, Orphan, ToolStep
<1> QED BY <1>1, <1>2, <1>3 DEF Next, Step

\* An older edit is gone only when a file is written as a whole.
LEMMA LostByRewriting ==
  ASSUME FewSlots, CallInv, SiblingInv, [Next]_vars, phase' # "attempt",
         NEW f \in Files, NEW e \in files[f] \ files'[f]
  PROVE  \/ e > turnStart
         \/ \E c \in Slots : /\ calls[c] # None /\ calls[c].arg = f
                             /\ calls[c].tool \in Rewriters
<1>0. /\ CallsOK /\ files \in [Files -> SUBSET Nat] /\ turnStart \in Nat
      /\ files' # files
  BY DEF CallInv, TypeOK, ToolTypeOK, CallsOK
<1>1. PICK c \in Slots : ThreadStep(c)
  <2>1. ~ (TimeOut \/ Attempting \/ UNCHANGED vars)
    BY <1>0, CallSteps
  <2>2. ~ Invoke
    BY DEF Invoke
  <2>3. PICK c \in Slots : ThreadStep(c) \/ LoopStep(c) \/ Forgotten(c)
    BY <2>1, <2>2 DEF Next, Step, RunTool, Orphan, ToolStep
  <2>4. ~ (LoopStep(c) \/ Forgotten(c))
    BY <1>0 DEF LoopStep, OnToolStart, StartInner, OnToolEnd, EndInner, SpecialistReturns,
                Delegate, Forgotten
  <2> QED BY <2>3, <2>4
<1>2. \A text : Overwrites(c, text) => calls[c].arg = f /\ e \notin text
  BY <1>0 DEF Overwrites
<1>3. CASE Reading(c) /\ Overwrites(c, calls[c].base \cup {calls[c].id})
  <2>1. calls[c].arg = f /\ e \notin calls[c].base
    BY <1>2, <1>3
  <2>2. e > turnStart
    BY <1>0, <1>3, <2>1 DEF SiblingInv, BaseIsCurrent
  <2> QED BY <2>2
<1>4. CASE Overwrites(c, {calls[c].id}) /\ calls[c].tool \in Rewriters
  BY <1>1, <1>2, <1>4, ThreadIsInFlight
<1> QED BY <1>0, <1>1, <1>3, <1>4, ThreadWrites

\* Two calls make few slots.
LEMMA TwoAreFew ==
  ASSUME Cardinality(Slots) <= 2
  PROVE  FewSlots
<1> SUFFICES ASSUME NEW c \in Slots, NEW d \in Slots, NEW e \in Slots,
                    c # d, c # e, d # e
             PROVE  FALSE
  BY DEF FewSlots
<1>1. IsFiniteSet({e}) /\ Cardinality({e}) = 1
  BY FS_Singleton
<1>2. IsFiniteSet({e} \cup {d}) /\ Cardinality({e} \cup {d}) = 2
  BY <1>1, FS_AddElement
<1>3. Cardinality(({e} \cup {d}) \cup {c}) = 3
  BY <1>2, FS_AddElement
<1>4. Cardinality(({e} \cup {d}) \cup {c}) <= Cardinality(Slots)
  BY Sizes
<1> QED BY <1>3, <1>4, Sizes

\* With two calls in flight an edit of an earlier turn is lost only to a call that
\* writes the file as a whole: a tool that read the file holds it (fs_tools, the SDK's
\* threads).  With three it would be false: one rewrites between the reads of the others.
THEOREM EditsLostOnlyToSiblings ==
  ASSUME Cardinality(Slots) <= 2
  PROVE  Spec => LostOnlyToASibling
<1>0. FewSlots
  BY TwoAreFew
<1>1. Init => CallInv /\ SiblingInv
  BY CallInvInit, FreshFamily DEF Init, ToolsInit, SiblingInv, BaseIsCurrent, BaseIsThere, Reading
<1>2. CallInv /\ SiblingInv /\ [Next]_vars => CallInv' /\ SiblingInv'
  <2> SUFFICES ASSUME CallInv, SiblingInv, [Next]_vars PROVE CallInv' /\ SiblingInv'
    OBVIOUS
  <2> QED BY <1>0, CallInvNext, FamilyNext, BasesNext DEF SiblingInv
<1>3. CallInv /\ SiblingInv /\ [Next]_vars =>
        [phase' # "attempt" =>
           \A f \in Files : \A e \in files[f] \ files'[f] :
              \/ e > turnStart
              \/ \E c \in Slots : /\ calls[c] # None /\ calls[c].arg = f
                                  /\ calls[c].tool \in {"write_file", "execute_command"}]_vars
  BY <1>0, LostByRewriting DEF Rewriters
<1> QED BY <1>1, <1>2, <1>3, PTL DEF Spec, LostOnlyToASibling

-----------------------------------------------------------------------------
(* A call comes to its end: what is left of the tool calls in flight.      *)

\* Where a call of a tool may be.
Stations(tool) ==
  {"requested", "started", "ended"}
  \cup (IF tool = "search_files" THEN {"checked"} ELSE {})
  \cup (IF tool \in Updaters THEN {"read"} ELSE {})
  \cup (IF tool \in EditTools THEN {"written"} ELSE {})

\* A call is at a place of its tool, a specialist calls no specialist, and what is
\* still to be joined has begun, on a thread.
OnItsWay == \A c \in Slots : calls[c] # None =>
  /\ calls[c].pc \in Stations(calls[c].tool)
  /\ calls[c].by # None => calls[c].tool # Specialist
  /\ phase = "joining" => calls[c].tool # Specialist /\ calls[c].pc # "requested"

\* A call has a ticket for each step that may still be ahead of it.
CallRank == [requested |-> 5, started |-> 4, checked |-> 3, read |-> 3, written |-> 2, ended |-> 1]

Tickets ==
  {t \in Slots \X (1..5) : calls[t[1]] # None /\ t[2] <= CallRank[calls[t[1]].pc]}

LEMMA RankOfCall == \A call \in Calls : CallRank[call.pc] \in 1..5
BY DEF Calls, CallRank

LEMMA FiveRanks == IsFiniteSet(1..5) /\ Cardinality(1..5) = 5
<1>1. 1 \in Int /\ 5 \in Int
  OBVIOUS
<1>2. IsFiniteSet(1..5) /\ Cardinality(1..5) = IF 1 > 5 THEN 0 ELSE 5 - 1 + 1
  BY <1>1, FS_Interval
<1> QED BY <1>2

LEMMA TicketsAreFinite ==
  /\ IsFiniteSet(Slots \X (1..5)) /\ Cardinality(Slots \X (1..5)) = 5 * Cardinality(Slots)
  /\ \A S \in SUBSET (Slots \X (1..5)) :
       IsFiniteSet(S) /\ Cardinality(S) \in Nat /\ Cardinality(S) <= 5 * Cardinality(Slots)
<1>1. IsFiniteSet(1..5) /\ Cardinality(1..5) = 5
  BY FiveRanks
<1>2. /\ IsFiniteSet(Slots \X (1..5))
      /\ Cardinality(Slots \X (1..5)) = Cardinality(Slots) * Cardinality(1..5)
  BY <1>1, FS_Product, ToolCallsAssumption DEF ToolCallsAssumption
<1>3. Cardinality(Slots \X (1..5)) = 5 * Cardinality(Slots)
  BY <1>1, <1>2, Sizes
<1>4. QED
  BY <1>2, <1>3, FS_Subset, FS_CardinalityType

\* A step of a thread brings its call to a later place of its tool.
LEMMA ThreadIsNearer ==
  ASSUME CallsOK, NEW c \in Slots, ThreadStep(c)
  PROVE  /\ calls'[c].pc \in Stations(calls[c].tool)
         /\ CallRank[calls'[c].pc] < CallRank[calls[c].pc]
<1>0. calls[c] # None /\ calls[c] \in Calls
  BY ThreadIsInFlight DEF CallsOK
<1>1. CASE ReadOriginal(c)
  <2>1. calls'[c].pc = "read" /\ calls[c].pc = "started" /\ calls[c].tool \in Updaters
    BY <1>0, <1>1 DEF ReadOriginal, At, Updaters, CallsOK, Calls
  <2> QED BY <2>1 DEF Stations, CallRank
<1>2. CASE CheckSearch(c) /\ Move(c, "checked")
  <2>1. calls'[c].pc = "checked" /\ calls[c].pc = "started" /\ calls[c].tool = "search_files"
    BY <1>0, <1>2, MovedCall DEF CheckSearch, At
  <2> QED BY <2>1 DEF Stations, CallRank
<1>3. CASE \E r : Return(c, r) /\ calls[c].pc \in {"started", "checked", "read", "written"}
  <2>1. calls'[c].pc = "ended"
    BY <1>0, <1>3, ReturnedCall
  <2> QED BY <1>3, <2>1 DEF Stations, CallRank
<1>4. CASE WriteUpdated(c) \/ WriteFile(c)
  <2>1. /\ Move(c, "written")
        /\ calls[c].pc \in {"started", "read"} /\ calls[c].tool \in EditTools
    BY <1>4 DEF WriteUpdated, WriteFile, At, EditTools
  <2>2. calls'[c].pc = "written"
    BY <1>0, <2>1, MovedCall
  <2> QED BY <2>1, <2>2 DEF Stations, CallRank
<1>5. CASE CheckSearch(c) /\ ~Move(c, "checked")
  <2>1. calls[c].pc = "started" /\ \E r : Return(c, r)
    BY <1>5 DEF CheckSearch, At
  <2> QED BY <1>3, <2>1
<1>6. CASE \/ InvalidRegex(c) \/ Search(c) \/ ReadFile(c) \/ RefuseEdit(c) \/ ApplyDiff(c)
           \/ RunTests(c) \/ RefuseTests(c) \/ ExecuteCommand(c) \/ CountEdit(c)
  <2>1. /\ \E r : Return(c, r)
        /\ calls[c].pc \in {"started", "checked", "read", "written"}
    BY <1>6 DEF InvalidRegex, Search, ReadFile, RefuseEdit, ApplyDiff, RunTests, RefuseTests,
                ExecuteCommand, CountEdit, At
  <2> QED BY <1>3, <2>1
<1> QED BY <1>1, <1>2, <1>4, <1>5, <1>6 DEF ThreadStep

\* So does every other step of a call but Delegate.
LEMMA OthersAreNearer ==
  ASSUME CallsOK, NEW c \in Slots, LoopStep(c) \/ Forgotten(c),
         ~ \E d \in Slots : Delegate(c, d)
  PROVE  calls'[c] # None =>
           /\ calls'[c].pc \in Stations(calls[c].tool)
           /\ CallRank[calls'[c].pc] < CallRank[calls[c].pc]
<1>1. CASE OnToolStart(c) \/ StartInner(c)
  <2>1. calls[c] # None /\ calls[c].pc = "requested"
    BY <1>1 DEF OnToolStart, StartInner
  <2>2. calls'[c].pc = "started"
    BY <1>1, <2>1 DEF OnToolStart, StartInner, Move, CallsOK, Calls
  <2> QED BY <2>1, <2>2 DEF Stations, CallRank
<1>2. CASE OnToolEnd(c) \/ EndInner(c) \/ Forgotten(c)
  BY <1>2 DEF OnToolEnd, EndInner, Forgotten, CallsOK
<1>3. CASE SpecialistReturns(c)
  <2>1. calls[c] # None /\ calls[c].pc = "started" /\ \E r : Return(c, r)
    BY <1>3 DEF SpecialistReturns, At
  <2>2. calls'[c].pc = "ended"
    BY <2>1, ReturnedCall
  <2> QED BY <2>1, <2>2 DEF Stations, CallRank
<1> QED BY <1>1, <1>2, <1>3 DEF LoopStep

\* A call that moved on, or is gone, gave a ticket up.
LEMMA TicketIsGivenUp ==
  ASSUME CallsOK, calls' \in [Slots -> Calls \cup {None}], NEW c \in Slots, calls[c] # None,
         \A d \in Slots \ {c} : calls'[d] = calls[d],
         calls'[c] # None => CallRank[calls'[c].pc] < CallRank[calls[c].pc]
  PROVE  /\ Cardinality(Tickets) \in Nat /\ Cardinality(Tickets') \in Nat
         /\ Cardinality(Tickets') < Cardinality(Tickets)
<1> DEFINE ticket == <<c, CallRank[calls[c].pc]>>
<1>1. ticket \in Tickets
  <2>1. CallRank[calls[c].pc] \in 1..5
    BY RankOfCall DEF CallsOK
  <2> QED BY <2>1 DEF Tickets
<1>2. Tickets' \subseteq Tickets \ {ticket}
  <2>1. CallRank[calls[c].pc] \in 1..5
    BY RankOfCall DEF CallsOK
  <2>2. Tickets' = {t \in Slots \X (1..5) : calls'[t[1]] # None /\ t[2] <= CallRank[calls'[t[1]].pc]}
    BY DEF Tickets, CallRank
  <2>3. ASSUME NEW t \in Slots \X (1..5), calls'[t[1]] # None, t[2] <= CallRank[calls'[t[1]].pc]
        PROVE  t \in Tickets /\ t # ticket
    <3>1. CASE t[1] # c
      BY <2>3, <3>1 DEF Tickets
    <3>2. CASE t[1] = c
      <4>1. CallRank[calls'[c].pc] < CallRank[calls[c].pc]
        BY <2>3, <3>2
      <4>2. t[2] < CallRank[calls[c].pc]
        <5>1. t[2] \in 1..5 /\ t[2] <= CallRank[calls'[c].pc]
          BY <2>3, <3>2
        <5>2. CallRank[calls'[c].pc] \in 1..5
          BY <2>3, <3>2, RankOfCall
        <5> HIDE DEF CallRank
        <5> QED BY <2>1, <4>1, <5>1, <5>2
      <4>3. t[2] <= CallRank[calls[c].pc] /\ t[2] # CallRank[calls[c].pc]
        <5>1. t[2] \in 1..5
          BY <2>3
        <5> HIDE DEF CallRank
        <5> QED BY <2>1, <4>2, <5>1
      <4>4. t \in Tickets
        BY <2>3, <3>2, <4>3 DEF Tickets
      <4> QED BY <4>3, <4>4
    <3> QED BY <3>1, <3>2
  <2> QED BY <2>2, <2>3
<1>3. Tickets \in SUBSET (Slots \X (1..5)) /\ Tickets' \in SUBSET (Slots \X (1..5))
  BY DEF Tickets
<1>4. IsFiniteSet(Tickets) /\ Cardinality(Tickets) \in Nat /\ Cardinality(Tickets') \in Nat
  BY <1>3, TicketsAreFinite
<1> HIDE DEF ticket
<1>5. /\ IsFiniteSet(Tickets \ {ticket})
      /\ Cardinality(Tickets \ {ticket}) = Cardinality(Tickets) - 1
  BY <1>1, <1>4, FS_RemoveElement
<1>6. Cardinality(Tickets') <= Cardinality(Tickets \ {ticket})
  BY <1>2, <1>5, FS_Subset
<1> QED BY <1>4, <1>5, <1>6

\* A call of a specialist brings five.
LEMMA DelegationCosts ==
  ASSUME CallsOK, NEW p \in Slots, NEW c \in Slots, Delegate(p, c)
  PROVE  /\ Cardinality(Tickets) \in Nat /\ Cardinality(Tickets') \in Nat
         /\ Cardinality(Tickets') <= Cardinality(Tickets) + 5
<1>1. \A d \in Slots \ {c} : calls'[d] = calls[d]
  BY DelegateMoves
<1>2. Tickets' \subseteq Tickets \cup ({c} \X (1..5))
  <2>1. Tickets' = {t \in Slots \X (1..5) : calls'[t[1]] # None /\ t[2] <= CallRank[calls'[t[1]].pc]}
    BY DEF Tickets, CallRank
  <2>2. ASSUME NEW t \in Slots \X (1..5), calls'[t[1]] # None, t[2] <= CallRank[calls'[t[1]].pc],
               t[1] # c
        PROVE  t \in Tickets
    BY <1>1, <2>2 DEF Tickets
  <2> QED BY <2>1, <2>2
<1>3. /\ Tickets \in SUBSET (Slots \X (1..5)) /\ Tickets' \in SUBSET (Slots \X (1..5))
      /\ {c} \X (1..5) \in SUBSET (Slots \X (1..5))
  BY DEF Tickets
<1>4. /\ IsFiniteSet(Tickets) /\ Cardinality(Tickets) \in Nat /\ Cardinality(Tickets') \in Nat
      /\ IsFiniteSet({c} \X (1..5))
  BY <1>3, TicketsAreFinite
<1>5. Cardinality({c} \X (1..5)) = 5
  <2>1. IsFiniteSet({c}) /\ Cardinality({c}) = 1
    BY FS_Singleton
  <2>2. IsFiniteSet(1..5) /\ Cardinality(1..5) = 5
    BY FiveRanks
  <2>3. Cardinality({c} \X (1..5)) = Cardinality({c}) * Cardinality(1..5)
    BY <2>1, <2>2, FS_Product
  <2> QED BY <2>1, <2>2, <2>3
<1>6. /\ IsFiniteSet(Tickets \cup ({c} \X (1..5)))
      /\ Cardinality(Tickets \cup ({c} \X (1..5)))
           = Cardinality(Tickets) + 5 - Cardinality(Tickets \cap ({c} \X (1..5)))
  BY <1>4, <1>5, FS_Union
<1>7. Cardinality(Tickets \cap ({c} \X (1..5))) \in Nat
  <2>1. Tickets \cap ({c} \X (1..5)) \in SUBSET (Slots \X (1..5))
    BY <1>3
  <2> QED BY <2>1, TicketsAreFinite
<1>8. Cardinality(Tickets') <= Cardinality(Tickets \cup ({c} \X (1..5)))
  BY <1>2, <1>6, FS_Subset
<1> QED BY <1>4, <1>6, <1>7, <1>8

LEMMA OnItsWayNext ==
  ASSUME CallInv, OnItsWay, [Next]_vars
  PROVE  OnItsWay'
<1>0. CallsOK
  BY DEF CallInv, TypeOK, ToolTypeOK, CallsOK
<1>1. CASE Invoke
  BY <1>1 DEF Invoke, ToolsReset, OnItsWay
<1>2. CASE TimeOut
  BY <1>2 DEF TimeOut, Abandon, OnItsWay
<1>3. CASE RequestTools
  <2>1. PICK wanted : BeginTurn(wanted)
    BY <1>3 DEF RequestTools
  <2>2. \A c \in Slots : calls'[c] # None => calls'[c].by = None /\ calls'[c].pc = "requested"
    BY <2>1 DEF BeginTurn, NewCall
  <2>3. phase' = "tools"
    BY <1>3 DEF RequestTools
  <2> QED BY <2>2, <2>3 DEF OnItsWay, Stations
<1>4. CASE \/ EndTurn \/ UNCHANGED vars \/ BeginAttempt \/ Answer \/ MaxTurnsExceeded
           \/ ModelBehaviorError \/ NonRetryable \/ RetriesExhausted \/ ScheduleRetry
           \/ Wake \/ Join
  <2>1. calls' = calls /\ (phase' = phase \/ phase' # "joining")
    BY <1>4 DEF EndTurn, BeginAttempt, Answer, MaxTurnsExceeded, ModelBehaviorError, NonRetryable,
                RetriesExhausted, ScheduleRetry, Wake, Join, Close, vars, toolVars, callOnly
  <2> QED BY <2>1 DEF OnItsWay
<1>5. ASSUME NEW c \in Slots, RunTool(c) \/ Orphan(c) PROVE OnItsWay'
  <2>0. phase' = phase
    BY <1>5 DEF RunTool, Orphan, callOnly
  <2>1. CASE ThreadStep(c)
    <3>1. /\ calls[c] # None /\ Same(calls'[c], calls[c]) /\ calls'[c].pc # "requested"
          /\ \A d \in Slots \ {c} : calls'[d] = calls[d]
          /\ calls'[c].pc \in Stations(calls[c].tool)
      BY <1>0, <2>1, ThreadMovesOn, ThreadIsNearer
    <3> QED BY <2>0, <3>1 DEF OnItsWay, Same
  <2>2. CASE /\ (LoopStep(c) /\ phase = "tools") \/ Forgotten(c)
             /\ ~ \E d \in Slots : Delegate(c, d)
    <3>1. /\ calls[c] # None /\ \A d \in Slots \ {c} : calls'[d] = calls[d]
          /\ calls'[c] # None =>
               /\ calls'[c].tool = calls[c].tool /\ calls'[c].by = calls[c].by
               /\ calls'[c].pc \in Stations(calls[c].tool) /\ calls'[c].pc # "requested"
      BY <1>0, <2>2, OthersMove, OthersAreNearer
    <3> QED BY <2>0, <3>1 DEF OnItsWay
  <2>3. CASE phase = "tools" /\ \E d \in Slots : Delegate(c, d)
    <3>1. PICK d \in Slots : Delegate(c, d)
      BY <2>3
    <3>2. /\ calls'[d].tool \in {"search_files", "run_test_target", "execute_command"}
          /\ calls'[d].pc = "requested"
          /\ \A e \in Slots \ {d} : calls'[e] = calls[e]
      BY <1>0, <3>1, DelegateMoves
    <3> QED BY <2>0, <2>3, <3>2 DEF OnItsWay, Stations, Specialist
  <2>4. ThreadStep(c) \/ (LoopStep(c) /\ phase = "tools") \/ Forgotten(c)
    BY <1>5 DEF RunTool, Orphan, ToolStep
  <2>5. Forgotten(c) => ~ \E d \in Slots : Delegate(c, d)
    BY DEF Forgotten, Delegate, At
  <2> QED BY <2>1, <2>2, <2>3, <2>4, <2>5
<1> QED BY <1>1, <1>2, <1>3, <1>4, <1>5 DEF Next, Step, Attempting

EndInv == CallInv /\ OnItsWay

LEMMA EndInvHolds ==
  /\ Init => EndInv
  /\ EndInv /\ [Next]_vars => EndInv'
<1>1. Init => EndInv
  BY CallInvInit DEF Init, ToolsInit, EndInv, OnItsWay
<1>2. EndInv /\ [Next]_vars => EndInv'
  BY CallInvNext, OnItsWayNext DEF EndInv
<1> QED BY <1>1, <1>2

-----------------------------------------------------------------------------
(* A call comes to its end: something can always be done.                  *)

\* The guards of ThreadStep, ...
ThreadCanMove(c) ==
  \/ \E t \in Tools \ {Specialist, "run_test_target"} : At(c, t, "started")
  \/ At(c, "run_test_target", "started") /\ (ctx.edits > 0 \/ Probing)
  \/ At(c, "run_test_target", "started") /\ ctx.edits = 0 /\ ~Probing
  \/ At(c, "search_files", "checked")
  \/ At(c, "replace_in_file", "read") \/ At(c, "apply_unified_diff", "read")
  \/ calls[c] # None /\ calls[c].pc = "written"

\* ... those of LoopStep but Delegate, and those of the call.
LoopCanMove(c) ==
  \/ calls[c] # None /\ calls[c].pc \in {"requested", "ended"}
  \/ At(c, Specialist, "started") /\ Delegated(c) = {}

CallCanStep ==
  \/ phase \in {"attempt", "sleep"}
  \/ phase = "model" /\ (turns < MaxTurns \/ turns = MaxTurns)
  \/ phase \in {"tools", "joining"} /\ Idle
  \/ phase = "tools" /\ \E c \in Slots : ThreadCanMove(c) \/ LoopCanMove(c)
  \/ phase = "joining" /\ \E c \in Slots : ThreadCanMove(c) \/ At(c, calls[c].tool, "ended")

\* A call of a tool can move, unless it is a specialist that waits for its own.
LEMMA CallCanMove ==
  ASSUME EndInv, NEW c \in Slots, calls[c] # None
  PROVE  \/ ThreadCanMove(c) \/ calls[c].pc \in {"requested", "ended"}
         \/ At(c, Specialist, "started")
<1>1. calls[c].pc \in Stations(calls[c].tool) /\ calls[c].tool \in Tools
  BY DEF EndInv, OnItsWay, CallInv, TypeOK, ToolTypeOK, Calls
<1>2. ctx.edits \in Nat
  BY DEF EndInv, CallInv, TypeOK, ToolTypeOK, Contexts
<1>3. CASE calls[c].pc = "started"
  BY <1>1, <1>2, <1>3 DEF ThreadCanMove, At
<1>4. CASE calls[c].pc = "checked"
  BY <1>1, <1>4 DEF ThreadCanMove, At, Stations
<1>5. CASE calls[c].pc = "read"
  BY <1>1, <1>5 DEF ThreadCanMove, At, Stations, Updaters
<1>6. CASE calls[c].pc = "written"
  BY <1>6 DEF ThreadCanMove
<1> QED BY <1>1, <1>3, <1>4, <1>5, <1>6 DEF Stations

LEMMA CallIsNotBlocked ==
  ASSUME EndInv, phase \notin {"idle", "returned"}
  PROVE  CallCanStep
<1>0. phase \in Phases /\ turns \in 0..MaxTurns /\ MaxTurns \in Nat
  BY Limits DEF EndInv, CallInv, TypeOK
<1>1. CASE phase \in {"attempt", "sleep"}
  BY <1>1 DEF CallCanStep
<1>2. CASE phase = "model"
  BY <1>0, <1>2 DEF CallCanStep
<1>3. CASE phase \in {"tools", "joining"} /\ Idle
  BY <1>3 DEF CallCanStep
<1>4. CASE phase \in {"tools", "joining"} /\ ~Idle
  <2>1. PICK c \in Slots : calls[c] # None
    BY <1>4 DEF Idle
  <2>2. CASE phase = "joining"
    BY <2>1, <2>2, CallCanMove DEF CallCanStep, EndInv, OnItsWay, At
  <2>3. CASE phase = "tools" /\ ~ (At(c, Specialist, "started") /\ Delegated(c) # {})
    BY <2>1, <2>3, CallCanMove DEF CallCanStep, LoopCanMove
  <2>4. CASE phase = "tools" /\ At(c, Specialist, "started") /\ Delegated(c) # {}
    <3>1. PICK d \in Slots : calls[d] # None /\ calls[d].by = c
      BY <2>4 DEF Delegated
    <3>2. calls[d].tool # Specialist
      <4>1. calls[d].by # None
        BY <3>1, ToolCallsAssumption DEF ToolCallsAssumption
      <4> QED BY <3>1, <4>1 DEF EndInv, OnItsWay
    <3> QED BY <2>4, <3>1, <3>2, CallCanMove DEF CallCanStep, LoopCanMove, At
  <2> QED BY <1>4, <2>2, <2>3, <2>4
<1> QED BY <1>0, <1>1, <1>2, <1>3, <1>4 DEF Phases

\* Until a call has returned, something in it can go on: no tool waits for another, a
\* specialist only for its own call, which goes on, and a call that was cut off for
\* threads that do not need the event loop any more.
THEOREM CallNeverBlocks == Spec => [](phase \notin {"idle", "returned"} => CallCanStep)
<1> DEFINE GoesOn == phase \notin {"idle", "returned"} => CallCanStep
<1>1. EndInv => GoesOn
  BY CallIsNotBlocked
<1>2. (Init => EndInv) /\ (EndInv /\ [Next]_vars => EndInv')
  BY EndInvHolds
<1> HIDE DEF GoesOn
<1>3. Spec => []GoesOn
  BY <1>1, <1>2, PTL DEF Spec
<1> QED BY <1>3 DEF GoesOn

-----------------------------------------------------------------------------
(* A call comes to its end: there is only so much to do.                   *)

\* A turn asks for at most one call in each slot, an attempt for MaxTurns turns.
PerTurn    == 5 * Cardinality(Slots) + 2
PerAttempt == MaxTurns * PerTurn + 3

PhaseRank ==
  [attempt |-> 4, tools |-> 4, model |-> 3, sleep |-> 2, joining |-> 1, returned |-> 0, idle |-> 0]

TurnsLeft == IF phase = "attempt" THEN MaxTurns ELSE MaxTurns - turns

CallStepsLeft ==
  (MaxAttempts - attempt) * PerAttempt + TurnsLeft * PerTurn + PhaseRank[phase]
  + 6 * (MaxInner - inner) + Cardinality(Tickets)

LEMMA PerTurnIsNat ==
  /\ Cardinality(Slots) \in Nat /\ PerTurn \in Nat /\ PerTurn = 5 * Cardinality(Slots) + 2
  /\ MaxTurns * PerTurn \in Nat /\ PerAttempt \in Nat /\ PerAttempt = MaxTurns * PerTurn + 3
<1>1. Cardinality(Slots) \in Nat /\ MaxTurns \in Nat
  BY Sizes, Limits
<1>2. PerTurn \in Nat /\ PerTurn = 5 * Cardinality(Slots) + 2
  BY <1>1 DEF PerTurn
<1>3. MaxTurns * PerTurn \in Nat
  BY <1>1, <1>2
<1> QED BY <1>1, <1>2, <1>3 DEF PerAttempt

LEMMA Multiples ==
  ASSUME NEW m \in Nat, NEW n \in Nat, NEW k \in Nat
  PROVE  /\ n * k \in Nat /\ (n + 1) * k = n * k + k
         /\ m <= n => m * k <= n * k
<1>1. n * k \in Nat /\ m * k \in Nat /\ (n + 1) * k = n * k + k
  OBVIOUS
<1>2. ASSUME m <= n PROVE m * k <= n * k
  <2>1. PICK d \in Nat : n = m + d
    <3>1. n - m \in Nat /\ n = m + (n - m)
      BY <1>2
    <3> QED BY <3>1
  <2>2. n * k = m * k + d * k /\ d * k \in Nat
    BY <2>1
  <2> QED BY <1>1, <2>2
<1> QED BY <1>1, <1>2

\* The parts of what is left are natural numbers.
LEMMA PartsOfLeft ==
  ASSUME TypeOK
  PROVE  /\ MaxAttempts - attempt \in Nat /\ TurnsLeft \in Nat /\ TurnsLeft <= MaxTurns
         /\ PhaseRank[phase] \in 0..4 /\ MaxInner - inner \in Nat /\ Cardinality(Tickets) \in Nat
         /\ (MaxAttempts - attempt) * PerAttempt \in Nat /\ TurnsLeft * PerTurn \in Nat
         /\ CallStepsLeft \in Nat
<1>1. MaxAttempts - attempt \in Nat /\ TurnsLeft \in Nat /\ TurnsLeft <= MaxTurns
  BY Limits DEF TypeOK, TurnsLeft
<1>2. PhaseRank[phase] \in 0..4
  BY DEF TypeOK, Phases, PhaseRank
<1>3. MaxInner - inner \in Nat
  BY ToolCallsAssumption DEF TypeOK, ToolTypeOK
<1>4. Cardinality(Tickets) \in Nat
  BY TicketsAreFinite DEF Tickets
<1>5. (MaxAttempts - attempt) * PerAttempt \in Nat /\ TurnsLeft * PerTurn \in Nat
  BY <1>1, PerTurnIsNat, Multiples
<1> HIDE DEF PhaseRank
<1>6. CallStepsLeft \in Nat
  <2> DEFINE a == (MaxAttempts - attempt) * PerAttempt
             b == TurnsLeft * PerTurn
             c == PhaseRank[phase]
             e == MaxInner - inner
             f == Cardinality(Tickets)
  <2>1. a \in Nat /\ b \in Nat /\ c \in Nat /\ e \in Nat /\ f \in Nat
    BY <1>2, <1>3, <1>4, <1>5
  <2>2. CallStepsLeft = a + b + c + 6 * e + f
    BY DEF CallStepsLeft
  <2> HIDE DEF a, b, c, e, f
  <2> QED BY <2>1, <2>2
<1> QED BY <1>1, <1>2, <1>3, <1>4, <1>5, <1>6

\* Calls that were there before have their tickets.
LEMMA NoNewTickets ==
  ASSUME \A c \in Slots : calls'[c] = None \/ calls'[c] = calls[c]
  PROVE  /\ Cardinality(Tickets) \in Nat /\ Cardinality(Tickets') \in Nat
         /\ Cardinality(Tickets') <= Cardinality(Tickets)
<1>1. Tickets' = {t \in Slots \X (1..5) : calls'[t[1]] # None /\ t[2] <= CallRank[calls'[t[1]].pc]}
  BY DEF Tickets, CallRank
<1>2. Tickets' \subseteq Tickets
  BY <1>1 DEF Tickets
<1>3. Tickets \in SUBSET (Slots \X (1..5)) /\ Tickets' \in SUBSET (Slots \X (1..5))
  BY DEF Tickets
<1>4. IsFiniteSet(Tickets) /\ Cardinality(Tickets) \in Nat /\ Cardinality(Tickets') \in Nat
  BY <1>3, TicketsAreFinite
<1> QED BY <1>2, <1>4, FS_Subset

\* A step in the same attempt that leaves no more turns, at a later place of the call.
LEMMA NearerByPhase ==
  ASSUME TypeOK, TypeOK', attempt' = attempt, inner' = inner,
         TurnsLeft' <= TurnsLeft, PhaseRank[phase'] < PhaseRank[phase],
         \A c \in Slots : calls'[c] = None \/ calls'[c] = calls[c]
  PROVE  CallStepsLeft' < CallStepsLeft
<1> DEFINE a == (MaxAttempts - attempt) * PerAttempt
           e == 6 * (MaxInner - inner)
<1>1. a \in Nat /\ e \in Nat
  <2>1. a \in Nat /\ MaxInner - inner \in Nat
    BY PartsOfLeft
  <2> QED BY <2>1
<1>2. PhaseRank[phase] \in 0..4 /\ PhaseRank[phase'] \in 0..4
  BY DEF TypeOK, Phases, PhaseRank
<1>3. TurnsLeft \in Nat /\ TurnsLeft' \in Nat
  <2>1. turns \in 0..MaxTurns /\ turns' \in 0..MaxTurns /\ MaxTurns \in Nat
    BY Limits DEF TypeOK
  <2>2. \A t \in 0..MaxTurns : MaxTurns - t \in Nat
    BY <2>1
  <2>3. TurnsLeft \in {MaxTurns, MaxTurns - turns} /\ TurnsLeft' \in {MaxTurns, MaxTurns - turns'}
    BY DEF TurnsLeft
  <2> QED BY <2>1, <2>2, <2>3
<1>4. /\ TurnsLeft * PerTurn \in Nat /\ TurnsLeft' * PerTurn \in Nat
      /\ TurnsLeft' * PerTurn <= TurnsLeft * PerTurn
  BY <1>3, PerTurnIsNat, Multiples
<1>5. /\ Cardinality(Tickets) \in Nat /\ Cardinality(Tickets') \in Nat
      /\ Cardinality(Tickets') <= Cardinality(Tickets)
  BY NoNewTickets
<1>6. CallStepsLeft = a + TurnsLeft * PerTurn + PhaseRank[phase] + e + Cardinality(Tickets)
  BY DEF CallStepsLeft
<1>7. CallStepsLeft' = a + TurnsLeft' * PerTurn + PhaseRank[phase'] + e + Cardinality(Tickets')
  BY DEF CallStepsLeft, PhaseRank, PerTurn, PerAttempt
<1> DEFINE b == TurnsLeft * PerTurn
           bb == TurnsLeft' * PerTurn
           f == Cardinality(Tickets)
           ff == Cardinality(Tickets')
<1> HIDE DEF PhaseRank, a, b, bb, e, f, ff
<1>8. /\ CallStepsLeft = a + b + PhaseRank[phase] + e + f
      /\ CallStepsLeft' = a + bb + PhaseRank[phase'] + e + ff
  BY <1>6, <1>7 DEF b, bb, f, ff
<1>9. b \in Nat /\ bb \in Nat /\ bb <= b /\ f \in Nat /\ ff \in Nat /\ ff <= f
  BY <1>4, <1>5 DEF b, bb, f, ff
<1> QED BY <1>1, <1>2, <1>8, <1>9

\* A step of the attempt that is neither a turn begun nor a wait that is over.
LEMMA PhasesAreNearer ==
  ASSUME CallInv, TypeOK',
         \/ BeginAttempt \/ EndTurn \/ Answer \/ MaxTurnsExceeded \/ ModelBehaviorError
         \/ NonRetryable \/ RetriesExhausted \/ ScheduleRetry \/ Join \/ TimeOut
  PROVE  CallStepsLeft' < CallStepsLeft
<1>0. TypeOK
  BY DEF CallInv
<1>1. CASE BeginAttempt
  <2>1. attempt' = attempt /\ inner' = inner /\ calls' = calls
    BY <1>1 DEF BeginAttempt
  <2>2. TurnsLeft' = MaxTurns - 0 /\ TurnsLeft = MaxTurns
    BY <1>1 DEF BeginAttempt, TurnsLeft
  <2>3. TurnsLeft' <= TurnsLeft
    BY <2>2, Limits
  <2>4. PhaseRank[phase'] < PhaseRank[phase]
    BY <1>1 DEF BeginAttempt, PhaseRank
  <2> QED BY <1>0, <2>1, <2>3, <2>4, NearerByPhase
<1>2. CASE EndTurn \/ Answer \/ MaxTurnsExceeded \/ ModelBehaviorError \/ NonRetryable
           \/ RetriesExhausted \/ ScheduleRetry \/ Join \/ TimeOut
  <2>1. /\ attempt' = attempt /\ inner' = inner /\ turns' = turns
        /\ \A c \in Slots : calls'[c] = None \/ calls'[c] = calls[c]
        /\ phase # "attempt" /\ phase' # "attempt"
    BY <1>2 DEF EndTurn, Answer, MaxTurnsExceeded, ModelBehaviorError, NonRetryable,
                RetriesExhausted, ScheduleRetry, Join, Close, TimeOut, Abandon, AsksModel, toolVars
  <2>2. TurnsLeft' = TurnsLeft
    BY <2>1 DEF TurnsLeft
  <2>3. TurnsLeft' <= TurnsLeft
    <3>1. TurnsLeft \in Nat
      BY <1>0, PartsOfLeft
    <3> QED BY <2>2, <3>1
  <2>4. PhaseRank[phase'] < PhaseRank[phase]
    <3>1. \/ phase = "tools" /\ phase' = "model"
          \/ phase = "model" /\ phase' \in {"sleep", "returned"}
          \/ phase = "joining" /\ phase' = "returned"
          \/ phase \in {"model", "tools", "sleep"} /\ phase' = "joining"
      BY <1>2 DEF EndTurn, Answer, MaxTurnsExceeded, ModelBehaviorError, NonRetryable,
                  RetriesExhausted, ScheduleRetry, Join, Close, TimeOut, AsksModel
    <3> QED BY <3>1 DEF PhaseRank
  <2> QED BY <1>0, <2>1, <2>3, <2>4, NearerByPhase
<1> QED BY <1>1, <1>2

\* A turn pays for the calls it begins.
LEMMA TurnIsNearer ==
  ASSUME CallInv, RequestTools
  PROVE  CallStepsLeft' < CallStepsLeft
<1> DEFINE a == (MaxAttempts - attempt) * PerAttempt
           e == 6 * (MaxInner - inner)
           n == MaxTurns - (turns + 1)
           f == Cardinality(Tickets)
           ff == Cardinality(Tickets')
<1>0. TypeOK /\ inner' = inner /\ attempt' = attempt
  BY DEF CallInv, RequestTools, BeginTurn
<1>1. a \in Nat /\ e \in Nat
  <2>1. a \in Nat /\ MaxInner - inner \in Nat
    BY <1>0, PartsOfLeft
  <2> QED BY <2>1
<1>2. n \in Nat /\ MaxTurns - turns = n + 1
  BY <1>0, Limits DEF RequestTools, AsksModel, TypeOK
<1>3. /\ phase = "model" /\ phase' = "tools" /\ TurnsLeft = n + 1 /\ TurnsLeft' = n
  BY <1>2 DEF RequestTools, AsksModel, TurnsLeft
<1>4. f \in Nat /\ ff \in Nat /\ ff <= 5 * Cardinality(Slots)
  <2>1. Tickets \in SUBSET (Slots \X (1..5)) /\ Tickets' \in SUBSET (Slots \X (1..5))
    BY DEF Tickets
  <2> QED BY <2>1, TicketsAreFinite
<1>5. n * PerTurn \in Nat /\ (n + 1) * PerTurn = n * PerTurn + PerTurn
  BY <1>2, PerTurnIsNat, Multiples
<1>6. CallStepsLeft = a + (n + 1) * PerTurn + 3 + e + f
  <2>1. PhaseRank[phase] = 3
    BY <1>3 DEF PhaseRank
  <2> QED BY <1>3, <2>1 DEF CallStepsLeft
<1>7. CallStepsLeft' = a + n * PerTurn + 4 + e + ff
  <2>1. PhaseRank[phase'] = 4
    BY <1>3 DEF PhaseRank
  <2>2. CallStepsLeft' = (MaxAttempts - attempt') * PerAttempt + TurnsLeft' * PerTurn
                         + PhaseRank[phase'] + 6 * (MaxInner - inner') + Cardinality(Tickets')
    BY DEF CallStepsLeft, PhaseRank, PerTurn, PerAttempt
  <2> QED BY <1>0, <1>3, <2>1, <2>2
<1> DEFINE b == n * PerTurn
<1>8. CallStepsLeft = a + (b + PerTurn) + 3 + e + f /\ CallStepsLeft' = a + b + 4 + e + ff
  BY <1>5, <1>6, <1>7
<1>9. b \in Nat
  BY <1>5
<1> HIDE DEF a, b, e, f, ff
<1> QED BY <1>1, <1>4, <1>8, <1>9, PerTurnIsNat

\* An attempt pays for its turns.
LEMMA WakeIsNearer ==
  ASSUME CallInv, Wake
  PROVE  CallStepsLeft' < CallStepsLeft
<1> DEFINE n == MaxAttempts - (attempt + 1)
           e == 6 * (MaxInner - inner)
           f == Cardinality(Tickets)
<1>0. /\ TypeOK /\ inner' = inner /\ attempt' = attempt + 1 /\ Tickets' = Tickets
      /\ phase = "sleep" /\ phase' = "attempt"
  BY DEF CallInv, Wake, toolVars, Tickets
<1>1. n \in Nat /\ MaxAttempts - attempt = n + 1
  <2>1. attempt \in 1..MaxAttempts /\ attempt < MaxAttempts /\ MaxAttempts \in Nat
    BY <1>0, Limits DEF CallInv, Controlled
  <2> QED BY <2>1
<1>2. n * PerAttempt \in Nat /\ (n + 1) * PerAttempt = n * PerAttempt + PerAttempt
  BY <1>1, PerTurnIsNat, Multiples
<1>3. e \in Nat /\ f \in Nat /\ TurnsLeft * PerTurn \in Nat
  <2>1. MaxInner - inner \in Nat /\ f \in Nat /\ TurnsLeft * PerTurn \in Nat
    BY <1>0, PartsOfLeft
  <2> QED BY <2>1
<1>4. CallStepsLeft = (n + 1) * PerAttempt + TurnsLeft * PerTurn + 2 + e + f
  <2>1. PhaseRank[phase] = 2
    BY <1>0 DEF PhaseRank
  <2> QED BY <1>1, <2>1 DEF CallStepsLeft
<1>5. CallStepsLeft' = n * PerAttempt + MaxTurns * PerTurn + 4 + e + f
  <2>1. PhaseRank[phase'] = 4 /\ TurnsLeft' = MaxTurns
    BY <1>0 DEF PhaseRank, TurnsLeft
  <2>2. CallStepsLeft' = (MaxAttempts - attempt') * PerAttempt + TurnsLeft' * PerTurn
                         + PhaseRank[phase'] + 6 * (MaxInner - inner') + Cardinality(Tickets')
    BY DEF CallStepsLeft, PhaseRank, PerTurn, PerAttempt
  <2> QED BY <1>0, <2>1, <2>2
<1> DEFINE a == n * PerAttempt
           b == TurnsLeft * PerTurn
           m == MaxTurns * PerTurn
<1>6. CallStepsLeft = (a + PerAttempt) + b + 2 + e + f /\ CallStepsLeft' = a + m + 4 + e + f
  BY <1>2, <1>4, <1>5
<1>7. a \in Nat /\ b \in Nat /\ m \in Nat /\ PerAttempt = m + 3
  BY <1>2, <1>3, PerTurnIsNat
<1> HIDE DEF a, b, m, e, f
<1> QED BY <1>3, <1>6, <1>7

\* What goes on in the slots: the rest stays, and a call of a specialist is paid for
\* by the bound on them.
LEMMA SlotsAreNearer ==
  ASSUME EndInv, EndInv', NEW c \in Slots, RunTool(c) \/ Orphan(c)
  PROVE  CallStepsLeft' < CallStepsLeft
<1> DEFINE a == (MaxAttempts - attempt) * PerAttempt + TurnsLeft * PerTurn + PhaseRank[phase]
           f == Cardinality(Tickets)
           ff == Cardinality(Tickets')
           e == MaxInner - inner
<1>0. /\ TypeOK /\ CallsOK /\ calls' \in [Slots -> Calls \cup {None}]
      /\ inner \in Nat /\ inner' \in Nat /\ inner' \in 0..MaxInner
  BY ToolCallsAssumption DEF EndInv, CallInv, TypeOK, ToolTypeOK, CallsOK
<1>1. phase' = phase /\ attempt' = attempt /\ turns' = turns
  BY DEF RunTool, Orphan, callOnly
<1>2. a \in Nat /\ e \in Nat /\ f \in Nat /\ CallStepsLeft = a + 6 * e + f
  <2>1. /\ (MaxAttempts - attempt) * PerAttempt \in Nat /\ TurnsLeft * PerTurn \in Nat
        /\ PhaseRank[phase] \in 0..4 /\ e \in Nat /\ f \in Nat
    BY <1>0, PartsOfLeft
  <2>2. CallStepsLeft = (MaxAttempts - attempt) * PerAttempt + TurnsLeft * PerTurn
                        + PhaseRank[phase] + 6 * e + f
    BY DEF CallStepsLeft
  <2> HIDE DEF PhaseRank, e, f
  <2> QED BY <2>1, <2>2
<1>3. CallStepsLeft' = a + 6 * (MaxInner - inner') + ff
  <2>1. TurnsLeft' = TurnsLeft
    BY <1>1 DEF TurnsLeft
  <2>2. CallStepsLeft' = (MaxAttempts - attempt') * PerAttempt + TurnsLeft' * PerTurn
                         + PhaseRank[phase'] + 6 * (MaxInner - inner') + Cardinality(Tickets')
    BY DEF CallStepsLeft, PhaseRank, PerTurn, PerAttempt
  <2> QED BY <1>1, <2>1, <2>2
<1>4. CASE /\ ThreadStep(c) \/ LoopStep(c) \/ Forgotten(c)
           /\ ~ \E d \in Slots : Delegate(c, d)
  <2>1. inner' = inner
    BY <1>4, ThreadStepFrame DEF LoopStep, OnToolStart, StartInner, OnToolEnd, EndInner,
                                 SpecialistReturns, Forgotten
  <2>2. /\ calls[c] # None /\ \A d \in Slots \ {c} : calls'[d] = calls[d]
        /\ calls'[c] # None => CallRank[calls'[c].pc] < CallRank[calls[c].pc]
    BY <1>0, <1>4, ThreadMovesOn, ThreadIsNearer, OthersMove, OthersAreNearer
  <2>3. ff \in Nat /\ ff < f
    BY <1>0, <2>2, TicketIsGivenUp
  <2>4. CallStepsLeft' = a + 6 * e + ff
    BY <1>3, <2>1
  <2> HIDE DEF a, e, f, ff
  <2> QED BY <1>2, <2>3, <2>4
<1>5. CASE \E d \in Slots : Delegate(c, d)
  <2>1. PICK d \in Slots : Delegate(c, d)
    BY <1>5
  <2>2. ff \in Nat /\ ff <= f + 5
    BY <1>0, <2>1, DelegationCosts
  <2>3. inner' = inner + 1
    BY <2>1 DEF Delegate
  <2>4. CallStepsLeft' = a + 6 * (MaxInner - (inner + 1)) + ff
    BY <1>3, <2>3
  <2>5. MaxInner - (inner + 1) \in Nat /\ MaxInner - (inner + 1) = e - 1
    BY <1>0, <2>3, ToolCallsAssumption
  <2>6. CallStepsLeft' = a + 6 * (e - 1) + ff
    BY <2>4, <2>5
  <2> HIDE DEF a, e, f, ff
  <2> QED BY <1>2, <2>2, <2>6
<1> QED BY <1>4, <1>5 DEF RunTool, Orphan, ToolStep

\* An agent call takes at most (MaxAttempts - 1) * PerAttempt + MaxTurns * PerTurn + 4
\* + 6 * MaxInner steps, of its own and of its threads: each brings it nearer to its
\* end, also those that retry, delegate or cut it off.
CallBound == (MaxAttempts - 1) * PerAttempt + MaxTurns * PerTurn + 4 + 6 * MaxInner

THEOREM CallIsBounded ==
  Spec => /\ [](CallStepsLeft \in Nat)
          /\ [][/\ Invoke => CallStepsLeft' = CallBound
                /\ Step \/ TimeOut => CallStepsLeft' < CallStepsLeft]_vars
<1> DEFINE Counted == CallStepsLeft \in Nat
           Closer == /\ Invoke => CallStepsLeft' = CallBound
                     /\ Step \/ TimeOut => CallStepsLeft' < CallStepsLeft
<1>1. EndInv => Counted
  BY PartsOfLeft DEF EndInv, CallInv
<1>2. ASSUME Invoke PROVE CallStepsLeft' = CallBound
  <2>1. /\ phase' = "attempt" /\ attempt' = 1 /\ inner' = 0
        /\ \A c \in Slots : calls'[c] = None
    BY <1>2 DEF Invoke, ToolsReset
  <2>2. Tickets' = {}
    BY <2>1 DEF Tickets
  <2>3. Cardinality(Tickets') = 0
    BY <2>2, FS_EmptySet
  <2>4. PhaseRank[phase'] = 4 /\ TurnsLeft' = MaxTurns
    BY <2>1 DEF PhaseRank, TurnsLeft
  <2>5. CallStepsLeft' = (MaxAttempts - attempt') * PerAttempt + TurnsLeft' * PerTurn
                         + PhaseRank[phase'] + 6 * (MaxInner - inner') + Cardinality(Tickets')
    BY DEF CallStepsLeft, PhaseRank, PerTurn, PerAttempt
  <2>6. CallStepsLeft' = (MaxAttempts - 1) * PerAttempt + MaxTurns * PerTurn + 4
                         + 6 * (MaxInner - 0) + 0
    BY <2>1, <2>3, <2>4, <2>5
  <2>7. /\ (MaxAttempts - 1) * PerAttempt \in Nat /\ MaxTurns * PerTurn \in Nat
        /\ MaxInner - 0 = MaxInner /\ 6 * MaxInner \in Nat
    <3>1. MaxAttempts - 1 \in Nat /\ MaxInner \in Nat
      BY Limits, ToolCallsAssumption DEF ToolCallsAssumption
    <3> QED BY <3>1, PerTurnIsNat, Multiples
  <2> DEFINE a == (MaxAttempts - 1) * PerAttempt
             b == MaxTurns * PerTurn
  <2>8. CallStepsLeft' = a + b + 4 + 6 * MaxInner + 0 /\ a \in Nat /\ b \in Nat
        /\ 6 * MaxInner \in Nat /\ CallBound = a + b + 4 + 6 * MaxInner
    BY <2>6, <2>7 DEF CallBound
  <2> HIDE DEF a, b
  <2> QED BY <2>8
<1>3. ASSUME EndInv, EndInv', Step \/ TimeOut PROVE CallStepsLeft' < CallStepsLeft
  <2>1. CallInv /\ TypeOK'
    BY <1>3 DEF EndInv, CallInv
  <2> QED BY <1>3, <2>1, PhasesAreNearer, TurnIsNearer, WakeIsNearer, SlotsAreNearer
          DEF Step, Attempting
<1>4. EndInv /\ EndInv' /\ [Next]_vars => Closer
  BY <1>2, <1>3
<1>5. (Init => EndInv) /\ (EndInv /\ [Next]_vars => EndInv')
  BY EndInvHolds
<1> HIDE DEF Counted, Closer
<1>6. Spec => []Counted /\ [][Closer]_vars
  BY <1>1, <1>4, <1>5, PTL DEF Spec
<1> QED BY <1>6 DEF Counted, Closer
================================================================================
