---------------------------- MODULE AgentCallProofs ----------------------------
(***************************************************************************)
(* Proofs about AgentCall, for every number of slots, attempts and turns,   *)
(* every budget and every set of profiles.                                 *)
(*                                                                         *)
(* CallInv is inductive: types, the control state of the call, and when     *)
(* tool calls may be in flight.  It gives the contract of the call.         *)
(***************************************************************************)
EXTENDS AgentCall, FiniteSetTheorems, TLAPS

\* A tool has the argument its kind asks for, and no result before it ends.
Argued ==
  \A c \in Slots : calls[c] # None =>
    /\ calls[c].tool = "search_files" => calls[c].arg \in Queries
    /\ calls[c].tool \in FileTools => calls[c].arg \in Files
    /\ calls[c].pc # "ended" => calls[c].result = "none"

\* The outcome is there when the call has returned, and tools are in flight only
\* during a turn and while the call waits for what is left of one.
Controlled ==
  /\ phase = "idle" => row = "none"
  /\ phase = "returned" => row \in Outcomes
  /\ phase \notin {"idle", "returned"} => row = "started" /\ attempt \in 1..MaxAttempts
  /\ phase = "sleep" => attempt < MaxAttempts
  /\ phase \notin {"tools", "joining"} => Idle

CallInv == TypeOK /\ Argued /\ Controlled

-----------------------------------------------------------------------------
(* Types and control.                                                      *)

\* The calls in flight have their type, and their arguments.
CallsOK == calls \in [Slots -> Calls \cup {None}] /\ Argued

\* A call in flight is not the value that stands for none.
LEMMA CallIsSome == \A call \in Calls : call # None
BY NoCallAssumption

LEMMA MoveType ==
  ASSUME CallsOK, NEW c \in Slots, calls[c] # None, calls[c].pc # "ended",
         NEW pc \in {"started", "checked", "read", "written"}, Move(c, pc)
  PROVE  CallsOK'
<1>1. calls[c] \in Calls
  BY DEF CallsOK
<1>2. [calls[c] EXCEPT !.pc = pc] \in Calls
  BY <1>1 DEF Calls
<1>3. calls' \in [Slots -> Calls \cup {None}]
  BY <1>2 DEF Move, CallsOK
<1>4. Argued'
  BY <1>1, <1>2 DEF Move, CallsOK, Argued, Calls
<1>5. QED
  BY <1>3, <1>4 DEF CallsOK

LEMMA ReturnType ==
  ASSUME CallsOK, NEW c \in Slots, calls[c] # None, NEW r \in Results, Return(c, r)
  PROVE  CallsOK'
<1>1. calls[c] \in Calls
  BY DEF CallsOK
<1>2. [calls[c] EXCEPT !.pc = "ended", !.result = r] \in Calls
  BY <1>1 DEF Calls
<1>3. calls' \in [Slots -> Calls \cup {None}]
  BY <1>2 DEF Return, CallsOK
<1>4. Argued'
  BY <1>1, <1>2 DEF Return, CallsOK, Argued, Calls
<1>5. QED
  BY <1>3, <1>4 DEF CallsOK

\* A slot that is given free.
LEMMA FreeType ==
  ASSUME CallsOK, NEW c \in Slots, calls' = [calls EXCEPT ![c] = None]
  PROVE  CallsOK'
BY DEF CallsOK, Argued

\* A call that is new.
LEMMA NewCallType ==
  ASSUME NEW profile1, NEW r \in RequestsOf(profile1), NEW p \in Slots \cup {None}
  PROVE  /\ NewCall(r, p) \in Calls
         /\ NewCall(r, p).tool = "search_files" => NewCall(r, p).arg \in Queries
         /\ NewCall(r, p).tool \in FileTools => NewCall(r, p).arg \in Files
<1>1. CASE \E q \in Queries : r = <<"search_files", q>>
  BY <1>1 DEF NewCall, Calls, Tools, FileTools, EditTools, Results
<1>2. CASE \E t \in FileTools, f \in Files : r = <<t, f>>
  BY <1>2 DEF NewCall, Calls, Tools, FileTools, EditTools, Results
<1>3. CASE \E t \in {"read_file", "run_test_target", Specialist} : r = <<t, None>>
  BY <1>3 DEF NewCall, Calls, Tools, FileTools, EditTools, Results, Specialist
<1>4. QED
  BY <1>1, <1>2, <1>3 DEF RequestsOf, Requests

\* What a step of a thread leaves alone.
LEMMA ThreadStepFrame ==
  ASSUME NEW c \in Slots, ThreadStep(c)
  PROVE  UNCHANGED <<seq, starts, gathered, rows, inner, turnStart>>
BY DEF ThreadStep, CheckSearch, InvalidRegex, Search, ReadFile, ReadOriginal, RefuseEdit,
       WriteUpdated, WriteFile, CountEdit, RunTests, RefuseTests, ApplyDiff, ExecuteCommand

\* A step of a thread moves its call on, or ends it with a result.
LEMMA ThreadStepCalls ==
  ASSUME ToolTypeOK, Argued, NEW c \in Slots, ThreadStep(c)
  PROVE  CallsOK'
<1>0. CallsOK
  BY DEF CallsOK, ToolTypeOK
<1>1. CASE ReadOriginal(c)
  <2>1. calls[c] # None /\ calls[c] \in Calls /\ calls[c].arg \in Files /\ calls[c].pc = "started"
    BY <1>0, <1>1 DEF ReadOriginal, At, CallsOK, Argued, FileTools, EditTools
  <2>2. files[calls[c].arg] \in SUBSET Nat
    BY <2>1 DEF ToolTypeOK
  <2>3. [calls[c] EXCEPT !.pc = "read", !.base = files[calls[c].arg]] \in Calls
    BY <2>1, <2>2 DEF Calls
  <2>4. calls' \in [Slots -> Calls \cup {None}]
    BY <1>0, <1>1, <2>3 DEF ReadOriginal, CallsOK
  <2>5. /\ calls'[c].tool = calls[c].tool /\ calls'[c].arg = calls[c].arg
        /\ calls'[c].result = calls[c].result /\ calls[c].result = "none"
        /\ \A d \in Slots \ {c} : calls'[d] = calls[d]
    <3>1. calls' = [calls EXCEPT ![c] =
                      [calls[c] EXCEPT !.pc = "read", !.base = files[calls[c].arg]]]
      BY <1>0, <1>1 DEF ReadOriginal, CallsOK
    <3>2. calls[c].result = "none"
      BY <1>0, <2>1 DEF CallsOK, Argued
    <3>3. QED
      BY <1>0, <2>1, <3>1, <3>2 DEF CallsOK, Calls
  <2>7. Argued'
    BY <1>0, <2>1, <2>5 DEF CallsOK, Argued
  <2>6. QED
    BY <2>4, <2>7 DEF CallsOK
<1>2. CASE WriteUpdated(c) \/ WriteFile(c)
  <2>1. calls[c] # None /\ calls[c].pc # "ended" /\ Move(c, "written")
    BY <1>2 DEF WriteUpdated, WriteFile, At
  <2>2. QED
    BY <1>0, <2>1, MoveType
<1>3. CASE CheckSearch(c) /\ Move(c, "checked")
  <2>1. calls[c] # None /\ calls[c].pc # "ended"
    BY <1>3 DEF CheckSearch, At
  <2>2. QED
    BY <1>0, <1>3, <2>1, MoveType
<1>4. CASE \E r \in Results : calls[c] # None /\ Return(c, r)
  BY <1>0, <1>4, ReturnType
<1>5. QED
  <2>1. CASE CheckSearch(c)
    BY <1>3, <1>4, <2>1 DEF CheckSearch, At, Results
  <2>2. CASE \/ InvalidRegex(c) \/ Search(c) \/ ReadFile(c) \/ RefuseEdit(c) \/ CountEdit(c)
             \/ RunTests(c) \/ RefuseTests(c) \/ ApplyDiff(c) \/ ExecuteCommand(c)
    BY <1>4, <2>2 DEF InvalidRegex, Search, ReadFile, RefuseEdit, CountEdit, RunTests,
                      RefuseTests, ApplyDiff, ExecuteCommand, At, Results
  <2>3. QED
    BY <1>1, <1>2, <2>1, <2>2 DEF ThreadStep

\* The counters of the context stay counters.
LEMMA ThreadStepContext ==
  ASSUME ToolTypeOK, Argued, NEW c \in Slots, ThreadStep(c)
  PROVE  ctx' \in Contexts
<1>0. ctx \in Contexts /\ seq \in Nat
  BY DEF ToolTypeOK
<1>1. CASE Search(c)
  <2>1. calls[c].arg \in Queries
    BY <1>1 DEF Search, At, Argued
  <2>2. [ctx.seen EXCEPT ![calls[c].arg] = seq] \in [Queries -> Nat \cup {None}]
    BY <1>0, <2>1 DEF Contexts
  <2>3. ctx' = [ctx EXCEPT !.seen = [ctx.seen EXCEPT ![calls[c].arg] = seq],
                           !.searches = ctx.searches + 1]
    BY <1>0, <1>1 DEF Search, Contexts
  <2>4. ctx.edits \in Nat /\ ctx.probes \in {0, 1} /\ ctx.searches + 1 \in Nat
    BY <1>0 DEF Contexts
  <2>5. /\ ctx'.seen = [ctx.seen EXCEPT ![calls[c].arg] = seq]
        /\ ctx'.searches = ctx.searches + 1
        /\ ctx'.edits = ctx.edits /\ ctx'.probes = ctx.probes
    BY <1>0, <2>3 DEF Contexts
  <2>6. QED
    BY <1>0, <2>2, <2>3, <2>4, <2>5 DEF Contexts
<1>2. CASE CountEdit(c)
  BY <1>0, <1>2 DEF CountEdit, Contexts
<1>3. CASE RunTests(c)
  <2>1. ctx.probes \in {0, 1} /\ ctx.edits \in Nat /\ (ctx.edits > 0 \/ ctx.probes = 0)
    BY <1>0, <1>3 DEF RunTests, Probing, Contexts
  <2>2. QED
    BY <1>0, <1>3, <2>1 DEF RunTests, Contexts
<1>4. QED
  BY <1>0, <1>1, <1>2, <1>3
  DEF ThreadStep, CheckSearch, InvalidRegex, ReadFile, ReadOriginal, RefuseEdit,
      WriteUpdated, WriteFile, RefuseTests, ApplyDiff, ExecuteCommand

\* An edit puts edits into a file.
LEMMA ThreadStepFiles ==
  ASSUME ToolTypeOK, Argued, NEW c \in Slots, ThreadStep(c)
  PROVE  files' \in [Files -> SUBSET Nat]
<1>0. files \in [Files -> SUBSET Nat] /\ calls \in [Slots -> Calls \cup {None}]
  BY DEF ToolTypeOK
<1>1. CASE WriteUpdated(c) \/ ApplyDiff(c)
  <2>1. calls[c] \in Calls
    BY <1>0, <1>1 DEF WriteUpdated, ApplyDiff, At
  <2>2. calls[c].base \cup {calls[c].id} \in SUBSET Nat
    BY <2>1 DEF Calls
  <2>3. QED
    BY <1>0, <1>1, <2>2 DEF WriteUpdated, ApplyDiff
<1>2. CASE WriteFile(c) \/ ExecuteCommand(c)
  <2>1. calls[c] \in Calls
    BY <1>0, <1>2 DEF WriteFile, ExecuteCommand, At
  <2>2. {calls[c].id} \in SUBSET Nat
    BY <2>1 DEF Calls
  <2>3. QED
    BY <1>0, <1>2, <2>2 DEF WriteFile, ExecuteCommand
<1>3. QED
  BY <1>0, <1>1, <1>2
  DEF ThreadStep, CheckSearch, InvalidRegex, Search, ReadFile, ReadOriginal, RefuseEdit,
      CountEdit, RunTests, RefuseTests

LEMMA ThreadStepType ==
  ASSUME ToolTypeOK, Argued, NEW c \in Slots, ThreadStep(c)
  PROVE  ToolTypeOK' /\ Argued'
BY ThreadStepFrame, ThreadStepCalls, ThreadStepContext, ThreadStepFiles
DEF ToolTypeOK, CallsOK
LEMMA OnToolStartType ==
  ASSUME ToolTypeOK, Argued, NEW c \in Slots, OnToolStart(c)
  PROVE  ToolTypeOK' /\ Argued'
<1>1. calls[c] # None /\ calls[c] \in Calls /\ calls[c].pc = "requested" /\ calls[c].tool \in Tools
      /\ calls[c].result = "none" /\ seq \in Nat
  BY DEF OnToolStart, ToolTypeOK, Calls, Argued
<1>2. [calls[c] EXCEPT !.pc = "started", !.id = seq + 1] \in Calls
  <2>1. seq + 1 \in Nat
    BY <1>1
  <2>2. \A n \in Nat : [calls[c] EXCEPT !.pc = "started", !.id = n] \in Calls
    BY <1>1 DEF Calls
  <2>3. QED
    BY <2>1, <2>2
<1>3. calls' = [calls EXCEPT ![c] = [calls[c] EXCEPT !.pc = "started", !.id = seq + 1]]
  BY DEF OnToolStart, ToolTypeOK
<1>4. calls' \in [Slots -> Calls \cup {None}]
  BY <1>2, <1>3 DEF ToolTypeOK
<1>5. /\ calls'[c].tool = calls[c].tool /\ calls'[c].arg = calls[c].arg
      /\ calls'[c].result = "none" /\ \A d \in Slots \ {c} : calls'[d] = calls[d]
  BY <1>1, <1>3 DEF ToolTypeOK, Calls
<1>6. Argued'
  BY <1>1, <1>5 DEF Argued
<1>7. Append(starts[calls[c].tool], seq + 1) \in Seq(Nat)
  BY <1>1 DEF ToolTypeOK
<1>8. starts' \in [Tools -> Seq(Nat)]
  BY <1>1, <1>7 DEF OnToolStart, ToolTypeOK
<1>9. seq' \in Nat /\ UNCHANGED <<ctx, gathered, rows, files, inner, turnStart>>
  BY <1>1 DEF OnToolStart
<1>10. QED
  BY <1>4, <1>6, <1>8, <1>9 DEF ToolTypeOK

LEMMA OnToolEndType ==
  ASSUME ToolTypeOK, Argued, NEW c \in Slots, OnToolEnd(c)
  PROVE  ToolTypeOK' /\ Argued'
<1>1. calls[c] \in Calls /\ calls[c].tool \in Tools /\ calls[c].id \in Nat
  BY DEF OnToolEnd, ToolTypeOK, Calls
<1>2. CallsOK'
  BY FreeType DEF OnToolEnd, CallsOK, ToolTypeOK
<1>3. starts[calls[c].tool] \in Seq(Nat) /\ seq \in Nat
  BY <1>1 DEF ToolTypeOK
<1>4. starts[calls[c].tool] # <<>> =>
        Head(starts[calls[c].tool]) \in Nat /\ Tail(starts[calls[c].tool]) \in Seq(Nat)
  BY <1>3
<1>5. starts' \in [Tools -> Seq(Nat)]
  BY <1>1, <1>4 DEF OnToolEnd, ToolTypeOK
<1>6. rows' \subseteq Nat
  BY <1>3, <1>4 DEF OnToolEnd, ToolTypeOK
<1>7. gathered' \subseteq Nat
  BY <1>1 DEF OnToolEnd, ToolTypeOK
<1>8. UNCHANGED <<ctx, seq, files, inner, turnStart>>
  BY DEF OnToolEnd
<1>9. QED
  BY <1>2, <1>5, <1>6, <1>7, <1>8 DEF ToolTypeOK, CallsOK

LEMMA DelegateType ==
  ASSUME ToolTypeOK, Argued, NEW p \in Slots, NEW c \in Slots, Delegate(p, c)
  PROVE  ToolTypeOK' /\ Argued'
<1>1. PICK r \in InnerRequests : calls' = [calls EXCEPT ![c] = NewCall(r, p)]
  BY DEF Delegate
<1>2. /\ NewCall(r, p) \in Calls
      /\ NewCall(r, p).tool = "search_files" => NewCall(r, p).arg \in Queries
      /\ NewCall(r, p).tool \in FileTools => NewCall(r, p).arg \in Files
  BY NewCallType DEF InnerRequests
<1>3. NewCall(r, p).result = "none"
  BY DEF NewCall
<1>4. calls' \in [Slots -> Calls \cup {None}] /\ Argued'
  <2>1. calls' \in [Slots -> Calls \cup {None}]
    BY <1>1, <1>2 DEF ToolTypeOK
  <2>2. \A d \in Slots : calls'[d] = IF d = c THEN NewCall(r, p) ELSE calls[d]
    BY <1>1 DEF ToolTypeOK
  <2>3. Argued'
    BY <1>2, <1>3, <2>2 DEF Argued
  <2>4. QED
    BY <2>1, <2>3
<1>5. inner' \in 0..MaxInner
  BY ToolCallsAssumption DEF Delegate, ToolTypeOK, ToolCallsAssumption
<1>6. QED
  BY <1>4, <1>5 DEF Delegate, ToolTypeOK

LEMMA LoopStepType ==
  ASSUME ToolTypeOK, Argued, NEW c \in Slots, LoopStep(c)
  PROVE  ToolTypeOK' /\ Argued'
<1>0. CallsOK
  BY DEF CallsOK, ToolTypeOK
<1>1. CASE StartInner(c)
  <2>1. CallsOK'
    BY <1>0, <1>1, MoveType DEF StartInner
  <2>2. QED
    BY <1>1, <2>1 DEF StartInner, ToolTypeOK, CallsOK
<1>2. CASE EndInner(c)
  <2>1. CallsOK'
    BY <1>0, <1>2, FreeType DEF EndInner
  <2>2. QED
    BY <1>2, <2>1 DEF EndInner, ToolTypeOK, CallsOK
<1>3. CASE SpecialistReturns(c)
  <2>1. CallsOK'
    BY <1>0, <1>3, ReturnType DEF SpecialistReturns, At, Results
  <2>2. QED
    BY <1>3, <2>1 DEF SpecialistReturns, ToolTypeOK, CallsOK
<1>4. QED
  BY <1>1, <1>2, <1>3, OnToolStartType, OnToolEndType, DelegateType DEF LoopStep

LEMMA ToolStepType ==
  ASSUME ToolTypeOK, Argued, NEW c \in Slots, ToolStep(c)
  PROVE  ToolTypeOK' /\ Argued'
BY ThreadStepType, LoopStepType DEF ToolStep

LEMMA ForgottenType ==
  ASSUME ToolTypeOK, Argued, NEW c \in Slots, Forgotten(c)
  PROVE  ToolTypeOK' /\ Argued'
<1>1. CallsOK'
  BY FreeType DEF Forgotten, CallsOK, ToolTypeOK
<1>2. QED
  BY <1>1 DEF Forgotten, ToolTypeOK, CallsOK

LEMMA AbandonType ==
  ASSUME ToolTypeOK, Argued, Abandon
  PROVE  ToolTypeOK' /\ Argued'
<1>1. \A c \in Slots : calls'[c] = None \/ calls'[c] = calls[c]
  BY DEF Abandon
<1>2. calls' \in [Slots -> Calls \cup {None}]
  BY DEF Abandon, ToolTypeOK
<1>3. Argued'
  BY <1>1 DEF Argued
<1>4. QED
  BY <1>2, <1>3 DEF Abandon, ToolTypeOK

LEMMA BeginTurnType ==
  ASSUME ToolTypeOK, NEW S \in SUBSET Slots, NEW wanted \in [S -> RequestsOf(profile)],
         BeginTurn(wanted)
  PROVE  ToolTypeOK' /\ Argued'
<1>1. \A c \in Slots : calls'[c] = IF c \in S THEN NewCall(wanted[c], None) ELSE None
  BY DEF BeginTurn
<1>2. \A c \in S : wanted[c] \in RequestsOf(profile)
  OBVIOUS
<1>3. \A c \in S :
        /\ NewCall(wanted[c], None) \in Calls
        /\ NewCall(wanted[c], None).tool = "search_files" => NewCall(wanted[c], None).arg \in Queries
        /\ NewCall(wanted[c], None).tool \in FileTools =>
             NewCall(wanted[c], None).arg \in Files
        /\ NewCall(wanted[c], None).result = "none"
  BY <1>2, NewCallType DEF NewCall
<1>4. calls' \in [Slots -> Calls \cup {None}]
  BY <1>3 DEF BeginTurn
<1>5. Argued'
  BY <1>1, <1>3 DEF Argued
<1>6. QED
  BY <1>4, <1>5 DEF BeginTurn, ToolTypeOK

LEMMA FreshContextType == FreshContext \in Contexts
BY DEF FreshContext, Contexts

LEMMA ToolsResetType ==
  ASSUME ToolsReset
  PROVE  ToolTypeOK' /\ Argued' /\ Idle'
BY FreshContextType, ToolCallsAssumption
DEF ToolsReset, ToolTypeOK, Argued, Idle, ToolCallsAssumption

LEMMA ToolsInitType ==
  ASSUME ToolsInit
  PROVE  ToolTypeOK /\ Argued /\ Idle
BY FreshContextType, ToolCallsAssumption
DEF ToolsInit, ToolTypeOK, Argued, Idle, ToolCallsAssumption
-----------------------------------------------------------------------------
(* The call.                                                               *)

\* The attempts and turns are bounded.
LEMMA Limits == MaxAttempts \in Nat \ {0} /\ MaxTurns \in Nat \ {0}
BY AgentCallAssumption DEF AgentCallAssumption

\* A row of provider_calls.
LEMMA EventType ==
  ASSUME attempt \in 1..MaxAttempts, NEW type \in EventTypes, NEW rerun \in BOOLEAN
  PROVE  Event(type, rerun) \in Events
BY DEF Event, Events

LEMMA OneEvent == \A e \in Events : <<e>> \in Seq(Events)
OBVIOUS

\* Only a call that is in flight steps on a thread.
LEMMA ThreadIsInFlight ==
  ASSUME NEW c \in Slots, ThreadStep(c) \/ Forgotten(c)
  PROVE  calls[c] # None
BY DEF ThreadStep, CheckSearch, InvalidRegex, Search, ReadFile, ReadOriginal, RefuseEdit,
       WriteUpdated, WriteFile, CountEdit, RunTests, RefuseTests, ApplyDiff, ExecuteCommand,
       Forgotten, At

\* What the call keeps of its own, apart from the tools.
OwnTypeOK ==
  /\ phase \in Phases /\ profile \in Profiles \cup {{}}
  /\ attempt \in 0..MaxAttempts /\ turns \in 0..MaxTurns
  /\ accumulated \subseteq Nat /\ recovery \subseteq Nat
  /\ events \in Seq(Events)
  /\ row \in Outcomes \cup {"none", "started"}
  /\ attemptStart \in Nat /\ lastStart \in Nat

LEMMA TypeParts == TypeOK <=> ToolTypeOK /\ OwnTypeOK
BY DEF TypeOK, OwnTypeOK

LEMMA CallInvInit == Init => CallInv
<1> SUFFICES ASSUME Init PROVE CallInv
  OBVIOUS
<1>1. ToolTypeOK /\ Argued /\ Idle
  BY ToolsInitType DEF Init
<1>2. OwnTypeOK
  BY Limits DEF Init, OwnTypeOK, Phases
<1>3. Controlled
  BY <1>1 DEF Init, Controlled
<1>4. QED
  BY <1>1, <1>2, <1>3, TypeParts DEF CallInv

LEMMA InvokeKeeps ==
  ASSUME CallInv, Invoke
  PROVE  CallInv'
<1>1. ToolTypeOK' /\ Argued' /\ Idle'
  BY ToolsResetType DEF Invoke
<1>2. OwnTypeOK'
  BY Limits DEF Invoke, OwnTypeOK, Phases
<1>3. Controlled'
  BY <1>1, Limits DEF Invoke, Controlled
<1>4. QED
  BY <1>1, <1>2, <1>3, TypeParts DEF CallInv, TypeOK, OwnTypeOK

\* Steps that leave the tools alone.
LEMMA SameTools ==
  ASSUME CallInv, UNCHANGED <<ctx, seq, starts, rows, calls, files, inner, turnStart>>,
         gathered' \subseteq gathered
  PROVE  ToolTypeOK' /\ Argued' /\ (Idle => Idle')
<1>1. ToolTypeOK'
  BY DEF CallInv, TypeOK, ToolTypeOK
<1>2. Argued' /\ (Idle => Idle')
  BY DEF CallInv, Argued, Idle
<1>3. QED
  BY <1>1, <1>2

LEMMA BeginAttemptKeeps ==
  ASSUME CallInv, BeginAttempt
  PROVE  CallInv'
<1>1. ToolTypeOK' /\ Argued' /\ (Idle => Idle')
  BY SameTools DEF BeginAttempt
<1>2. OwnTypeOK'
  BY Limits DEF BeginAttempt, OwnTypeOK, Phases, CallInv, TypeOK, ToolTypeOK
<1>3. Controlled'
  BY <1>1 DEF BeginAttempt, Controlled, CallInv
<1>4. QED
  BY <1>1, <1>2, <1>3 DEF CallInv, TypeOK, OwnTypeOK

\* The call is closed, from a phase in which no tool is in flight.
LEMMA CloseKeeps ==
  ASSUME CallInv, NEW outcome \in Outcomes, NEW told \in Seq(Events), Close(outcome, told),
         Idle
  PROVE  CallInv'
<1>1. ToolTypeOK' /\ Argued' /\ (Idle => Idle')
  BY SameTools DEF Close, toolVars
<1>2. events' \in Seq(Events)
  BY DEF Close, CallInv, TypeOK
<1>3. OwnTypeOK'
  BY <1>2 DEF Close, OwnTypeOK, Phases, CallInv, TypeOK
<1>4. Controlled'
  BY <1>1 DEF Close, Controlled, CallInv
<1>5. QED
  BY <1>1, <1>3, <1>4 DEF CallInv, TypeOK, OwnTypeOK

LEMMA EndsKeep ==
  ASSUME CallInv,
         \/ Answer \/ MaxTurnsExceeded \/ ModelBehaviorError \/ NonRetryable
         \/ RetriesExhausted \/ Join
  PROVE  CallInv'
<1>1. Idle
  BY DEF CallInv, Controlled, Answer, MaxTurnsExceeded, ModelBehaviorError, NonRetryable,
         RetriesExhausted, Join, AsksModel
<1>5. phase \notin {"idle", "returned"}
  BY DEF Answer, MaxTurnsExceeded, ModelBehaviorError, NonRetryable, RetriesExhausted, Join,
         AsksModel
<1>0. attempt \in 1..MaxAttempts
  BY <1>5 DEF CallInv, Controlled
<1>2. \A type \in EventTypes : <<Event(type, TRUE)>> \in Seq(Events)
  BY <1>0, EventType, OneEvent
<1>4. <<>> \in Seq(Events)
  OBVIOUS
<1>3. RetrySucceeded \in Seq(Events)
  <2>1. <<Event("retry_succeeded", TRUE)>> \in Seq(Events)
    BY <1>2, Zenon DEF EventTypes
  <2>2. QED
    BY <1>4, <2>1, Zenon DEF RetrySucceeded
<1>6. \E outcome \in Outcomes, told \in Seq(Events) : Close(outcome, told)
  <2>1. CASE Answer
    BY <1>3, <2>1 DEF Answer, Outcomes
  <2>2. CASE MaxTurnsExceeded
    BY <1>3, <2>2 DEF MaxTurnsExceeded, Outcomes, Statuses
  <2>3. CASE ModelBehaviorError \/ Join
    BY <1>4, <2>3 DEF ModelBehaviorError, Join, Outcomes, Statuses
  <2>4. CASE NonRetryable \/ RetriesExhausted
    BY <1>2, <2>4 DEF NonRetryable, RetriesExhausted, Outcomes, EventTypes
  <2>5. QED
    BY <2>1, <2>2, <2>3, <2>4
<1>7. QED
  BY <1>1, <1>6, CloseKeeps

LEMMA WaitKeeps ==
  ASSUME CallInv, ScheduleRetry \/ Wake
  PROVE  CallInv'
<1>1. ToolTypeOK' /\ Argued' /\ (Idle => Idle')
  BY SameTools DEF ScheduleRetry, Wake, toolVars
<1>2. Idle
  BY DEF CallInv, Controlled, ScheduleRetry, Wake, AsksModel
<1>3. CASE ScheduleRetry
  <2>1. phase = "model" /\ attempt \in 1..MaxAttempts
    BY <1>3 DEF ScheduleRetry, AsksModel, CallInv, Controlled
  <2>2. Event("retryable_failure", TRUE) \in Events
    BY <2>1, EventType DEF EventTypes
  <2>7. Event("retry_scheduled", gathered = {}) \in Events
    <3>1. (gathered = {}) \in BOOLEAN
      OBVIOUS
    <3>2. QED
      BY <2>1, <3>1 DEF EventTypes, Event, Events
  <2>3. events' \in Seq(Events)
    <3>1. \A e, f \in Events : <<e, f>> \in Seq(Events)
      OBVIOUS
    <3>2. <<Event("retryable_failure", TRUE), Event("retry_scheduled", gathered = {})>>
            \in Seq(Events)
      BY <2>2, <2>7, <3>1
    <3>3. events \in Seq(Events)
      BY DEF CallInv, TypeOK
    <3>4. QED
      <4>1. \A s, u \in Seq(Events) : s \o u \in Seq(Events)
        OBVIOUS
      <4>2. QED
        BY <1>3, <3>2, <3>3, <4>1, Zenon DEF ScheduleRetry
  <2>4. OwnTypeOK'
    BY <1>3, <2>3 DEF ScheduleRetry, OwnTypeOK, Phases, CallInv, TypeOK, ToolTypeOK
  <2>5. Controlled'
    BY <1>1, <1>2, <1>3, <2>1 DEF ScheduleRetry, Controlled, CallInv
  <2>6. QED
    BY <1>1, <2>4, <2>5 DEF CallInv, TypeOK, OwnTypeOK
<1>4. CASE Wake
  <2>1. attempt \in 1..MaxAttempts /\ attempt < MaxAttempts
    BY <1>4 DEF Wake, CallInv, Controlled
  <2>2. attempt' \in 1..MaxAttempts
    BY <1>4, <2>1, Limits DEF Wake
  <2>3. OwnTypeOK'
    BY <1>4, <2>2, Limits DEF Wake, OwnTypeOK, Phases, CallInv, TypeOK
  <2>4. Controlled'
    BY <1>1, <1>2, <1>4, <2>2 DEF Wake, Controlled, CallInv
  <2>5. QED
    BY <1>1, <2>3, <2>4 DEF CallInv, TypeOK, OwnTypeOK
<1>5. QED
  BY <1>3, <1>4

LEMMA TurnsKeep ==
  ASSUME CallInv, RequestTools \/ EndTurn \/ \E c \in Slots : RunTool(c)
  PROVE  CallInv'
<1>1. CASE RequestTools
  <2>1. PICK S \in SUBSET Slots \ {{}} : \E wanted \in [S -> RequestsOf(profile)] : BeginTurn(wanted)
    BY <1>1 DEF RequestTools
  <2>2. ToolTypeOK' /\ Argued'
    BY <2>1, BeginTurnType DEF CallInv, TypeOK
  <2>3. OwnTypeOK'
    BY <1>1, Limits DEF RequestTools, AsksModel, OwnTypeOK, Phases, CallInv, TypeOK
  <2>4. Controlled'
    BY <1>1 DEF RequestTools, AsksModel, Controlled, CallInv
  <2>5. QED
    BY <2>2, <2>3, <2>4 DEF CallInv, TypeOK, OwnTypeOK
<1>2. CASE EndTurn
  <2>1. ToolTypeOK' /\ Argued' /\ (Idle => Idle')
    BY <1>2, SameTools DEF EndTurn, toolVars
  <2>2. OwnTypeOK'
    BY <1>2 DEF EndTurn, OwnTypeOK, Phases, CallInv, TypeOK
  <2>3. Controlled'
    BY <1>2, <2>1 DEF EndTurn, Controlled, CallInv
  <2>4. QED
    BY <2>1, <2>2, <2>3 DEF CallInv, TypeOK, OwnTypeOK
<1>3. CASE \E c \in Slots : RunTool(c)
  <2>1. ToolTypeOK' /\ Argued'
    BY <1>3, ToolStepType DEF RunTool, CallInv, TypeOK
  <2>2. OwnTypeOK'
    BY <1>3 DEF RunTool, OwnTypeOK, CallInv, TypeOK
  <2>3. Controlled'
    BY <1>3 DEF RunTool, Controlled, CallInv
  <2>4. QED
    BY <2>1, <2>2, <2>3 DEF CallInv, TypeOK, OwnTypeOK
<1>4. QED
  BY <1>1, <1>2, <1>3

LEMMA TimeoutKeeps ==
  ASSUME CallInv, TimeOut
  PROVE  CallInv'
<1>1. ToolTypeOK' /\ Argued'
  BY AbandonType DEF TimeOut, CallInv, TypeOK
<1>2. OwnTypeOK'
  BY DEF TimeOut, OwnTypeOK, Phases, CallInv, TypeOK
<1>3. Controlled'
  BY DEF TimeOut, Controlled, CallInv
<1>4. QED
  BY <1>1, <1>2, <1>3 DEF CallInv, TypeOK, OwnTypeOK

\* A thread is left behind only while the call waits for it.
LEMMA OrphanIsJoined ==
  ASSUME CallInv, NEW c \in Slots, Orphan(c)
  PROVE  phase = "joining"
BY ThreadIsInFlight DEF Orphan, CallInv, Controlled, Idle

LEMMA OrphanKeeps ==
  ASSUME CallInv, NEW c \in Slots, Orphan(c)
  PROVE  CallInv'
<1>1. ToolTypeOK' /\ Argued'
  BY ThreadStepType, ForgottenType DEF Orphan, CallInv, TypeOK
<1>2. OwnTypeOK'
  BY DEF Orphan, callOnly, OwnTypeOK, CallInv, TypeOK
<1>3. Controlled'
  BY OrphanIsJoined DEF Orphan, callOnly, Controlled, CallInv
<1>4. QED
  BY <1>1, <1>2, <1>3 DEF CallInv, TypeOK, OwnTypeOK

LEMMA StutterKeeps ==
  ASSUME CallInv, UNCHANGED vars
  PROVE  CallInv'
BY DEF vars, toolVars, callOnly, CallInv, TypeOK, ToolTypeOK, Argued, Controlled, Idle

LEMMA CallInvNext == CallInv /\ [Next]_vars => CallInv'
<1> SUFFICES ASSUME CallInv, [Next]_vars PROVE CallInv'
  OBVIOUS
<1>1. CASE Invoke
  BY <1>1, InvokeKeeps
<1>2. CASE BeginAttempt
  BY <1>2, BeginAttemptKeeps
<1>3. CASE RequestTools \/ EndTurn \/ \E c \in Slots : RunTool(c)
  BY <1>3, TurnsKeep
<1>4. CASE \/ Answer \/ MaxTurnsExceeded \/ ModelBehaviorError \/ NonRetryable
           \/ RetriesExhausted \/ Join
  BY <1>4, EndsKeep
<1>5. CASE ScheduleRetry \/ Wake
  BY <1>5, WaitKeeps
<1>7. CASE \E c \in Slots : Orphan(c)
  BY <1>7, OrphanKeeps
<1>8. CASE TimeOut
  BY <1>8, TimeoutKeeps
<1>9. CASE UNCHANGED vars
  BY <1>9, StutterKeeps
<1>10. QED
  BY <1>1, <1>2, <1>3, <1>4, <1>5, <1>7, <1>8, <1>9 DEF Next, Step, Attempting

\* The state of a call and of its tools has its type.
THEOREM CallTypeCorrect == Spec => []TypeOK
<1>1. Init => CallInv
  BY CallInvInit
<1>2. CallInv /\ [Next]_vars => CallInv'
  BY CallInvNext
<1>3. CallInv => TypeOK
  BY DEF CallInv
<1>4. QED
  BY <1>1, <1>2, <1>3, PTL DEF Spec
-----------------------------------------------------------------------------
(* The contract.                                                           *)

LEMMA ContractInit == Init => Called!CallInit
BY DEF Init, ToolsInit, Called!CallInit

\* One step of the call is a step of the contract.
LEMMA ContractStep ==
  ASSUME CallInv, [Next]_vars
  PROVE  [Called!Open \/ Called!Work \/ Called!Close]_(Called!callVars)
<1>1. CASE Invoke
  <2>1. row \in Outcomes \cup {"none"}
    BY <1>1 DEF Invoke, CallInv, Controlled
  <2>2. row' = "started" /\ files' = [f \in Files |-> {}]
    BY <1>1 DEF Invoke, ToolsReset
  <2>3. Called!Open
    BY <2>1, <2>2 DEF Called!Open, Outcomes, Statuses
  <2>4. QED
    BY <2>3
<1>2. CASE row = "started" /\ row' = "started"
  <2>1. Called!Work
    BY <1>2 DEF Called!Work
  <2>2. QED
    BY <2>1
<1>3. CASE row = "started" /\ row' \in Outcomes /\ files' = files
  <2>1. Called!Close
    BY <1>3 DEF Called!Close, Outcomes, Statuses
  <2>2. QED
    BY <2>1
<1>4. CASE UNCHANGED vars
  BY <1>4 DEF vars, toolVars, callOnly, Called!callVars
<1>5. CASE TimeOut \/ Step
  <2>1. row = "started"
    <3>1. CASE TimeOut \/ Attempting \/ \E c \in Slots : RunTool(c)
      BY <3>1 DEF TimeOut, Attempting, BeginAttempt, RequestTools, EndTurn, RunTool, Answer,
         MaxTurnsExceeded, ModelBehaviorError, NonRetryable, RetriesExhausted, ScheduleRetry,
         Wake, Join, AsksModel, CallInv, Controlled
    <3>2. CASE \E c \in Slots : Orphan(c)
      BY <3>2, OrphanIsJoined DEF CallInv, Controlled
    <3>3. QED
      BY <1>5, <3>1, <3>2 DEF Step
  <2>2. \/ row' = row
        \/ row' \in Outcomes /\ files' = files
    BY <1>5 DEF Step, TimeOut, Attempting, BeginAttempt, RequestTools, EndTurn, RunTool, Answer,
         MaxTurnsExceeded, ModelBehaviorError, NonRetryable, RetriesExhausted, ScheduleRetry,
         Wake, Join, Close, Orphan, callOnly, toolVars, Outcomes, Statuses
  <2>3. QED
    BY <1>2, <1>3, <2>1, <2>2
<1>6. QED
  BY <1>1, <1>4, <1>5 DEF Next

\* An agent call keeps the contract the rest of the run relies on: after the call has
\* returned, no thread it left behind touches the workspace.
THEOREM CallImplementsContract == Spec => ImplementsCallContract
<1>1. Init => Called!CallInit
  BY ContractInit
<1>2. CallInv /\ [Next]_vars => [Called!Open \/ Called!Work \/ Called!Close]_(Called!callVars)
  BY ContractStep
<1>3. Init => CallInv
  BY CallInvInit
<1>4. CallInv /\ [Next]_vars => CallInv'
  BY CallInvNext
<1>5. QED
  BY <1>1, <1>2, <1>3, <1>4, PTL DEF Spec, ImplementsCallContract, Called!CallContract
================================================================================
