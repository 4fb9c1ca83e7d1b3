------------------------------- MODULE AgentCall -------------------------------
(***************************************************************************)
(* One agent call of an iteration: AgentExecutionRunner.invoke_agent, the   *)
(* provider's attempts (llm/provider.py) with their retries, waits and     *)
(* events, and the turns of an attempt, whose tool calls are those of      *)
(* ToolCalls.  The iteration timeout cancels the event loop; asyncio.run    *)
(* waits for the threads it has started before it raises.                  *)
(*                                                                         *)
(* Abstractions.  The recovery text of a retry is the calls it tells of.   *)
(* Waits have no length.                                                   *)
(***************************************************************************)
EXTENDS ToolCalls

CONSTANTS
  MaxAttempts,  \* api_max_retries + 1
  MaxTurns,
  TimesOut,     \* there is an iteration timeout, and it may strike
  MaxCalls      \* bound: tool calls of an iteration

ASSUME AgentCallAssumption ==
  /\ MaxAttempts \in Nat \ {0} /\ MaxTurns \in Nat \ {0}
  /\ TimesOut \in BOOLEAN /\ MaxCalls \in Nat

VARIABLES
  phase,        \* where the call is
  profile,      \* the tools its agent has
  attempt,
  turns,        \* model turns of this attempt
  accumulated,  \* accumulated_context: the calls it tells of
  recovery,     \* what this attempt was told of the last one
  events,       \* rows of provider_calls
  row,          \* agent_executions.status
  attemptStart, lastStart  \* seq when this attempt and the one before began

callOnly == <<phase, profile, attempt, turns, accumulated, recovery, events, row,
              attemptStart, lastStart>>
vars == <<toolVars, callOnly>>

-----------------------------------------------------------------------------
Phases == {"idle", "attempt", "model", "tools", "sleep", "joining", "returned"}

Statuses == {"done", "in_progress", "stuck"}
Outcomes == Statuses \cup {"timed_out", "failed"}

EventTypes ==
  {"retry_succeeded", "non_retryable_failure", "retries_exhausted",
   "retryable_failure", "retry_scheduled"}

\* rerun: rerun_full_runner, TRUE unless a recovery text goes with the retry.
Event(type, rerun) == [type |-> type, attempt |-> attempt, rerun |-> rerun]
Events == [type : EventTypes, attempt : 1..MaxAttempts, rerun : BOOLEAN]

Init ==
  /\ ToolsInit
  /\ phase = "idle" /\ profile = {} /\ attempt = 0 /\ turns = 0
  /\ accumulated = {} /\ recovery = {}
  /\ events = <<>> /\ row = "none"
  /\ attemptStart = 0 /\ lastStart = 0

\* The next iteration resets the tool context and opens an execution of its own.
Invoke ==
  /\ phase \in {"idle", "returned"}
  /\ ToolsReset
  /\ profile' \in Profiles
  /\ phase' = "attempt" /\ attempt' = 1 /\ turns' = 0
  /\ accumulated' = {} /\ recovery' = {}
  /\ events' = <<>> /\ row' = "started"
  /\ attemptStart' = 0 /\ lastStart' = 0

BeginAttemptKeepsSnapshot ==
  /\ phase = "attempt"
  /\ recovery' = IF attempt > 1 THEN accumulated ELSE {}
  /\ phase' = "model" /\ turns' = 0
  /\ attemptStart' = seq /\ lastStart' = attemptStart
  /\ UNCHANGED <<ctx, seq, starts, gathered, rows, calls, files, inner, turnStart>>
  /\ UNCHANGED <<profile, attempt, accumulated, events, row>>

BeginAttempt ==
  /\ phase = "attempt"
  /\ recovery' = IF attempt > 1 THEN accumulated ELSE {}
  /\ gathered' = {}
  /\ phase' = "model" /\ turns' = 0
  /\ attemptStart' = seq /\ lastStart' = attemptStart
  /\ UNCHANGED <<ctx, seq, starts, rows, calls, files, inner, turnStart>>
  /\ UNCHANGED <<profile, attempt, accumulated, events, row>>

-----------------------------------------------------------------------------
(* The turns of an attempt (the SDK's Runner.run).                         *)

AsksModel == phase = "model" /\ turns < MaxTurns

RequestTools ==
  /\ AsksModel
  /\ \E S \in SUBSET Slots \ {{}} :
       /\ seq + Cardinality(S) <= MaxCalls
       /\ \E wanted \in [S -> RequestsOf(profile)] : BeginTurn(wanted)
  /\ phase' = "tools" /\ turns' = turns + 1
  /\ UNCHANGED <<profile, attempt, accumulated, recovery, events, row,
                 attemptStart, lastStart>>

\* The model is asked again when all calls of the turn have ended.
EndTurn ==
  /\ phase = "tools" /\ Idle
  /\ phase' = "model"
  /\ UNCHANGED <<toolVars, profile, attempt, turns, accumulated, recovery, events, row,
                 attemptStart, lastStart>>

RunTool(c) ==
  /\ phase = "tools"
  /\ ToolStep(c)
  /\ UNCHANGED <<phase, profile, attempt, turns, accumulated, recovery, events, row,
                 attemptStart, lastStart>>

-----------------------------------------------------------------------------
(* How an attempt ends.                                                    *)

Close(outcome, told) ==
  /\ phase' = "returned" /\ row' = outcome /\ events' = events \o told
  /\ UNCHANGED <<toolVars, profile, attempt, turns, accumulated, recovery,
                 attemptStart, lastStart>>

RetrySucceeded ==
  IF attempt > 1 THEN <<Event("retry_succeeded", TRUE)>> ELSE <<>>

\* A proposal, or text that is taken for one; or output that cannot be read at all.
Answer ==
  /\ AsksModel
  /\ \E status \in Statuses \cup {"failed"} : Close(status, RetrySucceeded)

\* Out of turns: the handler answers "done" in the model's place.
MaxTurnsExceeded ==
  /\ phase = "model" /\ turns = MaxTurns
  /\ Close("done", RetrySucceeded)

\* Output that does not match the schema counts as "done", without an event.
ModelBehaviorError ==
  /\ AsksModel
  /\ Close("done", <<>>)

NonRetryable ==
  /\ AsksModel
  /\ Close("failed", <<Event("non_retryable_failure", TRUE)>>)

RetriesExhausted ==
  /\ AsksModel /\ attempt = MaxAttempts
  /\ Close("failed", <<Event("retries_exhausted", TRUE)>>)

ScheduleRetryAlways ==
  /\ AsksModel
  /\ accumulated' = gathered
  /\ events' = events \o <<Event("retryable_failure", TRUE),
                           Event("retry_scheduled", gathered = {})>>
  /\ phase' = "sleep"
  /\ UNCHANGED <<toolVars, profile, attempt, turns, recovery, row, attemptStart, lastStart>>

ScheduleRetryOnly ==
  /\ AsksModel /\ attempt < MaxAttempts
  /\ accumulated' = gathered
  /\ events' = events \o <<Event("retry_scheduled", gathered = {})>>
  /\ phase' = "sleep"
  /\ UNCHANGED <<toolVars, profile, attempt, turns, recovery, row, attemptStart, lastStart>>

\* The snapshot is taken before the events, and the wait follows them.
ScheduleRetry ==
  /\ AsksModel /\ attempt < MaxAttempts
  /\ accumulated' = gathered
  /\ events' = events \o <<Event("retryable_failure", TRUE),
                           Event("retry_scheduled", gathered = {})>>
  /\ phase' = "sleep"
  /\ UNCHANGED <<toolVars, profile, attempt, turns, recovery, row, attemptStart, lastStart>>

WakeWithContext ==
  /\ phase = "sleep" /\ accumulated # {}
  /\ phase' = "attempt" /\ attempt' = attempt + 1
  /\ UNCHANGED <<toolVars, profile, turns, accumulated, recovery, events, row,
                 attemptStart, lastStart>>

Wake ==
  /\ phase = "sleep"
  /\ phase' = "attempt" /\ attempt' = attempt + 1
  /\ UNCHANGED <<toolVars, profile, turns, accumulated, recovery, events, row,
                 attemptStart, lastStart>>

-----------------------------------------------------------------------------
(* The timeout.                                                            *)

TimeOutAtOnce ==
  /\ TimesOut
  /\ phase \in {"model", "tools", "sleep"}
  /\ Abandon
  /\ phase' = "returned" /\ row' = "timed_out"
  /\ UNCHANGED <<profile, attempt, turns, accumulated, recovery, events,
                 attemptStart, lastStart>>

TimeOut ==
  /\ TimesOut
  /\ phase \in {"model", "tools", "sleep"}
  /\ Abandon
  /\ phase' = "joining"
  /\ UNCHANGED <<profile, attempt, turns, accumulated, recovery, events, row,
                 attemptStart, lastStart>>

\* A thread that is left behind, while the call waits for it or later.
Orphan(c) ==
  /\ phase \in {"joining", "returned"}
  /\ ThreadStep(c) \/ Forgotten(c)
  /\ UNCHANGED callOnly

Join ==
  /\ phase = "joining" /\ Idle
  /\ Close("timed_out", <<>>)

-----------------------------------------------------------------------------
Attempting ==
  \/ BeginAttempt \/ RequestTools \/ EndTurn
  \/ Answer \/ MaxTurnsExceeded \/ ModelBehaviorError
  \/ NonRetryable \/ RetriesExhausted \/ ScheduleRetry \/ Wake
  \/ Join

Step == Attempting \/ \E c \in Slots : RunTool(c) \/ Orphan(c)

Next == Invoke \/ Step \/ TimeOut

Spec == Init /\ [][Next]_vars

\* Requests and tools come to an end (both have timeouts of their own), and so
\* does a wait.
FairSpec == Spec /\ WF_vars(Step)

-----------------------------------------------------------------------------
TypeOK ==
  /\ ToolTypeOK
  /\ phase \in Phases /\ profile \in Profiles \cup {{}}
  /\ attempt \in 0..MaxAttempts /\ turns \in 0..MaxTurns
  /\ accumulated \subseteq Nat /\ recovery \subseteq Nat
  /\ events \in Seq(Events)
  /\ row \in Outcomes \cup {"none", "started"}
  /\ attemptStart \in Nat /\ lastStart \in Nat

\* Searches without an edit stay within the budget, up to the calls that passed the
\* guard together: search_files checks the counter before it compiles the pattern
\* and counts after it, on several threads.
SearchesWithinBudget ==
  ctx.edits = 0 => ctx.searches <= Budget + Cardinality(Slots) - 1

\* No row of tool_calls is lost, written twice or made up, in whatever order tools
\* end, attempts are retried or the call is cut off: every number on_tool_start gave
\* out is either still pending for its tool or that of one row.
Pending(t) == {starts[t][i] : i \in DOMAIN starts[t]}

EveryStartIsRecordedOnce ==
  /\ rows \cup UNION {Pending(t) : t \in Tools} = 1..seq
  /\ \A t \in Tools :
       /\ Pending(t) \cap rows = {}
       /\ \A u \in Tools \ {t} : Pending(t) \cap Pending(u) = {}
       /\ Cardinality(Pending(t)) = Len(starts[t])

\* Only a call that was cut off leaves tool calls without a row, and the attempts
\* before it none: run_agent begins an attempt when all tools of the last have ended.
OnlyACutCallLosesRows ==
  phase \notin {"tools", "joining"} /\ row # "timed_out" => rows = 1..seq

\* Tests run over a workspace with an edit in it, except for one probe of a
\* collection failure: the counter run_test_target trusts may lag behind the files,
\* which other threads write, and never run ahead of them.
TestsSeeAnEdit ==
  [][\A c \in Slots :
       phase # "returned" /\ At(c, "run_test_target", "started")
         /\ calls'[c] # None /\ calls'[c].result \in {"ok", "failed"}
       => (\E f \in Files : files[f] # {}) \/ Probing]_vars

\* With two calls in flight, an edit that was reported is gone only because a call of
\* the same turn wrote over it, or is rewriting the file as a whole: an edit tool that
\* read a file never undoes the work of an earlier turn.
LostOnlyToASibling ==
  [][phase' # "attempt" =>
       \A f \in Files : \A e \in files[f] \ files'[f] :
          \/ e > turnStart
          \/ \E c \in Slots : /\ calls[c] # None /\ calls[c].arg = f
                              /\ calls[c].tool \in {"write_file", "execute_command"}]_vars

\* A retry is told of the attempt it follows and of nothing older, and its
\* retry_scheduled event says truly whether it starts from nothing.
RecoveryIsOfTheLastAttempt ==
  phase \in {"model", "tools"} =>
    /\ recovery \subseteq (lastStart + 1)..attemptStart
    /\ attempt > 1 => events[Len(events)].rerun = (recovery = {})

\* provider_calls tells the attempts in their order: each failed attempt left its
\* failure and the retry it scheduled, and an event that closes the call comes last.
EventsTellTheAttempts ==
  /\ Len(events) \in {2 * attempt, 2 * attempt - 1, 2 * (attempt - 1)} \cup {0}
  /\ \A k \in DOMAIN events :
       /\ events[k].attempt = (k + 1) \div 2
       /\ \/ k % 2 = 1 /\ events[k].type = "retryable_failure"
          \/ k % 2 = 0 /\ events[k].type = "retry_scheduled"
          \/ k = Len(events) /\ row \in Outcomes
  /\ row \in {"stuck", "in_progress"} /\ attempt > 1 =>
       events[Len(events)].type = "retry_succeeded"
  /\ phase = "model" => Len(events) = 2 * (attempt - 1)

\* The call behaves as the rest of the run takes it: opened, at work, closed with one
\* outcome, and no tool that was left behind changes the workspace afterwards.
Called == INSTANCE CallContract
            WITH Fresh <- [f \in Files |-> {}],
                 state <- CASE row = "none" -> "idle" [] row = "started" -> "open" [] OTHER -> row,
                 work <- files

ImplementsCallContract == Called!CallContract

\* Every agent call comes to an outcome, whatever is retried, delegated or cut off.
CallEnds == Called!Closes
================================================================================
