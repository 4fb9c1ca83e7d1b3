------------------------------- MODULE ToolCalls -------------------------------
(***************************************************************************)
(* The tools of an agent (tools/) and the hooks that record them            *)
(* (observability/lifecycle_hooks.py) during one iteration.  The model asks *)
(* for several tools in one turn: the SDK runs the hooks on its event loop  *)
(* and each tool function on a thread of its own.  All of them share one    *)
(* APRToolContext, whose counters guard the searches and the tests, and the *)
(* workspace.                                                              *)
(*                                                                         *)
(* A tool call is a record that goes through a pc; a step of a tool is what *)
(* it does between two calls of another function, where its thread may     *)
(* lose the interpreter lock.                                              *)
(*                                                                         *)
(* Abstractions.  A query is a normalised (pattern, glob, flags) key.  The  *)
(* content of a file is the set of edits in it, an edit the sequence number *)
(* of its call; a shell command and write_file put one text for another.   *)
(* iteration_tool_call_count counts what the hooks' _seq counts, both from *)
(* the start of the iteration, and is read as _seq.                        *)
(***************************************************************************)
EXTENDS Naturals, Sequences, FiniteSets

CONSTANTS
  Slots,           \* bound: tool calls in flight at a time
  Queries,
  Files,
  Budget,          \* search_files_budget
  CollectionFails, \* the baseline ended with exit code 4
  Profiles,        \* the tools agents are given (build_apr_tools), as far as they differ
  MaxInner,        \* bound: tool calls the specialists make in an iteration
  None

Specialist == "specialist"
EditTools  == {"replace_in_file", "write_file"}
FileTools  == EditTools \cup {"execute_command", "apply_unified_diff"}
Tools == FileTools \cup {Specialist, "search_files", "read_file", "run_test_target"}

ASSUME ToolCallsAssumption ==
  /\ IsFiniteSet(Slots)
  /\ Budget \in Nat \ {0}
  /\ CollectionFails \in BOOLEAN
  /\ Profiles \subseteq SUBSET Tools
  /\ MaxInner \in Nat
  /\ None \notin Slots \cup Queries \cup Files \cup Nat

VARIABLES
  ctx,       \* APRToolContext: edits, probes, searches, seen
  seq,       \* the hooks' _seq
  starts,    \* _pending_starts: [Tools -> sequence numbers]
  gathered,  \* the calls in the hooks' retry context
  rows,      \* sequence numbers in the table tool_calls
  calls,     \* [Slots -> the tool call in flight there, or None]
  files,     \* [Files -> the edits in it], since the iteration began
  inner,     \* tool calls the specialists have made
  turnStart  \* seq when the turn in flight began

toolVars == <<ctx, seq, starts, gathered, rows, calls, files, inner, turnStart>>

-----------------------------------------------------------------------------
Contexts ==
  [edits : Nat, probes : {0, 1}, searches : Nat, seen : [Queries -> Nat \cup {None}]]

FreshContext ==
  [edits |-> 0, probes |-> 0, searches |-> 0, seen |-> [q \in Queries |-> None]]

Results == {"none", "ok", "empty", "failed", "duplicate", "exhausted", "refused"}

\* id: its sequence number, 0 without one; by: the specialist that makes the call;
\* base: what the tool read of the file; result: what it returns.
Calls ==
  [tool : Tools, arg : Queries \cup Files \cup {None}, id : Nat, by : Slots \cup {None},
   pc : {"requested", "started", "checked", "read", "written", "ended"},
   base : SUBSET Nat, result : Results]

\* What the model may ask for, with the arguments that matter.
Requests ==
  {<<"search_files", q>> : q \in Queries}
  \cup {<<t, f>> : t \in FileTools, f \in Files}
  \cup {<<t, None>> : t \in {"read_file", "run_test_target", Specialist}}

RequestsOf(profile) == {r \in Requests : r[1] \in profile}

NewCall(r, p) ==
  [tool |-> r[1], arg |-> r[2], id |-> 0, by |-> p, pc |-> "requested",
   base |-> {}, result |-> "none"]

\* The value that stands for no call is none.
ASSUME NoCallAssumption == None \notin Calls

Idle == \A c \in Slots : calls[c] = None

At(c, tool, pc) == calls[c] # None /\ calls[c].tool = tool /\ calls[c].pc = pc

Move(c, pc)   == calls' = [calls EXCEPT ![c].pc = pc]
Return(c, r)  == calls' = [calls EXCEPT ![c].pc = "ended", ![c].result = r]

\* The iteration begins: fresh counters, and new hooks for its agent execution.
ToolsReset ==
  /\ ctx' = FreshContext
  /\ seq' = 0 /\ turnStart' = 0 /\ inner' = 0
  /\ starts' = [t \in Tools |-> <<>>]
  /\ gathered' = {} /\ rows' = {}
  /\ calls' = [c \in Slots |-> None]
  /\ files' = [f \in Files |-> {}]

ToolsInit ==
  /\ ctx = FreshContext
  /\ seq = 0 /\ turnStart = 0 /\ inner = 0
  /\ starts = [t \in Tools |-> <<>>]
  /\ gathered = {} /\ rows = {}
  /\ calls = [c \in Slots |-> None]
  /\ files = [f \in Files |-> {}]

\* The model asks for the calls of one turn.
BeginTurn(wanted) ==
  /\ Idle
  /\ calls' = [c \in Slots |-> IF c \in DOMAIN wanted THEN NewCall(wanted[c], None) ELSE None]
  /\ turnStart' = seq
  /\ UNCHANGED <<ctx, seq, starts, gathered, rows, files, inner>>

-----------------------------------------------------------------------------
(* The hooks, on the event loop.  The calls of a specialist have none: its  *)
(* agent is run without them.                                              *)

OnToolStart(c) ==
  /\ calls[c] # None /\ calls[c].pc = "requested" /\ calls[c].by = None
  /\ seq' = seq + 1
  /\ starts' = [starts EXCEPT ![calls[c].tool] = Append(@, seq + 1)]
  /\ calls' = [calls EXCEPT ![c].pc = "started", ![c].id = seq + 1]
  /\ UNCHANGED <<ctx, gathered, rows, files, inner, turnStart>>

StartInner(c) ==
  /\ calls[c] # None /\ calls[c].pc = "requested" /\ calls[c].by # None
  /\ Move(c, "started")
  /\ UNCHANGED <<ctx, seq, starts, gathered, rows, files, inner, turnStart>>

\* A search with hits, and every read or edit that names a file, leave an entry for a
\* later attempt.
Remembered(call) ==
  \/ call.tool = "search_files" /\ call.result = "ok"
  \/ call.tool \in EditTools \cup {"read_file"}

OnToolEndPeeks(c) ==
  /\ calls[c] # None /\ calls[c].pc = "ended" /\ calls[c].by = None
  /\ rows' = rows \cup {Head(starts[calls[c].tool])}
  /\ gathered' = IF Remembered(calls[c]) THEN gathered \cup {calls[c].id} ELSE gathered
  /\ calls' = [calls EXCEPT ![c] = None]
  /\ UNCHANGED <<ctx, seq, starts, files, inner, turnStart>>

OnToolEndOfSuccess(c) ==
  /\ calls[c] # None /\ calls[c].pc = "ended" /\ calls[c].by = None
  /\ rows' = IF calls[c].result = "ok" THEN rows \cup {Head(starts[calls[c].tool])} ELSE rows
  /\ starts' = [starts EXCEPT ![calls[c].tool] = Tail(@)]
  /\ gathered' = IF Remembered(calls[c]) THEN gathered \cup {calls[c].id} ELSE gathered
  /\ calls' = [calls EXCEPT ![c] = None]
  /\ UNCHANGED <<ctx, seq, files, inner, turnStart>>

\* on_tool_end takes the oldest start of the tool for the start of this call.
OnToolEnd(c) ==
  LET call == calls[c] IN
  /\ call # None /\ call.pc = "ended" /\ call.by = None
  /\ IF starts[call.tool] # <<>>
     THEN /\ rows' = rows \cup {Head(starts[call.tool])}
          /\ starts' = [starts EXCEPT ![call.tool] = Tail(@)]
     ELSE /\ rows' = rows \cup {seq}
          /\ UNCHANGED starts
  /\ gathered' = IF Remembered(call) THEN gathered \cup {call.id} ELSE gathered
  /\ calls' = [calls EXCEPT ![c] = None]
  /\ UNCHANGED <<ctx, seq, files, inner, turnStart>>

EndInner(c) ==
  /\ calls[c] # None /\ calls[c].pc = "ended" /\ calls[c].by # None
  /\ calls' = [calls EXCEPT ![c] = None]
  /\ UNCHANGED <<ctx, seq, starts, gathered, rows, files, inner, turnStart>>

-----------------------------------------------------------------------------
(* search_files.                                                           *)

Seen(q)      == ctx.seen[q] # None
BeyondBudget == ctx.edits = 0 /\ ctx.searches > Budget
Exhausted    == ctx.edits = 0 /\ ctx.searches >= Budget

\* Two guards over the context, then the pattern is compiled.
CheckSearch(c) ==
  /\ At(c, "search_files", "started")
  /\ CASE Seen(calls[c].arg)  -> Return(c, "duplicate")
       [] ~Seen(calls[c].arg) /\ Exhausted  -> Return(c, "exhausted")
       [] ~Seen(calls[c].arg) /\ ~Exhausted -> Move(c, "checked")
  /\ UNCHANGED <<ctx, seq, starts, gathered, rows, files, inner, turnStart>>

InvalidRegex(c) ==
  /\ At(c, "search_files", "checked")
  /\ Return(c, "failed")
  /\ UNCHANGED <<ctx, seq, starts, gathered, rows, files, inner, turnStart>>

\* The call counts from here; the scan itself touches nothing that is shared.
Search(c) ==
  /\ At(c, "search_files", "checked")
  /\ ctx' = [ctx EXCEPT !.seen[calls[c].arg] = seq, !.searches = @ + 1]
  /\ \E r \in {"ok", "empty"} : Return(c, r)
  /\ UNCHANGED <<seq, starts, gathered, rows, files, inner, turnStart>>

ReadFile(c) ==
  /\ At(c, "read_file", "started")
  /\ \E r \in {"ok", "failed"} : Return(c, r)
  /\ UNCHANGED <<ctx, seq, starts, gathered, rows, files, inner, turnStart>>

-----------------------------------------------------------------------------
(* replace_in_file, replace_lines and write_file: read, write, count.       *)
(* apply_unified_diff leaves it to patch, and does not count.              *)

ReadOriginalCounts(c) ==
  /\ At(c, "replace_in_file", "started") \/ At(c, "apply_unified_diff", "started")
  /\ calls' = [calls EXCEPT ![c].pc = "read", ![c].base = files[calls[c].arg]]
  /\ ctx' = [ctx EXCEPT !.edits = @ + 1]
  /\ UNCHANGED <<seq, starts, gathered, rows, files, inner, turnStart>>

ReadOriginalOnce(c) ==
  /\ At(c, "replace_in_file", "started") \/ At(c, "apply_unified_diff", "started")
  /\ calls' = [calls EXCEPT ![c].pc = "read"]
  /\ UNCHANGED <<ctx, seq, starts, gathered, rows, files, inner, turnStart>>

ReadOriginal(c) ==
  /\ At(c, "replace_in_file", "started") \/ At(c, "apply_unified_diff", "started")
  /\ calls' = [calls EXCEPT ![c].pc = "read", ![c].base = files[calls[c].arg]]
  /\ UNCHANGED <<ctx, seq, starts, gathered, rows, files, inner, turnStart>>

\* The text is not there, is there too often, or the path is a test's.
RefuseEdit(c) ==
  /\ At(c, "replace_in_file", "read") \/ At(c, "write_file", "started")
  /\ Return(c, "failed")
  /\ UNCHANGED <<ctx, seq, starts, gathered, rows, files, inner, turnStart>>

WriteUpdated(c) ==
  /\ At(c, "replace_in_file", "read")
  /\ files' = [files EXCEPT ![calls[c].arg] = calls[c].base \cup {calls[c].id}]
  /\ Move(c, "written")
  /\ UNCHANGED <<ctx, seq, starts, gathered, rows, inner, turnStart>>

WriteFile(c) ==
  /\ At(c, "write_file", "started")
  /\ files' = [files EXCEPT ![calls[c].arg] = {calls[c].id}]
  /\ Move(c, "written")
  /\ UNCHANGED <<ctx, seq, starts, gathered, rows, inner, turnStart>>

CountEdit(c) ==
  /\ calls[c] # None /\ calls[c].pc = "written"
  /\ ctx' = [ctx EXCEPT !.edits = @ + 1]
  /\ Return(c, "ok")
  /\ UNCHANGED <<seq, starts, gathered, rows, files, inner, turnStart>>

\* It may have been asked for a check only, and patch may apply a part of the diff
\* and fail.
ApplyDiff(c) ==
  /\ At(c, "apply_unified_diff", "read")
  /\ \/ files' = [files EXCEPT ![calls[c].arg] = calls[c].base \cup {calls[c].id}]
     \/ UNCHANGED files
  /\ \E r \in {"ok", "failed"} : Return(c, r)
  /\ UNCHANGED <<ctx, seq, starts, gathered, rows, inner, turnStart>>

-----------------------------------------------------------------------------
(* run_test_target: after an edit, or once to look at a collection failure. *)

Probing == CollectionFails /\ ctx.probes = 0

RunTests(c) ==
  /\ At(c, "run_test_target", "started")
  /\ ctx.edits > 0 \/ Probing
  /\ ctx' = [ctx EXCEPT !.probes = IF ctx.edits > 0 THEN @ ELSE @ + 1]
  /\ \E r \in {"ok", "failed"} : Return(c, r)
  /\ UNCHANGED <<seq, starts, gathered, rows, files, inner, turnStart>>

RefuseTests(c) ==
  /\ At(c, "run_test_target", "started")
  /\ ctx.edits = 0 /\ ~Probing
  /\ Return(c, "refused")
  /\ UNCHANGED <<ctx, seq, starts, gathered, rows, files, inner, turnStart>>

\* A shell command may rewrite a file; no counter knows of it.
ExecuteCommand(c) ==
  /\ At(c, "execute_command", "started")
  /\ \/ files' = [files EXCEPT ![calls[c].arg] = {calls[c].id}]
     \/ UNCHANGED files
  /\ \E r \in {"ok", "failed"} : Return(c, r)
  /\ UNCHANGED <<ctx, seq, starts, gathered, rows, inner, turnStart>>

-----------------------------------------------------------------------------
(* A specialist (explore_code, run_tests) is an agent run inside the tool   *)
(* call: it shares the context and has no hooks.  What it reads changes     *)
(* nothing here; the text its shell commands leave is edit 0.              *)

Delegated(p) == {c \in Slots : calls[c] # None /\ calls[c].by = p}

InnerRequests == RequestsOf({"search_files", "run_test_target", "execute_command"})

Delegate(p, c) ==
  /\ At(p, Specialist, "started") /\ Delegated(p) = {}
  /\ calls[c] = None /\ inner < MaxInner
  /\ \E r \in InnerRequests : calls' = [calls EXCEPT ![c] = NewCall(r, p)]
  /\ inner' = inner + 1
  /\ UNCHANGED <<ctx, seq, starts, gathered, rows, files, turnStart>>

\* It answers, or its own provider error becomes the text of the answer.
SpecialistReturns(p) ==
  /\ At(p, Specialist, "started") /\ Delegated(p) = {}
  /\ \E r \in {"ok", "failed"} : Return(p, r)
  /\ UNCHANGED <<ctx, seq, starts, gathered, rows, files, inner, turnStart>>

-----------------------------------------------------------------------------
\* What runs on a thread, and goes on when the event loop gives the call up.
ThreadStep(c) ==
  \/ CheckSearch(c) \/ InvalidRegex(c) \/ Search(c)
  \/ ReadFile(c)
  \/ ReadOriginal(c) \/ RefuseEdit(c) \/ WriteUpdated(c) \/ WriteFile(c) \/ CountEdit(c)
  \/ ApplyDiff(c)
  \/ RunTests(c) \/ RefuseTests(c) \/ ExecuteCommand(c)

LoopStep(c) ==
  \/ OnToolStart(c) \/ StartInner(c) \/ OnToolEnd(c) \/ EndInner(c)
  \/ SpecialistReturns(c) \/ \E d \in Slots : Delegate(c, d)

ToolStep(c) == ThreadStep(c) \/ LoopStep(c)

\* The event loop gives the turn up: what runs on a thread goes on, without hooks.
Abandon ==
  /\ calls' = [c \in Slots |->
                 IF calls[c] = None \/ calls[c].tool = Specialist
                    \/ calls[c].pc \in {"requested", "ended"}
                 THEN None ELSE calls[c]]
  /\ UNCHANGED <<ctx, seq, starts, gathered, rows, files, inner, turnStart>>

\* A thread that has come to its end, with nobody to take the result.
Forgotten(c) ==
  /\ calls[c] # None /\ calls[c].pc = "ended"
  /\ calls' = [calls EXCEPT ![c] = None]
  /\ UNCHANGED <<ctx, seq, starts, gathered, rows, files, inner, turnStart>>

-----------------------------------------------------------------------------
ToolTypeOK ==
  /\ ctx \in Contexts
  /\ seq \in Nat /\ turnStart \in Nat /\ inner \in 0..MaxInner
  /\ starts \in [Tools -> Seq(Nat)]
  /\ gathered \subseteq Nat /\ rows \subseteq Nat
  /\ calls \in [Slots -> Calls \cup {None}]
  /\ files \in [Files -> SUBSET Nat]
================================================================================
