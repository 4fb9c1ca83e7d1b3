------------------------- MODULE AgentCallRecordProofs -------------------------
(***************************************************************************)
(* What the hooks and the provider record of a call: a row for every start *)
(* of a tool, and what a retry is told.  The hooks match the end of a tool  *)
(* with the oldest start of its name, so the proof counts the calls of a    *)
(* name that are in flight and the starts that wait.                       *)
(***************************************************************************)
EXTENDS AgentCallToolProofs, Functions

-----------------------------------------------------------------------------
(* Sequences without repetition.                                           *)

Values(s) == {s[i] : i \in DOMAIN s}

Distinct(s) == \A i, j \in DOMAIN s : i # j => s[i] # s[j]

LEMMA AppendValues ==
  ASSUME NEW s \in Seq(Nat), Distinct(s), NEW n \in Nat, n \notin Values(s)
  PROVE  Distinct(Append(s, n)) /\ Values(Append(s, n)) = Values(s) \cup {n}
<1>1. /\ DOMAIN Append(s, n) = 1..(Len(s) + 1) /\ DOMAIN s = 1..Len(s) /\ Len(s) \in Nat
      /\ \A i \in 1..(Len(s) + 1) : Append(s, n)[i] = IF i = Len(s) + 1 THEN n ELSE s[i]
  OBVIOUS
<1>2. \A i \in 1..Len(s) : i \in 1..(Len(s) + 1) /\ i # Len(s) + 1
  BY <1>1
<1>3. Distinct(Append(s, n))
  <2> SUFFICES ASSUME NEW i \in 1..(Len(s) + 1), NEW j \in 1..(Len(s) + 1), i # j
               PROVE  Append(s, n)[i] # Append(s, n)[j]
    BY <1>1 DEF Distinct
  <2>1. i \in 1..Len(s) \/ i = Len(s) + 1
    BY <1>1
  <2>2. j \in 1..Len(s) \/ j = Len(s) + 1
    BY <1>1
  <2>3. QED
    BY <1>1, <1>2, <2>1, <2>2 DEF Distinct, Values
<1>4. Values(Append(s, n)) \subseteq Values(s) \cup {n}
  BY <1>1 DEF Values
<1>5. Values(s) \cup {n} \subseteq Values(Append(s, n))
  BY <1>1, <1>2 DEF Values
<1>6. QED
  BY <1>3, <1>4, <1>5

LEMMA TailValues ==
  ASSUME NEW s \in Seq(Nat), Distinct(s), s # <<>>
  PROVE  /\ Distinct(Tail(s)) /\ Head(s) \in Values(s)
         /\ Values(Tail(s)) = Values(s) \ {Head(s)}
<1>1. /\ Len(s) \in Nat \ {0} /\ DOMAIN s = 1..Len(s) /\ Head(s) = s[1]
      /\ DOMAIN Tail(s) = 1..(Len(s) - 1)
      /\ \A i \in 1..(Len(s) - 1) : Tail(s)[i] = s[i + 1]
  OBVIOUS
<1>2. 1 \in DOMAIN s /\ \A i \in 1..(Len(s) - 1) : i + 1 \in DOMAIN s /\ i + 1 # 1
  BY <1>1
<1>3. \A j \in DOMAIN s : j = 1 \/ (j - 1 \in 1..(Len(s) - 1) /\ s[j] = Tail(s)[j - 1])
  BY <1>1
<1>4. Distinct(Tail(s))
  <2> SUFFICES ASSUME NEW i \in 1..(Len(s) - 1), NEW j \in 1..(Len(s) - 1), i # j
               PROVE  Tail(s)[i] # Tail(s)[j]
    BY <1>1 DEF Distinct
  <2>1. i + 1 # j + 1
    BY <1>1
  <2>2. QED
    BY <1>1, <1>2, <2>1 DEF Distinct
<1>5. Values(Tail(s)) \subseteq Values(s) \ {Head(s)}
  <2> SUFFICES ASSUME NEW i \in 1..(Len(s) - 1)
               PROVE  Tail(s)[i] \in Values(s) \ {Head(s)}
    BY <1>1 DEF Values
  <2>1. QED
    BY <1>1, <1>2 DEF Values, Distinct
<1>6. Values(s) \ {Head(s)} \subseteq Values(Tail(s))
  BY <1>1, <1>3, SMTT(30) DEF Values
<1>7. QED
  BY <1>1, <1>2, <1>4, <1>5, <1>6 DEF Values

LEMMA DistinctCount ==
  ASSUME NEW s \in Seq(Nat), Distinct(s)
  PROVE  Cardinality(Values(s)) = Len(s)
<1>1. s \in [1..Len(s) -> Values(s)] /\ Len(s) \in Nat /\ DOMAIN s = 1..Len(s)
  BY DEF Values
<1>2. s \in Bijection(1..Len(s), Values(s))
  BY <1>1 DEF Bijection, Injection, Surjection, IsInjective, Distinct, Values
<1>3. ExistsBijection(1..Len(s), Values(s))
  BY <1>2 DEF ExistsBijection
<1>4. QED
  BY <1>1, <1>3, FS_CountingElements

-----------------------------------------------------------------------------
(* The rows.                                                               *)

\* The calls of a tool that have had their start and wait for their end.
Hooked(t) ==
  {c \in Slots : /\ calls[c] # None /\ calls[c].tool = t
                 /\ calls[c].by = None /\ calls[c].pc # "requested"}

\* Every number that was given out is in one place.
Exact ==
  /\ \A t \in Tools : Distinct(starts[t])
  /\ \A n \in Nat : n \in 1..seq <=> n \in rows \/ \E t \in Tools : n \in Values(starts[t])
  /\ \A t \in Tools : \A n \in Values(starts[t]) :
       n \notin rows /\ \A u \in Tools \ {t} : n \notin Values(starts[u])

\* As many starts wait as there are calls to end, until a turn is given up.
Matched ==
  /\ phase \notin {"joining", "returned"} =>
       \A t \in Tools : Len(starts[t]) = Cardinality(Hooked(t))
  /\ phase = "returned" /\ row # "timed_out" => \A t \in Tools : starts[t] = <<>>

RecordInv == Exact /\ Matched

LEMMA HookedSize ==
  \A t \in Tools : Hooked(t) \in SUBSET Slots /\ IsFiniteSet(Hooked(t))
                  /\ Cardinality(Hooked(t)) \in Nat
<1>1. \A t \in Tools : Hooked(t) \in SUBSET Slots
  BY DEF Hooked
<1>2. QED
  BY <1>1, Sizes

LEMMA ExactStart ==
  ASSUME ToolTypeOK, Exact, NEW t \in Tools, seq' = seq + 1, rows' = rows,
         starts' = [starts EXCEPT ![t] = Append(starts[t], seq + 1)]
  PROVE  Exact'
<1>0. seq \in Nat /\ rows \subseteq Nat /\ starts \in [Tools -> Seq(Nat)]
  BY DEF ToolTypeOK
<1>1. \A n \in Nat : n \in 1..seq' <=> n \in 1..seq \/ n = seq + 1
  BY <1>0
<1>2. seq + 1 \in Nat /\ seq + 1 \notin 1..seq
  BY <1>0
<1>3. seq + 1 \notin rows /\ \A u \in Tools : seq + 1 \notin Values(starts[u])
  BY <1>2 DEF Exact
<1>4. Distinct(starts'[t]) /\ Values(starts'[t]) = Values(starts[t]) \cup {seq + 1}
  <2>1. starts[t] \in Seq(Nat) /\ Distinct(starts[t])
    BY <1>0 DEF Exact
  <2>2. starts'[t] = Append(starts[t], seq + 1)
    BY <1>0
  <2>3. QED
    BY <1>2, <1>3, <2>1, <2>2, AppendValues
<1>5. \A u \in Tools \ {t} : starts'[u] = starts[u]
  BY <1>0
<1>6. \A u \in Tools : Distinct(starts'[u])
  BY <1>4, <1>5 DEF Exact
<1>7. \A n \in Nat : n \in 1..seq' <=>
                     n \in rows' \/ \E u \in Tools : n \in Values(starts'[u])
  BY <1>1, <1>4, <1>5 DEF Exact
<1>8. \A u \in Tools : \A n \in Values(starts'[u]) :
        n \notin rows' /\ \A v \in Tools \ {u} : n \notin Values(starts'[v])
  BY <1>3, <1>4, <1>5 DEF Exact
<1>9. QED
  BY <1>6, <1>7, <1>8 DEF Exact

LEMMA ExactEnd ==
  ASSUME ToolTypeOK, Exact, NEW t \in Tools, starts[t] # <<>>, seq' = seq,
         rows' = rows \cup {Head(starts[t])},
         starts' = [starts EXCEPT ![t] = Tail(starts[t])]
  PROVE  Exact'
<1>0. starts \in [Tools -> Seq(Nat)] /\ starts[t] \in Seq(Nat)
  BY DEF ToolTypeOK
<1>1. /\ Distinct(starts'[t]) /\ Head(starts[t]) \in Values(starts[t])
      /\ Values(starts'[t]) = Values(starts[t]) \ {Head(starts[t])}
  <2>1. starts'[t] = Tail(starts[t])
    BY <1>0
  <2>2. QED
    BY <1>0, <2>1, TailValues DEF Exact
<1>2. \A u \in Tools \ {t} : starts'[u] = starts[u]
  BY <1>0
<1>3. \A u \in Tools : Distinct(starts'[u])
  BY <1>1, <1>2 DEF Exact
<1>4. \A n \in Nat : n \in 1..seq' <=>
                     n \in rows' \/ \E u \in Tools : n \in Values(starts'[u])
  BY <1>1, <1>2 DEF Exact
<1>5. \A u \in Tools : \A n \in Values(starts'[u]) :
        n \notin rows' /\ \A v \in Tools \ {u} : n \notin Values(starts'[v])
  BY <1>1, <1>2 DEF Exact
<1>6. QED
  BY <1>3, <1>4, <1>5 DEF Exact

LEMMA ExactSame ==
  ASSUME Exact, UNCHANGED <<seq, starts, rows>>
  PROVE  Exact'
BY DEF Exact, Values, Distinct

LEMMA ExactFresh ==
  /\ ToolsInit => Exact
  /\ ToolsReset => Exact'
<1>1. Distinct(<<>>) /\ Values(<<>>) = {}
  BY DEF Distinct, Values
<1>2. ToolsInit => \A t \in Tools : starts[t] = <<>>
  BY DEF ToolsInit
<1>3. ToolsReset => \A t \in Tools : starts'[t] = <<>>
  BY DEF ToolsReset
<1>4. ToolsInit => seq = 0 /\ rows = {}
  BY DEF ToolsInit
<1>5. ToolsReset => seq' = 0 /\ rows' = {}
  BY DEF ToolsReset
<1>6. \A n \in Nat : n \notin 1..0
  OBVIOUS
<1>7. QED
  BY <1>1, <1>2, <1>3, <1>4, <1>5, <1>6 DEF Exact

\* A call that keeps its kind and stays past its start, or before it, changes no count.
LEMMA HookedSame ==
  ASSUME NEW c \in Slots, calls[c] # None, calls'[c] # None,
         calls'[c].tool = calls[c].tool, calls'[c].by = calls[c].by,
         calls[c].by # None \/ (calls[c].pc # "requested" /\ calls'[c].pc # "requested"),
         \A d \in Slots \ {c} : calls'[d] = calls[d]
  PROVE  \A t \in Tools : Hooked(t)' = Hooked(t)
BY DEF Hooked

\* A call that moves stays what it is.
LEMMA MoveShape ==
  ASSUME CallInv, NEW c \in Slots, calls[c] # None,
         \/ \E pc \in {"started", "checked", "read", "written"} : Move(c, pc)
         \/ \E r \in Results : Return(c, r)
         \/ ReadOriginal(c)
  PROVE  /\ calls'[c] # None /\ calls'[c].tool = calls[c].tool /\ calls'[c].by = calls[c].by
         /\ calls'[c].id = calls[c].id /\ calls'[c].pc # "requested"
         /\ \A d \in Slots \ {c} : calls'[d] = calls[d]
<1>0. CallsOK /\ calls[c] \in Calls
  BY DEF CallInv, TypeOK, ToolTypeOK, CallsOK
<1>1. PICK call \in Calls : calls' = [calls EXCEPT ![c] = call]
        /\ call.tool = calls[c].tool /\ call.by = calls[c].by /\ call.id = calls[c].id
        /\ call.pc # "requested"
  <2>1. CASE \E pc \in {"started", "checked", "read", "written"} : Move(c, pc)
    <3>1. PICK pc \in {"started", "checked", "read", "written"} : Move(c, pc)
      BY <2>1
    <3>2. [calls[c] EXCEPT !.pc = pc] \in Calls
      BY <1>0 DEF Calls
    <3>3. calls' = [calls EXCEPT ![c] = [calls[c] EXCEPT !.pc = pc]]
      BY <1>0, <3>1 DEF Move, CallsOK
    <3>4. QED
      BY <1>0, <3>2, <3>3 DEF Calls
  <2>2. CASE \E r \in Results : Return(c, r)
    <3>1. PICK r \in Results : Return(c, r)
      BY <2>2
    <3>2. [calls[c] EXCEPT !.pc = "ended", !.result = r] \in Calls
      BY <1>0 DEF Calls
    <3>3. calls' = [calls EXCEPT ![c] = [calls[c] EXCEPT !.pc = "ended", !.result = r]]
      BY <1>0, <3>1 DEF Return, CallsOK
    <3>4. QED
      BY <1>0, <3>2, <3>3 DEF Calls
  <2>3. CASE ReadOriginal(c)
    <3>1. files[calls[c].arg] \in SUBSET Nat
      BY <1>0, <2>3 DEF ReadOriginal, At, CallsOK, Argued, FileTools, EditTools, CallInv, TypeOK, ToolTypeOK
    <3>2. [calls[c] EXCEPT !.pc = "read", !.base = files[calls[c].arg]] \in Calls
      BY <1>0, <3>1 DEF Calls
    <3>3. calls' = [calls EXCEPT ![c] =
                      [calls[c] EXCEPT !.pc = "read", !.base = files[calls[c].arg]]]
      BY <1>0, <2>3 DEF ReadOriginal, CallsOK
    <3>4. QED
      BY <1>0, <3>2, <3>3 DEF Calls
  <2>4. QED
    BY <2>1, <2>2, <2>3
<1>2. calls'[c] = call /\ \A d \in Slots \ {c} : calls'[d] = calls[d]
  BY <1>0, <1>1 DEF CallsOK
<1>3. call # None
  BY <1>1, CallIsSome
<1>4. QED
  BY <1>1, <1>2, <1>3

LEMMA MoveHooked ==
  ASSUME CallInv, NEW c \in Slots, calls[c] # None,
         calls[c].by # None \/ calls[c].pc # "requested",
         \/ \E pc \in {"started", "checked", "read", "written"} : Move(c, pc)
         \/ \E r \in Results : Return(c, r)
         \/ ReadOriginal(c)
  PROVE  \A t \in Tools : Hooked(t)' = Hooked(t)
BY MoveShape, HookedSame

LEMMA ThreadMoves ==
  ASSUME CallInv, NEW c \in Slots, ThreadStep(c)
  PROVE  /\ calls[c] # None /\ calls[c].pc # "requested"
         /\ \/ \E pc \in {"started", "checked", "read", "written"} : Move(c, pc)
            \/ \E r \in Results : Return(c, r)
            \/ ReadOriginal(c)
<1>1. calls[c] # None /\ calls[c].pc # "requested"
  BY DEF ThreadStep, CheckSearch, InvalidRegex, Search, ReadFile, ReadOriginal, RefuseEdit,
     WriteUpdated, WriteFile, CountEdit, RunTests, RefuseTests, ApplyDiff, ExecuteCommand, At
<1>2. \/ \E pc \in {"started", "checked", "read", "written"} : Move(c, pc)
      \/ \E r \in Results : Return(c, r)
      \/ ReadOriginal(c)
  BY DEF ThreadStep, CheckSearch, InvalidRegex, Search, ReadFile, ReadOriginal, RefuseEdit,
     WriteUpdated, WriteFile, CountEdit, RunTests, RefuseTests, ApplyDiff, ExecuteCommand, Results
<1>3. QED
  BY <1>1, <1>2

LEMMA ThreadHooked ==
  ASSUME CallInv, NEW c \in Slots, ThreadStep(c)
  PROVE  \A t \in Tools : Hooked(t)' = Hooked(t)
BY ThreadMoves, MoveHooked

\* The calls of a specialist have no hooks.
LEMMA InnerHooked ==
  ASSUME CallInv, NEW c \in Slots,
         StartInner(c) \/ EndInner(c) \/ SpecialistReturns(c) \/ \E d \in Slots : Delegate(c, d)
  PROVE  \A t \in Tools : Hooked(t)' = Hooked(t)
<1>0. CallsOK
  BY DEF CallInv, TypeOK, ToolTypeOK, CallsOK
<1>1. CASE StartInner(c)
  BY <1>1, MoveHooked DEF StartInner
<1>2. CASE SpecialistReturns(c)
  BY <1>2, MoveHooked DEF SpecialistReturns, At, Results
<1>3. CASE EndInner(c)
  BY <1>0, <1>3 DEF EndInner, Hooked, CallsOK
<1>4. CASE \E d \in Slots : Delegate(c, d)
  <2>1. PICK d \in Slots : Delegate(c, d)
    BY <1>4
  <2>2. PICK r \in InnerRequests : calls' = [calls EXCEPT ![d] = NewCall(r, c)]
    BY <2>1 DEF Delegate
  <2>3. calls[d] = None /\ calls'[d].pc = "requested"
        /\ \A e \in Slots \ {d} : calls'[e] = calls[e]
    BY <1>0, <2>1, <2>2 DEF CallsOK, NewCall, Delegate
  <2>4. QED
    BY <2>3 DEF Hooked
<1>5. QED
  BY <1>1, <1>2, <1>3, <1>4

LEMMA StartHooked ==
  ASSUME CallInv, NEW c \in Slots, OnToolStart(c), NEW t \in Tools, t = calls[c].tool
  PROVE  /\ Hooked(t)' = Hooked(t) \cup {c} /\ c \notin Hooked(t)
         /\ \A u \in Tools \ {t} : Hooked(u)' = Hooked(u)
<1>0. CallsOK /\ calls[c] \in Calls /\ calls[c] # None
  BY DEF OnToolStart, CallInv, TypeOK, ToolTypeOK, CallsOK
<1>1. /\ calls'[c].tool = calls[c].tool /\ calls'[c].by = None /\ calls'[c].pc = "started"
      /\ calls'[c] \in Calls
      /\ \A d \in Slots \ {c} : calls'[d] = calls[d]
  <2>1. seq + 1 \in Nat
    BY DEF CallInv, TypeOK, ToolTypeOK
  <2>2. [calls[c] EXCEPT !.pc = "started", !.id = seq + 1] \in Calls
    BY <1>0, <2>1 DEF Calls
  <2>3. calls' = [calls EXCEPT ![c] = [calls[c] EXCEPT !.pc = "started", !.id = seq + 1]]
    BY <1>0 DEF OnToolStart, CallsOK
  <2>4. QED
    BY <1>0, <2>2, <2>3 DEF OnToolStart, CallsOK, Calls
<1>2. calls'[c] # None
  BY <1>1, CallIsSome
<1>3. calls[c].by = None /\ calls[c].pc = "requested" /\ calls[c].tool \in Tools
  BY <1>0 DEF OnToolStart, Calls
<1>4. \A u \in Tools : \A d \in Slots \ {c} : d \in Hooked(u)' <=> d \in Hooked(u)
  BY <1>1 DEF Hooked
<1>5. \A u \in Tools : c \notin Hooked(u) /\ (c \in Hooked(u)' <=> u = t)
  BY <1>1, <1>2, <1>3 DEF Hooked
<1>6. \A u \in Tools : Hooked(u) \subseteq Slots /\ Hooked(u)' \subseteq Slots
  BY DEF Hooked
<1>7. \A u \in Tools \ {t} : Hooked(u)' = Hooked(u)
  BY <1>4, <1>5, <1>6
<1>8. Hooked(t)' = Hooked(t) \cup {c}
  BY <1>4, <1>5, <1>6
<1>9. QED
  BY <1>5, <1>7, <1>8

LEMMA EndHooked ==
  ASSUME CallInv, NEW c \in Slots, OnToolEnd(c), NEW t \in Tools, t = calls[c].tool
  PROVE  /\ Hooked(t)' = Hooked(t) \ {c} /\ c \in Hooked(t)
         /\ \A u \in Tools \ {t} : Hooked(u)' = Hooked(u)
<1>1. calls'[c] = None /\ \A d \in Slots \ {c} : calls'[d] = calls[d]
  BY DEF OnToolEnd, CallInv, TypeOK, ToolTypeOK
<1>2. calls[c] # None /\ calls[c].by = None /\ calls[c].pc = "ended"
  BY DEF OnToolEnd
<1>3. QED
  BY <1>1, <1>2 DEF Hooked

LEMMA RunToolKeepsRecord ==
  ASSUME CallInv, RecordInv, NEW c \in Slots, RunTool(c)
  PROVE  RecordInv'
<1>0. /\ phase = "tools" /\ phase' = "tools" /\ ToolStep(c) /\ ToolTypeOK
      /\ starts \in [Tools -> Seq(Nat)]
      /\ \A t \in Tools : Len(starts[t]) = Cardinality(Hooked(t))
  BY DEF RunTool, RecordInv, Matched, CallInv, TypeOK, ToolTypeOK
<1>1. CASE UNCHANGED <<seq, starts, rows>> /\ \A t \in Tools : Hooked(t)' = Hooked(t)
  <2>1. Exact'
    BY <1>1, ExactSame DEF RecordInv
  <2>2. Matched'
    BY <1>0, <1>1 DEF Matched
  <2>3. QED
    BY <2>1, <2>2 DEF RecordInv
<1>2. CASE OnToolStart(c)
  <2>0. PICK t \in Tools : t = calls[c].tool
    BY <1>0, <1>2 DEF OnToolStart, ToolTypeOK, Calls
  <2>1. /\ seq' = seq + 1 /\ rows' = rows
        /\ starts' = [starts EXCEPT ![t] = Append(starts[t], seq + 1)]
    BY <1>0, <1>2, <2>0 DEF OnToolStart
  <2>2. Exact'
    BY <1>0, <2>0, <2>1, ExactStart DEF RecordInv
  <2>3. Cardinality(Hooked(t)') = Cardinality(Hooked(t)) + 1
    <3>1. Hooked(t)' = Hooked(t) \cup {c} /\ c \notin Hooked(t)
      BY <1>2, <2>0, StartHooked
    <3>2. QED
      BY <3>1, HookedSize, FS_AddElement
  <2>4. Len(starts'[t]) = Len(starts[t]) + 1
    <3>1. starts[t] \in Seq(Nat) /\ seq + 1 \in Nat
      BY <1>0, <2>0 DEF ToolTypeOK
    <3>2. starts'[t] = Append(starts[t], seq + 1)
      BY <1>0, <2>0, <2>1
    <3>3. QED
      BY <3>1, <3>2
  <2>5. \A u \in Tools \ {t} : starts'[u] = starts[u] /\ Hooked(u)' = Hooked(u)
    BY <1>0, <1>2, <2>0, <2>1, StartHooked
  <2>6. Matched'
    BY <1>0, <2>0, <2>3, <2>4, <2>5 DEF Matched
  <2>7. QED
    BY <2>2, <2>6 DEF RecordInv
<1>3. CASE OnToolEnd(c)
  <2>0. PICK t \in Tools : t = calls[c].tool
    BY <1>0, <1>3 DEF OnToolEnd, ToolTypeOK, Calls
  <2>1. Cardinality(Hooked(t)') = Cardinality(Hooked(t)) - 1 /\ Cardinality(Hooked(t)) # 0
    <3>1. c \in Hooked(t) /\ Hooked(t)' = Hooked(t) \ {c}
      BY <1>3, <2>0, EndHooked
    <3>2. Cardinality(Hooked(t)') = Cardinality(Hooked(t)) - 1
      <4>1. IsFiniteSet(Hooked(t))
        BY HookedSize
      <4>2. Cardinality(Hooked(t) \ {c}) = Cardinality(Hooked(t)) - 1
        BY <3>1, <4>1, FS_RemoveElement
      <4>3. QED
        BY <3>1, <4>2
    <3>3. Cardinality(Hooked(t)) # 0
      BY <2>0, <3>1, HookedSize, FS_EmptySet
    <3>4. QED
      BY <3>2, <3>3
  <2>2. starts[t] \in Seq(Nat) /\ starts[t] # <<>>
    BY <1>0, <2>0, <2>1
  <2>3. /\ seq' = seq /\ rows' = rows \cup {Head(starts[t])}
        /\ starts' = [starts EXCEPT ![t] = Tail(starts[t])]
    BY <1>3, <2>0, <2>2 DEF OnToolEnd
  <2>4. Exact'
    BY <1>0, <2>0, <2>2, <2>3, ExactEnd DEF RecordInv
  <2>5. Len(starts'[t]) = Len(starts[t]) - 1
    <3>1. starts'[t] = Tail(starts[t])
      BY <1>0, <2>0, <2>3
    <3>2. QED
      BY <2>2, <3>1
  <2>6. \A u \in Tools \ {t} : starts'[u] = starts[u] /\ Hooked(u)' = Hooked(u)
    BY <1>0, <1>3, <2>0, <2>3, EndHooked
  <2>7. Matched'
    BY <1>0, <2>0, <2>1, <2>5, <2>6 DEF Matched
  <2>8. QED
    BY <2>4, <2>7 DEF RecordInv
<1>4. QED
  <2>1. CASE ThreadStep(c)
    BY <1>1, <2>1, ThreadStepFrame, ThreadHooked
  <2>2. CASE StartInner(c) \/ EndInner(c) \/ SpecialistReturns(c) \/ \E d \in Slots : Delegate(c, d)
    <3>1. UNCHANGED <<seq, starts, rows>>
      BY <2>2 DEF StartInner, EndInner, SpecialistReturns, Delegate
    <3>2. QED
      BY <1>1, <2>2, <3>1, InnerHooked
  <2>3. QED
    BY <1>0, <1>2, <1>3, <2>1, <2>2 DEF ToolStep, LoopStep

\* When nothing is in flight, nothing waits.
LEMMA IdleHooked ==
  /\ Idle => \A t \in Tools : Hooked(t) = {} /\ Cardinality(Hooked(t)) = 0
  /\ Idle' => \A t \in Tools : Hooked(t)' = {} /\ Cardinality(Hooked(t)') = 0
<1>1. Idle => \A t \in Tools : Hooked(t) = {}
  BY DEF Idle, Hooked
<1>2. Idle' => \A t \in Tools : Hooked(t)' = {}
  BY DEF Idle, Hooked
<1>3. QED
  BY <1>1, <1>2, FS_EmptySet

LEMMA IdleWaits ==
  ASSUME CallInv, RecordInv, Idle, phase \notin {"joining", "returned"}
  PROVE  \A t \in Tools : Len(starts[t]) = 0 /\ starts[t] = <<>>
<1>1. \A t \in Tools : starts[t] \in Seq(Nat) /\ Len(starts[t]) = 0
  BY IdleHooked DEF RecordInv, Matched, CallInv, TypeOK, ToolTypeOK
<1>2. QED
  BY <1>1

\* Steps of the call from one phase without tools to another.
LEMMA QuietKeepsRecord ==
  ASSUME CallInv, RecordInv, Idle, UNCHANGED <<seq, starts, rows>>,
         phase \notin {"joining", "returned"},
         \A t \in Tools : Cardinality(Hooked(t)') = 0
  PROVE  RecordInv'
<1>1. Exact'
  BY ExactSame DEF RecordInv
<1>2. Matched'
  BY IdleWaits DEF Matched
<1>3. QED
  BY <1>1, <1>2 DEF RecordInv

LEMMA RecordInvNext ==
  ASSUME CallInv, RecordInv, [Next]_vars
  PROVE  RecordInv'
<1>1. CASE Invoke
  <2>1. Exact'
    BY <1>1, ExactFresh DEF Invoke
  <2>2. Idle' /\ phase' = "attempt" /\ \A t \in Tools : starts'[t] = <<>>
    BY <1>1 DEF Invoke, ToolsReset, Idle
  <2>3. Matched'
    BY <2>2, IdleHooked DEF Matched
  <2>4. QED
    BY <2>1, <2>3 DEF RecordInv
<1>2. CASE TimeOut \/ Join \/ \E c \in Slots : Orphan(c)
  <2>1. Exact'
    <3>1. UNCHANGED <<seq, starts, rows>>
      BY <1>2, ThreadStepFrame DEF TimeOut, Abandon, Join, Close, toolVars, Orphan, Forgotten
    <3>2. QED
      BY <3>1, ExactSame DEF RecordInv
  <2>2. phase' = "joining" \/ (phase' = "returned" /\ row' = "timed_out")
    BY <1>2, OrphanIsJoined DEF TimeOut, Join, Close, Orphan, callOnly
  <2>3. QED
    BY <2>1, <2>2 DEF RecordInv, Matched
<1>3. CASE \E c \in Slots : RunTool(c)
  BY <1>3, RunToolKeepsRecord
<1>4. CASE UNCHANGED vars
  <2>1. Exact'
    BY <1>4, ExactSame DEF RecordInv, vars, toolVars
  <2>2. Matched'
    BY <1>4 DEF RecordInv, Matched, Hooked, vars, toolVars, callOnly
  <2>3. QED
    BY <2>1, <2>2 DEF RecordInv
<1>5. CASE Attempting /\ ~Join
  <2>1. Idle /\ phase \notin {"joining", "returned"} /\ UNCHANGED <<seq, starts, rows>>
    BY <1>5 DEF Attempting, BeginAttempt, RequestTools, BeginTurn, EndTurn, Answer,
       MaxTurnsExceeded, ModelBehaviorError, NonRetryable, RetriesExhausted, ScheduleRetry,
       Wake, Close, AsksModel, toolVars, CallInv, Controlled
  <2>2. \A c \in Slots : calls'[c] = None \/ calls'[c].pc = "requested"
    <3>1. CASE RequestTools
      <4>1. PICK wanted : BeginTurn(wanted)
        BY <3>1 DEF RequestTools
      <4>2. QED
        BY <4>1 DEF BeginTurn, NewCall
    <3>2. CASE calls' = calls
      BY <2>1, <3>2 DEF Idle
    <3>3. QED
      BY <1>5, <3>1, <3>2 DEF Attempting, BeginAttempt, EndTurn, Answer, MaxTurnsExceeded,
         ModelBehaviorError, NonRetryable, RetriesExhausted, ScheduleRetry, Wake, Close, toolVars
  <2>3. \A t \in Tools : Hooked(t)' = {}
    BY <2>2 DEF Hooked
  <2>4. QED
    BY <2>1, <2>3, FS_EmptySet, QuietKeepsRecord
<1>6. QED
  BY <1>1, <1>2, <1>3, <1>4, <1>5 DEF Next, Step

LEMMA RecordInvInit == Init => RecordInv
<1> SUFFICES ASSUME Init PROVE RecordInv
  OBVIOUS
<1>1. Exact
  BY ExactFresh DEF Init
<1>2. Idle /\ phase = "idle" /\ \A t \in Tools : starts[t] = <<>>
  BY DEF Init, ToolsInit, Idle
<1>3. Matched
  BY <1>2, IdleHooked DEF Matched
<1>4. QED
  BY <1>1, <1>3 DEF RecordInv

LEMMA RecordInvariant == Spec => [](CallInv /\ RecordInv)
<1>1. Init => CallInv /\ RecordInv
  BY CallInvInit, RecordInvInit
<1>2. CallInv /\ RecordInv /\ [Next]_vars => CallInv' /\ RecordInv'
  BY CallInvNext, RecordInvNext
<1>3. QED
  BY <1>1, <1>2, PTL DEF Spec

LEMMA ExactIsOnce ==
  ASSUME CallInv, RecordInv
  PROVE  EveryStartIsRecordedOnce
<1>0. /\ Exact /\ rows \subseteq Nat /\ seq \in Nat
      /\ \A t \in Tools : starts[t] \in Seq(Nat)
  BY DEF RecordInv, CallInv, TypeOK, ToolTypeOK
<1>1. \A t \in Tools : Pending(t) = Values(starts[t])
  BY DEF Pending, Values
<1>2. \A t \in Tools : Pending(t) \subseteq Nat
  BY <1>0 DEF Pending
<1>3. \A t \in Tools : Cardinality(Pending(t)) = Len(starts[t])
  BY <1>0, <1>1, DistinctCount DEF Exact
<1>4. rows \cup UNION {Pending(t) : t \in Tools} = 1..seq
  <2>1. rows \cup UNION {Pending(t) : t \in Tools} \subseteq Nat
    BY <1>0, <1>2
  <2>2. 1..seq \subseteq Nat
    BY <1>0
  <2>3. \A n \in Nat : n \in 1..seq <=> n \in rows \cup UNION {Pending(t) : t \in Tools}
    BY <1>0, <1>1 DEF Exact
  <2>4. QED
    BY <2>1, <2>2, <2>3
<1>5. \A t \in Tools : /\ Pending(t) \cap rows = {}
                       /\ \A u \in Tools \ {t} : Pending(t) \cap Pending(u) = {}
  BY <1>0, <1>1 DEF Exact
<1>6. QED
  BY <1>3, <1>4, <1>5 DEF EveryStartIsRecordedOnce

\* The hooks lose, double or invent no row of tool_calls, although they pair the end of
\* a tool with the oldest start of its name and tools end in any order.
THEOREM EveryStartHasItsRow == Spec => []EveryStartIsRecordedOnce
BY RecordInvariant, ExactIsOnce, PTL

\* A call that was not cut off has a row for every tool call it started.
THEOREM NoRowIsLost == Spec => []OnlyACutCallLosesRows
<1>1. CallInv /\ RecordInv => OnlyACutCallLosesRows
  <2> SUFFICES ASSUME CallInv, RecordInv, phase \notin {"tools", "joining"}, row # "timed_out"
               PROVE  rows = 1..seq
    BY DEF OnlyACutCallLosesRows
  <2>1. \A t \in Tools : starts[t] = <<>>
    <3>1. CASE phase = "returned"
      BY <3>1 DEF RecordInv, Matched
    <3>2. CASE phase # "returned"
      BY <3>2, IdleWaits DEF CallInv, Controlled
    <3>3. QED
      BY <3>1, <3>2
  <2>2. \A t \in Tools : Values(starts[t]) = {}
    BY <2>1 DEF Values
  <2>3. \A n \in Nat : n \in 1..seq <=> n \in rows
    BY <2>2 DEF RecordInv, Exact
  <2>4. rows \subseteq Nat /\ 1..seq \subseteq Nat
    BY DEF CallInv, TypeOK, ToolTypeOK
  <2>5. QED
    BY <2>3, <2>4
<1>2. QED
  BY <1>1, RecordInvariant, PTL

-----------------------------------------------------------------------------
(* The recovery text.                                                      *)

\* A call that the hooks know began with this attempt.
Recent ==
  \A c \in Slots :
    calls[c] # None /\ calls[c].by = None /\ calls[c].pc # "requested"
      => calls[c].id \in (attemptStart + 1)..seq

\* Everything the hooks gathered began with this attempt, what goes with a retry too,
\* and what this attempt was told began with the last.
Gathered ==
  /\ lastStart <= attemptStart /\ attemptStart <= seq
  /\ recovery \subseteq (lastStart + 1)..attemptStart
  /\ gathered \subseteq (attemptStart + 1)..seq
  /\ phase \in {"sleep", "attempt"} => accumulated \subseteq (attemptStart + 1)..seq

GatheredInv == Recent /\ Gathered

LEMMA Numbers ==
  ASSUME CallInv
  PROVE  /\ seq \in Nat /\ attemptStart \in Nat /\ lastStart \in Nat
         /\ gathered \subseteq Nat /\ accumulated \subseteq Nat /\ recovery \subseteq Nat
BY DEF CallInv, TypeOK, ToolTypeOK

\* Steps of tools that are neither the start nor the end of a hooked call.
LEMMA MovesKeepRecent ==
  ASSUME CallInv, Recent, NEW c \in Slots, UNCHANGED <<seq, attemptStart>>,
         \/ ThreadStep(c) \/ Forgotten(c)
         \/ StartInner(c) \/ EndInner(c) \/ SpecialistReturns(c)
         \/ \E d \in Slots : Delegate(c, d)
  PROVE  Recent'
<1>0. CallsOK
  BY DEF CallInv, TypeOK, ToolTypeOK, CallsOK
<1>1. CASE ThreadStep(c)
  <2>1. calls[c] # None /\ calls[c].pc # "requested" /\ calls'[c].by = calls[c].by
        /\ calls'[c].id = calls[c].id /\ \A d \in Slots \ {c} : calls'[d] = calls[d]
    BY <1>1, ThreadMoves, MoveShape
  <2>2. QED
    BY <2>1 DEF Recent
<1>2. CASE Forgotten(c) \/ EndInner(c)
  <2>1. calls'[c] = None /\ \A d \in Slots \ {c} : calls'[d] = calls[d]
    BY <1>0, <1>2 DEF Forgotten, EndInner, CallsOK
  <2>2. QED
    BY <2>1 DEF Recent
<1>3. CASE StartInner(c) \/ SpecialistReturns(c)
  <2>1. calls[c] # None /\ (calls[c].by # None \/ calls[c].pc # "requested")
        /\ calls'[c].by = calls[c].by
        /\ calls'[c].id = calls[c].id /\ \A d \in Slots \ {c} : calls'[d] = calls[d]
    BY <1>3, MoveShape DEF StartInner, SpecialistReturns, At, Results
  <2>2. QED
    BY <2>1 DEF Recent
<1>4. CASE \E d \in Slots : Delegate(c, d)
  <2>1. PICK d \in Slots : Delegate(c, d)
    BY <1>4
  <2>2. PICK r \in InnerRequests : calls' = [calls EXCEPT ![d] = NewCall(r, c)]
    BY <2>1 DEF Delegate
  <2>3. calls'[d].pc = "requested" /\ \A e \in Slots \ {d} : calls'[e] = calls[e]
    BY <1>0, <2>2 DEF CallsOK, NewCall
  <2>4. QED
    BY <2>3 DEF Recent
<1>5. QED
  BY <1>1, <1>2, <1>3, <1>4

LEMMA StartKeepsGathered ==
  ASSUME CallInv, GatheredInv, NEW c \in Slots, OnToolStart(c), UNCHANGED callOnly
  PROVE  GatheredInv'
<1>1. seq' = seq + 1 /\ gathered' = gathered
  BY DEF OnToolStart
<1>2. \A m \in Nat : m..seq \subseteq m..seq'
  BY <1>1, Numbers
<1>3. Gathered'
  BY <1>1, <1>2, Numbers DEF GatheredInv, Gathered, callOnly
<1>4. calls'[c].id = seq + 1 /\ \A d \in Slots \ {c} : calls'[d] = calls[d]
  <2>1. calls[c] \in Calls
    BY DEF OnToolStart, CallInv, TypeOK, ToolTypeOK
  <2>2. QED
    BY <2>1 DEF OnToolStart, Calls, CallInv, TypeOK, ToolTypeOK
<1>5. seq + 1 \in (attemptStart + 1)..seq'
  BY <1>1, Numbers DEF GatheredInv, Gathered
<1>6. Recent'
  BY <1>2, <1>4, <1>5, Numbers DEF GatheredInv, Recent, callOnly
<1>7. QED
  BY <1>3, <1>6 DEF GatheredInv

LEMMA EndKeepsGathered ==
  ASSUME CallInv, GatheredInv, NEW c \in Slots, OnToolEnd(c), UNCHANGED callOnly
  PROVE  GatheredInv'
<1>1. calls'[c] = None /\ \A d \in Slots \ {c} : calls'[d] = calls[d]
  BY DEF OnToolEnd, CallInv, TypeOK, ToolTypeOK
<1>2. seq' = seq /\ (gathered' = gathered \/ gathered' = gathered \cup {calls[c].id})
      /\ calls[c].id \in (attemptStart + 1)..seq
  BY DEF OnToolEnd, GatheredInv, Recent
<1>3. Gathered'
  BY <1>2 DEF GatheredInv, Gathered, callOnly
<1>4. Recent'
  BY <1>1, <1>2 DEF GatheredInv, Recent, callOnly
<1>5. QED
  BY <1>3, <1>4 DEF GatheredInv

LEMMA GatheredInvNext ==
  ASSUME CallInv, GatheredInv, [Next]_vars
  PROVE  GatheredInv'
<1>1. CASE Invoke
  <2>1. /\ attemptStart' = 0 /\ lastStart' = 0 /\ seq' = 0
        /\ gathered' = {} /\ accumulated' = {} /\ recovery' = {}
        /\ \A c \in Slots : calls'[c] = None
    BY <1>1 DEF Invoke, ToolsReset
  <2>2. QED
    BY <2>1 DEF GatheredInv, Recent, Gathered
<1>2. CASE \E c \in Slots : RunTool(c) \/ Orphan(c)
  <2>1. PICK c \in Slots : ThreadStep(c) \/ LoopStep(c) \/ Forgotten(c)
    BY <1>2 DEF RunTool, Orphan, ToolStep
  <2>2. UNCHANGED callOnly
    BY <1>2 DEF RunTool, Orphan, callOnly
  <2>3. CASE OnToolStart(c) \/ OnToolEnd(c)
    BY <2>2, <2>3, StartKeepsGathered, EndKeepsGathered
  <2>4. CASE \/ ThreadStep(c) \/ Forgotten(c)
             \/ StartInner(c) \/ EndInner(c) \/ SpecialistReturns(c)
             \/ \E d \in Slots : Delegate(c, d)
    <3>1. UNCHANGED <<seq, gathered>>
      BY <2>4, ThreadStepFrame DEF Forgotten, StartInner, EndInner, SpecialistReturns, Delegate
    <3>2. Recent'
      BY <2>2, <2>4, <3>1, MovesKeepRecent DEF GatheredInv, callOnly
    <3>3. Gathered'
      BY <2>2, <3>1 DEF GatheredInv, Gathered, callOnly
    <3>4. QED
      BY <3>2, <3>3 DEF GatheredInv
  <2>5. QED
    BY <2>1, <2>3, <2>4 DEF LoopStep
<1>3. CASE BeginAttempt
  <2>1. Recent'
    BY <1>3 DEF BeginAttempt, Recent, CallInv, Controlled, Idle
  <2>2. Gathered'
    BY <1>3, Numbers DEF BeginAttempt, GatheredInv, Gathered
  <2>3. QED
    BY <2>1, <2>2 DEF GatheredInv
<1>4. CASE TimeOut \/ (Attempting /\ ~BeginAttempt) \/ UNCHANGED vars
  <2>1. /\ UNCHANGED <<seq, gathered, recovery, attemptStart, lastStart>>
        /\ \/ accumulated' = accumulated /\ phase' \notin {"sleep", "attempt"}
           \/ accumulated' = accumulated /\ phase \in {"sleep", "attempt"}
           \/ accumulated' = gathered
    BY <1>4 DEF TimeOut, Abandon, Attempting, RequestTools, BeginTurn, EndTurn, Answer,
       MaxTurnsExceeded, ModelBehaviorError, NonRetryable, RetriesExhausted, ScheduleRetry,
       Wake, Join, Close, toolVars, vars, callOnly
  <2>2. Gathered'
    BY <2>1 DEF GatheredInv, Gathered
  <2>3. \A c \in Slots : calls'[c] = None \/ calls'[c] = calls[c] \/ calls'[c].pc = "requested"
    <3>1. CASE RequestTools
      <4>1. PICK wanted : BeginTurn(wanted)
        BY <3>1 DEF RequestTools
      <4>2. QED
        BY <4>1 DEF BeginTurn, NewCall
    <3>2. CASE TimeOut
      BY <3>2 DEF TimeOut, Abandon
    <3>3. CASE calls' = calls
      BY <3>3
    <3>4. QED
      BY <1>4, <3>1, <3>2, <3>3 DEF Attempting, EndTurn, Answer, MaxTurnsExceeded,
         ModelBehaviorError, NonRetryable, RetriesExhausted, ScheduleRetry, Wake, Join, Close,
         toolVars, vars
  <2>4. Recent'
    BY <2>1, <2>3 DEF GatheredInv, Recent
  <2>5. QED
    BY <2>2, <2>4 DEF GatheredInv
<1>5. QED
  BY <1>1, <1>2, <1>3, <1>4 DEF Next, Step

-----------------------------------------------------------------------------
(* The events.                                                             *)

\* Attempts in their order, a failure and the retry it scheduled for each but the last.
Story ==
  \A k \in DOMAIN events :
    /\ events[k].attempt = (k + 1) \div 2
    /\ \/ k % 2 = 1 /\ events[k].type = "retryable_failure"
       \/ k % 2 = 0 /\ events[k].type = "retry_scheduled"
       \/ k = Len(events) /\ row \in Outcomes

\* How far the story has come.
Length ==
  /\ phase = "idle" => events = <<>>
  /\ phase \in {"attempt", "model", "tools"} => Len(events) = 2 * (attempt - 1)
  /\ phase = "sleep" => Len(events) = 2 * attempt
  /\ phase = "joining" => Len(events) \in {2 * (attempt - 1), 2 * attempt}
  /\ phase = "returned" => Len(events) \in {2 * attempt, 2 * attempt - 1, 2 * (attempt - 1)}
  /\ row \in {"stuck", "in_progress"} /\ attempt > 1 =>
       events[Len(events)].type = "retry_succeeded"

\* The last event says whether the retry that follows it starts from nothing.
Rerun ==
  /\ phase \in {"model", "tools"} /\ attempt > 1 =>
       events[Len(events)].rerun = (recovery = {})
  /\ phase = "sleep" \/ (phase = "attempt" /\ attempt > 1) =>
       events[Len(events)].rerun = (accumulated = {})

EventInv == Story /\ Length /\ Rerun

\* One event more at the end.
LEMMA ToldOne ==
  ASSUME NEW s \in Seq(Events), NEW e \in Events, NEW r, r = s \o <<e>>
  PROVE  /\ Len(r) = Len(s) + 1 /\ DOMAIN r = 1..(Len(s) + 1) /\ DOMAIN s = 1..Len(s)
         /\ r[Len(s) + 1] = e
         /\ \A k \in 1..Len(s) : r[k] = s[k]
OBVIOUS

Told(r, s, e, f) == r = s \o <<e, f>>

LEMMA ToldTwo ==
  ASSUME NEW s \in Seq(Events), NEW e \in Events, NEW f \in Events, NEW r, Told(r, s, e, f)
  PROVE  /\ Len(r) = Len(s) + 2 /\ DOMAIN r = 1..(Len(s) + 2) /\ DOMAIN s = 1..Len(s)
         /\ r[Len(s) + 1] = e /\ r[Len(s) + 2] = f
         /\ \A k \in 1..Len(s) : r[k] = s[k]
BY DEF Told

LEMMA StoryOpen ==
  ASSUME CallInv, Story, row = "started"
  PROVE  \A k \in DOMAIN events :
           /\ events[k].attempt = (k + 1) \div 2
           /\ \/ k % 2 = 1 /\ events[k].type = "retryable_failure"
              \/ k % 2 = 0 /\ events[k].type = "retry_scheduled"
BY DEF Story, Outcomes, Statuses

LEMMA CloseWithEvent ==
  ASSUME CallInv, EventInv, phase = "model", NEW outcome \in Outcomes, NEW e \in Events,
         e.attempt = attempt, e.type = "retry_succeeded" \/ outcome \notin {"stuck", "in_progress"},
         Close(outcome, <<e>>)
  PROVE  EventInv'
<1>0. /\ row = "started" /\ attempt \in Nat \ {0} /\ events \in Seq(Events)
      /\ Len(events) = 2 * (attempt - 1)
  BY Limits DEF EventInv, Length, CallInv, TypeOK, Controlled
<1>1. /\ events' = events \o <<e>> /\ row' = outcome /\ phase' = "returned"
      /\ attempt' = attempt
  BY DEF Close
<1>2. /\ Len(events') = Len(events) + 1 /\ DOMAIN events' = 1..(Len(events) + 1)
      /\ DOMAIN events = 1..Len(events)
      /\ events'[Len(events) + 1] = e /\ \A k \in 1..Len(events) : events'[k] = events[k]
  BY <1>0, <1>1, ToldOne
<1>3. Story'
  <2> SUFFICES ASSUME NEW k \in 1..(Len(events) + 1)
               PROVE  /\ events'[k].attempt = (k + 1) \div 2
                      /\ \/ k % 2 = 1 /\ events'[k].type = "retryable_failure"
                         \/ k % 2 = 0 /\ events'[k].type = "retry_scheduled"
                         \/ k = Len(events') /\ row' \in Outcomes
    BY <1>2 DEF Story
  <2>1. CASE k \in 1..Len(events)
    BY <1>0, <1>2, <2>1, StoryOpen DEF EventInv
  <2>2. CASE k = Len(events) + 1
    <3>1. (k + 1) \div 2 = attempt
      BY <1>0, <2>2
    <3>2. QED
      BY <1>1, <1>2, <2>2, <3>1
  <2>3. QED
    BY <1>0, <2>1, <2>2
<1>4. Length'
  <2>1. Len(events') = 2 * attempt' - 1
    BY <1>0, <1>1, <1>2
  <2>2. row' \in {"stuck", "in_progress"} => events'[Len(events')].type = "retry_succeeded"
    BY <1>1, <1>2
  <2>3. QED
    BY <1>1, <2>1, <2>2 DEF Length
<1>5. Rerun'
  BY <1>1 DEF Rerun
<1>6. QED
  BY <1>3, <1>4, <1>5 DEF EventInv

LEMMA CloseWithout ==
  ASSUME CallInv, EventInv, phase \in {"model", "joining"}, NEW outcome \in Outcomes,
         outcome \in {"stuck", "in_progress"} => attempt = 1,
         Close(outcome, <<>>)
  PROVE  EventInv'
<1>0. /\ row = "started" /\ attempt \in Nat \ {0} /\ events \in Seq(Events)
      /\ Len(events) \in {2 * (attempt - 1), 2 * attempt}
  BY Limits DEF EventInv, Length, CallInv, TypeOK, Controlled
<1>1. events' = events /\ row' = outcome /\ phase' = "returned" /\ attempt' = attempt
  BY <1>0 DEF Close
<1>2. Story'
  BY <1>0, <1>1, StoryOpen DEF EventInv, Story
<1>3. Length'
  BY <1>0, <1>1 DEF Length
<1>4. Rerun'
  BY <1>1 DEF Rerun
<1>5. QED
  BY <1>2, <1>3, <1>4 DEF EventInv

LEMMA EndsTell ==
  ASSUME CallInv, EventInv,
         \/ Answer \/ MaxTurnsExceeded \/ ModelBehaviorError \/ NonRetryable
         \/ RetriesExhausted \/ Join
  PROVE  EventInv'
<1>0. phase \in {"model", "joining"} /\ attempt \in 1..MaxAttempts /\ attempt \in Nat
  BY Limits DEF Answer, MaxTurnsExceeded, ModelBehaviorError, NonRetryable, RetriesExhausted, Join,
     AsksModel, CallInv, Controlled
<1>1. \A type \in EventTypes : /\ Event(type, TRUE) \in Events
                               /\ Event(type, TRUE).attempt = attempt
                               /\ Event(type, TRUE).type = type
  <2>1. \A type \in EventTypes : Event(type, TRUE) \in Events
    BY <1>0, EventType
  <2>2. QED
    BY <2>1 DEF Event
<1>2. CASE Answer \/ MaxTurnsExceeded
  <2>1. PICK outcome \in Outcomes : Close(outcome, RetrySucceeded)
    BY <1>2 DEF Answer, MaxTurnsExceeded, Outcomes, Statuses
  <2>2. phase = "model"
    BY <1>2 DEF Answer, MaxTurnsExceeded, AsksModel
  <2>3. CASE attempt > 1
    <3>1. Close(outcome, <<Event("retry_succeeded", TRUE)>>)
      BY <2>1, <2>3 DEF RetrySucceeded
    <3>2. "retry_succeeded" \in EventTypes
      BY DEF EventTypes
    <3>3. QED
      BY <1>1, <2>2, <3>1, <3>2, CloseWithEvent
  <2>4. CASE ~(attempt > 1)
    <3>1. Close(outcome, <<>>) /\ attempt = 1
      BY <1>0, <2>1, <2>4 DEF RetrySucceeded
    <3>2. QED
      BY <2>2, <3>1, CloseWithout
  <2>5. QED
    BY <2>3, <2>4
<1>3. CASE ModelBehaviorError \/ Join
  <2>1. PICK outcome \in {"done", "timed_out"} : Close(outcome, <<>>)
    BY <1>3 DEF ModelBehaviorError, Join
  <2>2. outcome \in Outcomes /\ outcome \notin {"stuck", "in_progress"}
    BY DEF Outcomes, Statuses
  <2>3. QED
    BY <1>0, <2>1, <2>2, CloseWithout
<1>4. CASE NonRetryable \/ RetriesExhausted
  <2>1. PICK type \in {"non_retryable_failure", "retries_exhausted"} :
          Close("failed", <<Event(type, TRUE)>>)
    BY <1>4 DEF NonRetryable, RetriesExhausted
  <2>2. phase = "model"
    BY <1>4 DEF NonRetryable, RetriesExhausted, AsksModel
  <2>3. type \in EventTypes /\ "failed" \in Outcomes
    BY DEF EventTypes, Outcomes
  <2>4. QED
    BY <1>1, <2>1, <2>2, <2>3, CloseWithEvent
<1>5. QED
  BY <1>2, <1>3, <1>4

LEMMA ScheduleTells ==
  ASSUME CallInv, EventInv, ScheduleRetry
  PROVE  EventInv'
<1>0. /\ row = "started" /\ attempt \in 1..MaxAttempts /\ attempt \in Nat \ {0}
      /\ events \in Seq(Events) /\ Len(events) = 2 * (attempt - 1)
  BY Limits DEF ScheduleRetry, AsksModel, EventInv, Length, CallInv, TypeOK, Controlled
<1> DEFINE e == Event("retryable_failure", TRUE)
           f == Event("retry_scheduled", gathered = {})
<1>1. e \in Events /\ f \in Events
  <2>1. (gathered = {}) \in BOOLEAN
    OBVIOUS
  <2>2. QED
    BY <1>0, <2>1 DEF Event, Events, EventTypes
<1>2. /\ Told(events', events, e, f) /\ row' = row /\ phase' = "sleep" /\ attempt' = attempt
      /\ accumulated' = gathered
  BY DEF ScheduleRetry, Told
<1>3. /\ e.attempt = attempt /\ e.type = "retryable_failure"
      /\ f.attempt = attempt /\ f.type = "retry_scheduled"
  BY DEF Event
<1>4. f.rerun = (gathered = {})
  BY Zenon DEF Event
<1> HIDE DEF e, f
<1>5. /\ Len(events') = Len(events) + 2 /\ DOMAIN events' = 1..(Len(events) + 2)
      /\ DOMAIN events = 1..Len(events)
      /\ events'[Len(events) + 1] = e /\ events'[Len(events) + 2] = f
      /\ \A k \in 1..Len(events) : events'[k] = events[k]
  BY <1>0, <1>1, <1>2, ToldTwo, SMTT(30)
<1>6. Story'
  <2> SUFFICES ASSUME NEW k \in 1..(Len(events) + 2)
               PROVE  /\ events'[k].attempt = (k + 1) \div 2
                      /\ \/ k % 2 = 1 /\ events'[k].type = "retryable_failure"
                         \/ k % 2 = 0 /\ events'[k].type = "retry_scheduled"
    BY <1>5 DEF Story
  <2>1. CASE k \in 1..Len(events)
    BY <1>0, <1>5, <2>1, StoryOpen DEF EventInv
  <2>2. CASE k = Len(events) + 1
    <3>1. (k + 1) \div 2 = attempt /\ k % 2 = 1
      BY <1>0, <2>2
    <3>2. QED
      BY <1>3, <1>5, <2>2, <3>1
  <2>3. CASE k = Len(events) + 2
    <3>1. (k + 1) \div 2 = attempt /\ k % 2 = 0
      BY <1>0, <2>3
    <3>2. QED
      BY <1>3, <1>5, <2>3, <3>1
  <2>4. QED
    BY <1>0, <2>1, <2>2, <2>3
<1>7. Length'
  BY <1>0, <1>2, <1>5 DEF Length
<1>8. Rerun'
  <2>1. events'[Len(events')] = f
    BY <1>5
  <2>2. events'[Len(events')].rerun = (accumulated' = {})
    BY <1>2, <1>4, <2>1, Zenon
  <2>3. phase' = "sleep"
    BY <1>2
  <2>4. QED
    BY <2>2, <2>3, Zenon DEF Rerun
<1>9. QED
  BY <1>6, <1>7, <1>8 DEF EventInv

LEMMA StorySame ==
  ASSUME Story, UNCHANGED <<events, row>>
  PROVE  Story'
BY DEF Story

LEMMA WakeTells ==
  ASSUME CallInv, EventInv, Wake
  PROVE  EventInv'
<1>1. /\ phase = "sleep" /\ phase' = "attempt" /\ attempt' = attempt + 1
      /\ UNCHANGED <<events, row, accumulated>> /\ row = "started"
      /\ attempt \in Nat \ {0}
  BY Limits DEF Wake, CallInv, Controlled
<1>2. Story'
  BY <1>1, StorySame DEF EventInv
<1>3. Length'
  BY <1>1 DEF EventInv, Length
<1>4. Rerun'
  BY <1>1 DEF EventInv, Rerun
<1>5. QED
  BY <1>2, <1>3, <1>4 DEF EventInv

LEMMA BeginTells ==
  ASSUME CallInv, EventInv, BeginAttempt
  PROVE  EventInv'
<1>1. /\ phase = "attempt" /\ phase' = "model" /\ UNCHANGED <<events, row, attempt, accumulated>>
      /\ attempt > 1 => recovery' = accumulated
      /\ row = "started" /\ attempt \in Nat \ {0}
  BY Limits DEF BeginAttempt, CallInv, Controlled
<1>2. Story'
  BY <1>1, StorySame DEF EventInv
<1>3. Length'
  BY <1>1 DEF EventInv, Length
<1>4. Rerun'
  <2>1. attempt > 1 => events'[Len(events')].rerun = (recovery' = {})
    BY <1>1 DEF EventInv, Rerun
  <2>2. QED
    BY <1>1, <2>1 DEF Rerun
<1>5. QED
  BY <1>2, <1>3, <1>4 DEF EventInv

\* Steps of a turn, and of what it leaves behind.
LEMMA TurnsTell ==
  ASSUME CallInv, EventInv,
         \/ RequestTools \/ EndTurn \/ TimeOut \/ UNCHANGED vars
         \/ \E c \in Slots : RunTool(c) \/ Orphan(c)
  PROVE  EventInv'
<1>1. /\ UNCHANGED <<events, row, attempt, accumulated, recovery>>
      /\ \/ phase' = phase
         \/ phase \in {"model", "tools"} /\ phase' \in {"model", "tools"}
         \/ phase \in {"model", "tools", "sleep"} /\ phase' = "joining"
  BY DEF RequestTools, AsksModel, EndTurn, TimeOut, vars, callOnly, RunTool, Orphan
<1>2. Story'
  BY <1>1, StorySame DEF EventInv
<1>3. Length'
  BY <1>1 DEF EventInv, Length
<1>4. Rerun'
  BY <1>1 DEF EventInv, Rerun
<1>5. QED
  BY <1>2, <1>3, <1>4 DEF EventInv

LEMMA InvokeTells ==
  ASSUME Invoke
  PROVE  EventInv'
<1>1. /\ events' = <<>> /\ attempt' = 1 /\ phase' = "attempt" /\ row' = "started"
  BY DEF Invoke
<1>2. DOMAIN events' = {} /\ Len(events') = 0
  BY <1>1
<1>3. QED
  BY <1>1, <1>2 DEF EventInv, Story, Length, Rerun

LEMMA EventInvNext ==
  ASSUME CallInv, EventInv, [Next]_vars
  PROVE  EventInv'
BY InvokeTells, BeginTells, EndsTell, ScheduleTells, WakeTells, TurnsTell
DEF Next, Step, Attempting

LEMMA RetryInvInit == Init => GatheredInv /\ EventInv
<1> SUFFICES ASSUME Init PROVE GatheredInv /\ EventInv
  OBVIOUS
<1>1. GatheredInv
  BY DEF Init, ToolsInit, GatheredInv, Recent, Gathered
<1>2. events = <<>> /\ DOMAIN events = {} /\ Len(events) = 0
  BY DEF Init
<1>3. EventInv
  BY <1>2 DEF Init, EventInv, Story, Length, Rerun
<1>4. QED
  BY <1>1, <1>3

LEMMA RetryInvariant == Spec => [](CallInv /\ GatheredInv /\ EventInv)
<1>1. Init => CallInv /\ GatheredInv /\ EventInv
  BY CallInvInit, RetryInvInit
<1>2. CallInv /\ GatheredInv /\ EventInv /\ [Next]_vars
        => CallInv' /\ GatheredInv' /\ EventInv'
  BY CallInvNext, GatheredInvNext, EventInvNext
<1>3. QED
  BY <1>1, <1>2, PTL DEF Spec

\* A retry is told of the attempt it follows and of no other, and its event says truly
\* whether it starts from nothing.
THEOREM RetryIsToldOfTheLastAttempt == Spec => []RecoveryIsOfTheLastAttempt
<1>1. CallInv /\ GatheredInv /\ EventInv => RecoveryIsOfTheLastAttempt
  BY DEF GatheredInv, Gathered, EventInv, Rerun, RecoveryIsOfTheLastAttempt
<1>2. QED
  BY <1>1, RetryInvariant, PTL

\* provider_calls holds a failure and a retry for each failed attempt, in their order,
\* and at most one event that closes the call.
THEOREM EventsAreInOrder == Spec => []EventsTellTheAttempts
<1>1. CallInv /\ EventInv => EventsTellTheAttempts
  <2> SUFFICES ASSUME CallInv, EventInv PROVE EventsTellTheAttempts
    OBVIOUS
  <2>1. attempt \in Nat /\ events \in Seq(Events) /\ phase \in Phases
    BY Limits DEF CallInv, TypeOK
  <2>2. Len(events) \in {2 * attempt, 2 * attempt - 1, 2 * (attempt - 1)} \cup {0}
    BY <2>1 DEF EventInv, Length, Phases
  <2>3. phase = "model" => Len(events) = 2 * (attempt - 1)
    BY DEF EventInv, Length
  <2>4. QED
    BY <2>2, <2>3 DEF EventInv, Story, Length, EventsTellTheAttempts
<1>2. QED
  BY <1>1, RetryInvariant, PTL
================================================================================
