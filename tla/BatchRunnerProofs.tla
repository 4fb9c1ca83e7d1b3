--------------------------- MODULE BatchRunnerProofs ---------------------------
(***************************************************************************)
(* What a batch promises, for every number of cases.  The invariants are   *)
(* layered: types, the order of the loop, what containers leave in their    *)
(* directories, who may still be alive, and on top of these the verdicts   *)
(* and the records.  Then the batch is set beside those who rely on it: its *)
(* contract, and the batch processes of Experiment and FinalExperiment.     *)
(* The last part counts the steps the host has left.                        *)
(***************************************************************************)
EXTENDS BatchRunnerRefinement, FiniteSetTheorems, TLAPS

TimedOut(c) == results[c] # None /\ results[c].status = "timed_out"
Decided(c)  == results[c] # None /\ results[c].status \in Outcomes

\* Nothing has happened to a case the host has not come to.
Untouched(c) ==
  /\ cont[c] = "none" /\ outcome[c] = None /\ results[c] = None
  /\ runDir[c] = None /\ caseDir[c] = None /\ batchDb[c] = "none"

OrderInv ==
  /\ \A c \in Case : c > idx => Untouched(c)
  /\ \A c \in Case : c < idx => results[c] # None
  /\ pc \in {"prepare", "start"} => Untouched(idx)
  /\ pc = "wait" => results[idx] = None
  /\ pc \in {"orphan", "rename", "merge", "finalize", "cleanup", "save", "done"} =>
       results[idx] # None
  /\ pc \in {"wait", "orphan", "rename"} => caseDir[idx] = None
  /\ pc \in {"merge", "finalize"} => caseDir[idx] # None
  /\ pc = "rename" => found \in Case
  /\ pc \in {"save", "done"} => idx = Cases

-----------------------------------------------------------------------------
(* Types.                                                                  *)

LEMMA Numbers == Cases \in Nat /\ Cases >= 1 /\ Case \subseteq Nat /\ 1 \in Case /\ Cases \in Case
BY BatchAssumption DEF BatchAssumption, Case

LEMMA DirFields ==
  ASSUME NEW d \in Dirs
  PROVE  d # None /\ d.run \in Case /\ d.row \in Rows
BY NoneAssumption DEF NoneAssumption, Dirs

LEMMA DirUpdates ==
  ASSUME NEW d \in Dirs
  PROVE  /\ d # None /\ d.run \in Case /\ d.row \in Rows /\ d.log \in BOOLEAN
         /\ \A r \in Rows : /\ [d EXCEPT !.row = r] \in Dirs /\ [d EXCEPT !.row = r].run = d.run
                            /\ [d EXCEPT !.row = r].row = r
         /\ /\ [d EXCEPT !.log = TRUE] \in Dirs /\ [d EXCEPT !.log = TRUE].run = d.run
            /\ [d EXCEPT !.log = TRUE].row = d.row
         /\ \A s \in {"none", "timed_out"} \cup Outcomes :
              /\ [d EXCEPT !.summary = s] \in Dirs /\ [d EXCEPT !.summary = s].run = d.run
              /\ [d EXCEPT !.summary = s].row = d.row
<1>1. d # None
  BY NoneAssumption DEF NoneAssumption
<1>2. QED
  BY <1>1 DEF Dirs

LEMMA DirectoryType ==
  ASSUME TypeOK, NEW c \in Case
  PROVE  Directory(c) \in Dirs /\ EmptyDir(c) \in Dirs
BY DEF TypeOK, Directory, EmptyDir, Dirs, Rows

\* What an observer may leave of the change it was told of.
LEMMA KeptDirs ==
  ASSUME NEW old \in Dirs, NEW new \in Dirs, NEW d \in Kept(old, new)
  PROVE  d \in Dirs /\ d.run = new.run /\ d.row \in {old.row, new.row}
<1>1. CASE Lossy
  <2>1. PICK r \in {old.row, new.row}, l \in {old.log, new.log} :
          d = [new EXCEPT !.row = r, !.log = l]
    BY <1>1 DEF Kept
  <2>2. QED
    BY <2>1 DEF Dirs
<1>2. CASE ~Lossy
  BY <1>2 DEF Kept
<1>3. QED
  BY <1>1, <1>2

\* A container that writes: only its own directory, which keeps its run.
LEMMA TouchedDirs ==
  ASSUME TypeOK, NEW c \in Case, NEW d \in Dirs, Touched(c, d)
  PROVE  /\ runDir' \in [Case -> Dirs \cup {None}] /\ fresh' = fresh \cup {c}
         /\ runDir'[c] = d /\ \A e \in Case \ {c} : runDir'[e] = runDir[e]
BY DEF TypeOK, Touched

LEMMA ObservedDirs ==
  ASSUME TypeOK, NEW c \in Case, NEW new \in Dirs, new.run = c, Observe(c, new)
  PROVE  /\ runDir' \in [Case -> Dirs \cup {None}] /\ fresh' \in {fresh, fresh \cup {c}}
         /\ \A e \in Case \ {c} : runDir'[e] = runDir[e]
         /\ \/ runDir'[c] = runDir[c]
            \/ /\ runDir[c] \in Dirs /\ runDir'[c] \in Dirs /\ runDir'[c].run = c
               /\ runDir'[c].row \in {runDir[c].row, new.row}
<1>1. CASE runDir[c] = None
  BY <1>1 DEF Observe, TypeOK
<1>2. CASE runDir[c] # None
  <2>1. PICK d \in Kept(runDir[c], new) : Touched(c, d)
    BY <1>2 DEF Observe
  <2>2. runDir[c] \in Dirs
    BY <1>2 DEF TypeOK
  <2>3. d \in Dirs /\ d.run = c /\ d.row \in {runDir[c].row, new.row}
    BY <2>1, <2>2, KeptDirs
  <2>4. QED
    BY <2>1, <2>2, <2>3, TouchedDirs
<1>3. QED
  BY <1>1, <1>2

\* What a container does in its directory: the row comes from the run, or stays.
ContainerMoves(c, row) ==
  /\ runDir' \in [Case -> Dirs \cup {None}] /\ fresh' \in {fresh, fresh \cup {c}}
  /\ \A e \in Case \ {c} : runDir'[e] = runDir[e]
  /\ \/ runDir'[c] = runDir[c]
     \/ /\ runDir'[c] \in Dirs /\ runDir'[c].run = c
        /\ \/ runDir'[c].row \in {"none", row}
           \/ /\ runDir[c] \in Dirs
              /\ runDir'[c].row = runDir[c].row

LEMMA CreateMoves ==
  ASSUME TypeOK, NEW c \in Case, CreateRunDir(c)
  PROVE  ContainerMoves(c, "none")
BY DirectoryType, TouchedDirs DEF CreateRunDir, ContainerMoves, EmptyDir

LEMMA DirectoryRun ==
  ASSUME TypeOK, NEW c \in Case, runDir[c] # None => runDir[c].run = c
  PROVE  /\ Directory(c) \in Dirs /\ Directory(c).run = c
         /\ \/ Directory(c).row = "none"
            \/ /\ runDir[c] \in Dirs
               /\ Directory(c).row = runDir[c].row
<1>1. CASE runDir[c] = None
  BY <1>1, DirectoryType DEF Directory, EmptyDir
<1>2. CASE runDir[c] # None
  BY <1>2, DirectoryType DEF Directory, TypeOK
<1>3. QED
  BY <1>1, <1>2

LEMMA RecordMoves ==
  ASSUME TypeOK, NEW c \in Case, runDir[c] # None => runDir[c].run = c, RecordRun(c) \/ LogRun(c)
  PROVE  ContainerMoves(c, "open")
<1> DEFINE opened == [Directory(c) EXCEPT !.row = "open"]
           logged == [Directory(c) EXCEPT !.log = TRUE]
<1>1. /\ opened \in Dirs /\ opened.run = c /\ opened.row = "open"
      /\ logged \in Dirs /\ logged.run = c /\ logged.row = Directory(c).row
  BY DirectoryRun, DirUpdates DEF Rows
<1>2. Observe(c, opened) \/ Observe(c, logged)
  BY DEF RecordRun, LogRun
<1> HIDE DEF opened, logged
<1>3. CASE Observe(c, opened)
  BY <1>1, <1>3, ObservedDirs DEF ContainerMoves
<1>4. CASE Observe(c, logged)
  BY <1>1, <1>4, ObservedDirs, DirectoryRun DEF ContainerMoves
<1>5. QED
  BY <1>2, <1>3, <1>4

LEMMA IterationMoves ==
  ASSUME TypeOK, NEW c \in Case, runDir[c] # None => runDir[c].run = c, RunIteration(c)
  PROVE  ContainerMoves(c, "none")
<1> DEFINE logged == [Directory(c) EXCEPT !.log = TRUE]
<1>1. logged \in Dirs /\ logged.run = c /\ logged.row = Directory(c).row
  BY DirectoryRun, DirUpdates
<1>2. PICK d \in Kept(Directory(c), logged) : Touched(c, d)
  BY DEF RunIteration
<1> HIDE DEF logged
<1>3. d \in Dirs /\ d.run = c /\ d.row = Directory(c).row
  BY <1>1, <1>2, DirectoryRun, KeptDirs
<1>4. QED
  BY <1>2, <1>3, DirectoryRun, TouchedDirs DEF ContainerMoves

LEMMA SummaryMoves ==
  ASSUME TypeOK, NEW c \in Case, runDir[c] # None => runDir[c].run = c, WriteSummary(c)
  PROVE  ContainerMoves(c, "none") /\ \E s \in Outcomes : outcome' = [outcome EXCEPT ![c] = s]
<1>1. PICK s \in Outcomes : /\ outcome' = [outcome EXCEPT ![c] = s]
                            /\ Touched(c, [Directory(c) EXCEPT !.summary = s])
  BY DEF WriteSummary
<1> DEFINE d == [Directory(c) EXCEPT !.summary = s]
<1>2. d \in Dirs /\ d.run = c /\ d.row = Directory(c).row
  BY DirectoryRun DEF Dirs
<1>3. Touched(c, d)
  BY <1>1
<1> HIDE DEF d
<1>4. QED
  BY <1>1, <1>2, <1>3, DirectoryRun, TouchedDirs DEF ContainerMoves

LEMMA CloseMoves ==
  ASSUME TypeOK, NEW c \in Case, runDir[c] # None => runDir[c].run = c, CloseRun(c),
         outcome[c] \in Outcomes
  PROVE  ContainerMoves(c, outcome[c])
<1> DEFINE row == IF Directory(c).row = "none" THEN "none" ELSE outcome[c]
           new == [Directory(c) EXCEPT !.log = TRUE, !.row = row]
<1>1. row \in Rows /\ row \in {"none", outcome[c]}
  BY DEF Rows
<1>2. Directory(c) \in Dirs /\ Directory(c).run = c
  BY DirectoryRun
<1>3. new \in Dirs /\ new.run = c /\ new.row = row
  <2> HIDE DEF row
  <2> QED BY <1>1, <1>2 DEF Dirs
<1>4. Observe(c, new)
  <2>1. new = [Directory(c) EXCEPT !.log = TRUE,
                                   !.row = IF @ = "none" THEN "none" ELSE outcome[c]]
    BY <1>2 DEF Dirs
  <2>2. QED
    BY <2>1 DEF CloseRun
<1> HIDE DEF new, row
<1>5. QED
  BY <1>1, <1>3, <1>4, ObservedDirs DEF ContainerMoves

-----------------------------------------------------------------------------
(* What containers leave behind.                                           *)

\* A row a run wrote, of the outcome the run has come to.
Genuine(row, end) == row \in {"none", "open"} \/ (row \in Outcomes /\ row = end)

RunsInv ==
  \A c \in Case :
    /\ cont[c] \in {"none", "starting", "created", "recorded", "running"} => outcome[c] = None
    /\ cont[c] \in {"summarised", "closed", "reported"} => outcome[c] \in Outcomes
    /\ runDir[c] # None => runDir[c].run = c /\ Genuine(runDir[c].row, outcome[c])

LEMMA ContainerSteps ==
  ASSUME TypeOK, NEW c \in Case, Container(c)
  PROVE  /\ Alive(c) /\ UNCHANGED <<hostVars, storeVars>>
         /\ cont' \in [Case -> Phases]
         /\ \A e \in Case \ {c} : cont'[e] = cont[e]
<1>1. cont \in [Case -> Phases]
  BY DEF TypeOK
<1>2. ASSUME NEW from \in Phases \ {"none", "reported", "failed", "killed"}, NEW to \in Phases,
             ContainerStep(c, from, to)
      PROVE  /\ Alive(c) /\ UNCHANGED <<hostVars, storeVars>>
             /\ cont' \in [Case -> Phases]
             /\ \A e \in Case \ {c} : cont'[e] = cont[e]
  BY <1>1, <1>2 DEF ContainerStep, Alive
<1>3. CASE \/ CreateRunDir(c) \/ RecordRun(c) \/ LogRun(c) \/ RunIteration(c)
           \/ WriteSummary(c) \/ CloseRun(c) \/ Report(c)
  BY <1>2, <1>3 DEF CreateRunDir, RecordRun, LogRun, RunIteration, WriteSummary, CloseRun,
     Report, Phases
<1>4. CASE ExitWithoutReport(c)
  BY <1>1, <1>2, <1>4 DEF ExitWithoutReport, Alive, Phases
<1>5. QED
  BY <1>3, <1>4 DEF Container

\* What a container writes is genuine.
LEMMA ContainerFrame ==
  ASSUME TypeOK, RunsInv, NEW c \in Case, Container(c)
  PROVE  /\ outcome' \in [Case -> Outcomes \cup {None}]
         /\ \A e \in Case \ {c} : outcome'[e] = outcome[e]
         /\ outcome[c] \in Outcomes => outcome'[c] = outcome[c]
         /\ \E row \in {"none", "open", outcome[c]} :
              /\ ContainerMoves(c, row)
              /\ row \in {"none", "open"} \cup Outcomes
<1>1. /\ runDir[c] # None => runDir[c].run = c
      /\ runDir \in [Case -> Dirs \cup {None}]
      /\ outcome \in [Case -> Outcomes \cup {None}]
  BY DEF RunsInv, TypeOK
<1>2. CASE WriteSummary(c)
  <2>1. cont[c] = "running"
    BY <1>2 DEF WriteSummary, ContainerStep
  <2>2. outcome[c] \notin Outcomes
    BY <2>1, NoneAssumption DEF RunsInv, NoneAssumption
  <2>3. ContainerMoves(c, "none") /\ \E s \in Outcomes : outcome' = [outcome EXCEPT ![c] = s]
    BY <1>1, <1>2, SummaryMoves
  <2>4. QED
    BY <1>1, <2>2, <2>3
<1>3. CASE ~WriteSummary(c)
  <2>1. outcome' = outcome
    BY <1>3 DEF Container, CreateRunDir, RecordRun, LogRun, RunIteration, CloseRun, Report,
                ExitWithoutReport
  <2>2. CASE CreateRunDir(c) \/ RunIteration(c)
    <3>1. ContainerMoves(c, "none")
      BY <1>1, <2>2, CreateMoves, IterationMoves
    <3>2. QED
      BY <1>1, <2>1, <3>1
  <2>3. CASE RecordRun(c) \/ LogRun(c)
    <3>1. ContainerMoves(c, "open")
      BY <1>1, <2>3, RecordMoves
    <3>2. QED
      BY <1>1, <2>1, <3>1
  <2>4. CASE CloseRun(c)
    <3>1. cont[c] = "summarised"
      BY <2>4 DEF CloseRun, ContainerStep
    <3>2. outcome[c] \in Outcomes
      BY <3>1 DEF RunsInv
    <3>3. ContainerMoves(c, outcome[c])
      BY <1>1, <2>4, <3>2, CloseMoves
    <3>4. QED
      BY <1>1, <2>1, <3>2, <3>3
  <2>5. CASE Report(c) \/ ExitWithoutReport(c)
    <3>1. ContainerMoves(c, "none")
      BY <1>1, <2>5 DEF Report, ExitWithoutReport, ContainerMoves
    <3>2. QED
      BY <1>1, <2>1, <3>1
  <2>6. QED
    BY <1>3, <2>2, <2>3, <2>4, <2>5 DEF Container
<1>4. QED
  BY <1>2, <1>3

LEMMA ContainerType ==
  ASSUME TypeOK, RunsInv, NEW c \in Case, Container(c)
  PROVE  TypeOK'
BY ContainerSteps, ContainerFrame DEF TypeOK, ContainerMoves, hostVars, storeVars

LEMMA ContainerKeepsRuns ==
  ASSUME TypeOK, RunsInv, NEW c \in Case, Container(c)
  PROVE  RunsInv'
<1>1. PICK row \in {"none", "open", outcome[c]} :
        ContainerMoves(c, row) /\ row \in {"none", "open"} \cup Outcomes
  BY ContainerFrame
<1>2. \A e \in Case \ {c} : cont'[e] = cont[e] /\ outcome'[e] = outcome[e]
                            /\ runDir'[e] = runDir[e]
  BY <1>1, ContainerFrame, ContainerSteps DEF ContainerMoves
<1>3. /\ cont'[c] \in {"none", "starting", "created", "recorded", "running"} => outcome'[c] = None
      /\ cont'[c] \in {"summarised", "closed", "reported"} => outcome'[c] \in Outcomes
  <2>1. cont \in [Case -> Phases] /\ outcome \in [Case -> Outcomes \cup {None}]
    BY DEF TypeOK
  <2>2. CASE CreateRunDir(c) \/ RecordRun(c) \/ LogRun(c) \/ RunIteration(c)
    BY <2>1, <2>2 DEF CreateRunDir, RecordRun, LogRun, RunIteration, ContainerStep, RunsInv
  <2>3. CASE WriteSummary(c)
    BY <2>1, <2>3 DEF WriteSummary, ContainerStep
  <2>4. CASE CloseRun(c) \/ Report(c) \/ ExitWithoutReport(c)
    BY <2>1, <2>4 DEF CloseRun, Report, ExitWithoutReport, ContainerStep, RunsInv
  <2>5. QED
    BY <2>2, <2>3, <2>4 DEF Container
<1>4. ASSUME runDir'[c] # None
      PROVE  runDir'[c].run = c /\ Genuine(runDir'[c].row, outcome'[c])
  <2>1. outcome[c] \in Outcomes => outcome'[c] = outcome[c]
    BY ContainerFrame
  <2>2. runDir[c] # None => runDir[c].run = c /\ Genuine(runDir[c].row, outcome[c])
    BY DEF RunsInv
  <2>3. CASE runDir'[c] = runDir[c]
    BY <1>4, <2>1, <2>2, <2>3 DEF Genuine
  <2>4. CASE runDir'[c] # runDir[c]
    <3>1. /\ runDir'[c].run = c
          /\ \/ runDir'[c].row \in {"none", row}
             \/ runDir[c] \in Dirs /\ runDir'[c].row = runDir[c].row
      BY <1>1, <2>4 DEF ContainerMoves
    <3>2. CASE runDir'[c].row \in {"none", row}
      BY <1>1, <2>1, <3>1, <3>2 DEF Genuine
    <3>3. CASE runDir[c] \in Dirs /\ runDir'[c].row = runDir[c].row
      <4>1. runDir[c] # None
        BY <3>3, NoneAssumption DEF NoneAssumption
      <4>2. QED
        BY <2>1, <2>2, <3>1, <3>3, <4>1 DEF Genuine
    <3>4. QED
      BY <3>1, <3>2, <3>3
  <2>5. QED
    BY <2>3, <2>4
<1>5. QED
  <2> SUFFICES ASSUME NEW e \in Case
      PROVE  /\ cont'[e] \in {"none", "starting", "created", "recorded", "running"} =>
                  outcome'[e] = None
             /\ cont'[e] \in {"summarised", "closed", "reported"} => outcome'[e] \in Outcomes
             /\ runDir'[e] # None => runDir'[e].run = e /\ Genuine(runDir'[e].row, outcome'[e])
    BY DEF RunsInv, Genuine
  <2>1. CASE e = c
    BY <1>3, <1>4, <2>1
  <2>2. CASE e # c
    BY <1>2, <2>2 DEF RunsInv
  <2>3. QED
    BY <2>1, <2>2

-----------------------------------------------------------------------------
(* The steps of the host.                                                  *)

LEMMA ResultSet ==
  ASSUME TypeOK, NEW r \in Results, SetResult(r)
  PROVE  /\ results' \in [Case -> Results \cup {None}] /\ results'[idx] = r /\ r # None
         /\ \A c \in Case \ {idx} : results'[c] = results[c]
BY NoneAssumption DEF NoneAssumption, TypeOK, SetResult

LEMMA NextCaseMoves ==
  ASSUME TypeOK, NextCase
  PROVE  /\ idx' \in Case
         /\ \/ pc' = "prepare" /\ idx' = idx + 1
            \/ pc' = "save" /\ idx' = idx /\ idx = Cases
BY Numbers DEF TypeOK, NextCase, Case

LEMMA KillMoves ==
  ASSUME TypeOK, NEW c \in Case, cont' = Killed(c) \/ UNCHANGED cont
  PROVE  /\ cont' \in [Case -> Phases]
         /\ \A d \in Case : cont'[d] = cont[d] \/ (d = c /\ Alive(d) /\ cont'[d] = "killed")
BY DEF TypeOK, Killed, Alive, Phases

LEMMA ClosedDirs ==
  ASSUME TypeOK, NEW d \in Dirs, caseDir[idx] = d,
         NEW s \in {"none", "timed_out"} \cup Outcomes, NEW r \in Rows,
         caseDir' = [caseDir EXCEPT ![idx].summary = s, ![idx].row = r]
  PROVE  /\ caseDir' \in [Case -> Dirs \cup {None}]
         /\ \A c \in Case \ {idx} : caseDir'[c] = caseDir[c]
         /\ caseDir'[idx] \in Dirs /\ caseDir'[idx].run = d.run
         /\ caseDir'[idx].log = d.log /\ caseDir'[idx].row = r
<1>1. caseDir' = [caseDir EXCEPT ![idx] = [d EXCEPT !.summary = s, !.row = r]]
  BY DEF TypeOK
<1>2. [d EXCEPT !.summary = s, !.row = r] \in Dirs
  BY DEF Dirs
<1>3. QED
  BY <1>1, <1>2 DEF TypeOK, Dirs

\* Closing the run of a timed out case: its directory keeps its run, and its
\* row stays or is closed.
LEMMA FinalizeMoves ==
  ASSUME TypeOK, NEW d \in Dirs, caseDir[idx] = d, FinalizeTimedOut \/ FinalizeFails
  PROVE  /\ caseDir' \in [Case -> Dirs \cup {None}]
         /\ \A c \in Case \ {idx} : caseDir'[c] = caseDir[c]
         /\ caseDir'[idx] \in Dirs /\ caseDir'[idx].run = d.run /\ caseDir'[idx].log = d.log
         /\ caseDir'[idx].row \in {d.row, ClosedRow(d.row)}
         /\ batchDb' = batchDb \/ batchDb' = [batchDb EXCEPT ![d.run] = ClosedRow(@)]
         /\ FinalizeTimedOut /\ d.log =>
              /\ caseDir'[idx].row = ClosedRow(d.row)
              /\ batchDb' = [batchDb EXCEPT ![d.run] = ClosedRow(@)]
         /\ FinalizeTimedOut /\ ~d.log => UNCHANGED <<caseDir, batchDb>>
<1>1. /\ d.row \in Rows /\ ClosedRow(d.row) \in Rows
      /\ d.summary \in {"none", "timed_out"} \cup Outcomes
  BY DEF Dirs, ClosedRow, Rows
<1>2. CASE FinalizeTimedOut /\ d.log
  <2>1. /\ caseDir' = [caseDir EXCEPT ![idx].summary = "timed_out", ![idx].row = ClosedRow(@)]
        /\ batchDb' = [batchDb EXCEPT ![d.run] = ClosedRow(@)]
    BY <1>2 DEF FinalizeTimedOut
  <2> DEFINE c1 == [caseDir EXCEPT ![idx].summary = "timed_out"]
  <2>2. c1[idx] = [d EXCEPT !.summary = "timed_out"]
    BY DEF TypeOK
  <2>3. c1[idx].row = d.row
    BY <2>2 DEF Dirs
  <2>4. caseDir' = [c1 EXCEPT ![idx].row = ClosedRow(d.row)]
    BY <2>1, <2>3
  <2>5. caseDir' = [caseDir EXCEPT ![idx].summary = "timed_out", ![idx].row = ClosedRow(d.row)]
    BY <2>4
  <2>6. /\ caseDir' \in [Case -> Dirs \cup {None}]
        /\ \A c \in Case \ {idx} : caseDir'[c] = caseDir[c]
        /\ caseDir'[idx] \in Dirs /\ caseDir'[idx].run = d.run
        /\ caseDir'[idx].log = d.log /\ caseDir'[idx].row = ClosedRow(d.row)
    BY <1>1, <2>5, ClosedDirs
  <2> HIDE DEF c1
  <2>7. QED
    BY <1>2, <2>1, <2>6
<1>3. CASE FinalizeTimedOut /\ ~d.log
  BY <1>3 DEF FinalizeTimedOut, TypeOK
<1>4. CASE FinalizeFails /\ ~FinalizeTimedOut
  <2>1. PICK s \in {d.summary, "timed_out"}, r \in {d.row, ClosedRow(d.row)} :
          caseDir' = [caseDir EXCEPT ![idx].summary = s, ![idx].row = r]
    BY <1>4 DEF FinalizeFails
  <2>2. batchDb' = batchDb
    BY <1>4 DEF FinalizeFails
  <2>3. /\ caseDir' \in [Case -> Dirs \cup {None}]
        /\ \A c \in Case \ {idx} : caseDir'[c] = caseDir[c]
        /\ caseDir'[idx] \in Dirs /\ caseDir'[idx].run = d.run
        /\ caseDir'[idx].log = d.log /\ caseDir'[idx].row = r
    BY <1>1, <2>1, ClosedDirs
  <2>4. QED
    BY <1>4, <2>2, <2>3, ZenonT(40)
<1>5. QED
  BY <1>2, <1>3, <1>4

LEMMA HostType ==
  ASSUME TypeOK, OrderInv, RunsInv, HostStep \/ BatchStops
  PROVE  TypeOK'
<1> USE DEF containerVars, storeVars
<1>1. CASE PrepareCase \/ SaveSummary
  BY <1>1 DEF PrepareCase, SaveSummary, TypeOK, HostPhases
<1>2. CASE PrepareFails
  <2>1. Result("infra_failure", None) \in Results
    BY DEF Result, Results
  <2>2. QED
    BY <1>2, <2>1, ResultSet, NextCaseMoves DEF PrepareFails, TypeOK, HostPhases
<1>3. CASE StartContainer
  BY <1>3 DEF StartContainer, TypeOK, HostPhases, Phases
<1>4. CASE ContainerReported
  <2>1. idx \in Case /\ outcome[idx] \in Outcomes
    BY <1>4 DEF ContainerReported, RunsInv, TypeOK
  <2>2. Result(outcome[idx], idx) \in Results
    BY <2>1 DEF Result, Results
  <2>3. QED
    BY <1>4, <2>1, <2>2, ResultSet DEF ContainerReported, TypeOK, HostPhases
<1>5. CASE ContainerFailed
  <2>1. Result("infra_failure", None) \in Results
    BY DEF Result, Results
  <2>2. QED
    BY <1>5, <2>1, ResultSet DEF ContainerFailed, TypeOK, HostPhases
<1>6. CASE ContainerTimesOut
  <2>1. Result("timed_out", None) \in Results
    BY DEF Result, Results
  <2>2. idx \in Case /\ (cont' = Killed(idx) \/ UNCHANGED cont)
    BY <1>6 DEF ContainerTimesOut, TypeOK
  <2>3. QED
    BY <1>6, <2>1, <2>2, KillMoves, ResultSet DEF ContainerTimesOut, TypeOK, HostPhases
<1>7. CASE FindOrphan
  <2>1. \A c \in Case : Result("timed_out", c) \in Results
    BY DEF Result, Results
  <2>2. QED
    BY <1>7, <2>1, ResultSet DEF FindOrphan, Candidates, TypeOK, HostPhases
<1>8. CASE RenameRunDir
  BY <1>8 DEF RenameRunDir, DestName, OrderInv, TypeOK, HostPhases
<1>9. CASE MergeIntoBatchDb \/ MergeFails
  <2>1. caseDir[idx] \in Dirs
    BY <1>9 DEF MergeIntoBatchDb, MergeFails, OrderInv, TypeOK
  <2>2. AfterMerge \in HostPhases
    BY DEF AfterMerge, HostPhases
  <2>3. QED
    BY <1>9, <2>1, <2>2, DirUpdates DEF MergeIntoBatchDb, MergeFails, Merged, TypeOK
<1>10. CASE FinalizeTimedOut \/ FinalizeFails
  <2>1. pc = "finalize"
    BY <1>10 DEF FinalizeTimedOut, FinalizeFails
  <2>2. caseDir[idx] \in Dirs /\ caseDir[idx].run \in Case
    <3>1. idx \in Case /\ caseDir[idx] \in Dirs
      BY <2>1 DEF OrderInv, TypeOK
    <3>2. QED
      BY <3>1, DirUpdates
  <2>3. batchDb' \in [Case -> Rows] /\ caseDir' \in [Case -> Dirs \cup {None}]
    <3>1. /\ caseDir' \in [Case -> Dirs \cup {None}]
          /\ batchDb' = batchDb \/ batchDb' = [batchDb EXCEPT ![caseDir[idx].run] = ClosedRow(@)]
      BY <1>10, <2>2, FinalizeMoves
    <3>2. QED
      BY <2>2, <3>1 DEF ClosedRow, TypeOK, Rows
  <2>4. pc' \in HostPhases /\ dbExists' \in BOOLEAN
    BY <1>10 DEF FinalizeTimedOut, FinalizeFails, TypeOK, HostPhases
  <2>5. UNCHANGED <<idx, results, found, fresh, containerVars, runDir, saved>>
    BY <1>10 DEF FinalizeTimedOut, FinalizeFails
  <2>6. QED
    BY <2>3, <2>4, <2>5 DEF TypeOK
<1>11. CASE CleanupCase
  BY <1>11, NextCaseMoves DEF CleanupCase, TypeOK, HostPhases
<1>12. CASE BatchStops
  <2>1. idx \in Case /\ (cont' = Killed(idx) \/ UNCHANGED cont)
    BY <1>12 DEF BatchStops, TypeOK
  <2>2. QED
    BY <1>12, <2>1, KillMoves DEF BatchStops, TypeOK, HostPhases
<1>13. QED
  BY <1>1, <1>2, <1>3, <1>4, <1>5, <1>6, <1>7, <1>8, <1>9, <1>10, <1>11, <1>12 DEF HostStep

-----------------------------------------------------------------------------
(* Who may be late, whose directory is being archived, and what is told.   *)

\* The run whose directory goes under the name of the current case: its own
\* run, or that of a timed out case under the name of a timed out case.
Claims(r) == \/ TimedOut(idx) /\ TimedOut(r)
             \/ Decided(idx) /\ r = idx

\* A container that still lives was timed out, unless the host waits for it.
LateInv ==
  /\ \A c \in Case : Alive(c) => TimedOut(c) \/ (c = idx /\ pc \in {"wait", "stopped"})
  /\ pc \in {"wait", "orphan"} => \A c \in fresh : c = idx \/ TimedOut(c)
  /\ pc = "orphan" => TimedOut(idx)
  /\ pc = "rename" => Claims(found)
  /\ pc = "merge" =>
       /\ Claims(caseDir[idx].run)
       /\ Genuine(caseDir[idx].row, outcome[caseDir[idx].run])
  /\ pc = "finalize" => TimedOut(idx) /\ TimedOut(caseDir[idx].run)

VerdictInv ==
  \A c \in Case :
    Decided(c) =>
      /\ cont[c] = "reported" /\ outcome[c] \in Outcomes
      /\ results[c] = Result(outcome[c], c)
      /\ caseDir[c] # None => caseDir[c].run = c

RecordInv ==
  \A r \in Case :
    /\ batchDb[r] # "none" => results[r] # None
    /\ batchDb[r] \in Outcomes => batchDb[r] = outcome[r]
    /\ batchDb[r] = "timed_out" => TimedOut(r)

BatchInv == TypeOK /\ OrderInv /\ RunsInv /\ LateInv /\ VerdictInv /\ RecordInv

\* A container step leaves the host, the stores and every outcome as they are.
LEMMA ContainerLeaves ==
  ASSUME BatchInv, NEW c \in Case, Container(c)
  PROVE  /\ UNCHANGED <<pc, idx, results, found, caseDir, batchDb, dbExists, saved>>
         /\ Alive(c) /\ cont[c] \notin {"none", "reported"}
         /\ \A e \in Case : e # c => /\ cont'[e] = cont[e] /\ outcome'[e] = outcome[e]
                                     /\ runDir'[e] = runDir[e]
         /\ \A e \in Case : outcome[e] \in Outcomes => outcome'[e] = outcome[e]
         /\ fresh' \subseteq fresh \cup {c}
<1>1. TypeOK /\ RunsInv
  BY DEF BatchInv
<1>2. QED
  BY <1>1, ContainerSteps, ContainerFrame DEF ContainerMoves, Alive, hostVars, storeVars

LEMMA ContainerKeeps ==
  ASSUME BatchInv, NEW c \in Case, Container(c)
  PROVE  BatchInv'
<1>1. TypeOK' /\ RunsInv'
  BY ContainerType, ContainerKeepsRuns DEF BatchInv
<1>2. idx \in Case /\ \A e \in Case : e > idx \/ e = idx \/ e < idx
  BY Numbers DEF BatchInv, TypeOK
<1>3. OrderInv'
  <2>1. ~Untouched(c)
    BY ContainerLeaves DEF Untouched
  <2>2. \A e \in Case : Untouched(e) => e # c /\ Untouched(e)'
    BY <2>1, ContainerLeaves DEF Untouched
  <2>3. QED
    BY <1>2, <2>2, ContainerLeaves DEF BatchInv, OrderInv
<1>4. LateInv'
  <2>1. \A e \in Case : Alive(e)' => Alive(e)
    BY ContainerLeaves DEF Alive
  <2>2. \A e \in Case : TimedOut(e)' = TimedOut(e) /\ Decided(e)' = Decided(e)
    BY ContainerLeaves DEF TimedOut, Decided
  <2>3. pc' \in {"wait", "orphan"} => \A e \in fresh' : e = idx' \/ TimedOut(e)'
    BY <2>2, ContainerLeaves DEF BatchInv, LateInv, TypeOK
  <2>4. pc' = "rename" => Claims(found)'
    BY <2>2, ContainerLeaves DEF BatchInv, LateInv, Claims, TimedOut, Decided
  <2>5. pc' = "merge" => /\ Claims(caseDir[idx].run)'
                         /\ Genuine(caseDir[idx].row, outcome[caseDir[idx].run])'
    <3>1. pc = "merge" => caseDir[idx].run \in Case
      BY <1>2, DirFields DEF BatchInv, OrderInv, TypeOK
    <3>2. QED
      BY <2>2, <3>1, ContainerLeaves DEF BatchInv, LateInv, Claims, Genuine, TimedOut, Decided
  <2>6. QED
    BY <1>2, <2>1, <2>2, <2>3, <2>4, <2>5, ContainerLeaves DEF BatchInv, LateInv, TimedOut
<1>5. VerdictInv'
  BY ContainerLeaves DEF BatchInv, VerdictInv, Decided
<1>6. RecordInv'
  BY ContainerLeaves DEF BatchInv, RecordInv, TimedOut
<1>7. QED
  BY <1>1, <1>3, <1>4, <1>5, <1>6 DEF BatchInv

\* What the host tells of a case it does not take back; only a timeout learns
\* later which run it was.
LEMMA HostResults ==
  ASSUME BatchInv, HostStep \/ BatchStops
  PROVE  /\ \A c \in Case \ {idx} : results'[c] = results[c]
         /\ \A c \in Case : /\ results[c] # None => results'[c] # None
                            /\ TimedOut(c) => TimedOut(c)'
                            /\ Decided(c) => results'[c] = results[c]
<1>1. TypeOK /\ idx \in Case
  BY DEF BatchInv, TypeOK
<1>2. CASE UNCHANGED results
  BY <1>2 DEF TimedOut, Decided
<1>3. CASE PrepareFails \/ ContainerReported \/ ContainerFailed \/ ContainerTimesOut
  <2>1. results[idx] = None
    BY <1>3 DEF BatchInv, OrderInv, Untouched, PrepareFails, ContainerReported, ContainerFailed,
                ContainerTimesOut
  <2>2. \A c \in Case \ {idx} : results'[c] = results[c]
    BY <1>1, <1>3 DEF TypeOK, SetResult, PrepareFails, ContainerReported, ContainerFailed,
                      ContainerTimesOut
  <2>3. QED
    BY <2>1, <2>2 DEF TimedOut, Decided
<1>4. CASE FindOrphan /\ ~(UNCHANGED results)
  <2>1. PICK c \in Candidates : SetResult(Result("timed_out", c))
    BY <1>4 DEF FindOrphan
  <2>2. c \in Case /\ Result("timed_out", c) \in Results
    BY <2>1 DEF Candidates, Result, Results
  <2>3. TimedOut(idx)
    BY <1>4 DEF FindOrphan, BatchInv, LateInv
  <2>4. QED
    BY <1>1, <2>1, <2>2, <2>3, ResultSet DEF TimedOut, Decided, Result, Outcomes
<1>5. QED
  BY <1>2, <1>3, <1>4 DEF HostStep, BatchStops, PrepareCase, StartContainer, RenameRunDir,
     MergeIntoBatchDb, MergeFails, FinalizeTimedOut, FinalizeFails, CleanupCase, SaveSummary,
     FindOrphan

LEMMA HostKeeps ==
  ASSUME BatchInv, HostStep \/ BatchStops
  PROVE  BatchInv'
<1> USE DEF containerVars, storeVars
<1>1. TypeOK'
  BY HostType DEF BatchInv
<1>2. TypeOK /\ idx \in Case /\ \A e \in Case : e \in Nat
  BY Numbers DEF BatchInv, TypeOK
<1>3. CASE PrepareCase \/ SaveSummary
  <2>1. OrderInv'
    BY <1>2, <1>3, HostResults DEF PrepareCase, SaveSummary, BatchInv, OrderInv, Untouched
  <2>2. RunsInv'
    BY <1>2, <1>3 DEF PrepareCase, SaveSummary, BatchInv, RunsInv
  <2>3. LateInv'
    BY <1>2, <1>3, HostResults
       DEF PrepareCase, SaveSummary, BatchInv, LateInv, Claims, TimedOut, Decided, Alive
  <2>4. VerdictInv'
    BY <1>2, <1>3, HostResults DEF PrepareCase, SaveSummary, BatchInv, VerdictInv, Decided
  <2>5. RecordInv'
    BY <1>2, <1>3, HostResults DEF PrepareCase, SaveSummary, BatchInv, RecordInv, TimedOut
  <2>6. QED
    BY <1>1, <2>1, <2>2, <2>3, <2>4, <2>5 DEF BatchInv
<1>4. CASE PrepareFails \/ CleanupCase
  <2>1. PrepareFails => results'[idx] = Result("infra_failure", None)
    BY <1>2 DEF PrepareFails, SetResult, TypeOK
  <2>2. \A c \in Case : Decided(c)' => Decided(c) /\ results'[c] = results[c]
    BY <1>2, <1>4, <2>1, HostResults DEF CleanupCase, Decided, Result, Outcomes
  <2>3. PrepareFails => results'[idx] # None
    BY <2>1, NoneAssumption DEF NoneAssumption, Result, Results
  <2>4. OrderInv'
    BY <1>2, <1>4, <2>1, <2>2, <2>3, NextCaseMoves, HostResults
       DEF PrepareFails, CleanupCase, BatchInv, OrderInv, Untouched
  <2>5. RunsInv'
    BY <1>2, <1>4 DEF PrepareFails, CleanupCase, BatchInv, RunsInv
  <2>6. LateInv'
    BY <1>2, <1>4, <2>1, <2>2, <2>3, NextCaseMoves, HostResults
       DEF PrepareFails, CleanupCase, BatchInv, LateInv, Claims, TimedOut, Decided, Alive
  <2>7. VerdictInv'
    BY <1>2, <1>4, <2>1, <2>2, <2>3, NextCaseMoves, HostResults
       DEF PrepareFails, CleanupCase, BatchInv, VerdictInv, Decided
  <2>8. RecordInv'
    BY <1>2, <1>4, HostResults DEF PrepareFails, CleanupCase, BatchInv, RecordInv, TimedOut
  <2>9. QED
    BY <1>1, <2>4, <2>5, <2>6, <2>7, <2>8 DEF BatchInv
<1>5. CASE StartContainer
  <2>1. OrderInv'
    BY <1>2, <1>5, HostResults DEF StartContainer, TypeOK, BatchInv, OrderInv, Untouched
  <2>2. RunsInv'
    BY <1>2, <1>5 DEF StartContainer, TypeOK, OrderInv, Untouched, BatchInv, RunsInv
  <2>3. LateInv'
    BY <1>2, <1>5, HostResults
       DEF StartContainer, TypeOK, BatchInv, LateInv, Claims, TimedOut, Decided, Alive
  <2>4. VerdictInv'
    BY <1>2, <1>5, HostResults
       DEF StartContainer, OrderInv, Untouched, BatchInv, VerdictInv, Decided
  <2>5. RecordInv'
    BY <1>2, <1>5, HostResults DEF StartContainer, BatchInv, RecordInv, TimedOut
  <2>6. QED
    BY <1>1, <2>1, <2>2, <2>3, <2>4, <2>5 DEF BatchInv
<1>6. CASE ContainerReported
  <2>1. outcome[idx] \in Outcomes /\ results'[idx] = Result(outcome[idx], idx)
    BY <1>2, <1>6 DEF ContainerReported, BatchInv, RunsInv, SetResult, TypeOK
  <2>2. results'[idx] # None /\ results'[idx].status = outcome[idx]
    BY <1>2, <2>1, NoneAssumption DEF NoneAssumption, Result, Results
  <2>3. OrderInv'
    BY <1>2, <1>6, <2>1, <2>2, HostResults DEF ContainerReported, BatchInv, OrderInv, Untouched
  <2>4. RunsInv'
    BY <1>2, <1>6 DEF ContainerReported, BatchInv, RunsInv
  <2>5. LateInv'
    BY <1>2, <1>6, <2>1, <2>2, HostResults
       DEF ContainerReported, BatchInv, LateInv, Claims, TimedOut, Decided, Alive
  <2>6. VerdictInv'
    BY <1>2, <1>6, <2>1, <2>2, HostResults
       DEF ContainerReported, OrderInv, BatchInv, VerdictInv, Decided
  <2>7. RecordInv'
    BY <1>2, <1>6, HostResults DEF ContainerReported, BatchInv, RecordInv, TimedOut
  <2>8. QED
    BY <1>1, <2>3, <2>4, <2>5, <2>6, <2>7 DEF BatchInv
<1>7. CASE ContainerFailed
  <2>1. results'[idx] = Result("infra_failure", None)
    BY <1>2, <1>7 DEF ContainerFailed, SetResult, TypeOK
  <2>2. results'[idx] # None /\ results'[idx].status \notin Outcomes
    BY <2>1, NoneAssumption DEF NoneAssumption, Result, Results, Outcomes
  <2>3. OrderInv'
    BY <1>2, <1>7, <2>1, <2>2, HostResults DEF ContainerFailed, BatchInv, OrderInv, Untouched
  <2>4. RunsInv'
    BY <1>2, <1>7 DEF ContainerFailed, BatchInv, RunsInv
  <2>5. LateInv'
    BY <1>2, <1>7, <2>1, <2>2, HostResults
       DEF ContainerFailed, BatchInv, LateInv, Claims, TimedOut, Decided, Alive
  <2>6. VerdictInv'
    BY <1>2, <1>7, <2>1, <2>2, HostResults DEF ContainerFailed, BatchInv, VerdictInv, Decided
  <2>7. RecordInv'
    BY <1>2, <1>7, HostResults DEF ContainerFailed, BatchInv, RecordInv, TimedOut
  <2>8. QED
    BY <1>1, <2>3, <2>4, <2>5, <2>6, <2>7 DEF BatchInv
<1>8. CASE ContainerTimesOut
  <2>1. results'[idx] = Result("timed_out", None)
    BY <1>2, <1>8 DEF ContainerTimesOut, SetResult, TypeOK
  <2>2. results'[idx] # None /\ results'[idx].status = "timed_out" /\ "timed_out" \notin Outcomes
    BY <2>1, NoneAssumption DEF NoneAssumption, Result, Results, Outcomes
  <2>3. \A d \in Case : cont'[d] = cont[d] \/ (d = idx /\ Alive(d) /\ cont'[d] = "killed")
    BY <1>2, <1>8, KillMoves DEF ContainerTimesOut
  <2>4. OrderInv'
    BY <1>2, <1>8, <2>2, <2>3, HostResults DEF ContainerTimesOut, BatchInv, OrderInv, Untouched
  <2>5. RunsInv'
    BY <1>2, <1>8, <2>2, <2>3 DEF ContainerTimesOut, BatchInv, RunsInv
  <2>6. LateInv'
    <3>1. \A d \in Case : Alive(d)' => Alive(d)
      BY <2>3 DEF Alive
    <3>2. TimedOut(idx)' /\ pc = "wait" /\ pc' = "orphan" /\ UNCHANGED <<idx, fresh>>
      BY <1>8, <2>2 DEF ContainerTimesOut, TimedOut
    <3>3. \A c \in Case : Alive(c)' => TimedOut(c)'
      <4>1. \A c \in Case : Alive(c) => TimedOut(c) \/ c = idx
        BY DEF BatchInv, LateInv
      <4>2. QED
        BY <3>1, <3>2, <4>1, HostResults DEF TimedOut
    <3>4. \A c \in fresh' : c = idx' \/ TimedOut(c)'
      <4>1. fresh \subseteq Case /\ \A c \in fresh : c = idx \/ TimedOut(c)
        BY <1>2, <3>2 DEF BatchInv, LateInv, TypeOK
      <4>2. QED
        BY <3>2, <4>1, HostResults
    <3>5. QED
      BY <3>2, <3>3, <3>4 DEF LateInv, TimedOut
  <2>7. VerdictInv'
    BY <1>2, <1>8, <2>2, <2>3, HostResults
       DEF ContainerTimesOut, Alive, BatchInv, VerdictInv, Decided
  <2>8. RecordInv'
    BY <1>2, <1>8, HostResults DEF ContainerTimesOut, BatchInv, RecordInv, TimedOut
  <2>9. QED
    BY <1>1, <2>4, <2>5, <2>6, <2>7, <2>8 DEF BatchInv
<1>9. CASE FindOrphan
  <2>1. TimedOut(idx) /\ TimedOut(idx)'
    BY <1>2, <1>9, HostResults DEF FindOrphan, BatchInv, LateInv
  <2>2. pc' = "rename" => found' \in Case /\ found' \in fresh
    BY <1>9 DEF FindOrphan, Candidates
  <2>3. "timed_out" \notin Outcomes /\ pc' \in {"rename", "cleanup"}
    BY <1>9 DEF Outcomes, FindOrphan
  <2>4. OrderInv'
    BY <1>2, <1>9, <2>1, <2>2, <2>3, HostResults
       DEF FindOrphan, TimedOut, BatchInv, OrderInv, Untouched
  <2>5. RunsInv'
    BY <1>2, <1>9 DEF FindOrphan, BatchInv, RunsInv
  <2>6. LateInv'
    BY <1>2, <1>9, <2>1, <2>2, <2>3, HostResults
       DEF FindOrphan, BatchInv, LateInv, Claims, TimedOut, Decided, Alive
  <2>7. VerdictInv'
    BY <1>2, <1>9, <2>1, <2>2, <2>3, HostResults
       DEF FindOrphan, TimedOut, BatchInv, VerdictInv, Decided
  <2>8. RecordInv'
    BY <1>2, <1>9, HostResults DEF FindOrphan, BatchInv, RecordInv, TimedOut
  <2>9. QED
    BY <1>1, <2>4, <2>5, <2>6, <2>7, <2>8 DEF BatchInv
<1>10. CASE RenameRunDir
  <2>1. found \in Case /\ Claims(found) /\ caseDir[idx] = None /\ results[idx] # None
    BY <1>10 DEF RenameRunDir, BatchInv, OrderInv, LateInv
  <2>2. /\ UNCHANGED <<idx, results, cont, outcome, fresh, batchDb>>
        /\ \A c \in Case : runDir'[c] \in {runDir[c], None}
        /\ \A c \in Case \ {idx} : caseDir'[c] = caseDir[c]
        /\ \/ pc' = "cleanup" /\ caseDir' = caseDir
           \/ /\ pc' = "merge" /\ caseDir'[idx] # None
              /\ caseDir'[idx].run = found
              /\ Genuine(caseDir'[idx].row, outcome[found])
    BY <1>2, <1>10, <2>1 DEF RenameRunDir, DestName, BatchInv, RunsInv, TypeOK
  <2>3. Decided(idx) => found = idx
    BY <2>1 DEF Claims, TimedOut, Decided, Outcomes
  <2>4. OrderInv'
    BY <1>2, <2>1, <2>2, <2>3, HostResults DEF BatchInv, OrderInv, Untouched
  <2>5. RunsInv'
    BY <1>2, <2>1, <2>2, <2>3 DEF BatchInv, RunsInv
  <2>6. LateInv'
    <3>1. \A c \in Case : Alive(c)' => TimedOut(c)'
      BY <1>10, <2>2 DEF RenameRunDir, BatchInv, LateInv, Alive, TimedOut
    <3>2. pc' = "merge" => /\ Claims(caseDir[idx].run)'
                           /\ Genuine(caseDir[idx].row, outcome[caseDir[idx].run])'
      BY <2>1, <2>2 DEF Claims, TimedOut, Decided, Genuine
    <3>3. QED
      BY <2>2, <3>1, <3>2 DEF LateInv, TimedOut
  <2>7. VerdictInv'
    BY <1>2, <2>1, <2>2, <2>3, HostResults DEF BatchInv, VerdictInv, Decided
  <2>8. RecordInv'
    BY <1>2, <2>1, <2>2, <2>3, HostResults DEF BatchInv, RecordInv, TimedOut
  <2>9. QED
    BY <1>1, <2>4, <2>5, <2>6, <2>7, <2>8 DEF BatchInv
<1>11. CASE MergeIntoBatchDb \/ MergeFails
  <2>1. caseDir[idx] \in Dirs /\ results[idx] # None /\ pc = "merge"
    BY <1>2, <1>11 DEF MergeIntoBatchDb, MergeFails, BatchInv, OrderInv, TypeOK
  <2> DEFINE run == caseDir[idx].run
             row == caseDir[idx].row
  <2>2. run \in Case /\ row \in Rows
    BY <2>1, DirFields
  <2>3. Claims(run) /\ Genuine(row, outcome[run])
    BY <2>1 DEF BatchInv, LateInv
  <2>4. results[run] # None /\ (TimedOut(idx) => TimedOut(run))
    BY <2>3 DEF Claims, TimedOut, Decided, Outcomes
  <2>5. /\ UNCHANGED <<idx, results, cont, outcome, fresh, runDir, caseDir>>
        /\ \A c \in Case : batchDb'[c] # batchDb[c] => c = run /\ batchDb'[c] = row
        /\ pc' \in {"cleanup", "finalize"}
        /\ pc' = "finalize" => TimedOut(idx)
    BY <1>2, <1>11, <2>1, <2>2
       DEF MergeIntoBatchDb, MergeFails, AfterMerge, Merged, TypeOK, TimedOut
  <2> HIDE DEF run, row
  <2>6. OrderInv'
    BY <1>2, <2>1, <2>2, <2>3, <2>4, <2>5, HostResults DEF BatchInv, OrderInv, Untouched
  <2>7. RunsInv'
    BY <1>2, <2>1, <2>2, <2>3, <2>4, <2>5 DEF BatchInv, RunsInv
  <2>8. LateInv'
    BY <1>2, <2>1, <2>2, <2>3, <2>4, <2>5, HostResults
       DEF BatchInv, LateInv, Claims, TimedOut, Decided, Alive
  <2>9. VerdictInv'
    BY <1>2, <2>1, <2>2, <2>3, <2>4, <2>5, HostResults DEF BatchInv, VerdictInv, Decided
  <2>10. RecordInv'
    BY <1>2, <2>1, <2>2, <2>3, <2>4, <2>5, HostResults
       DEF Genuine, Outcomes, BatchInv, RecordInv, TimedOut
  <2>11. QED
    BY <1>1, <2>6, <2>7, <2>8, <2>9, <2>10 DEF BatchInv
<1>12. CASE FinalizeTimedOut \/ FinalizeFails
  <2>1. pc = "finalize" /\ pc' = "cleanup"
    BY <1>12 DEF FinalizeTimedOut, FinalizeFails
  <2>2. UNCHANGED <<idx, results, cont, outcome, fresh, runDir>>
    BY <1>12 DEF FinalizeTimedOut, FinalizeFails
  <2>3. caseDir[idx] \in Dirs /\ results[idx] # None
    BY <1>2, <2>1 DEF BatchInv, OrderInv, TypeOK
  <2> DEFINE run == caseDir[idx].run
  <2>4. run \in Case /\ TimedOut(idx) /\ TimedOut(run) /\ ~Decided(idx) /\ ~Decided(run)
    BY <2>1, <2>3, DirFields DEF BatchInv, LateInv, TimedOut, Decided, Outcomes
  <2>5. /\ \A c \in Case \ {idx} : caseDir'[c] = caseDir[c]
        /\ batchDb' = batchDb \/ batchDb' = [batchDb EXCEPT ![run] = ClosedRow(@)]
    BY <1>2, <1>12, <2>3, FinalizeMoves
  <2>6. \A c \in Case : \/ batchDb'[c] = batchDb[c]
                        \/ c = run /\ batchDb'[c] \in {"none", "timed_out"}
    BY <1>2, <2>4, <2>5 DEF ClosedRow, TypeOK
  <2> HIDE DEF run
  <2>7. OrderInv'
    BY <1>2, <2>1, <2>2, <2>3, <2>4, <2>5, <2>6, HostResults
       DEF BatchInv, OrderInv, Untouched, TimedOut
  <2>8. RunsInv'
    BY <1>2, <2>1, <2>2, <2>3, <2>4, <2>5, <2>6 DEF BatchInv, RunsInv
  <2>9. LateInv'
    BY <1>2, <2>1, <2>2, <2>3, <2>4, <2>5, <2>6, HostResults
       DEF BatchInv, LateInv, Claims, TimedOut, Decided, Alive
  <2>10. VerdictInv'
    BY <1>2, <2>1, <2>2, <2>3, <2>4, <2>5, <2>6, HostResults DEF BatchInv, VerdictInv, Decided
  <2>11. RecordInv'
    BY <1>2, <2>1, <2>2, <2>3, <2>4, <2>5, <2>6, HostResults
       DEF Outcomes, BatchInv, RecordInv, TimedOut
  <2>12. QED
    BY <1>1, <2>7, <2>8, <2>9, <2>10, <2>11 DEF BatchInv
<1>13. CASE BatchStops
  <2>1. \A d \in Case : cont'[d] = cont[d] \/ (d = idx /\ Alive(d) /\ cont'[d] = "killed")
    BY <1>2, <1>13, KillMoves DEF BatchStops
  <2>2. /\ UNCHANGED <<idx, results, found, fresh, outcome, runDir, storeVars>>
        /\ pc' = "stopped" /\ pc # "stopped"
    BY <1>13 DEF BatchStops
  <2>3. OrderInv'
    BY <1>2, <2>1, <2>2, HostResults DEF BatchInv, OrderInv, Untouched
  <2>4. RunsInv'
    BY <1>2, <2>1, <2>2 DEF BatchInv, RunsInv
  <2>5. LateInv'
    BY <1>2, <2>1, <2>2, HostResults DEF BatchInv, LateInv, Claims, TimedOut, Decided, Alive
  <2>6. VerdictInv'
    BY <1>2, <2>1, <2>2, HostResults DEF Alive, BatchInv, VerdictInv, Decided
  <2>7. RecordInv'
    BY <1>2, <2>1, <2>2, HostResults DEF BatchInv, RecordInv, TimedOut
  <2>8. QED
    BY <1>1, <2>3, <2>4, <2>5, <2>6, <2>7 DEF BatchInv
<1>14. QED
  BY <1>3, <1>4, <1>5, <1>6, <1>7, <1>8, <1>9, <1>10, <1>11, <1>12, <1>13 DEF HostStep

LEMMA InitKeeps == Init => BatchInv
<1> SUFFICES ASSUME Init PROVE BatchInv
  OBVIOUS
<1>1. TypeOK
  BY Numbers DEF Init, TypeOK, HostPhases, Phases, Rows
<1>2. OrderInv
  BY Numbers DEF Init, OrderInv, Untouched, Case
<1>3. RunsInv /\ LateInv /\ VerdictInv /\ RecordInv
  BY NoneAssumption DEF NoneAssumption, Init, RunsInv, LateInv, VerdictInv, RecordInv, Alive,
                        TimedOut, Decided, Outcomes
<1>4. QED
  BY <1>1, <1>2, <1>3 DEF BatchInv

\* The layers together are inductive.
THEOREM BatchInvariant == Spec => []BatchInv
<1>1. BatchInv /\ [Next]_vars => BatchInv'
  <2> SUFFICES ASSUME BatchInv, [Next]_vars PROVE BatchInv'
    OBVIOUS
  <2>1. CASE HostStep \/ BatchStops
    BY <2>1, HostKeeps
  <2>2. ASSUME NEW c \in Case, Container(c) PROVE BatchInv'
    BY <2>2, ContainerKeeps
  <2>3. CASE UNCHANGED vars
    BY <2>3 DEF BatchInv, TypeOK, OrderInv, Untouched, RunsInv, LateInv, Claims, VerdictInv,
                RecordInv, TimedOut, Decided, Alive, vars, hostVars, containerVars, storeVars
  <2>4. QED
    BY <2>1, <2>2, <2>3 DEF Next, Terminated
<1>2. QED
  BY <1>1, InitKeeps, PTL DEF Spec

-----------------------------------------------------------------------------
(* The archive.                                                            *)

LEMMA ArchiveMoves ==
  ASSUME BatchInv, HostStep \/ BatchStops
  PROVE  /\ \A c \in Case : caseDir'[c] # caseDir[c] => c = idx /\ pc \in {"rename", "finalize"}
         /\ \A c \in Case : caseDir'[c] # None =>
              \/ caseDir[c] # None /\ caseDir'[c].run = caseDir[c].run
              \/ c = idx /\ pc = "rename" /\ caseDir'[c].run = found
         /\ \A c \in Case : batchDb'[c] # batchDb[c] =>
              pc \in {"merge", "finalize"} /\ c = caseDir[idx].run
<1>1. TypeOK /\ idx \in Case
  BY DEF BatchInv, TypeOK
<1>2. CASE RenameRunDir
  <2>1. found \in Case
    BY <1>2 DEF RenameRunDir, BatchInv, OrderInv
  <2>2. QED
    BY <1>1, <1>2, <2>1 DEF RenameRunDir, DestName, BatchInv, RunsInv, TypeOK
<1>3. CASE MergeIntoBatchDb \/ MergeFails
  <2>1. caseDir[idx] \in Dirs
    BY <1>1, <1>3 DEF MergeIntoBatchDb, MergeFails, BatchInv, OrderInv, TypeOK
  <2>2. QED
    BY <1>1, <1>3, <2>1, DirFields DEF MergeIntoBatchDb, MergeFails, Merged, TypeOK
<1>4. CASE FinalizeTimedOut \/ FinalizeFails
  <2>1. pc = "finalize"
    BY <1>4 DEF FinalizeTimedOut, FinalizeFails
  <2>2. caseDir[idx] \in Dirs
    BY <1>1, <2>1 DEF BatchInv, OrderInv, TypeOK
  <2> DEFINE run == caseDir[idx].run
  <2>3. /\ \A c \in Case \ {idx} : caseDir'[c] = caseDir[c]
        /\ caseDir'[idx].run = run /\ caseDir[idx] # None /\ run \in Case
        /\ batchDb' = batchDb \/ batchDb' = [batchDb EXCEPT ![run] = ClosedRow(@)]
    BY <1>1, <1>4, <2>2, FinalizeMoves, DirFields
  <2>4. \A c \in Case : batchDb'[c] # batchDb[c] => c = run
    BY <1>1, <2>3 DEF TypeOK
  <2> HIDE DEF run
  <2>5. QED
    BY <2>1, <2>3, <2>4 DEF run
<1>5. CASE UNCHANGED <<caseDir, batchDb>>
  BY <1>5
<1>6. QED
  BY <1>2, <1>3, <1>4, <1>5 DEF HostStep, BatchStops, PrepareCase, PrepareFails, StartContainer,
     ContainerReported, ContainerFailed, ContainerTimesOut, FindOrphan, CleanupCase, SaveSummary,
     storeVars

\* What is archived is final, whatever containers are left over.
THEOREM ArchivesFinal == Spec => ArchivesAreFinal
<1>1. BatchInv /\ [Next]_vars => [\A c \in Case : Past(c) => caseDir'[c] = caseDir[c]]_vars
  <2> SUFFICES ASSUME BatchInv, Next, NEW c \in Case, Past(c) PROVE caseDir'[c] = caseDir[c]
    OBVIOUS
  <2>1. CASE HostStep \/ BatchStops
    <3>1. c = idx => pc \notin {"rename", "finalize"}
      BY Numbers DEF Past, BatchInv, TypeOK
    <3>2. QED
      BY <2>1, <3>1, ArchiveMoves
  <2>2. ASSUME NEW d \in Case, Container(d) PROVE caseDir'[c] = caseDir[c]
    BY <2>2, ContainerLeaves
  <2>3. CASE Terminated
    BY <2>3 DEF Terminated, vars, storeVars
  <2>4. QED
    BY <2>1, <2>2, <2>3 DEF Next
<1>2. QED
  BY <1>1, BatchInvariant, PTL DEF Spec, ArchivesAreFinal

\* Every variable of a batch has its type.
THEOREM BatchTypes == Spec => []TypeOK
BY BatchInvariant, PTL DEF BatchInv

\* A success or a failure is the case's own, also beside containers that
\* survived their kill and stores that refuse writes.
THEOREM VerdictsAreOwn == Spec => []VerdictIsItsOwn
<1>1. BatchInv => VerdictIsItsOwn
  BY DEF BatchInv, VerdictInv, VerdictIsItsOwn, Decided
<1>2. QED
  BY <1>1, BatchInvariant, PTL

\* What batch.db says of a run is what became of it.
THEOREM RecordsAreGenuine == Spec => []RecordIsGenuine
<1>1. BatchInv => RecordIsGenuine
  BY DEF BatchInv, RecordInv, RecordIsGenuine, TimedOut
<1>2. QED
  BY <1>1, BatchInvariant, PTL

-----------------------------------------------------------------------------
(* While kill works, the host has one container at most, and the directory  *)
(* found after a case is the one of the case.                               *)

KillInv ==
  ~KillFails =>
    /\ \A c \in Case : Alive(c) => c = idx /\ pc \in {"wait", "stopped"}
    /\ pc \in {"wait", "orphan"} => fresh \subseteq {idx}
    /\ pc = "rename" => found = idx
    /\ \A c \in Case : caseDir[c] # None => caseDir[c].run = c
    /\ pc \in {"prepare", "start", "wait", "orphan", "rename", "merge"} => batchDb[idx] = "none"

LEMMA ContainerKeepsKill ==
  ASSUME BatchInv, KillInv, NEW c \in Case, Container(c)
  PROVE  KillInv'
<1> SUFFICES ASSUME ~KillFails PROVE KillInv'
  BY DEF KillInv
<1>1. \A d \in Case : Alive(d)' => Alive(d)
  BY ContainerLeaves DEF Alive
<1>2. QED
  BY <1>1, ContainerLeaves DEF KillInv

LEMMA HostKeepsKill ==
  ASSUME BatchInv, KillInv, HostStep \/ BatchStops
  PROVE  KillInv'
<1> SUFFICES ASSUME ~KillFails PROVE KillInv'
  BY DEF KillInv
<1>1. TypeOK /\ idx \in Case /\ \A e \in Case : e \in Nat
  BY Numbers DEF BatchInv, TypeOK
<1>2. ASSUME NEW c \in Case, caseDir'[c] # None PROVE caseDir'[c].run = c
  BY <1>2, ArchiveMoves DEF KillInv
<1>3. \A c \in Case : batchDb'[c] # batchDb[c] => pc \in {"merge", "finalize"} /\ c = idx
  BY <1>1, ArchiveMoves DEF KillInv, BatchInv, OrderInv
<1>4. CASE PrepareFails \/ CleanupCase
  <2>1. \A c \in Case : ~Alive(c)'
    BY <1>4 DEF PrepareFails, CleanupCase, KillInv, Alive, containerVars
  <2>2. pc' = "prepare" => idx' \in Case /\ idx' > idx
    BY <1>1, <1>4, NextCaseMoves DEF PrepareFails, CleanupCase
  <2>3. pc' = "prepare" => batchDb'[idx'] = "none"
    BY <1>4, <2>2 DEF PrepareFails, CleanupCase, BatchInv, OrderInv, Untouched, storeVars
  <2>4. pc' \in {"prepare", "save"}
    BY <1>1, <1>4, NextCaseMoves DEF PrepareFails, CleanupCase
  <2>5. QED
    BY <1>2, <2>1, <2>3, <2>4 DEF KillInv
<1>5. CASE StartContainer
  BY <1>1, <1>2, <1>3, <1>5
     DEF StartContainer, KillInv, BatchInv, OrderInv, Untouched, Alive, TypeOK
<1>6. CASE ContainerTimesOut
  <2>1. cont' = Killed(idx) /\ pc = "wait" /\ pc' = "orphan" /\ UNCHANGED <<idx, fresh, batchDb>>
    BY <1>6 DEF ContainerTimesOut, storeVars
  <2>2. \A c \in Case : ~Alive(c)'
    BY <1>1, <2>1 DEF KillInv, Killed, Alive, TypeOK
  <2>3. QED
    BY <1>2, <2>1, <2>2 DEF KillInv
<1>7. CASE BatchStops
  <2>1. \A d \in Case : cont'[d] = cont[d] \/ (d = idx /\ Alive(d) /\ cont'[d] = "killed")
    BY <1>1, <1>7, KillMoves DEF BatchStops
  <2>2. QED
    BY <1>2, <1>7, <2>1 DEF BatchStops, KillInv, Alive
<1>8. CASE FindOrphan
  <2>1. pc = "orphan" /\ UNCHANGED <<idx, cont, batchDb>> /\ pc' \in {"rename", "cleanup"}
    BY <1>8 DEF FindOrphan, containerVars, storeVars
  <2>2. pc' = "rename" => found' \in fresh
    BY <1>8 DEF FindOrphan, Candidates
  <2>3. QED
    BY <1>2, <2>1, <2>2 DEF KillInv, Alive
<1>9. CASE ContainerReported \/ ContainerFailed
  <2>1. \A c \in Case : ~Alive(c)'
    BY <1>9 DEF ContainerReported, ContainerFailed, KillInv, Alive, containerVars
  <2>2. QED
    BY <1>2, <1>9, <2>1 DEF ContainerReported, ContainerFailed, KillInv, storeVars
<1>10. CASE PrepareCase \/ RenameRunDir \/ MergeIntoBatchDb \/ MergeFails \/ SaveSummary
            \/ FinalizeTimedOut \/ FinalizeFails
  <2>1. /\ UNCHANGED <<idx, cont>> /\ pc \notin {"wait", "stopped"}
        /\ pc' \in {"start", "cleanup", "merge", "finalize", "done"}
        /\ pc' \in {"start", "merge"} => pc \in {"prepare", "rename"}
    BY <1>10
       DEF PrepareCase, RenameRunDir, MergeIntoBatchDb, MergeFails, AfterMerge,
           SaveSummary,
                 FinalizeTimedOut, FinalizeFails, containerVars
  <2>2. \A c \in Case : ~Alive(c)'
    BY <2>1 DEF KillInv, Alive
  <2>3. pc' \in {"start", "merge"} => batchDb'[idx'] = "none"
    BY <1>1, <1>3, <2>1 DEF KillInv
  <2>4. QED
    BY <1>2, <2>1, <2>2, <2>3 DEF KillInv
<1>11. QED
  BY <1>4, <1>5, <1>6, <1>7, <1>8, <1>9, <1>10 DEF HostStep

\* So is what holds while kill works.
THEOREM KillInvariant == Spec => []KillInv
<1>1. Init => KillInv
  BY Numbers DEF Init, KillInv, Alive
<1>2. BatchInv /\ KillInv /\ [Next]_vars => KillInv'
  <2> SUFFICES ASSUME BatchInv, KillInv, [Next]_vars PROVE KillInv'
    OBVIOUS
  <2>1. CASE HostStep \/ BatchStops
    BY <2>1, HostKeepsKill
  <2>2. ASSUME NEW c \in Case, Container(c) PROVE KillInv'
    BY <2>2, ContainerKeepsKill
  <2>3. CASE UNCHANGED vars
    BY <2>3 DEF KillInv, Alive, vars, hostVars, containerVars, storeVars
  <2>4. QED
    BY <2>1, <2>2, <2>3 DEF Next, Terminated
<1>3. QED
  BY <1>1, <1>2, BatchInvariant, PTL DEF Spec

\* As long as kill works, no case starts beside a container still at work.
THEOREM OneContainer == Spec => []OneContainerAtATime
<1>1. KillInv => OneContainerAtATime
  BY DEF KillInv, OneContainerAtATime
<1>2. QED
  BY <1>1, KillInvariant, PTL

\* As long as kill works, what is archived under a case is the run of the case.
THEOREM ArchivedRight == Spec => []ArchivedUnderItsCase
<1>1. KillInv => ArchivedUnderItsCase
  BY DEF KillInv, ArchivedUnderItsCase
<1>2. QED
  BY <1>1, KillInvariant, PTL

-----------------------------------------------------------------------------
(* While kill and the stores work, summary and databases tell one story.    *)

Agrees(c) ==
  /\ batchDb[c] = caseDir[c].row
  /\ IF results[c].status = "timed_out"
     THEN caseDir[c].log => caseDir[c].row \in {"none", "timed_out"}
     ELSE caseDir[c].row \in {"none", "open", results[c].status}

AgreeInv ==
  ~StoreFaults /\ ~KillFails =>
    /\ pc = "finalize" => batchDb[idx] = caseDir[idx].row
    /\ \A c \in Case : Past(c) /\ caseDir[c] # None => Agrees(c)

LEMMA MergeAgrees ==
  ASSUME BatchInv, KillInv, ~KillFails, MergeIntoBatchDb
  PROVE  /\ UNCHANGED <<idx, results, caseDir>>
         /\ batchDb'[idx] = caseDir[idx].row
         /\ pc' \in {"cleanup", "finalize"}
         /\ pc' = "cleanup" => Agrees(idx)'
<1>1. idx \in Case /\ batchDb \in [Case -> Rows] /\ pc = "merge"
  BY DEF BatchInv, TypeOK, MergeIntoBatchDb
<1>2. caseDir[idx].run = idx /\ batchDb[idx] = "none" /\ results[idx] # None
  BY <1>1 DEF KillInv, BatchInv, OrderInv
<1>3. UNCHANGED <<idx, results, caseDir>> /\ batchDb'[idx] = caseDir[idx].row
  BY <1>1, <1>2 DEF MergeIntoBatchDb, Merged
<1>4. ASSUME ~TimedOut(idx)
      PROVE  /\ results[idx].status # "timed_out"
             /\ caseDir[idx].row \in {"none", "open", results[idx].status}
  <2>1. Claims(idx) /\ Genuine(caseDir[idx].row, outcome[idx])
    BY <1>1, <1>2 DEF BatchInv, LateInv
  <2>2. results[idx] = Result(outcome[idx], idx) /\ outcome[idx] \in Outcomes
    BY <1>1, <1>4, <2>1 DEF Claims, BatchInv, VerdictInv
  <2>3. results[idx].status = outcome[idx]
    BY <2>2 DEF Result
  <2>4. QED
    BY <2>1, <2>2, <2>3 DEF Genuine, Outcomes
<1>5. pc' = IF results[idx].status = "timed_out" THEN "finalize" ELSE "cleanup"
  BY DEF MergeIntoBatchDb, AfterMerge
<1>6. QED
  BY <1>2, <1>3, <1>4, <1>5 DEF Agrees, TimedOut

LEMMA FinalizeAgrees ==
  ASSUME BatchInv, KillInv, AgreeInv, ~KillFails, ~StoreFaults, FinalizeTimedOut
  PROVE  pc' = "cleanup" /\ UNCHANGED <<idx, results>> /\ Agrees(idx)'
<1>1. /\ pc = "finalize" /\ pc' = "cleanup" /\ UNCHANGED <<idx, results>>
  BY DEF FinalizeTimedOut
<1>2. TypeOK /\ idx \in Case /\ caseDir[idx] \in Dirs /\ batchDb \in [Case -> Rows]
  BY <1>1 DEF BatchInv, OrderInv, TypeOK
<1>3. /\ caseDir[idx].run = idx /\ batchDb[idx] = caseDir[idx].row
      /\ results[idx].status = "timed_out"
  BY <1>1, <1>2 DEF KillInv, AgreeInv, BatchInv, OrderInv, LateInv, TimedOut
<1>4. /\ caseDir'[idx].log = caseDir[idx].log
      /\ caseDir[idx].log =>
           /\ caseDir'[idx].row = ClosedRow(caseDir[idx].row)
           /\ batchDb' = [batchDb EXCEPT ![caseDir[idx].run] = ClosedRow(@)]
      /\ ~caseDir[idx].log => UNCHANGED <<caseDir, batchDb>>
  BY <1>2, FinalizeMoves
<1>5. QED
  BY <1>1, <1>2, <1>3, <1>4 DEF Agrees, ClosedRow

LEMMA HostKeepsAgree ==
  ASSUME BatchInv, KillInv, AgreeInv, HostStep \/ BatchStops
  PROVE  AgreeInv'
<1> SUFFICES ASSUME ~StoreFaults, ~KillFails PROVE AgreeInv'
  BY DEF AgreeInv
<1>1. TypeOK /\ idx \in Case /\ \A e \in Case : e \in Nat
  BY Numbers DEF BatchInv, TypeOK
<1>2. ASSUME NEW c \in Case, Past(c), caseDir'[c] # None PROVE Agrees(c)'
  <2>1. caseDir'[c] = caseDir[c] /\ batchDb'[c] = batchDb[c]
    BY <1>1, <1>2, ArchiveMoves DEF Past, KillInv, BatchInv, OrderInv
  <2>2. results'[c] = results[c]
    <3>1. CASE c = idx
      <4>1. pc \in {"cleanup", "save", "done"}
        BY <1>1, <1>2, <3>1 DEF Past
      <4>2. UNCHANGED results
        BY <4>1 DEF HostStep, BatchStops, PrepareCase, PrepareFails, StartContainer,
           ContainerReported, ContainerFailed, ContainerTimesOut, FindOrphan, RenameRunDir,
           MergeIntoBatchDb, MergeFails, FinalizeTimedOut, FinalizeFails, CleanupCase, SaveSummary
      <4>3. QED
        BY <4>2
    <3>2. CASE c # idx
      BY <3>2, HostResults
    <3>3. QED
      BY <3>1, <3>2
  <2>3. Agrees(c)
    BY <1>2, <2>1 DEF AgreeInv
  <2>4. QED
    BY <2>1, <2>2, <2>3 DEF Agrees
<1>3. CASE MergeIntoBatchDb
  <2>1. \A c \in Case : Past(c)' => Past(c) \/ (c = idx /\ pc' = "cleanup")
    BY <1>1, <1>3, MergeAgrees DEF Past
  <2>2. QED
    BY <1>2, <1>3, <2>1, MergeAgrees DEF AgreeInv
<1>4. CASE FinalizeTimedOut
  <2>1. \A c \in Case : Past(c)' => Past(c) \/ c = idx
    BY <1>1, <1>4, FinalizeAgrees DEF Past
  <2>2. QED
    BY <1>2, <1>4, <2>1, FinalizeAgrees DEF AgreeInv
<1>5. ASSUME pc' # "finalize", \A c \in Case : Past(c)' => Past(c) \/ caseDir'[c] = None
      PROVE  AgreeInv'
  BY <1>2, <1>5 DEF AgreeInv
<1>6. CASE PrepareFails \/ CleanupCase
  <2>1. \A c \in Case : Past(c)' => c < idx \/ c = idx
    BY <1>1, <1>6, NextCaseMoves DEF PrepareFails, CleanupCase, Past
  <2>2. pc' \in {"prepare", "save"} /\ caseDir' = caseDir
    BY <1>1, <1>6, NextCaseMoves DEF PrepareFails, CleanupCase, storeVars
  <2>3. PrepareFails => caseDir[idx] = None
    BY DEF PrepareFails, BatchInv, OrderInv, Untouched
  <2>4. CleanupCase => Past(idx)
    BY DEF CleanupCase, Past
  <2>5. QED
    BY <1>5, <1>6, <2>1, <2>2, <2>3, <2>4 DEF Past
<1>7. CASE ContainerFailed \/ FindOrphan
  <2>1. pc \in {"wait", "orphan"} /\ UNCHANGED <<idx, caseDir>> /\ pc' \in {"rename", "cleanup"}
    BY <1>7 DEF ContainerFailed, FindOrphan, storeVars
  <2>2. caseDir[idx] = None
    BY <2>1 DEF BatchInv, OrderInv
  <2>3. QED
    BY <1>5, <2>1, <2>2 DEF Past
<1>8. CASE RenameRunDir
  <2>1. pc' \in {"cleanup", "merge"} /\ idx' = idx
    BY <1>8 DEF RenameRunDir
  <2>2. pc' = "cleanup" => caseDir'[idx] = None
    BY <1>8 DEF RenameRunDir, BatchInv, OrderInv
  <2>3. QED
    BY <1>5, <2>1, <2>2 DEF Past
<1>9. CASE PrepareCase \/ StartContainer \/ ContainerReported \/ ContainerTimesOut \/ BatchStops
           \/ SaveSummary
  <2>1. /\ idx' = idx /\ pc' \in {"start", "wait", "rename", "orphan", "stopped", "done"}
        /\ pc' = "done" => pc = "save"
    BY <1>9 DEF PrepareCase, StartContainer, ContainerReported, ContainerTimesOut, BatchStops,
                SaveSummary
  <2>2. QED
    BY <1>5, <2>1 DEF Past
<1>10. QED
  BY <1>3, <1>4, <1>6, <1>7, <1>8, <1>9 DEF HostStep, MergeFails, FinalizeFails

\* While kill and the stores work, summary.json, batch.db and the archived
\* run.db tell the same story of every run.
THEOREM StoriesAgree == Spec => []SummaryAgreesWithDb
<1>1. Init => AgreeInv
  BY Numbers DEF Init, AgreeInv, Past
<1>2. BatchInv /\ KillInv /\ AgreeInv /\ [Next]_vars => AgreeInv'
  <2> SUFFICES ASSUME BatchInv, KillInv, AgreeInv, [Next]_vars PROVE AgreeInv'
    OBVIOUS
  <2>1. CASE HostStep \/ BatchStops
    BY <2>1, HostKeepsAgree
  <2>2. ASSUME NEW c \in Case, Container(c) PROVE AgreeInv'
    BY <2>2, ContainerLeaves DEF AgreeInv, Past, Agrees
  <2>3. CASE UNCHANGED vars
    BY <2>3 DEF AgreeInv, Past, Agrees, vars, hostVars, storeVars
  <2>4. QED
    BY <2>1, <2>2, <2>3 DEF Next, Terminated
<1>3. AgreeInv => SummaryAgreesWithDb
  BY DEF AgreeInv, Agrees, SummaryAgreesWithDb
<1>4. QED
  BY <1>1, <1>2, <1>3, BatchInvariant, KillInvariant, PTL DEF Spec

-----------------------------------------------------------------------------
(* The contract of a batch.  The cases with a result are a prefix 1..k.     *)

Count(i, res) == IF res[i] = None THEN i - 1 ELSE i

LEMMA AccountedPrefix ==
  ASSUME NEW i \in Case, NEW res,
         \A c \in Case : c < i => res[c] # None, \A c \in Case : c > i => res[c] = None
  PROVE  /\ {c \in Case : res[c] # None} = 1..Count(i, res)
         /\ Cardinality({c \in Case : res[c] # None}) = Count(i, res)
         /\ Count(i, res) \in 0..Cases
<1>1. Count(i, res) \in 0..Cases /\ i \in Nat /\ Cases \in Nat
  BY Numbers DEF Count, Case
<1>2. {c \in Case : res[c] # None} = 1..Count(i, res)
  <2>1. ASSUME NEW c \in Case, res[c] # None PROVE c \in 1..Count(i, res)
    BY <1>1, <2>1 DEF Count, Case
  <2>2. ASSUME NEW c \in 1..Count(i, res) PROVE c \in Case /\ res[c] # None
    BY <1>1, <2>2 DEF Count, Case
  <2>3. QED
    BY <2>1, <2>2
<1>3. Cardinality(1..Count(i, res)) = Count(i, res)
  <2> DEFINE k == Count(i, res)
  <2>1. k \in Nat
    BY <1>1
  <2> HIDE DEF k
  <2>2. Cardinality(1..k) = IF 1 > k THEN 0 ELSE k - 1 + 1
    BY <2>1, FS_Interval
  <2>3. Cardinality(1..k) = k
    BY <2>1, <2>2
  <2>4. QED
    BY <2>3 DEF k
<1>4. QED
  BY <1>1, <1>2, <1>3

LEMMA AccountedNow ==
  ASSUME BatchInv
  PROVE  /\ {c \in Case : results[c] # None} = 1..accountedCases
         /\ accountedCases = Count(idx, results) /\ accountedCases \in 0..Cases
<1>1. /\ idx \in Case
      /\ \A c \in Case : c < idx => results[c] # None
      /\ \A c \in Case : c > idx => results[c] = None
  BY DEF BatchInv, TypeOK, OrderInv, Untouched
<1>2. QED
  BY <1>1, AccountedPrefix DEF accountedCases

LEMMA AccountedNext ==
  ASSUME BatchInv'
  PROVE  /\ {c \in Case : results'[c] # None} = 1..accountedCases'
         /\ accountedCases' = Count(idx', results') /\ accountedCases' \in 0..Cases
<1>1. /\ idx' \in Case
      /\ \A c \in Case : c < idx' => results'[c] # None
      /\ \A c \in Case : c > idx' => results'[c] = None
  BY DEF BatchInv, TypeOK, OrderInv, Untouched
<1>2. QED
  BY <1>1, AccountedPrefix DEF accountedCases

recordedRuns == {c \in Case : batchDb[c] # "none"}

LEMMA PromisedStep ==
  ASSUME BatchInv, BatchInv', Next
  PROVE  \/ /\ processState = "running" /\ accountedCases < Cases
            /\ accountedCases' = accountedCases + 1
            /\ recordedRuns' = recordedRuns /\ processState' = processState
         \/ /\ processState = "running"
            /\ recordedRuns \subseteq recordedRuns' /\ recordedRuns' \subseteq 1..accountedCases
            /\ accountedCases' = accountedCases /\ processState' = processState
         \/ /\ processState = "running" /\ accountedCases = Cases /\ processState' = "returned"
            /\ accountedCases' = accountedCases /\ recordedRuns' = recordedRuns
         \/ /\ processState = "running" /\ processState' = "stopped"
            /\ accountedCases' = accountedCases /\ recordedRuns' = recordedRuns
         \/ /\ accountedCases' = accountedCases /\ recordedRuns' = recordedRuns
            /\ processState' = processState
<1>1. TypeOK /\ idx \in Case /\ idx \in Nat /\ Cases \in Nat /\ \A e \in Case : e \in Nat
  BY Numbers DEF BatchInv, TypeOK
<1>2. CASE UNCHANGED <<results, batchDb, pc>>
  BY <1>2 DEF accountedCases, recordedRuns, processState
<1>3. CASE PrepareFails \/ ContainerReported \/ ContainerFailed \/ ContainerTimesOut
  <2>1. results[idx] = None /\ pc \in {"prepare", "wait"} /\ batchDb' = batchDb
    BY <1>3 DEF BatchInv, OrderInv, Untouched, PrepareFails, ContainerReported, ContainerFailed,
                ContainerTimesOut, storeVars
  <2>2. /\ pc' \in {"prepare", "save", "rename", "cleanup", "orphan"}
        /\ \/ idx' = idx /\ pc' # "prepare"
           \/ idx' = idx + 1 /\ pc' = "prepare"
    BY <1>1, <1>3, NextCaseMoves DEF PrepareFails, ContainerReported, ContainerFailed,
                                     ContainerTimesOut
  <2>3. accountedCases = idx - 1 /\ idx <= Cases
    BY <1>1, <2>1, AccountedNow DEF Count, Case
  <2>4. accountedCases' = idx
    <3>1. CASE pc' = "prepare"
      <4>1. results'[idx'] = None
        BY <3>1 DEF BatchInv, OrderInv, Untouched
      <4>2. QED
        BY <1>1, <2>2, <3>1, <4>1, AccountedNext DEF Count
    <3>2. CASE pc' # "prepare"
      <4>1. results'[idx'] # None
        BY <2>2, <3>2 DEF BatchInv, OrderInv
      <4>2. QED
        BY <1>1, <2>2, <3>2, <4>1, AccountedNext DEF Count
    <3>3. QED
      BY <3>1, <3>2
  <2>5. QED
    BY <1>1, <2>1, <2>2, <2>3, <2>4 DEF recordedRuns, processState
<1>4. CASE PrepareCase \/ StartContainer \/ RenameRunDir \/ CleanupCase
  <2>1. UNCHANGED <<results, batchDb>>
    BY <1>4 DEF PrepareCase, StartContainer, RenameRunDir, CleanupCase, storeVars
  <2>2. pc \notin {"done", "stopped"} /\ pc' \notin {"done", "stopped"}
    BY <1>1, <1>4, NextCaseMoves DEF PrepareCase, StartContainer, RenameRunDir, CleanupCase
  <2>3. QED
    BY <2>1, <2>2 DEF accountedCases, recordedRuns, processState
<1>5. CASE FindOrphan
  <2>1. results[idx] # None /\ idx' = idx /\ pc = "orphan" /\ pc' \in {"rename", "cleanup"}
    BY <1>5 DEF FindOrphan, BatchInv, OrderInv
  <2>2. results'[idx'] # None /\ batchDb' = batchDb
    BY <1>5, <2>1 DEF FindOrphan, BatchInv, OrderInv, storeVars
  <2>3. accountedCases' = accountedCases
    BY <2>1, <2>2, AccountedNow, AccountedNext DEF Count
  <2>4. QED
    BY <2>1, <2>2, <2>3 DEF recordedRuns, processState
<1>6. CASE MergeIntoBatchDb \/ MergeFails
  <2>1. UNCHANGED results /\ pc = "merge" /\ pc' \in {"finalize", "cleanup"}
    BY <1>6 DEF MergeIntoBatchDb, MergeFails, AfterMerge
  <2>2. accountedCases' = accountedCases
    BY <2>1 DEF accountedCases
  <2>3. recordedRuns' \subseteq 1..accountedCases
    BY <2>1, AccountedNow DEF BatchInv, RecordInv, recordedRuns
  <2>4. recordedRuns \subseteq recordedRuns'
    <3>1. caseDir[idx] \in Dirs
      BY <1>1, <2>1 DEF BatchInv, OrderInv, TypeOK
    <3>2. caseDir[idx].run \in Case
      BY <3>1, DirFields
    <3>3. QED
      BY <1>1, <1>6, <3>2 DEF MergeIntoBatchDb, MergeFails, Merged, recordedRuns, TypeOK
  <2>5. QED
    BY <2>1, <2>2, <2>3, <2>4 DEF processState
<1>7. CASE FinalizeTimedOut \/ FinalizeFails
  <2>1. UNCHANGED results /\ pc = "finalize" /\ pc' = "cleanup"
    BY <1>7 DEF FinalizeTimedOut, FinalizeFails
  <2>2. caseDir[idx] \in Dirs
    BY <1>1, <2>1 DEF BatchInv, OrderInv, TypeOK
  <2> DEFINE run == caseDir[idx].run
  <2>3. batchDb' = batchDb \/ batchDb' = [batchDb EXCEPT ![run] = ClosedRow(@)]
    BY <1>1, <1>7, <2>2, FinalizeMoves
  <2>4. run \in Case /\ TimedOut(run)
    BY <2>1, <2>2, DirFields DEF BatchInv, LateInv
  <2>5. /\ \A c \in Case : batchDb[c] # "none" => batchDb'[c] # "none"
        /\ \A c \in Case : batchDb'[c] # "none" => results[c] # None
    BY <1>1, <2>3, <2>4, <2>1 DEF ClosedRow, TypeOK, BatchInv, RecordInv, TimedOut
  <2> HIDE DEF run
  <2>6. recordedRuns \subseteq recordedRuns' /\ recordedRuns' \subseteq 1..accountedCases
    BY <2>5, AccountedNow DEF recordedRuns
  <2>7. QED
    BY <2>1, <2>6 DEF processState, accountedCases
<1>8. CASE SaveSummary
  <2>1. pc = "save" /\ pc' = "done" /\ UNCHANGED <<results, batchDb>>
    BY <1>8 DEF SaveSummary
  <2>2. accountedCases = Cases
    BY <2>1, AccountedNow DEF BatchInv, OrderInv, Count
  <2>3. QED
    BY <2>1, <2>2 DEF accountedCases, recordedRuns, processState
<1>9. CASE BatchStops
  BY <1>9 DEF BatchStops, accountedCases, recordedRuns, processState, storeVars
<1>10. ASSUME NEW c \in Case, Container(c) PROVE UNCHANGED <<results, batchDb, pc>>
  BY <1>10, ContainerLeaves
<1>11. CASE Terminated
  BY <1>2, <1>11 DEF Terminated, vars, hostVars, storeVars
<1>12. QED
  BY <1>2, <1>3, <1>4, <1>5, <1>6, <1>7, <1>8, <1>9, <1>10, <1>11 DEF Next, HostStep

\* A batch keeps its contract: every step accounts for one more case, records
\* runs of accounted cases, returns when every case is accounted for, stops, or
\* is invisible to the caller.
THEOREM BatchKeepsContract == Spec => ImplementsBatchContract
<1>1. Init => Promise!ContractInit
  <2> SUFFICES ASSUME Init PROVE Promise!ContractInit
    OBVIOUS
  <2>1. BatchInv /\ results[1] = None /\ idx = 1
    BY InitKeeps, Numbers DEF Init
  <2>2. accountedCases = 0
    BY <2>1, AccountedNow DEF Count
  <2>3. QED
    BY <2>2 DEF Init, Promise!ContractInit, processState
<1>2. BatchInv /\ BatchInv' /\ [Next]_vars => [Promise!ContractNext]_(Promise!contractVars)
  <2> SUFFICES ASSUME BatchInv, BatchInv', [Next]_vars
               PROVE  [Promise!ContractNext]_(Promise!contractVars)
    OBVIOUS
  <2>1. CASE Next
    BY <2>1, PromisedStep
       DEF recordedRuns, Promise!ContractNext, Promise!Account, Promise!Record,
       Promise!Return, Promise!Stop, Promise!contractVars
  <2>2. CASE UNCHANGED vars
    BY <2>2 DEF vars, hostVars, storeVars, accountedCases, processState, Promise!contractVars
  <2>3. QED
    BY <2>1, <2>2
<1>3. QED
  BY <1>1, <1>2, BatchInvariant, PTL DEF Spec, ImplementsBatchContract, Promise!Contract

-----------------------------------------------------------------------------
(* A batch as the drivers and the sessions see it that start one.           *)

Over == {"done", "stopped"}

\* One row of batch.db is new, or closed as timed out.
RowWritten(r, row) ==
  /\ batchDb' = [batchDb EXCEPT ![r] = row]
  /\ batchDb[r] = "none" \/ row = "timed_out"

\* What a step of the batch does to its exit code and to batch.db: nothing, or the
\* host writes one row and goes on, or it ends and writes nothing.
LEMMA StoreMoves ==
  ASSUME BatchInv, [Next]_vars
  PROVE  \/ /\ UNCHANGED <<batchDb, dbExists>>
            /\ pc' = pc \/ (pc \notin Over /\ pc' \notin Over)
         \/ /\ pc \notin Over /\ pc' \notin Over /\ dbExists' \in {dbExists, TRUE}
            /\ batchDb' = batchDb \/ \E r \in Case, row \in Rows : RowWritten(r, row)
         \/ /\ pc = "save" /\ pc' = "done" /\ UNCHANGED <<batchDb, dbExists>>
         \/ /\ HostStops /\ pc \notin Over /\ pc' = "stopped" /\ UNCHANGED <<batchDb, dbExists>>
<1>1. TypeOK /\ batchDb \in [Case -> Rows]
  BY DEF BatchInv, TypeOK
<1>2. CASE UNCHANGED vars
  BY <1>2 DEF vars, hostVars, storeVars
<1>3. ASSUME NEW c \in Case, Container(c) PROVE UNCHANGED <<batchDb, dbExists, pc>>
  BY <1>3, ContainerLeaves
<1>4. CASE \/ PrepareCase \/ PrepareFails \/ StartContainer \/ ContainerReported \/ ContainerFailed
           \/ ContainerTimesOut \/ FindOrphan \/ RenameRunDir \/ CleanupCase
  <2>1. UNCHANGED <<batchDb, dbExists>>
    BY <1>4 DEF PrepareCase, PrepareFails, StartContainer, ContainerReported, ContainerFailed,
                ContainerTimesOut, FindOrphan, RenameRunDir, CleanupCase, storeVars
  <2>2. pc \notin Over /\ pc' \notin Over
    BY <1>1, <1>4, NextCaseMoves
       DEF PrepareCase, PrepareFails, StartContainer, ContainerReported, ContainerFailed,
           ContainerTimesOut, FindOrphan, RenameRunDir, CleanupCase, Over
  <2> QED BY <2>1, <2>2
<1>5. CASE MergeIntoBatchDb \/ MergeFails
  <2>1. /\ pc \notin Over /\ pc' \notin Over /\ dbExists' \in {dbExists, TRUE}
    BY <1>5 DEF MergeIntoBatchDb, MergeFails, AfterMerge, Over
  <2>2. caseDir[idx] \in Dirs
    BY <1>5 DEF MergeIntoBatchDb, MergeFails, BatchInv, OrderInv, TypeOK
  <2>3. caseDir[idx].run \in Case /\ caseDir[idx].row \in Rows
    BY <2>2, DirFields
  <2>4. batchDb' = batchDb \/ RowWritten(caseDir[idx].run, caseDir[idx].row)
    BY <1>5 DEF MergeIntoBatchDb, MergeFails, Merged, RowWritten
  <2> QED BY <2>1, <2>3, <2>4
<1>6. CASE FinalizeTimedOut \/ FinalizeFails
  <2>1. pc = "finalize" /\ pc' = "cleanup" /\ dbExists' \in {dbExists, TRUE}
    BY <1>6 DEF FinalizeTimedOut, FinalizeFails
  <2>2. caseDir[idx] \in Dirs
    BY <2>1 DEF BatchInv, OrderInv, TypeOK
  <2> DEFINE run == caseDir[idx].run
  <2>3. run \in Case
    BY <2>2, DirFields
  <2>4. batchDb' = batchDb \/ batchDb' = [batchDb EXCEPT ![run] = ClosedRow(@)]
    BY <1>1, <1>6, <2>2, FinalizeMoves
  <2> HIDE DEF run
  <2>5. batchDb' = batchDb \/ RowWritten(run, "timed_out")
    BY <1>1, <2>3, <2>4 DEF ClosedRow, RowWritten
  <2> QED BY <2>1, <2>3, <2>5 DEF Over, Rows
<1>7. CASE SaveSummary
  BY <1>7 DEF SaveSummary
<1>8. CASE BatchStops
  BY <1>8 DEF BatchStops, storeVars, Over
<1>9. CASE Terminated
  BY <1>9 DEF Terminated, vars, hostVars, storeVars
<1> QED BY <1>2, <1>3, <1>4, <1>5, <1>6, <1>7, <1>8, <1>9 DEF Next, HostStep

LEMMA SeenByDriver ==
  ASSUME BatchInv, [Next]_vars
  PROVE  \/ UNCHANGED <<jobState, batchOutput>>
         \/ /\ jobState = "running" /\ jobState' = "running"
            /\ batchOutput = "none" /\ batchOutput' = "some"
         \/ /\ jobState = "running" /\ jobState' = "returned"
            /\ batchOutput' = IF batchOutput = "none" THEN "none" ELSE "all"
         \/ /\ HostStops /\ jobState = "running" /\ jobState' = "died"
            /\ UNCHANGED batchOutput
<1> USE DEF Over, jobState, batchOutput
<1>1. dbExists \in BOOLEAN
  BY DEF BatchInv, TypeOK
<1>2. \/ /\ dbExists' = dbExists
         /\ pc' = pc \/ (pc \notin Over /\ pc' \notin Over)
      \/ pc \notin Over /\ pc' \notin Over /\ dbExists' \in {dbExists, TRUE}
      \/ pc = "save" /\ pc' = "done" /\ dbExists' = dbExists
      \/ HostStops /\ pc \notin Over /\ pc' = "stopped" /\ dbExists' = dbExists
  BY StoreMoves
<1>3. CASE dbExists' = dbExists /\ (pc' = pc \/ (pc \notin Over /\ pc' \notin Over))
  BY <1>3
<1>4. CASE pc \notin Over /\ pc' \notin Over /\ dbExists' \in {dbExists, TRUE}
  <2>1. CASE dbExists' = dbExists
    BY <1>4, <2>1
  <2>2. CASE ~dbExists /\ dbExists'
    BY <1>4, <2>2
  <2>3. dbExists' = dbExists \/ (~dbExists /\ dbExists')
    BY <1>1, <1>4, Zenon
  <2> QED BY <2>1, <2>2, <2>3
<1>5. CASE pc = "save" /\ pc' = "done" /\ dbExists' = dbExists
  BY <1>1, <1>5
<1>6. CASE HostStops /\ pc \notin Over /\ pc' = "stopped" /\ dbExists' = dbExists
  BY <1>1, <1>6
<1> QED BY <1>2, <1>3, <1>4, <1>5, <1>6

\* The batch processes of Experiment are what BatchRunner is: whatever its containers
\* and stores do, its driver sees batch.db appear, once, and the process return or die.
THEOREM BatchOfADriver == Spec => IsBatchOfDriver
<1> DEFINE Seen == ForDriver!BatchRecords("driver") \/ ForDriver!BatchReturns("driver")
                     \/ ForDriver!BatchDies("driver")
<1>1. Init => jobState = "running" /\ batchOutput = "none"
  BY DEF Init, jobState, batchOutput
<1>2. BatchInv /\ [Next]_vars => [Seen]_(ForDriver!vars)
  <2> USE DEF ForDriver!BatchRecords, ForDriver!BatchReturns, ForDriver!BatchDies, ForDriver!Busy,
              ForDriver!EndJob, ForDriver!vars
  <2>1. ASSUME jobState = "running", jobState' = "running", batchOutput = "none", batchOutput' = "some"
        PROVE  ForDriver!BatchRecords("driver")
    BY <2>1
  <2>2. ASSUME jobState = "running", jobState' = "returned",
               batchOutput' = IF batchOutput = "none" THEN "none" ELSE "all"
        PROVE  ForDriver!BatchReturns("driver")
    BY <2>2
  <2>3. ASSUME HostStops, jobState = "running", jobState' = "died", UNCHANGED batchOutput
        PROVE  ForDriver!BatchDies("driver")
    BY <2>3
  <2>4. ASSUME UNCHANGED <<jobState, batchOutput>> PROVE UNCHANGED ForDriver!vars
    BY <2>4
  <2> QED BY <2>1, <2>2, <2>3, <2>4, SeenByDriver
<1> HIDE DEF Seen
<1>3. Spec => [][Seen]_(ForDriver!vars)
  BY <1>2, BatchInvariant, PTL DEF Spec
<1> QED BY <1>1, <1>3 DEF Spec, Seen, IsBatchOfDriver

\* A row that is written is one case more, a resolved one that is closed, or the same
\* to a session.
LEMMA RowSeen ==
  ASSUME TypeOK, NEW r \in Case, NEW row \in Rows, RowWritten(r, row)
  PROVE  /\ \A c \in Case \ {r} : rowSeen(c)' = rowSeen(c)
         /\ \/ rowSeen(r)' = rowSeen(r)
            \/ rowSeen(r) = "none" /\ rowSeen(r)' \in {"resolved", "unresolved"}
            \/ rowSeen(r) = "resolved" /\ rowSeen(r)' = "unresolved"
BY DEF TypeOK, RowWritten, rowSeen

\* What a step of the batch is to a session.
LEMMA SeenBySession ==
  ASSUME BatchInv, [Next]_vars
  PROVE  \/ exitSeen' = exitSeen /\ \A c \in Case : rowSeen(c)' = rowSeen(c)
         \/ /\ exitSeen = "running" /\ exitSeen' = "running"
            /\ \E r \in Case :
                 /\ \A c \in Case \ {r} : rowSeen(c)' = rowSeen(c)
                 /\ \/ rowSeen(r) = "none" /\ rowSeen(r)' \in {"resolved", "unresolved"}
                    \/ rowSeen(r) = "resolved" /\ rowSeen(r)' = "unresolved"
         \/ /\ exitSeen = "running" /\ exitSeen' \in {"passed", "failed"}
            /\ \A c \in Case : rowSeen(c)' = rowSeen(c)
<1>1. TypeOK
  BY DEF BatchInv
<1>2. batchDb' = batchDb => \A c \in Case : rowSeen(c)' = rowSeen(c)
  BY DEF rowSeen
<1>3. pc' = pc \/ (pc \notin Over /\ pc' \notin Over) => exitSeen' = exitSeen
  BY DEF exitSeen, Over
<1>4. pc \notin Over /\ pc' \notin Over => exitSeen = "running" /\ exitSeen' = "running"
  BY DEF exitSeen, Over
<1>5. CASE /\ pc \notin Over /\ pc' \notin Over
           /\ \E r \in Case, row \in Rows : RowWritten(r, row)
  <2>1. PICK r \in Case, row \in Rows : RowWritten(r, row)
    BY <1>5
  <2> QED BY <1>1, <1>3, <1>4, <1>5, <2>1, RowSeen
<1>6. CASE pc \notin Over /\ pc' \in Over /\ batchDb' = batchDb
  <2>1. exitSeen = "running" /\ exitSeen' \in {"passed", "failed"}
    BY <1>6 DEF exitSeen, Over
  <2> QED BY <1>2, <1>6, <2>1
<1>7. CASE batchDb' = batchDb /\ (pc' = pc \/ (pc \notin Over /\ pc' \notin Over))
  BY <1>2, <1>3, <1>7
<1>8. \/ batchDb' = batchDb /\ (pc' = pc \/ (pc \notin Over /\ pc' \notin Over))
      \/ pc \notin Over /\ pc' \notin Over /\ \E r \in Case, row \in Rows : RowWritten(r, row)
      \/ pc \notin Over /\ pc' \in Over /\ batchDb' = batchDb
  BY StoreMoves DEF Over
<1> QED BY <1>5, <1>6, <1>7, <1>8

\* The batch processes of FinalExperiment are what BatchRunner is: writers of one case
\* more or one case closed, that write nothing once they have ended, although their
\* containers may live on.
THEOREM BatchOfASession == Spec => IsBatchOfSession
<1> DEFINE Seen == ForSession!RecordRun(batchDir) \/ ForSession!CloseTimedOut(batchDir)
                     \/ ForSession!BatchEnds(batchDir)
<1>1. Init => exitSeen = "running" /\ \A c \in Case : rowSeen(c) = "none"
  BY DEF Init, exitSeen, rowSeen
<1>2. BatchInv /\ [Next]_vars => [Seen]_(ForSession!finalVars)
  <2> USE DEF ForSession!RecordRun, ForSession!CloseTimedOut, ForSession!BatchEnds,
              ForSession!finalVars, ForSession!results, ForSession!sessionVars
  <2>1. ASSUME exitSeen' = exitSeen, \A c \in Case : rowSeen(c)' = rowSeen(c)
        PROVE  UNCHANGED ForSession!finalVars
    BY <2>1
  <2>2. ASSUME exitSeen = "running", exitSeen' = "running", NEW r \in Case,
               \A c \in Case \ {r} : rowSeen(c)' = rowSeen(c),
               rowSeen(r) = "none", rowSeen(r)' \in {"resolved", "unresolved"}
        PROVE  ForSession!RecordRun(batchDir)
    BY <2>2
  <2>3. ASSUME exitSeen = "running", exitSeen' = "running", NEW r \in Case,
               \A c \in Case \ {r} : rowSeen(c)' = rowSeen(c),
               rowSeen(r) = "resolved", rowSeen(r)' = "unresolved"
        PROVE  ForSession!CloseTimedOut(batchDir)
    BY <2>3
  <2>4. ASSUME exitSeen = "running", exitSeen' \in {"passed", "failed"},
               \A c \in Case : rowSeen(c)' = rowSeen(c)
        PROVE  ForSession!BatchEnds(batchDir)
    BY <2>4
  <2>5. BatchInv /\ [Next]_vars => Seen \/ UNCHANGED ForSession!finalVars
    BY <2>1, <2>2, <2>3, <2>4, SeenBySession
  <2> QED BY <2>5
<1> HIDE DEF Seen
<1>3. Spec => [][Seen]_(ForSession!finalVars)
  BY <1>2, BatchInvariant, PTL DEF Spec
<1> QED BY <1>1, <1>3 DEF Spec, Seen, IsBatchOfSession

-----------------------------------------------------------------------------
(* A batch comes to its end.                                               *)

\* Steps the host may take before it is done: at most eight for a case.
HostRank == [prepare |-> 9, start |-> 8, wait |-> 7, orphan |-> 6, rename |-> 5, merge |-> 4,
             finalize |-> 3, cleanup |-> 2, save |-> 1, done |-> 0, stopped |-> 0]
HostStepsLeft == 8 * (Cases - idx) + HostRank[pc]

\* A step of HostStep is possible: the guards of its actions, written out.
HostCanStep ==
  \/ pc \in {"prepare", "start", "wait", "merge", "finalize", "cleanup", "save"}
  \/ pc = "orphan" /\ (Cardinality(Candidates) # 1 \/ \E c \in Case : Candidates = {c})
  \/ pc = "rename" /\ found \in Case

LEMMA HostStepsLeftType ==
  ASSUME TypeOK
  PROVE  HostStepsLeft \in 0 .. 8 * Cases + 1 /\ HostRank[pc] \in 0..9
<1>1. HostRank[pc] \in 0..9
  BY DEF TypeOK, HostPhases, HostRank
<1>2. idx \in 1..Cases /\ Cases \in Nat
  BY Numbers DEF TypeOK, Case
<1> HIDE DEF HostRank
<1>3. QED
  BY <1>1, <1>2 DEF HostStepsLeft

LEMMA HostNearer ==
  ASSUME TypeOK, pc' \in HostPhases,
         \/ idx' = idx /\ HostRank[pc'] < HostRank[pc]
         \/ idx' = idx + 1 /\ HostRank[pc'] < HostRank[pc] + 8
  PROVE  HostStepsLeft' < HostStepsLeft
<1>1. HostRank[pc] \in 0..9 /\ HostRank[pc'] \in 0..9
  BY DEF TypeOK, HostPhases, HostRank
<1>2. idx \in Nat /\ Cases \in Nat
  BY Numbers DEF TypeOK
<1>3. HostStepsLeft' = 8 * (Cases - idx') + HostRank[pc']
  BY DEF HostStepsLeft, HostRank
<1> HIDE DEF HostRank
<1>4. QED
  BY <1>1, <1>2, <1>3 DEF HostStepsLeft

LEMMA HostStepIsNearer ==
  ASSUME TypeOK, HostStep \/ BatchStops
  PROVE  HostStepsLeft' < HostStepsLeft
<1> USE DEF HostRank, HostPhases
<1>1. CASE PrepareCase \/ StartContainer
  BY <1>1, HostNearer DEF PrepareCase, StartContainer
<1>2. CASE PrepareFails \/ CleanupCase
  BY <1>2, HostNearer DEF PrepareFails, CleanupCase, NextCase
<1>3. CASE ContainerReported \/ ContainerFailed \/ ContainerTimesOut
  BY <1>3, HostNearer DEF ContainerReported, ContainerFailed, ContainerTimesOut
<1>4. CASE FindOrphan \/ RenameRunDir
  BY <1>4, HostNearer DEF FindOrphan, RenameRunDir
<1>5. CASE MergeIntoBatchDb \/ MergeFails
  <2>1. AfterMerge \in {"finalize", "cleanup"}
    BY DEF AfterMerge
  <2>2. pc = "merge" /\ pc' = AfterMerge /\ idx' = idx
    BY <1>5 DEF MergeIntoBatchDb, MergeFails
  <2>3. pc = "merge" /\ pc' \in {"finalize", "cleanup"} /\ idx' = idx
    BY <2>1, <2>2
  <2>4. QED
    BY <2>3, HostNearer
<1>6. CASE FinalizeTimedOut \/ FinalizeFails
  BY <1>6, HostNearer DEF FinalizeTimedOut, FinalizeFails
<1>7. CASE SaveSummary
  BY <1>7, HostNearer DEF SaveSummary
<1>8. CASE BatchStops
  BY <1>8, HostNearer DEF BatchStops, TypeOK
<1>9. QED
  BY <1>1, <1>2, <1>3, <1>4, <1>5, <1>6, <1>7, <1>8 DEF HostStep

\* A batch takes at most 8 * Cases + 1 steps of its host: each brings it nearer to its
\* end, whichever way a container ended and a directory was found, and nothing a
\* container does takes it back.
THEOREM BatchIsBounded ==
  Spec => /\ [](HostStepsLeft \in 0 .. 8 * Cases + 1)
          /\ [][IF HostStep \/ BatchStops THEN HostStepsLeft' < HostStepsLeft
                ELSE HostStepsLeft' = HostStepsLeft]_vars
<1> DEFINE Closer == IF HostStep \/ BatchStops THEN HostStepsLeft' < HostStepsLeft
                     ELSE HostStepsLeft' = HostStepsLeft
<1>1. TypeOK /\ [Next]_vars => Closer
  <2> SUFFICES ASSUME TypeOK, [Next]_vars PROVE Closer
    OBVIOUS
  <2>1. ~(HostStep \/ BatchStops) => UNCHANGED <<pc, idx>>
    <3>1. ASSUME NEW c \in Case, Container(c) PROVE UNCHANGED <<pc, idx>>
      BY <3>1 DEF Container, CreateRunDir, RecordRun, LogRun, RunIteration, WriteSummary, CloseRun,
        Report, ExitWithoutReport, ContainerStep, hostVars
    <3>2. QED
      BY <3>1 DEF Next, Terminated, vars, hostVars
  <2>2. UNCHANGED <<pc, idx>> => HostStepsLeft' = HostStepsLeft
    BY DEF HostStepsLeft, HostRank
  <2>3. QED
    BY <2>1, <2>2, HostStepIsNearer
<1>2. TypeOK => HostStepsLeft \in 0 .. 8 * Cases + 1
  BY HostStepsLeftType
<1> HIDE DEF Closer
<1>3. Spec => []TypeOK
  BY BatchTypes
<1>4. Spec => [](HostStepsLeft \in 0 .. 8 * Cases + 1)
  BY <1>2, <1>3, PTL
<1>5. Spec => [][Closer]_vars
  BY <1>1, <1>3, PTL DEF Spec
<1>6. QED
  BY <1>4, <1>5 DEF Closer

\* A host that is not done can go on: it waits for no container longer than its
\* timeout, and a directory it is about to rename has been named.
THEOREM BatchNeverBlocks == Spec => [](pc \notin {"done", "stopped"} => HostCanStep)
<1>1. ASSUME BatchInv, pc \notin {"done", "stopped"} PROVE HostCanStep
  <2>1. ASSUME Cardinality(Candidates) = 1 PROVE \E c \in Case : Candidates = {c}
    <3>1. Candidates \subseteq Case /\ IsFiniteSet(Case)
      BY Numbers, FS_Interval DEF Candidates, Case
    <3>2. IsFiniteSet(Candidates)
      BY <3>1, FS_Subset
    <3>3. PICK c : Candidates = {c}
      BY <2>1, <3>2, FS_Singleton
    <3>4. QED
      BY <3>1, <3>3
  <2>2. pc = "rename" => found \in Case
    BY <1>1 DEF BatchInv, OrderInv
  <2>3. QED
    BY <1>1, <2>1, <2>2 DEF HostCanStep, BatchInv, TypeOK, HostPhases
<1>2. BatchInv => (pc \notin {"done", "stopped"} => HostCanStep)
  BY <1>1
<1>3. QED
  BY <1>2, BatchInvariant, PTL
================================================================================
