---------------------------- MODULE AggregateProofs ----------------------------
(***************************************************************************)
(* Proofs about the sessions of run_final_experiment.py and the aggregator *)
(* beside them, for any number of sessions, batches, cases and validators. *)
(* A session owns the validators of its chunk and its batch, which is why  *)
(* it waits for something that is there, and has a bounded number of       *)
(* steps; an aggregate is judged by what was settled when it was counted,  *)
(* which nobody writes again.                                              *)
(***************************************************************************)
EXTENDS Aggregate, FiniteSetTheorems, TLAPS

LEMMA Assumed ==
  /\ IsFiniteSet(Sessions) /\ IsFiniteSet(Batches) /\ IsFiniteSet(Cases)
  /\ Chunk \in Nat \ {0} /\ Plan \in [Sessions -> SUBSET Batches]
  /\ None \notin Sessions /\ None \notin Dirs /\ None \notin Nat
BY FinalExperimentAssumption DEF FinalExperimentAssumption, Dirs

\* A set without two elements.
LEMMA AtMostOne ==
  ASSUME NEW S, \A x, y \in S : x = y
  PROVE  Cardinality(S) <= 1
<1>1. ASSUME S = {} PROVE Cardinality(S) <= 1
  BY <1>1, FS_EmptySet
<1>2. ASSUME S # {} PROVE Cardinality(S) <= 1
  <2>1. PICK x : S = {x}
    BY <1>2
  <2>2. Cardinality(S) = 1
    BY <2>1, FS_Singleton
  <2>3. QED
    BY <2>2
<1>3. QED
  BY <1>1, <1>2

LEMMA DirsFinite == IsFiniteSet(Dirs)
BY Assumed, FS_Product DEF Dirs

\* The groups of some directories are sets of directories, no directory is in
\* two of them, and each is in one.
LEMMA GroupedType ==
  ASSUME NEW dirs \in SUBSET Dirs
  PROVE  Grouped(dirs) \in SUBSET SUBSET Dirs
BY DEF Grouped

LEMMA GroupedPartition ==
  ASSUME NEW dirs
  PROVE  /\ \A g, h \in Grouped(dirs) : g = h \/ g \cap h = {}
         /\ \A d \in dirs : \E g \in Grouped(dirs) : d \in g
<1>1. ASSUME NEW g \in Grouped(dirs), NEW h \in Grouped(dirs), NEW e \in g \cap h
      PROVE  g = h
  <2>1. PICK d \in dirs : g = {k \in dirs : Key(k) = Key(d)}
    BY DEF Grouped
  <2>2. PICK b \in dirs : h = {k \in dirs : Key(k) = Key(b)}
    BY DEF Grouped
  <2>3. Key(e) = Key(d) /\ Key(e) = Key(b)
    BY <2>1, <2>2
  <2>4. QED
    BY <2>1, <2>2, <2>3
<1>2. ASSUME NEW d \in dirs PROVE \E g \in Grouped(dirs) : d \in g
  <2>1. d \in {k \in dirs : Key(k) = Key(d)}
    OBVIOUS
  <2>2. QED
    BY <2>1 DEF Grouped
<1>3. QED
  BY <1>1, <1>2

-----------------------------------------------------------------------------
(* The shape of the state.                                                 *)

\* FinalTypeOK, the number of validators at work apart; and a session that
\* waits for a batch knows its directory.
ShapeOK ==
  /\ runs \in [Dirs -> [Cases -> {"none", "resolved", "unresolved"}]]
  /\ process \in [Dirs -> {"absent", "running", "passed", "failed"}]
  /\ verdicts \in [Dirs -> SUBSET Rows]
  /\ pc \in [Sessions ->
             {"off", "batches", "batch", "validation", "chunk", "stopping", "ended"}]
  /\ pending \in [Sessions -> SUBSET Batches]
  /\ current \in [Sessions -> Dirs \cup {None}]
  /\ produced \in [Sessions -> SUBSET Dirs]
  /\ groups \in [Sessions -> SUBSET SUBSET Dirs]
  /\ unread \in [Sessions -> SUBSET SUBSET Dirs]
  /\ failed \in [Sessions -> SUBSET SUBSET Dirs]
  /\ rc \in [Sessions -> {0, 1, 130, None}]
  /\ DOMAIN validators \subseteq Sessions \X SUBSET Dirs
  /\ \A v \in DOMAIN validators : validators[v] \in Jobs
  /\ \A s \in Sessions : pc[s] = "batch" => current[s] \in Dirs

\* A validator is asked for one group by one session.
LEMMA ValidatorName ==
  ASSUME ShapeOK, NEW v \in DOMAIN validators
  PROVE  v[1] \in Sessions /\ v[2] \in SUBSET Dirs /\ v = <<v[1], v[2]>>
BY DEF ShapeOK

LEMMA JobFields ==
  ASSUME ShapeOK, NEW v \in DOMAIN validators
  PROVE  /\ validators[v].left \in SUBSET Dirs
         /\ validators[v].todo \in SUBSET (Dirs \X Cases)
         /\ validators[v].state \in {"running"} \cup Outcomes
BY DEF ShapeOK, Jobs

\* A job with some fields replaced is a job, in the same state.
LEMMA JobListed ==
  ASSUME NEW j \in Jobs, NEW dirs \in SUBSET Dirs, NEW todo \in SUBSET (Dirs \X Cases)
  PROVE  /\ [j EXCEPT !.left = dirs, !.todo = todo] \in Jobs
         /\ [j EXCEPT !.left = dirs, !.todo = todo].state = j.state
BY DEF Jobs

LEMMA JobWritten ==
  ASSUME NEW j \in Jobs, NEW x
  PROVE  [j EXCEPT !.todo = @ \ {x}] \in Jobs /\ [j EXCEPT !.todo = @ \ {x}].state = j.state
BY DEF Jobs

\* A step of a validator changes its own job, leaves a job that is over as it
\* ended, and changes no state but verdicts.
LEMMA ValidatorMoves ==
  ASSUME ShapeOK, NEW v \in DOMAIN validators, Validator(v)
  PROVE  /\ \E j \in Jobs :
              /\ validators' = [validators EXCEPT ![v] = j]
              /\ validators[v].state # "running" => j.state = validators[v].state
         /\ verdicts' \in [Dirs -> SUBSET Rows]
         /\ UNCHANGED <<runs, process, sessionVars>>
<1> USE JobFields DEF Job
<1>1. CASE ListRuns(v)
  <2>1. PICK d \in validators[v].left, todo \in SUBSET (Dirs \X Cases) :
          validators' = [validators EXCEPT ![v] =
                           [validators[v] EXCEPT !.left = @ \ {d}, !.todo = todo]]
    <3>1. PICK d \in validators[v].left :
            validators' = [validators EXCEPT ![v] = [validators[v] EXCEPT
               !.left = @ \ {d},
               !.todo = @ \cup {<<d, c>> : c \in {k \in Cases : /\ runs[d][k] = "resolved"
                                                                /\ Judged(d, k) = {}}}]]
      BY <1>1 DEF ListRuns
    <3>2. validators[v].todo \cup {<<d, c>> : c \in {k \in Cases : /\ runs[d][k] = "resolved"
                                                                /\ Judged(d, k) = {}}}
            \in SUBSET (Dirs \X Cases)
      OBVIOUS
    <3>3. QED
      BY <3>1, <3>2, Zenon
  <2>2. validators[v] \in Jobs /\ validators[v].left \ {d} \in SUBSET Dirs
    BY DEF ShapeOK
  <2> DEFINE j == [validators[v] EXCEPT !.left = @ \ {d}, !.todo = todo]
  <2>3. j \in Jobs /\ j.state = validators[v].state
    BY <2>2, JobListed
  <2>4. validators' = [validators EXCEPT ![v] = j]
    BY <2>1
  <2> HIDE DEF j
  <2>5. QED
    BY <1>1, <2>3, <2>4 DEF ListRuns, results, ShapeOK
<1>2. CASE WriteVerdict(v)
  <2>1. PICK x \in validators[v].todo, verdict \in Verdicts :
          /\ verdicts' = [verdicts EXCEPT
               ![x[1]] = (@ \ Judged(x[1], x[2]))
                         \cup {[case |-> x[2], by |-> v[1], verdict |-> verdict]}]
          /\ validators' = [validators EXCEPT ![v] = [validators[v] EXCEPT !.todo = @ \ {x}]]
    BY <1>2 DEF WriteVerdict
  <2>2. validators[v] \in Jobs
    BY DEF ShapeOK
  <2>3. PICK j \in Jobs : /\ validators' = [validators EXCEPT ![v] = j]
                          /\ j.state = validators[v].state
    BY <2>1, <2>2, JobWritten
  <2>4. x[1] \in Dirs /\ x[2] \in Cases /\ v[1] \in Sessions
    BY ValidatorName
  <2>5. [case |-> x[2], by |-> v[1], verdict |-> verdict] \in Rows
    BY <2>4 DEF Rows
  <2>6. verdicts' \in [Dirs -> SUBSET Rows]
    BY <2>1, <2>4, <2>5 DEF ShapeOK
  <2>7. QED
    BY <1>2, <2>3, <2>6 DEF WriteVerdict
<1>3. CASE ValidatorEnds(v)
  <2>1. PICK j : /\ validators' = [validators EXCEPT ![v] = j]
                 /\ \/ j = [left |-> {}, todo |-> {}, state |-> "ok"]
                    \/ \E todo \in {{}, validators[v].todo} :
                         j = [left |-> {}, todo |-> todo, state |-> "failed"]
    BY <1>3 DEF ValidatorEnds
  <2>2. j \in Jobs
    BY <2>1 DEF Jobs, Outcomes
  <2>3. QED
    BY <1>3, <2>1, <2>2 DEF ValidatorEnds, results, ShapeOK
<1>4. CASE NotLoggedIn(v)
  <2>1. [left |-> {}, todo |-> {}, state |-> "oauth"] \in Jobs
    BY DEF Jobs, Outcomes
  <2>2. validators[v].state = "running"
    BY <1>4 DEF NotLoggedIn, NewJob
  <2>3. QED
    BY <1>4, <2>1, <2>2 DEF NotLoggedIn, results, ShapeOK
<1>5. QED
  BY <1>1, <1>2, <1>3, <1>4 DEF Validator

\* A chunk is submitted: its groups leave the list, and those that were not
\* asked for yet get a validator.
LEMMA SubmitMoves ==
  ASSUME ShapeOK, NEW s \in Sessions, SubmitChunk(s)
  PROVE  \E chunk \in SUBSET groups[s] :
           /\ Cardinality(chunk) <= Chunk
           /\ groups' = [groups EXCEPT ![s] = @ \ chunk]
           /\ unread' = [unread EXCEPT ![s] = chunk]
           /\ DOMAIN validators' = DOMAIN validators \cup ({s} \X chunk)
           /\ \A v \in DOMAIN validators : validators'[v] = validators[v]
           /\ \A v \in DOMAIN validators' \ DOMAIN validators : validators'[v] = NewJob(v[2])
<1>1. PICK chunk \in SUBSET groups[s] :
        /\ Cardinality(chunk) <= Chunk
        /\ groups' = [groups EXCEPT ![s] = @ \ chunk]
        /\ unread' = [unread EXCEPT ![s] = chunk]
        /\ validators' = [v \in DOMAIN validators \cup ({s} \X chunk) |->
                            IF v \in DOMAIN validators THEN validators[v] ELSE NewJob(v[2])]
  BY DEF SubmitChunk
<1>2. DOMAIN validators' = DOMAIN validators \cup ({s} \X chunk)
  BY <1>1
<1>3. \A v \in DOMAIN validators : validators'[v] = validators[v]
  BY <1>1
<1>4. \A v \in DOMAIN validators' \ DOMAIN validators : validators'[v] = NewJob(v[2])
  BY <1>1
<1>5. QED
  BY <1>1, <1>2, <1>3, <1>4

LEMMA NewJobType ==
  ASSUME NEW g \in SUBSET Dirs
  PROVE  NewJob(g) \in Jobs
BY DEF NewJob, Jobs

LEMMA ShapeInitially == Init => ShapeOK
<1> SUFFICES ASSUME Init PROVE ShapeOK
  OBVIOUS
<1>1. DOMAIN validators = {}
  BY DEF Init, FinalInit
<1>2. QED
  BY <1>1 DEF Init, FinalInit, ShapeOK

\* The steps of the sessions and of the batches.
LEMMA ShapeOfBatches ==
  ASSUME ShapeOK, NEW d \in Dirs, RecordRun(d) \/ CloseTimedOut(d) \/ BatchEnds(d)
  PROVE  ShapeOK'
<1>1. runs' \in [Dirs -> [Cases -> {"none", "resolved", "unresolved"}]]
  <2>1. CASE UNCHANGED runs
    BY <2>1 DEF ShapeOK
  <2>2. CASE \E c \in Cases, row \in {"resolved", "unresolved"} : runs' = [runs EXCEPT ![d][c] = row]
    <3>1. PICK c \in Cases, row \in {"resolved", "unresolved"} : runs' = [runs EXCEPT ![d][c] = row]
      BY <2>2
    <3>2. [runs[d] EXCEPT ![c] = row] \in [Cases -> {"none", "resolved", "unresolved"}]
      BY DEF ShapeOK
    <3>3. runs' = [runs EXCEPT ![d] = [runs[d] EXCEPT ![c] = row]]
      BY <3>1
    <3>4. QED
      BY <3>2, <3>3 DEF ShapeOK
  <2>3. QED
    BY <2>1, <2>2 DEF RecordRun, CloseTimedOut, BatchEnds
<1>2. process' \in [Dirs -> {"absent", "running", "passed", "failed"}]
  BY DEF RecordRun, CloseTimedOut, BatchEnds, ShapeOK
<1>3. UNCHANGED <<verdicts, sessionVars, validators>>
  BY DEF RecordRun, CloseTimedOut, BatchEnds
<1>4. QED
  BY <1>1, <1>2, <1>3 DEF ShapeOK, sessionVars

LEMMA ShapeOfSessions ==
  ASSUME ShapeOK, NEW s \in Sessions,
         Start(s) \/ StartValidationOnly(s) \/ Session(s) \/ Interrupt(s)
  PROVE  ShapeOK'
<1> USE DEF results, Goto, At
<1>1. CASE Start(s)
  <2>1. {b \in Plan[s] : ~\E t \in Sessions : HasDb(<<b, t>>)} \in SUBSET Batches
    BY Assumed
  <2>2. QED
    BY <1>1, <2>1 DEF Start, ShapeOK
<1>2. CASE StartValidationOnly(s)
  <2>1. {d \in Dirs : HasDb(d)} \in SUBSET Dirs
    OBVIOUS
  <2>2. QED
    BY <1>2, <2>1, GroupedType DEF StartValidationOnly, ShapeOK
<1>3. CASE StartBatch(s)
  <2>1. PICK b \in pending[s] :
          /\ pending' = [pending EXCEPT ![s] = @ \ {b}]
          /\ current' = [current EXCEPT ![s] = <<b, s>>]
          /\ process' = [process EXCEPT ![<<b, s>>] = "running"]
    BY <1>3 DEF StartBatch
  <2>2. <<b, s>> \in Dirs
    BY DEF ShapeOK, Dirs
  <2>3. QED
    BY <1>3, <2>1, <2>2 DEF StartBatch, ShapeOK
<1>4. CASE BalanceStop(s)
  BY <1>4 DEF BalanceStop, ShapeOK
<1>5. CASE ReadBatch(s)
  <2>1. produced' \in [Sessions -> SUBSET Dirs]
    BY <1>5, Assumed DEF ReadBatch, ShapeOK
  <2>2. QED
    BY <1>5, <2>1 DEF ReadBatch, ShapeOK
<1>6. CASE BeginValidation(s)
  <2>1. Grouped(produced[s]) \in SUBSET SUBSET Dirs
    BY GroupedType DEF ShapeOK
  <2>2. QED
    BY <1>6, <2>1 DEF BeginValidation, ShapeOK
<1>7. CASE SubmitChunk(s)
  <2>1. PICK chunk \in SUBSET groups[s] :
          /\ groups' = [groups EXCEPT ![s] = @ \ chunk]
          /\ unread' = [unread EXCEPT ![s] = chunk]
          /\ DOMAIN validators' = DOMAIN validators \cup ({s} \X chunk)
          /\ \A v \in DOMAIN validators : validators'[v] = validators[v]
          /\ \A v \in DOMAIN validators' \ DOMAIN validators : validators'[v] = NewJob(v[2])
    BY <1>7, SubmitMoves
  <2>2. chunk \in SUBSET SUBSET Dirs
    BY DEF ShapeOK
  <2>3. groups' \in [Sessions -> SUBSET SUBSET Dirs] /\ unread' \in [Sessions -> SUBSET SUBSET Dirs]
    BY <2>1, <2>2 DEF ShapeOK
  <2>4. DOMAIN validators' \subseteq Sessions \X SUBSET Dirs
    BY <2>1, <2>2 DEF ShapeOK
  <2>5. \A v \in DOMAIN validators' : validators'[v] \in Jobs
    BY <2>1, <2>4, NewJobType DEF ShapeOK
  <2>6. pc' = [pc EXCEPT ![s] = "chunk"]
    BY <1>7 DEF SubmitChunk
  <2>7. UNCHANGED <<results, pending, current, produced, failed, rc>>
    BY <1>7 DEF SubmitChunk
  <2>8. QED
    BY <2>3, <2>4, <2>5, <2>6, <2>7 DEF ShapeOK
<1>8. CASE ReadValidation(s)
  <2>1. /\ unread' \in [Sessions -> SUBSET SUBSET Dirs] /\ failed' \in [Sessions -> SUBSET SUBSET Dirs]
    BY <1>8 DEF ReadValidation, ShapeOK
  <2>2. QED
    BY <1>8, <2>1 DEF ReadValidation, ShapeOK
<1>9. CASE EndChunk(s)
  BY <1>9 DEF EndChunk, ShapeOK
<1>10. CASE Return(s)
  BY <1>10 DEF Return, Forget, ShapeOK
<1>11. CASE Exit130(s)
  BY <1>11 DEF Exit130, ShapeOK
<1>12. CASE Interrupt(s)
  <2>1. process' \in [Dirs -> {"absent", "running", "passed", "failed"}]
    BY <1>12, Assumed DEF Interrupt, ShapeOK
  <2>2. QED
    BY <1>12, <2>1 DEF Interrupt, Forget, ShapeOK
<1>13. QED
  BY <1>1, <1>2, <1>3, <1>4, <1>5, <1>6, <1>7, <1>8, <1>9, <1>10, <1>11, <1>12 DEF Session

LEMMA ShapeOfValidators ==
  ASSUME ShapeOK, NEW v \in DOMAIN validators, Validator(v)
  PROVE  ShapeOK'
<1>1. PICK j \in Jobs : validators' = [validators EXCEPT ![v] = j]
  BY ValidatorMoves
<1>2. DOMAIN validators' = DOMAIN validators /\ \A w \in DOMAIN validators : validators'[w] \in Jobs
  BY <1>1 DEF ShapeOK
<1>3. QED
  BY <1>2, ValidatorMoves DEF ShapeOK, sessionVars

LEMMA ShapeStep == ShapeOK /\ [Next]_vars => ShapeOK'
<1> SUFFICES ASSUME ShapeOK, [Next]_vars PROVE ShapeOK'
  OBVIOUS
<1>1. CASE FinalNext
  BY <1>1, ShapeOfBatches, ShapeOfSessions, ShapeOfValidators DEF FinalNext
<1>2. CASE UNCHANGED finalVars
  BY <1>2 DEF finalVars, results, sessionVars, ShapeOK
<1>3. QED
  BY <1>1, <1>2
  DEF Next, vars, Aggregator, Discover, CountRuns, BeginMerge, MergeDb, Normalize, VerifyIntegrity,
      Leave

LEMMA ShapeInvariant == Spec => []ShapeOK
<1>1. Init => ShapeOK
  BY ShapeInitially
<1>2. ShapeOK /\ [Next]_vars => ShapeOK'
  BY ShapeStep
<1>3. QED
  BY <1>1, <1>2, PTL DEF Spec

-----------------------------------------------------------------------------
(* The validation phase of a session.                                      *)

AskedGroups(s) == {v[2] : v \in Asked(s)}

\* What session s itself may do.
Acts(s) == Start(s) \/ StartValidationOnly(s) \/ Session(s) \/ Interrupt(s)

\* What others leave to session s: its variables, which validators it asked,
\* and how those that have ended did.
Spared(s) ==
  /\ pc'[s] = pc[s] /\ groups'[s] = groups[s] /\ unread'[s] = unread[s]
  /\ failed'[s] = failed[s] /\ rc'[s] = rc[s] /\ produced'[s] = produced[s]
  /\ Asked(s)' = Asked(s)
  /\ \A v \in Asked(s) :
       validators[v].state # "running" => validators'[v].state = validators[v].state

\* A session that has not begun to validate asked nobody; from then on its groups, asked or
\* not, share no directory, and cover what it produced; a result that was read
\* is "ok" or in validation_failed, which holds nothing else; no result is
\* left unread but after an oauth failure; no validator of a session is at
\* work outside the chunk.
PhaseInv(s) ==
  /\ pc[s] \in {"off", "batches", "batch"} =>
       Asked(s) = {} /\ groups[s] = {} /\ unread[s] = {} /\ failed[s] = {}
  /\ \A g, h \in groups[s] \cup AskedGroups(s) : g = h \/ g \cap h = {}
  /\ pc[s] \in {"validation", "chunk"} =>
       /\ \A d \in produced[s] : \E g \in groups[s] \cup AskedGroups(s) : d \in g
       /\ \A v \in Asked(s) :
            v[2] \notin unread[s] => validators[v].state = "ok" \/ v[2] \in failed[s]
       /\ \A g \in failed[s] :
            \E v \in Asked(s) : v[2] = g /\ validators[v].state \notin {"running", "ok"}
       /\ unread[s] \subseteq AskedGroups(s)
  /\ pc[s] = "validation" => unread[s] = {} \/ Stopped(s)
  /\ pc[s] \notin {"chunk", "stopping"} => Working(s) = {}
  /\ IsFiniteSet(Working(s)) /\ Cardinality(Working(s)) <= Chunk
  /\ pc[s] # "ended" => rc[s] = None
  /\ rc[s] = 0 =>
       /\ pc[s] = "ended"
       /\ \A d \in produced[s] : \E v \in Asked(s) : d \in v[2] /\ validators[v].state = "ok"
  /\ rc[s] = 1 =>
       /\ pc[s] = "ended"
       /\ \E v \in Asked(s) : validators[v].state \notin {"running", "ok"}

LEMMA SessionSpares ==
  ASSUME ShapeOK, NEW s \in Sessions, NEW t \in Sessions, s # t, Acts(t)
  PROVE  Spared(s)
<1> USE DEF Goto, At
<1>1. CASE SubmitChunk(t)
  <2>1. PICK chunk \in SUBSET groups[t] :
          /\ groups' = [groups EXCEPT ![t] = @ \ chunk]
          /\ unread' = [unread EXCEPT ![t] = chunk]
          /\ DOMAIN validators' = DOMAIN validators \cup ({t} \X chunk)
          /\ \A v \in DOMAIN validators : validators'[v] = validators[v]
    BY <1>1, SubmitMoves
  <2>2. \A v \in {t} \X chunk : v[1] # s
    OBVIOUS
  <2>3. Asked(s)' = Asked(s) /\ \A v \in Asked(s) : validators'[v] = validators[v]
    BY <2>1, <2>2 DEF Asked
  <2>4. QED
    BY <1>1, <2>1, <2>3 DEF SubmitChunk, Spared, ShapeOK
<1>2. ASSUME ~SubmitChunk(t) PROVE UNCHANGED validators
  BY <1>2 DEF Acts, Session, Start, StartValidationOnly, StartBatch, BalanceStop, ReadBatch,
    BeginValidation, ReadValidation, EndChunk, Return, Exit130, Interrupt
<1>3. ASSUME ~SubmitChunk(t)
      PROVE  /\ pc'[s] = pc[s] /\ groups'[s] = groups[s] /\ unread'[s] = unread[s]
             /\ failed'[s] = failed[s] /\ rc'[s] = rc[s] /\ produced'[s] = produced[s]
  <2>1. CASE Start(t) \/ StartValidationOnly(t)
    BY <2>1 DEF ShapeOK, Start, StartValidationOnly
  <2>2. CASE StartBatch(t) \/ BalanceStop(t) \/ BeginValidation(t)
    BY <2>2 DEF ShapeOK, StartBatch, BalanceStop, BeginValidation
  <2>3. CASE ReadBatch(t)
    BY <2>3 DEF ShapeOK, ReadBatch
  <2>4. CASE ReadValidation(t)
    BY <2>4 DEF ShapeOK, ReadValidation
  <2>5. CASE EndChunk(t) \/ Return(t) \/ Exit130(t)
    BY <2>5 DEF ShapeOK, EndChunk, Return, Exit130, Forget
  <2>6. CASE Interrupt(t)
    BY <2>6 DEF ShapeOK, Interrupt, Forget
  <2>7. QED
    BY <1>3, <2>1, <2>2, <2>3, <2>4, <2>5, <2>6 DEF Acts, Session
<1>4. QED
  BY <1>1, <1>2, <1>3 DEF Spared, Asked

LEMMA ValidatorSpares ==
  ASSUME ShapeOK, NEW s \in Sessions, NEW v \in DOMAIN validators, Validator(v)
  PROVE  Spared(s)
<1>1. PICK j \in Jobs : /\ validators' = [validators EXCEPT ![v] = j]
                        /\ validators[v].state # "running" => j.state = validators[v].state
  BY ValidatorMoves
<1>2. DOMAIN validators' = DOMAIN validators
  BY <1>1
<1>3. \A w \in DOMAIN validators :
        validators[w].state # "running" => validators'[w].state = validators[w].state
  BY <1>1
<1>4. UNCHANGED sessionVars
  BY ValidatorMoves
<1>5. QED
  BY <1>2, <1>3, <1>4 DEF Spared, Asked, sessionVars

\* Whatever happens, a session acts or is spared.
LEMMA ActsOrSpared ==
  ASSUME ShapeOK, [Next]_vars, NEW s \in Sessions
  PROVE  Acts(s) \/ Spared(s)
<1>1. CASE \E d \in Dirs : RecordRun(d) \/ CloseTimedOut(d) \/ BatchEnds(d)
  <2>1. UNCHANGED <<sessionVars, validators>>
    BY <1>1 DEF RecordRun, CloseTimedOut, BatchEnds
  <2>2. QED
    BY <2>1 DEF sessionVars, Spared, Asked
<1>2. CASE \E t \in Sessions : Acts(t)
  BY <1>2, SessionSpares
<1>3. CASE \E v \in DOMAIN validators : Validator(v)
  BY <1>3, ValidatorSpares
<1>4. CASE UNCHANGED finalVars
  BY <1>4 DEF finalVars, sessionVars, Spared, Asked
<1>5. CASE FinalNext
  BY <1>1, <1>2, <1>3, <1>5 DEF FinalNext, Acts
<1>6. QED
  BY <1>4, <1>5
  DEF Next, vars, Aggregator, Discover, CountRuns, BeginMerge, MergeDb, Normalize, VerifyIntegrity,
      Leave

LEMMA SparedPhase ==
  ASSUME ShapeOK, NEW s \in Sessions, PhaseInv(s), Spared(s)
  PROVE  PhaseInv(s)'
<1>1. AskedGroups(s)' = AskedGroups(s)
  BY DEF Spared, AskedGroups
<1>2. Working(s)' \subseteq Working(s)
  BY DEF Spared, Working
<1>3. IsFiniteSet(Working(s)') /\ Cardinality(Working(s)') <= Chunk
  <2>1. IsFiniteSet(Working(s)) /\ Cardinality(Working(s)) <= Chunk
    BY DEF PhaseInv
  <2>2. Cardinality(Working(s)') <= Cardinality(Working(s)) /\ IsFiniteSet(Working(s)')
    BY <1>2, <2>1, FS_Subset
  <2>3. Cardinality(Working(s)) \in Nat /\ Cardinality(Working(s)') \in Nat
    BY <2>1, <2>2, FS_CardinalityType
  <2>4. QED
    BY <2>1, <2>2, <2>3, Assumed
<1>4. Stopped(s) => Stopped(s)'
  BY DEF Spared, Stopped
<1>5. pc'[s] \notin {"chunk", "stopping"} => Working(s)' = {}
  BY <1>2 DEF Spared, PhaseInv
<1>6. ASSUME pc'[s] \in {"validation", "chunk"}
      PROVE  /\ \A v \in Asked(s)' :
                  v[2] \notin unread'[s] => validators'[v].state = "ok" \/ v[2] \in failed'[s]
             /\ \A g \in failed'[s] :
                  \E v \in Asked(s)' : v[2] = g /\ validators'[v].state \notin {"running", "ok"}
  BY <1>6 DEF Spared, PhaseInv
<1>7. rc'[s] = 0 => \A d \in produced'[s] : \E v \in Asked(s)' : d \in v[2] /\ validators'[v].state = "ok"
  BY DEF Spared, PhaseInv
<1>8. rc'[s] = 1 => \E v \in Asked(s)' : validators'[v].state \notin {"running", "ok"}
  BY DEF Spared, PhaseInv
<1>9. QED
  BY <1>1, <1>3, <1>4, <1>5, <1>6, <1>7, <1>8 DEF Spared, PhaseInv

\* The steps of the session itself.
LEMMA BatchesPhase ==
  ASSUME ShapeOK, NEW s \in Sessions, PhaseInv(s),
         Start(s) \/ StartBatch(s) \/ BalanceStop(s) \/ ReadBatch(s)
  PROVE  PhaseInv(s)'
<1>1. /\ pc[s] \in {"off", "batches", "batch"} /\ pc'[s] \in {"batches", "batch"}
      /\ UNCHANGED <<groups, unread, failed, rc, validators>>
  BY DEF Start, StartBatch, BalanceStop, ReadBatch, Goto, At, ShapeOK
<1>2. /\ Asked(s)' = {} /\ Working(s)' = {} /\ AskedGroups(s)' = {}
      /\ groups'[s] = {} /\ unread'[s] = {} /\ failed'[s] = {}
      /\ rc'[s] = None
  BY <1>1 DEF PhaseInv, Asked, Working, AskedGroups
<1>3. IsFiniteSet(Working(s)') /\ Cardinality(Working(s)') <= Chunk
  BY <1>2, FS_EmptySet, Assumed
<1>4. QED
  BY <1>1, <1>2, <1>3, Assumed DEF PhaseInv

LEMMA BeginPhase ==
  ASSUME ShapeOK, NEW s \in Sessions, PhaseInv(s), StartValidationOnly(s) \/ BeginValidation(s)
  PROVE  PhaseInv(s)'
<1>1. /\ pc[s] \in {"off", "batches"} /\ pc'[s] = "validation"
      /\ UNCHANGED <<unread, failed, rc, validators>>
  BY DEF StartValidationOnly, BeginValidation, Goto, At, ShapeOK
<1>2. PICK dirs \in SUBSET Dirs : produced'[s] = dirs /\ groups'[s] = Grouped(dirs)
  <2>1. CASE StartValidationOnly(s)
    <3>1. {d \in Dirs : HasDb(d)} \in SUBSET Dirs
      OBVIOUS
    <3>2. QED
      BY <2>1, <3>1 DEF StartValidationOnly, ShapeOK
  <2>2. CASE BeginValidation(s)
    <3>1. produced[s] \in SUBSET Dirs
      BY DEF ShapeOK
    <3>2. produced'[s] = produced[s] /\ groups'[s] = Grouped(produced[s])
      BY <2>2 DEF BeginValidation, ShapeOK
    <3>3. QED
      BY <3>1, <3>2
  <2>3. QED
    BY <2>1, <2>2
<1>3. /\ Asked(s)' = {} /\ Working(s)' = {} /\ AskedGroups(s)' = {}
      /\ unread'[s] = {} /\ failed'[s] = {} /\ rc'[s] = None
  BY <1>1 DEF PhaseInv, Asked, Working, AskedGroups
<1>4. IsFiniteSet(Working(s)') /\ Cardinality(Working(s)') <= Chunk
  BY <1>3, FS_EmptySet, Assumed
<1>5. /\ \A g, h \in Grouped(dirs) : g = h \/ g \cap h = {}
      /\ \A d \in dirs : \E g \in Grouped(dirs) : d \in g
  BY GroupedPartition
<1>6. QED
  BY <1>1, <1>2, <1>3, <1>4, <1>5, Assumed DEF PhaseInv

LEMMA SubmitPhase ==
  ASSUME ShapeOK, NEW s \in Sessions, PhaseInv(s), SubmitChunk(s)
  PROVE  PhaseInv(s)'
<1>1. PICK chunk \in SUBSET groups[s] :
        /\ Cardinality(chunk) <= Chunk
        /\ groups' = [groups EXCEPT ![s] = @ \ chunk]
        /\ unread' = [unread EXCEPT ![s] = chunk]
        /\ DOMAIN validators' = DOMAIN validators \cup ({s} \X chunk)
        /\ \A v \in DOMAIN validators : validators'[v] = validators[v]
        /\ \A v \in DOMAIN validators' \ DOMAIN validators : validators'[v] = NewJob(v[2])
  BY SubmitMoves
<1>2. /\ pc[s] = "validation" /\ ~Stopped(s) /\ pc'[s] = "chunk"
      /\ UNCHANGED <<produced, failed, rc>>
  BY DEF SubmitChunk, Goto, At, ShapeOK
<1>3. groups'[s] = groups[s] \ chunk /\ unread'[s] = chunk /\ unread[s] = {}
  BY <1>1, <1>2 DEF ShapeOK, PhaseInv
<1>4. Asked(s)' = Asked(s) \cup ({s} \X chunk)
  BY <1>1 DEF Asked
<1>5. AskedGroups(s)' = AskedGroups(s) \cup chunk
  <2>1. ASSUME NEW g \in AskedGroups(s) \cup chunk PROVE g \in AskedGroups(s)'
    <3>1. PICK v \in Asked(s) \cup ({s} \X chunk) : v[2] = g
      <4>1. CASE g \in chunk
        <5>1. <<s, g>> \in {s} \X chunk /\ <<s, g>>[2] = g
          BY <4>1
        <5>2. QED
          BY <5>1
      <4>2. CASE g \in AskedGroups(s)
        BY <4>2 DEF AskedGroups
      <4>3. QED
        BY <2>1, <4>1, <4>2
    <3>2. QED
      BY <1>4, <3>1 DEF AskedGroups
  <2>2. AskedGroups(s)' \subseteq AskedGroups(s) \cup chunk
    BY <1>4 DEF AskedGroups
  <2>3. QED
    BY <2>1, <2>2
<1>6. groups'[s] \cup AskedGroups(s)' = groups[s] \cup AskedGroups(s)
  BY <1>3, <1>5
<1>7. \A v \in Asked(s) : validators'[v] = validators[v]
  BY <1>1 DEF Asked
<1>8. Working(s)' \subseteq {s} \X chunk
  BY <1>2, <1>4, <1>7 DEF Working, PhaseInv
<1>9. IsFiniteSet(Working(s)') /\ Cardinality(Working(s)') <= Chunk
  <2>1. IsFiniteSet(chunk)
    <3>1. chunk \in SUBSET SUBSET Dirs
      BY DEF ShapeOK
    <3>2. QED
      BY <3>1, DirsFinite, FS_SUBSET, FS_Subset
  <2>2. IsFiniteSet({s}) /\ Cardinality({s}) = 1
    BY FS_Singleton
  <2>3. IsFiniteSet({s} \X chunk) /\ Cardinality({s} \X chunk) = 1 * Cardinality(chunk)
    BY <2>1, <2>2, FS_Product
  <2>4. IsFiniteSet(Working(s)') /\ Cardinality(Working(s)') <= Cardinality({s} \X chunk)
    BY <1>8, <2>3, FS_Subset
  <2>5. Cardinality(chunk) \in Nat /\ Cardinality(Working(s)') \in Nat
    BY <2>1, <2>4, FS_CardinalityType
  <2>6. QED
    BY <1>1, <2>3, <2>4, <2>5, Assumed
<1>10. \A v \in Asked(s)' :
         v[2] \notin unread'[s] => validators'[v].state = "ok" \/ v[2] \in failed'[s]
  BY <1>2, <1>3, <1>4, <1>7 DEF PhaseInv
<1>11. \A g \in failed'[s] :
         \E v \in Asked(s)' : v[2] = g /\ validators'[v].state \notin {"running", "ok"}
  <2>1. \A g \in failed[s] :
          \E v \in Asked(s) : v[2] = g /\ validators[v].state \notin {"running", "ok"}
    BY <1>2 DEF PhaseInv
  <2>2. QED
    BY <1>2, <1>4, <1>7, <2>1
<1>12. rc'[s] = None
  BY <1>2 DEF PhaseInv
<1>13. QED
  BY <1>2, <1>3, <1>5, <1>6, <1>9, <1>10, <1>11, <1>12, Assumed DEF PhaseInv

LEMMA ReadPhase ==
  ASSUME ShapeOK, NEW s \in Sessions, PhaseInv(s), ReadValidation(s)
  PROVE  PhaseInv(s)'
<1>1. PICK g \in unread[s] :
        /\ validators[<<s, g>>].state # "running"
        /\ unread' = [unread EXCEPT ![s] = @ \ {g}]
        /\ failed' = IF validators[<<s, g>>].state = "ok" THEN failed
                     ELSE [failed EXCEPT ![s] = @ \cup {g}]
  BY DEF ReadValidation
<1>2. pc[s] = "chunk" /\ UNCHANGED <<pc, produced, groups, rc, validators>>
  BY DEF ReadValidation, At
<1>3. /\ Asked(s)' = Asked(s) /\ Working(s)' = Working(s) /\ AskedGroups(s)' = AskedGroups(s)
  BY <1>2 DEF Asked, Working, AskedGroups
<1>4. <<s, g>> \in Asked(s)
  <2>1. PICK v \in Asked(s) : v[2] = g
    BY <1>2 DEF PhaseInv, AskedGroups
  <2>2. v = <<s, g>>
    BY <2>1, ValidatorName DEF Asked
  <2>3. QED
    BY <2>1, <2>2
<1>5. unread'[s] = unread[s] \ {g}
  BY <1>1 DEF ShapeOK
<1>6. failed'[s] = IF validators[<<s, g>>].state = "ok" THEN failed[s] ELSE failed[s] \cup {g}
  BY <1>1 DEF ShapeOK
<1>7. ASSUME NEW v \in Asked(s), v[2] \notin unread'[s]
      PROVE  validators[v].state = "ok" \/ v[2] \in failed'[s]
  <2>1. CASE v[2] = g
    <3>1. v = <<s, g>>
      BY <2>1, ValidatorName DEF Asked
    <3>2. QED
      BY <2>1, <3>1, <1>6
  <2>2. CASE v[2] # g
    BY <1>2, <1>5, <1>6, <1>7, <2>2 DEF PhaseInv
  <2>3. QED
    BY <2>1, <2>2
<1>8. \A h \in failed'[s] :
        \E v \in Asked(s) : v[2] = h /\ validators[v].state \notin {"running", "ok"}
  <2>1. \A h \in failed[s] :
          \E v \in Asked(s) : v[2] = h /\ validators[v].state \notin {"running", "ok"}
    BY <1>2 DEF PhaseInv
  <2>2. <<s, g>>[2] = g
    OBVIOUS
  <2>3. QED
    BY <1>1, <1>4, <1>6, <2>1, <2>2
<1>9. rc'[s] = None
  BY <1>2 DEF PhaseInv
<1>10. QED
  BY <1>2, <1>3, <1>5, <1>7, <1>8, <1>9, Assumed DEF PhaseInv

LEMMA EndChunkPhase ==
  ASSUME ShapeOK, NEW s \in Sessions, PhaseInv(s), EndChunk(s)
  PROVE  PhaseInv(s)'
<1>1. /\ pc[s] = "chunk" /\ pc'[s] = "validation" /\ Working(s) = {}
      /\ unread[s] = {} \/ Stopped(s)
      /\ UNCHANGED <<produced, groups, unread, failed, rc, validators>>
  BY DEF EndChunk, Goto, At, ShapeOK
<1>2. /\ Asked(s)' = Asked(s) /\ Working(s)' = Working(s) /\ AskedGroups(s)' = AskedGroups(s)
      /\ Stopped(s)' = Stopped(s)
  BY <1>1 DEF Asked, Working, AskedGroups, Stopped
<1>3. QED
  BY <1>1, <1>2, Assumed DEF PhaseInv

LEMMA ReturnPhase ==
  ASSUME ShapeOK, NEW s \in Sessions, PhaseInv(s), Return(s)
  PROVE  PhaseInv(s)'
<1>1. /\ pc[s] = "validation" /\ pc'[s] = "ended"
      /\ groups[s] = {} \/ Stopped(s)
      /\ groups'[s] = {} /\ rc'[s] = IF failed[s] = {} THEN 0 ELSE 1
      /\ UNCHANGED <<produced, validators>>
  BY DEF Return, Forget, Goto, At, ShapeOK
<1>2. /\ Asked(s)' = Asked(s) /\ Working(s)' = Working(s) /\ AskedGroups(s)' = AskedGroups(s)
  BY <1>1 DEF Asked, Working, AskedGroups
<1>3. ASSUME failed[s] = {}, NEW d \in produced[s]
      PROVE  \E v \in Asked(s) : d \in v[2] /\ validators[v].state = "ok"
  <2>1. ~Stopped(s)
    BY <1>1, <1>3 DEF Stopped, PhaseInv
  <2>2. groups[s] = {} /\ unread[s] = {}
    BY <1>1, <2>1 DEF PhaseInv
  <2>3. PICK g \in AskedGroups(s) : d \in g
    BY <1>1, <2>2 DEF PhaseInv
  <2>4. PICK v \in Asked(s) : g = v[2]
    BY DEF AskedGroups
  <2>5. validators[v].state = "ok"
    BY <1>1, <1>3, <2>2, <2>4 DEF PhaseInv
  <2>6. QED
    BY <2>3, <2>4, <2>5
<1>4. ASSUME failed[s] # {} PROVE \E v \in Asked(s) : validators[v].state \notin {"running", "ok"}
  BY <1>1, <1>4 DEF PhaseInv
<1>5. QED
  BY <1>1, <1>2, <1>3, <1>4 DEF PhaseInv

LEMMA SignalPhase ==
  ASSUME ShapeOK, NEW s \in Sessions, PhaseInv(s), Interrupt(s) \/ Exit130(s)
  PROVE  PhaseInv(s)'
<1>1. UNCHANGED validators
  BY DEF Interrupt, Exit130
<1>2. /\ Asked(s)' = Asked(s) /\ Working(s)' = Working(s) /\ AskedGroups(s)' = AskedGroups(s)
  BY <1>1 DEF Asked, Working, AskedGroups
<1>3. CASE Interrupt(s)
  <2>1. pc[s] # "ended" /\ pc'[s] = "stopping" /\ groups'[s] = {} /\ UNCHANGED rc
    BY <1>3 DEF Interrupt, Forget, Goto, ShapeOK
  <2>2. QED
    BY <1>2, <2>1, Assumed DEF PhaseInv
<1>4. CASE Exit130(s)
  <2>1. Working(s) = {} /\ pc'[s] = "ended" /\ rc'[s] = 130 /\ UNCHANGED groups
    BY <1>4 DEF Exit130, Goto, ShapeOK
  <2>2. QED
    BY <1>2, <2>1 DEF PhaseInv
<1>5. QED
  BY <1>3, <1>4

LEMMA PhaseInitially == Init => \A s \in Sessions : PhaseInv(s)
<1> SUFFICES ASSUME Init, NEW s \in Sessions PROVE PhaseInv(s)
  OBVIOUS
<1>1. /\ groups[s] = {} /\ unread[s] = {} /\ failed[s] = {} /\ rc[s] = None
      /\ pc[s] \in {"off", "ended"} /\ DOMAIN validators = {}
  BY DEF Init, FinalInit
<1>2. Asked(s) = {} /\ Working(s) = {} /\ AskedGroups(s) = {}
  BY <1>1 DEF Asked, Working, AskedGroups
<1>3. IsFiniteSet(Working(s)) /\ Cardinality(Working(s)) <= Chunk
  BY <1>2, FS_EmptySet, Assumed
<1>4. QED
  BY <1>1, <1>2, <1>3, Assumed DEF PhaseInv

LEMMA PhaseStep ==
  ASSUME ShapeOK, [Next]_vars, NEW s \in Sessions, PhaseInv(s)
  PROVE  PhaseInv(s)'
<1>1. CASE Spared(s)
  BY <1>1, SparedPhase
<1>2. CASE Acts(s)
  BY <1>2, BatchesPhase, BeginPhase, SubmitPhase, ReadPhase, EndChunkPhase, ReturnPhase, SignalPhase
  DEF Acts, Session
<1>3. QED
  BY <1>1, <1>2, ActsOrSpared

LEMMA PhaseInvariant == Spec => [](\A s \in Sessions : PhaseInv(s))
<1>1. Init => \A s \in Sessions : PhaseInv(s)
  BY PhaseInitially
<1>2. ShapeOK /\ (\A s \in Sessions : PhaseInv(s)) /\ [Next]_vars
        => (\A s \in Sessions : PhaseInv(s))'
  BY PhaseStep
<1>3. QED
  BY <1>1, <1>2, ShapeInvariant, PTL DEF Spec

\* A session's exit code after a validation tells what its validators returned: 0 that
\* every directory it had to validate was in the group of one that returned 0, and 1 that
\* one did not; and no directory is ever in two groups it asked for.
THEOREM ExitTellsValidationHolds == Spec => []ExitTellsValidation
<1>1. ASSUME ShapeOK, NEW s \in Sessions, PhaseInv(s), NEW d \in Dirs
      PROVE  Cardinality({v \in Asked(s) : d \in v[2]}) <= 1
  <2> DEFINE of == {v \in Asked(s) : d \in v[2]}
  <2>1. ASSUME NEW v \in of, NEW w \in of PROVE v = w
    <3>1. v[2] \in AskedGroups(s) /\ w[2] \in AskedGroups(s)
      BY DEF AskedGroups
    <3>2. v[2] = w[2]
      BY <1>1, <3>1 DEF PhaseInv
    <3>3. v = <<v[1], v[2]>> /\ w = <<w[1], w[2]>> /\ v[1] = s /\ w[1] = s
      BY <1>1, ValidatorName DEF Asked
    <3>4. QED
      BY <3>2, <3>3
  <2>2. QED
    BY <2>1, AtMostOne
<1>2. ShapeOK /\ (\A s \in Sessions : PhaseInv(s)) => ExitTellsValidation
  BY <1>1 DEF PhaseInv, ExitTellsValidation
<1>3. QED
  BY <1>2, ShapeInvariant, PhaseInvariant, PTL

-----------------------------------------------------------------------------
(* What the batches and the validators write.                              *)

\* A directory whose batch has not started holds no run, a session has not
\* started the batches it still has to run, and a run has one verdict.
BatchInv ==
  /\ \A d \in Dirs, c \in Cases : process[d] = "absent" => runs[d][c] = "none"
  /\ \A s \in Sessions, b \in Batches :
       b \in pending[s] \/ pc[s] = "off" => process[<<b, s>>] = "absent"

OneVerdict == \A d \in Dirs : \A x, y \in verdicts[d] : x.case = y.case => x = y

\* A run that is recorded stays recorded, and a batch that has ended writes no
\* more, because no session starts the batch of a directory again.
Lasting ==
  \A d \in Dirs :
    /\ process[d] # "absent" => process'[d] # "absent"
    /\ process[d] \in {"passed", "failed"} => process'[d] = process[d] /\ runs'[d] = runs[d]
    /\ \A c \in Cases : runs[d][c] # "none" => runs'[d][c] # "none"

LEMMA BatchStartsOnce ==
  ASSUME ShapeOK, BatchInv, NEW s \in Sessions, StartBatch(s)
  PROVE  BatchInv' /\ Lasting
<1>1. PICK b \in pending[s] :
        /\ pending' = [pending EXCEPT ![s] = @ \ {b}]
        /\ process' = [process EXCEPT ![<<b, s>>] = "running"]
  BY DEF StartBatch
<1>2. /\ pc[s] = "batches" /\ pc' = [pc EXCEPT ![s] = "batch"]
      /\ UNCHANGED runs
  BY DEF StartBatch, Goto, At
<1>3. b \in Batches /\ <<b, s>> \in Dirs /\ process[<<b, s>>] = "absent"
  BY DEF ShapeOK, BatchInv, Dirs
<1>4. ASSUME NEW d \in Dirs PROVE process'[d] = IF d = <<b, s>> THEN "running" ELSE process[d]
  BY <1>1, <1>3 DEF ShapeOK
<1>5. ASSUME NEW t \in Sessions, NEW k \in Batches, k \in pending'[t] \/ pc'[t] = "off"
      PROVE  process'[<<k, t>>] = "absent"
  <2>1. k \in pending[t] \/ pc[t] = "off"
    BY <1>1, <1>2, <1>5 DEF ShapeOK
  <2>2. <<k, t>> # <<b, s>>
    BY <1>1, <1>2, <1>5 DEF ShapeOK
  <2>3. <<k, t>> \in Dirs
    BY DEF Dirs
  <2>4. QED
    BY <1>4, <2>1, <2>2, <2>3 DEF BatchInv
<1>6. QED
  BY <1>2, <1>3, <1>4, <1>5 DEF BatchInv, Lasting

LEMMA BatchWrites ==
  ASSUME ShapeOK, BatchInv, NEW d \in Dirs, RecordRun(d) \/ CloseTimedOut(d)
  PROVE  BatchInv' /\ Lasting
<1>1. process[d] = "running" /\ UNCHANGED <<process, pc, pending>>
  BY DEF RecordRun, CloseTimedOut, sessionVars
<1>2. PICK c \in Cases, row \in {"resolved", "unresolved"} : runs' = [runs EXCEPT ![d][c] = row]
  BY DEF RecordRun, CloseTimedOut
<1>3. \A e \in Dirs : e # d => runs'[e] = runs[e]
  BY <1>2 DEF ShapeOK
<1>4. \A k \in Cases : runs'[d][k] = IF k = c THEN row ELSE runs[d][k]
  BY <1>2 DEF ShapeOK
<1>5. QED
  BY <1>1, <1>3, <1>4 DEF BatchInv, Lasting

LEMMA BatchStep ==
  ASSUME ShapeOK, BatchInv, [Next]_vars
  PROVE  BatchInv' /\ Lasting
<1> USE DEF Goto, At, results
<1>1. CASE \E d \in Dirs : RecordRun(d) \/ CloseTimedOut(d)
  BY <1>1, BatchWrites
<1>2. CASE \E d \in Dirs : BatchEnds(d)
  BY <1>2 DEF BatchEnds, sessionVars, ShapeOK, BatchInv, Lasting
<1>3. ASSUME NEW s \in Sessions, Acts(s) PROVE BatchInv' /\ Lasting
  <2>1. CASE Start(s)
    <3>1. UNCHANGED <<runs, process>> /\ pc[s] = "off"
      BY <2>1 DEF Start
    <3>2. \A t \in Sessions, b \in Batches :
            b \in pending'[t] \/ pc'[t] = "off" => b \in pending[t] \/ pc[t] = "off"
      BY <2>1 DEF Start, ShapeOK
    <3>3. QED
      BY <3>1, <3>2 DEF BatchInv, Lasting
  <2>2. CASE StartBatch(s)
    BY <2>2, BatchStartsOnce
  <2>3. CASE Interrupt(s)
    <3>1. \A t \in Sessions, b \in Batches :
            b \in pending'[t] \/ pc'[t] = "off" => b \in pending[t] \/ pc[t] = "off"
      BY <2>3 DEF Interrupt, Forget, ShapeOK
    <3>2. \A d \in Dirs : \/ process'[d] = process[d]
                          \/ process[d] = "running" /\ process'[d] = "failed"
      <4>1. CASE UNCHANGED process
        BY <4>1
      <4>2. CASE /\ process[current[s]] = "running"
                 /\ process' = [process EXCEPT ![current[s]] = "failed"]
        BY <4>2 DEF ShapeOK
      <4>3. QED
        BY <2>3, <4>1, <4>2 DEF Interrupt
    <3>3. UNCHANGED runs
      BY <2>3 DEF Interrupt
    <3>4. \A t \in Sessions, b \in Batches : <<b, t>> \in Dirs
      BY DEF Dirs
    <3>5. QED
      BY <3>1, <3>2, <3>3, <3>4 DEF BatchInv, Lasting
  <2>4. ASSUME ~Start(s), ~StartBatch(s), ~Interrupt(s) PROVE BatchInv' /\ Lasting
    <3>1. UNCHANGED <<runs, process>>
      BY <1>3, <2>4 DEF Acts, Session, StartValidationOnly, BalanceStop, ReadBatch, BeginValidation,
        SubmitChunk, ReadValidation, EndChunk, Return, Exit130
    <3>2. \A t \in Sessions, b \in Batches : pc'[t] = "off" => pc[t] = "off"
      BY <1>3, <2>4 DEF Acts, Session, StartValidationOnly, BalanceStop, ReadBatch, BeginValidation,
        SubmitChunk, ReadValidation, EndChunk, Return, Exit130, ShapeOK
    <3>3. \A t \in Sessions, b \in Batches : b \in pending'[t] => b \in pending[t]
      BY <1>3, <2>4 DEF Acts, Session, StartValidationOnly, BalanceStop, ReadBatch, BeginValidation,
        SubmitChunk, ReadValidation, EndChunk, Return, Exit130, Forget, ShapeOK
    <3>4. QED
      BY <3>1, <3>2, <3>3 DEF BatchInv, Lasting
  <2>5. QED
    BY <2>1, <2>2, <2>3, <2>4
<1>4. CASE \E v \in DOMAIN validators : Validator(v)
  BY <1>4, ValidatorMoves DEF sessionVars, BatchInv, Lasting
<1>5. CASE UNCHANGED finalVars
  BY <1>5 DEF finalVars, sessionVars, BatchInv, Lasting
<1>6. CASE FinalNext
  BY <1>1, <1>2, <1>3, <1>4, <1>6 DEF FinalNext, Acts
<1>7. QED
  BY <1>5, <1>6
  DEF Next, vars, Aggregator, Discover, CountRuns, BeginMerge, MergeDb, Normalize, VerifyIntegrity,
      Leave

LEMMA VerdictStep ==
  ASSUME ShapeOK, OneVerdict, [Next]_vars
  PROVE  OneVerdict'
<1>1. ASSUME NEW v \in DOMAIN validators, WriteVerdict(v) PROVE OneVerdict'
  <2>1. PICK x \in validators[v].todo, verdict \in Verdicts :
          verdicts' = [verdicts EXCEPT
            ![x[1]] = (@ \ Judged(x[1], x[2]))
                      \cup {[case |-> x[2], by |-> v[1], verdict |-> verdict]}]
    BY <1>1 DEF WriteVerdict
  <2>2. x[1] \in Dirs
    BY JobFields
  <2> DEFINE row == [case |-> x[2], by |-> v[1], verdict |-> verdict]
  <2>3. verdicts'[x[1]] = (verdicts[x[1]] \ Judged(x[1], x[2])) \cup {row}
    BY <2>1, <2>2 DEF ShapeOK
  <2>4. \A d \in Dirs : d # x[1] => verdicts'[d] = verdicts[d]
    BY <2>1 DEF ShapeOK
  <2>5. ASSUME NEW y \in verdicts'[x[1]], y # row
        PROVE  y \in verdicts[x[1]] /\ y.case # row.case
    <3>1. y \in verdicts[x[1]] \ Judged(x[1], x[2]) /\ row.case = x[2]
      BY <2>3, <2>5
    <3>2. QED
      BY <3>1 DEF Judged
  <2> HIDE DEF row
  <2>6. QED
    BY <2>4, <2>5 DEF OneVerdict
<1>2. CASE UNCHANGED verdicts
  BY <1>2 DEF OneVerdict
<1>3. CASE FinalNext
  <2>1. CASE \E d \in Dirs : RecordRun(d) \/ CloseTimedOut(d) \/ BatchEnds(d)
    BY <1>2, <2>1 DEF RecordRun, CloseTimedOut, BatchEnds
  <2>2. CASE \E s \in Sessions : Acts(s)
    BY <1>2, <2>2 DEF Acts, Session, Start, StartValidationOnly, StartBatch, BalanceStop, ReadBatch,
      BeginValidation, SubmitChunk, ReadValidation, EndChunk, Return, Exit130, Interrupt, results
  <2>3. CASE \E v \in DOMAIN validators : Validator(v)
    BY <1>1, <1>2, <2>3 DEF Validator, ListRuns, NotLoggedIn, ValidatorEnds, results
  <2>4. QED
    BY <1>3, <2>1, <2>2, <2>3 DEF FinalNext, Acts
<1>4. QED
  BY <1>2, <1>3
  DEF Next, vars, finalVars, results, Aggregator, Discover, CountRuns, BeginMerge, MergeDb, Normalize,
      VerifyIntegrity, Leave

LEMMA BatchInitially == Init => BatchInv /\ OneVerdict
<1> SUFFICES ASSUME Init PROVE BatchInv /\ OneVerdict
  OBVIOUS
<1>1. \A d \in Dirs, c \in Cases : process[d] = "absent" => runs[d][c] = "none"
  BY DEF Init, FinalInit
<1>2. ASSUME NEW s \in Sessions, NEW b \in Batches, b \in pending[s] \/ pc[s] = "off"
      PROVE  process[<<b, s>>] = "absent"
  <2>1. <<b, s>> \in Dirs /\ s \notin Earlier
    BY <1>2 DEF Init, FinalInit, Dirs
  <2>2. QED
    BY <2>1 DEF Init, FinalInit
<1>3. OneVerdict
  BY DEF Init, FinalInit, OneVerdict
<1>4. QED
  BY <1>1, <1>2, <1>3 DEF BatchInv

LEMMA BatchInvariant == Spec => [](BatchInv /\ OneVerdict)
<1>1. Init => BatchInv /\ OneVerdict
  BY BatchInitially
<1>2. ShapeOK /\ BatchInv /\ OneVerdict /\ [Next]_vars => (BatchInv /\ OneVerdict)'
  BY BatchStep, VerdictStep
<1>3. QED
  BY <1>1, <1>2, ShapeInvariant, PTL DEF Spec

-----------------------------------------------------------------------------
(* The aggregate.                                                          *)

\* The databases the output has so far.
Merged == IF step = "merge" THEN found \ left
          ELSE IF step \in {"verify", "clean", "warned"} THEN found ELSE {}

\* A database that was found is there for good, holds what was counted, and is
\* not written any more if its batch had ended.
CountInv ==
  /\ step \in {"idle", "count", "merge", "verify", "clean", "warned"}
  /\ found \subseteq Dirs /\ left \subseteq found /\ settled \subseteq found
  /\ counted \in [Dirs -> SUBSET Cases]
  /\ \A d \in found : process[d] # "absent" /\ counted[d] \subseteq Recorded(d)
  /\ \A d \in settled : process[d] \in {"passed", "failed"}

\* The output has every counted run of the merged databases once, and those of
\* an ended batch as its database has them.
OutRunsInv ==
  /\ outRuns \subseteq [id : Dirs \X Cases, resolved : BOOLEAN]
  /\ \A r \in outRuns : r.id[1] \in Merged
  /\ \A r, q \in outRuns : r.id = q.id => r = q
  /\ \A d \in Merged : \A c \in counted[d] : \E r \in outRuns : r.id = <<d, c>>
  /\ \A d \in Merged \cap settled : {r \in outRuns : r.id[1] = d} = MergedRuns(d)

\* It has at most one verdict of a run, a judge's until it is normalized, and
\* then the one CleanAggregate asks for.
OutRowsInv ==
  /\ outRows \subseteq [id : Dirs \X Cases, verdict : Verdicts \cup {"FAIL"},
                        by : Sessions \cup {None}]
  /\ \A x \in outRows : x.id[1] \in Merged
  /\ \A x, y \in outRows : x.id = y.id => x = y
  /\ step = "merge" => \A x \in outRows : x.by # None
  /\ step \in {"verify", "clean"} =>
       \A r \in outRuns :
         IF r.resolved THEN \A x \in RowsOf(r.id) : x.by # None
         ELSE RowsOf(r.id) # {} /\ \A x \in RowsOf(r.id) : x.verdict = "FAIL"

AggregateInv ==
  /\ CountInv /\ OutRunsInv /\ OutRowsInv
  /\ step = "clean" => {r.id : r \in outRuns} = CountedRuns

\* What a merge reads from one database.
LEMMA MergedRunsOf ==
  ASSUME NEW d \in Dirs
  PROVE  /\ MergedRuns(d) \subseteq [id : Dirs \X Cases, resolved : BOOLEAN]
         /\ \A r \in MergedRuns(d) : r.id[1] = d
         /\ \A r, q \in MergedRuns(d) : r.id = q.id => r = q
         /\ \A c \in Recorded(d) : \E r \in MergedRuns(d) : r.id = <<d, c>>
<1>1. \A r \in MergedRuns(d) : \E c \in Recorded(d) :
        r = [id |-> <<d, c>>, resolved |-> runs[d][c] = "resolved"]
  BY DEF MergedRuns
<1>2. \A c \in Recorded(d) :
        [id |-> <<d, c>>, resolved |-> runs[d][c] = "resolved"] \in MergedRuns(d)
  BY DEF MergedRuns
<1>3. Recorded(d) \subseteq Cases
  BY DEF Recorded
<1>4. ASSUME NEW r \in MergedRuns(d) PROVE r \in [id : Dirs \X Cases, resolved : BOOLEAN]
  <2>1. PICK c \in Recorded(d) : r = [id |-> <<d, c>>, resolved |-> runs[d][c] = "resolved"]
    BY <1>1
  <2>2. <<d, c>> \in Dirs \X Cases
    BY <1>3
  <2>3. (runs[d][c] = "resolved") \in BOOLEAN
    OBVIOUS
  <2>4. QED
    BY <2>1, <2>2, <2>3
<1>5. ASSUME NEW c \in Recorded(d) PROVE \E r \in MergedRuns(d) : r.id = <<d, c>>
  BY <1>2
<1>6. ASSUME NEW r \in MergedRuns(d), NEW q \in MergedRuns(d), r.id = q.id PROVE r = q
  <2>1. PICK c \in Recorded(d) : r = [id |-> <<d, c>>, resolved |-> runs[d][c] = "resolved"]
    BY <1>1
  <2>2. PICK k \in Recorded(d) : q = [id |-> <<d, k>>, resolved |-> runs[d][k] = "resolved"]
    BY <1>1
  <2>3. c = k
    BY <1>6, <2>1, <2>2
  <2>4. QED
    BY <2>1, <2>2, <2>3
<1>7. \A r \in MergedRuns(d) : r.id[1] = d
  BY <1>1
<1>8. QED
  BY <1>4, <1>5, <1>6, <1>7

LEMMA MergedRowsOf ==
  ASSUME ShapeOK, OneVerdict, NEW d \in Dirs
  PROVE  /\ MergedRows(d) \subseteq [id : Dirs \X Cases, verdict : Verdicts \cup {"FAIL"},
                                     by : Sessions \cup {None}]
         /\ \A x \in MergedRows(d) : x.id[1] = d /\ x.by # None
         /\ \A x, y \in MergedRows(d) : x.id = y.id => x = y
<1>1. \A x \in MergedRows(d) : \E r \in verdicts[d] :
        x = [id |-> <<d, r.case>>, verdict |-> r.verdict, by |-> r.by]
  BY DEF MergedRows
<1>2. \A r \in verdicts[d] : r.case \in Cases /\ r.by \in Sessions /\ r.verdict \in Verdicts
  BY DEF ShapeOK, Rows
<1>3. ASSUME NEW x \in MergedRows(d)
      PROVE  /\ x \in [id : Dirs \X Cases, verdict : Verdicts \cup {"FAIL"}, by : Sessions \cup {None}]
             /\ x.id[1] = d /\ x.by # None
  <2>1. PICK r \in verdicts[d] : x = [id |-> <<d, r.case>>, verdict |-> r.verdict, by |-> r.by]
    BY <1>1
  <2>2. QED
    BY <1>2, <2>1, Assumed
<1>4. ASSUME NEW x \in MergedRows(d), NEW y \in MergedRows(d), x.id = y.id PROVE x = y
  <2>1. PICK r \in verdicts[d] : x = [id |-> <<d, r.case>>, verdict |-> r.verdict, by |-> r.by]
    BY <1>1
  <2>2. PICK q \in verdicts[d] : y = [id |-> <<d, q.case>>, verdict |-> q.verdict, by |-> q.by]
    BY <1>1
  <2>3. r = q
    BY <1>4, <2>1, <2>2 DEF OneVerdict
  <2>4. QED
    BY <2>1, <2>2, <2>3
<1>5. QED
  BY <1>3, <1>4

LEMMA DiscoverAggregate ==
  ASSUME ShapeOK, BatchInv, AggregateInv, Discover
  PROVE  AggregateInv'
<1>1. /\ step = "idle" /\ step' = "count" /\ found' = {d \in Dirs : HasDb(d)}
      /\ left' = found' /\ settled' = {} /\ counted' = [d \in Dirs |-> {}]
      /\ UNCHANGED <<runs, process, outRuns, outRows>>
  BY DEF Discover, finalVars, results
<1>2. outRuns = {} /\ outRows = {}
  BY <1>1 DEF AggregateInv, OutRunsInv, OutRowsInv, Merged
<1>3. \A d \in found' : process[d] # "absent"
  BY <1>1 DEF BatchInv, HasDb
<1>4. CountInv'
  BY <1>1, <1>3 DEF CountInv
<1>5. Merged' = {}
  BY <1>1 DEF Merged
<1>6. OutRunsInv' /\ OutRowsInv'
  BY <1>1, <1>2, <1>5 DEF OutRunsInv, OutRowsInv
<1>7. QED
  BY <1>1, <1>4, <1>6 DEF AggregateInv

LEMMA CountAggregate ==
  ASSUME ShapeOK, AggregateInv, CountRuns
  PROVE  AggregateInv'
<1>1. PICK d \in left :
        /\ counted' = [counted EXCEPT ![d] = Recorded(d)]
        /\ settled' = IF process[d] # "running" THEN settled \cup {d} ELSE settled
        /\ left' = left \ {d}
  BY DEF CountRuns
<1>2. step = "count" /\ UNCHANGED <<runs, process, step, found, outRuns, outRows>>
  BY DEF CountRuns, finalVars, results
<1>3. d \in found /\ d \in Dirs /\ process[d] \in {"running", "passed", "failed"}
  BY DEF AggregateInv, CountInv, ShapeOK
<1>4. Recorded(d) \in SUBSET Cases /\ \A e \in Dirs : Recorded(e)' = Recorded(e)
  BY <1>2 DEF Recorded
<1>5. counted' \in [Dirs -> SUBSET Cases]
      /\ \A e \in Dirs : counted'[e] = IF e = d THEN Recorded(d) ELSE counted[e]
  BY <1>1, <1>3, <1>4 DEF AggregateInv, CountInv
<1>6. \A e \in found' : process'[e] # "absent" /\ counted'[e] \subseteq Recorded(e)'
  BY <1>2, <1>4, <1>5 DEF AggregateInv, CountInv
<1>7. \A e \in settled' : e \in found /\ process'[e] \in {"passed", "failed"}
  BY <1>1, <1>2, <1>3 DEF AggregateInv, CountInv
<1>8. CountInv'
  <2>1. left' \subseteq found' /\ settled' \subseteq found' /\ found' \subseteq Dirs
    BY <1>1, <1>2, <1>7 DEF AggregateInv, CountInv
  <2>2. QED
    BY <1>2, <1>5, <1>6, <1>7, <2>1 DEF CountInv
<1>9. Merged = {} /\ Merged' = {} /\ outRuns = {} /\ outRows = {}
  BY <1>2 DEF Merged, AggregateInv, OutRunsInv, OutRowsInv
<1>10. OutRunsInv' /\ OutRowsInv'
  BY <1>2, <1>9 DEF OutRunsInv, OutRowsInv
<1>11. QED
  BY <1>2, <1>8, <1>10 DEF AggregateInv

LEMMA BeginAggregate ==
  ASSUME AggregateInv, BeginMerge
  PROVE  AggregateInv'
<1>1. /\ step' = "merge" /\ outRuns' = {} /\ outRows' = {} /\ left' = found
      /\ UNCHANGED <<runs, process, found, counted, settled>>
  BY DEF BeginMerge, finalVars, results
<1>2. Merged' = {}
  BY <1>1 DEF Merged
<1>3. CountInv'
  BY <1>1 DEF AggregateInv, CountInv, Recorded
<1>4. OutRunsInv' /\ OutRowsInv'
  BY <1>1, <1>2 DEF OutRunsInv, OutRowsInv
<1>5. QED
  BY <1>1, <1>3, <1>4 DEF AggregateInv

LEMMA MergeAggregate ==
  ASSUME ShapeOK, OneVerdict, AggregateInv, MergeDb
  PROVE  AggregateInv'
<1>1. PICK d \in left : /\ outRuns' = outRuns \cup MergedRuns(d)
                        /\ outRows' = outRows \cup MergedRows(d)
                        /\ left' = left \ {d}
  BY DEF MergeDb
<1>2. /\ step = "merge" /\ step' = "merge"
      /\ UNCHANGED <<runs, process, verdicts, found, counted, settled>>
  BY DEF MergeDb, finalVars, results
<1>3. d \in found /\ d \in Dirs /\ d \notin Merged
  BY <1>2 DEF AggregateInv, CountInv, Merged
<1>4. Merged' = Merged \cup {d}
  BY <1>1, <1>2, <1>3 DEF Merged
<1>5. /\ \A r \in outRuns : r.id[1] # d
      /\ \A x \in outRows : x.id[1] # d
  BY <1>3 DEF AggregateInv, OutRunsInv, OutRowsInv
<1>6. CountInv'
  BY <1>1, <1>2 DEF AggregateInv, CountInv, Recorded
<1>7. \A e \in Dirs : MergedRuns(e)' = MergedRuns(e)
  BY <1>2 DEF MergedRuns, Recorded
<1>8. OutRunsInv'
  <2>1. \A e \in Merged' \cap settled' : {r \in outRuns' : r.id[1] = e} = MergedRuns(e)'
    <3>1. ASSUME NEW e \in Merged \cap settled
          PROVE  {r \in outRuns' : r.id[1] = e} = MergedRuns(e)
      <4>1. e # d /\ {r \in outRuns : r.id[1] = e} = MergedRuns(e)
        BY <1>3 DEF AggregateInv, OutRunsInv
      <4>2. QED
        BY <1>1, <1>3, <4>1, MergedRunsOf
    <3>2. {r \in outRuns' : r.id[1] = d} = MergedRuns(d)
      BY <1>1, <1>3, <1>5, MergedRunsOf
    <3>3. Merged \subseteq Dirs
      BY <1>2 DEF Merged, AggregateInv, CountInv
    <3>4. QED
      BY <1>2, <1>3, <1>4, <1>7, <3>1, <3>2, <3>3
  <2>2. \A e \in Merged' : \A c \in counted'[e] : \E r \in outRuns' : r.id = <<e, c>>
    BY <1>1, <1>2, <1>3, <1>4, MergedRunsOf DEF AggregateInv, CountInv, OutRunsInv
  <2>3. \A r, q \in outRuns' : r.id = q.id => r = q
    BY <1>1, <1>3, <1>5, MergedRunsOf DEF AggregateInv, OutRunsInv
  <2>4. \A r \in outRuns' : r.id[1] \in Merged'
    BY <1>1, <1>3, <1>4, MergedRunsOf DEF AggregateInv, OutRunsInv
  <2>5. outRuns' \subseteq [id : Dirs \X Cases, resolved : BOOLEAN]
    BY <1>1, <1>3, MergedRunsOf DEF AggregateInv, OutRunsInv
  <2>6. QED
    BY <2>1, <2>2, <2>3, <2>4, <2>5 DEF OutRunsInv
<1>9. OutRowsInv'
  <2>1. \A x, y \in outRows' : x.id = y.id => x = y
    BY <1>1, <1>3, <1>5, MergedRowsOf DEF AggregateInv, OutRowsInv
  <2>2. \A x \in outRows' : x.id[1] \in Merged' /\ x.by # None
    BY <1>1, <1>2, <1>3, <1>4, MergedRowsOf DEF AggregateInv, OutRowsInv
  <2>3. outRows' \subseteq [id : Dirs \X Cases, verdict : Verdicts \cup {"FAIL"},
                            by : Sessions \cup {None}]
    BY <1>1, <1>3, MergedRowsOf DEF AggregateInv, OutRowsInv
  <2>4. QED
    BY <1>2, <2>1, <2>2, <2>3 DEF OutRowsInv
<1>10. QED
  BY <1>2, <1>6, <1>8, <1>9 DEF AggregateInv

\* A normalized row, and the FAIL of a run that had none.
LEMMA FailedRow ==
  ASSUME NEW x \in [id : Dirs \X Cases, verdict : Verdicts \cup {"FAIL"}, by : Sessions \cup {None}]
  PROVE  /\ [x EXCEPT !.verdict = "FAIL"] \in
              [id : Dirs \X Cases, verdict : Verdicts \cup {"FAIL"}, by : Sessions \cup {None}]
         /\ [x EXCEPT !.verdict = "FAIL"].id = x.id /\ [x EXCEPT !.verdict = "FAIL"].by = x.by
         /\ [x EXCEPT !.verdict = "FAIL"].verdict = "FAIL"
OBVIOUS

LEMMA NewFailRow ==
  ASSUME NEW i \in Dirs \X Cases
  PROVE  /\ NewFail(i) \in
              [id : Dirs \X Cases, verdict : Verdicts \cup {"FAIL"}, by : Sessions \cup {None}]
         /\ NewFail(i).id = i /\ NewFail(i).verdict = "FAIL"
BY DEF NewFail

LEMMA NormalizeAggregate ==
  ASSUME AggregateInv, Normalize
  PROVE  AggregateInv'
<1> DEFINE Fixed(x) == IF x.id \in Unresolved THEN [x EXCEPT !.verdict = "FAIL"] ELSE x
<1>1. /\ step = "merge" /\ step' = "verify" /\ left = {}
      /\ UNCHANGED <<runs, process, found, counted, settled, left, outRuns>>
  BY DEF Normalize, finalVars, results
<1>2. outRows' = {Fixed(x) : x \in outRows}
                 \cup {NewFail(i) : i \in {k \in Unresolved : RowsOf(k) = {}}}
  BY DEF Normalize
<1>3. Merged' = Merged
  BY <1>1 DEF Merged
<1>4. CountInv' /\ OutRunsInv'
  BY <1>1, <1>3 DEF AggregateInv, CountInv, OutRunsInv, Recorded, MergedRuns
<1>5. \A i \in Unresolved : \E r \in outRuns : ~r.resolved /\ r.id = i
  BY DEF Unresolved
<1>6. \A r \in outRuns : ~r.resolved => r.id \in Unresolved
  BY DEF Unresolved
<1>7. \A r \in outRuns : r.resolved => r.id \notin Unresolved
  BY <1>5 DEF AggregateInv, OutRunsInv
<1>8. \A i \in Unresolved : i \in Dirs \X Cases /\ i[1] \in Merged
  BY <1>5 DEF AggregateInv, OutRunsInv
<1>9. ASSUME NEW x \in outRows
      PROVE  /\ Fixed(x) \in [id : Dirs \X Cases, verdict : Verdicts \cup {"FAIL"},
                              by : Sessions \cup {None}]
             /\ Fixed(x).id = x.id /\ Fixed(x).by = x.by /\ x.by # None
             /\ x.id[1] \in Merged
             /\ x.id \in Unresolved => Fixed(x).verdict = "FAIL"
  <2>1. /\ x \in [id : Dirs \X Cases, verdict : Verdicts \cup {"FAIL"}, by : Sessions \cup {None}]
        /\ x.by # None /\ x.id[1] \in Merged
    BY <1>1 DEF AggregateInv, OutRowsInv
  <2>2. CASE x.id \in Unresolved
    BY <2>1, <2>2, FailedRow
  <2>3. CASE x.id \notin Unresolved
    BY <2>1, <2>3
  <2>4. QED
    BY <2>2, <2>3
<1> HIDE DEF Fixed
\* Every row of the output is an old one, made a FAIL or not, or a new FAIL.
<1>10. ASSUME NEW y \in outRows'
       PROVE  \/ \E x \in outRows : y = Fixed(x)
              \/ y.id \in Unresolved /\ RowsOf(y.id) = {} /\ y = NewFail(y.id)
  <2>1. CASE y \in {Fixed(x) : x \in outRows}
    BY <2>1
  <2>2. CASE y \in {NewFail(i) : i \in {k \in Unresolved : RowsOf(k) = {}}}
    <3>1. PICK i \in Unresolved : RowsOf(i) = {} /\ y = NewFail(i)
      BY <2>2
    <3>2. y.id = i
      BY <1>8, <3>1, NewFailRow
    <3>3. QED
      BY <3>1, <3>2
  <2>3. QED
    BY <1>2, <1>10, <2>1, <2>2
<1>11. ASSUME NEW y \in outRows'
       PROVE  /\ y \in [id : Dirs \X Cases, verdict : Verdicts \cup {"FAIL"}, by : Sessions \cup {None}]
              /\ y.id[1] \in Merged
              /\ y.id \in Unresolved => y.verdict = "FAIL"
              /\ y.id \notin Unresolved => y.by # None
  <2>1. CASE \E x \in outRows : y = Fixed(x)
    BY <1>9, <2>1
  <2>2. CASE y.id \in Unresolved /\ RowsOf(y.id) = {} /\ y = NewFail(y.id)
    BY <1>8, <2>2, NewFailRow
  <2>3. QED
    BY <1>10, <2>1, <2>2
<1>12. ASSUME NEW y \in outRows', NEW z \in outRows', y.id = z.id PROVE y = z
  <2>1. CASE RowsOf(y.id) = {}
    <3>1. \A x \in outRows : x.id # y.id
      BY <2>1 DEF RowsOf
    <3>2. y = NewFail(y.id)
      BY <1>9, <1>10, <3>1
    <3>3. z = NewFail(z.id)
      BY <1>9, <1>10, <1>12, <3>1
    <3>4. QED
      BY <1>12, <3>2, <3>3
  <2>2. CASE RowsOf(y.id) # {}
    <3>1. PICK w \in outRows : y = Fixed(w)
      BY <1>10, <2>2
    <3>2. PICK x \in outRows : z = Fixed(x)
      BY <1>10, <1>12, <2>2
    <3>3. w.id = x.id
      BY <1>9, <1>12, <3>1, <3>2
    <3>4. w = x
      BY <3>3 DEF AggregateInv, OutRowsInv
    <3>5. QED
      BY <3>1, <3>2, <3>4
  <2>3. QED
    BY <2>1, <2>2
<1>13. ASSUME NEW i \in Unresolved PROVE \E y \in outRows' : y.id = i
  <2>1. CASE RowsOf(i) = {}
    <3>1. NewFail(i) \in outRows' /\ NewFail(i).id = i
      BY <1>2, <1>8, <2>1, NewFailRow
    <3>2. QED
      BY <3>1
  <2>2. CASE RowsOf(i) # {}
    <3>1. PICK x \in outRows : x.id = i
      BY <2>2 DEF RowsOf
    <3>2. Fixed(x) \in outRows' /\ Fixed(x).id = i
      BY <1>2, <1>9, <3>1
    <3>3. QED
      BY <3>2
  <2>3. QED
    BY <2>1, <2>2
<1>14. ASSUME NEW r \in outRuns
       PROVE  IF r.resolved THEN \A x \in RowsOf(r.id)' : x.by # None
              ELSE RowsOf(r.id)' # {} /\ \A x \in RowsOf(r.id)' : x.verdict = "FAIL"
  <2>1. RowsOf(r.id)' = {y \in outRows' : y.id = r.id}
    BY DEF RowsOf
  <2>2. CASE r.resolved
    BY <1>7, <1>11, <2>1, <2>2
  <2>3. CASE ~r.resolved
    BY <1>6, <1>11, <1>13, <2>1, <2>3
  <2>4. QED
    BY <2>2, <2>3
<1>15. OutRowsInv'
  BY <1>1, <1>3, <1>11, <1>12, <1>14 DEF OutRowsInv, RowsOf
<1>16. QED
  BY <1>1, <1>4, <1>15 DEF AggregateInv

\* As many runs as were counted, and the counted ones among them: no others.
LEMMA SameCount ==
  ASSUME AggregateInv, Merged = found, Cardinality(outRuns) = Cardinality(CountedRuns)
  PROVE  {r.id : r \in outRuns} = CountedRuns
<1> DEFINE ids == {r.id : r \in outRuns}
           f == [r \in outRuns |-> r.id]
<1>1. CountedRuns \subseteq ids
  <2>1. ASSUME NEW x \in CountedRuns PROVE \E r \in outRuns : r.id = x
    <3>1. PICK d \in found : x \in {d} \X counted[d]
      BY <2>1 DEF CountedRuns
    <3>2. PICK c \in counted[d] : x = <<d, c>>
      BY <3>1
    <3>3. QED
      BY <3>1, <3>2 DEF AggregateInv, OutRunsInv
  <2>2. QED
    BY <2>1
<1>2. ids \subseteq Dirs \X Cases
  BY DEF AggregateInv, OutRunsInv
<1>3. IsFiniteSet(Dirs \X Cases)
  BY DirsFinite, Assumed, FS_Product
<1>4. IsFiniteSet(ids)
  BY <1>2, <1>3, FS_Subset
<1>5. f \in Bijection(outRuns, ids)
  <2>1. f \in [outRuns -> ids]
    OBVIOUS
  <2>2. \A r, q \in outRuns : f[r] = f[q] => r = q
    BY DEF AggregateInv, OutRunsInv
  <2>3. \A i \in ids : \E r \in outRuns : f[r] = i
    OBVIOUS
  <2>4. QED
    BY <2>1, <2>2, <2>3 DEF Bijection, Injection, Surjection, IsInjective
<1> HIDE DEF ids, f
<1>6. IsFiniteSet(outRuns) /\ Cardinality(outRuns) = Cardinality(ids)
  <2>1. f \in Injection(outRuns, ids) /\ f \in Surjection(outRuns, ids)
    BY <1>5 DEF Bijection
  <2>2. QED
    BY <1>4, <2>1, FS_Injection
<1>7. ids = CountedRuns
  BY <1>1, <1>4, <1>6, FS_Subset
<1>8. QED
  BY <1>7 DEF ids

LEMMA VerifyAggregate ==
  ASSUME AggregateInv, VerifyIntegrity
  PROVE  AggregateInv'
<1>1. /\ step = "verify" /\ step' = IF Warnings THEN "warned" ELSE "clean"
      /\ UNCHANGED <<runs, process, found, counted, settled, left, outRuns, outRows>>
  BY DEF VerifyIntegrity, finalVars, results
<1>2. Merged' = Merged /\ Merged = found
  BY <1>1 DEF Merged
<1>3. step' = "clean" => {r.id : r \in outRuns} = CountedRuns
  BY <1>1, <1>2, SameCount DEF Warnings
<1>4. CountInv' /\ OutRunsInv'
  BY <1>1, <1>2 DEF AggregateInv, CountInv, OutRunsInv, Recorded, MergedRuns
<1>5. OutRowsInv'
  BY <1>1, <1>2 DEF AggregateInv, OutRowsInv, RowsOf
<1>6. QED
  BY <1>1, <1>3, <1>4, <1>5 DEF AggregateInv, CountedRuns

LEMMA LeaveAggregate ==
  ASSUME AggregateInv, Leave
  PROVE  AggregateInv'
<1>1. /\ step' = "idle" /\ found' = {} /\ left' = {} /\ settled' = {}
      /\ counted' = [d \in Dirs |-> {}] /\ outRuns' = {} /\ outRows' = {}
  BY DEF Leave
<1>2. Merged' = {}
  BY <1>1 DEF Merged
<1>3. QED
  BY <1>1, <1>2 DEF AggregateInv, CountInv, OutRunsInv, OutRowsInv

\* While batches and validators write, a database that was found stays, a run
\* that was counted stays, and one whose batch had ended stays as it is.
LEMMA BesideAggregate ==
  ASSUME AggregateInv, Lasting, UNCHANGED aggregateVars
  PROVE  AggregateInv'
<1> USE DEF aggregateVars
<1>1. Merged' = Merged /\ CountedRuns' = CountedRuns
  BY DEF Merged, CountedRuns
<1>2. CountInv'
  BY DEF AggregateInv, CountInv, Lasting, Recorded
<1>3. \A d \in settled : MergedRuns(d)' = MergedRuns(d)
  BY DEF AggregateInv, CountInv, Lasting, MergedRuns, Recorded
<1>4. OutRunsInv'
  BY <1>1, <1>3 DEF AggregateInv, OutRunsInv
<1>5. OutRowsInv'
  BY <1>1 DEF AggregateInv, OutRowsInv, RowsOf
<1>6. QED
  BY <1>1, <1>2, <1>4, <1>5 DEF AggregateInv

LEMMA AggregateInitially == Init => AggregateInv
<1> SUFFICES ASSUME Init PROVE AggregateInv
  OBVIOUS
<1>1. /\ step = "idle" /\ found = {} /\ left = {} /\ settled = {}
      /\ counted = [d \in Dirs |-> {}] /\ outRuns = {} /\ outRows = {}
  BY DEF Init
<1>2. Merged = {}
  BY <1>1 DEF Merged
<1>3. QED
  BY <1>1, <1>2 DEF AggregateInv, CountInv, OutRunsInv, OutRowsInv

LEMMA AggregateStep ==
  ASSUME ShapeOK, BatchInv, OneVerdict, AggregateInv, [Next]_vars
  PROVE  AggregateInv'
<1>1. CASE UNCHANGED aggregateVars
  BY <1>1, BatchStep, BesideAggregate
<1>2. CASE Aggregator
  BY <1>2, DiscoverAggregate, CountAggregate, BeginAggregate, MergeAggregate, NormalizeAggregate,
     VerifyAggregate, LeaveAggregate DEF Aggregator
<1>3. QED
  BY <1>1, <1>2 DEF Next, vars

LEMMA AggregateInvariant == Spec => []AggregateInv
<1>1. Init => AggregateInv
  BY AggregateInitially
<1>2. ShapeOK /\ BatchInv /\ OneVerdict /\ AggregateInv /\ [Next]_vars => AggregateInv'
  BY AggregateStep
<1>3. QED
  BY <1>1, <1>2, ShapeInvariant, BatchInvariant, PTL DEF Spec

\* Every variable of the sessions, the batches, the validators and the aggregator
\* has its type, and no session has more than a chunk of validators at work.
THEOREM TypeCorrect == Spec => []TypeOK
<1>1. ShapeOK /\ (\A s \in Sessions : PhaseInv(s)) => FinalTypeOK
  BY DEF ShapeOK, PhaseInv, FinalTypeOK
<1>2. AggregateInv /\ FinalTypeOK => TypeOK
  BY DEF AggregateInv, CountInv, OutRunsInv, OutRowsInv, TypeOK
<1>3. QED
  BY <1>1, <1>2, ShapeInvariant, PhaseInvariant, AggregateInvariant, PTL

\* An aggregate that ends with exit code 0 is a true one, whoever wrote while
\* it was made: the runs that were counted, those of an ended batch as its
\* database has them, a FAIL for each unresolved one, for a resolved one at
\* most what one judge said.
THEOREM CleanAggregateHolds == Spec => []CleanAggregate
<1>1. ASSUME AggregateInv, step = "clean" PROVE CleanAggregate
  <2>1. Merged = found
    BY <1>1 DEF Merged
  <2>2. \A d \in settled : {r \in outRuns : r.id[1] = d} = MergedRuns(d)
    BY <1>1, <2>1 DEF AggregateInv, CountInv, OutRunsInv
  <2>3. ASSUME NEW r \in outRuns PROVE Cardinality(RowsOf(r.id)) <= 1
    <3>1. \A x, y \in RowsOf(r.id) : x = y
      BY <1>1 DEF AggregateInv, OutRowsInv, RowsOf
    <3>2. QED
      BY <3>1, AtMostOne
  <2>4. QED
    BY <1>1, <2>2, <2>3 DEF AggregateInv, OutRowsInv, CleanAggregate
<1>2. AggregateInv => CleanAggregate
  BY <1>1 DEF CleanAggregate
<1>3. QED
  BY <1>2, AggregateInvariant, PTL

-----------------------------------------------------------------------------
(* No session is left waiting.                                             *)

\* A step of Session(s) is possible: the guards of its actions, written out.
CanGoOn(s) ==
  \/ pc[s] = "batches"
  \/ pc[s] = "batch" /\ process[current[s]] \in {"passed", "failed"}
  \/ /\ pc[s] = "validation"
     /\ \/ groups[s] = {} \/ Stopped(s)
        \/ \E chunk \in SUBSET groups[s] :
             /\ Cardinality(chunk) <= Chunk
             /\ Cardinality(chunk) = Chunk \/ chunk = groups[s]
  \/ /\ pc[s] = "chunk"
     /\ \/ ~Stopped(s) /\ \E g \in unread[s] : validators[<<s, g>>].state # "running"
        \/ Working(s) = {} /\ (unread[s] = {} \/ Stopped(s))
  \/ pc[s] = "stopping" /\ Working(s) = {}

\* The batch a session waits for was started.
BatchIsThere == \A s \in Sessions : pc[s] = "batch" => process[current[s]] # "absent"

LEMMA BatchIsThereStep ==
  ASSUME ShapeOK, BatchInv, BatchIsThere, [Next]_vars
  PROVE  BatchIsThere'
<1>1. SUFFICES ASSUME NEW s \in Sessions, pc'[s] = "batch" PROVE process'[current'[s]] # "absent"
  BY DEF BatchIsThere
<1>2. CASE StartBatch(s)
  <2>1. PICK b \in pending[s] :
          /\ current' = [current EXCEPT ![s] = <<b, s>>]
          /\ process' = [process EXCEPT ![<<b, s>>] = "running"]
    BY <1>2 DEF StartBatch
  <2>2. <<b, s>> \in Dirs
    BY DEF ShapeOK, Dirs
  <2>3. current'[s] = <<b, s>> /\ process'[<<b, s>>] = "running"
    BY <2>1, <2>2 DEF ShapeOK
  <2>4. QED
    BY <2>3
<1>3. CASE pc[s] = "batch" /\ current'[s] = current[s]
  <2>1. current[s] \in Dirs /\ process[current[s]] # "absent"
    BY <1>3 DEF ShapeOK, BatchIsThere
  <2>2. Lasting
    BY BatchStep
  <2>3. QED
    BY <1>3, <2>1, <2>2 DEF Lasting
<1> USE DEF Goto, At
<1>4. CASE \E t \in Sessions : Acts(t)
  <2>1. PICK t \in Sessions : Acts(t)
    BY <1>4
  <2>2. CASE t # s
    <3>1. pc'[s] = pc[s]
      BY <2>1, <2>2, SessionSpares DEF Spared
    <3>2. CASE UNCHANGED current
      BY <1>1, <1>3, <3>1, <3>2
    <3>3. CASE \E x \in Dirs \cup {None} : current' = [current EXCEPT ![t] = x]
      BY <1>1, <1>3, <2>2, <3>1, <3>3 DEF ShapeOK
    <3>4. UNCHANGED current \/ \E x \in Dirs \cup {None} : current' = [current EXCEPT ![t] = x]
      <4>1. \A b \in pending[t] : <<b, t>> \in Dirs
        BY DEF ShapeOK, Dirs
      <4>2. QED
        BY <2>1, <4>1 DEF Acts, Session, Start, StartValidationOnly, StartBatch, BalanceStop, ReadBatch,
          BeginValidation, SubmitChunk, ReadValidation, EndChunk, Return, Exit130, Interrupt, Forget
    <3>5. QED
      BY <3>2, <3>3, <3>4
  <2>3. CASE t = s
    <3>1. StartBatch(s)
      BY <1>1, <2>1, <2>3 DEF Acts, Session, Start, StartValidationOnly, BalanceStop, ReadBatch,
        BeginValidation, SubmitChunk, ReadValidation, EndChunk, Return, Exit130, Interrupt, ShapeOK
    <3>2. QED
      BY <1>2, <3>1
  <2>4. QED
    BY <2>2, <2>3
<1>5. CASE UNCHANGED <<pc, current>>
  BY <1>1, <1>3, <1>5
<1>6. CASE FinalNext
  <2>1. CASE \E d \in Dirs : RecordRun(d) \/ CloseTimedOut(d) \/ BatchEnds(d)
    BY <1>5, <2>1 DEF RecordRun, CloseTimedOut, BatchEnds, sessionVars
  <2>2. CASE \E v \in DOMAIN validators : Validator(v)
    BY <1>5, <2>2, ValidatorMoves DEF sessionVars
  <2>3. QED
    BY <1>4, <1>6, <2>1, <2>2 DEF FinalNext, Acts
<1>7. QED
  BY <1>5, <1>6
  DEF Next, vars, finalVars, sessionVars, Aggregator, Discover, CountRuns, BeginMerge, MergeDb,
      Normalize, VerifyIntegrity, Leave

LEMMA BatchIsThereInvariant == Spec => []BatchIsThere
<1>1. Init => BatchIsThere
  BY DEF Init, FinalInit, BatchIsThere
<1>2. ShapeOK /\ BatchInv /\ BatchIsThere /\ [Next]_vars => BatchIsThere'
  BY BatchIsThereStep
<1>3. QED
  BY <1>1, <1>2, ShapeInvariant, BatchInvariant, PTL DEF Spec

\* Of any finite set of groups a chunk can be taken: as many as a chunk may
\* have, or all of them.
LEMMA ChunkExists ==
  ASSUME NEW S, IsFiniteSet(S)
  PROVE  \E chunk \in SUBSET S :
           /\ Cardinality(chunk) <= Chunk
           /\ Cardinality(chunk) = Chunk \/ chunk = S
<1>1. Cardinality(S) \in Nat /\ Chunk \in Nat
  BY FS_CardinalityType, Assumed
<1>2. CASE Cardinality(S) <= Chunk
  BY <1>2
<1>3. CASE Chunk < Cardinality(S)
  <2> DEFINE n == Cardinality(S)
  <2>1. PICK f : f \in Bijection(1..n, S)
    BY FS_CardinalityType DEF ExistsBijection
  <2> DEFINE chunk == {f[i] : i \in 1..Chunk}
             g == [i \in 1..Chunk |-> f[i]]
  <2>2. 1..Chunk \subseteq 1..n
    BY <1>1, <1>3
  <2>3. f \in [1..n -> S] /\ \A i, j \in 1..n : f[i] = f[j] => i = j
    BY <2>1 DEF Bijection, Injection, IsInjective
  <2>4. chunk \subseteq S
    BY <2>2, <2>3
  <2>5. g \in Bijection(1..Chunk, chunk)
    <3>1. g \in [1..Chunk -> chunk]
      OBVIOUS
    <3>2. \A i, j \in 1..Chunk : g[i] = g[j] => i = j
      BY <2>2, <2>3
    <3>3. \A x \in chunk : \E i \in 1..Chunk : g[i] = x
      OBVIOUS
    <3>4. QED
      BY <3>1, <3>2, <3>3 DEF Bijection, Injection, Surjection, IsInjective
  <2>6. ExistsBijection(1..Chunk, chunk)
    BY <2>5 DEF ExistsBijection
  <2>7. Cardinality(chunk) = Chunk
    BY <1>1, <2>4, <2>6, FS_CountingElements, FS_Subset, FS_CardinalityType
  <2>8. QED
    BY <1>1, <2>4, <2>7
<1>4. QED
  BY <1>1, <1>2, <1>3

\* A session that is not over can go on, or waits for a validator or a batch
\* that is at work: what NeverStuck says, without ENABLED.  It stops reading at
\* an oauth failure, but leaves the chunk once its validators are gone; and what
\* is asked for has a validator that ends, so an unread result comes.
THEOREM NobodyWaitsInVain ==
  Spec => [](\A s \in Sessions :
               pc[s] \notin {"off", "ended"} =>
                 \/ CanGoOn(s)
                 \/ Working(s) # {}
                 \/ current[s] # None /\ process[current[s]] = "running")
<1> DEFINE Moving(s) == \/ CanGoOn(s)
                        \/ Working(s) # {}
                        \/ current[s] # None /\ process[current[s]] = "running"
<1>1. ASSUME ShapeOK, BatchIsThere, NEW s \in Sessions, PhaseInv(s), pc[s] \notin {"off", "ended"}
      PROVE  Moving(s)
  <2>1. CASE pc[s] = "batches"
    BY <2>1 DEF CanGoOn
  <2>2. CASE pc[s] = "batch"
    <3>1. current[s] \in Dirs /\ process[current[s]] \in {"running", "passed", "failed"}
      BY <1>1, <2>2 DEF ShapeOK, BatchIsThere
    <3>2. current[s] # None
      BY <3>1, Assumed
    <3>3. QED
      BY <2>2, <3>1, <3>2 DEF CanGoOn
  <2>3. CASE pc[s] = "validation"
    <3>1. groups[s] \in SUBSET SUBSET Dirs
      BY <1>1 DEF ShapeOK
    <3>2. IsFiniteSet(groups[s])
      BY <3>1, DirsFinite, FS_SUBSET, FS_Subset
    <3>3. QED
      BY <2>3, <3>2, ChunkExists DEF CanGoOn
  <2>4. CASE pc[s] = "chunk"
    <3>1. SUFFICES ASSUME Working(s) = {}, unread[s] # {}, ~Stopped(s)
                   PROVE  \E g \in unread[s] : validators[<<s, g>>].state # "running"
      BY <2>4 DEF CanGoOn
    <3>2. PICK g \in unread[s] : TRUE
      BY <3>1
    <3>3. PICK v \in Asked(s) : v[2] = g
      BY <1>1, <2>4 DEF PhaseInv, AskedGroups
    <3>4. v = <<s, g>>
      BY <1>1, <3>3, ValidatorName DEF Asked
    <3>5. validators[v].state # "running"
      BY <3>1 DEF Working
    <3>6. QED
      BY <3>4, <3>5
  <2>5. CASE pc[s] = "stopping"
    BY <2>5 DEF CanGoOn
  <2>6. QED
    BY <1>1, <2>1, <2>2, <2>3, <2>4, <2>5 DEF ShapeOK
<1>2. ShapeOK /\ BatchIsThere /\ (\A s \in Sessions : PhaseInv(s)) =>
        \A s \in Sessions : pc[s] \notin {"off", "ended"} => Moving(s)
  BY <1>1
<1>3. QED
  BY <1>2, ShapeInvariant, BatchIsThereInvariant, PhaseInvariant, PTL

-----------------------------------------------------------------------------
(* A session comes to its end.                                             *)

\* The steps a session has left.  A batch costs two, and makes at most one directory;
\* a directory is in one group, and a group costs at most three: its chunk is begun,
\* read and left.
BatchesLeft(s) == Cardinality(pending[s])
DirsMade(s)    == Cardinality(produced[s])
GroupsLeft(s)  == Cardinality(groups[s])
UnreadLeft(s)  == Cardinality(unread[s])

SessionStepsLeft(s) ==
  IF pc[s] = "batches" THEN 5 * BatchesLeft(s) + 3 * DirsMade(s) + 3
  ELSE IF pc[s] = "batch" THEN 5 * BatchesLeft(s) + 3 * DirsMade(s) + 7
  ELSE IF pc[s] = "validation" THEN 3 * GroupsLeft(s) + 2
  ELSE IF pc[s] = "chunk" THEN 3 * GroupsLeft(s) + UnreadLeft(s) + 3
  ELSE IF pc[s] = "stopping" THEN 1 ELSE 0

MostSteps == 5 * Cardinality(Batches) + 3 * Cardinality(Dirs) + 3

Begins(s) == Start(s) \/ StartValidationOnly(s)
SessionMoves(s) == Session(s) \/ Interrupt(s)

\* All the sets a session works through are finite.
LEMMA PartsAreFinite ==
  ASSUME NEW P \in SUBSET Batches, NEW R \in SUBSET Dirs,
         NEW G \in SUBSET SUBSET Dirs, NEW U \in SUBSET SUBSET Dirs
  PROVE  /\ IsFiniteSet(P) /\ Cardinality(P) \in 0..Cardinality(Batches)
         /\ IsFiniteSet(R) /\ Cardinality(R) \in 0..Cardinality(Dirs)
         /\ IsFiniteSet(G) /\ Cardinality(G) \in Nat
         /\ IsFiniteSet(U) /\ Cardinality(U) \in Nat
         /\ Cardinality(Batches) \in Nat /\ Cardinality(Dirs) \in Nat
<1>1. IsFiniteSet(Batches) /\ IsFiniteSet(Dirs) /\ IsFiniteSet(SUBSET Dirs)
  BY Assumed, DirsFinite, FS_SUBSET
<1>2. /\ IsFiniteSet(P) /\ Cardinality(P) <= Cardinality(Batches)
      /\ IsFiniteSet(R) /\ Cardinality(R) <= Cardinality(Dirs)
      /\ IsFiniteSet(G) /\ IsFiniteSet(U)
  BY <1>1, FS_Subset
<1>3. QED
  BY <1>1, <1>2, FS_CardinalityType

LEMMA PartsOfSession ==
  ASSUME ShapeOK, NEW s \in Sessions
  PROVE  /\ IsFiniteSet(pending[s]) /\ Cardinality(pending[s]) \in 0..Cardinality(Batches)
         /\ IsFiniteSet(produced[s]) /\ Cardinality(produced[s]) \in 0..Cardinality(Dirs)
         /\ IsFiniteSet(groups[s]) /\ Cardinality(groups[s]) \in Nat
         /\ IsFiniteSet(unread[s]) /\ Cardinality(unread[s]) \in Nat
         /\ Cardinality(Batches) \in Nat /\ Cardinality(Dirs) \in Nat
<1>1. /\ pending[s] \in SUBSET Batches /\ produced[s] \in SUBSET Dirs
      /\ groups[s] \in SUBSET SUBSET Dirs /\ unread[s] \in SUBSET SUBSET Dirs
  BY DEF ShapeOK
<1>2. QED
  BY <1>1, PartsAreFinite

\* The same one step later.
LEMMA PartsAfter ==
  ASSUME ShapeOK', NEW s \in Sessions
  PROVE  /\ IsFiniteSet(pending'[s]) /\ Cardinality(pending'[s]) \in 0..Cardinality(Batches)
         /\ IsFiniteSet(produced'[s]) /\ Cardinality(produced'[s]) \in 0..Cardinality(Dirs)
         /\ IsFiniteSet(groups'[s]) /\ Cardinality(groups'[s]) \in Nat
         /\ IsFiniteSet(unread'[s]) /\ Cardinality(unread'[s]) \in Nat
<1>1. /\ pending'[s] \in SUBSET Batches /\ produced'[s] \in SUBSET Dirs
      /\ groups'[s] \in SUBSET SUBSET Dirs /\ unread'[s] \in SUBSET SUBSET Dirs
  BY DEF ShapeOK
<1>2. QED
  BY <1>1, PartsAreFinite

\* There are no more groups than directories.
LEMMA GroupedSize ==
  ASSUME NEW dirs \in SUBSET Dirs
  PROVE  /\ Cardinality(Grouped(dirs)) \in Nat /\ Cardinality(dirs) \in Nat
         /\ Cardinality(Grouped(dirs)) <= Cardinality(dirs)
<1> DEFINE f == [d \in dirs |-> {e \in dirs : Key(e) = Key(d)}]
<1>1. f \in Surjection(dirs, Grouped(dirs))
  BY DEF Surjection, Grouped
<1>2. IsFiniteSet(dirs)
  BY DirsFinite, FS_Subset
<1>3. QED
  BY <1>1, <1>2, FS_Surjection, FS_CardinalityType

LEMMA SessionStepsType ==
  ASSUME ShapeOK, NEW s \in Sessions
  PROVE  SessionStepsLeft(s) \in Nat
BY PartsOfSession DEF SessionStepsLeft, BatchesLeft, DirsMade, GroupsLeft, UnreadLeft

LEMMA BeginsWithinBound ==
  ASSUME ShapeOK, ShapeOK', NEW s \in Sessions, Begins(s)
  PROVE  SessionStepsLeft(s)' <= MostSteps
<1>1. CASE Start(s)
  <2>1. pc'[s] = "batches"
    BY <1>1 DEF Start, Goto, ShapeOK
  <2>2. SessionStepsLeft(s)' = 5 * Cardinality(pending'[s]) + 3 * Cardinality(produced'[s]) + 3
    BY <2>1 DEF SessionStepsLeft, BatchesLeft, DirsMade
  <2>3. /\ Cardinality(pending'[s]) \in 0..Cardinality(Batches)
        /\ Cardinality(produced'[s]) \in 0..Cardinality(Dirs)
    BY PartsOfSession, PartsAfter
  <2>4. QED
    BY <2>2, <2>3, PartsOfSession DEF MostSteps
<1>2. CASE StartValidationOnly(s)
  <2> DEFINE dirs == {d \in Dirs : HasDb(d)}
  <2>1. pc'[s] = "validation" /\ groups'[s] = Grouped(dirs)
    BY <1>2 DEF StartValidationOnly, Goto, ShapeOK
  <2>2. SessionStepsLeft(s)' = 3 * Cardinality(groups'[s]) + 2
    BY <2>1 DEF SessionStepsLeft, GroupsLeft
  <2>3. /\ Cardinality(Grouped(dirs)) \in Nat /\ Cardinality(dirs) \in Nat
        /\ Cardinality(Grouped(dirs)) <= Cardinality(dirs)
    BY GroupedSize
  <2>4. Cardinality(dirs) <= Cardinality(Dirs)
    BY DirsFinite, FS_Subset
  <2>5. QED
    BY <2>1, <2>2, <2>3, <2>4, PartsOfSession DEF MostSteps
<1>3. QED
  BY <1>1, <1>2 DEF Begins

LEMMA SessionNearer ==
  ASSUME ShapeOK, ShapeOK', NEW s \in Sessions, SessionMoves(s)
  PROVE  SessionStepsLeft(s)' < SessionStepsLeft(s)
<1>1. /\ BatchesLeft(s) \in Nat /\ DirsMade(s) \in Nat
      /\ GroupsLeft(s) \in Nat /\ UnreadLeft(s) \in Nat
  BY PartsOfSession DEF BatchesLeft, DirsMade, GroupsLeft, UnreadLeft
<1>2. /\ BatchesLeft(s)' \in Nat /\ DirsMade(s)' \in Nat
      /\ GroupsLeft(s)' \in Nat /\ UnreadLeft(s)' \in Nat
  BY PartsAfter DEF BatchesLeft, DirsMade, GroupsLeft, UnreadLeft
<1>3. CASE StartBatch(s)
  <2>1. PICK b \in pending[s] : pending' = [pending EXCEPT ![s] = @ \ {b}]
    BY <1>3 DEF StartBatch
  <2>2. pending'[s] = pending[s] \ {b}
    BY <2>1 DEF ShapeOK
  <2>3. BatchesLeft(s)' = BatchesLeft(s) - 1
    BY <2>2, PartsOfSession, FS_RemoveElement DEF BatchesLeft
  <2>4. pc[s] = "batches" /\ pc'[s] = "batch" /\ DirsMade(s)' = DirsMade(s)
    BY <1>3 DEF StartBatch, At, Goto, ShapeOK, DirsMade
  <2>5. QED
    BY <1>1, <1>2, <2>3, <2>4 DEF SessionStepsLeft
<1>4. CASE BalanceStop(s)
  <2>1. /\ pending[s] # {} /\ pending'[s] = {}
        /\ pc[s] = "batches" /\ pc'[s] = "batches" /\ DirsMade(s)' = DirsMade(s)
    BY <1>4 DEF BalanceStop, At, ShapeOK, DirsMade
  <2>2. BatchesLeft(s)' = 0 /\ BatchesLeft(s) # 0
    BY <2>1, PartsOfSession, FS_EmptySet DEF BatchesLeft
  <2>3. QED
    BY <1>1, <1>2, <2>1, <2>2 DEF SessionStepsLeft
<1>5. CASE ReadBatch(s)
  <2>1. pc[s] = "batch" /\ pc'[s] = "batches" /\ BatchesLeft(s)' = BatchesLeft(s)
    BY <1>5 DEF ReadBatch, At, Goto, ShapeOK, BatchesLeft
  <2>2. produced'[s] = produced[s] \/ produced'[s] = produced[s] \cup {current[s]}
    BY <1>5 DEF ReadBatch, ShapeOK
  <2>3. Cardinality(produced[s] \cup {current[s]}) \in {DirsMade(s), DirsMade(s) + 1}
    BY PartsOfSession, FS_AddElement DEF DirsMade
  <2>4. DirsMade(s)' \in {DirsMade(s), DirsMade(s) + 1}
    BY <2>2, <2>3 DEF DirsMade
  <2>5. QED
    BY <1>1, <1>2, <2>1, <2>4 DEF SessionStepsLeft
<1>6. CASE BeginValidation(s)
  <2>1. /\ pc[s] = "batches" /\ pc'[s] = "validation"
        /\ groups'[s] = Grouped(produced[s]) /\ produced[s] \in SUBSET Dirs
    BY <1>6 DEF BeginValidation, At, Goto, ShapeOK
  <2>2. GroupsLeft(s)' <= DirsMade(s)
    BY <2>1, GroupedSize DEF GroupsLeft, DirsMade
  <2>3. QED
    BY <1>1, <1>2, <2>1, <2>2 DEF SessionStepsLeft
<1>7. CASE SubmitChunk(s)
  <2>1. PICK chunk \in SUBSET groups[s] :
          /\ groups[s] # {}
          /\ Cardinality(chunk) = Chunk \/ chunk = groups[s]
          /\ groups' = [groups EXCEPT ![s] = @ \ chunk]
          /\ unread' = [unread EXCEPT ![s] = chunk]
    BY <1>7 DEF SubmitChunk
  <2>2. groups'[s] = groups[s] \ chunk /\ unread'[s] = chunk
    BY <2>1 DEF ShapeOK
  <2>3. UnreadLeft(s)' # 0
    BY <2>1, <2>2, PartsOfSession, Assumed, FS_EmptySet DEF UnreadLeft
  <2>4. groups'[s] \cup unread'[s] = groups[s] /\ groups'[s] \cap unread'[s] = {}
    BY <2>2
  <2>5. GroupsLeft(s) = GroupsLeft(s)' + UnreadLeft(s)' - Cardinality({})
    BY <2>4, PartsAfter, FS_Union DEF GroupsLeft, UnreadLeft
  <2>6. GroupsLeft(s) = GroupsLeft(s)' + UnreadLeft(s)'
    BY <1>2, <2>5, FS_EmptySet
  <2>7. pc[s] = "validation" /\ pc'[s] = "chunk"
    BY <1>7 DEF SubmitChunk, At, Goto, ShapeOK
  <2>8. QED
    BY <1>1, <1>2, <2>3, <2>6, <2>7 DEF SessionStepsLeft
<1>8. CASE ReadValidation(s)
  <2>1. PICK g \in unread[s] : unread' = [unread EXCEPT ![s] = @ \ {g}]
    BY <1>8 DEF ReadValidation
  <2>2. unread'[s] = unread[s] \ {g}
    BY <2>1 DEF ShapeOK
  <2>3. UnreadLeft(s)' = UnreadLeft(s) - 1
    BY <2>2, PartsOfSession, FS_RemoveElement DEF UnreadLeft
  <2>4. pc[s] = "chunk" /\ pc'[s] = "chunk" /\ GroupsLeft(s)' = GroupsLeft(s)
    BY <1>8 DEF ReadValidation, At, GroupsLeft
  <2>5. QED
    BY <1>1, <1>2, <2>3, <2>4 DEF SessionStepsLeft
<1>9. CASE EndChunk(s)
  <2>1. pc[s] = "chunk" /\ pc'[s] = "validation" /\ GroupsLeft(s)' = GroupsLeft(s)
    BY <1>9 DEF EndChunk, At, Goto, ShapeOK, GroupsLeft
  <2>2. QED
    BY <1>1, <1>2, <2>1 DEF SessionStepsLeft
<1>10. ASSUME pc[s] \in {"batches", "batch", "validation", "chunk"}
       PROVE  SessionStepsLeft(s) >= 2
  BY <1>1, <1>10 DEF SessionStepsLeft
<1>11. CASE Return(s)
  <2>1. pc[s] = "validation" /\ pc'[s] = "ended"
    BY <1>11 DEF Return, At, Goto, ShapeOK
  <2>2. SessionStepsLeft(s)' = 0
    BY <2>1 DEF SessionStepsLeft
  <2>3. QED
    BY <1>10, <2>1, <2>2, SessionStepsType
<1>12. CASE Exit130(s)
  <2>1. pc[s] = "stopping" /\ pc'[s] = "ended"
    BY <1>12 DEF Exit130, At, Goto, ShapeOK
  <2>2. QED
    BY <2>1 DEF SessionStepsLeft
<1>13. CASE Interrupt(s)
  <2>1. pc[s] \in {"batches", "batch", "validation", "chunk"} /\ pc'[s] = "stopping"
    BY <1>13 DEF Interrupt, Goto, ShapeOK
  <2>2. SessionStepsLeft(s)' = 1
    BY <2>1 DEF SessionStepsLeft
  <2>3. QED
    BY <1>10, <2>1, <2>2, SessionStepsType
<1>14. QED
  BY <1>3, <1>4, <1>5, <1>6, <1>7, <1>8, <1>9, <1>11, <1>12, <1>13 DEF SessionMoves, Session

\* What does not act on a session leaves it where it is.
LEMMA SparedSteps ==
  ASSUME ShapeOK, NEW s \in Sessions, [Next]_vars, ~Acts(s)
  PROVE  SessionStepsLeft(s)' = SessionStepsLeft(s)
<1>1. pc'[s] = pc[s] /\ produced'[s] = produced[s] /\ groups'[s] = groups[s] /\ unread'[s] = unread[s]
  BY ActsOrSpared DEF Spared
<1>2. ASSUME NEW t \in Sessions, t # s, Acts(t) PROVE pending'[s] = pending[s]
  <2>1. CASE Start(t)
    BY <1>2, <2>1 DEF Start, ShapeOK
  <2>2. CASE StartBatch(t)
    BY <1>2, <2>2 DEF StartBatch, ShapeOK
  <2>3. CASE BalanceStop(t)
    BY <1>2, <2>3 DEF BalanceStop, ShapeOK
  <2>4. CASE Return(t) \/ Interrupt(t)
    BY <1>2, <2>4 DEF Return, Interrupt, Forget, ShapeOK
  <2>5. CASE \/ StartValidationOnly(t) \/ ReadBatch(t) \/ BeginValidation(t) \/ SubmitChunk(t)
             \/ ReadValidation(t) \/ EndChunk(t) \/ Exit130(t)
    BY <2>5 DEF StartValidationOnly, ReadBatch, BeginValidation, SubmitChunk, ReadValidation, EndChunk, Exit130
  <2>6. QED
    BY <1>2, <2>1, <2>2, <2>3, <2>4, <2>5 DEF Acts, Session
<1>3. ASSUME FinalNext PROVE pending'[s] = pending[s]
  <2>1. CASE \E d \in Dirs : RecordRun(d) \/ CloseTimedOut(d) \/ BatchEnds(d)
    BY <2>1 DEF RecordRun, CloseTimedOut, BatchEnds, sessionVars
  <2>2. CASE \E v \in DOMAIN validators : Validator(v)
    BY <2>2, ValidatorMoves DEF sessionVars
  <2>3. QED
    BY <1>2, <1>3, <2>1, <2>2 DEF FinalNext, Acts
<1>4. pending'[s] = pending[s]
  BY <1>3
  DEF Next, vars, finalVars, sessionVars, Aggregator, Discover, CountRuns, BeginMerge, MergeDb,
      Normalize, VerifyIntegrity, Leave
<1>5. QED
  BY <1>1, <1>4 DEF SessionStepsLeft, BatchesLeft, DirsMade, GroupsLeft, UnreadLeft

\* A session takes at most MostSteps steps, however many batches and groups there are and
\* whatever its validators say: each brings it nearer to its exit code, and no other
\* session, batch, validator or aggregator takes it back (main of run_final_experiment.py).
THEOREM SessionIsBounded ==
  Spec => /\ [](\A s \in Sessions : SessionStepsLeft(s) \in Nat)
          /\ [][\A s \in Sessions :
                  IF SessionMoves(s) THEN SessionStepsLeft(s)' < SessionStepsLeft(s)
                  ELSE IF Begins(s) THEN SessionStepsLeft(s)' <= MostSteps
                  ELSE SessionStepsLeft(s)' = SessionStepsLeft(s)]_vars
<1> DEFINE Counted == \A s \in Sessions : SessionStepsLeft(s) \in Nat
           Closer == \A s \in Sessions :
                       IF SessionMoves(s) THEN SessionStepsLeft(s)' < SessionStepsLeft(s)
                       ELSE IF Begins(s) THEN SessionStepsLeft(s)' <= MostSteps
                       ELSE SessionStepsLeft(s)' = SessionStepsLeft(s)
<1>1. ShapeOK => Counted
  BY SessionStepsType
<1>2. ShapeOK /\ ShapeOK' /\ [Next]_vars => Closer
  <2>1. \A s \in Sessions : Acts(s) <=> SessionMoves(s) \/ Begins(s)
    BY DEF Acts, SessionMoves, Begins
  <2>2. QED
    BY <2>1, SessionNearer, BeginsWithinBound, SparedSteps
<1> HIDE DEF Counted, Closer
<1>3. Spec => []Counted /\ [][Closer]_vars
  BY ShapeInvariant, <1>1, <1>2, PTL DEF Spec
<1>4. QED
  BY <1>3 DEF Counted, Closer
================================================================================
