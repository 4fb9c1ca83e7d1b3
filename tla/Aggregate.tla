------------------------------- MODULE Aggregate -------------------------------
(***************************************************************************)
(* scripts/aggregate_experiment_results.py beside the sessions of           *)
(* FinalExperiment: it looks for the databases, counts their runs, merges   *)
(* one after the other into a new database, gives every unresolved run a    *)
(* FAIL and checks the result, while batches and validators may write.     *)
(*                                                                         *)
(* Abstractions.  A run is its directory and case; its id is in no other    *)
(* database.  Of the merged tables the model has runs and run_validations.  *)
(* A merge reads its database in one transaction.                          *)
(***************************************************************************)
EXTENDS FinalExperiment

CONSTANT Aggregating  \* the aggregator is run

VARIABLES
  step,      \* where main is
  found,     \* the databases it found
  counted,   \* [Dirs -> the runs in each when it was counted]
  settled,   \* the databases whose batch had ended by then
  left,      \* databases still to count or to merge
  outRuns,   \* runs of the output: [id, resolved]
  outRows    \* its run_validations: [id, verdict, by: the session that judged, or None]

aggregateVars == <<step, found, counted, settled, left, outRuns, outRows>>
vars == <<finalVars, aggregateVars>>

-----------------------------------------------------------------------------
Recorded(d) == {c \in Cases : runs[d][c] # "none"}
MergedRuns(d) == {[id |-> <<d, c>>, resolved |-> runs[d][c] = "resolved"] : c \in Recorded(d)}
MergedRows(d) == {[id |-> <<d, r.case>>, verdict |-> r.verdict, by |-> r.by] : r \in verdicts[d]}

RowsOf(id) == {x \in outRows : x.id = id}
Unresolved == {r.id : r \in {q \in outRuns : ~q.resolved}}

Init ==
  /\ FinalInit
  /\ step = "idle" /\ found = {} /\ left = {} /\ settled = {}
  /\ counted = [d \in Dirs |-> {}]
  /\ outRuns = {} /\ outRows = {}

Discover ==
  /\ Aggregating /\ step = "idle"
  /\ found' = {d \in Dirs : HasDb(d)}
  /\ left' = found' /\ settled' = {} /\ counted' = [d \in Dirs |-> {}]
  /\ step' = "count"
  /\ UNCHANGED <<finalVars, outRuns, outRows>>

CountRuns ==
  /\ step = "count" /\ left # {}
  /\ LET d == CHOOSE e \in left : TRUE IN
       /\ counted' = [counted EXCEPT ![d] = Recorded(d)]
       /\ settled' = IF process[d] # "running" THEN settled \cup {d} ELSE settled
       /\ left' = left \ {d}
  /\ UNCHANGED <<finalVars, step, found, outRuns, outRows>>

\* aggregate starts from scratch.
BeginMerge ==
  /\ step = "count" /\ left = {} /\ found # {}
  /\ outRuns' = {} /\ outRows' = {}
  /\ left' = found
  /\ step' = "merge"
  /\ UNCHANGED <<finalVars, found, counted, settled>>

MergeDb ==
  /\ step = "merge" /\ left # {}
  /\ LET d == CHOOSE e \in left : TRUE IN
       /\ outRuns' = outRuns \cup MergedRuns(d)
       /\ outRows' = outRows \cup MergedRows(d)
       /\ left' = left \ {d}
  /\ UNCHANGED <<finalVars, step, found, counted, settled>>

NewFail(id) == [id |-> id, verdict |-> "FAIL", by |-> None]

NormalizeMissing ==
  /\ step = "merge" /\ left = {}
  /\ outRows' = {IF x.id \in Unresolved THEN [x EXCEPT !.verdict = "FAIL"] ELSE x :
                   x \in outRows}
                \cup {NewFail(id) : id \in {r.id : r \in {q \in outRuns : RowsOf(q.id) = {}}}}
  /\ step' = "verify"
  /\ UNCHANGED <<finalVars, found, counted, settled, left, outRuns>>

Normalize ==
  /\ step = "merge" /\ left = {}
  /\ outRows' = {IF x.id \in Unresolved THEN [x EXCEPT !.verdict = "FAIL"] ELSE x :
                   x \in outRows}
                \cup {NewFail(id) : id \in {i \in Unresolved : RowsOf(i) = {}}}
  /\ step' = "verify"
  /\ UNCHANGED <<finalVars, found, counted, settled, left, outRuns>>

\* There are as many as the counts of the databases add up to.
CountedRuns == UNION {{d} \X counted[d] : d \in found}

Warnings ==
  \/ Cardinality(outRuns) # Cardinality(CountedRuns)
  \/ \E x \in outRows : ~\E r \in outRuns : r.id = x.id
  \/ \E id \in Unresolved : RowsOf(id) = {} \/ \E x \in RowsOf(id) : x.verdict # "FAIL"

\* Exit code 0 or 1.
VerifyIntegrity ==
  /\ step = "verify"
  /\ step' = IF Warnings THEN "warned" ELSE "clean"
  /\ UNCHANGED <<finalVars, found, counted, settled, left, outRuns, outRows>>

\* Once it is looked at, the output goes out of sight: the next call begins anew.  So
\* does one that found nothing, or met a database locked for too long.
Leave ==
  /\ step # "idle" /\ step' = "idle"
  /\ found' = {} /\ left' = {} /\ settled' = {} /\ counted' = [d \in Dirs |-> {}]
  /\ outRuns' = {} /\ outRows' = {}
  /\ UNCHANGED finalVars

Aggregator ==
  \/ Discover \/ CountRuns \/ BeginMerge \/ MergeDb \/ Normalize \/ VerifyIntegrity
  \/ Leave

Next == (FinalNext /\ UNCHANGED aggregateVars) \/ Aggregator

Spec == Init /\ [][Next]_vars

-----------------------------------------------------------------------------
TypeOK ==
  /\ FinalTypeOK
  /\ step \in {"idle", "count", "merge", "verify", "clean", "warned"}
  /\ found \subseteq Dirs /\ left \subseteq found /\ settled \subseteq found
  /\ counted \in [Dirs -> SUBSET Cases]
  /\ outRuns \subseteq [id : Dirs \X Cases, resolved : BOOLEAN]
  /\ outRows \subseteq [id : Dirs \X Cases, verdict : Verdicts \cup {"FAIL"},
                  by : Sessions \cup {None}]

\* Exit code 0 means a true aggregate, whoever wrote while it was made: it has the runs
\* that were counted, those of a batch that had ended as its database has them, a FAIL
\* and nothing else for an unresolved run, for a resolved one only what a judge said, and
\* for no run the verdicts of two sessions, however many had listed it.
CleanAggregate ==
  step = "clean" =>
    /\ {r.id : r \in outRuns} = CountedRuns
    /\ \A d \in settled : {r \in outRuns : r.id[1] = d} = MergedRuns(d)
    /\ \A r \in outRuns :
         /\ Cardinality(RowsOf(r.id)) <= 1
         /\ IF r.resolved THEN \A x \in RowsOf(r.id) : x.by # None
            ELSE RowsOf(r.id) # {} /\ \A x \in RowsOf(r.id) : x.verdict = "FAIL"
================================================================================
