------------------------------- MODULE Experiment -------------------------------
(***************************************************************************)
(* scripts/run_experiment_ollama.py with experiment/scheduler.py: drivers  *)
(* that work through the sub-batches of an experiment for days on a shared *)
(* GPU host.  A driver takes a lock file, skips what has a batch.db, runs  *)
(* the rest one batch process after the other as free VRAM permits, and is *)
(* killed and started again.  (scripts/run_final_experiment.py works in the *)
(* same way and handles signals itself: see ExperimentClaims.)             *)
(*                                                                         *)
(* Abstractions.  A driver is its process id.  The free memory the         *)
(* scheduler sees is a level, already with what Ollama has loaded and      *)
(* without the safety buffer.  A batch process is what BatchContract says  *)
(* of it: it records runs, and it returns only when all are accounted for. *)
(* The pending list is a set, because what the code does to it (filtering  *)
(* the plan, remove) keeps the order of the plan: First finds its head.    *)
(***************************************************************************)
EXTENDS Naturals, Sequences

CONSTANTS
  Drivers,     \* processes running the script
  SubBatches,  \* the sub-batches, in the order of the execution plan
  Models,
  ModelOf,     \* [sub-batch -> model]
  Weight,      \* VRAM of the models it is known of
  SortedModels, \* those models, heaviest first; sorted() leaves equal ones as they came
  FreeLevels,  \* free VRAM a poll can find; None when nvidia-smi fails
  ForceRun,    \* --force
  Overlap,     \* two drivers may be started at the same time
  Kills,       \* drivers and batches may be killed
  MaxStarts,   \* bound: drivers started
  None

Subs == {SubBatches[i] : i \in DOMAIN SubBatches}
Jobs == [sub : Subs, state : {"running", "returned", "died"}]

ASSUME ExperimentAssumption ==
  /\ Drivers \cap {"absent", "empty"} = {}
  /\ None \notin Subs \cup Nat \cup Jobs
  /\ SubBatches \in Seq(Subs)
  /\ \A i, j \in DOMAIN SubBatches : SubBatches[i] = SubBatches[j] => i = j
  /\ ModelOf \in [Subs -> Models]
  /\ DOMAIN Weight \subseteq Models /\ Weight \in [DOMAIN Weight -> Nat]
  /\ FreeLevels \subseteq Nat \cup {None}
  /\ ForceRun \in BOOLEAN /\ Overlap \in BOOLEAN /\ Kills \in BOOLEAN
  /\ MaxStarts \in Nat

\* What sorted() answers.
ASSUME SortedAssumption ==
  /\ SortedModels \in Seq(Models)
  /\ {SortedModels[i] : i \in DOMAIN SortedModels} = DOMAIN Weight
  /\ \A i, j \in DOMAIN SortedModels :
       i < j => Weight[SortedModels[i]] >= Weight[SortedModels[j]]

VARIABLES
  lock,      \* the lock file: "absent", "empty" while it is written, or a pid
  pc,        \* [Drivers -> where main is]
  pending,   \* [Drivers -> the sub-batches still to run]
  job,       \* [Drivers -> the batch process it started, or None]
  passed,    \* [Drivers -> sub-batches whose process returned 0]
  failed,    \* [Drivers -> the others]
  db,        \* [Subs -> runs in batch.db of its results directories]
  starts     \* drivers started so far

vars == <<lock, pc, pending, job, passed, failed, db, starts>>

-----------------------------------------------------------------------------
Records == {"none", "some", "all"}
Locks   == {"absent", "empty"} \cup Drivers

Acquiring(d) == pc[d] \in {"check", "inspect", "claim", "write"}
Running(d)   == pc[d] \in {"plan", "poll", "batch", "release"}
Process(d)   == Acquiring(d) \/ Running(d)

Init ==
  /\ lock = "absent"
  /\ pc = [d \in Drivers |-> "idle"]
  /\ pending = [d \in Drivers |-> {}]
  /\ job = [d \in Drivers |-> None]
  /\ passed = [d \in Drivers |-> {}] /\ failed = [d \in Drivers |-> {}]
  /\ db = [s \in Subs |-> "none"]
  /\ starts = 0

\* What main keeps in its variables ends with the process.
Forget(d) ==
  /\ pending' = [pending EXCEPT ![d] = {}]
  /\ passed' = [passed EXCEPT ![d] = {}] /\ failed' = [failed EXCEPT ![d] = {}]

\* The batch process it started runs.
Busy(d) == job[d] # None /\ job[d].state = "running"

Go(d, from, to) == pc[d] = from /\ pc' = [pc EXCEPT ![d] = to]

-----------------------------------------------------------------------------
(* The lock.                                                               *)

Start(d) ==
  /\ starts < MaxStarts
  /\ Overlap \/ \A e \in Drivers : ~Acquiring(e)
  /\ job[d] = None
  /\ Go(d, "idle", "check")
  /\ starts' = starts + 1
  /\ UNCHANGED <<lock, pending, job, passed, failed, db>>

\* lock_path.exists()
CheckLock(d) ==
  /\ Go(d, "check", IF lock = "absent" THEN "claim" ELSE "inspect")
  /\ UNCHANGED <<lock, pending, job, passed, failed, db, starts>>

\* An unreadable pid and a dead process make a lock stale; a lock that is gone
\* by now makes read_text raise.
NotOurs(p)   == TRUE
DeadOwner(p) == p \notin Drivers \/ ~Process(p)
InspectLock(d) ==
  /\ Go(d, "inspect", IF lock # "absent" /\ DeadOwner(lock) THEN "claim" ELSE "idle")
  /\ UNCHANGED <<lock, pending, job, passed, failed, db, starts>>

\* write_text: the file is truncated, then written.
TruncateLock(d) ==
  /\ Go(d, "claim", "write")
  /\ lock' = "empty"
  /\ UNCHANGED <<pending, job, passed, failed, db, starts>>

WriteLock(d) ==
  /\ Go(d, "write", "plan")
  /\ lock' = d
  /\ UNCHANGED <<pending, job, passed, failed, db, starts>>

\* release_lock, in the finally clause: whosever lock it is.
ReleaseLock(d) ==
  /\ Go(d, "release", "idle")
  /\ lock' = "absent"
  /\ Forget(d)
  /\ UNCHANGED <<job, db, starts>>

-----------------------------------------------------------------------------
(* The plan and the scheduler.                                             *)

\* find_completed_batch
Completed(s) == db[s] # "none"

Plan(d) ==
  /\ Go(d, "plan", "poll")
  /\ pending' = [pending EXCEPT ![d] = {s \in Subs : ForceRun \/ ~Completed(s)}]
  /\ UNCHANGED <<lock, job, passed, failed, db, starts>>

\* can_run_model and select_next_batch: the first pending sub-batch of the
\* heaviest model that fits, else the first of a model of unknown weight; the
\* first of all when the free memory is unknown.  Of models that weigh the same
\* the one that comes first in SortedModels has its turn.
Positions(S) == {i \in DOMAIN SubBatches : SubBatches[i] \in S}
First(S) == SubBatches[CHOOSE i \in Positions(S) : \A j \in Positions(S) : i <= j]
Known(s) == ModelOf[s] \in DOMAIN Weight
Fitting(S, free) == {s \in S : Known(s) /\ Weight[ModelOf[s]] <= free}
Rank(s) == CHOOSE i \in DOMAIN SortedModels : SortedModels[i] = ModelOf[s]
Heaviest(S) == {s \in S : \A t \in S : Rank(s) <= Rank(t)}
Unknown(S) == {s \in S : ~Known(s)}
SelectKnown(S, free) ==
  IF S = {} THEN None
  ELSE IF free = None THEN First(S)
  ELSE IF Fitting(S, free) # {} THEN First(Heaviest(Fitting(S, free)))
  ELSE None
SelectNext(S, free) ==
  IF S = {} THEN None
  ELSE IF free = None THEN First(S)
  ELSE IF Fitting(S, free) # {} THEN First(Heaviest(Fitting(S, free)))
  ELSE IF Unknown(S) # {} THEN First(Unknown(S))
  ELSE None

\* One round of the loop; when nothing fits the driver sleeps and polls again.
LaunchAnyway(d, free) ==
  /\ Go(d, "poll", "batch")
  /\ pending[d] # {}
  /\ LET s == SelectNext(pending[d], free)
     IN /\ pending' = [pending EXCEPT ![d] = @ \ {s}]
        /\ job' = [job EXCEPT ![d] = [sub |-> s, state |-> "running"]]
  /\ UNCHANGED <<lock, passed, failed, db, starts>>

LaunchKeeps(d, free) ==
  /\ Go(d, "poll", "batch")
  /\ LET s == SelectNext(pending[d], free)
     IN /\ s # None
        /\ job' = [job EXCEPT ![d] = [sub |-> s, state |-> "running"]]
  /\ UNCHANGED <<lock, pending, passed, failed, db, starts>>

LaunchWith(d, free) ==
  /\ Go(d, "poll", "batch")
  /\ LET s == SelectNext(pending[d], free)
     IN /\ s # None
        /\ pending' = [pending EXCEPT ![d] = @ \ {s}]
        /\ job' = [job EXCEPT ![d] = [sub |-> s, state |-> "running"]]
  /\ UNCHANGED <<lock, passed, failed, db, starts>>

Launch(d) == \E free \in FreeLevels : LaunchWith(d, free)

CollectPassed(d) ==
  /\ Go(d, "batch", "poll")
  /\ job[d].state # "running"
  /\ passed' = [passed EXCEPT ![d] = @ \cup {s \in {job[d].sub} : job[d].state = "returned"}]
  /\ job' = [job EXCEPT ![d] = None]
  /\ UNCHANGED <<lock, pending, failed, db, starts>>

\* subprocess.run returns with the exit code.
Collect(d) ==
  /\ Go(d, "batch", "poll")
  /\ job[d].state # "running"
  /\ IF job[d].state = "returned"
     THEN passed' = [passed EXCEPT ![d] = @ \cup {job[d].sub}] /\ UNCHANGED failed
     ELSE failed' = [failed EXCEPT ![d] = @ \cup {job[d].sub}] /\ UNCHANGED passed
  /\ job' = [job EXCEPT ![d] = None]
  /\ UNCHANGED <<lock, pending, db, starts>>

Finish(d) ==
  /\ pending[d] = {}
  /\ Go(d, "poll", "release")
  /\ UNCHANGED <<lock, pending, job, passed, failed, db, starts>>

\* An exception in _run, or Ctrl-C, which ends the batch as well: the lock is
\* released all the same.
Interrupt(d) ==
  /\ Kills /\ pc[d] \in {"plan", "poll", "batch"}
  /\ pc' = [pc EXCEPT ![d] = "release"]
  /\ job' = [job EXCEPT ![d] = None]
  /\ UNCHANGED <<lock, pending, passed, failed, db, starts>>

\* The process is killed: the lock file stays.  Its batch process may go on.
Kill(d) ==
  /\ Kills /\ Process(d)
  /\ pc' = [pc EXCEPT ![d] = "idle"]
  /\ \/ job' = [job EXCEPT ![d] = None]
     \/ Busy(d) /\ UNCHANGED job
  /\ Forget(d)
  /\ UNCHANGED <<lock, db, starts>>

-----------------------------------------------------------------------------
(* A batch process, see BatchContract.                                     *)

EndJob(d, state) ==
  job' = [job EXCEPT ![d] = IF pc[d] = "batch" THEN [@ EXCEPT !.state = state] ELSE None]

BatchRecords(d) ==
  /\ Busy(d) /\ db[job[d].sub] = "none"
  /\ db' = [db EXCEPT ![job[d].sub] = "some"]
  /\ UNCHANGED <<lock, pc, pending, job, passed, failed, starts>>

\* All cases are accounted for; when none was recorded there is no batch.db.
BatchReturns(d) ==
  /\ Busy(d)
  /\ EndJob(d, "returned")
  /\ db' = [db EXCEPT ![job[d].sub] = IF @ = "none" THEN "none" ELSE "all"]
  /\ UNCHANGED <<lock, pc, pending, passed, failed, starts>>

BatchDies(d) ==
  /\ Kills /\ Busy(d)
  /\ EndJob(d, "died")
  /\ UNCHANGED <<lock, pc, pending, passed, failed, db, starts>>

Driver(d) ==
  \/ CheckLock(d) \/ InspectLock(d) \/ TruncateLock(d) \/ WriteLock(d)
  \/ Plan(d) \/ Collect(d) \/ Finish(d) \/ ReleaseLock(d)

Next == \E d \in Drivers :
  \/ Start(d) \/ Driver(d) \/ Launch(d) \/ Interrupt(d) \/ Kill(d)
  \/ BatchRecords(d) \/ BatchReturns(d) \/ BatchDies(d)

Spec == Init /\ [][Next]_vars

\* A driver runs on, a batch process ends (BatchRunner's BatchEnds), and the
\* other users of the host do not occupy its memory for ever: a driver with work
\* left polls, some time, when all of it is free.
Ample == CHOOSE free \in FreeLevels \ {None} : \A f \in FreeLevels \ {None} : f <= free
FairSpec ==
  /\ Spec
  /\ \A d \in Drivers :
       WF_vars(Driver(d)) /\ WF_vars(LaunchWith(d, Ample)) /\ WF_vars(BatchReturns(d))

-----------------------------------------------------------------------------
(* What an experiment promises.                                            *)

\* Every variable has its type.
TypeOK ==
  /\ lock \in Locks
  /\ pc \in [Drivers -> {"idle", "check", "inspect", "claim", "write", "plan", "poll", "batch", "release"}]
  /\ pending \in [Drivers -> SUBSET Subs]
  /\ job \in [Drivers -> Jobs \cup {None}]
  /\ passed \in [Drivers -> SUBSET Subs] /\ failed \in [Drivers -> SUBSET Subs]
  /\ db \in [Subs -> Records]
  /\ starts \in 0..MaxStarts

\* At most one driver works through the plan, whichever way earlier drivers ended:
\* acquire_lock "Raises AlreadyRunningError if another instance is running".
Working(d) == pc[d] \in {"plan", "poll", "batch"}
OneDriver == \A d, e \in Drivers : Working(d) /\ Working(e) => d = e

\* It holds when drivers are not started in the same moment, over every order of
\* kills, stale locks and releases (release_lock asks for no owner).
OneDriverIfStartedApart == ~Overlap => OneDriver

\* While a driver works, every sub-batch is in exactly one place: still pending,
\* with the batch process, or in the final report (the passed and failed lists of
\* _run).  What is in none of them has results from before (skip_reason).
Reported(d) == passed[d] \cup failed[d]
InHand(d) == IF job[d] = None THEN {} ELSE {job[d].sub}
EachSubBatchOnce == \A d \in Drivers : Working(d) /\ pc[d] # "plan" =>
  /\ passed[d] \cap failed[d] = {}
  /\ Reported(d) \cap (pending[d] \cup InHand(d)) = {}
  /\ pending[d] \cap InHand(d) = {}
  /\ \A s \in Subs \ (pending[d] \cup InHand(d) \cup Reported(d)) : Completed(s) /\ ~ForceRun

\* What has results is not run again: it does not come to a pending list, and what
\* is on one gets results only from the orphan of a killed driver, which may end
\* after skip_reason was read, once, for days of running.
NotRunAgain == [][~ForceRun /\ ~Overlap =>
  \A d \in Drivers : \A s \in pending'[d] : Completed(s)' =>
    \/ s \in pending[d] /\ Completed(s)
    \/ \E e \in Drivers : ~Working(e) /\ Busy(e) /\ job[e].sub = s]_vars

\* A driver that got the lock comes to its report, or ends, and gives the lock
\* back unless it is killed: it does not poll for ever.
DriverEnds == \A d \in Drivers : pc[d] = "plan" ~> pc[d] = "idle"

=============================================================================
