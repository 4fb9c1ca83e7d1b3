--------------------------- MODULE ExperimentProofs ----------------------------
(***************************************************************************)
(* What drivers and their restarts keep, for every number of either.       *)
(*                                                                         *)
(* Types rest on the scheduler: SelectNext answers one of the pending      *)
(* sub-batches or None (NextIsPending), because the least position in the   *)
(* plan and the least place among the sorted models exist (Smallest).      *)
(*                                                                         *)
(* OneDriver is not inductive: a driver about to write the lock would join *)
(* one that works.  What keeps it away is the lock file of the working one, *)
(* which names a living process (OwnerHoldsLock), so that whoever went past *)
(* the inspection did so while nobody worked (ClaimIsFree); and nobody got  *)
(* to work since, because no other driver is acquiring (OneAcquires).       *)
(*                                                                         *)
(* Nor is EachSubBatchOnce: a driver comes to its plan with nothing        *)
(* reported (PlansAfresh) and without a batch process, for a process runs  *)
(* only under a driver that waits for it or after one that was killed      *)
(* (JobOfBatch); and what was found complete stays so.  With the lock that  *)
(* also gives NotRunAgain: the driver that works waits for a sub-batch that *)
(* left its pending list, so what is on the list is recorded by an orphan.  *)
(*                                                                         *)
(* A driver has two steps to take for each pending sub-batch and a few at   *)
(* its place in main: every step it takes leaves it fewer.                  *)
(***************************************************************************)
EXTENDS Experiment, FiniteSetTheorems, WellFoundedInduction, TLAPS

Places == {"idle", "check", "inspect", "claim", "write", "plan", "poll", "batch", "release"}

OneAcquires    == \A d, e \in Drivers : Acquiring(d) /\ Acquiring(e) => d = e
OwnerHoldsLock == \A d \in Drivers : Running(d) => lock = d
ClaimIsFree    == \A d, e \in Drivers : pc[d] \in {"claim", "write"} => ~Running(e)
LockInv        == OneAcquires /\ OwnerHoldsLock /\ ClaimIsFree

IInv == pc \in [Drivers -> Places] /\ (~Overlap => LockInv)

\* A step that moves one driver between two places where it works, or from where
\* it works, or was, to "idle", and leaves the lock alone, disturbs nothing.
LEMMA QuietMove ==
  ASSUME NEW d \in Drivers, NEW to \in Places, IInv,
         pc' = [pc EXCEPT ![d] = to], lock' = lock,
         to = "idle" \/ (Running(d) /\ to \in Places /\ to \notin {"idle", "check", "inspect", "claim", "write"})
  PROVE  IInv'
  BY DEF IInv, LockInv, OneAcquires, OwnerHoldsLock, ClaimIsFree, Acquiring, Running, Places

LEMMA Initially == Init => IInv
  BY DEF Init, IInv, LockInv, OneAcquires, OwnerHoldsLock, ClaimIsFree, Acquiring, Running, Places

LEMMA Inductive == IInv /\ [Next]_vars => IInv'
<1> SUFFICES ASSUME IInv, [Next]_vars PROVE IInv'
  OBVIOUS
<1> USE DEF Go, Places
<1>1. CASE UNCHANGED vars
  BY <1>1 DEF vars, IInv, LockInv, OneAcquires, OwnerHoldsLock, ClaimIsFree, Acquiring, Running
<1>2. ASSUME NEW d \in Drivers, Start(d) PROVE IInv'
  BY <1>2 DEF Start, IInv, LockInv, OneAcquires, OwnerHoldsLock, ClaimIsFree, Acquiring, Running
<1>3. ASSUME NEW d \in Drivers, CheckLock(d) PROVE IInv'
  BY <1>3, ExperimentAssumption
     DEF CheckLock, IInv, LockInv, OneAcquires, OwnerHoldsLock, ClaimIsFree, Acquiring, Running
<1>4. ASSUME NEW d \in Drivers, InspectLock(d) PROVE IInv'
  BY <1>4 DEF InspectLock, DeadOwner, Process,
              IInv, LockInv, OneAcquires, OwnerHoldsLock, ClaimIsFree, Acquiring, Running
<1>5. ASSUME NEW d \in Drivers, TruncateLock(d) PROVE IInv'
  BY <1>5 DEF TruncateLock, IInv, LockInv, OneAcquires, OwnerHoldsLock, ClaimIsFree, Acquiring, Running
<1>6. ASSUME NEW d \in Drivers, WriteLock(d) PROVE IInv'
  BY <1>6 DEF WriteLock, IInv, LockInv, OneAcquires, OwnerHoldsLock, ClaimIsFree, Acquiring, Running
<1>7. ASSUME NEW d \in Drivers, ReleaseLock(d) PROVE IInv'
  BY <1>7 DEF ReleaseLock, IInv, LockInv, OneAcquires, OwnerHoldsLock, ClaimIsFree, Acquiring, Running
<1>8. ASSUME NEW d \in Drivers, Plan(d) \/ Launch(d) \/ Collect(d) \/ Finish(d) \/ Interrupt(d)
      PROVE  IInv'
  <2>1. /\ lock' = lock /\ Running(d)
        /\ \E to \in {"plan", "poll", "batch", "release"} : pc' = [pc EXCEPT ![d] = to]
    BY <1>8 DEF Plan, Launch, LaunchWith, Collect, Finish, Interrupt, Running
  <2> QED BY <2>1, QuietMove
<1>9. ASSUME NEW d \in Drivers, Kill(d) PROVE IInv'
  BY <1>9, QuietMove DEF Kill
<1>10. ASSUME NEW d \in Drivers, BatchRecords(d) \/ BatchReturns(d) \/ BatchDies(d) PROVE IInv'
  <2>1. pc' = pc /\ lock' = lock
    BY <1>10 DEF BatchRecords, BatchReturns, BatchDies
  <2> QED BY <2>1 DEF IInv, LockInv, OneAcquires, OwnerHoldsLock, ClaimIsFree, Acquiring, Running
<1> QED
  BY <1>1, <1>2, <1>3, <1>4, <1>5, <1>6, <1>7, <1>8, <1>9, <1>10 DEF Next, Driver

LEMMA Enough == IInv => OneDriverIfStartedApart
  BY DEF IInv, LockInv, OwnerHoldsLock, OneDriverIfStartedApart, OneDriver, Working, Running

\* Drivers that are not started in the same moment never work side by side, whatever
\* kills, interruptions and stale locks come between (acquire_lock, release_lock).
THEOREM OneDriverHolds == Spec => []OneDriverIfStartedApart
  BY Initially, Inductive, Enough, PTL DEF Spec

-----------------------------------------------------------------------------
(* The scheduler.                                                          *)

\* Among natural numbers there is a smallest one: of the intervals 0..n one
\* has none of the others inside.
LEMMA Smallest ==
  ASSUME NEW S, S \subseteq Nat, S # {}
  PROVE  \E m \in S : \A n \in S : m <= n
<1> DEFINE Below  == {0..n : n \in S}
           Inside == StrictSubsetOrdering(Nat)
<1>1. Below \subseteq FiniteSubsetsOf(Nat) /\ Below # {}
  <2>1. ASSUME NEW n \in S PROVE 0..n \in FiniteSubsetsOf(Nat)
    <3>1. n \in Int /\ 0 \in Int
      OBVIOUS
    <3>2. IsFiniteSet(0..n)
      BY <3>1, FS_Interval
    <3> QED BY <3>2 DEF FiniteSubsetsOf
  <2> QED BY <2>1
<1>2. IsWellFoundedOn(Inside, FiniteSubsetsOf(Nat))
  BY FS_StrictSubsetOrderingWellFounded
<1> HIDE DEF Inside
<1>3. PICK B \in Below : \A C \in Below : ~ (<<C, B>> \in Inside)
  BY <1>1, <1>2, WFMin, Zenon
<1>4. PICK m \in S : B = 0..m
  OBVIOUS
<1>5. ASSUME NEW n \in S PROVE m <= n
  <2>1. ~ (<<0..n, 0..m>> \in Inside)
    BY <1>3, <1>4
  <2>2. 0..n \in SUBSET Nat /\ 0..m \in SUBSET Nat
    OBVIOUS
  <2>3. ~ (0..n \subseteq 0..m /\ 0..n # 0..m)
    BY <2>1, <2>2 DEF Inside, StrictSubsetOrdering
  <2> QED BY <2>3
<1> QED BY <1>5

\* The head of the pending list is one of its elements.
LEMMA FirstIsElement ==
  ASSUME NEW S, S \subseteq Subs, S # {}
  PROVE  First(S) \in S
<1>1. Positions(S) \subseteq Nat /\ Positions(S) # {}
  BY ExperimentAssumption DEF Positions, Subs
<1>2. \E i \in Positions(S) : \A j \in Positions(S) : i <= j
  BY <1>1, Smallest
<1>3. (CHOOSE i \in Positions(S) : \A j \in Positions(S) : i <= j) \in Positions(S)
  BY <1>2
<1> QED BY <1>3 DEF First, Positions

\* A model of known weight has its place among the sorted ones, and none before it
\* is lighter.
LEMMA RankIsPlace ==
  ASSUME NEW s \in Subs, Known(s)
  PROVE  /\ Rank(s) \in DOMAIN SortedModels /\ Rank(s) \in Nat
         /\ SortedModels[Rank(s)] = ModelOf[s]
<1>1. DOMAIN SortedModels \subseteq Nat
  BY SortedAssumption
<1>2. \E i \in DOMAIN SortedModels : SortedModels[i] = ModelOf[s]
  BY SortedAssumption DEF Known
<1> QED BY <1>1, <1>2 DEF Rank

LEMMA EarlierIsHeavier ==
  ASSUME NEW s \in Subs, NEW t \in Subs, Known(s), Known(t), Rank(s) <= Rank(t)
  PROVE  Weight[ModelOf[s]] >= Weight[ModelOf[t]]
<1>1. CASE Rank(s) = Rank(t)
  <2>1. ModelOf[s] = ModelOf[t] /\ Weight[ModelOf[s]] \in Nat
    BY <1>1, RankIsPlace, ExperimentAssumption DEF Known
  <2> QED BY <2>1
<1>2. CASE Rank(s) < Rank(t)
  BY <1>2, RankIsPlace, SortedAssumption
<1> QED BY <1>1, <1>2, RankIsPlace

\* Of the sub-batches that fit there is a heaviest one: one whose model comes before
\* the others among the sorted ones.
LEMMA SomeIsHeaviest ==
  ASSUME NEW S, S \subseteq Subs, NEW free \in Nat, Fitting(S, free) # {}
  PROVE  Heaviest(Fitting(S, free)) # {}
<1> DEFINE F == Fitting(S, free)
           Ranks == {Rank(s) : s \in F}
<1>1. \A s \in F : Rank(s) \in Nat
  BY RankIsPlace DEF Fitting
<1>2. Ranks \subseteq Nat /\ Ranks # {}
  BY <1>1
<1>3. PICK r \in Ranks : \A q \in Ranks : r <= q
  BY <1>2, Smallest
<1>4. PICK s \in F : r = Rank(s)
  OBVIOUS
<1>5. \A t \in F : Rank(s) <= Rank(t)
  BY <1>3, <1>4
<1> QED BY <1>5 DEF Heaviest

\* select_next_batch answers one of the pending sub-batches, or None.
LEMMA NextIsPending ==
  ASSUME NEW S, S \subseteq Subs, NEW free \in FreeLevels,
         SelectNext(S, free) # None
  PROVE  SelectNext(S, free) \in S
<1>1. CASE S # {} /\ free = None
  BY <1>1, FirstIsElement DEF SelectNext
<1>2. CASE S # {} /\ free # None /\ Fitting(S, free) # {}
  <2> DEFINE H == Heaviest(Fitting(S, free))
  <2>1. free \in Nat
    BY <1>2, ExperimentAssumption
  <2>2. H # {}
    BY <1>2, <2>1, SomeIsHeaviest
  <2>3. H \subseteq S
    BY DEF Heaviest, Fitting
  <2>4. First(H) \in H
    BY <2>2, <2>3, FirstIsElement
  <2> QED BY <1>2, <2>3, <2>4 DEF SelectNext
<1>3. CASE S # {} /\ free # None /\ Fitting(S, free) = {} /\ Unknown(S) # {}
  <2>1. Unknown(S) \subseteq S
    BY DEF Unknown
  <2>2. First(Unknown(S)) \in Unknown(S)
    BY <1>3, <2>1, FirstIsElement
  <2> QED BY <1>3, <2>1, <2>2 DEF SelectNext
<1> QED BY <1>1, <1>2, <1>3 DEF SelectNext

\* No element of the list comes before its head.
LEMMA FirstIsFirst ==
  ASSUME NEW S, S \subseteq Subs, S # {}, NEW i \in Positions(S)
  PROVE  \E k \in Positions(S) : First(S) = SubBatches[k] /\ k <= i
<1>1. Positions(S) \subseteq Nat /\ Positions(S) # {}
  BY ExperimentAssumption DEF Positions, Subs
<1>2. \E k \in Positions(S) : \A j \in Positions(S) : k <= j
  BY <1>1, Smallest
<1> QED BY <1>2 DEF First

\* select_next_batch, when the free memory is known: it answers None only if no
\* pending sub-batch could run; else one that fits (or has no known weight), no
\* heavier one fits, and of its model it is the first in the plan.
THEOREM HeaviestThatFits ==
  ASSUME NEW S \in SUBSET Subs, NEW free \in Nat
  PROVE  LET s == SelectNext(S, free) IN
         /\ s = None <=> \A t \in S : Known(t) /\ ~ (Weight[ModelOf[t]] <= free)
         /\ s # None =>
              /\ s \in S /\ (Known(s) => Weight[ModelOf[s]] <= free)
              /\ \A t \in Fitting(S, free) :
                   Known(s) /\ Weight[ModelOf[s]] >= Weight[ModelOf[t]]
              /\ \A i, j \in Positions(S) :
                   /\ SubBatches[i] = s
                   /\ ModelOf[SubBatches[j]] = ModelOf[s]
                   => i <= j
<1> DEFINE s == SelectNext(S, free)
           F == Fitting(S, free)
           H == Heaviest(F)
           U == Unknown(S)
<1>0. free # None /\ None \notin S
  BY ExperimentAssumption
<1>1. CASE F # {}
  <2>1. H # {} /\ H \subseteq F /\ F \subseteq S
    <3>1. S \subseteq Subs
      OBVIOUS
    <3>2. H # {}
      BY <1>1, <3>1, SomeIsHeaviest
    <3> QED BY <3>2 DEF Heaviest, Fitting
  <2>2. s = First(H)
    BY <1>0, <1>1, <2>1 DEF SelectNext
  <2>3. s \in H
    BY <2>1, <2>2, FirstIsElement
  <2>4. ASSUME NEW i \in Positions(S), NEW j \in Positions(S),
               SubBatches[i] = s, ModelOf[SubBatches[j]] = ModelOf[s]
        PROVE  i <= j
    <3>1. SubBatches[j] \in H
      <4>1. SubBatches[j] \in S
        BY DEF Positions
      <4>2. SubBatches[j] \in F
        BY <2>1, <2>3, <2>4, <4>1 DEF Fitting, Known
      <4>3. Rank(SubBatches[j]) = Rank(s)
        BY <2>4 DEF Rank
      <4> HIDE DEF s, F
      <4> QED BY <2>3, <4>2, <4>3 DEF Heaviest
    <3>2. j \in Positions(H)
      BY <3>1 DEF Positions
    <3>3. PICK k \in Positions(H) : First(H) = SubBatches[k] /\ k <= j
      BY <2>1, <3>2, FirstIsFirst
    <3>4. k = i
      BY <2>2, <2>4, <3>3, ExperimentAssumption DEF Positions
    <3> QED BY <3>3, <3>4
  <2>5. Known(s) /\ Weight[ModelOf[s]] <= free /\ s \in S /\ s # None
    BY <1>0, <2>1, <2>3 DEF Fitting
  <2>6. \A t \in F : Weight[ModelOf[s]] >= Weight[ModelOf[t]]
    <3>1. ASSUME NEW t \in F PROVE Rank(s) <= Rank(t) /\ t \in Subs /\ Known(t)
      BY <2>1, <2>3 DEF Heaviest, Fitting
    <3>2. s \in Subs /\ Known(s)
      BY <2>1, <2>5
    <3> HIDE DEF s, F
    <3> QED BY <3>1, <3>2, EarlierIsHeavier
  <2> HIDE DEF s, F
  <2> QED BY <2>4, <2>5, <2>6 DEF s, F
<1>2. CASE F = {} /\ U # {}
  <2>1. s = First(U) /\ U \subseteq S
    BY <1>0, <1>2 DEF SelectNext, Unknown
  <2>2. s \in U
    BY <1>2, <2>1, FirstIsElement
  <2>3. ASSUME NEW i \in Positions(S), NEW j \in Positions(S),
               SubBatches[i] = s, ModelOf[SubBatches[j]] = ModelOf[s]
        PROVE  i <= j
    <3>1. j \in Positions(U)
      BY <2>2, <2>3 DEF Unknown, Known, Positions
    <3>2. PICK k \in Positions(U) : First(U) = SubBatches[k] /\ k <= j
      BY <1>2, <2>1, <3>1, FirstIsFirst
    <3>3. k = i
      BY <2>1, <2>3, <3>2, ExperimentAssumption DEF Positions
    <3> QED BY <3>2, <3>3
  <2>4. ~Known(s) /\ s \in S /\ s # None
    BY <1>0, <2>1, <2>2 DEF Unknown
  <2> HIDE DEF s
  <2> QED BY <1>2, <2>3, <2>4 DEF s
<1>3. CASE F = {} /\ U = {}
  <2>1. s = None
    BY <1>0, <1>3 DEF SelectNext
  <2> QED BY <1>3, <2>1 DEF Fitting, Unknown
<1> QED BY <1>1, <1>2, <1>3

-----------------------------------------------------------------------------
(* Types.                                                                  *)

\* A driver comes to its plan with nothing pending and nothing reported.
PlansAfresh == \A d \in Drivers :
  ~ (pc[d] \in {"poll", "batch", "release"}) => pending[d] = {} /\ passed[d] = {} /\ failed[d] = {}

\* A batch process runs under a driver that waits for it, or after one that was
\* killed.
JobOfBatch == \A d \in Drivers :
  /\ job[d] # None => pc[d] \in {"idle", "batch"}
  /\ pc[d] = "batch" => job[d] # None

TypeInv == TypeOK /\ PlansAfresh /\ JobOfBatch

LEMMA EndedJob ==
  ASSUME NEW j \in Jobs, NEW state \in {"returned", "died"}
  PROVE  /\ [j EXCEPT !.state = state] \in Jobs
         /\ [j EXCEPT !.state = state].sub = j.sub
  BY DEF Jobs

\* The end of a batch process touches no job but its own.
LEMMA JobEnds ==
  ASSUME TypeInv, NEW d \in Drivers, NEW state \in {"returned", "died"},
         Busy(d), EndJob(d, state)
  PROVE  /\ job' \in [Drivers -> Jobs \cup {None}]
         /\ \A e \in Drivers : e # d => job'[e] = job[e]
         /\ pc[d] = "batch" => job'[d] \in Jobs /\ job'[d].sub = job[d].sub
         /\ pc[d] # "batch" => job'[d] = None
<1> DEFINE ended == [job[d] EXCEPT !.state = state]
<1>1. job \in [Drivers -> Jobs \cup {None}] /\ job[d] \in Jobs
  BY DEF TypeInv, TypeOK, Busy
<1>2. ended \in Jobs /\ ended.sub = job[d].sub
  BY <1>1, EndedJob
<1>3. job' = [job EXCEPT ![d] = IF pc[d] = "batch" THEN ended ELSE None]
  BY DEF EndJob
<1> HIDE DEF ended
<1> QED BY <1>1, <1>2, <1>3

LEMMA TypeInitially == Init => TypeInv
  BY ExperimentAssumption
     DEF Init, TypeInv, TypeOK, PlansAfresh, JobOfBatch, Locks, Records

LEMMA TypeInductive == TypeInv /\ [Next]_vars => TypeInv'
<1> SUFFICES ASSUME TypeInv, [Next]_vars PROVE TypeInv'
  OBVIOUS
<1> USE ExperimentAssumption DEF Go, TypeInv, TypeOK, PlansAfresh, JobOfBatch
<1>1. CASE UNCHANGED vars
  BY <1>1 DEF vars
<1>2. ASSUME NEW d \in Drivers, Start(d) PROVE TypeInv'
  BY <1>2 DEF Start
<1>3. ASSUME NEW d \in Drivers, CheckLock(d) \/ InspectLock(d) PROVE TypeInv'
  BY <1>3 DEF CheckLock, InspectLock
<1>4. ASSUME NEW d \in Drivers, TruncateLock(d) PROVE TypeInv'
  BY <1>4 DEF TruncateLock, Locks
<1>5. ASSUME NEW d \in Drivers, WriteLock(d) PROVE TypeInv'
  BY <1>5 DEF WriteLock, Locks
<1>6. ASSUME NEW d \in Drivers, ReleaseLock(d) PROVE TypeInv'
  BY <1>6 DEF ReleaseLock, Forget, Locks
<1>7. ASSUME NEW d \in Drivers, Plan(d) PROVE TypeInv'
  BY <1>7 DEF Plan
<1>8. ASSUME NEW d \in Drivers, NEW free \in FreeLevels, LaunchWith(d, free) PROVE TypeInv'
  <2> DEFINE s == SelectNext(pending[d], free)
  <2>1. s \in pending[d] /\ s \in Subs
    BY <1>8, NextIsPending DEF LaunchWith
  <2>2. [sub |-> s, state |-> "running"] \in Jobs
    BY <2>1 DEF Jobs
  <2>3. /\ pc[d] = "poll" /\ pc' = [pc EXCEPT ![d] = "batch"]
        /\ pending' = [pending EXCEPT ![d] = @ \ {s}]
        /\ job' = [job EXCEPT ![d] = [sub |-> s, state |-> "running"]]
        /\ UNCHANGED <<lock, passed, failed, db, starts>>
    BY <1>8 DEF LaunchWith
  <2> HIDE DEF s
  <2> QED BY <2>1, <2>2, <2>3
<1>9. ASSUME NEW d \in Drivers, Collect(d) PROVE TypeInv'
  <2>1. job[d].sub \in Subs
    BY <1>9 DEF Collect, Jobs
  <2> QED BY <1>9, <2>1 DEF Collect
<1>10. ASSUME NEW d \in Drivers, Finish(d) PROVE TypeInv'
  BY <1>10 DEF Finish
<1>11. ASSUME NEW d \in Drivers, Interrupt(d) PROVE TypeInv'
  BY <1>11 DEF Interrupt
<1>12. ASSUME NEW d \in Drivers, Kill(d) PROVE TypeInv'
  BY <1>12 DEF Kill, Forget, Process, Acquiring, Running
<1>13. ASSUME NEW d \in Drivers, BatchRecords(d) PROVE TypeInv'
  BY <1>13 DEF BatchRecords, Records
<1>14. ASSUME NEW d \in Drivers, BatchReturns(d) PROVE TypeInv'
  <2>1. db' \in [Subs -> Records]
    BY <1>14 DEF BatchReturns, Records
  <2> QED BY <1>14, <2>1, JobEnds DEF BatchReturns
<1>15. ASSUME NEW d \in Drivers, BatchDies(d) PROVE TypeInv'
  BY <1>15, JobEnds DEF BatchDies
<1> QED
  BY <1>1, <1>2, <1>3, <1>4, <1>5, <1>6, <1>7, <1>8, <1>9, <1>10, <1>11, <1>12, <1>13, <1>14, <1>15
     DEF Next, Driver, Launch

\* Every variable has its type, for every plan and whatever the scheduler finds:
\* only pending sub-batches are ever started (_run, select_next_batch).
THEOREM TypeCorrect == Spec => []TypeOK
<1>1. TypeInv => TypeOK
  BY DEF TypeInv
<1> QED BY TypeInitially, TypeInductive, <1>1, PTL DEF Spec
-----------------------------------------------------------------------------
(* The report.                                                             *)

\* Where the sub-batches of one driver are.
OnceFor(d) == Working(d) /\ pc[d] # "plan" =>
  /\ passed[d] \cap failed[d] = {}
  /\ Reported(d) \cap (pending[d] \cup InHand(d)) = {}
  /\ pending[d] \cap InHand(d) = {}
  /\ \A s \in Subs \ (pending[d] \cup InHand(d) \cup Reported(d)) : Completed(s) /\ ~ForceRun

OnceInv == \A d \in Drivers : OnceFor(d)

\* Results do not go away.
LEMMA CompletedStays ==
  ASSUME TypeInv, [Next]_vars, NEW s \in Subs, Completed(s)
  PROVE  Completed(s)'
<1> USE DEF TypeInv, TypeOK, Completed
<1>1. CASE db' = db
  BY <1>1
<1>2. ASSUME NEW d \in Drivers, BatchRecords(d) PROVE Completed(s)'
  BY <1>2 DEF BatchRecords
<1>3. ASSUME NEW d \in Drivers, BatchReturns(d) PROVE Completed(s)'
  BY <1>3 DEF BatchReturns
<1> QED
  BY <1>1, <1>2, <1>3
     DEF Next, vars, Driver, Start, CheckLock, InspectLock, TruncateLock, WriteLock, ReleaseLock,
         Plan, Launch, LaunchWith, Collect, Finish, Interrupt, Kill, BatchDies

\* What a step leaves alone of a driver keeps its account, whatever it records.
LEMMA OnceKept ==
  ASSUME TypeInv, [Next]_vars, NEW d \in Drivers, OnceFor(d),
         pc'[d] = pc[d], pending'[d] = pending[d], job'[d] = job[d],
         passed'[d] = passed[d], failed'[d] = failed[d]
  PROVE  OnceFor(d)'
BY CompletedStays DEF OnceFor, Working, Reported, InHand

\* A driver elsewhere owes no account.
LEMMA OnceElsewhere ==
  ASSUME NEW d \in Drivers, ~ (pc'[d] \in {"poll", "batch"})
  PROVE  OnceFor(d)'
BY DEF OnceFor, Working

LEMMA OnceInductive == TypeInv /\ OnceInv /\ [Next]_vars => OnceInv'
<1> SUFFICES ASSUME TypeInv, OnceInv, [Next]_vars, NEW x \in Drivers PROVE OnceFor(x)'
  BY DEF OnceInv
<1> USE DEF Go
<1>0. OnceFor(x) /\ TypeOK /\ JobOfBatch /\ PlansAfresh
  BY DEF OnceInv, TypeInv
<1>1. CASE UNCHANGED vars
  BY <1>0, <1>1, OnceKept DEF vars
<1>2. ASSUME NEW d \in Drivers,
             \/ Start(d) \/ CheckLock(d) \/ InspectLock(d) \/ TruncateLock(d) \/ WriteLock(d)
             \/ ReleaseLock(d) \/ Finish(d) \/ Interrupt(d) \/ Kill(d)
      PROVE  OnceFor(x)'
  <2>1. /\ ~ (pc'[d] \in {"poll", "batch"})
        /\ \A e \in Drivers \ {d} : /\ pc'[e] = pc[e] /\ pending'[e] = pending[e] /\ job'[e] = job[e]
                                    /\ passed'[e] = passed[e] /\ failed'[e] = failed[e]
    BY <1>0, <1>2 DEF TypeOK, Start, CheckLock, InspectLock, TruncateLock, WriteLock, ReleaseLock,
                      Finish, Interrupt, Kill, Forget
  <2> QED BY <1>0, <2>1, OnceKept, OnceElsewhere
<1>3. ASSUME NEW d \in Drivers, Plan(d) PROVE OnceFor(x)'
  <2>1. CASE x # d
    BY <1>0, <1>3, <2>1, OnceKept DEF Plan, TypeOK
  <2>2. CASE x = d
    <3>1. /\ passed'[d] = {} /\ failed'[d] = {} /\ job'[d] = None
          /\ pending'[d] = {s \in Subs : ForceRun \/ ~Completed(s)}
          /\ db' = db
      BY <1>0, <1>3 DEF Plan, TypeOK, PlansAfresh, JobOfBatch
    <3> QED BY <2>2, <3>1 DEF OnceFor, Reported, InHand, Completed
  <2> QED BY <2>1, <2>2
<1>4. ASSUME NEW d \in Drivers, NEW free \in FreeLevels, LaunchWith(d, free) PROVE OnceFor(x)'
  <2> DEFINE s == SelectNext(pending[d], free)
  <2>1. s \in pending[d]
    BY <1>0, <1>4, NextIsPending DEF LaunchWith, TypeOK
  <2>2. /\ pc[d] = "poll" /\ pc' = [pc EXCEPT ![d] = "batch"]
        /\ pending' = [pending EXCEPT ![d] = @ \ {s}]
        /\ job' = [job EXCEPT ![d] = [sub |-> s, state |-> "running"]]
        /\ UNCHANGED <<passed, failed, db>>
    BY <1>4 DEF LaunchWith
  <2> HIDE DEF s
  <2>3. CASE x # d
    BY <1>0, <2>2, <2>3, OnceKept DEF TypeOK
  <2>4. CASE x = d
    <3>1. /\ passed'[d] = passed[d] /\ failed'[d] = failed[d]
          /\ pending'[d] = pending[d] \ {s}
          /\ job'[d] # None /\ job'[d].sub = s
      <4>1. s \in Subs
        BY <1>0, <2>1 DEF TypeOK
      <4>2. [sub |-> s, state |-> "running"] \in Jobs
        BY <4>1 DEF Jobs
      <4> QED BY <1>0, <2>2, <4>2, ExperimentAssumption DEF TypeOK
    <3>2. job[d] = None
      BY <1>0, <2>2 DEF JobOfBatch
    <3>3. OnceFor(d) /\ Working(d) /\ pc[d] # "plan"
      BY <1>0, <2>2, <2>4 DEF Working
    <3>4. UNCHANGED db
      BY <2>2
    <3> QED BY <2>1, <2>4, <3>1, <3>2, <3>3, <3>4 DEF OnceFor, Reported, InHand, Completed
  <2> QED BY <2>3, <2>4
<1>5. ASSUME NEW d \in Drivers, Collect(d) PROVE OnceFor(x)'
  <2>1. CASE x # d
    BY <1>0, <1>5, <2>1, OnceKept DEF Collect, TypeOK
  <2>2. CASE x = d
    <3>1. job[d] # None /\ OnceFor(d) /\ Working(d) /\ pc[d] # "plan"
      BY <1>0, <1>5, <2>2 DEF Collect, JobOfBatch, Working
    <3>2. /\ pending' = pending /\ db' = db /\ job'[d] = None
          /\ \/ /\ passed'[d] = passed[d] \cup {job[d].sub}
                /\ failed'[d] = failed[d]
             \/ /\ failed'[d] = failed[d] \cup {job[d].sub}
                /\ passed'[d] = passed[d]
      BY <1>0, <1>5 DEF Collect, TypeOK
    <3> QED BY <2>2, <3>1, <3>2 DEF OnceFor, Reported, InHand, Completed
  <2> QED BY <2>1, <2>2
<1>6. ASSUME NEW d \in Drivers, BatchRecords(d) PROVE OnceFor(x)'
  BY <1>0, <1>6, OnceKept DEF BatchRecords
<1>7. ASSUME NEW d \in Drivers, BatchReturns(d) \/ BatchDies(d) PROVE OnceFor(x)'
  <2>1. /\ pc' = pc /\ pending' = pending /\ passed' = passed /\ failed' = failed
        /\ \A e \in Drivers : e # d => job'[e] = job[e]
        /\ pc[d] = "batch" => job'[d] \in Jobs /\ job'[d].sub = job[d].sub
        /\ Busy(d)
    BY <1>7, JobEnds DEF BatchReturns, BatchDies
  <2>2. CASE x # d
    BY <1>0, <2>1, <2>2, OnceKept
  <2>3. CASE x = d /\ pc[d] = "batch"
    <3>1. InHand(d)' = InHand(d)
      BY <2>1, <2>3, ExperimentAssumption DEF InHand, Busy
    <3> QED BY <1>0, <2>1, <2>3, <3>1, CompletedStays DEF OnceFor, Reported, Working
  <2>4. CASE x = d /\ pc[d] # "batch"
    <3>1. pc'[d] # "poll" /\ pc'[d] # "batch"
      BY <1>0, <2>1, <2>4 DEF JobOfBatch, Busy
    <3> QED BY <2>4, <3>1, OnceElsewhere
  <2> QED BY <2>2, <2>3, <2>4
<1> QED
  BY <1>1, <1>2, <1>3, <1>4, <1>5, <1>6, <1>7 DEF Next, Driver, Launch

LEMMA OnceInitially == Init => OnceInv
  BY DEF Init, OnceInv, OnceFor, Working

\* While a driver works, a sub-batch is still pending, with the batch process or in
\* one list of the report, and in one only; what is in none has results.  No kill,
\* orphan or lack of memory loses one (_run).
THEOREM EachSubBatchOnceHolds == Spec => []EachSubBatchOnce
<1>1. OnceInv => EachSubBatchOnce
  BY DEF OnceInv, OnceFor, EachSubBatchOnce
<1> QED BY TypeInitially, TypeInductive, OnceInitially, OnceInductive, <1>1, PTL DEF Spec

\* Who records a sub-batch that was without results has a batch process for it.
LEMMA ResultsAreOfAJob ==
  ASSUME TypeInv, [Next]_vars, NEW s \in Subs, ~Completed(s), Completed(s)'
  PROVE  \E e \in Drivers : BatchRecords(e) /\ job[e].sub = s
<1> USE DEF TypeInv, TypeOK, Completed
<1>1. db' # db
  OBVIOUS
<1>2. \E e \in Drivers : BatchRecords(e) \/ BatchReturns(e)
  BY <1>1
     DEF Next, vars, Driver, Start, CheckLock, InspectLock, TruncateLock, WriteLock, ReleaseLock,
         Plan, Launch, LaunchWith, Collect, Finish, Interrupt, Kill, BatchDies
<1>3. ASSUME NEW e \in Drivers, BatchRecords(e) PROVE job[e].sub = s
  BY <1>3 DEF BatchRecords
<1>4. ASSUME NEW e \in Drivers, BatchReturns(e) PROVE FALSE
  <2>1. db' = [db EXCEPT ![job[e].sub] = IF @ = "none" THEN "none" ELSE "all"]
    BY <1>4 DEF BatchReturns
  <2> QED BY <2>1
<1> QED BY <1>2, <1>3, <1>4

\* A batch process that records leaves every pending list as it is.
LEMMA RecordingIsQuiet ==
  ASSUME NEW e \in Drivers, BatchRecords(e)
  PROVE  pending' = pending /\ Busy(e)
BY DEF BatchRecords

\* A pending list is made by the plan, of what has no results; otherwise it shrinks.
LEMMA PendingIsFromPlan ==
  ASSUME TypeInv, [Next]_vars, NEW d \in Drivers, NEW s \in pending'[d], s \notin pending[d],
         ~ForceRun
  PROVE  ~Completed(s)'
<1> USE DEF TypeInv, TypeOK
<1>1. ASSUME NEW e \in Drivers, Plan(e) PROVE ~Completed(s)'
  <2>1. /\ pending' = [pending EXCEPT ![e] = {x \in Subs : ForceRun \/ ~Completed(x)}]
        /\ db' = db
    BY <1>1 DEF Plan
  <2>2. s \in {x \in Subs : ForceRun \/ ~Completed(x)}
    BY <2>1
  <2> QED BY <2>1, <2>2 DEF Completed
<1>2. ASSUME NEW e \in Drivers,
             \/ Start(e) \/ CheckLock(e) \/ InspectLock(e) \/ TruncateLock(e) \/ WriteLock(e)
             \/ ReleaseLock(e) \/ Launch(e) \/ Collect(e) \/ Finish(e) \/ Interrupt(e) \/ Kill(e)
             \/ BatchRecords(e) \/ BatchReturns(e) \/ BatchDies(e)
      PROVE  pending'[d] \subseteq pending[d]
  BY <1>2 DEF Start, CheckLock, InspectLock, TruncateLock, WriteLock, ReleaseLock, Forget, Launch,
              LaunchWith, Collect, Finish, Interrupt, Kill, BatchRecords, BatchReturns, BatchDies
<1>3. ~UNCHANGED vars
  BY DEF vars
<1> QED BY <1>1, <1>2, <1>3 DEF Next, Driver

\* The batch process of the driver that works is for none of the pending sub-batches.
LEMMA OwnJobIsNotPending ==
  ASSUME IInv, TypeInv, OnceInv, ~Overlap, NEW d \in Drivers, NEW e \in Drivers,
         Busy(e), Working(e), job[e].sub \in pending[d]
  PROVE  FALSE
<1>1. Running(d) /\ Running(e)
  <2>1. pc[d] \in {"poll", "batch", "release"}
    BY DEF TypeInv, PlansAfresh
  <2> QED BY <2>1 DEF Running, Working
<1>2. d = e
  BY <1>1 DEF IInv, LockInv, OwnerHoldsLock
<1>3. pc[e] = "batch"
  BY DEF TypeInv, JobOfBatch, Busy, Working
<1> QED BY <1>2, <1>3 DEF OnceInv, OnceFor, Working, Busy, InHand

\* What has results is not run again, unless an orphan made them: the plan takes what
\* has none, and no batch process but an orphan records a pending sub-batch (_run,
\* find_completed_batch).
THEOREM NotRunAgainHolds == Spec => NotRunAgain
<1> DEFINE Again ==
      ~ForceRun /\ ~Overlap =>
        \A d \in Drivers : \A s \in pending'[d] : Completed(s)' =>
          \/ s \in pending[d] /\ Completed(s)
          \/ \E e \in Drivers : ~Working(e) /\ Busy(e) /\ job[e].sub = s
<1>1. IInv /\ TypeInv /\ TypeInv' /\ OnceInv /\ [Next]_vars => Again
  <2> SUFFICES ASSUME IInv, TypeInv, TypeInv', OnceInv, [Next]_vars, ~ForceRun, ~Overlap,
                      NEW d \in Drivers, NEW s \in pending'[d], Completed(s)',
                      ~ (s \in pending[d] /\ Completed(s))
               PROVE  \E e \in Drivers : ~Working(e) /\ Busy(e) /\ job[e].sub = s
    OBVIOUS
  <2>1. s \in Subs
    BY DEF TypeInv, TypeOK
  <2>2. s \in pending[d] /\ ~Completed(s)
    BY PendingIsFromPlan
  <2>3. PICK e \in Drivers : BatchRecords(e) /\ job[e].sub = s
    BY <2>1, <2>2, ResultsAreOfAJob
  <2>4. Busy(e)
    BY <2>3, RecordingIsQuiet
  <2>5. ~Working(e)
    BY <2>2, <2>3, <2>4, OwnJobIsNotPending
  <2> QED BY <2>3, <2>4, <2>5
<1> HIDE DEF Again
<1>2. Spec => [][Again]_vars
  BY Initially, Inductive, TypeInitially, TypeInductive, OnceInitially, OnceInductive, <1>1, PTL
     DEF Spec
<1> QED BY <1>2 DEF Again, NotRunAgain

-----------------------------------------------------------------------------
(* A driver comes to its end.                                              *)

\* What a driver has still to do at its place in main, next to two steps for each
\* sub-batch that is pending, or may be.
DriverRank ==
  [check |-> 7, inspect |-> 6, claim |-> 5, write |-> 4, plan |-> 3,
   batch |-> 3, poll |-> 2, release |-> 1, idle |-> 0]

Ahead(d) ==
  IF pc[d] \in {"check", "inspect", "claim", "write", "plan"} THEN Subs
  ELSE IF pc[d] \in {"poll", "batch"} THEN pending[d]
  ELSE {}

DriverStepsLeft(d) == 2 * Cardinality(Ahead(d)) + DriverRank[pc[d]]

\* The plan is finite, and so is every part of it.
LEMMA PartsAreFinite ==
  ASSUME NEW S \in SUBSET Subs
  PROVE  /\ IsFiniteSet(S) /\ Cardinality(S) \in Nat /\ Cardinality(Subs) \in Nat
         /\ Cardinality(S) <= Cardinality(Subs)
<1>1. SubBatches \in Surjection(1..Len(SubBatches), Subs)
  BY ExperimentAssumption DEF Surjection, Subs
<1>2. IsFiniteSet(1..Len(SubBatches))
  <2>1. 1 \in Int /\ Len(SubBatches) \in Int
    BY ExperimentAssumption
  <2>2. QED
    BY <2>1, FS_Interval
<1>3. IsFiniteSet(Subs)
  BY <1>1, <1>2, FS_Surjection
<1>4. IsFiniteSet(S) /\ Cardinality(S) <= Cardinality(Subs)
  BY <1>3, FS_Subset
<1>5. QED
  BY <1>3, <1>4, FS_CardinalityType

LEMMA AheadIsFinite ==
  ASSUME TypeOK, NEW d \in Drivers
  PROVE  /\ Cardinality(Ahead(d)) \in Nat
         /\ DriverRank[pc[d]] \in 0..7
         /\ DriverStepsLeft(d) \in 0 .. 2 * Cardinality(Subs) + 7
<1>1. Ahead(d) \in SUBSET Subs
  BY DEF Ahead, TypeOK
<1>2. DriverRank[pc[d]] \in 0..7
  BY DEF DriverRank, TypeOK
<1>3. /\ Cardinality(Ahead(d)) \in Nat /\ Cardinality(Subs) \in Nat
      /\ Cardinality(Ahead(d)) <= Cardinality(Subs)
  BY <1>1, PartsAreFinite
<1> HIDE DEF DriverRank
<1>4. QED
  BY <1>2, <1>3 DEF DriverStepsLeft

\* The steps of a driver, those that end it among them.
DriverMoves(d) == Driver(d) \/ Launch(d) \/ Interrupt(d) \/ Kill(d)

\* A step that leaves no more ahead, at a later place, is a step nearer.
LEMMA NearerByPlace ==
  ASSUME TypeOK, TypeOK', NEW d \in Drivers,
         Ahead(d)' \subseteq Ahead(d), DriverRank[pc'[d]] < DriverRank[pc[d]]
  PROVE  DriverStepsLeft(d)' < DriverStepsLeft(d)
<1>1. Ahead(d) \in SUBSET Subs
  BY DEF Ahead, TypeOK
<1>2. IsFiniteSet(Ahead(d)) /\ Cardinality(Ahead(d)) \in Nat
  BY <1>1, PartsAreFinite
<1>3. Ahead(d)' \in SUBSET Subs
  BY DEF Ahead, TypeOK
<1>4. Cardinality(Ahead(d)') \in Nat /\ Cardinality(Ahead(d)') <= Cardinality(Ahead(d))
  BY <1>2, <1>3, PartsAreFinite, FS_Subset
<1>5. DriverRank[pc[d]] \in 0..7 /\ DriverRank[pc'[d]] \in 0..7
  BY DEF TypeOK, DriverRank
<1>6. DriverStepsLeft(d)' = 2 * Cardinality(Ahead(d)') + DriverRank[pc'[d]]
  BY DEF DriverStepsLeft, DriverRank
<1> HIDE DEF DriverRank
<1>7. QED
  BY <1>2, <1>4, <1>5, <1>6 DEF DriverStepsLeft

LEMMA LaunchIsNearer ==
  ASSUME TypeOK, TypeOK', NEW d \in Drivers, NEW free \in FreeLevels, LaunchWith(d, free)
  PROVE  DriverStepsLeft(d)' < DriverStepsLeft(d)
<1> DEFINE s == SelectNext(pending[d], free)
<1>1. s \in pending[d]
  BY NextIsPending DEF LaunchWith, TypeOK
<1>2. /\ pc[d] = "poll" /\ pc'[d] = "batch"
      /\ pending'[d] = pending[d] \ {s}
  BY DEF LaunchWith, TypeOK, Go
<1> HIDE DEF s
<1>3. Ahead(d) = pending[d] /\ Ahead(d)' = pending[d] \ {s}
  BY <1>2 DEF Ahead
<1>4. IsFiniteSet(pending[d]) /\ Cardinality(pending[d]) \in Nat
  BY PartsAreFinite DEF TypeOK
<1>5. Cardinality(pending[d] \ {s}) = Cardinality(pending[d]) - 1
  BY <1>1, <1>4, FS_RemoveElement
<1>6. DriverRank[pc[d]] = 2 /\ DriverRank[pc'[d]] = 3
  BY <1>2 DEF DriverRank
<1>7. DriverStepsLeft(d)' = 2 * Cardinality(Ahead(d)') + DriverRank[pc'[d]]
  BY DEF DriverStepsLeft, DriverRank
<1>8. QED
  BY <1>3, <1>4, <1>5, <1>6, <1>7 DEF DriverStepsLeft

LEMMA DriverMovesNearer ==
  ASSUME TypeInv, TypeOK', NEW d \in Drivers, DriverMoves(d)
  PROVE  DriverStepsLeft(d)' < DriverStepsLeft(d)
<1>0. TypeOK /\ pc \in [Drivers -> Places]
  BY DEF TypeInv, TypeOK, Places
<1>1. CASE Launch(d)
  BY <1>0, <1>1, LaunchIsNearer DEF Launch
<1>2. CASE \/ CheckLock(d) \/ InspectLock(d) \/ TruncateLock(d) \/ WriteLock(d)
           \/ Plan(d) \/ Collect(d) \/ Finish(d) \/ ReleaseLock(d)
           \/ Interrupt(d)
  <2>1. Ahead(d)' \subseteq Ahead(d)
    BY <1>0, <1>2 DEF CheckLock, InspectLock, TruncateLock, WriteLock, Plan, Collect, Finish,
                      ReleaseLock, Interrupt, Go, Ahead, TypeOK
  <2>2. DriverRank[pc'[d]] < DriverRank[pc[d]]
    BY <1>0, <1>2 DEF CheckLock, InspectLock, TruncateLock, WriteLock, Plan, Collect, Finish,
                      ReleaseLock, Interrupt, Go, DriverRank
  <2>3. QED
    BY <1>0, <2>1, <2>2, NearerByPlace
<1>3. CASE Kill(d)
  <2>1. pc[d] # "idle" /\ pc'[d] = "idle"
    BY <1>0, <1>3 DEF Kill, Process, Acquiring, Running
  <2>2. Ahead(d)' = {}
    BY <2>1 DEF Ahead
  <2>3. DriverRank[pc'[d]] < DriverRank[pc[d]]
    BY <1>0, <2>1 DEF DriverRank, Places
  <2>4. QED
    BY <1>0, <2>2, <2>3, NearerByPlace
<1>4. QED
  BY <1>1, <1>2, <1>3 DEF DriverMoves, Driver

\* Other drivers and the batch processes do not set a driver back.
LEMMA OthersLeaveIt ==
  ASSUME TypeInv, NEW d \in Drivers, [Next]_vars, ~DriverMoves(d), ~Start(d)
  PROVE  DriverStepsLeft(d)' = DriverStepsLeft(d)
<1>1. pc'[d] = pc[d] /\ pending'[d] = pending[d]
  <2> USE DEF TypeInv, TypeOK
  <2>1. CASE UNCHANGED vars
    BY <2>1 DEF vars
  <2>2. ASSUME NEW e \in Drivers, e # d, Start(e) \/ DriverMoves(e)
        PROVE  pc'[d] = pc[d] /\ pending'[d] = pending[d]
    BY <2>2 DEF DriverMoves, Driver, Launch, LaunchWith, Start, CheckLock, InspectLock,
                TruncateLock, WriteLock, Plan, Collect, Finish, ReleaseLock, Interrupt, Kill,
                Go, Forget
  <2>3. ASSUME NEW e \in Drivers, BatchRecords(e) \/ BatchReturns(e) \/ BatchDies(e)
        PROVE  pc' = pc /\ pending' = pending
    BY <2>3 DEF BatchRecords, BatchReturns, BatchDies
  <2>4. QED
    <3>1. \/ UNCHANGED vars
          \/ \E e \in Drivers : \/ Start(e) \/ DriverMoves(e)
                               \/ BatchRecords(e) \/ BatchReturns(e) \/ BatchDies(e)
      BY DEF Next, DriverMoves
    <3>2. QED
      BY <2>1, <2>2, <2>3, <3>1
<1>2. Ahead(d)' = Ahead(d)
  BY <1>1 DEF Ahead
<1>3. DriverStepsLeft(d)' = 2 * Cardinality(Ahead(d)') + DriverRank[pc'[d]]
  BY DEF DriverStepsLeft, DriverRank
<1>4. QED
  BY <1>1, <1>2, <1>3 DEF DriverStepsLeft

\* A driver takes at most 2 * Cardinality(Subs) + 7 steps from its start to its end:
\* each brings it nearer, and no other driver, orphan batch or lack of memory takes it
\* back (main, _run).
THEOREM DriverIsBounded ==
  Spec => /\ [](\A d \in Drivers : DriverStepsLeft(d) \in 0 .. 2 * Cardinality(Subs) + 7)
          /\ [][\A d \in Drivers :
                  IF DriverMoves(d) THEN DriverStepsLeft(d)' < DriverStepsLeft(d)
                  ELSE Start(d) \/ DriverStepsLeft(d)' = DriverStepsLeft(d)]_vars
<1> DEFINE Bounded == \A d \in Drivers : DriverStepsLeft(d) \in 0 .. 2 * Cardinality(Subs) + 7
           Closer == \A d \in Drivers :
                       IF DriverMoves(d) THEN DriverStepsLeft(d)' < DriverStepsLeft(d)
                       ELSE Start(d) \/ DriverStepsLeft(d)' = DriverStepsLeft(d)
<1>1. TypeInv => Bounded
  BY AheadIsFinite DEF TypeInv
<1>2. TypeInv /\ TypeInv' /\ [Next]_vars => Closer
  <2>1. TypeInv' => TypeOK'
    BY DEF TypeInv
  <2>2. QED
    BY <2>1, DriverMovesNearer, OthersLeaveIt
<1> HIDE DEF Bounded, Closer
<1>3. Spec => []Bounded /\ [][Closer]_vars
  BY TypeInitially, TypeInductive, <1>1, <1>2, PTL DEF Spec
<1>4. QED
  BY <1>3 DEF Bounded, Closer

\* A driver waits for its batch process, and for memory when nothing that is pending
\* could be run with what is free.
MayGoOn(d) ==
  \/ pc[d] \in {"check", "inspect", "claim", "write", "plan", "release"}
  \/ pc[d] = "batch" /\ job[d] # None
  \/ pc[d] = "poll" /\ pending[d] = {}
  \/ /\ pc[d] = "poll"
     /\ \A free \in FreeLevels :
          \/ SelectNext(pending[d], free) # None
          \/ free # None /\ \A s \in pending[d] : Known(s) /\ ~ (Weight[ModelOf[s]] <= free)

\* Nothing else holds a driver up: not the lock, not a stale file, not a poll that
\* nvidia-smi leaves without an answer (select_next_batch).
THEOREM DriverWaitsOnlyForMemory ==
  Spec => [](\A d \in Drivers : Process(d) => MayGoOn(d))
<1> DEFINE GoesOn == \A d \in Drivers : Process(d) => MayGoOn(d)
<1>1. ASSUME TypeInv, NEW d \in Drivers, pc[d] = "poll", pending[d] # {},
             NEW free \in FreeLevels, SelectNext(pending[d], free) = None
      PROVE  free # None /\ \A s \in pending[d] : Known(s) /\ ~ (Weight[ModelOf[s]] <= free)
  <2>1. pending[d] \in SUBSET Subs /\ None \notin Subs
    BY <1>1, ExperimentAssumption DEF TypeInv, TypeOK
  <2>2. free # None
    BY <1>1, <2>1, FirstIsElement DEF SelectNext
  <2>3. free \in Nat
    BY <2>2, ExperimentAssumption
  <2>4. QED
    BY <1>1, <2>1, <2>2, <2>3, HeaviestThatFits
<1>2. TypeInv => GoesOn
  BY <1>1 DEF TypeInv, JobOfBatch, MayGoOn, Process, Acquiring, Running
<1> HIDE DEF GoesOn
<1>3. Spec => []GoesOn
  BY TypeInitially, TypeInductive, <1>2, PTL DEF Spec
<1>4. QED
  BY <1>3 DEF GoesOn
================================================================================
