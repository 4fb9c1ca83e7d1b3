------------------------------ MODULE CallContract ------------------------------
(***************************************************************************)
(* What an iteration may rely on when it calls an agent: the call is opened *)
(* and closed with one outcome, the workspace changes between the two at   *)
(* will, and once the call is closed nothing it began changes it any more. *)
(* RepairRun models its agent this way.                                    *)
(***************************************************************************)
CONSTANTS Fresh, Outcomes

VARIABLES
  state,   \* "idle", "open", or an outcome
  work     \* what the call has made of the workspace

callVars == <<state, work>>

CallInit == state = "idle" /\ work = Fresh

Open == state # "open" /\ state' = "open" /\ work' = Fresh

Work == state = "open" /\ UNCHANGED state

Close == state = "open" /\ state' \in Outcomes /\ UNCHANGED work

CallContract == CallInit /\ [][Open \/ Work \/ Close]_callVars

\* A call that is opened is closed.
Closes == (state = "open") ~> (state \in Outcomes)
================================================================================
