---------------------------- MODULE RepairRunClaims ----------------------------
(***************************************************************************)
(* What comments and documents of the repository say about the retry of a  *)
(* rejected iteration and about the git workspace, and what the code does  *)
(* not do.  Every formula here is refuted by a run of its own; the README  *)
(* quotes the text each one is taken from.                                 *)
(***************************************************************************)
EXTENDS RepairRun

\* The agent was started again after a rejection.
RetryRunning == pc = "agent" /\ decision = "retry"

\* specs/status.md: the rejection is injected into the prompt of the next
\* iteration.  _prepare clears the feedback before _run_agent reads it.
FeedbackReachesAgent == RetryRunning => invocation.feedback = "rejection"

\* WorkspaceManager.restore_test_files: the test changes are reverted.  One
\* test file that git does not know makes "git checkout --" refuse them all,
\* and the run fails instead of being retried.
RejectionCanBeUndone ==
  ~GitFaults /\ repo # "none" =>
    ~(pc = "except" /\ error = "infra" /\ decision = "retry" /\ Seen)
================================================================================
