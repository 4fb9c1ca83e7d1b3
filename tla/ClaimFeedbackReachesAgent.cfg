SPECIFICATION Spec
CONSTANTS
  SourceFiles = {src}
  TestFiles = {tst}
  Committed = {src, tst}
  DirtyFiles = {tst}
  Edits = {e1}
  Summaries = {m1}
  MaxConfidence = 0
  PassSigs = {p1}
  FailSigs = {f1}
  MaxIterations = 2
  HasTests = TRUE
  Phased = FALSE
  AgentStages = FALSE
  GitFaults = FALSE
  None = None
  Damaged = Damaged
INVARIANT
  FeedbackReachesAgent
