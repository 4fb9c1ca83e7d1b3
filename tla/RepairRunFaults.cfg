SPECIFICATION FairSpec
CONSTANTS
  SourceFiles = {src}
  TestFiles = {tst}
  Committed = {src}
  DirtyFiles = {tst}
  Edits = {e1}
  Summaries = {m1}
  MaxConfidence = 0
  PassSigs = {p1}
  FailSigs = {f1}
  MaxIterations = 2
  HasTests = TRUE
  Phased = FALSE
  AgentStages = TRUE
  GitFaults = TRUE
  None = None
  Damaged = Damaged
INVARIANT
  SuccessLeavesNoBranch
PROPERTIES
  ImplementsContract
  ReachesVerdict
