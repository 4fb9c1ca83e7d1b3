SPECIFICATION Spec
CONSTANTS
  SourceFiles = {src}
  TestFiles = {tst, new}
  Committed = {src, tst}
  DirtyFiles = {}
  Edits = {e1}
  Summaries = {m1}
  MaxConfidence = 0
  PassSigs = {p1}
  FailSigs = {f1}
  MaxIterations = 2
  HasTests = TRUE
  Phased = FALSE
  AgentStages = FALSE
  GitFaults = FALSE
  None = None
  Damaged = Damaged
INVARIANT
  RejectionCanBeUndone
