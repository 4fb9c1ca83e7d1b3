SPECIFICATION Spec
CONSTANTS
  SourceFiles = {src}
  TestFiles = {tst}
  Committed = {src, tst}
  DirtyFiles = {}
  Edits = {e1}
  Summaries = {m1, m2}
  MaxConfidence = 0
  PassSigs = {p1}
  FailSigs = {f1}
  MaxIterations = 3
  HasTests = FALSE
  Phased = TRUE
  AgentStages = FALSE
  GitFaults = FALSE
  None = None
  Damaged = Damaged
INVARIANTS
  PlannerNeverConcludes
  SuccessIsEarned
