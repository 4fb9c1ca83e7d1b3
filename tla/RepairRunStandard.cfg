SPECIFICATION Spec
CONSTANTS
  SourceFiles = {src}
  TestFiles = {tst, new}
  Committed = {src, tst}
  DirtyFiles = {tst}
  Edits = {e1}
  Summaries = {m1}
  MaxConfidence = 0
  PassSigs = {p1}
  FailSigs = {f1}
  MaxIterations = 3
  HasTests = TRUE
  Phased = FALSE
  AgentStages = FALSE
  GitFaults = FALSE
  None = None
  Damaged = Damaged
INVARIANTS
  TypeOK
  SuccessKeepsTests
  ObservableSuccessWins
  ReportedSuccessWins
  SuccessIsEarned
  BranchGivenBack
  ReportsItsIteration
