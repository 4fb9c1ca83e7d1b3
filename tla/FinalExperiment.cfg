\* One session runs a batch, one validates all there is, the aggregator runs beside them.
CONSTANTS
  Sessions = {s0, s1, s2}
  Earlier = {s0}
  Batches = {b1, b2}
  Cases = {c1}
  Mode <- MCMode
  Plan <- MCPlan
  ValidationOnly = {s2}
  Family <- MCFamily
  Chunk = 2
  Verdicts = {"CORRECT"}
  Aggregating = TRUE
  None = None
  s0 = s0
  s1 = s1
  s2 = s2
  b1 = b1
  b2 = b2
SPECIFICATION Spec
INVARIANTS TypeOK ExitTellsValidation NeverStuck CleanAggregate
CHECK_DEADLOCK FALSE
