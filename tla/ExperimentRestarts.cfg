\* Two pids, drivers killed, interrupted and started again, one after the other.
CONSTANTS
  Drivers = {d1, d2}
  SubBatches <- MCSubBatches
  Models <- MCModels
  ModelOf <- MCModelOf
  Weight <- MCWeight
  SortedModels <- MCSortedModels
  FreeLevels <- MCFreeLevels
  ForceRun = FALSE
  Overlap = FALSE
  Kills = TRUE
  MaxStarts = 3
  None = None
SPECIFICATION FairSpec
INVARIANTS TypeOK OneDriverIfStartedApart EachSubBatchOnce
PROPERTIES NotRunAgain DriverEnds
CHECK_DEADLOCK FALSE
