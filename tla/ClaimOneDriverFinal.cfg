\* Three drivers of run_final_experiment.py, started one after the other, and signals.
CONSTANTS
  Drivers = {d1, d2, d3}
  SubBatches <- MCSubBatches
  Models <- MCModels
  ModelOf <- MCModelOf
  Weight <- MCWeight
  SortedModels <- MCSortedModels
  FreeLevels <- MCFreeLevels
  ForceRun = FALSE
  Overlap = FALSE
  Kills = FALSE
  MaxStarts = 3
  None = None
SPECIFICATION FinalSpec
INVARIANTS OneDriver
CHECK_DEADLOCK FALSE
