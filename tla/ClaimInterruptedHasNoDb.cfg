SPECIFICATION Spec
CONSTANTS
  Cases = 2
  KillFails = FALSE
  Lossy = FALSE
  StoreFaults = FALSE
  HostStops = TRUE
  None = None
INVARIANTS
  InterruptedHasNoDb
