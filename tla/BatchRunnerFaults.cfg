SPECIFICATION Spec
CONSTANTS
  Cases = 2
  KillFails = TRUE
  Lossy = FALSE
  StoreFaults = TRUE
  HostStops = FALSE
  None = None
INVARIANTS
  VerdictIsItsOwn
  RecordIsGenuine
PROPERTIES
  ArchivesAreFinal
  ImplementsBatchContract
