SPECIFICATION FairSpec
CONSTANTS
  Cases = 2
  KillFails = FALSE
  Lossy = TRUE
  StoreFaults = FALSE
  HostStops = TRUE
  None = None
INVARIANTS
  TypeOK
  OneContainerAtATime
  ArchivedUnderItsCase
  SummaryAgreesWithDb
PROPERTIES
  BatchEnds
