SPECIFICATION FairStationSpec
CONSTANTS
  Specs <- MCSpecs
  Versions = {"v1", "v2"}
  Offered = {"v2"}
  Timeout = 1
  Day = 3
  RemovedWhileUpdating = FALSE
  MaxTime = 4
  MaxGeneration = 2
  SettleBy = 2
INVARIANTS
  StartedIsThisUpdate
  UpdateBounded
  UpdateBeginsInWindow
PROPERTIES
  ConvergesToRunning
