SPECIFICATION FairSpec
CONSTANTS
  Stations = {1}
  Sats = {1, 2}
  FirstPlace = "here"
  Places = {"here", "there"}
  Sky <- MCSky
  Label <- MCLabel
  Configs <- MCConfigs
  FirstConfig <- MCFirstConfig
  Acquisitions <- MCAcquisitions
  Second = 2
  DefaultHorizon = 6
  MaxHorizon = 8
  MaxPassWindows = 2
  MaxEpochAge = 3
  SweepInterval = 3
  MaxEvents = 2
  MaxClock = 6
INVARIANTS
  ResolvedWindowsReflectInputs
  ContactHoldsUntilItsEnd
  FirstPassIsSeen
PROPERTIES
  NoWriteVouchesForOldInputs
  PredictionsCatchUp
CHECK_DEADLOCK FALSE
