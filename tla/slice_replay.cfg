SPECIFICATION Spec
CONSTANTS
  Triggers <- MCTriggers
  Readings <- MCReadings
  Margin = 1
  SwitchbackDelay = 1
  ConfirmationSamples = 2
  MinTerrestrialDwell = 3
  Timestamped = TRUE
  MaxStaleness = 2
  Second = 2
  MaxSkew = 0
  TrackSeen = FALSE
  MaxClock = 6
  MaxFailovers = 2
  MaxGeneration = 1
  MaxUid = 1
  DegradedCap = 2
  SettleBy = 0
INVARIANTS
  SwitchbackJustified
