SPECIFICATION Spec
CONSTANTS
  Triggers <- MCTriggers
  Readings <- MCTwoReadings
  Margin = 1
  SwitchbackDelay = 1
  ConfirmationSamples = 2
  MinTerrestrialDwell = 2
  Timestamped = TRUE
  MaxStaleness = 2
  Second = 1
  MaxSkew = 1
  TrackSeen = FALSE
  MaxClock = 3
  MaxFailovers = 2
  MaxGeneration = 1
  MaxUid = 2
  DegradedCap = 2
  SettleBy = 0
INVARIANTS
  NeverFutureDwell
  FailoverConfirmed
