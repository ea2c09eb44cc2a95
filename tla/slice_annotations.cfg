SPECIFICATION FairSpec
CONSTANTS
  Triggers <- MCTriggers
  Readings <- MCTwoReadings
  Margin = 1
  SwitchbackDelay = 1
  ConfirmationSamples = 2
  MinTerrestrialDwell = 2
  Timestamped = FALSE
  MaxStaleness = 2
  Second = 2
  MaxSkew = 0
  TrackSeen = FALSE
  MaxClock = 5
  MaxFailovers = 2
  MaxGeneration = 2
  MaxUid = 1
  DegradedCap = 2
  SettleBy = 3
INVARIANTS
  TypeOK
  DurableDwellClock
  NoSpeculativeDwell
  SwitchbackJustified
  MinDwellHonoured
PROPERTIES
  ImplementsPathPolicy
  SustainedDegradationFailsOver
  SetSatelliteIsLeft
