SPECIFICATION Spec
CONSTANTS
  MaxFailovers = 2
  MaxGeneration = 2
  MaxCutOff = 1
INVARIANTS
  AnnouncedOnceUnlessCutOff
  CounterInStep
  ConditionsAgree
