SPECIFICATION FairSpec
CONSTANTS
  Specs <- MCSpecs
  FirstSpec <- MCFirstSpec
  FirstMaps <- MCFirstMaps
  UserMaps <- MCUserMaps
  MaxEvents = 3
INVARIANTS
  AppliedMeansWritten
  NothingLeftBehind
PROPERTIES
  ForeignMapUntouched
  DeletionCompletes
  CellConverges
CHECK_DEADLOCK FALSE
