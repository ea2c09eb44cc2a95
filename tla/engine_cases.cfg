SPECIFICATION CaseSpec
CONSTANTS
  TriggerPool <- MCTriggerPool
  RsrpValues <- MCRsrp
  LatencyValues = {0, 1, 2}
  Margins = {0, 1}
  Times = {0, 1, 2}
INVARIANTS
  PlaceholderNeverMatters
  HysteresisOnlyDelays
