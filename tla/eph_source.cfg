SPECIFICATION Spec
CONSTANTS
  Specs <- MCSpecs
  FirstSpec <- MCFirstSpec
  Sats = {"a", "b"}
  HttpUrls = {"c"}
  OffOrigin = {"x"}
  MinRefresh = 2
  MaxRefresh = 3
  AuthBackoff = 1
  RetryAfters = {3}
  Mirrored = FALSE
  MaxEvents = 3
  MaxClock = 4
  FailureCap = 3
INVARIANTS
  OwnPayload
  BackoffExact
  WindowIsRecent
  OwnFetchIsCurrent
  RestartKeepsData
