CONSTANTS
  Hosts = {alpha, beta}
  Clicks = {k1, k2}
  Retries = {r1, r2}
  MaxTries = 2
  MaxMade = 3
  MaxGen = 3
  None = None
  Disconnects = TRUE
  Disposes = TRUE
  EarlyDrops = FALSE
  Breaks = TRUE
  AskpassFails = TRUE
SPECIFICATION FairSpec
CHECK_DEADLOCK FALSE
INVARIANTS OneAttempt ChildAccounted  OneRetryCycle
PROPERTIES ImplementsSharing CloseIsPrivate EveryCallSettles
