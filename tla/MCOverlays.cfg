SPECIFICATION FairSpec
CONSTANTS
  Hash = {h1, h2}
  Action <- MCAction
  MaxEarly = 1
  MaxMine = 2
  MaxForeign = 1
  MaxLost = 1
  MaxResets = 1
PROPERTIES OverlaysFollowTheirOwn OverlaysSettle
CHECK_DEADLOCK FALSE
