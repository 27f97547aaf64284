SPECIFICATION FairSpec
CONSTANTS
  EventId = {"a", "b", "c"}
  MaxSize = 2
  Feed <- MCFeed
  Blank = "blank"
  Malformed = "malformed"
  InitialBackoff = 1
  MaxBackoff = 3
  MaxEvents = 4
  MaxReplay = 3
  MaxRuns = 2
  MaxDrops = 3
CHECK_DEADLOCK FALSE
INVARIANTS
  TypeOK
  CacheIsWindow
  NoRepeatWithinWindow
  SeenIsPublished
  LossPerDeath
  PublishedIsRetained
  BackoffIsExponential
PROPERTIES
  Reconnects
