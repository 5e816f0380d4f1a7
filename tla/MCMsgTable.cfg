SPECIFICATION FairSpec
CONSTANTS
  Httpd = httpd
  Handler = handler
  sender = sender
  NULL = NULL
  Task <- MCTask
  Id <- MCId
  Mix <- MCMix
  Quota <- MCQuota
  TABLE_SIZE = 1
  MaxTime = 1
  MaxLost = 1
INVARIANTS
  NoneLost
  TwinsRace
  NothingSkipped
PROPERTIES
  Complete
  AllShown
CHECK_DEADLOCK FALSE
