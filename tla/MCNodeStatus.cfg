SPECIFICATION FairSpec
CONSTANTS
  Self = self
  a = a
  Node <- MCNode
  Task = {t1, t2}
  NULL = NULL
  PINGS = 2
  MaxAir = 1
INVARIANTS
  OnePingTask
  HandleIsLive
  NotForgotten
PROPERTIES
  SuspicionEnds
  HeardComesBack
  SilentIsDead
