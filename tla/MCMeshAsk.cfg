\* A newcomer in a line of four nodes, then two of them ask their neighbours.
SPECIFICATION FairSpec
CONSTANTS
  a = a
  b = b
  c = c
  d = d
  Node = {a, b, c, d}
  NO_ID = NO_ID
  MAX_ROUTING_ENTRIES = 4
  SeqWrap = 1
  RQUERY_COUNT = 5
  QUEUE_LENGTH = 16
  Lossy = FALSE
  Reach <- Line4
  Quiet = {b, c, d}
  Script <- BootThenAsk
CHECK_DEADLOCK FALSE
INVARIANTS NextHopKnows LoopFree
PROPERTIES NewcomerLearns
