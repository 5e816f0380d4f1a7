\* A chat message to a node two hops away.
SPECIFICATION FairSpec
CONSTANTS
  a = a
  b = b
  c = c
  d = d
  Node = {a, b, c}
  NO_ID = NO_ID
  MAX_ROUTING_ENTRIES = 4
  SeqWrap = 1
  RQUERY_COUNT = 5
  QUEUE_LENGTH = 16
  Lossy = FALSE
  Reach <- Line3
  Quiet = {b, c}
  Script <- ChatAC
CHECK_DEADLOCK FALSE
PROPERTIES RelayPasses
