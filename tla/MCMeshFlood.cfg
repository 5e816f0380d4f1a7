\* A newcomer floods a triangle and then asks, over radios that lose frames.
SPECIFICATION Spec
CONSTANTS
  a = a
  b = b
  c = c
  d = d
  Node = {a, b, c}
  NO_ID = NO_ID
  MAX_ROUTING_ENTRIES = 2
  SeqWrap = 1
  RQUERY_COUNT = 5
  QUEUE_LENGTH = 16
  Lossy = TRUE
  Reach <- Triangle
  Quiet = {b, c}
  Script <- BootAsksA
CHECK_DEADLOCK FALSE
INVARIANTS FloodOnce NoPanic AcksRetrace
