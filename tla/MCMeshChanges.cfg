\* Restart, unlink and link in any order around a newcomer's boot.
SPECIFICATION Spec
CONSTANTS
  a = a
  b = b
  c = c
  d = d
  Node = {a, b, c}
  NO_ID = NO_ID
  MAX_ROUTING_ENTRIES = 4
  SeqWrap = 1
  RQUERY_COUNT = 5
  QUEUE_LENGTH = 16
  Lossy = FALSE
  Reach <- Line3
  Quiet = {b, c}
  Script <- Changes
CHECK_DEADLOCK FALSE
INVARIANTS NoUnderestimate LinkMirror
