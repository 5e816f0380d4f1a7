\* Both ends of a link cut it, their unlinks and acks crossing a ping and a chat message.
SPECIFICATION Spec
CONSTANTS
  a = a
  b = b
  c = c
  d = d
  Node = {a, b, c}
  NO_ID = NO_ID
  MAX_ROUTING_ENTRIES = 4
  SeqWrap = 1
  RQUERY_COUNT = 5
  QUEUE_LENGTH = 16
  Lossy = FALSE
  Reach <- Triangle
  Quiet = {b, c}
  Script <- Cuts
CHECK_DEADLOCK FALSE
INVARIANTS CutAgreed
