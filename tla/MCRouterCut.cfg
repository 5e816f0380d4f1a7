\* A link is cut, then a new destination is learnt through it.
SPECIFICATION Spec
CONSTANTS
  self = self
  a = a
  b = b
  c = c
  d = d
  Node = {self, a, b, c}
  NO_ID = NO_ID
  MAX_ROUTING_ENTRIES = 2
  SeqWrap = 1
  Self = self
  Neighbor = {a, b}
  RQUERY_COUNT = 5
  MaxSteps = 2
  MaxAnswer = 1
  Garbage = {0}
  MaxSeq = 1
  Origin = {c}
  Asker = {}
  Droppable = {}
INVARIANTS CutLinkNotUsed
