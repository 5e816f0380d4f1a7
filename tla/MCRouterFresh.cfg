\* Up to seven updates of four destinations: what an answer of two pairs tells a neighbour that asks again.
\* discovery_seq starts from what the heap held.
SPECIFICATION Spec
CONSTANTS
  self = self
  a = a
  b = b
  c = c
  d = d
  Node = {self, a, b, c, d}
  NO_ID = NO_ID
  MAX_ROUTING_ENTRIES = 2
  SeqWrap = 16
  Self = self
  Neighbor = {a, b}
  RQUERY_COUNT = 2
  MaxSteps = 2
  MaxAnswer = 1
  Garbage = {2}
  MaxSeq = 9
  Origin = {c, d}
  Asker = {a}
  Droppable = {a}
SYMMETRY SymmetricFar
INVARIANTS FreshOffered AnswerComplete
