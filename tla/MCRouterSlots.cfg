\* Two slots, three neighbours, ways to two of them heard in any order; the slots implement a set of ways.
SPECIFICATION Spec
CONSTANTS
  self = self
  a = a
  b = b
  c = c
  d = d
  Node = {self, a, b, c}
  NO_ID = NO_ID
  MAX_ROUTING_ENTRIES = 2
  SeqWrap = 1
  Self = self
  Neighbor = {a, b, c}
  RQUERY_COUNT = 5
  MaxSteps = 2
  MaxAnswer = 2
  Garbage = {0}
  MaxSeq = 1
  Origin = {b, c}
  Asker = {}
  Droppable = {}
SYMMETRY Symmetric
INVARIANTS Unique OneStepIsDirect DirectMirror ChosenIsNearest
PROPERTIES DirectSlotKept LearningKeepsRoutes ImplementsStore
