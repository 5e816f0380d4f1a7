SPECIFICATION BothSpec
CONSTANTS
  Char = {"a", "0", " ", "+", ",", "QUOTE", "NL", "AT", "SYS"}
  Texts <- MCTexts
  NULL = NULL
  MESSAGE = 15
  PAYLOAD = 16
  COMMAND = 17
  LINE = 17
  NAME = 5
  MODULUS = 32
  HEADER = 4
  MAX_SIZE = 32
  Lengths <- MCLengths
  Tails <- MCTails
  NUL = 0
  NEW_L = 10
  CAR_RET = 13
  ESCAPE = 20
  EMIT_N = 21
  EMIT_R = 22
  EMIT_E = 23
  EMIT_NULL = 24
  NONE = NONE
INVARIANTS
  TypeOK
  WholeOrNothing
  ShortArrives
  NameOrNothing
  RoundTrip
CHECK_DEADLOCK FALSE
