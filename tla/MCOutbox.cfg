SPECIFICATION FairSpec
CONSTANTS
  Main = app_main
  httpd = httpd
  Baud = baud
  Addr = address
  Greeting = gbcast
  post = post
  Caller <- MCCaller
  Msg <- MCMsg
  By <- MCBy
  After <- MCAfter
  Answers <- MCAnswers
  Command = {baud, address}
  Prompt = {baud, address, gbcast}
  Quick = {baud, address}
  NULL = NULL
  Garbage = Garbage
  QUEUE_LENGTH = 2
  RESP_LENGTH = 1
  MaxSends = 1
  MaxStray = 1
INVARIANTS
  QueuedIsPending
  NoForeignLine
  GreetsWithAddress
PROPERTIES
  OwnStatus
  Settles
CHECK_DEADLOCK FALSE
