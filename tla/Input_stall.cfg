\* Two connections of one message.
SPECIFICATION FairSpec
CONSTANTS
  c1 = c1
  c2 = c2
  Conns = {c1, c2}
  MaxMsgs <- OneEach
  Unruly = {}
  Verdicts = {"found"}
PROPERTIES
  OthersNotBlocked
CHECK_DEADLOCK FALSE
