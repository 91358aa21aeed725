\* One connection, two messages.
SPECIFICATION FairSpec
CONSTANTS
  c1 = c1
  c2 = c2
  Conns = {c1}
  MaxMsgs <- Two
  Unruly = {}
  Verdicts = {"found"}
PROPERTIES
  EveryMessageServed
CHECK_DEADLOCK FALSE
