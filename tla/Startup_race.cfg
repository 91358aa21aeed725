\* One worker and one input.
SPECIFICATION FairSpec
CONSTANTS
  w1 = w1
  w2 = w2
  o1 = o1
  None = None
  Wild = Wild
  Inputs = {i1}
  Workers = {w1}
  Outputs = {}
  OutputOf <- Plain
  MaxMsgs = 1
PROPERTY
  EveryMessageProcessed
CHECK_DEADLOCK FALSE
