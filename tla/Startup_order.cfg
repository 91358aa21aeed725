\* Two workers, one with an output, and two inputs.
SPECIFICATION FairSpec
CONSTANTS
  w1 = w1
  w2 = w2
  o1 = o1
  None = None
  Wild = Wild
  Inputs = {i1, i2}
  Workers = {w1, w2}
  Outputs = {o1}
  OutputOf <- Chain
  MaxMsgs = 2
INVARIANTS
  TypeOK
  LateSendersAreSafe
PROPERTY
  AllThreadsUp
CHECK_DEADLOCK FALSE
