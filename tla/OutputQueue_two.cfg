\* Two workers share the output.
SPECIFICATION Spec
CONSTANTS
  Workers = {w1, w2}
  Out = out
  Threads = {w1, w2, out}
  OQ = oq
  Queues <- MCQueues
  QLen = 2
  MaxMsgs = 2
  NULL = NULL
INVARIANT
  TokenFindsEntry
CHECK_DEADLOCK FALSE
