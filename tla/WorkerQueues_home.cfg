\* Where the entries of a worker with two queues end up.
SPECIFICATION Spec
CONSTANTS
  i1 = i1
  i2 = i2
  Inputs = {i1}
  Worker = w
  Threads = {i1, w}
  Queues <- MCQueues
  NumQs = 2
  QLen = 1
  Routes <- OneInput
  QidxValues <- InRange
  OutOfRange = OutOfRange
  NULL = NULL
INVARIANT
  EntriesComeHome
CHECK_DEADLOCK FALSE
