\* Two inputs, a worker with an output, one message and one signal.
SPECIFICATION ShutdownFairSpec
CONSTANTS
  i1 = i1
  i2 = i2
  w1 = w1
  o1 = o1
  None = None
  Wild = Wild
  Handler = Handler
  Main = i1
  Inputs = {i1, i2}
  Workers = {w1}
  Outputs = {o1}
  OutputOf <- Chain
  Order <- InOrder
  MaxMsgs = 1
  MaxSignals = 1
INVARIANTS
  ShutdownTypeOK
  CleanupTwiceIsSafe
  SemaphoresReleased
PROPERTIES
  SignalEndsProcess
  ComesUpAsStartup
CHECK_DEADLOCK FALSE
