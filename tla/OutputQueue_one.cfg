\* One worker, three entries, five messages.
SPECIFICATION FairSpec
CONSTANTS
  Workers = {w1}
  Out = out
  Threads = {w1, out}
  OQ = oq
  Queues <- MCQueues
  QLen = 3
  MaxMsgs = 5
  NULL = NULL
INVARIANTS
  TypeOK
  QueueIntact
  TokenFindsEntry
  WireFaithful
PROPERTIES
  BackPressureIsReal
  
  ImplementsEntryPool
  ImplementsOutbox
CHECK_DEADLOCK FALSE
