\* Two input threads and three queues, fair scheduling; qidx may be wild.
SPECIFICATION FairSpec
CONSTANTS
  i1 = i1
  i2 = i2
  Inputs = {i1, i2}
  Worker = w
  Threads = {i1, i2, w}
  Queues <- MCQueues
  NumQs = 3
  QLen = 1
  Routes <- OwnQueues
  QidxValues <- OneOrWild
  OutOfRange = OutOfRange
  NULL = NULL
INVARIANTS
  TypeOK
  ListIntegrity
  EntriesAccounted
  TokensMatchEntries
  SignalledEntryExists
PROPERTIES
  ImplementsEntryPool
  NoQueueStarves
  DrainsWhenSilent
CHECK_DEADLOCK FALSE
