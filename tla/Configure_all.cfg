\* Up to two inputs and two other options, with every queue of up to six entries of
\* up to six words.
SPECIFICATION ConfigSpec
CONSTANTS
  MaxQLen = 6
  MaxData = 6
  Garbage <- MCGarbage
  IdMax = 3
  UIntSize = 16
  MsgHdr = 1
  Bad = Bad
  Colon = Colon
  Comma = Comma
  None = None
  InputOptions <- MCInputOptions
  OutputOptions <- MCOutputOptions
  WorkerOptions <- MCWorkerOptions
  MaxInputs = 2
  MaxObjects = 2
INVARIANTS
  ConfigTypeOK
  IdsAreUnique
  OutputsResolved
  QueuesInPlace
  QSpecReadAsWritten
  OutputEntriesHoldMessages
  ZeroedListIsPrefix
  CompleteWhenStridesAgree
PROPERTY
  WritesInsideBlock
CHECK_DEADLOCK FALSE
