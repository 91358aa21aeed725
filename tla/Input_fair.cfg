\* Two messages on one connection, whose peer may be unruly, one on another,
\* and every verdict.
SPECIFICATION FairSpec
CONSTANTS
  c1 = c1
  c2 = c2
  Conns = {c1, c2}
  MaxMsgs <- TwoAndOne
  Unruly = {c1}
  Verdicts = {"found", "drained", "badqidx"}
INVARIANTS
  TypeOK
  FramingInSync
  OneMessageAtATime
  NoUseAfterFree
  OnlyBrokenOffLoseEntries
PROPERTIES
  HangupsHandled
  FirstMessageServed
CHECK_DEADLOCK FALSE
