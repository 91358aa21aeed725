\* The free list of a queue with data.
SPECIFICATION Spec
CONSTANTS
  MaxQLen = 6
  MaxData = 6
  Garbage <- MCGarbage
INVARIANT
  FreeListComplete
CHECK_DEADLOCK FALSE
