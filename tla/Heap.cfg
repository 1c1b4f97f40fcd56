\* A heap of 32 bytes in 6-bit arithmetic: sizes around each multiple of 4,
\* and two so large that the sum with heap_pos can wrap.
CONSTANTS
  HEAP_SIZE = 32
  Word = 64
  Sizes = {0, 1, 4, 7, 12, 58, 63}
  MaxRequests = 4
SPECIFICATION Spec
INVARIANTS TypeOK BlocksDisjoint
CHECK_DEADLOCK FALSE
