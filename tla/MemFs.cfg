\* A heap for two nodes and a few blocks; one offset that wraps around.
CONSTANTS
  HEAP_SIZE = 16
  Word = 24
  children <- MCchildren
  NodeSize = 4
  Image = 4
  Base = 4
  Byte = {0, 1, 2}
  Buffers <- MCBuffers
  Offsets <- MCOffsets
  Sizes = {4, 22}
  NULL = NULL
SPECIFICATION Spec
INVARIANTS TypeOK LengthNeverAhead
PROPERTIES FilesAreStored OthersUntouched
CONSTRAINT Undamaged
\* A write that reaches the kernel may stop it.
CHECK_DEADLOCK FALSE
