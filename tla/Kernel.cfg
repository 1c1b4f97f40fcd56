\* The real heap. No request comes near to wrapping 30 bits, so none wraps 32.
CONSTANTS
  HEAP_SIZE = 65536
  Word = 1073741824
  SizeOf <- MCSizeOf
  MaxEvents = 3
SPECIFICATION Spec
INVARIANTS TypeOK BootWritesOwnMemory UngatedOnlyBeforeLidt
CHECK_DEADLOCK FALSE
