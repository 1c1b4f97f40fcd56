\* A heap for up to three tasks with stacks, or more without.
CONSTANTS
  HEAP_SIZE = 64
  Word = 128
  TaskSize = 8
  StackSize = 12
  Others = {5, 24}
  NULL = NULL
SPECIFICATION Spec
INVARIANTS TypeOK OneRing TasksOwnMemory StacksRunOut
\* The machine is halted, or lost in a switch.
CHECK_DEADLOCK FALSE
