\* Two keys are enough for the first of them to be returned twice.
CONSTANTS
  BufSize = 4
  scancode_to_ascii <- KeyTable
  Scancodes = {30, 48}
  MaxScancodes = 2
SPECIFICATION Spec
INVARIANT ReturnedAsTyped
CHECK_DEADLOCK FALSE
