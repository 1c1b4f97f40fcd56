\* One key, typed between the test of key_buffer_pos and the hlt.
CONSTANTS
  BufSize = 4
  scancode_to_ascii <- KeyTable
  Scancodes = {30, 158}
  MaxScancodes = 1
SPECIFICATION Spec
INVARIANT NeverSleepsOnInput
CHECK_DEADLOCK FALSE
