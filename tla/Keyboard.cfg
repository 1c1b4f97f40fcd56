\* Two keys with a character (a, b), one without (left shift), one break code.
CONSTANTS
  BufSize = 4
  scancode_to_ascii <- KeyTable
  Scancodes = {30, 48, 42, 158}
  MaxScancodes = 5
SPECIFICATION FairSpec
INVARIANTS TypeOK FifoUnlessRaced LossBounded OnlyTypedCharacters
PROPERTIES GetcharCompletes GetcharAdvances
CHECK_DEADLOCK FALSE
