\* A buffer of five bytes, so that the longest line is cut; an int of 5 bits.
CONSTANTS
  Size = 5
  Texts <- MCTexts
  Delim = {32, 9}
  Word = 32
  NULL = NULL
SPECIFICATION StrSpec
INVARIANTS StrTypeOK TokensAreWords NumbersReadBack
PROPERTIES MovesSnapshot
