\* Two aliases can be added to the two defaults; then the table is full.
CONSTANTS
  Words <- MCWords
  Lines <- MCLines
  MAX_ALIASES = 4
  MAX_ARGS = 5
  DefaultAliases <- MCDefaultAliases
  Long <- MCLong
  Overlaid <- MCOverlaid
  Printing = {"help"}
  PathOf <- MCPathOf
  atoi <- MCatoi
  Letter <- MCLetter
  MaxInt = 7
  MAX_FILE_DESCRIPTORS = 2
  Word = 8
  Callbacks = {"read", "write", "finddir"}
  Files = {"f", "d"}
  Directories <- MCDirectories
  Child <- MCChild
  Root = "root"
  NULL = "null"
  Sizes = {0, 3}
SPECIFICATION FairSpec
INVARIANTS TypeOK NothingHeldAtPrompt AliasesAsPromised FaultsOnlyOnOverflow
PROPERTY EveryCommandEnds
\* The shell is left, or the machine stopped.
CHECK_DEADLOCK FALSE
