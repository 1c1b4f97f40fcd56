\* A root node with every callback, and below it a directory with one file.
CONSTANTS
  MAX_FILE_DESCRIPTORS = 2
  Word = 8
  Callbacks = {"read", "write", "finddir"}
  Files = {"d", "f"}
  Root = "root"
  NULL = "null"
  Directories = {"root", "d"}
  Child <- MCChild
  Paths <- MCPaths
  Flags <- MCFlags
  Sizes = {0, 3}
  Offsets <- MCOffsets
SPECIFICATION Spec
INVARIANTS TypeOK HeldIsUsed
PROPERTIES DescriptorsIndependent FailureChangesNothing
