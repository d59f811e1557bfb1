SPECIFICATION Spec
CONSTANTS
  Files = {1, 2}
  Folder <- MCFolder
  Lines = {0, 3}
  Asked = Asked
  None = None
INVARIANTS
  NewFilesAreKnown
CHECK_DEADLOCK FALSE
