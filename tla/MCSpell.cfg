CONSTANTS
  Args <- MCArgs
  Dirs <- MCDirs
  Entries <- MCEntries
  Hidden <- MCHidden
  Suffixed <- MCSuffixed
  DictChars = {"f", "F", "newline"}
  TextChars = {"f", "F", "1", "(", ".", " ", "newline"}
  BUFFER_SIZE = 2
  MAX_WORD_LEN = 3
  MaxDict = 3
  MaxText = 4
SPECIFICATION Spec
INVARIANTS TypeOK   WalkComplete
