CONSTANTS
  Words = 9
  SizeMod = 256
  Sizes = {0, 1, 16, 32}
  UserData <- EvenData
  Misuse = TRUE
  NUM_RUNS = 2
  ALLOC_COUNT = 4
  NODES = 3
  MAX_OPS = 4
  FIRST = 4
  LEAST = 4
  MOST = 8
  OBJECTS = 3
SPECIFICATION ProgramSpec
INVARIANTS TypeOK Tiled FitsTightly NoTwoFree FailsOnlyWhenFull  LeaksCounted TasksComplete DataIntact
PROPERTIES PayloadKept ImplementsAllocator
