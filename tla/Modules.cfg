SPECIFICATION BothSpec
CONSTANTS
  ata = ata
  fs = fs
  fs2 = fs2
  tests = tests
  HEAD = HEAD
  NULL = NULL
  Mods <- MCMods
  WithInit <- MCWithInit
  Name <- MCName
  Files <- MCFiles
  WORD = 16
  ALIGNMENT = 2
  MemoryEnd = 4
  MaxLoads = 2
INVARIANTS
  BothTypeOK
  LoadedIsIntact
  Linked
  WalkIsInOrder
PROPERTIES
  FindsTheFirst
  WalkEnds
