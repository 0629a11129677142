SPECIFICATION LoopSpec
CONSTANTS
  HeapStart = 64
  HeapEnd = 256
  WORD = 1024
  Requests = {0, 5, 16, 33, 64}
  MaxAllocs = 6
INVARIANTS
  TypeOK
  Tiled
  AtMostOneFreePair
  OwnersHaveTheirBytes
  StatsAddUp
PROPERTIES
  KeepsHeap
  KeepsPromise
