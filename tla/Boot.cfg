SPECIFICATION Spec
CONSTANTS
  Lines = {0, 5, 6, 8}
  Masks = {0, 184}
  FIFO = 10
  WORD = 4096
  KILO = 32
  PAGE = 64
  HEAP_SIZE = 256
  ASSUMED = 1024
  HDR = 16
  ALIGNMENT = 8
  KernelEnds = {64, 333}
  Lower = {0, 5}
  Upper = {0, 2, 3, 6, 7, 9, 10, 11, 15, 19, 122, 123, 127, 128, 4095}
INVARIANTS
  ControllersAreSetUp
  NothingIsLost
  HeapIsSound
PROPERTIES
  InterruptsOnTheWay
  BootEnds
