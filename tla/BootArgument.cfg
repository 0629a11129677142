SPECIFICATION Spec
CONSTANTS
  Lines = {0}
  Masks = {255}
  FIFO = 7
  WORD = 4096
  KILO = 32
  PAGE = 64
  HEAP_SIZE = 256
  ASSUMED = 1024
  HDR = 16
  ALIGNMENT = 8
  KernelEnds = {64}
  Lower = {5}
  Upper = {10}
INVARIANT ToldTheInformation
