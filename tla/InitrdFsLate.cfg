SPECIFICATION Spec
CONSTANTS
  BLOCK_STORAGE = BLOCK_STORAGE
  FILE_SYSTEM = FILE_SYSTEM
  too_long = too_long
  too_lon = too_lon
  ata_storage = ata_storage
  ata_improved = ata_improved
  ata_simple = ata_simple
  initrd_fs = initrd_fs
  other = other
  device = device
  NULL = NULL
  Names <- MCNames
  Interfaces <- MCInterfaces
  Stored <- MCStored
  Offers <- MCOffers
  MaxEntries = 1
  Lbas = {2}
  Counts = {1}
  BLOCKS = 3
  LBA28 = 4
  COUNT8 = 2
  TIMEOUT = 2
  BYTES = 4
  Sizes = {3}
  Offsets = {0}
  LIST_LENGTH = 3
INVARIANT BootSectorIsSkipped
