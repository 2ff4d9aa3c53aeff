SPECIFICATION Spec
CONSTANTS
  BCACHE_BLOCK_COUNT = 3
  Lba = {0, 1, 2, 3}
  Data = {0, 1}
  MaxFaults = 2
INVARIANTS CachedOnce CleanMatchesDisk
PROPERTIES ImplementsStore
