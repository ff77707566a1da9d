SPECIFICATION Spec
CHECK_DEADLOCK FALSE
CONSTANTS
  Data = {d1}
  Zero = zero
  Noise = noise
  Arrays <- SomeArrays
  MaxArrays = 2
  Objects = {5}
  MaxPools = 1
  HeapSize = 140
  MaxMemory = 110
  MAX_ALLOC_CHUNK = 24
  HEADER = 4
  ALIGN = 2
  MIN_SLOP = 5
  first_pool_slop <- FirstSlops
  extra_pool_slop <- ExtraSlops
  CONTROL = 7
  POINTER = 2
  MANAGER = 10
INVARIANTS
  SpaceBalances
  FilesHaveOwners
  NoNoiseInStrips
PROPERTIES
  ArraysAreWhole
  BuffersWithinLimit
