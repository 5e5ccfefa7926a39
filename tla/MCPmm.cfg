CONSTANTS
  PAGE_SIZE <- MCPageSize
  STATIC_BITMAP <- MCStaticBitmap
  RESERVED <- MCReserved
  MemoryMaps <- MCMemoryMaps
SPECIFICATION Spec
INVARIANTS
  TypeOK
  FreeCount
  HeldExclusive
  PagesConserved
PROPERTIES
  ZeroMeansOutOfMemory
  ImplementsPagePool
