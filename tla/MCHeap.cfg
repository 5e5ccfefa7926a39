CONSTANTS
  PAGE_SIZE <- MCPageSize
  HDR <- MCHdr
  MIN_BLOCK_SIZE <- MCMinBlock
  ALIGN <- MCAlign
  WORD <- MCWord
  MAPPED <- MCMapped
  Pools <- MCContiguous
  Requests <- MCMixed
SPECIFICATION FairSpec
CHECK_DEADLOCK FALSE
INVARIANTS
  TypeOK
  UsableMemory
  HeldBlocks
  BytesConserved
  NoFalseAlarm
PROPERTIES
  ImplementsAllocator
  NullMeansNoRoom
  ExpandSuffices
  KmallocReturns
