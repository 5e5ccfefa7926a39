CONSTANTS
  PAGE_SIZE <- MCPageSize
  HDR <- MCHdr
  MIN_BLOCK_SIZE <- MCMinBlock
  ALIGN <- MCAlign
  WORD <- MCWord
  MAPPED <- MCMapped
  Pools <- MCHole
  Requests <- MCMixed
SPECIFICATION Spec
CHECK_DEADLOCK FALSE
INVARIANTS
  UsableMemory
