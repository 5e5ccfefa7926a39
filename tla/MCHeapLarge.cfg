CONSTANTS
  PAGE_SIZE <- MCPageSize
  HDR <- MCHdr
  MIN_BLOCK_SIZE <- MCMinBlock
  ALIGN <- MCAlign
  WORD <- MCWord
  MAPPED <- MCMapped
  Pools <- MCContiguous
  Requests <- MCLarge
SPECIFICATION Spec
CHECK_DEADLOCK FALSE
PROPERTIES
  RetryFinds
