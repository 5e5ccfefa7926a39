CONSTANTS
  ENTRIES = 4
  HUGE = 2
  Pools <- MCPools
  Pages <- MCPages
  Frames <- MCFrames
  FlagSets <- MCFlagSets
SPECIFICATION Spec
CHECK_DEADLOCK FALSE
INVARIANTS
  TranslationExact
  TablesFormTree
