CONSTANTS
  VGA_COLS = 6
  VGA_ROWS = 3
  Glyphs <- MCGlyphs
  TitleRow <- MCTitle
  MAX_LINE = 6
  MAX_HISTORY = 2
  PREFIX_MAX = 5
  PROMPT <- MCPrompt
  CommandNames <- MCCommands
  Upper <- MCUpper
  Typed <- MCTyped
  Outputs <- MCOutputs
  MAX_KEYS = 9
SPECIFICATION Spec
CHECK_DEADLOCK FALSE
INVARIANTS
  TypeOK
  ScreenShowsLine
  HistoryIsRecent
  BrowsingEntry
