CONSTANTS
  VGA_COLS = 2
  VGA_ROWS = 4
  Glyphs <- MCGlyphs
  TitleRow <- MCTitle
  MAX_LOG = 5
SPECIFICATION Spec
INVARIANTS
  CursorOnScreen
  TitleKept
  ShowsTail
