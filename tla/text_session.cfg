SPECIFICATION FairSpec
CHECK_DEADLOCK FALSE
CONSTANTS
  a = a
  p = p
  o = o
  FB_WIDTH = 3
  FB_HEIGHT = 3
  Glyph <- MCGlyph
  BLANK = " "
  NEWLINE = "nl"
  BUF_SIZE = 4
  HISTORY_SIZE = 2
  Char <- MCChar
  Prompt <- MCPrompt
  Reply <- MCReply
  PlayLine <- MCPlayLine
  Banner <- MCBanner
  MENU_TICKS = 2
  GAME_WIDTH = 6
  GAME_HEIGHT = 5
  MAX_SNAKE_LENGTH = 5
  MaxScore = 30
INVARIANTS LineInv SnakeInv
PROPERTIES HistoryWasShown MenuEnds
