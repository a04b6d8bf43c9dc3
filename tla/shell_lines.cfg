SPECIFICATION ShSpec
CHECK_DEADLOCK FALSE
CONSTANTS
  Lexeme <- MCLexeme
  Input <- MCInput
  Chain <- MCChain
  Number <- MCNumber
  ENV_MAX = 3
  MAX_TOKENS = 12
  SCRIPT_BUF_SIZE = 19
  SCRIPT_MAX_LINES = 6
  VALUES_MAX = 2
  PIPE_MAX = 2
  CONTENT_MAX = 1
INVARIANTS ShellInv
PROPERTIES AndOrRight OneBranch
