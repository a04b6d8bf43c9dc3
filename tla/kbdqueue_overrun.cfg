SPECIFICATION Spec
CONSTANTS
  a = a
  b = b
  nul = nul
  SIZE = 4
  Char <- MCChar
  NUL = nul
  Key <- MCKey
  MayOverrun = TRUE
PROPERTIES NoneMeansEmpty
