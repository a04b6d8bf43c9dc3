SPECIFICATION Spec
CONSTANTS
  MAX_NODES = 5
  CONTENT_MAX = 0
  EDIT_MAX = 1
  DEPTH_MAX = 4
  Name <- MCName
  RmAnywhere = TRUE
PROPERTIES RmKeepsCwd
