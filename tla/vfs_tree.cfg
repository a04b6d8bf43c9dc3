SPECIFICATION Spec
CONSTANTS
  MAX_NODES = 6
  CONTENT_MAX = 1
  EDIT_MAX = 2
  DEPTH_MAX = 2
  Name <- MCName
  RmAnywhere = FALSE
VIEW ButEdits
INVARIANTS TreeOK PlacesOK
PROPERTIES IsFileTree EditsListed
