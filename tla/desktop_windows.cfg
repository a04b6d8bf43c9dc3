SPECIFICATION FairSpec
CHECK_DEADLOCK FALSE
CONSTANTS
  WM_MAX_WINDOWS = 3
  Spots <- MCSpots
  Scrolls <- MCScrolls
  MaxZ = 5
INVARIANTS StackInOrder FramesInStep
PROPERTIES ResizeKeepsWindow MoveHoldsTitle ScreenCatchesUp
