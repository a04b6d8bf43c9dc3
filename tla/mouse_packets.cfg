SPECIFICATION Spec
CONSTANTS
  BYTE = 64
  WIDTH = 3
  HEIGHT = 2
  MOUSE_EVENT_QUEUE_SIZE = 3
  Motion <- MCMotion
  Buttons <- MCButtons
  Wheel <- MCWheel
  MaxEarly = 1
INVARIANTS MouseInv Recovers
