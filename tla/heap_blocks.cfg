SPECIFICATION Spec
CONSTANTS
  HEADER = 2
  KHEAP_BLOCK_MIN = 1
  PMM_FRAME_SIZE = 8
  INITIAL = 8
  KHEAP_END = 24
  TotalFrames = 6
  KernelFrames <- MCKernelFrames
  Request <- MCRequest
INVARIANTS HeapInv
PROPERTIES ImplementsAllocator
\* A heap that has gone astray takes no more calls, and every frame may be gone by then.
CHECK_DEADLOCK FALSE
