CONSTANTS
  MaxSize = 40
  ResizeMayFail = FALSE
SPECIFICATION ArraySpec
INVARIANT ArrayInv
CHECK_DEADLOCK FALSE
