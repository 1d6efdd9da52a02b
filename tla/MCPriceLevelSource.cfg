\* Three orders compete for two levels at three prices; sizes beyond 8 are rounded.
CONSTANTS
  NumOrders = 3
  Orders <- MCOrders
  MaxLevels = 2
  Precise = 8
  NoOrder = NoOrder
SPECIFICATION Spec
CONSTRAINT Bounded
INVARIANTS
  FinalLevelsExact
CHECK_DEADLOCK FALSE
