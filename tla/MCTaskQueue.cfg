CONSTANTS
  Threads = {t1, t2}
  NoThread = none
  MaxTasks = 4
  AllocMayFail = FALSE
SPECIFICATION Spec
INVARIANTS QueueInv TaskAccounting FirstRunsInOrder
PROPERTY ServiceSpec
CHECK_DEADLOCK FALSE
