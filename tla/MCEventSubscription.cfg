\* Two subscriptions and the wildcard; listeners change the symbols and close.
CONSTANTS
  Threads = {t1}
  Reader = reader
  Subs = {s1, s2}
  NoSub = NoSub
  Names = {"A", "*"}
  Wildcard = "*"
  Listeners = {l1}
  EventTypes = {"t", "u"}
  CallbackOps = {"add", "remove", "clear", "close"}
  MaxOps = 6
  MaxEvents = 2
SPECIFICATION Spec
SYMMETRY Symmetry
INVARIANTS
  RegistryInv
  NoUseAfterFree
  DeliveredOnce
  ServerOnlyWanted
CHECK_DEADLOCK FALSE
