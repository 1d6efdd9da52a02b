\* Orders, two incremental listeners and a full one.
CONSTANTS
  Zero = Zero
  None = None
  Keys = {k1, k2}
  Values = {v, w}
  Kind = "order"
  Listeners = {i1, i2, f}
  Incremental = {i1, i2}
SPECIFICATION Spec
SYMMETRY Symmetry
INVARIANTS
  ReplicaInv
  WholeTransactions
  ReplicaExact
  NoUseAfterFree
CHECK_DEADLOCK FALSE
