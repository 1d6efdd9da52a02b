\* From the end of dx_bind_to_address: the handshake of a new connection.
CONSTANTS
  Symbols = {"A"}
  MaxOps = 1
  MaxFaults = 1
  Heartbeats = FALSE
  HaveCredentials = TRUE
SPECIFICATION Spec
INVARIANTS
  TypeOK
  NoLostSubscription
CHECK_DEADLOCK FALSE
