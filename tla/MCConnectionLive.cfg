\* Recovery and closing under fairness.
CONSTANTS
  Symbols = {"A"}
  MaxOps = 0
  MaxFaults = 2
  Heartbeats = TRUE
  HaveCredentials = FALSE
SPECIFICATION LiveSpec
PROPERTIES
  Recovers
  
CHECK_DEADLOCK FALSE
