\* API calls race with faults.
CONSTANTS
  Symbols = {"A"}
  MaxOps = 2
  MaxFaults = 2
  Heartbeats = FALSE
  HaveCredentials = FALSE
SPECIFICATION SpecEstablished
INVARIANTS
  NoLostSubscription
  NoDescriptorLeak
  CountdownNeverSurprised
  DescribedFirst
  NoGuardCycle
CHECK_DEADLOCK FALSE
