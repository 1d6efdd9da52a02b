\* Two connections, chunks of up to nine bytes: a login request and a description fit in one.
CONSTANTS
  Servers <- MCServers
  Records <- MCRecords
  Ids = {1, 2}
  Capacity = 3
  Chunk = 9
  IntMax = 2147483647
  None = None
SPECIFICATION Spec
INVARIANTS
  TypeOK
  Framed
  DeliveredExactly
  BufferBounded
PROPERTIES
  LoopEnds
  
CHECK_DEADLOCK FALSE
