\* Listeners close their own connection and call nothing else.
CONSTANTS
  Connections = {c1, c2, c3}
  Apps = {a1, a2}
  Nobody = Nobody
  ListenerCalls = {"closeOwn"}
SPECIFICATION LiveSpec
INVARIANTS
  NoDoubleClose
  NoLostClose
PROPERTY
  CloseCompletes
CHECK_DEADLOCK FALSE
