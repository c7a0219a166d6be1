SPECIFICATION Spec
CONSTANTS
  NONE = NONE
  Ports = {0, 1}
  Marks = {0, 1}
  MaxUpdates = 3
  MaxMessages = 4
  MaxFailures = 1
INVARIANTS SocketMatchesConfig PortIsSockets
CHECK_DEADLOCK FALSE
