SPECIFICATION LifecycleFairSpec
CONSTANTS
  NONE = NONE
  Processes = {p1, p2, p3}
INVARIANT PathIsFree
PROPERTIES SocketKept RemovalStops
