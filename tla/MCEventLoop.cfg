SPECIFICATION LoopFairSpec
CONSTANTS
  MaxWaiting = 1
  MaxPackets = 4
INVARIANT NoPacketForgotten
PROPERTY BacklogHandled
CHECK_DEADLOCK FALSE
