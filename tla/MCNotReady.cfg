SPECIFICATION LoopSpec
CONSTANTS
  MaxWaiting = 1
  MaxPackets = 4
INVARIANT NotReadyIsSafe
CHECK_DEADLOCK FALSE
