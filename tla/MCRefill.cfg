\* A wait of a second and more, which subsec_nanos folds.
SPECIFICATION LimiterSpec
CONSTANTS
  NONE = NONE
  Addrs = {a1}
  PACKET_COST = 2
  PACKETS_BURSTABLE = 2
  SECOND = 6
  GC_INTERVAL = 6
  MaxTime = 16
PROPERTY RefillAllows
