SPECIFICATION FairSpec
CONSTANTS
  NONE = NONE
  KEEPALIVE_TIMEOUT = 1
  Intervals = {1}
  TIMER_SLACK = 0
  Tasks = {1, 2, 3}
PROPERTY IntervalKept
