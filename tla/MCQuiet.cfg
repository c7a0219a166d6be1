SPECIFICATION Spec
CONSTANTS
  NONE = NONE
  KEEPALIVE_TIMEOUT = 2
  TIMER_SLACK = 0
  Tasks = {1}
  MaxInFlight = 2
PROPERTY LineGoesQuiet
