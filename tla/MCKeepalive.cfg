SPECIFICATION FairSpec
CONSTANTS
  NONE = NONE
  KEEPALIVE_TIMEOUT = 2
  Intervals = {1, 2}
  TIMER_SLACK = 0
  Tasks = {1, 2, 3}
INVARIANTS OnePassiveChain PersistentChainAlive
PROPERTIES KeptAlive PassiveAnswered
