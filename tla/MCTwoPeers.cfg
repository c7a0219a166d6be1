CONSTANTS
  NONE = NONE
  Peers = {p1, p2}
  Indices = {i1, i2, i3, i4}
  TheirIndices = {r1}
  Endpoints = {e1}
  REKEY_TIMEOUT = 1
  REKEY_AFTER_TIME = 0
  REKEY_AFTER_TIME_RECV = 1
  REJECT_AFTER_TIME = 2
  STALE_SESSION_TIMEOUT = 0
  WIPE_AFTER_TIME = 2
  FOREVER = 100
  REKEY_AFTER_MESSAGES = 1
  REJECT_AFTER_MESSAGES = 1
  MAX_QUEUED_PACKETS = 1
  MAX_HANDSHAKE_ATTEMPTS = 0
  TIMER_SLACK = 0
  MaxTime = 0
  MaxTai64n = 2
SPECIFICATION UpSpec
SYMMETRY IndexSymmetry
INVARIANTS SessionsMapped SlotsDistinct
CHECK_DEADLOCK FALSE
