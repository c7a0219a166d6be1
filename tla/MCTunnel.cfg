CONSTANTS
  NONE = NONE
  Peers = {"a", "b"}
  Endpoints = {"a", "b"}
  Indices = {i1, i2, i3, i4, i5, i6, i7, i8, i9, i10}
  TheirIndices = {i1, i2, i3, i4, i5, i6, i7, i8, i9, i10}
  Senders = {"a", "b"}
  MaxPackets = 3
  MaxFaults = 1
  REKEY_TIMEOUT = 2
  REKEY_AFTER_TIME = 5
  REKEY_AFTER_TIME_RECV = 6
  REJECT_AFTER_TIME = 9
  STALE_SESSION_TIMEOUT = 3
  WIPE_AFTER_TIME = 9
  FOREVER = 100
  REKEY_AFTER_MESSAGES = 8
  REJECT_AFTER_MESSAGES = 8
  MAX_QUEUED_PACKETS = 2
  MAX_HANDSHAKE_ATTEMPTS = 2
  TIMER_SLACK = 1
  MaxTime = 10
  MaxTai64n = 11
SPECIFICATION TunnelSpec
INVARIANTS
  QueueDrainsInTime InitiationsBounded
  RetryArmed WipeArmed NothingQueuedWhenReady SessionsAgree
PROPERTY UnattendedOnlyBy
CHECK_DEADLOCK FALSE
