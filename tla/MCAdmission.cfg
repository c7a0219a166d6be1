\* A ring of four words of two bits, over a range that it wraps; a limiter
\* that lets two packets burst, with a second that is three packets long.
SPECIFICATION AdmissionSpec
CONSTANTS
  SIZE_OF_INTEGER = 2
  BITMAP_LEN = 4
  MaxSeq = 12
  NONE = NONE
  Addrs = {a1, a2}
  PACKET_COST = 2
  PACKETS_BURSTABLE = 2
  SECOND = 6
  GC_INTERVAL = 6
  MaxTime = 12
INVARIANTS WindowExact RateBound
PROPERTIES ImplementsWindow RefillWithinSecond
SYMMETRY AddrSymmetry
