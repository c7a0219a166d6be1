CONSTANTS
  Sizes <- AllSizes
  PADDING_MULTIPLE = 16
  TRANSPORT_HEADER_SIZE = 16
  AEAD_TAG_SIZE = 16
  MAX_SEGMENT_SIZE = 65535
  MAX_DATAGRAM = 65507
  U16 = 65536
SPECIFICATION FramingSpec
INVARIANT RoundTrip
CHECK_DEADLOCK FALSE
