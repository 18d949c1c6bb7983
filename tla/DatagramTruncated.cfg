SPECIFICATION StreamSpec
CONSTANTS
  HeaderSize = 2
  FrameSizes = {2, 3}
  StreamLength = 6
  Entries = {"datagram"}
INVARIANT TruncatedIsMalformed
\* A feed ends.
CHECK_DEADLOCK FALSE
