SPECIFICATION StreamSpec
CONSTANTS
  HeaderSize = 2
  FrameSizes = {2, 3, 4}
  StreamLength = 6
  Entries = {"stream", "datagram"}
INVARIANTS ChunkingIrrelevant LengthErrorConfined DatagramsIsolated ReplayModesAgree
\* A feed ends.
CHECK_DEADLOCK FALSE
