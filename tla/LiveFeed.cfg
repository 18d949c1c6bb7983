SPECIFICATION Spec
CONSTANTS
  Sizes <- MCSizes
  PipeSize = 4
  BufferSize = 3
  Datagrams = 6
  SocketBuffer = 2
  IdleTicks = 5
  MaxPause = 2
INVARIANTS TcpWholeMessages TcpComplete TimeoutMeansSilence
PROPERTY LoopsEnd
\* Both processes end.
CHECK_DEADLOCK FALSE
