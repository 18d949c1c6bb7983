SPECIFICATION ReplaySpec
CONSTANTS
  Parts = 2
  MaxMessages = 2
  MaxSessions = 2
  MaxReplays = 2
INVARIANTS TypeOK CapturePrefix CountTrusted ClosedIsComplete
PROPERTY ReplayAppendsNew
