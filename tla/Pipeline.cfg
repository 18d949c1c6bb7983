SPECIFICATION FairSpec
CONSTANTS
  Symbols <- MCSymbols
  Captures <- MCCaptures
  MaxCells = 3
  FrameBound = 2
  TickBound = 1
  AnalyticsEvery = 2
INVARIANTS TypeOK SameAsSingleThreaded TicksDelivered
PROPERTY Termination
\* run() returns when its threads have ended.
CHECK_DEADLOCK FALSE
