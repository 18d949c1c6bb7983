\* The last number before the wrap is lost.
SPECIFICATION Spec
CONSTANTS
  SeqRange = 4
  MaxSent = 5
  MaxArrivals = 5
INVARIANT
  NewestNotDropped
CHECK_DEADLOCK FALSE
