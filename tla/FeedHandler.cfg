\* The tightest width in which the numbers do not wrap.
SPECIFICATION Spec
CONSTANTS
  SeqRange = 7
  MaxSent = 5
  MaxArrivals = 6
INVARIANTS
  TypeOK
  InOrderOnce
  NewestForwarded
  Accounted
\* The publisher and the network stop at their bounds.
CHECK_DEADLOCK FALSE
