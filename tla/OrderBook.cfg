\* Three orders, two prices, and quantities 0..2 so that an aggregate wraps.
SPECIFICATION BookSpec
SYMMETRY IdSymmetry
\* last is only written: states that differ in it have the same future.
VIEW BookView
CONSTANTS
  Ids = {o1, o2, o3}
  Prices <- MCPrices
  QuantityRange = 3
  MaxSnapshotLevels = 1
INVARIANTS
  TypeOK
  LocatorsValid
  LevelsConsistent
PROPERTIES
  ImplementsPriceTime
  PriorityKept
