SPECIFICATION Spec
CONSTANTS
  Symbols = {0}
  Ids <- MCIds
  Prices <- MCPrices
  QuantityRange = 16
  MaxSnapshotLevels = 2
  StartPrice = 2
  PriceStep = 1
  PriceTick = 1
  BandLevels = 2
  MinQty = 1
  MaxQty = 2
  SnapshotInterval = 0
  HeartbeatInterval = 0
  NumMessages = 4
  MaxLost = 1
VIEW ExchangeView
INVARIANT InvariantsHold
\* The simulator stops after NumMessages messages.
CHECK_DEADLOCK FALSE
