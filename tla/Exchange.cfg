SPECIFICATION Spec
CONSTANTS
  Symbols = {0, 1}
  Ids <- MCIds
  Prices <- MCPrices
  QuantityRange = 4
  MaxSnapshotLevels = 2
  StartPrice = 2
  PriceStep = 1
  PriceTick = 1
  BandLevels = 2
  MinQty = 1
  MaxQty = 2
  SnapshotInterval = 4
  HeartbeatInterval = 5
  NumMessages = 6
  MaxLost = 1
VIEW ExchangeView
INVARIANTS
  LiveIdsIndexed BooksMirrorExchange LossConfined OnlyLossCrosses
  NothingRejected
\* The simulator stops after NumMessages messages.
CHECK_DEADLOCK FALSE
