CONSTANTS
  Accounts = {1}
  Symbols = {1}
  Ids = {0, 1, 2, 3}
  Halts <- AllHalts
  MarketStatuses = {"Trading", "Halt"}
  Prices = {2, 3}
  Qtys = {2, 5, 6}
  Word = 8
  QtyScale = 2
  InitialPower = 5
  MaxExposure = 7
  MaxOrderQty = 5
  MaxOrderPrice = 3
  Reference = 2
  BandPercent = 10
  PositionLimit = 6
  MapSize = 2
  CreditSlots = 4
  PositionSlots = 4
  SymbolSlots = 4
  FlagSlots = 4
  Trackers = {1}
  WindowSize = 3
  Second = 2
  Limits = {0, 1, 2, 3}
  MaxTime = 7
  MaxOrders = 7
  MaxCalls = 3
SPECIFICATION MCSpec
PROPERTY ReservesFullCost
