CONSTANTS
  Prices = {2}
  OrderIds = {0, 1, 3}
  Slots = {1, 2}
  MaxLevels = 2
  Qtys = {1, 2}
  ModifyQtys = {}
  Types = {"Limit", "Market"}
  Accounts = {1, 2}
  MaxTrades = 3
  MaxReports = 3
  ManagerCommands = 3
  OutboundCap = 2
  Symbols = {1}
  Halts <- NoHalts
  MarketStatuses = {"Trading"}
  Word = 1024
  QtyScale = 1
  InitialPower = 10
  MaxExposure = 0
  MaxOrderQty = 0
  MaxOrderPrice = 0
  Reference = 2
  BandPercent = 10
  PositionLimit = 3
  MapSize = 2
  CreditSlots = 4
  PositionSlots = 4
  SymbolSlots = 4
  FlagSlots = 4
  WindowSize = 2
  Second = 1
  Limits = {0}
  MaxTime = 0
  MaxOrders = 4
  MaxCalls = 100
  Policies = {"Batch"}
  BatchSize = 2
  FileRecords = 2
  InboundCap = 2
  JournalCap = 4
  MaxCommands = 2
  MaxStarts = 2
  MaxProcesses = 1
  Instances = {"journal"}
SPECIFICATION AllSpec
INVARIANT JournalIsComplete
CHECK_DEADLOCK FALSE
