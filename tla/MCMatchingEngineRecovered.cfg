CONSTANTS
  Prices = {1, 2, 3}
  OrderIds = {1, 2, 3}
  Slots = {1, 2, 3}
  MaxLevels = 3
  Qtys = {1, 2}
  ModifyQtys = {0, 2}
  Types = {"Limit", "Market", "Stop"}
  Accounts = {1}
  MaxTrades = 3
  MaxReports = 7
  MaxCommands = 4
  JournalCaps = {2}
  FileRecords = 2
  MaxSnapshots = 2
  Instances = {"recovery"}
SPECIFICATION MCSpec
INVARIANT RecoveredIsLive
CHECK_DEADLOCK FALSE
