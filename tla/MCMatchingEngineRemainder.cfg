CONSTANTS
  Prices = {1, 2}
  OrderIds = {1, 2, 3}
  Slots = {1, 2, 3}
  MaxLevels = 3
  Qtys = {1, 2}
  ModifyQtys = {}
  Types = {"Limit"}
  Accounts = {1}
  MaxTrades = 3
  MaxReports = 7
  MaxCommands = 3
  JournalCaps = {1, 2}
  FileRecords = 2
  MaxSnapshots = 2
  Instances = {"engine"}
SPECIFICATION MCSpec
INVARIANT NoOverExecution
CHECK_DEADLOCK FALSE
