CONSTANTS
  Fds = {1, 2, 3}
  MaxConnections = 2
  BufferSize = 3
  InboundCap = 2
  Limits <- AllLimits
  Served = {1}
  NumSymbols = 2
  QueueCap = 2
  OutboundCap = 1
SPECIFICATION FairSpec
INVARIANTS SessionsMatchClients FramesIntact CommandsInOrder QuietWhenStopped
PROPERTIES OrdersNeedLogin StopReturns OrdersAnswered
CHECK_DEADLOCK FALSE
