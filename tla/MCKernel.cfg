CONSTANTS
  ModuleIds = {m1, m2, m3}
  MaxIgnored = 2
  Callers = {c1, c2}
  Names = {w1, w2}
  ManagerCalls = 5
  BusThreads = {b1, b2}
  Events = {heartbeat, shutdown_event}
  Callbacks = {"plain", "subscribes", "publishes"}
  BusCalls = 4
SPECIFICATION AllSpec
INVARIANTS ResolveCorrect ThreadsAccounted
PROPERTIES DependantsStopFirst DestructionEnds CallsReturn BusReturns
CHECK_DEADLOCK FALSE
