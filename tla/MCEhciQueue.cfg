SPECIFICATION QueueSpec
CONSTANTS
  Packets = 2
  DataQtds = 2
  MaxSkips = 1
INVARIANTS QueueInv CompletedIsReal
PROPERTIES IsReported
CHECK_DEADLOCK FALSE
