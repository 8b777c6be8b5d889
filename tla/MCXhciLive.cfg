SPECIFICATION Spec
CONSTANTS
  bulk = bulk
  int = int
  hub = hub
  cmd = cmd
  Urbs = {u1, u2, u3}
  SyncEps = {bulk}
  IntEps = {int}
  Cmd = cmd
  ListHead = head
  None = None
  Alloc <- LowestOf
  Room <- LiveRoom
  MaxTd = 2
  MaxEvents = 2
INVARIANTS NothingLeftBehind SuccessIsReal
PROPERTIES Returns IsReported
CHECK_DEADLOCK FALSE
