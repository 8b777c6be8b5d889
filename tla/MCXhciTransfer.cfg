SPECIFICATION SafeSpec
CONSTANTS
  bulk = bulk
  int = int
  hub = hub
  cmd = cmd
  Urbs = {u1, u2}
  SyncEps = {bulk}
  IntEps = {int, hub}
  Cmd = cmd
  ListHead = head
  None = None
  Alloc <- AnyOf
  Room <- SafeRoom
  MaxTd = 1
  MaxEvents = 1
SYMMETRY UrbSymmetry
INVARIANTS UrbInv RestOfRound AsyncArmed
CHECK_DEADLOCK FALSE
