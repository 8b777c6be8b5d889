SPECIFICATION Spec
CONSTANTS
  Blocks = {b1, b2}
  First = b1
  Units = 4
  Reqs = {r1, r2, r3}
  Eps = {kbd, hub}
  Hubs = {hub}
  SyncIntQh = sync
  CtrlQh = ctrl
  None = None
  DataUnits = 2
INVARIANTS UhciInv OneOwner NoFreedHeld
PROPERTIES EachIsFreed
CHECK_DEADLOCK FALSE
