SPECIFICATION Spec
CONSTANTS
  Up <- Tree
  NSlots = 3
  NAddrs = 2
  MaxPlugs = 3
  MaxUnplugs = 1
  MaxResets = 1
  Faults = {"address", "disable", "disconnect", "interrupt", "status", "xfer"}
  MaxFaults = 1
INVARIANTS BusInv AddressNamesItsDevice SlotsMatchPorts
PROPERTIES Settles
CHECK_DEADLOCK FALSE
