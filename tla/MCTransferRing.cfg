SPECIFICATION Spec
CONSTANTS
  TrbNumber = 5
  Trbs = {t1, t2}
  NoTrb = NoTrb
  MaxTd = 3
  CommandRing = FALSE
INVARIANTS RingInv
PROPERTIES ImplementsQueue ServesQueue
