SPECIFICATION ScheduleSpec
CONSTANTS
  Qhs = {q1, q2, q3}
  ReclaimHead = ReclaimHead
  PeriodOne = PeriodOne
  Null = Null
  NFrames = 8
  Intervals = {2, 4}
  MaxTimeouts = 1
SYMMETRY Symmetry
INVARIANTS ScheduleInv PolledWhenDue NoFreedQh
CHECK_DEADLOCK FALSE
