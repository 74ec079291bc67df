SPECIFICATION Spec
CONSTANTS
  Keys = {k1}
  RingCap = 1
  Window = 1
  DedupCap = 1
  MaxDenies = 2
  MaxOther = 0
  MaxClock = 0
  ClockSteps = FALSE
  Absent = Absent
CHECK_DEADLOCK FALSE
INVARIANT LossesVisible
