SPECIFICATION FairSpec
CONSTANTS
  Keys = {k1}
  RingCap = 1
  Window = 1
  DedupCap = 1
  MaxDenies = 2
  MaxOther = 1
  MaxClock = 0
  ClockSteps = FALSE
  Absent = Absent
CHECK_DEADLOCK FALSE
PROPERTIES
  DeniesDrain
  ShutdownCompletes
