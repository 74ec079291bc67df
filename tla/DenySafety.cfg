SPECIFICATION Spec
CONSTANTS
  Keys = {k1, k2}
  RingCap = 1
  Window = 1
  DedupCap = 1
  MaxDenies = 3
  MaxOther = 1
  MaxClock = 1
  ClockSteps = TRUE
  Absent = Absent
CHECK_DEADLOCK FALSE
SYMMETRY KeySymmetry
INVARIANTS
  TwinHasEmitter
  
  EveryDenyAccounted
PROPERTIES
  LogSpec
  
