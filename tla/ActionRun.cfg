SPECIFICATION FairSpec
CONSTANTS
  Uses <- MCUses
  Jobs = 2
  MaxLines = 2
INVARIANTS
  StartOkMeansReady
  ReportIsWhole
PROPERTY StopEndsAgent
CHECK_DEADLOCK FALSE
