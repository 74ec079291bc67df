SPECIFICATION Spec
CONSTANTS
  Uses <- GoUses
  Jobs = 1
  MaxLines = 2
INVARIANT ExitedMeansGone
CHECK_DEADLOCK FALSE
