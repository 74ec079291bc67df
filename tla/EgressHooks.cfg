CONSTANTS
  Remote4 = {"a4"}
  Native6 = {"a6"}
  Cooldown = 2
  MaxTime = 3
  MaxCalls = 3
SPECIFICATION Spec
INVARIANTS
  OneVerdict
  ConnectedSendsPass
  
