CONSTANTS
  Machines <- AllMachines
SPECIFICATION FairSpec
INVARIANTS
  
  ReadyMeansGuarded
  FailedRunNotReady
  
  ErrChHasRoom
  
  SnapshotsReadOpenMaps
PROPERTIES
  SignalStopsRun
