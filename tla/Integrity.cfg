CONSTANTS
  Width = 2
  Backends = {"cgroup"}
  Hosts <- OneHost
  Nets <- LowerHalf
  IgnoredNets <- OneIgnored
  MaxDisturbs = 3
  MaxFaults = 1
SPECIFICATION FairSpec
INVARIANTS
  EnforcesPolicy
  NoFalseAlarm
PROPERTIES
  NoDenyWindow
  RepairNeverWidens
  EventuallyHealed
