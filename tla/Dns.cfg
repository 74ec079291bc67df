CONSTANTS
  Addrs = {1, 2}
  Listed = {"a.io", "bb.io"}
  Unlisted = {"cc.io"}
  Length <- NameLength
  Rank <- NameRank
  Ttls = {0, 9}
  MinTTL = 1
  DefaultTTL = 1
  MaxTTL = 2
  MaxEntries = 1
  Worlds <- BothWorlds
SPECIFICATION FairSpec
INVARIANTS
  KernelMirrors
  OwnersTrusted
  AttributionFresh
PROPERTIES
  ShortOwnerStays
  
  
