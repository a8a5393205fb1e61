SPECIFICATION FairSpec
CONSTANTS
  IPv4 <- V4
  Interfaces = {"eth0", "eth1"}
  Strangers <- Neighbours
  IfaceOf <- LocalNetwork
  Configs <- LanConfigs
  Concurrency = 2
INVARIANTS
  TypeOK
  AliveMeansAnswered
  EveryTargetJudged
  ProbesBounded
PROPERTIES
  DiscoveryEnds
