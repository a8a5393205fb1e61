SPECIFICATION Spec
CONSTANTS
  IPv4 <- V4
  Interfaces = {"eth0", "eth1"}
  Strangers <- Neighbours
  IfaceOf <- LocalNetwork
  Configs <- RemoteConfig
  Concurrency = 2
INVARIANTS
  ConnectsLimited
