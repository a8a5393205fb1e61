SPECIFICATION Spec
CONSTANTS
  Ports <- OnTwoHosts
  Statuses <- BothProtocols
  Scripts = 1
  Services <- SomeServices
  UseNmap = TRUE
  RawSocket = TRUE
INVARIANTS
  OnlyOpenPortsEnriched
