SPECIFICATION FairSpec
CONSTANTS
  Targets <- HostAgain
  Ports <- TwoPorts
  Concurrency = 0
  Verdicts <- TcpVerdicts
PROPERTIES
  ScanCompletes
CHECK_DEADLOCK FALSE
