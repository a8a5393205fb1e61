SPECIFICATION FairSpec
CONSTANTS
  Targets <- HostAgain
  Ports <- TwoPorts
  Concurrency = 2
  Verdicts <- TcpVerdicts
INVARIANTS
  TypeOK
  PermitsConserved
  AcquireNeverBlocks
  FiledUnderOwnHost
  ReportOrderIndependent
PROPERTIES
  ScanCompletes
  KeepsPromise
