SPECIFICATION FairSpec
CONSTANTS
  Probes = {"web", "ssh"}
  Target <- TwoPorts
  IPv6 = {}
  SourcePorts = {40001}
  Fallback = 54321
  Timeout = 2
  RxBound = 2
  OverflowChecks = TRUE
  Sockets = {"first", "second"}
INVARIANTS
  TypeOK
  SocketTypeOK
  VerdictTrue
  HalfOpenExplained
  AnswerDecides
PROPERTIES
  EveryProbeEnds
