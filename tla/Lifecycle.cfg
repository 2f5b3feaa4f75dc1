SPECIFICATION FairSpec
CONSTANTS
  None = None
  Handler = {h1, h2}
  Collectors = 2
  MaxCalls = 2
  MaxFaults = 2
INVARIANTS
  TypeOK
  RegistryComplete
  EveryCallShown
  RateLimitOfOneCall
  HealthzTellsTruth
  ReadyMeansOpen
  ProcessInv
PROPERTIES
  SignalEnds
  ComesBack
