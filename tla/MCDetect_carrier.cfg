\* Two PCs and a hub with containers in containers: any command may fail,
\* or none fails; nested probes overtake each other, the deadline comes at any moment.
CONSTANTS
  NumPCs = 2
  MaxConcurrentTargets = 0
  MaxConcurrentNested = 0
  IncludeNested = TRUE
  SSHInstalled = TRUE
  HasSSH <- PC1And2
  Runtimes <- CarrierRuntimes
  LocalRuntimes <- BothRuntimes
  Listing <- CarrierWorld
  Accepts <- EveryoneAccepts
  Address <- OwnAddress
  Cancellable = TRUE
SPECIFICATION Spec
INVARIANTS
  TypeOK
  CompleteReport
  TrafficConservative
  HostsNotInflated
  NoHostLost
  OneRowPerHost
  ReportIsTruth
  ViewsAgree
