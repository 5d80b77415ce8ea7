\* Three PCs for two slots, one PC without ssh, commands that never end
\* unless the deadline kills them.
CONSTANTS
  NumPCs = 3
  MaxConcurrentTargets = 2
  MaxConcurrentNested = 1
  IncludeNested = TRUE
  SSHInstalled = TRUE
  HasSSH <- PC1And3
  Runtimes <- FleetRuntimes
  LocalRuntimes <- OnlyPodman
  Listing <- FleetWorld
  Accepts <- EveryoneAccepts
  Address <- OwnAddress
  Cancellable = TRUE
SPECIFICATION FairSpec
INVARIANTS
  SSHBound
PROPERTIES
  DetectReturns
  ImplementsFanOut
