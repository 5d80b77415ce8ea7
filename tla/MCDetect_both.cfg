\* One PC configured with the runtimes auto and docker.
CONSTANTS
  NumPCs = 1
  MaxConcurrentTargets = 1
  MaxConcurrentNested = 1
  IncludeNested = TRUE
  SSHInstalled = TRUE
  HasSSH <- OnlyPC1
  Runtimes <- AutoAndDocker
  LocalRuntimes <- OnlyPodman
  Listing <- LoneWorld
  Accepts <- EveryoneAccepts
  Address <- OwnAddress
  Cancellable = FALSE
SPECIFICATION Spec
INVARIANTS
  OneRowPerHost
