\* Scans of the Hub and of the command line, with and without a CIDR, on
\* machines with two networks, with one network in another one, and with none;
\* dials may time out or none does, and at the Hub the deadline may come at any
\* moment.
CONSTANTS
  Width = 4
  OctetBits = 2
  MinOnes = 2
  DefaultMaxHosts = 3
  Private <- MCPrivate
  Queries <- MCQueries
  Machines <- MCMachines
  DefaultPorts <- MCDefaultPorts
  Open <- MCOpen
  Concurrency = 2
  MaxHosts = 3
SPECIFICATION FairSpec
INVARIANTS
  ReportedOncePerNetwork
  AnswerIsComplete
  EstimateCovers
PROPERTIES
  ScanReturns
  ImplementsFanOut
