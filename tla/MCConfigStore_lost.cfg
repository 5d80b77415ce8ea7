\* A bulk request and a pc add of different PCs at the same time.
CONSTANTS
  Width = 4
  OctetBits = 2
  MinOnes = 2
  DefaultMaxHosts = 5
  Private <- MCPrivate
  Scenarios <- TwoAdders
  AutoName <- MCAutoName
  InitialPCs <- NoList
SPECIFICATION Spec
INVARIANTS
  AckedPCsKept
