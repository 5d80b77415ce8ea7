\* One bulk request on a config where the automatic name of one of its
\* addresses is the name of the PC at the other one.
CONSTANTS
  Width = 4
  OctetBits = 2
  MinOnes = 2
  DefaultMaxHosts = 5
  Private <- MCPrivate
  Scenarios <- OneBulk
  AutoName <- MCAutoName
  InitialPCs <- MisnamedList
SPECIFICATION Spec
INVARIANTS
  BulkKeepsAndStores
