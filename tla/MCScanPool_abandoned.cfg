\* One network; the deadline may pass, or the client leave, at any moment.
CONSTANTS
  Width = 4
  OctetBits = 2
  MinOnes = 2
  DefaultMaxHosts = 3
  Private <- MCPrivate
  Queries <- OneNetwork
  Machines <- Nowhere
  DefaultPorts <- MCDefaultPorts
  Open <- MCOpen
  Concurrency = 2
  MaxHosts = 3
SPECIFICATION Spec
INVARIANTS
  EveryDialMetered
