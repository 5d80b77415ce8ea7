\* Requests one after the other, in every order and with a read at any moment;
\* requests at the same time whose saves may be cut off; and bulk requests on
\* their own, with every kind of text.
CONSTANTS
  Width = 4
  OctetBits = 2
  MinOnes = 2
  DefaultMaxHosts = 5
  Private <- MCPrivate
  Scenarios <- AllScenarios
  AutoName <- MCAutoName
  InitialPCs <- UsualLists
SPECIFICATION Spec
INVARIANTS
  NamesUnique
  BulkKeepsAndStores
  BulkStoresNothingElse
  BulkUpdatesInPlace
  LoadsAreWhole
  BrokenOnlyByOverlap
PROPERTIES
  ImplementsRegister
