\* One pass over every machine, which may change twice meanwhile.
CONSTANTS
  Commands <- MCCommands
  Others <- MCOthers
  Candidates <- MCCandidates
  MaxChanges = 2
SPECIFICATION Spec
INVARIANTS
  CreateOnlyIfFree
  OwnedOnlyIfMarked
  StillMachineIsRight
  DoctorAgreesWithSetup
