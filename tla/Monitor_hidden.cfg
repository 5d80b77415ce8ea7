SPECIFICATION Spec
CONSTANTS
  OpenHidden = TRUE
  MaxChanges = 0
  MaxLoads = 0
  MaxReloads = 0
INVARIANTS HiddenIsQuiet
