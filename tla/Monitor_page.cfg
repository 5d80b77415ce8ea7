SPECIFICATION FairSpec
CONSTANTS
  OpenHidden = FALSE
  MaxChanges = 1
  MaxLoads = 1
  MaxReloads = 1
INVARIANTS TypeOK OnlyActivePolls RefreshNotStuck AutoScanOnce
PROPERTIES OrderLostOnlyAcross ListLostOnlyOvertaken ScreenStaysLive SavesEnd ChangesAreShown
