CONSTANTS
  Tabs = {t1, t2}
  ScanMayFail = TRUE
  MaxToggles = 3
  MaxArrivals = 2
SPECIFICATION FairSpec
INVARIANTS  RetiresOnlyGone
PROPERTIES OffReachesEveryTab 
CHECK_DEADLOCK FALSE
