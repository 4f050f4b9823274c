CONSTANTS
  MaxLaunches = 2
  MaxCrashes = 2
  Unregistered = Unregistered
  NoOne = NoOne
  Command = Command
SPECIFICATION FairSpec
INVARIANTS CloseIsClaimed ClosesOnlyOrphans
PROPERTIES ClaimIsFinal  
CHECK_DEADLOCK FALSE
