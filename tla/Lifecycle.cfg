CONSTANTS
  Clis = {c1, c2}
  Profiles = {work}
  NoProfile = NoProfile
  NoCli = NoCli
  NoEntry = NoEntry
  Verbs = {"launch", "stop", "cleanup", "delete"}
  Headed = TRUE
  MaxBrowsers = 3
  MaxBusy = 2
  MaxCrashes = 1
SYMMETRY Symmetry
SPECIFICATION Spec
INVARIANTS LiveIsKept OneBrowser HeldOnce
PROPERTIES CommandsSpareLive StopLeavesNothing
