CONSTANTS
  Clis = {c1}
  Profiles = {work}
  NoProfile = NoProfile
  NoCli = NoCli
  NoEntry = NoEntry
  Verbs = {"launch"}
  Headed = FALSE
  MaxBrowsers = 2
  MaxBusy = 2
  MaxCrashes = 0
SYMMETRY Symmetry
SPECIFICATION Spec
PROPERTIES ProfilesOutlive
