CONSTANTS
  Procs = {p1, p2}
  Names = {n1, n2}
  NoProc = NoProc
  NoEntry = NoEntry
  NoName = NoName
  Missing = Missing
  Corrupt = Corrupt
  Partial = Partial
  MaxCorruptions = 1
SYMMETRY Symmetry
SPECIFICATION Spec
INVARIANTS LockExclusive RenamePublishesOwnTable ReadersSeeWholeTables
PROPERTY NoLostUpdate
