SPECIFICATION LRSpec
CONSTANTS
  MaxCancels = 2
  MaxDocs = 2
  MaxValue = 1
  PipeSize = 1
INVARIANTS
  LoginIsTruthful
  InsertsSafely
PROPERTIES
  LoginSettles
  RefinesLogin
CHECK_DEADLOCK FALSE
