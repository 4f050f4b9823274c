CONSTANTS
  MaxChanges = 2
  MaxEvents = 2
  MaxPids = 2
  MaxMoves = 4
  MaxEdits = 2
  MaxRunners = 3
SPECIFICATION Spec
 
INVARIANT ExternalIsSafe
 
 
CHECK_DEADLOCK FALSE
