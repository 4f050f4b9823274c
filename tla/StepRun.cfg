SPECIFICATION Spec
CONSTANTS
  External = TRUE
  Lists <- MCLists
  Timeouts = {0, 2}
  Own = 2
  Slack = 1
  Grace = 2
  Floor = 1
  MaxTime = 7
  MaxDialogs = 2
INVARIANTS
  RunIsTold
  
 
CHECK_DEADLOCK FALSE
