SPECIFICATION Spec
CONSTANTS
  Cmds <- MCCmds
  Bounded <- MCBounded
  Verbs <- MCVerbs
  MaxRaises = 1
  AllFrames = TRUE
  Contexts = {x1, x2}
  MaxChanges = 2
  x1 = x1
  x2 = x2
INVARIANTS
  CallsSettle
  VerbsSeeTheMap
PROPERTY EveryoneEnds
CHECK_DEADLOCK FALSE
