CONSTANTS
  r = r
  a = a
  x = x
  y = y
  Frames = {r, a, x, y}
  Root = r
  NoFrame = NoFrame
  Parents <- MCParents
  OutOfProcess = {a, x, y}
  Page = Page
  NoTree = NoTree
  MaxAttaches = 3
  MaxSessions = 2
  MaxSetup = 1
  MaxDepth = 2
SPECIFICATION Spec
INVARIANTS OneTree AnsweredByItsOwn NothingIsLost
