CONSTANTS
  MaxEvents = 4
  MaxBacklog = 1
  Requests = {"q1", "q2"}
  Chunks = 2
  MaxFrames = 3
  Frames = 5
  Unacked = 2
  StreamEvents = {e1, e2}
  MaxCommands = 3
  Strikes = 2
  MaxDocuments = 4
  Patience = 3
  Quiet = 2
  MaxRetries = 1
  MaxRenderers = 2
  MaxMoves = 3
  MaxWire = 4
SPECIFICATION Spec
INVARIANTS
  ObservesAll
  
  NamesHold
  VerbsAreHonest
PROPERTIES
  EndsInTime
CHECK_DEADLOCK FALSE
