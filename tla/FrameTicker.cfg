SPECIFICATION Spec
CONSTANTS
  MinRunAhead = 1
  MaxRunAhead = 3
  InitialRunAhead = 2
  MaxFrame = 5
  MaxCommands = 2
INVARIANTS
  CountsAreFinalInGame
  NoFrameSkipped
CHECK_DEADLOCK FALSE
