SPECIFICATION FairSpec
CONSTANTS
  a = a
  b = b
  r = r
  Players = {a, b, r}
  Router = r
  MinRunAhead = 1
  MaxRunAhead = 1
  InitialRunAhead = 1
  FramesToKeep = 2
  FrameDataLength = 6
  Leavers = {a}
  MaxFrame = 3
  MaxCommands <- OneIfLeaver
INVARIANTS
  BoundedDrift
PROPERTIES
  ImplementsLockstep
  EverybodyAdvances
