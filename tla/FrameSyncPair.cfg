SPECIFICATION Spec
CONSTANTS
  a = a
  b = b
  r = r
  Players = {a, r}
  Router = r
  MinRunAhead = 1
  MaxRunAhead = 2
  InitialRunAhead = 1
  FramesToKeep = 3
  FrameDataLength = 9
  Leavers = {a}
  MaxFrame = 12
  MaxCommands <- OneEach
INVARIANTS
  TypeOK
  NeverTooManyCommands
  NoAliasing
  LaggardServable
  SameRunAhead
CHECK_DEADLOCK FALSE
