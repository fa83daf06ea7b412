SPECIFICATION FairSpec
CONSTANTS
  Replays = 4
  MaxProcesses = 2
  ExitCodes = {0, 1, 3}
INVARIANTS
  OrderedOutput
  ProcessLimit
  ResultSound
PROPERTIES
  ExitsIfStarted
CHECK_DEADLOCK FALSE
