SPECIFICATION Spec
CONSTANTS
  Players = {0, 1, 2}
  Failing = {0}
  RunAhead = 1
  MaxFrame = 1
  Timely = TRUE
  Voters = {}
  Overtaking = TRUE
INVARIANTS
  SurvivorsAgree
CHECK_DEADLOCK FALSE
