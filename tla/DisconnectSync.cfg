SPECIFICATION FairSpec
CONSTANTS
  Players = {0, 1, 2}
  Failing = {0, 2}
  RunAhead = 1
  MaxFrame = 1
  Timely = TRUE
  Voters = {1, 2}
  Overtaking = FALSE
INVARIANTS
  TypeOK
  SurvivorsAgree
PROPERTIES
  DecidedOnOneFrame
  SurvivorsGoOn
\* when everybody has executed MaxFrame
CHECK_DEADLOCK FALSE
