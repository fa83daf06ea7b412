SPECIFICATION FairSpec
CONSTANTS
  ai = ai
  production = production
  helper = helper
  tracker = tracker
  vehicle = vehicle
  factory = factory
  None = None
  Object = {vehicle, factory}
  Module = {ai, production, helper, tracker}
  Owner <- MCOwner
  Phase <- MCPhase
  CtorDelay <- MCCtorDelay
  WakeDelays <- MCWakeDelays
  Sleeps = {0, 2}
  Forever = 5
  MaxFrame = 2
INVARIANTS
  ValidSleepyUpdate
  NobodyOverslept
PROPERTIES
  CalledOnce
  FramesEnd
  ImplementsSchedule
CHECK_DEADLOCK FALSE
