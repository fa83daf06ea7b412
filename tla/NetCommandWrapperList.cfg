SPECIFICATION FairWrapperSpec
CONSTANTS
  c = c
  d = d
  WrappedCommand = {c, d}
  Id <- IdOf
  Size <- SizeOf
  MaxCopies = 3
INVARIANTS
  HandedOverIntact
  NoMoreThanArrived
  NothingMissing
PROPERTIES
  HandedOver
CHECK_DEADLOCK FALSE
