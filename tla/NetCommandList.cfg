SPECIFICATION Spec
CONSTANT
  Commands <- FrameCommands
INVARIANTS
  TypeOK
  StrictlySorted
  DropsOnlyDuplicates
