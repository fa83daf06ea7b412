SPECIFICATION Spec
CONSTANTS
  bc = bc
  rewritten = rewritten
  rt = rt
  None = None
  Texture = {bc, rewritten, rt}
  Address = {a1, a2}
  Stage <- Stages
  View = {v1, v2, v3, v4}
  Kind <- KindOf
  MayFail = {"bc", "rewritten", "white"}
  MaxPixels = 2
  MaxGeneration = 2
SYMMETRY Symmetry
INVARIANTS
  OnlyLivingAreKept
  ReferencesExact
  BoundIsAlive
  DrawsAsAsked
CHECK_DEADLOCK FALSE
