SPECIFICATION FlushSpec
CONSTANTS
  Vector <- MCGameVectors
  Default <- RenderStateVector
  Key <- MCKey
  Desc <- MCDesc
  Ref <- MCRef
  NoRef <- AllBits
  Null <- MCNull
INVARIANTS
  RememberedIsBound
  DrawnAsSet
