--------------------------- MODULE MCTextureSlots ---------------------------
EXTENDS TextureSlots, TLC

CONSTANTS bc, rewritten, rt

Stages == 0..1
KindOf == bc :> "bc" @@ rewritten :> "rewritten" @@ rt :> "target"

Symmetry == Permutations(Address) \cup Permutations(View)
=============================================================================
