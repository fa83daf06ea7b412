--------------------------- MODULE MCRenderStates ---------------------------
(***************************************************************************)
(* Instances of RenderStateFlush with the keys and states of D3D11States.  *)
(***************************************************************************)
EXTENDS RenderStateFlush, D3D11States

R == RenderStateVector

MCStencil(func, fail, pass, ref, write) ==
  [R EXCEPT !.stencilEnable = TRUE, !.stencilFunc = func, !.stencilFail = fail,
            !.stencilPass = pass, !.stencilRef = ref, !.stencilWriteMask = write]

(* What a frame of the game goes through: opaque drawing, blended drawing  *)
(* with the depth buffer read-only, and the occlusion passes of            *)
(* W3DScene.cpp: a player's index, a translucent player, and stenciling    *)
(* switched off with the reference left as it was.                         *)
MCGameVectors ==
  {R,
   [R EXCEPT !.blendEnable = TRUE, !.srcBlend = RB_BLEND_SRCALPHA,
             !.dstBlend = RB_BLEND_INVSRCALPHA, !.depthWrite = FALSE,
             !.cullMode = RB_CULL_CW],
   MCStencil(RB_CMP_ALWAYS, RB_STENCILOP_KEEP, RB_STENCILOP_REPLACE, <<0, 8>>, AllBits),
   MCStencil(RB_CMP_NEVER, RB_STENCILOP_REPLACE, RB_STENCILOP_REPLACE, <<0, 8>>, AllBits),
   [R EXCEPT !.stencilRef = <<0, 8>>]}

(* The depth keys, computed once: TLC keeps the elements of a set, and     *)
(* would evaluate a function anew at each application.                     *)
MCDepthKeys == {<<v, Depth_Key(v)>> : v \in Vector}

MCKey ==
  [k \in StateKind |-> [v \in Vector |->
     CASE k = "blend" -> <<0, Blend_Key(v)>>
       [] k = "depth" -> (CHOOSE p \in MCDepthKeys : p[1] = v)[2]
       [] k = "raster" -> <<0, Raster_Key(v)>>]]

MCDesc ==
  [k \in StateKind |-> [v \in Vector |->
     CASE k = "blend" -> Blend_State(v)
       [] k = "depth" -> Depth_State(v)
       [] k = "raster" -> Rasterizer_State(v)]]

MCRef == [v \in Vector |-> v.stencilRef]

(* A null pointer, as a record like the objects. *)
MCNull == [kind |-> "none"]
=============================================================================
