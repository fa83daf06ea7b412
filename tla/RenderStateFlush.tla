-------------------------- MODULE RenderStateFlush --------------------------
(***************************************************************************)
(* The deferred render-state flush of the Direct3D 11 backend              *)
(* (Backend/D3D11Backend.cpp) and its cache of state objects               *)
(* (Backend/D3D11States.cpp).                                              *)
(*                                                                         *)
(* Setters write a vector and mark it dirty.  The draw calls flush: they   *)
(* look up or create one object per kind, and bind it to the context only  *)
(* when it differs from the object remembered as last bound.  Four records *)
(* must agree: the vector, the cache, what the backend believes is bound,  *)
(* and what is bound.                                                      *)
(*                                                                         *)
(* How a vector is keyed and what it describes are parameters, tables over *)
(* the vectors; D3D11States gives the code's.                              *)
(***************************************************************************)
EXTENDS Integers

CONSTANTS
  Vector,    \* the render-state vectors clients produce
  Default,   \* RenderStateVector()
  Key,       \* Key[kind][v]: the cache key of v
  Desc,      \* Desc[kind][v]: what the object created from v says
  Ref,       \* Ref[v]: the stencil reference, an argument of the depth binding
  NoRef,     \* 0xFFFFFFFF, which Invalidate puts in place of the reference
  Null       \* no object

StateKind == {"blend", "depth", "raster"}

(* A state object.  The cache creates at most one per key while a device   *)
(* lives and frees none, so equal pointers are equal objects.              *)
Object == [kind : StateKind, key : {Key[k][v] : k \in StateKind, v \in Vector},
           desc : {Desc[k][v] : k \in StateKind, v \in Vector}]

ASSUME VectorAssumption == Default \in Vector

ASSUME NullAssumption == Null \notin Object

VARIABLES
  renderState,    \* m_renderState
  renderStateDirty,
  stateCache,     \* D3D11StateCache: the objects created so far
  last,           \* m_lastBlendState, m_lastDepthState, m_lastRasterState
  lastRef,        \* m_lastStencilRef
  active,         \* m_activeBlendState and its siblings
  context,        \* what the device context has bound, per kind
  contextRef      \* the stencil reference the context has bound

flushVars == <<renderState, renderStateDirty, stateCache, last, lastRef,
               active, context, contextRef>>

Nothing == [k \in StateKind |-> Null]

-----------------------------------------------------------------------------
(* Mistakes the properties are tested against: an object is bound only     *)
(* when it was just created; the stencil reference is taken for part of    *)
(* the object.                                                             *)
BindsIfNew(k, got) ==
  \/ got[k] # last[k] /\ got[k] \notin stateCache
  \/ k = "depth" /\ lastRef # Ref[renderState]

BindsForgetsRef(k, got) ==
  \/ k \in {"blend", "depth"} /\ got[k] # last[k]
  \/ k = "raster" /\ got[k] # last[k] /\ got[k] # Null

FlushInit ==
  /\ renderState = Default
  /\ renderStateDirty = TRUE
  /\ stateCache = {}
  /\ last = Nothing
  /\ lastRef = Ref[Default]
  /\ active = Nothing
  /\ context = Nothing
  /\ contextRef = Ref[Default]

(* The setters: each writes and marks only when the value changes; a call  *)
(* such as Set_Shader makes several of them with no draw in between.       *)
SetState(v) ==
  /\ v # renderState
  /\ renderState' = v
  /\ renderStateDirty' = TRUE
  /\ UNCHANGED <<stateCache, last, lastRef, active, context, contextRef>>

(* The object made from a vector, and the ones the cache answers with: the *)
(* one under the key, else a new one, else none when creation fails.       *)
Created(k, v) == [kind |-> k, key |-> Key[k][v], desc |-> Desc[k][v]]

Cached(k, v) == {o \in stateCache : o.kind = k /\ o.key = Key[k][v]}

Get_State(k, v) == IF Cached(k, v) = {} THEN {Created(k, v), Null} ELSE Cached(k, v)

(* Which kinds the flush binds: the remembered object differs; for depth,  *)
(* also the reference; a rasterizer that could not be created is not bound.*)
Binds(k, got) ==
  \/ k = "blend" /\ got[k] # last[k]
  \/ k = "depth" /\ (got[k] # last[k] \/ lastRef # Ref[renderState])
  \/ k = "raster" /\ got[k] # last[k] /\ got[k] # Null

(* Draw_Triangles, Draw_Strip, Draw_Screen_Filter_Quad: flush, then draw.  *)
Draw ==
  /\ renderStateDirty
  /\ \E got \in [StateKind -> UNION {Get_State(k, renderState) : k \in StateKind}] :
       /\ \A k \in StateKind : got[k] \in Get_State(k, renderState)
       /\ stateCache' = stateCache \cup {got[k] : k \in {j \in StateKind : got[j] # Null}}
       /\ context' = [k \in StateKind |-> IF Binds(k, got) THEN got[k] ELSE context[k]]
       /\ contextRef' = IF Binds("depth", got) THEN Ref[renderState] ELSE contextRef
       /\ lastRef' = IF Binds("depth", got) THEN Ref[renderState] ELSE lastRef
       /\ last' = got
       /\ active' = got
  /\ renderStateDirty' = FALSE
  /\ UNCHANGED renderState

Apply_Default_State ==
  /\ renderState' = Default
  /\ renderStateDirty' = TRUE
  /\ UNCHANGED <<stateCache, last, lastRef, active, context, contextRef>>

Invalidate_Cached_Render_States ==
  /\ renderStateDirty' = TRUE
  /\ last' = Nothing
  /\ lastRef' = NoRef
  /\ UNCHANGED <<renderState, stateCache, active, context, contextRef>>

FlushNext ==
  \/ \E v \in Vector : SetState(v)
  \/ Draw
  \/ Apply_Default_State
  \/ Invalidate_Cached_Render_States

FlushSpec == FlushInit /\ [][FlushNext]_flushVars

-----------------------------------------------------------------------------
FlushTypeOK ==
  /\ renderState \in Vector
  /\ renderStateDirty \in BOOLEAN
  /\ stateCache \in SUBSET Object
  /\ last \in [StateKind -> Object \cup {Null}]
  /\ lastRef \in {Ref[v] : v \in Vector} \cup {NoRef}
  /\ active \in [StateKind -> Object \cup {Null}]
  /\ context \in [StateKind -> Object \cup {Null}]
  /\ contextRef \in {Ref[v] : v \in Vector}

(* An object remembered as last bound is still the one the context holds,  *)
(* with its stencil reference: what the redundant-bind skip of             *)
(* Apply_Render_State_Changes relies on.                                   *)
RememberedIsBound ==
  /\ \A k \in StateKind : last[k] # Null => context[k] = last[k]
  /\ last["depth"] # Null => contextRef = lastRef

(* After a flush, the context draws with what the vector asks for: every   *)
(* kind whose object could be created is bound, says what the vector says, *)
(* and carries its stencil reference.  Through skipped binds, cache hits,  *)
(* failed creations and invalidations.                                     *)
DrawnAsSet ==
  ~renderStateDirty =>
    /\ \A k \in StateKind : active[k] # Null =>
         context[k] # Null /\ context[k].desc = Desc[k][renderState]
    /\ active["depth"] # Null => contextRef = Ref[renderState]

(* The condition on the tables under which no hit is wrong. *)
KeysTellStatesApart ==
  \A k \in StateKind, v, w \in Vector : Key[k][v] = Key[k][w] => Desc[k][v] = Desc[k][w]
=============================================================================
