---------------------------- MODULE TextureSlots ----------------------------
(***************************************************************************)
(* What the texture slots of the Direct3D 11 backend sample.  Set_Texture  *)
(* binds the view of a render target, a copy kept in the texture cache, a  *)
(* copy uploaded at once, or a white texture that stands for none.  Views  *)
(* are counted references, the slots of the device context are not:        *)
(* "the immediate context only keeps raw pointers".                        *)
(*                                                                         *)
(* A texture object lives at an address that another may get after it; its *)
(* Get_ID is never used again and stands here for the object.  One view    *)
(* stands for a texture, its shader view and its sampler, which are made,  *)
(* kept and released together, and View is the memory they are made in.    *)
(***************************************************************************)
EXTENDS Naturals, FiniteSets

CONSTANTS
  Texture, Address, Stage, View, None,
  Kind,           \* of each texture, see Kinds
  MayFail,        \* what may fail to be created: kinds of textures, "white"
  MaxPixels,      \* bound: how many different contents a surface has
  MaxGeneration   \* bound: how often a surface is exchanged

(* Managed textures with block-compressed, plain, and other formats;       *)
(* textures rewritten in place (video, radar); and render targets.         *)
Kinds == {"bc", "plain", "other", "rewritten", "target"}

ASSUME TextureAssumption ==
  /\ Kind \in [Texture -> Kinds]
  /\ MayFail \subseteq Kinds \cup {"white"}
  /\ 0 \in Stage
  /\ IsFiniteSet(Texture) /\ IsFiniteSet(Address) /\ IsFiniteSet(Stage)
  /\ MaxPixels \in Nat \ {0} /\ MaxGeneration \in Nat
  /\ None \notin Texture \cup Address \cup View

VARIABLES
  at,           \* the texture object that lives at an address
  unborn,       \* the objects that have not been made yet
  pixels,       \* the contents of its surface (D3DTexture), 0 without one
  generation,   \* D3DGeneration
  cache,        \* m_textureCache: the copy of a texture, and its version
  rtt,          \* m_rtt: the view of the target at an address
  stageView,    \* m_stageSRV
  stageNeutral, \* m_stageNeutral
  neutral,      \* m_neutralSRV
  neutralFailed, \* m_neutralCreateFailed
  target,       \* m_currentRTV, None for the back buffer
  refs,         \* references to each view, 0 if it does not exist
  shows,        \* what a view shows
  slot,         \* the views in the slots of the device context
  asked,        \* history: what draws are to sample in a stage
  adrift        \* history: stages with something else in their slot, since
                \* Apply_Color_Grade emptied it or nothing could be created

textures == <<at, unborn, pixels, generation>>
kept == <<cache, rtt, neutral, neutralFailed>>
device == <<refs, shows>>
stages == <<stageView, stageNeutral, slot, asked, adrift>>
vars == <<textures, kept, device, stages, target>>

(* What a view shows: the pixels of a texture's surface, what is rendered  *)
(* to a target, the two stand-ins, or what freed memory holds.             *)
Bytes(t, p) == <<t, p>>
Rendered(t) == <<t, 0>>
White == <<None, 1>>
Checker == <<None, 2>>
Freed == <<None, 0>>
Anything == <<None, 3>>

NoCopy == [view |-> None, version |-> 0]

Init ==
  /\ at = [a \in Address |-> None] /\ unborn = Texture
  /\ pixels = [t \in Texture |-> 0] /\ generation = [t \in Texture |-> 0]
  /\ cache = [t \in Texture |-> NoCopy] /\ rtt = [a \in Address |-> None]
  /\ neutral = None /\ neutralFailed = FALSE /\ target = None
  /\ refs = [v \in View |-> 0] /\ shows = [v \in View |-> Freed]
  /\ stageView = [s \in Stage |-> None] /\ slot = [s \in Stage |-> None]
  /\ stageNeutral = [s \in Stage |-> FALSE]
  /\ asked = [s \in Stage |-> Anything] /\ adrift = {}

(*------------------------- references to views --------------------------*)

Release(count, v) == IF v = None THEN count ELSE [count EXCEPT ![v] = @ - 1]

(* Mutant of AddRef: "the borrowed pointers were over-released".           *)
Borrow(count, v) == count

AddRef(count, v) == [count EXCEPT ![v] = @ + 1]

(* A view without references is destroyed.                                 *)
Count(count, shown) ==
  /\ refs' = count
  /\ shows' = [v \in View |-> IF count[v] = 0 THEN Freed ELSE shown[v]]

(* A new view, held by as many as are said.                                *)
Make(count, v, holders, content) ==
  /\ count[v] = 0
  /\ Count([count EXCEPT ![v] = holders], [shows EXCEPT ![v] = content])

(*------------------------------ Set_Texture -----------------------------*)

(* What follows is sampled in the stage: its slot and the record of it.    *)
InStage(s, v, isNeutral, content) ==
  /\ stageView' = [stageView EXCEPT ![s] = v]
  /\ slot' = [slot EXCEPT ![s] = v]
  /\ stageNeutral' = [stageNeutral EXCEPT ![s] = isNeutral]
  /\ asked' = [asked EXCEPT ![s] = content]
  /\ adrift' = adrift \ {s}

AlreadyNeutral(marked, held) == marked /\ held = neutral

(* Bind_Neutral_Texture, when the stage is marked or not and holds a view  *)
(* or None, with the references counted so far.                            *)
BindNeutral(s, marked, held, count) ==
  \/ /\ neutral # None /\ AlreadyNeutral(marked, held)
     /\ Count(count, shows)
     /\ asked' = [asked EXCEPT ![s] = White]
     /\ UNCHANGED <<stageView, stageNeutral, slot, adrift, neutral, neutralFailed>>
  \/ /\ neutral # None /\ ~AlreadyNeutral(marked, held)
     /\ Count(AddRef(Release(count, held), neutral), shows)
     /\ InStage(s, neutral, TRUE, White)
     /\ UNCHANGED <<neutral, neutralFailed>>
  \/ /\ neutral = None /\ ~neutralFailed
     /\ \E v \in View :
          /\ Make(Release(count, held), v, 2, White)
          /\ InStage(s, v, TRUE, White)
          /\ neutral' = v
     /\ UNCHANGED neutralFailed
  \/ /\ neutral = None /\ (neutralFailed \/ "white" \in MayFail)
     /\ neutralFailed' = TRUE
     /\ Count(count, shows)
     /\ stageView' = [stageView EXCEPT ![s] = held]
     /\ stageNeutral' = [stageNeutral EXCEPT ![s] = marked]
     /\ asked' = [asked EXCEPT ![s] = White]
     /\ adrift' = adrift \cup {s}
     /\ UNCHANGED <<slot, neutral>>

(* A bind of texture t finds surface p of generation g: if it has none,    *)
(* Init may load one now, later in the background, or never.               *)
Surface(t, p, g) ==
  \/ p = pixels[t] /\ g = generation[t]
  \/ /\ pixels[t] = 0 /\ generation[t] < MaxGeneration
     /\ Kind[t] # "target"
     /\ p \in 1..MaxPixels /\ g = generation[t] + 1

Found(t, p, g) ==
  /\ Surface(t, p, g)
  /\ pixels' = [pixels EXCEPT ![t] = p]
  /\ generation' = [generation EXCEPT ![t] = g]
  /\ UNCHANGED <<at, unborn>>

Cacheable(t) == Kind[t] \in {"bc", "plain"}

(* Mutant of Hit: keyed by the texture alone.                              *)
AnyVersion(t, g) == cache[t].view # None

Hit(t, g) == cache[t].view # None /\ cache[t].version = g

(* Store_Cached_Texture, of what was just uploaded.                        *)
Stored(t, v, g) ==
  cache' = IF Cacheable(t) THEN [cache EXCEPT ![t] = [view |-> v, version |-> g]]
           ELSE cache

(* A fresh view replaces what the stage held, and the copy that was kept   *)
(* of an older generation.                                                 *)
Upload(s, t, g, content) ==
  \E v \in View :
    LET freed == Release(refs, stageView[s])
        dropped == IF Cacheable(t) THEN Release(freed, cache[t].view) ELSE freed
    IN  /\ freed[v] = 0
        /\ Count([dropped EXCEPT ![v] = IF Cacheable(t) THEN 2 ELSE 1],
                 [shows EXCEPT ![v] = content])
        /\ InStage(s, v, FALSE, content)
        /\ Stored(t, v, g)
        /\ UNCHANGED <<rtt, neutral, neutralFailed>>

(* It cannot be created: a compressed texture becomes white, any other     *)
(* leaves the slot as it is, and no record of what is in it.               *)
UploadFails(s, t) ==
  LET freed == Release(refs, stageView[s]) IN
  \/ /\ Kind[t] = "bc"
     /\ BindNeutral(s, FALSE, None, freed)
     /\ UNCHANGED <<cache, rtt>>
  \/ /\ Kind[t] # "bc"
     /\ Count(freed, shows)
     /\ stageView' = [stageView EXCEPT ![s] = None]
     /\ stageNeutral' = [stageNeutral EXCEPT ![s] = FALSE]
     /\ adrift' = adrift \cup {s}
     /\ UNCHANGED <<slot, asked, kept>>

(* Set_Texture without a texture.                                          *)
SetNull(s) ==
  /\ BindNeutral(s, stageNeutral[s], stageView[s], refs)
  /\ UNCHANGED <<textures, cache, rtt, target>>

(* Set_Texture with the texture at an address: the view of a target, ...   *)
SetTarget(s, a) ==
  /\ at[a] # None /\ rtt[a] # None
  /\ Count(AddRef(Release(refs, stageView[s]), rtt[a]), shows)
  /\ InStage(s, rtt[a], FALSE,
             IF Kind[at[a]] = "target" THEN Rendered(at[a]) ELSE Bytes(at[a], pixels[at[a]]))
  /\ UNCHANGED <<textures, kept, target>>

(* ... white while there is no surface, or none that can be read, ...      *)
SetUnready(s, a) ==
  /\ at[a] # None /\ rtt[a] = None
  /\ Found(at[a], 0, generation[at[a]])
  /\ BindNeutral(s, FALSE, stageView[s], refs)
  /\ UNCHANGED <<cache, rtt, target>>

(* ... the copy that is kept, or an upload.                                *)
SetManaged(s, a) ==
  /\ at[a] # None /\ rtt[a] = None
  /\ \E p \in 1..MaxPixels, g \in 0..MaxGeneration :
       LET t == at[a] IN
       /\ Found(t, p, g)
       /\ \/ /\ Cacheable(t) /\ Hit(t, g)
             /\ Count(AddRef(Release(refs, stageView[s]), cache[t].view), shows)
             /\ InStage(s, cache[t].view, FALSE, Bytes(t, p))
             /\ UNCHANGED kept
          \/ /\ ~(Cacheable(t) /\ Hit(t, g))
             /\ \/ Upload(s, t, g, IF Kind[t] = "other" THEN Checker ELSE Bytes(t, p))
                \/ Kind[t] \in MayFail /\ UploadFails(s, t)
  /\ UNCHANGED target

(*--------------------- textures and their surfaces ----------------------*)

(* What was asked for is gone, or has changed under a view of it.          *)
Outdated(t) ==
  asked' = [s \in Stage |-> IF asked[s][1] = t THEN Anything ELSE asked[s]]

(* A new object at a free address. Textures rewritten in place have a      *)
(* surface from the start.                                                 *)
CreateTexture(t, a) ==
  /\ t \in unborn /\ at[a] = None /\ Kind[t] # "target"
  /\ at' = [at EXCEPT ![a] = t] /\ unborn' = unborn \ {t}
  /\ pixels' = IF Kind[t] = "rewritten" THEN [pixels EXCEPT ![t] = 1] ELSE pixels
  /\ UNCHANGED <<generation, kept, device, stages, target>>

Create_Render_Target(t, a) ==
  /\ t \in unborn /\ at[a] = None /\ Kind[t] = "target"
  /\ at' = [at EXCEPT ![a] = t] /\ unborn' = unborn \ {t}
  /\ \E v \in View :
       /\ Make(refs, v, 1, Rendered(t))
       /\ rtt' = [rtt EXCEPT ![a] = v]
  /\ UNCHANGED <<pixels, generation, cache, neutral, neutralFailed, stages, target>>

Exchangeable(t) == (\E a \in Address : at[a] = t) /\ Kind[t] \in {"bc", "plain", "other"}

NextGeneration(t) == generation[t] + 1

(* Set_D3D_Base_Texture or Poke_Texture: a load ends, detail is reduced.   *)
Set_D3D_Base_Texture(t) ==
  /\ Exchangeable(t) /\ generation[t] < MaxGeneration
  /\ \E p \in 1..MaxPixels : pixels' = [pixels EXCEPT ![t] = p]
  /\ generation' = [generation EXCEPT ![t] = NextGeneration(t)]
  /\ Outdated(t)
  /\ UNCHANGED <<at, unborn, kept, device, stageView, stageNeutral, slot, adrift, target>>

Invalidate(t) ==
  /\ Exchangeable(t) /\ pixels[t] # 0 /\ generation[t] < MaxGeneration
  /\ pixels' = [pixels EXCEPT ![t] = 0]
  /\ generation' = [generation EXCEPT ![t] = NextGeneration(t)]
  /\ Outdated(t)
  /\ UNCHANGED <<at, unborn, kept, device, stageView, stageNeutral, slot, adrift, target>>

(* A video or radar picture is painted over, the same surface as before.   *)
Rewrite(t) ==
  /\ (\E a \in Address : at[a] = t) /\ Kind[t] = "rewritten"
  /\ \E p \in 1..MaxPixels : pixels' = [pixels EXCEPT ![t] = p]
  /\ Outdated(t)
  /\ UNCHANGED <<at, unborn, generation, kept, device, stageView, stageNeutral, slot, adrift, target>>

(* Mutant of Forgotten: the copy stays in the cache.                       *)
StillKept(t) == cache

Forgotten(t) == [cache EXCEPT ![t] = NoCopy]

(* The stages Evict_Render_Target takes a view out of.                     *)
BoundTo(v) == {s \in Stage : stageView[s] = v}

(* Mutant of TargetAfter: the device goes on drawing to it.                *)
SameTarget(v) == target

TargetAfter(v) == IF target = v THEN None ELSE target

(* The last reference to a texture is given up, at any time: DX8Wrapper's  *)
(* Release_Render_State may hold it. Its copy and its target are evicted.  *)
Destroy(a) ==
  LET t == at[a]
      v == rtt[a]
      bound == BoundTo(v)
      count == Release(refs, cache[t].view) IN
  /\ t # None
  /\ at' = [at EXCEPT ![a] = None]
  /\ cache' = Forgotten(t)
  /\ rtt' = [rtt EXCEPT ![a] = None]
  /\ Outdated(t)
  /\ \/ /\ v = None
        /\ Count(count, shows)
        /\ UNCHANGED <<stageView, slot, target>>
     \/ /\ v # None
        /\ Count([count EXCEPT ![v] = @ - 1 - Cardinality(bound)], shows)
        /\ stageView' = [s \in Stage |-> IF s \in bound THEN None ELSE stageView[s]]
        /\ slot' = [s \in Stage |-> IF s \in bound THEN None ELSE slot[s]]
        /\ target' = TargetAfter(v)
  /\ UNCHANGED <<unborn, pixels, generation, neutral, neutralFailed, stageNeutral, adrift>>

(*------------------------- targets and the device -----------------------*)

(* Set_Render_Target_With_Z; a texture that is no target of this backend   *)
(* means the back buffer, as no texture and Begin_Scene do.                *)
Set_Render_Target(a) ==
  /\ at[a] # None
  /\ target' = rtt[a]
  /\ UNCHANGED <<textures, kept, device, stages>>

Bind_Back_Buffer_Targets ==
  /\ target' = None
  /\ UNCHANGED <<textures, kept, device, stages>>

(* The grade is drawn with slot 0, and leaves nothing in it.               *)
Apply_Color_Grade ==
  /\ slot' = [slot EXCEPT ![0] = None]
  /\ adrift' = adrift \cup {0}
  /\ asked' = [asked EXCEPT ![0] = Anything]
  /\ target' = None
  /\ UNCHANGED <<textures, kept, device, stageView, stageNeutral>>

(* The references that the stages, the cache, the stand-in and the targets *)
(* hold, which Release_Device_Objects gives up.                            *)
HeldBy(v) ==
    Cardinality({s \in Stage : stageView[s] = v})
  + Cardinality({t \in Texture : cache[t].view = v})
  + Cardinality({a \in Address : rtt[a] = v})
  + (IF neutral = v THEN 1 ELSE 0)

(* Shutdown, and a new backend while textures live on.                     *)
Shutdown ==
  /\ Count([v \in View |-> refs[v] - HeldBy(v)], shows)
  /\ slot' = [s \in Stage |-> None]
  /\ stageView' = [s \in Stage |-> None]
  /\ stageNeutral' = [s \in Stage |-> FALSE]
  /\ asked' = [s \in Stage |-> Anything] /\ adrift' = {}
  /\ cache' = [t \in Texture |-> NoCopy] /\ rtt' = [a \in Address |-> None]
  /\ neutral' = None /\ neutralFailed' = FALSE /\ target' = None
  /\ UNCHANGED textures

Next ==
  \/ \E s \in Stage : SetNull(s)
  \/ \E s \in Stage, a \in Address : SetTarget(s, a) \/ SetUnready(s, a) \/ SetManaged(s, a)
  \/ \E t \in Texture, a \in Address : CreateTexture(t, a) \/ Create_Render_Target(t, a)
  \/ \E t \in Texture : Set_D3D_Base_Texture(t) \/ Invalidate(t) \/ Rewrite(t)
  \/ \E a \in Address : Destroy(a) \/ Set_Render_Target(a)
  \/ Bind_Back_Buffer_Targets
  \/ Apply_Color_Grade
  \/ Shutdown

Spec == Init /\ [][Next]_vars
-----------------------------------------------------------------------------
(* Types. Counts of references never become negative: no view is released  *)
(* by one who does not hold it.                                            *)
TypeOK ==
  /\ at \in [Address -> Texture \cup {None}] /\ unborn \subseteq Texture
  /\ pixels \in [Texture -> 0..MaxPixels]
  /\ generation \in [Texture -> 0..MaxGeneration]
  /\ cache \in [Texture -> [view : View \cup {None}, version : 0..MaxGeneration]]
  /\ rtt \in [Address -> View \cup {None}]
  /\ neutral \in View \cup {None} /\ neutralFailed \in BOOLEAN
  /\ target \in View \cup {None}
  /\ refs \in [View -> Nat]
  /\ stageView \in [Stage -> View \cup {None}] /\ slot \in [Stage -> View \cup {None}]
  /\ stageNeutral \in [Stage -> BOOLEAN] /\ adrift \subseteq Stage

(* A view is counted once for each stage, kept copy, target and stand-in   *)
(* that holds it: nothing is released twice, nothing is left over.         *)
ReferencesExact == \A v \in View : refs[v] = HeldBy(v)

(* The device, which counts nothing, never samples a view that was         *)
(* released, nor draws to a target that was: "freed memory live in the     *)
(* pipeline".                                                              *)
BoundIsAlive ==
  /\ \A s \in Stage \ adrift : slot[s] # None => refs[slot[s]] > 0
  /\ target # None => \E a \in Address : rtt[a] = target

(* What is kept is kept of a living texture: no copy outlives its texture, *)
(* and an address in the map of targets is that of a target.               *)
OnlyLivingAreKept ==
  /\ \A t \in Texture : cache[t].view # None => \E a \in Address : at[a] = t
  /\ \A a \in Address : rtt[a] # None => at[a] # None /\ Kind[at[a]] = "target"

(* A draw samples the bytes its texture has, white without a texture, and  *)
(* never what a view of another texture, of older bytes, or freed memory   *)
(* shows; unless the stage is adrift.                                      *)
DrawsAsAsked ==
  \A s \in Stage \ adrift :
    asked[s] # Anything => slot[s] # None /\ shows[slot[s]] = asked[s]
=============================================================================
