------------------------- MODULE D3D11BackendProofs -------------------------
(***************************************************************************)
(* Proofs about the Direct3D 11 backend, in two parts.                     *)
(*                                                                         *)
(* TextureSlots: for any number of textures, addresses, stages and views,  *)
(* and whatever creation fails, each view is released as often as it is    *)
(* held, and what is bound is alive and shows what was asked for.          *)
(*                                                                         *)
(* RenderStateFlush: for every set of vectors and every keying, what the   *)
(* backend remembers as bound is bound; and if no two different states     *)
(* share a key, a flush makes the context draw with what the vector says.  *)
(*                                                                         *)
(* The two share the device context, but no state.                         *)
(***************************************************************************)
EXTENDS TextureSlots, RenderStateFlush, FiniteSetTheorems, TLAPS

(*------------------------- counting references --------------------------*)

(* How many places of f hold v, and whether one place does.                *)
Holding(f, v) == Cardinality({x \in DOMAIN f : f[x] = v})
Is(x, v) == IF x = v THEN 1 ELSE 0

Views(c) == [t \in Texture |-> c[t].view]

(* The references held by stages, copies, targets and the stand-in.        *)
Total(sv, c, rt, n, v) ==
  Holding(sv, v) + Holding(Views(c), v) + Holding(rt, v) + Is(n, v)

LEMMA HoldingType ==
  ASSUME NEW S, IsFiniteSet(S), NEW T, NEW f \in [S -> T], NEW v
  PROVE  /\ Holding(f, v) \in Nat
         /\ \A x \in S : f[x] = v => Holding(f, v) >= 1
<1> DEFINE A == {x \in DOMAIN f : f[x] = v}
<1>1. A \subseteq S /\ IsFiniteSet(A)
  BY FS_Subset
<1>2. Cardinality(A) \in Nat
  BY <1>1, FS_CardinalityType
<1>3. ASSUME NEW x \in S, f[x] = v PROVE Cardinality(A) >= 1
  <2>1. A # {}
    BY <1>3
  <2> QED
    BY <2>1, <1>1, <1>2, FS_EmptySet
<1> QED
  BY <1>2, <1>3 DEF Holding

(* One place gives up what it holds, and takes something else.             *)
LEMMA Recount ==
  ASSUME NEW f, NEW g, IsFiniteSet(DOMAIN f), DOMAIN g = DOMAIN f,
         NEW x \in DOMAIN f, \A z \in DOMAIN f : z # x => g[z] = f[z], NEW v
  PROVE  Holding(g, v) = Holding(f, v) - Is(f[x], v) + Is(g[x], v)
<1> DEFINE A == {z \in DOMAIN f : f[z] = v}
           B == {z \in DOMAIN g : g[z] = v}
<1>1. IsFiniteSet(A) /\ IsFiniteSet(B)
  BY FS_Subset
<1>2. Cardinality(A) \in Nat /\ Cardinality(B) \in Nat
  BY <1>1, FS_CardinalityType
<1>a. Holding(f, v) = Cardinality(A) /\ Holding(g, v) = Cardinality(B)
  BY DEF Holding
<1>3. CASE f[x] = v /\ g[x] = v
  <2>1. A = B
    BY <1>3
  <2> HIDE DEF A, B
  <2> QED
    BY <2>1, <1>2, <1>a, <1>3 DEF Is
<1>4. CASE f[x] = v /\ g[x] # v
  <2>1. B = A \ {x} /\ x \in A
    BY <1>4
  <2>2. Cardinality(B) = Cardinality(A) - 1
    BY <2>1, <1>1, FS_RemoveElement
  <2> QED
    BY <2>2, <1>2, <1>4 DEF Holding, Is
<1>5. CASE f[x] # v /\ g[x] = v
  <2>1. B = A \cup {x} /\ x \notin A
    BY <1>5
  <2>2. Cardinality(B) = Cardinality(A) + 1
    BY <2>1, <1>1, FS_AddElement
  <2> QED
    BY <2>2, <1>2, <1>5 DEF Holding, Is
<1>6. CASE f[x] # v /\ g[x] # v
  <2>1. A = B
    BY <1>6
  <2> HIDE DEF A, B
  <2> QED
    BY <2>1, <1>2, <1>a, <1>6 DEF Is
<1> QED
  BY <1>3, <1>4, <1>5, <1>6

(* The types of those who hold views.                                      *)
HoldersOK(sv, c, rt, n) ==
  /\ sv \in [Stage -> View \cup {None}]
  /\ c \in [Texture -> [view : View \cup {None}, version : 0..MaxGeneration]]
  /\ rt \in [Address -> View \cup {None}]
  /\ n \in View \cup {None}

(* Whoever holds a view is counted, so a view not counted is held by none. *)
LEMMA Counted ==
  ASSUME NEW sv, NEW c, NEW rt, NEW n, HoldersOK(sv, c, rt, n), NEW v
  PROVE  /\ Total(sv, c, rt, n, v) \in Nat
         /\ \A s \in Stage : sv[s] = v => Total(sv, c, rt, n, v) >= 1
         /\ \A t \in Texture : c[t].view = v => Total(sv, c, rt, n, v) >= 1
         /\ \A a \in Address : rt[a] = v => Total(sv, c, rt, n, v) >= 1
         /\ n = v => Total(sv, c, rt, n, v) >= 1
<1>1. Views(c) \in [Texture -> View \cup {None}]
  BY DEF Views, HoldersOK
<1>2. /\ Holding(Views(c), v) \in Nat
      /\ \A t \in Texture : Views(c)[t] = v => Holding(Views(c), v) >= 1
  BY <1>1, HoldingType, TextureAssumption
<1>3. /\ Holding(sv, v) \in Nat
      /\ \A s \in Stage : sv[s] = v => Holding(sv, v) >= 1
  BY HoldingType, TextureAssumption DEF HoldersOK
<1>4. /\ Holding(rt, v) \in Nat
      /\ \A a \in Address : rt[a] = v => Holding(rt, v) >= 1
  BY HoldingType, TextureAssumption DEF HoldersOK
<1>5. \A t \in Texture : Views(c)[t] = c[t].view
  BY DEF Views
<1>6. Is(n, v) \in Nat /\ (n = v => Is(n, v) = 1)
  BY DEF Is
<1>7. Total(sv, c, rt, n, v) \in Nat
  BY <1>2, <1>3, <1>4, <1>6 DEF Total
<1>8. /\ Total(sv, c, rt, n, v) >= Holding(sv, v)
      /\ Total(sv, c, rt, n, v) >= Holding(Views(c), v)
      /\ Total(sv, c, rt, n, v) >= Holding(rt, v)
      /\ Total(sv, c, rt, n, v) >= Is(n, v)
  BY <1>2, <1>3, <1>4, <1>6 DEF Total
<1>9. ASSUME NEW k \in Nat, k >= 1, Total(sv, c, rt, n, v) >= k
      PROVE  Total(sv, c, rt, n, v) >= 1
  BY <1>7, <1>9
<1>10. \A s \in Stage : sv[s] = v => Total(sv, c, rt, n, v) >= 1
  BY <1>3, <1>8, <1>9
<1>11. \A t \in Texture : c[t].view = v => Total(sv, c, rt, n, v) >= 1
  BY <1>2, <1>5, <1>8, <1>9
<1>12. \A a \in Address : rt[a] = v => Total(sv, c, rt, n, v) >= 1
  BY <1>4, <1>8, <1>9
<1>13. n = v => Total(sv, c, rt, n, v) >= 1
  BY <1>6, <1>8, <1>9
<1> QED
  BY <1>7, <1>10, <1>11, <1>12, <1>13

(* How the total changes with a stage, ...                                 *)
LEMMA CountedStage ==
  ASSUME NEW sv, NEW c, NEW rt, NEW n, HoldersOK(sv, c, rt, n),
         NEW s \in Stage, NEW x \in View \cup {None}, NEW v
  PROVE  Total([sv EXCEPT ![s] = x], c, rt, n, v)
           = Total(sv, c, rt, n, v) - Is(sv[s], v) + Is(x, v)
<1> DEFINE g == [sv EXCEPT ![s] = x]
<1>a. /\ DOMAIN sv = Stage /\ DOMAIN g = Stage /\ g[s] = x
      /\ \A z \in Stage : z # s => g[z] = sv[z]
  BY DEF HoldersOK
<1>1. Holding(g, v) = Holding(sv, v) - Is(sv[s], v) + Is(x, v)
  <2> HIDE DEF g
  <2> QED
    BY <1>a, Recount, TextureAssumption
<1>2. Holding(sv, v) \in Nat /\ Holding(Views(c), v) \in Nat /\ Holding(rt, v) \in Nat
  <2>1. Views(c) \in [Texture -> View \cup {None}]
    BY DEF Views, HoldersOK
  <2> QED
    BY <2>1, HoldingType, TextureAssumption DEF HoldersOK
<1>3. Is(sv[s], v) \in Nat /\ Is(x, v) \in Nat /\ Is(n, v) \in Nat
  BY DEF Is
<1> QED
  BY <1>1, <1>2, <1>3 DEF Total

(* ... with a copy, ...                                                    *)
LEMMA CountedCopy ==
  ASSUME NEW sv, NEW c, NEW rt, NEW n, HoldersOK(sv, c, rt, n),
         NEW t \in Texture, NEW x \in View \cup {None}, NEW g, NEW v
  PROVE  Total(sv, [c EXCEPT ![t] = [view |-> x, version |-> g]], rt, n, v)
           = Total(sv, c, rt, n, v) - Is(c[t].view, v) + Is(x, v)
<1> DEFINE d == [c EXCEPT ![t] = [view |-> x, version |-> g]]
<1>1. Views(c) \in [Texture -> View \cup {None}]
  BY DEF Views, HoldersOK
<1>2. /\ DOMAIN Views(c) = Texture /\ DOMAIN Views(d) = Texture /\ Views(d)[t] = x
      /\ \A z \in Texture : z # t => Views(d)[z] = Views(c)[z]
  BY DEF Views, HoldersOK
<1>3. Holding(Views(d), v) = Holding(Views(c), v) - Is(Views(c)[t], v) + Is(x, v)
  <2> HIDE DEF d
  <2> QED
    BY <1>2, Recount, TextureAssumption
<1>4. Views(c)[t] = c[t].view
  BY DEF Views
<1>5. Holding(sv, v) \in Nat /\ Holding(Views(c), v) \in Nat /\ Holding(rt, v) \in Nat
  BY <1>1, HoldingType, TextureAssumption DEF HoldersOK
<1>6. Is(c[t].view, v) \in Nat /\ Is(x, v) \in Nat /\ Is(n, v) \in Nat
  BY DEF Is
<1> QED
  BY <1>3, <1>4, <1>5, <1>6 DEF Total

(* ... with a target, ...                                                  *)
LEMMA CountedTarget ==
  ASSUME NEW sv, NEW c, NEW rt, NEW n, HoldersOK(sv, c, rt, n),
         NEW a \in Address, NEW x \in View \cup {None}, NEW v
  PROVE  Total(sv, c, [rt EXCEPT ![a] = x], n, v)
           = Total(sv, c, rt, n, v) - Is(rt[a], v) + Is(x, v)
<1> DEFINE g == [rt EXCEPT ![a] = x]
<1>a. /\ DOMAIN rt = Address /\ DOMAIN g = Address /\ g[a] = x
      /\ \A z \in Address : z # a => g[z] = rt[z]
  BY DEF HoldersOK
<1>1. Holding(g, v) = Holding(rt, v) - Is(rt[a], v) + Is(x, v)
  <2> HIDE DEF g
  <2> QED
    BY <1>a, Recount, TextureAssumption
<1>2. Holding(sv, v) \in Nat /\ Holding(Views(c), v) \in Nat /\ Holding(rt, v) \in Nat
  <2>1. Views(c) \in [Texture -> View \cup {None}]
    BY DEF Views, HoldersOK
  <2> QED
    BY <2>1, HoldingType, TextureAssumption DEF HoldersOK
<1>3. Is(rt[a], v) \in Nat /\ Is(x, v) \in Nat /\ Is(n, v) \in Nat
  BY DEF Is
<1> QED
  BY <1>1, <1>2, <1>3 DEF Total

(* ... and with the stand-in.                                              *)
LEMMA CountedStandIn ==
  ASSUME NEW sv, NEW c, NEW rt, NEW n, HoldersOK(sv, c, rt, n), NEW m, NEW v
  PROVE  Total(sv, c, rt, m, v) = Total(sv, c, rt, n, v) - Is(n, v) + Is(m, v)
<1>1. Holding(sv, v) \in Nat /\ Holding(Views(c), v) \in Nat /\ Holding(rt, v) \in Nat
  <2>1. Views(c) \in [Texture -> View \cup {None}]
    BY DEF Views, HoldersOK
  <2> QED
    BY <2>1, HoldingType, TextureAssumption DEF HoldersOK
<1>2. Is(m, v) \in Nat /\ Is(n, v) \in Nat
  BY DEF Is
<1> QED
  BY <1>1, <1>2 DEF Total

(* Nobody holds a view, nobody is counted.                                 *)
LEMMA CountedNone ==
  ASSUME NEW sv, NEW c, NEW rt, NEW n, HoldersOK(sv, c, rt, n), NEW v \in View,
         \A s \in Stage : sv[s] = None, \A t \in Texture : c[t].view = None,
         \A a \in Address : rt[a] = None, n = None
  PROVE  Total(sv, c, rt, n, v) = 0
<1>1. v # None
  BY TextureAssumption
<1>2. {s \in DOMAIN sv : sv[s] = v} = {}
  BY <1>1 DEF HoldersOK
<1>3. {t \in DOMAIN Views(c) : Views(c)[t] = v} = {}
  BY <1>1 DEF Views
<1>4. {a \in DOMAIN rt : rt[a] = v} = {}
  BY <1>1 DEF HoldersOK
<1>5. Holding(sv, v) = 0 /\ Holding(Views(c), v) = 0 /\ Holding(rt, v) = 0
  BY <1>2, <1>3, <1>4, FS_EmptySet DEF Holding
<1>6. Is(n, v) = 0
  BY <1>1 DEF Is
<1> QED
  BY <1>5, <1>6 DEF Total

(* All stages that hold a view give it up at once.                         *)
LEMMA CountedEviction ==
  ASSUME NEW sv, NEW c, NEW rt, NEW n, HoldersOK(sv, c, rt, n), NEW v \in View,
         NEW w \in View
  PROVE  Total([s \in Stage |-> IF s \in {z \in Stage : sv[z] = v} THEN None ELSE sv[s]],
               c, rt, n, w)
           = Total(sv, c, rt, n, w)
               - (IF w = v THEN Cardinality({z \in Stage : sv[z] = v}) ELSE 0)
<1> DEFINE bound == {z \in Stage : sv[z] = v}
           g == [s \in Stage |-> IF s \in bound THEN None ELSE sv[s]]
<1>1. w # None /\ v # None /\ DOMAIN sv = Stage /\ DOMAIN g = Stage
  BY TextureAssumption DEF HoldersOK
<1>2. Holding(sv, w) \in Nat /\ Holding(Views(c), w) \in Nat /\ Holding(rt, w) \in Nat
  <2>1. Views(c) \in [Texture -> View \cup {None}]
    BY DEF Views, HoldersOK
  <2> QED
    BY <2>1, HoldingType, TextureAssumption DEF HoldersOK
<1>3. Is(n, w) \in Nat
  BY DEF Is
<1>4. Holding(g, w) = Holding(sv, w) - (IF w = v THEN Cardinality(bound) ELSE 0)
  <2>1. CASE w = v
    <3>1. {s \in DOMAIN g : g[s] = w} = {}
      BY <2>1, <1>1
    <3>2. {s \in DOMAIN sv : sv[s] = w} = bound
      BY <2>1, <1>1
    <3>3. Holding(g, w) = 0 /\ Holding(sv, w) = Cardinality(bound)
      BY <3>1, <3>2, FS_EmptySet DEF Holding
    <3> HIDE DEF g, bound
    <3> QED
      BY <2>1, <3>3, <1>2
  <2>2. CASE w # v
    <3>1. {s \in DOMAIN g : g[s] = w} = {s \in DOMAIN sv : sv[s] = w}
      BY <2>2, <1>1
    <3>2. Holding(g, w) = Holding(sv, w)
      BY <3>1 DEF Holding
    <3> HIDE DEF g, bound
    <3> QED
      BY <2>2, <3>2, <1>2
  <2> QED
    BY <2>1, <2>2
<1>5. (IF w = v THEN Cardinality(bound) ELSE 0) \in Int
  <2>1. IsFiniteSet(bound)
    BY FS_Subset, TextureAssumption
  <2>2. Cardinality(bound) \in Nat
    BY <2>1, FS_CardinalityType
  <2> HIDE DEF bound
  <2> QED
    BY <2>2
<1> HIDE DEF g, bound
<1>6. Total(g, c, rt, n, w)
        = Total(sv, c, rt, n, w) - (IF w = v THEN Cardinality(bound) ELSE 0)
  BY <1>2, <1>3, <1>4, <1>5 DEF Total
<1> QED
  BY <1>6 DEF g, bound

(* What Release and AddRef do to the count of a view.                      *)
LEMMA ReleaseCounts ==
  ASSUME NEW count \in [View -> Int], NEW v \in View \cup {None}
  PROVE  /\ Release(count, v) \in [View -> Int]
         /\ \A w \in View : Release(count, v)[w] = count[w] - Is(v, w)
<1>1. None \notin View
  BY TextureAssumption
<1> QED
  BY <1>1 DEF Release, Is

LEMMA AddRefCounts ==
  ASSUME NEW count \in [View -> Int], NEW v \in View
  PROVE  /\ AddRef(count, v) \in [View -> Int]
         /\ \A w \in View : AddRef(count, v)[w] = count[w] + Is(v, w)
  BY DEF AddRef, Is

(*----------------------- the inductive invariant ------------------------*)

Content == (Texture \cup {None}) \X Nat

Types == TypeOK /\ asked \in [Stage -> Content] /\ shows \in [View -> Content]

(* An object lives at one address, after it was made.                      *)
OneAddress ==
  /\ \A a, b \in Address : at[a] = at[b] /\ at[a] # None => a = b
  /\ \A a \in Address : at[a] \notin unborn

(* A copy is of a texture that is cached, and of the bytes it had when it  *)
(* was of that version.                                                    *)
CopiesOK(p, g, c, sh) ==
  \A t \in Texture : c[t].view # None =>
    /\ Cacheable(t) /\ c[t].version <= g[t]
    /\ c[t].version = g[t] => sh[c[t].view] = Bytes(t, p[t])

TargetsShow ==
  \A a \in Address : rtt[a] # None => shows[rtt[a]] = Rendered(at[a])

NeutralShows == neutral # None => shows[neutral] = White

(* Outside of the stages that are adrift the device has what was recorded, *)
(* and it shows what was asked for.                                        *)
StageOK(s) ==
  s \notin adrift =>
    /\ slot[s] = stageView[s]
    /\ asked[s] # Anything => slot[s] # None /\ shows[slot[s]] = asked[s]

TargetKept == target # None => \E a \in Address : rtt[a] = target

IInv ==
  /\ Types /\ ReferencesExact /\ OneAddress /\ OnlyLivingAreKept
  /\ CopiesOK(pixels, generation, cache, shows) /\ TargetsShow /\ NeutralShows
  /\ \A s \in Stage : StageOK(s)
  /\ TargetKept

Held(v) == Total(stageView, cache, rtt, neutral, v)

LEMMA HeldByIsHeld == ASSUME Types, NEW v PROVE HeldBy(v) = Held(v)
<1>1. {t \in DOMAIN Views(cache) : Views(cache)[t] = v} = {t \in Texture : cache[t].view = v}
  BY DEF Views
<1>2. DOMAIN stageView = Stage /\ DOMAIN rtt = Address
  BY DEF Types, TypeOK
<1> QED
  BY <1>1, <1>2 DEF HeldBy, Held, Total, Holding, Is

LEMMA HoldersTyped == ASSUME Types PROVE HoldersOK(stageView, cache, rtt, neutral)
  BY DEF Types, TypeOK, HoldersOK

(* A step that counts exactly those who hold a view after it: the counts   *)
(* are exact, and what is held shows what it should.                       *)
LEMMA CountedStep ==
  ASSUME HoldersOK(stageView', cache', rtt', neutral'),
         NEW count \in [View -> Int], NEW shown \in [View -> Content],
         Count(count, shown),
         \A v \in View : count[v] = Total(stageView', cache', rtt', neutral', v)
  PROVE  /\ refs' \in [View -> Nat] /\ shows' \in [View -> Content]
         /\ \A v \in View : refs'[v] = Held(v)'
         /\ \A s \in Stage : stageView'[s] # None =>
              shows'[stageView'[s]] = shown[stageView'[s]]
         /\ \A t \in Texture : cache'[t].view # None =>
              shows'[cache'[t].view] = shown[cache'[t].view]
         /\ \A a \in Address : rtt'[a] # None => shows'[rtt'[a]] = shown[rtt'[a]]
         /\ neutral' # None => shows'[neutral'] = shown[neutral']
<1> DEFINE sv == stageView'
           c == cache'
           rt == rtt'
           n == neutral'
<1>1. HoldersOK(sv, c, rt, n)
  OBVIOUS
<1> HIDE DEF sv, c, rt, n
<1>2. \A v :
         /\ Total(sv, c, rt, n, v) \in Nat
         /\ \A s \in Stage : sv[s] = v => Total(sv, c, rt, n, v) >= 1
         /\ \A t \in Texture : c[t].view = v => Total(sv, c, rt, n, v) >= 1
         /\ \A a \in Address : rt[a] = v => Total(sv, c, rt, n, v) >= 1
         /\ n = v => Total(sv, c, rt, n, v) >= 1
  BY <1>1, Counted
<1>3. refs' = count /\ shows' = [v \in View |-> IF count[v] = 0 THEN Freed ELSE shown[v]]
  BY DEF Count
<1>4. \A v \in View : count[v] = Total(sv, c, rt, n, v)
  BY DEF sv, c, rt, n
<1>5. Freed \in Content
  BY DEF Freed, Content
<1>6. refs' \in [View -> Nat] /\ shows' \in [View -> Content]
  BY <1>2, <1>3, <1>4, <1>5
<1>7. \A v \in View : Total(sv, c, rt, n, v) >= 1 => shows'[v] = shown[v]
  BY <1>2, <1>3, <1>4
<1>8. \A s \in Stage : sv[s] \in View \cup {None}
  BY <1>1 DEF HoldersOK
<1>9. \A t \in Texture : c[t].view \in View \cup {None}
  BY <1>1 DEF HoldersOK
<1>10. \A a \in Address : rt[a] \in View \cup {None}
  BY <1>1 DEF HoldersOK
<1>11. n \in View \cup {None}
  BY <1>1 DEF HoldersOK
<1>12. \A s \in Stage : sv[s] # None => shows'[sv[s]] = shown[sv[s]]
  BY <1>2, <1>7, <1>8
<1>13. \A t \in Texture : c[t].view # None => shows'[c[t].view] = shown[c[t].view]
  BY <1>2, <1>7, <1>9
<1>14. \A a \in Address : rt[a] # None => shows'[rt[a]] = shown[rt[a]]
  BY <1>2, <1>7, <1>10
<1>15. n # None => shows'[n] = shown[n]
  BY <1>2, <1>7, <1>11
<1>16. \A v \in View : refs'[v] = Held(v)'
  BY <1>3, <1>4 DEF Held, sv, c, rt, n
<1> QED
  BY <1>6, <1>12, <1>13, <1>14, <1>15, <1>16 DEF sv, c, rt, n

(* What is bound to a stage is what it shows; no other stage changes.      *)
LEMMA StagesAfterBinding ==
  ASSUME Types, \A s \in Stage : StageOK(s),
         NEW s \in Stage, NEW v \in View, NEW b \in BOOLEAN, NEW content \in Content,
         InStage(s, v, b, content), shows'[v] = content,
         \A z \in Stage : z # s /\ stageView[z] # None =>
           shows'[stageView[z]] = shows[stageView[z]]
  PROVE  /\ \A z \in Stage : StageOK(z)'
         /\ stageView' \in [Stage -> View \cup {None}]
         /\ slot' \in [Stage -> View \cup {None}]
         /\ stageNeutral' \in [Stage -> BOOLEAN] /\ adrift' \subseteq Stage
         /\ asked' \in [Stage -> Content]
<1>1. v # None
  BY TextureAssumption
<1>2. /\ stageView' = [stageView EXCEPT ![s] = v] /\ slot' = [slot EXCEPT ![s] = v]
      /\ stageNeutral' = [stageNeutral EXCEPT ![s] = b]
      /\ asked' = [asked EXCEPT ![s] = content] /\ adrift' = adrift \ {s}
  BY DEF InStage
<1>3. /\ stageView \in [Stage -> View \cup {None}] /\ slot \in [Stage -> View \cup {None}]
      /\ stageNeutral \in [Stage -> BOOLEAN] /\ adrift \subseteq Stage
      /\ asked \in [Stage -> Content]
  BY DEF Types, TypeOK
<1>4. StageOK(s)'
  <2>1. stageView'[s] = v /\ slot'[s] = v /\ asked'[s] = content
    BY <1>2, <1>3
  <2> QED
    BY <2>1, <1>1 DEF StageOK
<1>5. ASSUME NEW z \in Stage, z # s PROVE StageOK(z)'
  <2>1. /\ stageView'[z] = stageView[z] /\ slot'[z] = slot[z] /\ asked'[z] = asked[z]
        /\ z \in adrift' <=> z \in adrift
    BY <1>2, <1>3, <1>5
  <2>2. StageOK(z) /\ (stageView[z] # None => shows'[stageView[z]] = shows[stageView[z]])
    BY <1>5
  <2> QED
    BY <2>1, <2>2 DEF StageOK
<1> QED
  BY <1>2, <1>3, <1>4, <1>5

LEMMA ExactAfter ==
  ASSUME HoldersOK(stageView', cache', rtt', neutral'), \A v \in View : refs'[v] = Held(v)'
  PROVE  ReferencesExact'
<1> SUFFICES ASSUME NEW v \in View PROVE refs'[v] = HeldBy(v)'
  BY DEF ReferencesExact
<1>1. {t \in DOMAIN Views(cache') : Views(cache')[t] = v} = {t \in Texture : cache'[t].view = v}
  BY DEF Views
<1>2. DOMAIN stageView' = Stage /\ DOMAIN rtt' = Address
  BY DEF HoldersOK
<1>3. HeldBy(v)' = Held(v)'
  BY <1>1, <1>2 DEF HeldBy, Held, Total, Holding, Is
<1> QED
  BY <1>3

(* The exact counts, as the total the lemmas speak of.                     *)
LEMMA ExactNow ==
  ASSUME Types, ReferencesExact
  PROVE  refs \in [View -> Int] /\ \A v \in View : refs[v] = Held(v) /\ Held(v) \in Nat
<1>1. refs \in [View -> Int] /\ \A v \in View : refs[v] \in Nat
  BY DEF Types, TypeOK
<1>2. \A v \in View : refs[v] = Held(v)
  BY HeldByIsHeld DEF ReferencesExact
<1> QED
  BY <1>1, <1>2

(* A view without references, but for those of one stage, is held by       *)
(* nobody else.                                                            *)
LEMMA FreshView ==
  ASSUME Types, NEW s \in Stage, NEW v \in View, Held(v) - Is(stageView[s], v) = 0
  PROVE  /\ \A z \in Stage : z # s => stageView[z] # v
         /\ \A t \in Texture : cache[t].view # v
         /\ \A a \in Address : rtt[a] # v
         /\ neutral # v
<1> DEFINE g == [stageView EXCEPT ![s] = None]
<1>1. HoldersOK(stageView, cache, rtt, neutral)
  BY HoldersTyped
<1>2. HoldersOK(g, cache, rtt, neutral)
  BY <1>1 DEF HoldersOK
<1>3. v # None
  BY TextureAssumption
<1>4. Total(g, cache, rtt, neutral, v) = Held(v) - Is(stageView[s], v) + Is(None, v)
  BY <1>1, CountedStage DEF Held
<1>5. Is(None, v) = 0
  BY <1>3 DEF Is
<1>6. \A z \in Stage : z # s => g[z] = stageView[z]
  BY <1>1 DEF HoldersOK
<1> HIDE DEF g
<1>7. Total(g, cache, rtt, neutral, v) = 0
  BY <1>4, <1>5
<1>8. /\ \A z \in Stage : g[z] = v => Total(g, cache, rtt, neutral, v) >= 1
      /\ \A t \in Texture : cache[t].view = v => Total(g, cache, rtt, neutral, v) >= 1
      /\ \A a \in Address : rtt[a] = v => Total(g, cache, rtt, neutral, v) >= 1
      /\ neutral = v => Total(g, cache, rtt, neutral, v) >= 1
  BY <1>2, Counted
<1> QED
  BY <1>6, <1>7, <1>8

(* What does not depend on the stages, when no copy, target or address     *)
(* changes and what they hold still shows the same.                        *)
LEMMA KeptSame ==
  ASSUME IInv, UNCHANGED <<at, unborn, cache, rtt, target>>,
         CopiesOK(pixels', generation', cache, shows),
         \A t \in Texture : cache[t].view # None => shows'[cache[t].view] = shows[cache[t].view],
         \A a \in Address : rtt[a] # None => shows'[rtt[a]] = shows[rtt[a]]
  PROVE  /\ OneAddress' /\ OnlyLivingAreKept'
         /\ CopiesOK(pixels, generation, cache, shows)' /\ TargetsShow' /\ TargetKept'
<1>1. OneAddress' /\ OnlyLivingAreKept' /\ TargetKept'
  BY DEF IInv, OneAddress, OnlyLivingAreKept, TargetKept
<1>2. TargetsShow'
  BY DEF IInv, TargetsShow
<1>3. CopiesOK(pixels', generation', cache', shows')
  BY DEF CopiesOK
<1> QED
  BY <1>1, <1>2, <1>3

(* What a bind finds: a load that ends makes a new version.                *)
LEMMA FoundKeeps ==
  ASSUME Types, CopiesOK(pixels, generation, cache, shows),
         NEW t \in Texture, NEW p \in 0..MaxPixels, NEW g \in 0..MaxGeneration,
         Found(t, p, g)
  PROVE  /\ pixels' \in [Texture -> 0..MaxPixels] /\ pixels'[t] = p
         /\ generation' \in [Texture -> 0..MaxGeneration] /\ generation'[t] = g
         /\ UNCHANGED <<at, unborn>>
         /\ CopiesOK(pixels', generation', cache, shows)
<1>1. /\ pixels \in [Texture -> 0..MaxPixels]
      /\ generation \in [Texture -> 0..MaxGeneration]
      /\ \A q \in Texture : cache[q].version \in 0..MaxGeneration
      /\ MaxPixels \in Nat /\ MaxGeneration \in Nat
  BY TextureAssumption DEF Types, TypeOK
<1>2. /\ pixels' = [pixels EXCEPT ![t] = p]
      /\ generation' = [generation EXCEPT ![t] = g] /\ UNCHANGED <<at, unborn>>
  BY DEF Found
<1>3. \/ p = pixels[t] /\ g = generation[t]
      \/ g = generation[t] + 1
  BY DEF Found, Surface
<1>4. \A q \in Texture :
        q # t => pixels'[q] = pixels[q] /\ generation'[q] = generation[q]
  BY <1>1, <1>2
<1>5. pixels'[t] = p /\ generation'[t] = g
  BY <1>1, <1>2
<1>6. ASSUME NEW q \in Texture, cache[q].view # None
      PROVE  /\ Cacheable(q) /\ cache[q].version <= generation'[q]
             /\ cache[q].version = generation'[q] => shows[cache[q].view] = Bytes(q, pixels'[q])
  <2>1. /\ Cacheable(q) /\ cache[q].version <= generation[q]
        /\ cache[q].version = generation[q] => shows[cache[q].view] = Bytes(q, pixels[q])
    BY <1>6 DEF CopiesOK
  <2>2. CASE q # t
    BY <2>1, <2>2, <1>4
  <2>3. CASE q = t /\ p = pixels[t] /\ g = generation[t]
    BY <2>1, <2>3, <1>5
  <2>4. CASE q = t /\ g = generation[t] + 1
    BY <2>1, <2>4, <1>1, <1>5
  <2> QED
    BY <2>2, <2>3, <2>4, <1>3
<1>7. CopiesOK(pixels', generation', cache, shows)
  BY <1>6 DEF CopiesOK
<1> QED
  BY <1>1, <1>2, <1>5, <1>7

(* A stage gives up what it holds and borrows a view that there is.        *)
LEMMA BindExisting ==
  ASSUME IInv,
         pixels' \in [Texture -> 0..MaxPixels],
         generation' \in [Texture -> 0..MaxGeneration],
         CopiesOK(pixels', generation', cache, shows),
         UNCHANGED <<at, unborn, kept, target>>,
         NEW s \in Stage, NEW v \in View, NEW b \in BOOLEAN, NEW content \in Content,
         shows[v] = content, InStage(s, v, b, content),
         NEW count \in [View -> Int], Count(count, shows),
         \A w \in View : count[w] = Held(w) - Is(stageView[s], w) + Is(v, w)
  PROVE  IInv'
<1>1. Types /\ HoldersOK(stageView, cache, rtt, neutral)
  BY HoldersTyped DEF IInv
<1>2. stageView \in [Stage -> View \cup {None}] /\ shows \in [View -> Content]
  BY <1>1 DEF Types, TypeOK
<1>3. UNCHANGED <<cache, rtt, neutral, neutralFailed>>
  BY DEF kept
<1>4. stageView' = [stageView EXCEPT ![s] = v] /\ stageView' \in [Stage -> View \cup {None}]
  BY <1>2 DEF InStage
<1>5. HoldersOK(stageView', cache', rtt', neutral')
  BY <1>1, <1>3, <1>4 DEF HoldersOK
<1>6. \A w \in View : count[w] = Total(stageView', cache', rtt', neutral', w)
  <2> TAKE w \in View
  <2>1. Total([stageView EXCEPT ![s] = v], cache, rtt, neutral, w)
          = Held(w) - Is(stageView[s], w) + Is(v, w)
    BY <1>1, CountedStage DEF Held
  <2> QED
    BY <1>3, <1>4, <2>1
<1>7. /\ refs' \in [View -> Nat] /\ shows' \in [View -> Content]
      /\ \A w \in View : refs'[w] = Held(w)'
      /\ \A z \in Stage : stageView'[z] # None => shows'[stageView'[z]] = shows[stageView'[z]]
      /\ \A t \in Texture : cache'[t].view # None => shows'[cache'[t].view] = shows[cache'[t].view]
      /\ \A a \in Address : rtt'[a] # None => shows'[rtt'[a]] = shows[rtt'[a]]
      /\ neutral' # None => shows'[neutral'] = shows[neutral']
  BY <1>2, <1>5, <1>6, CountedStep
<1>8. ReferencesExact'
  BY <1>5, <1>7, ExactAfter
<1>9. NeutralShows'
  BY <1>3, <1>7 DEF IInv, NeutralShows
<1>10. v # None
  BY TextureAssumption
<1>11. shows'[v] = content
  BY <1>2, <1>4, <1>7, <1>10
<1>12. \A z \in Stage : z # s /\ stageView[z] # None => shows'[stageView[z]] = shows[stageView[z]]
  BY <1>2, <1>4, <1>7
<1>13. \A z \in Stage : StageOK(z)
  BY DEF IInv
<1>14. /\ \A z \in Stage : StageOK(z)'
       /\ slot' \in [Stage -> View \cup {None}]
       /\ stageNeutral' \in [Stage -> BOOLEAN] /\ adrift' \subseteq Stage
       /\ asked' \in [Stage -> Content]
  BY <1>1, <1>11, <1>12, <1>13, StagesAfterBinding
<1>15. Types'
  <2>1. /\ at' \in [Address -> Texture \cup {None}] /\ unborn' \subseteq Texture
        /\ target' \in View \cup {None} /\ neutralFailed' \in BOOLEAN
    BY <1>1, <1>3 DEF Types, TypeOK
  <2> QED
    BY <1>5, <1>7, <1>14, <2>1 DEF Types, TypeOK, HoldersOK
<1>16. /\ \A t \in Texture : cache[t].view # None => shows'[cache[t].view] = shows[cache[t].view]
       /\ \A a \in Address : rtt[a] # None => shows'[rtt[a]] = shows[rtt[a]]
  BY <1>3, <1>7
<1> QED
  BY <1>3, <1>8, <1>9, <1>14, <1>15, <1>16, KeptSame DEF IInv

(* The four outcomes of Bind_Neutral_Texture.                              *)
LEMMA BindNeutralKeeps ==
  ASSUME IInv,
         pixels' \in [Texture -> 0..MaxPixels],
         generation' \in [Texture -> 0..MaxGeneration],
         CopiesOK(pixels', generation', cache, shows),
         UNCHANGED <<at, unborn, cache, rtt, target>>,
         NEW s \in Stage, NEW marked \in BOOLEAN, NEW held \in {stageView[s], None},
         NEW count \in [View -> Int],
         \A v \in View : count[v] = Held(v) - Is(stageView[s], v) + Is(held, v),
         BindNeutral(s, marked, held, count)
  PROVE  IInv'
<1> DEFINE freed == Release(count, held)
<1>1. Types /\ HoldersOK(stageView, cache, rtt, neutral)
  BY HoldersTyped DEF IInv
<1>2. /\ stageView \in [Stage -> View \cup {None}] /\ slot \in [Stage -> View \cup {None}]
      /\ stageNeutral \in [Stage -> BOOLEAN] /\ adrift \subseteq Stage
      /\ asked \in [Stage -> Content] /\ shows \in [View -> Content]
      /\ held \in View \cup {None} /\ neutral \in View \cup {None}
  BY <1>1 DEF Types, TypeOK
<1>3. /\ freed \in [View -> Int]
      /\ \A v \in View : freed[v] = Held(v) - Is(stageView[s], v)
  <2>1. /\ freed \in [View -> Int]
        /\ \A v \in View : freed[v] = count[v] - Is(held, v)
    BY <1>2, ReleaseCounts
  <2>2. \A v \in View : Held(v) \in Int /\ Is(held, v) \in Int /\ Is(stageView[s], v) \in Int
    BY <1>1, ExactNow DEF IInv, Is
  <2> HIDE DEF freed
  <2> QED
    BY <2>1, <2>2
<1>4. White \in Content /\ White # Anything
  BY DEF White, Anything, Content
<1>5. \A z \in Stage : StageOK(z)
  BY DEF IInv
<1>6. NeutralShows
  BY DEF IInv
<1>7. ASSUME HoldersOK(stageView', cache', rtt', neutral'), neutralFailed' \in BOOLEAN,
             stageNeutral' \in [Stage -> BOOLEAN], slot' \in [Stage -> View \cup {None}],
             adrift' \subseteq Stage, asked' \in [Stage -> Content],
             refs' \in [View -> Nat], shows' \in [View -> Content]
      PROVE  Types'
  <2>1. /\ at' \in [Address -> Texture \cup {None}] /\ unborn' \subseteq Texture
        /\ target' \in View \cup {None}
    BY <1>1 DEF Types, TypeOK
  <2> QED
    BY <1>7, <2>1 DEF Types, TypeOK, HoldersOK
<1>8. CASE /\ neutral # None /\ AlreadyNeutral(marked, held)
           /\ Count(count, shows)
           /\ asked' = [asked EXCEPT ![s] = White]
           /\ UNCHANGED <<stageView, stageNeutral, slot, adrift, neutral, neutralFailed>>
  <2>1. held = neutral /\ held = stageView[s]
    BY <1>8 DEF AlreadyNeutral
  <2>2. \A v \in View : count[v] = Total(stageView', cache', rtt', neutral', v)
    <3>1. \A v \in View : Held(v) \in Int /\ Is(stageView[s], v) \in Int
      BY <1>1, ExactNow DEF IInv, Is
    <3>2. \A v \in View : count[v] = Held(v)
      BY <2>1, <3>1
    <3> QED
      BY <3>2, <1>8 DEF Held
  <2>3. HoldersOK(stageView', cache', rtt', neutral')
    BY <1>1, <1>8
  <2>4. /\ refs' \in [View -> Nat] /\ shows' \in [View -> Content]
        /\ \A v \in View : refs'[v] = Held(v)'
        /\ \A z \in Stage : stageView[z] # None => shows'[stageView[z]] = shows[stageView[z]]
        /\ \A t \in Texture : cache[t].view # None => shows'[cache[t].view] = shows[cache[t].view]
        /\ \A a \in Address : rtt[a] # None => shows'[rtt[a]] = shows[rtt[a]]
        /\ shows'[neutral] = shows[neutral]
    BY <1>2, <1>8, <2>2, <2>3, CountedStep
  <2>5. ReferencesExact'
    BY <2>3, <2>4, ExactAfter
  <2>6. NeutralShows'
    BY <1>6, <1>8, <2>4 DEF NeutralShows
  <2>7. asked' \in [Stage -> Content] /\ asked'[s] = White
        /\ \A z \in Stage : z # s => asked'[z] = asked[z]
    BY <1>2, <1>4, <1>8
  <2>8. \A z \in Stage : StageOK(z)'
    <3>1. StageOK(s)'
      BY <1>5, <1>6, <1>8, <2>1, <2>4, <2>7 DEF StageOK, NeutralShows
    <3>2. ASSUME NEW z \in Stage, z # s PROVE StageOK(z)'
      BY <1>5, <1>8, <2>4, <2>7, <3>2 DEF StageOK
    <3> QED
      BY <3>1, <3>2
  <2>9. Types'
    <3>1. neutralFailed' \in BOOLEAN
      BY <1>1, <1>8 DEF Types, TypeOK
    <3> QED
      BY <1>2, <1>7, <1>8, <2>3, <2>4, <2>7, <3>1
  <2> QED
    BY <2>4, <2>5, <2>6, <2>8, <2>9, KeptSame DEF IInv
<1>9. CASE /\ neutral # None /\ ~AlreadyNeutral(marked, held)
           /\ Count(AddRef(freed, neutral), shows)
           /\ InStage(s, neutral, TRUE, White)
           /\ UNCHANGED <<neutral, neutralFailed>>
  <2> DEFINE after == AddRef(freed, neutral)
  <2> HIDE DEF freed
  <2>1. neutral \in View /\ shows[neutral] = White
    BY <1>2, <1>6, <1>9 DEF NeutralShows
  <2>2. after \in [View -> Int] /\ \A v \in View : after[v] = freed[v] + Is(neutral, v)
    BY <1>3, <2>1, AddRefCounts
  <2>3. Count(after, shows) /\ UNCHANGED kept
    BY <1>9 DEF kept
  <2> HIDE DEF after
  <2>4. \A v \in View : after[v] = Held(v) - Is(stageView[s], v) + Is(neutral, v)
    BY <1>3, <2>2
  <2> QED
    BY <1>4, <1>9, <2>1, <2>2, <2>3, <2>4, BindExisting
<1>10. ASSUME neutral = None, NEW v \in View, Make(freed, v, 2, White),
              InStage(s, v, TRUE, White), neutral' = v, UNCHANGED neutralFailed
       PROVE  IInv'
  <2> DEFINE after == [freed EXCEPT ![v] = 2]
             shown == [shows EXCEPT ![v] = White]
  <2> HIDE DEF freed
  <2>1. freed[v] = 0 /\ Count(after, shown)
    BY <1>10 DEF Make
  <2>2. v # None /\ neutral # v
    BY <1>10, TextureAssumption
  <2>3. /\ after \in [View -> Int] /\ after[v] = 2 /\ \A w \in View : w # v => after[w] = freed[w]
        /\ shown \in [View -> Content] /\ shown[v] = White
        /\ \A w \in View : w # v => shown[w] = shows[w]
    BY <1>2, <1>3, <1>4
  <2>4. stageView' = [stageView EXCEPT ![s] = v] /\ stageView' \in [Stage -> View \cup {None}]
    BY <1>2 , <1>10 DEF InStage
  <2>5. HoldersOK(stageView', cache', rtt', neutral)
    BY <1>1, <2>4 DEF HoldersOK
  <2>6. HoldersOK(stageView', cache', rtt', neutral')
    BY <1>1, <1>10, <2>4 DEF HoldersOK
  <2>7. /\ \A z \in Stage : z # s => stageView[z] # v
        /\ \A t \in Texture : cache[t].view # v
        /\ \A a \in Address : rtt[a] # v
    BY <1>1, <1>3, <2>1, FreshView
  <2> HIDE DEF after, shown
  <2>8. ASSUME NEW w \in View
        PROVE  after[w] = Total(stageView', cache', rtt', neutral', w)
    <3>1. Total(stageView', cache', rtt', neutral, w)
            = Held(w) - Is(stageView[s], w) + Is(v, w)
      <4>1. Total([stageView EXCEPT ![s] = v], cache, rtt, neutral, w)
              = Held(w) - Is(stageView[s], w) + Is(v, w)
        BY <1>1, CountedStage DEF Held
      <4> QED
        BY <2>4, <4>1
    <3>2. Total(stageView', cache', rtt', neutral', w)
            = Total(stageView', cache', rtt', neutral, w) - Is(neutral, w) + Is(v, w)
      BY <1>10, <2>5, CountedStandIn
    <3>3. freed[w] = Held(w) - Is(stageView[s], w) /\ freed[w] \in Int
      BY <1>3
    <3>4. Is(neutral, w) = 0 /\ Is(v, w) = IF w = v THEN 1 ELSE 0
      BY <1>10, TextureAssumption DEF Is
    <3>5. Total(stageView', cache', rtt', neutral', w) = freed[w] + 2 * Is(v, w)
      BY <3>1, <3>2, <3>3, <3>4
    <3> QED
      BY <3>3, <3>4, <3>5, <2>1, <2>3
  <2>9. /\ refs' \in [View -> Nat] /\ shows' \in [View -> Content]
        /\ \A w \in View : refs'[w] = Held(w)'
        /\ \A z \in Stage : stageView'[z] # None => shows'[stageView'[z]] = shown[stageView'[z]]
        /\ \A t \in Texture : cache'[t].view # None => shows'[cache'[t].view] = shown[cache'[t].view]
        /\ \A a \in Address : rtt'[a] # None => shows'[rtt'[a]] = shown[rtt'[a]]
        /\ neutral' # None => shows'[neutral'] = shown[neutral']
    BY <2>1, <2>3, <2>6, <2>8, CountedStep
  <2>10. /\ \A t \in Texture : cache[t].view # None => shows'[cache[t].view] = shows[cache[t].view]
         /\ \A a \in Address : rtt[a] # None => shows'[rtt[a]] = shows[rtt[a]]
    BY <1>1, <2>3, <2>7, <2>9 DEF HoldersOK
  <2>11. \A z \in Stage : z # s /\ stageView[z] # None => shows'[stageView[z]] = shows[stageView[z]]
    BY <1>2, <2>3, <2>4, <2>7, <2>9
  <2>12. NeutralShows' /\ shows'[v] = White
    BY <1>10, <2>2, <2>3, <2>9 DEF NeutralShows
  <2>13. ReferencesExact'
    BY <2>6, <2>9, ExactAfter
  <2>14. /\ \A z \in Stage : StageOK(z)'
         /\ slot' \in [Stage -> View \cup {None}]
         /\ stageNeutral' \in [Stage -> BOOLEAN] /\ adrift' \subseteq Stage
         /\ asked' \in [Stage -> Content]
    BY <1>1, <1>4, <1>5, <1>10, <2>11, <2>12, StagesAfterBinding
  <2>15. Types'
    <3>1. neutralFailed' \in BOOLEAN
      BY <1>1, <1>10 DEF Types, TypeOK
    <3> QED
      BY <1>7, <2>6, <2>9, <2>14, <3>1
  <2> QED
    BY <2>10, <2>9, <2>12, <2>13, <2>14, <2>15, KeptSame DEF IInv
<1>11. CASE /\ neutral = None
            /\ neutralFailed' = TRUE
            /\ Count(count, shows)
            /\ stageView' = [stageView EXCEPT ![s] = held]
            /\ stageNeutral' = [stageNeutral EXCEPT ![s] = marked]
            /\ asked' = [asked EXCEPT ![s] = White]
            /\ adrift' = adrift \cup {s}
            /\ UNCHANGED <<slot, neutral>>
  <2>1. /\ stageView' \in [Stage -> View \cup {None}] /\ stageNeutral' \in [Stage -> BOOLEAN]
        /\ asked' \in [Stage -> Content] /\ adrift' \subseteq Stage
        /\ slot' \in [Stage -> View \cup {None}]
    BY <1>2, <1>4, <1>11
  <2>2. HoldersOK(stageView', cache', rtt', neutral')
    BY <1>1, <1>11, <2>1 DEF HoldersOK
  <2>3. \A v \in View : count[v] = Total(stageView', cache', rtt', neutral', v)
    <3> TAKE v \in View
    <3>a. held \in View \cup {None}
      BY <1>2
    <3>1. Total([stageView EXCEPT ![s] = held], cache, rtt, neutral, v)
            = Held(v) - Is(stageView[s], v) + Is(held, v)
      BY <1>1, <3>a, CountedStage DEF Held
    <3> QED
      BY <1>11, <3>1
  <2>4. /\ refs' \in [View -> Nat] /\ shows' \in [View -> Content]
        /\ \A w \in View : refs'[w] = Held(w)'
        /\ \A z \in Stage : stageView'[z] # None => shows'[stageView'[z]] = shows[stageView'[z]]
        /\ \A t \in Texture : cache[t].view # None => shows'[cache[t].view] = shows[cache[t].view]
        /\ \A a \in Address : rtt[a] # None => shows'[rtt[a]] = shows[rtt[a]]
    <3>1. /\ count \in [View -> Int] /\ shows \in [View -> Content] /\ Count(count, shows)
          /\ cache' = cache /\ rtt' = rtt
      BY <1>2, <1>11
    <3>2. /\ refs' \in [View -> Nat] /\ shows' \in [View -> Content]
          /\ \A w \in View : refs'[w] = Held(w)'
          /\ \A z \in Stage : stageView'[z] # None => shows'[stageView'[z]] = shows[stageView'[z]]
          /\ \A t \in Texture : cache'[t].view # None =>
               shows'[cache'[t].view] = shows[cache'[t].view]
          /\ \A a \in Address : rtt'[a] # None => shows'[rtt'[a]] = shows[rtt'[a]]
      BY <2>2, <2>3, <3>1, CountedStep
    <3> QED
      BY <3>1, <3>2
  <2>5. ReferencesExact'
    BY <2>2, <2>4, ExactAfter
  <2>6. NeutralShows'
    BY <1>11 DEF NeutralShows
  <2>7. ASSUME NEW z \in Stage PROVE StageOK(z)'
    <3>1. CASE z = s
      BY <1>11, <3>1 DEF StageOK
    <3>2. CASE z # s
      <4>1. /\ stageView'[z] = stageView[z] /\ slot'[z] = slot[z] /\ asked'[z] = asked[z]
            /\ z \in adrift' <=> z \in adrift
        BY <1>2, <1>11, <3>2
      <4> QED
        BY <1>5, <2>4, <4>1 DEF StageOK
    <3> QED
      BY <3>1, <3>2
  <2>8. Types'
    BY <1>7, <1>11, <2>1, <2>2, <2>4
  <2> QED
    BY <2>4, <2>5, <2>6, <2>7, <2>8, KeptSame DEF IInv
<1> QED
  BY <1>8, <1>9, <1>10, <1>11 DEF BindNeutral

(* A new view of what was just uploaded: the stage takes it, and the cache,*)
(* instead of the copy of an older version.                                *)
LEMMA UploadKeeps ==
  ASSUME IInv,
         pixels' \in [Texture -> 0..MaxPixels],
         generation' \in [Texture -> 0..MaxGeneration],
         CopiesOK(pixels', generation', cache, shows),
         UNCHANGED <<at, unborn, target>>,
         NEW s \in Stage, NEW a \in Address, NEW t \in Texture, at[a] = t,
         NEW g \in 0..MaxGeneration, g = generation'[t],
         NEW content \in Content, Cacheable(t) => content = Bytes(t, pixels'[t]),
         Upload(s, t, g, content)
  PROVE  IInv'
<1> DEFINE freed == Release(refs, stageView[s])
           dropped == IF Cacheable(t) THEN Release(freed, cache[t].view) ELSE freed
<1>1. Types /\ HoldersOK(stageView, cache, rtt, neutral)
  BY HoldersTyped DEF IInv
<1>2. /\ stageView \in [Stage -> View \cup {None}] /\ shows \in [View -> Content]
      /\ stageView[s] \in View \cup {None} /\ cache[t].view \in View \cup {None}
      /\ cache \in [Texture -> [view : View \cup {None}, version : 0..MaxGeneration]]
  BY <1>1 DEF Types, TypeOK
<1>3. refs \in [View -> Int] /\ \A w \in View : refs[w] = Held(w) /\ Held(w) \in Int
  BY <1>1, ExactNow DEF IInv
<1>4. freed \in [View -> Int] /\ \A w \in View : freed[w] = Held(w) - Is(stageView[s], w)
  BY <1>2, <1>3, ReleaseCounts
<1> HIDE DEF freed
<1>5. /\ dropped \in [View -> Int]
      /\ \A w \in View :
           dropped[w] = freed[w] - (IF Cacheable(t) THEN Is(cache[t].view, w) ELSE 0)
  <2>1. CASE Cacheable(t)
    <3>1. /\ Release(freed, cache[t].view) \in [View -> Int]
          /\ \A w \in View : Release(freed, cache[t].view)[w] = freed[w] - Is(cache[t].view, w)
      BY <1>2, <1>4, ReleaseCounts
    <3> QED
      BY <2>1, <3>1
  <2>2. CASE ~Cacheable(t)
    BY <2>2, <1>4
  <2> QED
    BY <2>1, <2>2
<1> DEFINE after(v) == [dropped EXCEPT ![v] = IF Cacheable(t) THEN 2 ELSE 1]
           shown(v) == [shows EXCEPT ![v] = content]
<1>6. PICK v \in View :
        /\ freed[v] = 0 /\ Count(after(v), shown(v))
        /\ InStage(s, v, FALSE, content) /\ Stored(t, v, g)
        /\ UNCHANGED <<rtt, neutral, neutralFailed>>
  BY DEF Upload, freed
<1> HIDE DEF dropped
<1>7. /\ after(v) \in [View -> Int] /\ after(v)[v] = IF Cacheable(t) THEN 2 ELSE 1
      /\ \A w \in View : w # v => after(v)[w] = dropped[w]
      /\ shown(v) \in [View -> Content] /\ shown(v)[v] = content
      /\ \A w \in View : w # v => shown(v)[w] = shows[w]
  BY <1>2, <1>5
<1> DEFINE count == after(v)
           sh == shown(v)
<1> HIDE DEF count, sh
<1>8. /\ \A z \in Stage : z # s => stageView[z] # v
      /\ \A q \in Texture : cache[q].view # v
      /\ \A b \in Address : rtt[b] # v
      /\ neutral # v /\ v # None
  BY <1>1, <1>4, <1>6, FreshView, TextureAssumption
<1>9. stageView' = [stageView EXCEPT ![s] = v] /\ stageView' \in [Stage -> View \cup {None}]
  BY <1>2, <1>6 DEF InStage
<1>10. cache' = IF Cacheable(t) THEN [cache EXCEPT ![t] = [view |-> v, version |-> g]] ELSE cache
  BY <1>6 DEF Stored
<1>11. cache' \in [Texture -> [view : View \cup {None}, version : 0..MaxGeneration]]
  BY <1>2, <1>10
<1>12. HoldersOK(stageView', cache, rtt, neutral) /\ HoldersOK(stageView', cache', rtt', neutral')
  BY <1>1, <1>6, <1>9, <1>11 DEF HoldersOK
<1>13. ASSUME NEW w \in View
       PROVE  count[w] = Total(stageView', cache', rtt', neutral', w)
  <2> DEFINE x == IF Cacheable(t) THEN Is(cache[t].view, w) ELSE 0
             y == IF Cacheable(t) THEN Is(v, w) ELSE 0
  <2>1. Total([stageView EXCEPT ![s] = v], cache, rtt, neutral, w)
          = Held(w) - Is(stageView[s], w) + Is(v, w)
    BY <1>1, CountedStage DEF Held
  <2>2. Total(stageView', cache, rtt, neutral, w) = freed[w] + Is(v, w)
    BY <1>4, <1>9, <2>1
  <2>3. x \in Int /\ y \in Int /\ Is(v, w) \in Int /\ freed[w] \in Int
    BY <1>4 DEF Is
  <2>4. Total(stageView', cache', rtt', neutral', w)
          = Total(stageView', cache, rtt, neutral, w) - x + y
    <3>1. CASE Cacheable(t)
      <4>1. Total(stageView', [cache EXCEPT ![t] = [view |-> v, version |-> g]], rtt, neutral, w)
              = Total(stageView', cache, rtt, neutral, w) - Is(cache[t].view, w) + Is(v, w)
        BY <1>12, CountedCopy
      <4> QED
        BY <3>1, <4>1, <1>6, <1>10
    <3>2. CASE ~Cacheable(t)
      BY <3>2, <1>6, <1>10, <2>2, <2>3
    <3> QED
      BY <3>1, <3>2
  <2>5. dropped[w] = freed[w] - x
    BY <1>5
  <2>6. Is(v, w) = (IF w = v THEN 1 ELSE 0) /\ (w = v => x = 0)
    BY <1>8 DEF Is
  <2>7. y = (IF w = v THEN (IF Cacheable(t) THEN 1 ELSE 0) ELSE 0)
    BY DEF Is
  <2>8. count[w] = IF w = v THEN (IF Cacheable(t) THEN 2 ELSE 1) ELSE dropped[w]
    BY <1>7 DEF count
  <2> HIDE DEF x, y
  <2>9. Total(stageView', cache', rtt', neutral', w) = freed[w] + Is(v, w) - x + y
    BY <2>2, <2>3, <2>4
  <2>10. CASE w = v
    BY <2>10, <2>3, <2>6, <2>7, <2>8, <2>9, <1>6
  <2>11. CASE w # v
    BY <2>11, <2>3, <2>5, <2>6, <2>7, <2>8, <2>9
  <2> QED
    BY <2>10, <2>11
<1>14. Count(count, sh) /\ count \in [View -> Int] /\ sh \in [View -> Content]
       /\ sh[v] = content /\ \A w \in View : w # v => sh[w] = shows[w]
  BY <1>6, <1>7 DEF count, sh
<1>15. /\ refs' \in [View -> Nat] /\ shows' \in [View -> Content]
       /\ \A w \in View : refs'[w] = Held(w)'
       /\ \A z \in Stage : stageView'[z] # None => shows'[stageView'[z]] = sh[stageView'[z]]
       /\ \A q \in Texture : cache'[q].view # None => shows'[cache'[q].view] = sh[cache'[q].view]
       /\ \A b \in Address : rtt'[b] # None => shows'[rtt'[b]] = sh[rtt'[b]]
       /\ neutral' # None => shows'[neutral'] = sh[neutral']
  BY <1>12, <1>13, <1>14, CountedStep
<1>16. shows'[v] = content
  BY <1>2, <1>8, <1>9, <1>14, <1>15
<1>17. \A z \in Stage : z # s /\ stageView[z] # None => shows'[stageView[z]] = shows[stageView[z]]
  BY <1>2, <1>8, <1>9, <1>14, <1>15
<1>18. \A z \in Stage : StageOK(z)
  BY DEF IInv
<1>19. /\ \A z \in Stage : StageOK(z)'
       /\ slot' \in [Stage -> View \cup {None}]
       /\ stageNeutral' \in [Stage -> BOOLEAN] /\ adrift' \subseteq Stage
       /\ asked' \in [Stage -> Content]
  BY <1>1, <1>6, <1>16, <1>17, <1>18, StagesAfterBinding
<1>20. ReferencesExact'
  BY <1>12, <1>15, ExactAfter
<1>21. NeutralShows'
  <2>1. neutral # None => neutral \in View /\ shows[neutral] = White
    BY <1>1 DEF IInv, NeutralShows, HoldersOK
  <2> QED
    BY <2>1, <1>6, <1>8, <1>14, <1>15 DEF NeutralShows
<1>22. TargetsShow'
  <2>1. \A b \in Address : rtt[b] # None => rtt[b] \in View /\ shows[rtt[b]] = Rendered(at[b])
    BY <1>1 DEF IInv, TargetsShow, HoldersOK
  <2> QED
    BY <2>1, <1>6, <1>8, <1>14, <1>15 DEF TargetsShow
<1>23. CopiesOK(pixels', generation', cache', shows')
  <2> SUFFICES ASSUME NEW q \in Texture, cache'[q].view # None
               PROVE  /\ Cacheable(q) /\ cache'[q].version <= generation'[q]
                      /\ cache'[q].version = generation'[q] =>
                           shows'[cache'[q].view] = Bytes(q, pixels'[q])
    BY DEF CopiesOK
  <2>1. CASE q = t /\ Cacheable(t)
    <3>1. cache'[q] = [view |-> v, version |-> g]
      BY <2>1, <1>2, <1>10
    <3> QED
      BY <2>1, <3>1, <1>16, TextureAssumption
  <2>2. CASE ~(q = t /\ Cacheable(t))
    <3>1. cache'[q] = cache[q]
      BY <2>2, <1>2, <1>10
    <3>2. cache[q].view \in View /\ shows'[cache[q].view] = shows[cache[q].view]
      BY <3>1, <1>2, <1>8, <1>14, <1>15
    <3> QED
      BY <3>1, <3>2 DEF CopiesOK
  <2> QED
    BY <2>1, <2>2
<1>24. OnlyLivingAreKept'
  <2>1. \A q \in Texture : q # t => cache'[q] = cache[q]
    BY <1>2, <1>10
  <2>2. \A q \in Texture : cache'[q].view # None => \E b \in Address : at'[b] = q
    BY <2>1 DEF IInv, OnlyLivingAreKept
  <2> QED
    BY <2>2, <1>6 DEF IInv, OnlyLivingAreKept
<1>25. OneAddress' /\ TargetKept'
  BY <1>6 DEF IInv, OneAddress, TargetKept
<1>26. Types'
  <2>1. /\ at' \in [Address -> Texture \cup {None}] /\ unborn' \subseteq Texture
        /\ target' \in View \cup {None} /\ neutralFailed' \in BOOLEAN
    BY <1>1, <1>6 DEF Types, TypeOK
  <2> QED
    BY <1>12, <1>15, <1>19, <2>1 DEF Types, TypeOK, HoldersOK
<1> QED
  BY <1>19, <1>20, <1>21, <1>22, <1>23, <1>24, <1>25, <1>26 DEF IInv

(* Nothing can be created: white, or nothing on record.                    *)
LEMMA UploadFailsKeeps ==
  ASSUME IInv,
         pixels' \in [Texture -> 0..MaxPixels],
         generation' \in [Texture -> 0..MaxGeneration],
         CopiesOK(pixels', generation', cache, shows),
         UNCHANGED <<at, unborn, target>>,
         NEW s \in Stage, NEW t \in Texture, UploadFails(s, t)
  PROVE  IInv'
<1> DEFINE freed == Release(refs, stageView[s])
<1>1. Types /\ HoldersOK(stageView, cache, rtt, neutral)
  BY HoldersTyped DEF IInv
<1>2. /\ stageView \in [Stage -> View \cup {None}] /\ shows \in [View -> Content]
      /\ stageView[s] \in View \cup {None}
      /\ stageNeutral \in [Stage -> BOOLEAN] /\ adrift \subseteq Stage
      /\ asked \in [Stage -> Content] /\ slot \in [Stage -> View \cup {None}]
  BY <1>1 DEF Types, TypeOK
<1>3. refs \in [View -> Int] /\ \A w \in View : refs[w] = Held(w) /\ Held(w) \in Int
  BY <1>1, ExactNow DEF IInv
<1>4. freed \in [View -> Int] /\ \A w \in View : freed[w] = Held(w) - Is(stageView[s], w)
  BY <1>2, <1>3, ReleaseCounts
<1>5. \A w \in View : freed[w] = Held(w) - Is(stageView[s], w) + Is(None, w)
  <2>1. \A w \in View : Is(None, w) = 0 /\ Is(stageView[s], w) \in Int
    BY TextureAssumption DEF Is
  <2> HIDE DEF freed
  <2> QED
    BY <1>3, <1>4, <2>1
<1>6. CASE BindNeutral(s, FALSE, None, freed) /\ UNCHANGED <<cache, rtt>>
  <2> HIDE DEF freed
  <2> QED
    BY <1>4, <1>5, <1>6, BindNeutralKeeps
<1>7. CASE /\ Count(freed, shows)
           /\ stageView' = [stageView EXCEPT ![s] = None]
           /\ stageNeutral' = [stageNeutral EXCEPT ![s] = FALSE]
           /\ adrift' = adrift \cup {s}
           /\ UNCHANGED <<slot, asked, kept>>
  <2>1. UNCHANGED <<slot, asked, cache, rtt, neutral, neutralFailed>>
    BY <1>7 DEF kept
  <2>2. /\ stageView' \in [Stage -> View \cup {None}] /\ stageNeutral' \in [Stage -> BOOLEAN]
        /\ adrift' \subseteq Stage
    BY <1>2, <1>7
  <2>3. HoldersOK(stageView', cache', rtt', neutral')
    BY <1>1, <2>1, <2>2 DEF HoldersOK
  <2> HIDE DEF freed
  <2>4. \A w \in View : freed[w] = Total(stageView', cache', rtt', neutral', w)
    <3> TAKE w \in View
    <3>1. Total([stageView EXCEPT ![s] = None], cache, rtt, neutral, w)
            = Held(w) - Is(stageView[s], w) + Is(None, w)
      BY <1>1, CountedStage DEF Held
    <3> QED
      BY <1>5, <1>7, <2>1, <3>1
  <2>5. /\ refs' \in [View -> Nat] /\ shows' \in [View -> Content]
        /\ \A w \in View : refs'[w] = Held(w)'
        /\ \A z \in Stage : stageView'[z] # None => shows'[stageView'[z]] = shows[stageView'[z]]
        /\ \A q \in Texture : cache'[q].view # None => shows'[cache'[q].view] = shows[cache'[q].view]
        /\ \A b \in Address : rtt'[b] # None => shows'[rtt'[b]] = shows[rtt'[b]]
        /\ neutral' # None => shows'[neutral'] = shows[neutral']
    BY <1>2, <1>4, <1>7, <2>3, <2>4, CountedStep
  <2>6. ReferencesExact'
    BY <2>3, <2>5, ExactAfter
  <2>7. NeutralShows'
    BY <2>1, <2>5 DEF IInv, NeutralShows
  <2>8. ASSUME NEW z \in Stage PROVE StageOK(z)'
    <3>1. CASE z = s
      BY <1>7, <3>1 DEF StageOK
    <3>2. CASE z # s
      <4>1. /\ stageView'[z] = stageView[z] /\ slot'[z] = slot[z] /\ asked'[z] = asked[z]
            /\ z \in adrift' <=> z \in adrift
        BY <1>2, <1>7, <2>1, <3>2
      <4> QED
        BY <2>5, <4>1 DEF IInv, StageOK
    <3> QED
      BY <3>1, <3>2
  <2>9. Types'
    <3>1. /\ at' \in [Address -> Texture \cup {None}] /\ unborn' \subseteq Texture
          /\ target' \in View \cup {None} /\ neutralFailed' \in BOOLEAN
      BY <1>1, <2>1 DEF Types, TypeOK
    <3> QED
      BY <1>2, <2>1, <2>2, <2>3, <2>5, <3>1 DEF Types, TypeOK, HoldersOK
  <2>10. /\ \A q \in Texture : cache[q].view # None => shows'[cache[q].view] = shows[cache[q].view]
         /\ \A b \in Address : rtt[b] # None => shows'[rtt[b]] = shows[rtt[b]]
    BY <2>1, <2>5
  <2> QED
    BY <2>1, <2>6, <2>7, <2>8, <2>9, <2>10, KeptSame DEF IInv
<1> QED
  BY <1>6, <1>7 DEF UploadFails

(*------------------------------- the steps ------------------------------*)

LEMMA SetNullKeeps ==
  ASSUME IInv, NEW s \in Stage, SetNull(s)
  PROVE  IInv'
<1>1. Types /\ UNCHANGED <<at, unborn, pixels, generation, cache, rtt, target>>
  BY DEF IInv, SetNull, textures
<1>2. /\ pixels' \in [Texture -> 0..MaxPixels]
      /\ generation' \in [Texture -> 0..MaxGeneration]
      /\ CopiesOK(pixels', generation', cache, shows)
  BY <1>1 DEF IInv, Types, TypeOK
<1>3. refs \in [View -> Int] /\ \A w \in View : refs[w] = Held(w) /\ Held(w) \in Int
  BY ExactNow DEF IInv
<1>4. \A w \in View : refs[w] = Held(w) - Is(stageView[s], w) + Is(stageView[s], w)
  <2>1. \A w \in View : Is(stageView[s], w) \in Int
    BY DEF Is
  <2> QED
    BY <1>3, <2>1
<1>5. stageNeutral[s] \in BOOLEAN
  BY <1>1 DEF Types, TypeOK
<1>6. BindNeutral(s, stageNeutral[s], stageView[s], refs)
  BY DEF SetNull
<1> QED
  BY <1>1, <1>2, <1>3, <1>4, <1>5, <1>6, BindNeutralKeeps

LEMMA SetUnreadyKeeps ==
  ASSUME IInv, NEW s \in Stage, NEW a \in Address, SetUnready(s, a)
  PROVE  IInv'
<1> DEFINE t == at[a]
<1>1. /\ Types /\ t \in Texture /\ generation[t] \in 0..MaxGeneration /\ 0 \in 0..MaxPixels
      /\ CopiesOK(pixels, generation, cache, shows)
  BY TextureAssumption DEF IInv, Types, TypeOK, SetUnready
<1>2. Found(t, 0, generation[t])
  BY DEF SetUnready
<1> HIDE DEF t
<1>3. /\ pixels' \in [Texture -> 0..MaxPixels]
      /\ generation' \in [Texture -> 0..MaxGeneration]
      /\ CopiesOK(pixels', generation', cache, shows)
      /\ UNCHANGED <<at, unborn>>
  BY <1>1, <1>2, FoundKeeps
<1>4. UNCHANGED <<at, unborn, cache, rtt, target>>
  BY <1>3 DEF SetUnready
<1>5. refs \in [View -> Int] /\ \A w \in View : refs[w] = Held(w) /\ Held(w) \in Int
  BY ExactNow DEF IInv
<1>6. \A w \in View : refs[w] = Held(w) - Is(stageView[s], w) + Is(stageView[s], w)
  <2>1. \A w \in View : Is(stageView[s], w) \in Int
    BY DEF Is
  <2> QED
    BY <1>5, <2>1
<1>7. BindNeutral(s, FALSE, stageView[s], refs)
  BY DEF SetUnready
<1> QED
  BY <1>3, <1>4, <1>5, <1>6, <1>7, BindNeutralKeeps

LEMMA SetTargetKeeps ==
  ASSUME IInv, NEW s \in Stage, NEW a \in Address, SetTarget(s, a)
  PROVE  IInv'
<1> DEFINE v == rtt[a]
<1>1. /\ Types /\ v \in View /\ at[a] \in Texture /\ Kind[at[a]] = "target"
      /\ shows[v] = Rendered(at[a]) /\ stageView[s] \in View \cup {None}
  BY DEF IInv, Types, TypeOK, OnlyLivingAreKept, TargetsShow, SetTarget
<1>2. /\ Count(AddRef(Release(refs, stageView[s]), v), shows)
      /\ InStage(s, v, FALSE, Rendered(at[a]))
      /\ UNCHANGED <<at, unborn, pixels, generation, kept, target>>
  BY <1>1 DEF SetTarget, textures
<1> HIDE DEF v
<1>3. /\ pixels' \in [Texture -> 0..MaxPixels]
      /\ generation' \in [Texture -> 0..MaxGeneration]
      /\ CopiesOK(pixels', generation', cache, shows)
  BY <1>1, <1>2 DEF IInv, Types, TypeOK
<1>4. refs \in [View -> Int] /\ \A w \in View : refs[w] = Held(w) /\ Held(w) \in Int
  BY ExactNow DEF IInv
<1> DEFINE freed == Release(refs, stageView[s])
           count == AddRef(freed, v)
<1>5. freed \in [View -> Int] /\ \A w \in View : freed[w] = Held(w) - Is(stageView[s], w)
  BY <1>1, <1>4, ReleaseCounts
<1> HIDE DEF freed
<1>6. count \in [View -> Int] /\ \A w \in View : count[w] = freed[w] + Is(v, w)
  BY <1>1, <1>5, AddRefCounts
<1>7. Count(count, shows)
  BY <1>2 DEF count, freed
<1> HIDE DEF count
<1>8. \A w \in View : count[w] = Held(w) - Is(stageView[s], w) + Is(v, w)
  BY <1>5, <1>6
<1>9. Rendered(at[a]) \in Content
  BY <1>1 DEF Rendered, Content
<1>10. /\ InStage(s, v, FALSE, Rendered(at[a]))
       /\ UNCHANGED <<at, unborn, kept, target>> /\ shows[v] = Rendered(at[a]) /\ v \in View
  BY <1>1, <1>2
<1> QED
  BY <1>3, <1>6, <1>7, <1>8, <1>9, <1>10, BindExisting

LEMMA SetManagedKeeps ==
  ASSUME IInv, NEW s \in Stage, NEW a \in Address, SetManaged(s, a)
  PROVE  IInv'
<1> DEFINE t == at[a]
<1>1. PICK p \in 1..MaxPixels, g \in 0..MaxGeneration :
        /\ Found(t, p, g)
        /\ \/ /\ Cacheable(t) /\ Hit(t, g)
              /\ Count(AddRef(Release(refs, stageView[s]), cache[t].view), shows)
              /\ InStage(s, cache[t].view, FALSE, Bytes(t, p))
              /\ UNCHANGED kept
           \/ /\ ~(Cacheable(t) /\ Hit(t, g))
              /\ \/ Upload(s, t, g, IF Kind[t] = "other" THEN Checker ELSE Bytes(t, p))
                 \/ Kind[t] \in MayFail /\ UploadFails(s, t)
  BY DEF SetManaged
<1>2. /\ Types /\ t \in Texture /\ at[a] = t /\ p \in 0..MaxPixels /\ p \in Nat
      /\ CopiesOK(pixels, generation, cache, shows) /\ target' = target
      /\ stageView[s] \in View \cup {None} /\ cache[t].view \in View \cup {None}
  BY TextureAssumption DEF IInv, Types, TypeOK, SetManaged
<1> HIDE DEF t
<1>3. /\ pixels' \in [Texture -> 0..MaxPixels] /\ pixels'[t] = p
      /\ generation' \in [Texture -> 0..MaxGeneration] /\ generation'[t] = g
      /\ UNCHANGED <<at, unborn>>
      /\ CopiesOK(pixels', generation', cache, shows)
  BY <1>1, <1>2, FoundKeeps
<1>4. CASE /\ Cacheable(t) /\ Hit(t, g)
           /\ Count(AddRef(Release(refs, stageView[s]), cache[t].view), shows)
           /\ InStage(s, cache[t].view, FALSE, Bytes(t, p))
           /\ UNCHANGED kept
  <2> DEFINE v == cache[t].view
             freed == Release(refs, stageView[s])
             count == AddRef(freed, v)
  <2>1. v \in View /\ shows[v] = Bytes(t, p)
    BY <1>2, <1>3, <1>4 DEF Hit, CopiesOK
  <2>2. refs \in [View -> Int] /\ \A w \in View : refs[w] = Held(w) /\ Held(w) \in Int
    BY ExactNow DEF IInv
  <2>3. freed \in [View -> Int] /\ \A w \in View : freed[w] = Held(w) - Is(stageView[s], w)
    BY <1>2, <2>2, ReleaseCounts
  <2>4. InStage(s, v, FALSE, Bytes(t, p)) /\ Count(count, shows) /\ UNCHANGED kept
    BY <1>4
  <2> HIDE DEF v, freed
  <2>5. count \in [View -> Int] /\ \A w \in View : count[w] = freed[w] + Is(v, w)
    BY <2>1, <2>3, AddRefCounts
  <2> HIDE DEF count
  <2>6. \A w \in View : count[w] = Held(w) - Is(stageView[s], w) + Is(v, w)
    BY <2>3, <2>5
  <2>7. Bytes(t, p) \in Content
    BY <1>2 DEF Bytes, Content
  <2>8. UNCHANGED <<at, unborn, kept, target>>
    BY <1>2, <1>3, <2>4
  <2> QED
    BY <1>3, <2>1, <2>4, <2>5, <2>6, <2>7, <2>8, BindExisting
<1>5. CASE Upload(s, t, g, IF Kind[t] = "other" THEN Checker ELSE Bytes(t, p))
  <2> DEFINE content == IF Kind[t] = "other" THEN Checker ELSE Bytes(t, p)
  <2>1. content \in Content /\ (Cacheable(t) => content = Bytes(t, pixels'[t]))
    BY <1>2, <1>3 DEF Content, Checker, Bytes, Cacheable
  <2>2. Upload(s, t, g, content) /\ g = generation'[t] /\ UNCHANGED <<at, unborn, target>>
    BY <1>2, <1>3, <1>5
  <2> HIDE DEF content
  <2> QED
    BY <1>2, <1>3, <2>1, <2>2, UploadKeeps
<1>6. CASE UploadFails(s, t)
  BY <1>2, <1>3, <1>6, UploadFailsKeeps
<1> QED
  BY <1>1, <1>4, <1>5, <1>6

(* Steps that touch neither views nor what holds them.                     *)
LEMMA CreateTextureKeeps ==
  ASSUME IInv, NEW t \in Texture, NEW a \in Address, CreateTexture(t, a)
  PROVE  IInv'
<1>1. /\ at \in [Address -> Texture \cup {None}] /\ unborn \subseteq Texture
      /\ pixels \in [Texture -> 0..MaxPixels] /\ 1 \in 0..MaxPixels
  BY TextureAssumption DEF IInv, Types, TypeOK
<1>2. /\ t \in unborn /\ at[a] = None /\ Kind[t] # "target"
      /\ at' = [at EXCEPT ![a] = t] /\ unborn' = unborn \ {t}
      /\ pixels' = IF Kind[t] = "rewritten" THEN [pixels EXCEPT ![t] = 1] ELSE pixels
      /\ UNCHANGED <<generation, cache, rtt, neutral, neutralFailed, refs, shows,
                     stageView, stageNeutral, slot, asked, adrift, target>>
  BY DEF CreateTexture, kept, device, stages
<1>3. /\ \A b \in Address : b # a => at'[b] = at[b]
      /\ at'[a] = t /\ \A b \in Address : at[b] # t
      /\ None \notin Texture
  BY <1>1, <1>2, TextureAssumption DEF IInv, OneAddress
<1>4. cache[t].view = None /\ rtt[a] = None
  BY <1>2, <1>3 DEF IInv, OnlyLivingAreKept
<1>5. Types'
  BY <1>1, <1>2 DEF IInv, Types, TypeOK
<1>6. OneAddress'
  BY <1>1, <1>2, <1>3 DEF IInv, OneAddress
<1>7. OnlyLivingAreKept'
  <2>1. \A q \in Texture : cache'[q].view # None => \E b \in Address : at'[b] = q
    <3> TAKE q \in Texture
    <3> HAVE cache'[q].view # None
    <3>1. PICK b \in Address : at[b] = q
      BY <1>2 DEF IInv, OnlyLivingAreKept
    <3>2. b # a
      BY <1>2, <1>3, <3>1
    <3> QED
      BY <1>3, <3>1, <3>2
  <2>2. \A b \in Address : rtt'[b] # None => at'[b] # None /\ Kind[at'[b]] = "target"
    BY <1>2, <1>3, <1>4 DEF IInv, OnlyLivingAreKept
  <2> QED
    BY <2>1, <2>2 DEF OnlyLivingAreKept
<1>8. CopiesOK(pixels', generation', cache', shows')
  <2>1. \A q \in Texture : cache[q].view # None => pixels'[q] = pixels[q]
    BY <1>1, <1>2, <1>4
  <2> QED
    BY <1>2, <2>1 DEF IInv, CopiesOK
<1>9. TargetsShow'
  BY <1>2, <1>3, <1>4 DEF IInv, TargetsShow
<1>10. /\ ReferencesExact' /\ NeutralShows' /\ TargetKept'
       /\ \A s \in Stage : StageOK(s)'
  BY <1>2 DEF IInv, ReferencesExact, HeldBy, NeutralShows, TargetKept, StageOK
<1> QED
  BY <1>5, <1>6, <1>7, <1>8, <1>9, <1>10 DEF IInv

(* The contents of a surface change, by a new version where copies are     *)
(* kept of it: what was asked for is outdated.                             *)
LEMMA OutdatedKeeps ==
  ASSUME IInv, NEW t \in Texture, Outdated(t),
         pixels' \in [Texture -> 0..MaxPixels],
         generation' \in [Texture -> 0..MaxGeneration],
         CopiesOK(pixels', generation', cache, shows),
         UNCHANGED <<at, unborn, kept, device, stageView, stageNeutral, slot, adrift, target>>
  PROVE  IInv'
<1>1. UNCHANGED <<at, unborn, cache, rtt, neutral, neutralFailed, refs, shows, stageView,
                  stageNeutral, slot, adrift, target>>
  BY DEF kept, device
<1>2. /\ asked' = [s \in Stage |-> IF asked[s][1] = t THEN Anything ELSE asked[s]]
      /\ asked \in [Stage -> Content] /\ Anything \in Content
  BY DEF Outdated, IInv, Types, Anything, Content
<1>3. Types'
  BY <1>1, <1>2 DEF IInv, Types, TypeOK
<1>4. \A s \in Stage : StageOK(s)'
  BY <1>1, <1>2 DEF IInv, StageOK
<1>5. /\ ReferencesExact' /\ OneAddress' /\ OnlyLivingAreKept'
      /\ NeutralShows' /\ TargetKept' /\ TargetsShow'
  BY <1>1 DEF IInv, ReferencesExact, HeldBy, OneAddress, OnlyLivingAreKept, NeutralShows,
              TargetKept, TargetsShow
<1>6. CopiesOK(pixels', generation', cache', shows')
  BY <1>1
<1> QED
  BY <1>3, <1>4, <1>5, <1>6 DEF IInv

(* A new version is a version nothing is kept of yet.                      *)
LEMMA NewVersion ==
  ASSUME IInv, NEW t \in Texture, NEW p \in 0..MaxPixels, generation[t] < MaxGeneration,
         pixels' = [pixels EXCEPT ![t] = p],
         generation' = [generation EXCEPT ![t] = NextGeneration(t)]
  PROVE  /\ pixels' \in [Texture -> 0..MaxPixels]
         /\ generation' \in [Texture -> 0..MaxGeneration]
         /\ CopiesOK(pixels', generation', cache, shows)
<1>1. /\ pixels \in [Texture -> 0..MaxPixels] /\ generation \in [Texture -> 0..MaxGeneration]
      /\ MaxGeneration \in Nat /\ \A q \in Texture : cache[q].version \in Nat
  BY TextureAssumption DEF IInv, Types, TypeOK
<1>2. generation'[t] = generation[t] + 1
  BY <1>1 DEF NextGeneration
<1>3. \A q \in Texture : q # t => pixels'[q] = pixels[q] /\ generation'[q] = generation[q]
  BY <1>1
<1>4. CopiesOK(pixels', generation', cache, shows)
  BY <1>1, <1>2, <1>3 DEF IInv, CopiesOK
<1>5. NextGeneration(t) \in 0..MaxGeneration
  BY <1>1 DEF NextGeneration
<1> QED
  BY <1>1, <1>4, <1>5

LEMMA SurfaceKeeps ==
  ASSUME IInv, NEW t \in Texture, Set_D3D_Base_Texture(t) \/ Invalidate(t) \/ Rewrite(t)
  PROVE  IInv'
<1>1. CASE Set_D3D_Base_Texture(t)
  <2>1. PICK p \in 1..MaxPixels : pixels' = [pixels EXCEPT ![t] = p]
    BY <1>1 DEF Set_D3D_Base_Texture
  <2>2. p \in 0..MaxPixels
    OBVIOUS
  <2> QED
    BY <1>1, <2>1, <2>2, NewVersion, OutdatedKeeps DEF Set_D3D_Base_Texture
<1>2. CASE Invalidate(t)
  <2>1. 0 \in 0..MaxPixels
    BY TextureAssumption
  <2> QED
    BY <1>2, <2>1, NewVersion, OutdatedKeeps DEF Invalidate
<1>3. CASE Rewrite(t)
  <2>1. PICK p \in 1..MaxPixels : pixels' = [pixels EXCEPT ![t] = p]
    BY <1>3 DEF Rewrite
  <2>2. /\ pixels \in [Texture -> 0..MaxPixels] /\ p \in 0..MaxPixels
        /\ generation \in [Texture -> 0..MaxGeneration] /\ generation' = generation
    BY <1>3 DEF IInv, Types, TypeOK, Rewrite
  <2>3. cache[t].view = None
    BY <1>3 DEF IInv, CopiesOK, Cacheable, Rewrite
  <2>4. CopiesOK(pixels', generation', cache, shows)
    BY <2>1, <2>2, <2>3 DEF IInv, CopiesOK
  <2>5. pixels' \in [Texture -> 0..MaxPixels] /\ generation' \in [Texture -> 0..MaxGeneration]
    BY <2>1, <2>2
  <2> QED
    BY <1>3, <2>4, <2>5, OutdatedKeeps DEF Rewrite
<1> QED
  BY <1>1, <1>2, <1>3

(* A new target has a view that the backend holds once, by its address.    *)
LEMMA CreateTargetKeeps ==
  ASSUME IInv, NEW t \in Texture, NEW a \in Address, Create_Render_Target(t, a)
  PROVE  IInv'
<1>1. /\ at \in [Address -> Texture \cup {None}] /\ unborn \subseteq Texture
      /\ rtt \in [Address -> View \cup {None}] /\ shows \in [View -> Content]
      /\ Types /\ HoldersOK(stageView, cache, rtt, neutral) /\ None \notin Texture
  BY HoldersTyped, TextureAssumption DEF IInv, Types, TypeOK
<1>2. PICK v \in View : Make(refs, v, 1, Rendered(t)) /\ rtt' = [rtt EXCEPT ![a] = v]
  BY DEF Create_Render_Target
<1>3. /\ t \in unborn /\ at[a] = None /\ Kind[t] = "target"
      /\ at' = [at EXCEPT ![a] = t] /\ unborn' = unborn \ {t}
      /\ UNCHANGED <<pixels, generation, cache, neutral, neutralFailed, stageView,
                     stageNeutral, slot, asked, adrift, target>>
  BY DEF Create_Render_Target, stages
<1>4. /\ \A b \in Address : b # a => at'[b] = at[b] /\ rtt'[b] = rtt[b]
      /\ at'[a] = t /\ rtt'[a] = v /\ \A b \in Address : at[b] # t
  BY <1>1, <1>2, <1>3 DEF IInv, OneAddress
<1>5. cache[t].view = None /\ rtt[a] = None
  BY <1>3, <1>4 DEF IInv, OnlyLivingAreKept
<1>6. refs \in [View -> Int] /\ \A w \in View : refs[w] = Held(w) /\ Held(w) \in Int
  BY <1>1, ExactNow DEF IInv
<1>7. \A s \in Stage : Held(v) - Is(stageView[s], v) = 0 => stageView[s] # v
  <2>1. Held(v) = 0
    BY <1>2, <1>6 DEF Make
  <2> QED
    BY <2>1 DEF Is
<1>8. /\ \A s \in Stage : stageView[s] # v
      /\ \A q \in Texture : cache[q].view # v
      /\ \A b \in Address : rtt[b] # v
      /\ neutral # v /\ v # None
  <2>1. Total(stageView, cache, rtt, neutral, v) = 0
    BY <1>2, <1>6 DEF Make, Held
  <2> QED
    BY <2>1, <1>1, Counted, TextureAssumption
<1> DEFINE count == [refs EXCEPT ![v] = 1]
           sh == [shows EXCEPT ![v] = Rendered(t)]
<1>9. Rendered(t) \in Content
  BY DEF Rendered, Content
<1>10. /\ Count(count, sh) /\ refs[v] = 0
       /\ count \in [View -> Int] /\ count[v] = 1 /\ \A w \in View : w # v => count[w] = refs[w]
       /\ sh \in [View -> Content] /\ sh[v] = Rendered(t)
       /\ \A w \in View : w # v => sh[w] = shows[w]
  BY <1>1, <1>2, <1>6, <1>9 DEF Make
<1> HIDE DEF count, sh
<1>11. HoldersOK(stageView', cache', rtt', neutral')
  BY <1>1, <1>2, <1>3 DEF HoldersOK
<1>12. \A w \in View : count[w] = Total(stageView', cache', rtt', neutral', w)
  <2> TAKE w \in View
  <2>a. HoldersOK(stageView, cache, rtt, neutral) /\ v \in View \cup {None}
    BY <1>1
  <2>1. Total(stageView, cache, [rtt EXCEPT ![a] = v], neutral, w)
          = Held(w) - Is(rtt[a], w) + Is(v, w)
    BY <2>a, CountedTarget DEF Held
  <2>2. Is(rtt[a], w) = 0 /\ Is(v, w) = IF w = v THEN 1 ELSE 0
    BY <1>5, TextureAssumption DEF Is
  <2>3. Total(stageView', cache', rtt', neutral', w) = refs[w] + Is(v, w)
    BY <1>2, <1>3, <1>6, <2>1, <2>2
  <2> QED
    BY <2>2, <2>3, <1>6, <1>10
<1>13. /\ refs' \in [View -> Nat] /\ shows' \in [View -> Content]
       /\ \A w \in View : refs'[w] = Held(w)'
       /\ \A s \in Stage : stageView'[s] # None => shows'[stageView'[s]] = sh[stageView'[s]]
       /\ \A q \in Texture : cache'[q].view # None => shows'[cache'[q].view] = sh[cache'[q].view]
       /\ \A b \in Address : rtt'[b] # None => shows'[rtt'[b]] = sh[rtt'[b]]
       /\ neutral' # None => shows'[neutral'] = sh[neutral']
  BY <1>10, <1>11, <1>12, CountedStep
<1>14. ReferencesExact'
  BY <1>11, <1>13, ExactAfter
<1>15. /\ \A s \in Stage : stageView[s] \in View \cup {None}
       /\ \A q \in Texture : cache[q].view \in View \cup {None}
       /\ \A b \in Address : rtt[b] \in View \cup {None}
       /\ neutral \in View \cup {None}
  BY <1>1 DEF HoldersOK
<1>16. \A s \in Stage : StageOK(s)'
  <2> TAKE s \in Stage
  <2>1. stageView[s] # None => shows'[stageView[s]] = shows[stageView[s]]
    BY <1>3, <1>8, <1>10, <1>13, <1>15
  <2> QED
    BY <2>1, <1>3 DEF IInv, StageOK
<1>17. NeutralShows'
  BY <1>3, <1>8, <1>10, <1>13, <1>15 DEF IInv, NeutralShows
<1>18. TargetsShow'
  <2> SUFFICES ASSUME NEW b \in Address, rtt'[b] # None
               PROVE  shows'[rtt'[b]] = Rendered(at'[b])
    BY DEF TargetsShow
  <2>1. CASE b = a
    BY <2>1, <1>4, <1>10, <1>13
  <2>2. CASE b # a
    BY <2>2, <1>4, <1>8, <1>10, <1>13, <1>15 DEF IInv, TargetsShow
  <2> QED
    BY <2>1, <2>2
<1>19. CopiesOK(pixels', generation', cache', shows')
  <2>1. \A q \in Texture : cache[q].view # None => shows'[cache[q].view] = shows[cache[q].view]
    BY <1>3, <1>8, <1>10, <1>13, <1>15
  <2> QED
    BY <2>1, <1>3 DEF IInv, CopiesOK
<1>20. OneAddress'
  BY <1>1, <1>3, <1>4 DEF IInv, OneAddress
<1>21. OnlyLivingAreKept'
  <2>1. \A q \in Texture : cache'[q].view # None => \E b \in Address : at'[b] = q
    <3> TAKE q \in Texture
    <3> HAVE cache'[q].view # None
    <3>1. PICK b \in Address : at[b] = q
      BY <1>3 DEF IInv, OnlyLivingAreKept
    <3>2. b # a
      BY <1>1, <1>3, <3>1
    <3> QED
      BY <1>4, <3>1, <3>2
  <2>2. \A b \in Address : rtt'[b] # None => at'[b] # None /\ Kind[at'[b]] = "target"
    BY <1>1, <1>3, <1>4 DEF IInv, OnlyLivingAreKept
  <2> QED
    BY <2>1, <2>2 DEF OnlyLivingAreKept
<1>22. TargetKept'
  <2>1. ASSUME target # None PROVE \E b \in Address : rtt'[b] = target
    <3>1. PICK b \in Address : rtt[b] = target
      BY <2>1 DEF IInv, TargetKept
    <3>2. b # a
      BY <1>5, <2>1, <3>1
    <3> QED
      BY <1>4, <3>1, <3>2
  <2> QED
    BY <2>1, <1>3 DEF TargetKept
<1>23. Types'
  <2>1. at' \in [Address -> Texture \cup {None}] /\ unborn' \subseteq Texture
    BY <1>1, <1>3
  <2> QED
    BY <2>1, <1>1, <1>3, <1>11, <1>13 DEF Types, TypeOK, HoldersOK
<1> QED
  BY <1>14, <1>16, <1>17, <1>18, <1>19, <1>20, <1>21, <1>22, <1>23 DEF IInv

(* The end of a texture: its copy and its target are evicted, and every    *)
(* stage that held the view of the target gives it up.                     *)
LEMMA DestroyKeeps ==
  ASSUME IInv, NEW a \in Address, Destroy(a)
  PROVE  IInv'
<1> DEFINE t == at[a]
           v == rtt[a]
           bound == {z \in Stage : stageView[z] = v}
           released == Release(refs, cache[t].view)
<1>1. /\ t \in Texture /\ at' = [at EXCEPT ![a] = None]
      /\ cache' = [cache EXCEPT ![t] = NoCopy]
      /\ rtt' = [rtt EXCEPT ![a] = None]
      /\ asked' = [s \in Stage |-> IF asked[s][1] = t THEN Anything ELSE asked[s]]
      /\ UNCHANGED <<unborn, pixels, generation, neutral, neutralFailed, stageNeutral, adrift>>
  BY DEF Destroy, Forgotten, Outdated, IInv, Types, TypeOK
<1>2. \/ /\ v = None
         /\ Count(released, shows)
         /\ UNCHANGED <<stageView, slot, target>>
      \/ /\ v # None
         /\ Count([released EXCEPT ![v] = @ - 1 - Cardinality(bound)], shows)
         /\ stageView' = [s \in Stage |-> IF s \in bound THEN None ELSE stageView[s]]
         /\ slot' = [s \in Stage |-> IF s \in bound THEN None ELSE slot[s]]
         /\ target' = TargetAfter(v)
  BY DEF Destroy, BoundTo
<1>3. /\ at \in [Address -> Texture \cup {None}] /\ unborn \subseteq Texture
      /\ cache \in [Texture -> [view : View \cup {None}, version : 0..MaxGeneration]]
      /\ rtt \in [Address -> View \cup {None}] /\ shows \in [View -> Content]
      /\ stageView \in [Stage -> View \cup {None}] /\ slot \in [Stage -> View \cup {None}]
      /\ asked \in [Stage -> Content]
      /\ Types /\ HoldersOK(stageView, cache, rtt, neutral)
      /\ None \notin Texture /\ None \notin View /\ 0 \in 0..MaxGeneration
  BY HoldersTyped, TextureAssumption DEF IInv, Types, TypeOK
<1>4. refs \in [View -> Int] /\ \A w \in View : refs[w] = Held(w) /\ Held(w) \in Int
  BY <1>3, ExactNow DEF IInv
<1>5. v \in View \cup {None} /\ cache[t].view \in View \cup {None}
  BY <1>1, <1>3
<1>6. /\ released \in [View -> Int]
      /\ \A w \in View : released[w] = Held(w) - Is(cache[t].view, w)
  BY <1>4, <1>5, ReleaseCounts
<1>7. v # None => shows[v] = Rendered(t)
  BY DEF IInv, TargetsShow
<1> HIDE DEF t, v, released
<1>8. /\ \A b \in Address : b # a => at'[b] = at[b] /\ rtt'[b] = rtt[b]
      /\ at'[a] = None /\ rtt'[a] = None /\ at[a] = t /\ rtt[a] = v
      /\ \A q \in Texture : q # t => cache'[q] = cache[q]
      /\ cache'[t].view = None
  BY <1>1, <1>3 DEF t, v, NoCopy
<1>9. cache' \in [Texture -> [view : View \cup {None}, version : 0..MaxGeneration]]
  BY <1>1, <1>3 DEF NoCopy
<1>10. stageView' \in [Stage -> View \cup {None}] /\ slot' \in [Stage -> View \cup {None}]
  BY <1>2, <1>3
<1>11. HoldersOK(stageView', cache', rtt', neutral') /\ HoldersOK(stageView', cache, rtt, neutral)
       /\ HoldersOK(stageView', cache', rtt, neutral)
  BY <1>1, <1>3, <1>9, <1>10 DEF HoldersOK
<1>12. \A w \in View :
         Total(stageView', cache', rtt', neutral', w)
           = Total(stageView', cache, rtt, neutral, w) - Is(cache[t].view, w) - Is(v, w)
  <2> TAKE w \in View
  <2>1. Total(stageView', [cache EXCEPT ![t] = [view |-> None, version |-> 0]], rtt, neutral, w)
          = Total(stageView', cache, rtt, neutral, w) - Is(cache[t].view, w) + Is(None, w)
    <3>1. t \in Texture /\ HoldersOK(stageView', cache, rtt, neutral)
      BY <1>1, <1>11
    <3> QED
      BY <3>1, CountedCopy
  <2>2. Total(stageView', cache', [rtt EXCEPT ![a] = None], neutral, w)
          = Total(stageView', cache', rtt, neutral, w) - Is(rtt[a], w) + Is(None, w)
    BY <1>11, CountedTarget
  <2>3. Total(stageView', cache', rtt, neutral, w)
          = Total(stageView', cache, rtt, neutral, w) - Is(cache[t].view, w) + Is(None, w)
    BY <1>1, <2>1 DEF NoCopy
  <2>4. Total(stageView', cache', rtt', neutral', w)
          = Total(stageView', cache', rtt, neutral, w) - Is(v, w) + Is(None, w)
    BY <1>1, <1>8, <2>2
  <2>5. /\ Is(None, w) = 0 /\ Is(v, w) \in Int /\ Is(cache[t].view, w) \in Int
        /\ Total(stageView', cache, rtt, neutral, w) \in Int
    BY <1>3, <1>11, Counted DEF Is
  <2> QED
    BY <2>3, <2>4, <2>5
<1>13. PICK count \in [View -> Int] :
         /\ Count(count, shows)
         /\ \A w \in View : count[w] = Total(stageView', cache', rtt', neutral', w)
  <2>1. CASE v = None /\ Count(released, shows) /\ stageView' = stageView
    <3>1. \A w \in View : Is(v, w) = 0 /\ Is(cache[t].view, w) \in Int
      BY <2>1, <1>3 DEF Is
    <3>2. \A w \in View : released[w] = Total(stageView', cache', rtt', neutral', w)
      BY <2>1, <3>1, <1>4, <1>6, <1>12 DEF Held
    <3> QED
      BY <2>1, <3>2, <1>6
  <2>2. CASE /\ v # None
             /\ Count([released EXCEPT ![v] = @ - 1 - Cardinality(bound)], shows)
             /\ stageView' = [s \in Stage |-> IF s \in bound THEN None ELSE stageView[s]]
    <3> DEFINE count == [released EXCEPT ![v] = @ - 1 - Cardinality(bound)]
               k == Cardinality(bound)
    <3>1. k \in Nat
      <4>1. IsFiniteSet(bound)
        BY FS_Subset, TextureAssumption
      <4> QED
        BY <4>1, FS_CardinalityType
    <3>2. v \in View
      BY <2>2, <1>5
    <3>3. \A w \in View :
            Total(stageView', cache, rtt, neutral, w)
              = Total(stageView, cache, rtt, neutral, w) - (IF w = v THEN k ELSE 0)
      <4> TAKE w \in View
      <4>1. HoldersOK(stageView, cache, rtt, neutral)
        BY <1>3
      <4>2. Total([s \in Stage |-> IF s \in bound THEN None ELSE stageView[s]],
                  cache, rtt, neutral, w)
              = Total(stageView, cache, rtt, neutral, w) - (IF w = v THEN k ELSE 0)
        BY <3>2, <4>1, CountedEviction
      <4> QED
        BY <2>2, <4>2
    <3> HIDE DEF k
    <3>4. /\ count \in [View -> Int] /\ count[v] = released[v] - 1 - k
          /\ \A w \in View : w # v => count[w] = released[w]
      BY <3>1, <3>2, <1>6 DEF k
    <3>5. Count(count, shows)
      BY <2>2
    <3> HIDE DEF count
    <3>6. \A w \in View : count[w] = Total(stageView', cache', rtt', neutral', w)
      <4> TAKE w \in View
      <4>1. Is(v, w) = (IF w = v THEN 1 ELSE 0) /\ Is(cache[t].view, w) \in Int
        BY DEF Is
      <4>2. Total(stageView', cache', rtt', neutral', w)
              = Held(w) - (IF w = v THEN k ELSE 0) - Is(cache[t].view, w) - Is(v, w)
        BY <3>3, <1>12 DEF Held
      <4>3. Held(w) \in Int /\ released[w] = Held(w) - Is(cache[t].view, w)
        BY <1>4, <1>6
      <4> QED
        BY <3>1, <3>4, <4>1, <4>2, <4>3
    <3> QED
      BY <3>4, <3>5, <3>6
  <2> QED
    BY <2>1, <2>2, <1>2
<1>14. /\ refs' \in [View -> Nat] /\ shows' \in [View -> Content]
       /\ \A w \in View : refs'[w] = Held(w)'
       /\ \A s \in Stage : stageView'[s] # None => shows'[stageView'[s]] = shows[stageView'[s]]
       /\ \A q \in Texture : cache'[q].view # None => shows'[cache'[q].view] = shows[cache'[q].view]
       /\ \A b \in Address : rtt'[b] # None => shows'[rtt'[b]] = shows[rtt'[b]]
       /\ neutral' # None => shows'[neutral'] = shows[neutral']
  BY <1>3, <1>11, <1>13, CountedStep
<1>15. ReferencesExact'
  BY <1>11, <1>14, ExactAfter
<1>16. NeutralShows'
  BY <1>1, <1>14 DEF IInv, NeutralShows
<1>17. ASSUME NEW s \in Stage PROVE StageOK(s)'
  <2>1. asked'[s] # Anything => asked'[s] = asked[s] /\ asked[s] # Anything /\ asked[s][1] # t
    BY <1>1
  <2>2. CASE v # None /\ stageView[s] = v
    <3>1. stageView'[s] = None /\ slot'[s] = None
      BY <2>2, <1>2
    <3>2. s \notin adrift /\ asked[s] # Anything => asked[s] = Rendered(t)
      BY <2>2, <1>7 DEF IInv, StageOK
    <3>3. Rendered(t)[1] = t
      BY DEF Rendered
    <3> QED
      BY <2>1, <3>1, <3>2, <3>3, <1>1 DEF StageOK
  <2>3. CASE ~(v # None /\ stageView[s] = v)
    <3>1. stageView'[s] = stageView[s] /\ slot'[s] = slot[s] /\ adrift' = adrift
      BY <2>3, <1>1, <1>2
    <3>2. stageView[s] # None => shows'[stageView[s]] = shows[stageView[s]]
      BY <3>1, <1>14
    <3> QED
      BY <2>1, <3>1, <3>2 DEF IInv, StageOK
  <2> QED
    BY <2>2, <2>3
<1>18. CopiesOK(pixels', generation', cache', shows')
  <2> SUFFICES ASSUME NEW q \in Texture, cache'[q].view # None
               PROVE  /\ Cacheable(q) /\ cache'[q].version <= generation'[q]
                      /\ cache'[q].version = generation'[q] =>
                           shows'[cache'[q].view] = Bytes(q, pixels'[q])
    BY DEF CopiesOK
  <2>1. q # t /\ cache'[q] = cache[q]
    BY <1>8
  <2>2. shows'[cache[q].view] = shows[cache[q].view]
    BY <2>1, <1>14
  <2> QED
    BY <2>1, <2>2, <1>1 DEF IInv, CopiesOK
<1>19. TargetsShow'
  BY <1>8, <1>14 DEF IInv, TargetsShow
<1>20. OneAddress'
  BY <1>1, <1>3, <1>8 DEF IInv, OneAddress
<1>21. OnlyLivingAreKept'
  <2>1. \A q \in Texture : cache'[q].view # None => \E b \in Address : at'[b] = q
    <3> TAKE q \in Texture
    <3> HAVE cache'[q].view # None
    <3>1. q # t /\ cache'[q] = cache[q]
      BY <1>8
    <3>2. PICK b \in Address : at[b] = q
      BY <3>1 DEF IInv, OnlyLivingAreKept
    <3>3. b # a
      BY <1>8, <3>1, <3>2
    <3> QED
      BY <1>8, <3>2, <3>3
  <2>2. \A b \in Address : rtt'[b] # None => at'[b] # None /\ Kind[at'[b]] = "target"
    BY <1>8 DEF IInv, OnlyLivingAreKept
  <2> QED
    BY <2>1, <2>2 DEF OnlyLivingAreKept
<1>22. TargetKept' /\ target' \in View \cup {None}
  <2>1. target' # None => target' = target /\ target # v
    BY <1>2 DEF TargetAfter
  <2>2. ASSUME target' # None PROVE \E b \in Address : rtt'[b] = target'
    <3>1. PICK b \in Address : rtt[b] = target
      BY <2>1, <2>2 DEF IInv, TargetKept
    <3>2. b # a
      BY <2>1, <2>2, <3>1, <1>8
    <3> QED
      BY <2>1, <2>2, <3>1, <3>2, <1>8
  <2>3. target \in View \cup {None}
    BY <1>3 DEF Types, TypeOK
  <2> QED
    BY <2>1, <2>2, <2>3 DEF TargetKept
<1>23. Types'
  <2>1. at' \in [Address -> Texture \cup {None}] /\ unborn' \subseteq Texture
    BY <1>1, <1>3
  <2>2. asked' \in [Stage -> Content]
    BY <1>1, <1>3 DEF Anything, Content
  <2> QED
    BY <2>1, <2>2, <1>1, <1>3, <1>10, <1>11, <1>14, <1>22 DEF Types, TypeOK, HoldersOK
<1> QED
  BY <1>15, <1>16, <1>17, <1>18, <1>19, <1>20, <1>21, <1>22, <1>23 DEF IInv

LEMMA DeviceKeeps ==
  ASSUME IInv,
         \/ \E a \in Address : Set_Render_Target(a)
         \/ Bind_Back_Buffer_Targets
         \/ Apply_Color_Grade
  PROVE  IInv'
<1>1. /\ UNCHANGED <<at, unborn, pixels, generation, cache, rtt, neutral, neutralFailed,
                     refs, shows, stageView, stageNeutral>>
      /\ \/ target' = None
         \/ \E a \in Address : target' = rtt[a]
  BY DEF Set_Render_Target, Bind_Back_Buffer_Targets, Apply_Color_Grade, textures, kept,
         device, stages
<1>2. \/ UNCHANGED <<slot, asked, adrift>>
      \/ /\ slot' = [slot EXCEPT ![0] = None] /\ adrift' = adrift \cup {0}
         /\ asked' = [asked EXCEPT ![0] = Anything]
  BY DEF Set_Render_Target, Bind_Back_Buffer_Targets, Apply_Color_Grade, stages
<1>3. /\ slot \in [Stage -> View \cup {None}] /\ asked \in [Stage -> Content]
      /\ rtt \in [Address -> View \cup {None}] /\ adrift \subseteq Stage /\ 0 \in Stage
      /\ Anything \in Content
  BY TextureAssumption DEF IInv, Types, TypeOK, Anything, Content
<1>4. /\ slot' \in [Stage -> View \cup {None}] /\ asked' \in [Stage -> Content]
      /\ adrift' \subseteq Stage /\ target' \in View \cup {None}
  BY <1>1, <1>2, <1>3
<1>5. Types'
  BY <1>1, <1>4 DEF IInv, Types, TypeOK
<1>6. ASSUME NEW s \in Stage PROVE StageOK(s)'
  <2>1. s \notin adrift' => s \notin adrift /\ slot'[s] = slot[s] /\ asked'[s] = asked[s]
    BY <1>2, <1>3
  <2> QED
    BY <2>1, <1>1 DEF IInv, StageOK
<1>7. TargetKept'
  BY <1>1 DEF TargetKept
<1>8. /\ ReferencesExact' /\ OneAddress' /\ OnlyLivingAreKept' /\ NeutralShows' /\ TargetsShow'
      /\ CopiesOK(pixels', generation', cache', shows')
  BY <1>1 DEF IInv, ReferencesExact, HeldBy, OneAddress, OnlyLivingAreKept, NeutralShows,
              TargetsShow
<1> QED
  BY <1>5, <1>6, <1>7, <1>8 DEF IInv

LEMMA ShutdownKeeps ==
  ASSUME IInv, Shutdown
  PROVE  IInv'
<1> DEFINE count == [v \in View |-> refs[v] - HeldBy(v)]
<1>1. /\ Count(count, shows)
      /\ slot' = [s \in Stage |-> None] /\ stageView' = [s \in Stage |-> None]
      /\ stageNeutral' = [s \in Stage |-> FALSE]
      /\ asked' = [s \in Stage |-> Anything] /\ adrift' = {}
      /\ cache' = [t \in Texture |-> NoCopy] /\ rtt' = [a \in Address |-> None]
      /\ neutral' = None /\ neutralFailed' = FALSE /\ target' = None
      /\ UNCHANGED <<at, unborn, pixels, generation>>
  BY DEF Shutdown, textures
<1>2. /\ Types /\ refs \in [View -> Nat] /\ shows \in [View -> Content]
      /\ \A v \in View : refs[v] = HeldBy(v)
  BY DEF IInv, Types, TypeOK, ReferencesExact
<1>3. count \in [View -> Int] /\ \A v \in View : count[v] = 0
  BY <1>2
<1> HIDE DEF count
<1>4. cache' \in [Texture -> [view : View \cup {None}, version : 0..MaxGeneration]]
      /\ \A t \in Texture : cache'[t].view = None
  BY <1>1, TextureAssumption DEF NoCopy
<1>5. HoldersOK(stageView', cache', rtt', neutral')
  BY <1>1, <1>4 DEF HoldersOK
<1>6. /\ \A s \in Stage : stageView'[s] = None
      /\ \A a \in Address : rtt'[a] = None
  BY <1>1
<1>7. \A v \in View : Total(stageView', cache', rtt', neutral', v) = 0
  BY <1>1, <1>4, <1>5, <1>6, CountedNone
<1>8. \A v \in View : count[v] = Total(stageView', cache', rtt', neutral', v)
  BY <1>3, <1>7
<1>9. /\ refs' \in [View -> Nat] /\ shows' \in [View -> Content]
      /\ \A v \in View : refs'[v] = Held(v)'
  BY <1>1, <1>2, <1>3, <1>5, <1>8, CountedStep
<1>10. ReferencesExact'
  BY <1>5, <1>9, ExactAfter
<1>11. Types'
  <2>1. Anything \in Content
    BY DEF Anything, Content
  <2> QED
    BY <2>1, <1>1, <1>2, <1>5, <1>9 DEF Types, TypeOK, HoldersOK
<1>12. OneAddress'
  BY <1>1 DEF IInv, OneAddress
<1>13. /\ OnlyLivingAreKept' /\ TargetsShow' /\ NeutralShows' /\ TargetKept'
       /\ \A s \in Stage : StageOK(s)'
  BY <1>1, <1>4, <1>6 DEF OnlyLivingAreKept, TargetsShow, NeutralShows, TargetKept, StageOK
<1>14. CopiesOK(pixels', generation', cache', shows')
  BY <1>4 DEF CopiesOK
<1> QED
  BY <1>10, <1>11, <1>12, <1>13, <1>14 DEF IInv

LEMMA InitIInv == Init => IInv
<1> SUFFICES ASSUME Init PROVE IInv
  OBVIOUS
<1>1. /\ at = [a \in Address |-> None] /\ unborn = Texture
      /\ pixels = [t \in Texture |-> 0] /\ generation = [t \in Texture |-> 0]
      /\ cache = [t \in Texture |-> NoCopy] /\ rtt = [a \in Address |-> None]
      /\ neutral = None /\ neutralFailed = FALSE /\ target = None
      /\ refs = [v \in View |-> 0] /\ shows = [v \in View |-> Freed]
      /\ stageView = [s \in Stage |-> None] /\ slot = [s \in Stage |-> None]
      /\ stageNeutral = [s \in Stage |-> FALSE]
      /\ asked = [s \in Stage |-> Anything] /\ adrift = {}
  BY DEF Init
<1>2. Freed \in Content /\ Anything \in Content /\ NoCopy.view = None
  BY DEF Freed, Anything, Content, NoCopy
<1>3. cache \in [Texture -> [view : View \cup {None}, version : 0..MaxGeneration]]
  BY <1>1, TextureAssumption DEF NoCopy
<1>4. TypeOK
  <2>1. 0 \in 0..MaxPixels /\ 0 \in 0..MaxGeneration
    BY TextureAssumption
  <2> QED
    BY <1>1, <1>3, <2>1 DEF TypeOK
<1>5. Types
  BY <1>1, <1>2, <1>4 DEF Types
<1>6. /\ \A s \in Stage : stageView[s] = None
      /\ \A a \in Address : rtt[a] = None
      /\ \A t \in Texture : cache[t].view = None
  BY <1>1, <1>2
<1>7. \A v \in View : Held(v) = 0
  BY <1>1, <1>5, <1>6, HoldersTyped, CountedNone DEF Held
<1>8. ReferencesExact
  BY <1>1, <1>5, <1>7, HeldByIsHeld DEF ReferencesExact
<1>9. OneAddress
  BY <1>1, TextureAssumption DEF OneAddress
<1>10. /\ OnlyLivingAreKept /\ TargetsShow /\ NeutralShows /\ TargetKept
       /\ CopiesOK(pixels, generation, cache, shows) /\ \A s \in Stage : StageOK(s)
  BY <1>1, <1>6 DEF OnlyLivingAreKept, TargetsShow, NeutralShows, TargetKept, CopiesOK, StageOK
<1> QED
  BY <1>5, <1>8, <1>9, <1>10 DEF IInv

LEMMA NextKeepsIInv == IInv /\ [Next]_vars => IInv'
<1> SUFFICES ASSUME IInv, [Next]_vars PROVE IInv'
  OBVIOUS
<1>1. CASE \E s \in Stage : SetNull(s)
  BY <1>1, SetNullKeeps
<1>2. CASE \E s \in Stage, a \in Address : SetTarget(s, a) \/ SetUnready(s, a) \/ SetManaged(s, a)
  BY <1>2, SetTargetKeeps, SetUnreadyKeeps, SetManagedKeeps
<1>3. CASE \E t \in Texture, a \in Address : CreateTexture(t, a) \/ Create_Render_Target(t, a)
  BY <1>3, CreateTextureKeeps, CreateTargetKeeps
<1>4. CASE \E t \in Texture : Set_D3D_Base_Texture(t) \/ Invalidate(t) \/ Rewrite(t)
  BY <1>4, SurfaceKeeps
<1>5. CASE \E a \in Address : Destroy(a)
  BY <1>5, DestroyKeeps
<1>6. CASE \/ \E a \in Address : Set_Render_Target(a)
           \/ Bind_Back_Buffer_Targets
           \/ Apply_Color_Grade
  BY <1>6, DeviceKeeps
<1>7. CASE Shutdown
  BY <1>7, ShutdownKeeps
<1>8. CASE UNCHANGED vars
  <2>1. UNCHANGED <<at, unborn, pixels, generation, cache, rtt, neutral, neutralFailed, refs,
                    shows, stageView, stageNeutral, slot, asked, adrift, target>>
    BY <1>8 DEF vars, textures, kept, device, stages
  <2>2. Types' /\ ReferencesExact' /\ OneAddress' /\ OnlyLivingAreKept'
    BY <2>1 DEF IInv, Types, TypeOK, ReferencesExact, HeldBy, OneAddress, OnlyLivingAreKept
  <2>3. /\ CopiesOK(pixels', generation', cache', shows') /\ TargetsShow' /\ NeutralShows'
        /\ TargetKept' /\ \A s \in Stage : StageOK(s)'
    BY <2>1 DEF IInv, TargetsShow, NeutralShows, TargetKept, StageOK
  <2> QED
    BY <2>2, <2>3 DEF IInv
<1> QED
  BY <1>1, <1>2, <1>3, <1>4, <1>5, <1>6, <1>7, <1>8 DEF Next

(*------------------------------ the theorems ----------------------------*)

LEMMA Invariant == Spec => []IInv
<1> QED
  BY InitIInv, NextKeepsIInv, PTL DEF Spec

(* Every view is released as often as it is held, by all the stages, kept  *)
(* copies, targets and the stand-in together, in every order of binds,     *)
(* loads, evictions, failures and shutdowns.                               *)
THEOREM EveryReferenceCounted == Spec => []ReferencesExact
<1>1. IInv => ReferencesExact
  BY DEF IInv
<1> QED
  BY <1>1, Invariant, PTL

(* What the device samples or draws to has not been released: a stage that *)
(* is not adrift holds the view in its slot itself, and the counts are     *)
(* exact.                                                                  *)
THEOREM NothingFreedIsBound == Spec => []BoundIsAlive
<1>1. IInv => BoundIsAlive
  <2> SUFFICES ASSUME IInv PROVE BoundIsAlive
    OBVIOUS
  <2>1. Types /\ HoldersOK(stageView, cache, rtt, neutral)
    BY HoldersTyped DEF IInv
  <2>2. ASSUME NEW s \in Stage \ adrift, slot[s] # None PROVE refs[slot[s]] > 0
    <3>1. slot[s] = stageView[s] /\ stageView[s] \in View
      BY <2>1, <2>2 DEF IInv, StageOK, HoldersOK
    <3>2. Held(stageView[s]) >= 1 /\ Held(stageView[s]) \in Nat
      BY <2>1, Counted DEF Held
    <3>3. refs[stageView[s]] = Held(stageView[s])
      BY <2>1, <3>1, ExactNow DEF IInv
    <3> QED
      BY <3>1, <3>2, <3>3
  <2> QED
    BY <2>2 DEF IInv, TargetKept, BoundIsAlive
<1> QED
  BY <1>1, Invariant, PTL

(* Nothing is kept of a texture that is gone, so that the next texture at  *)
(* its address never gets what was made for it.                            *)
THEOREM NothingOutlivesItsTexture == Spec => []OnlyLivingAreKept
<1>1. IInv => OnlyLivingAreKept
  BY DEF IInv
<1> QED
  BY <1>1, Invariant, PTL

(* A draw samples what was last asked for: the bytes the texture has now,  *)
(* by a kept copy or a fresh one, the target itself, or white.             *)
THEOREM DrawsSampleWhatWasAsked == Spec => []DrawsAsAsked
<1>1. IInv => DrawsAsAsked
  BY DEF IInv, StageOK, DrawsAsAsked
<1> QED
  BY <1>1, Invariant, PTL

-----------------------------------------------------------------------------
(*--------------------- the deferred render states -----------------------*)

(* Every object in the cache was created from some vector, under its key. *)
CacheIsCreated ==
  \A o \in stateCache : \E v \in Vector : o = Created(o.kind, v)

(* After a flush, what the backend remembers is what it last looked up: an *)
(* object of the cache, under the key of the vector it has now.            *)
FlushIsCurrent ==
  ~renderStateDirty =>
    /\ last = active
    /\ lastRef = Ref[renderState]
    /\ \A k \in StateKind : active[k] # Null =>
         /\ active[k] \in stateCache
         /\ active[k].kind = k
         /\ active[k].key = Key[k][renderState]

FlushInv == FlushTypeOK /\ RememberedIsBound /\ CacheIsCreated /\ FlushIsCurrent

(***************************************************************************)
(* An object made from a vector is an object, and not null.                *)
(***************************************************************************)
LEMMA CreatedIsObject ==
  ASSUME NEW k \in StateKind, NEW v \in Vector
  PROVE  Created(k, v) \in Object /\ Created(k, v) # Null
BY NullAssumption DEF Created, Object

(***************************************************************************)
(* The cache answers with null or with an object of the kind and key asked *)
(* for, made from some vector (D3D11StateCache::Get_*_State).              *)
(***************************************************************************)
LEMMA GetAnswers ==
  ASSUME FlushTypeOK, CacheIsCreated, NEW k \in StateKind, NEW v \in Vector,
         NEW o \in Get_State(k, v), o # Null
  PROVE  /\ o \in Object
         /\ o.kind = k
         /\ o.key = Key[k][v]
         /\ \E w \in Vector : o = Created(o.kind, w)
<1>1. CASE Cached(k, v) = {}
  <2>1. o = Created(k, v)
    BY <1>1 DEF Get_State
  <2>2. o.kind = k /\ o.key = Key[k][v]
    BY <2>1 DEF Created
  <2> QED
    BY <2>1, <2>2, CreatedIsObject
<1>2. CASE Cached(k, v) # {}
  <2>1. o \in stateCache /\ o.kind = k /\ o.key = Key[k][v]
    BY <1>2 DEF Get_State, Cached
  <2> QED
    BY <2>1 DEF FlushTypeOK, CacheIsCreated
<1> QED
  BY <1>1, <1>2

LEMMA InitFlush == FlushInit => FlushInv
<1> SUFFICES ASSUME FlushInit PROVE FlushInv
  OBVIOUS
<1>1. Nothing \in [StateKind -> Object \cup {Null}] /\ \A k \in StateKind : Nothing[k] = Null
  BY DEF Nothing
<1>2. FlushTypeOK
  BY <1>1, VectorAssumption DEF FlushInit, FlushTypeOK
<1>3. "depth" \in StateKind
  BY DEF StateKind
<1>4. RememberedIsBound
  BY <1>1, <1>3 DEF FlushInit, RememberedIsBound
<1>5. CacheIsCreated /\ FlushIsCurrent
  BY DEF FlushInit, CacheIsCreated, FlushIsCurrent
<1> QED
  BY <1>2, <1>4, <1>5 DEF FlushInv

(***************************************************************************)
(* The flush before a draw preserves the inductive invariant.              *)
(***************************************************************************)
LEMMA DrawFlush ==
  ASSUME FlushInv, Draw
  PROVE  FlushInv'
<1> USE DEF FlushInv
<1>1. PICK got \in [StateKind -> UNION {Get_State(k, renderState) : k \in StateKind}] :
        /\ \A k \in StateKind : got[k] \in Get_State(k, renderState)
        /\ stateCache' = stateCache \cup {got[k] : k \in {j \in StateKind : got[j] # Null}}
        /\ context' = [k \in StateKind |-> IF Binds(k, got) THEN got[k] ELSE context[k]]
        /\ contextRef' = IF Binds("depth", got) THEN Ref[renderState] ELSE contextRef
        /\ lastRef' = IF Binds("depth", got) THEN Ref[renderState] ELSE lastRef
        /\ last' = got
        /\ active' = got
  BY DEF Draw
<1>2. renderState' = renderState /\ renderState \in Vector /\ renderStateDirty' = FALSE
  BY DEF Draw, FlushTypeOK
<1>3. ASSUME NEW k \in StateKind, got[k] # Null
      PROVE  /\ got[k] \in Object
             /\ got[k].kind = k
             /\ got[k].key = Key[k][renderState]
             /\ \E w \in Vector : got[k] = Created(got[k].kind, w)
  BY <1>1, <1>2, <1>3, GetAnswers
<1>4. got \in [StateKind -> Object \cup {Null}]
  <2>1. \A k \in StateKind : got[k] \in Object \cup {Null}
    BY <1>3
  <2> QED
    BY <1>1, <2>1
<1>5. "depth" \in StateKind
  BY DEF StateKind
<1>6. FlushTypeOK'
  <2>1. stateCache' \in SUBSET Object
    BY <1>1, <1>3 DEF FlushTypeOK
  <2>2. context' \in [StateKind -> Object \cup {Null}]
    BY <1>1, <1>4 DEF FlushTypeOK
  <2>3. lastRef' \in {Ref[v] : v \in Vector} \cup {NoRef} /\ contextRef' \in {Ref[v] : v \in Vector}
    BY <1>1, <1>2 DEF FlushTypeOK
  <2> QED
    BY <1>1, <1>2, <1>4, <2>1, <2>2, <2>3 DEF FlushTypeOK
<1>7. RememberedIsBound'
  <2>1. ASSUME NEW k \in StateKind, got[k] # Null
        PROVE  context'[k] = got[k]
    <3>1. CASE Binds(k, got)
      BY <1>1, <3>1
    <3>2. CASE ~Binds(k, got)
      <4>1. got[k] = last[k]
        BY <2>1, <3>2 DEF Binds, StateKind
      <4> QED
        BY <1>1, <2>1, <3>2, <4>1 DEF RememberedIsBound
    <3> QED
      BY <3>1, <3>2
  <2>2. got["depth"] # Null => contextRef' = lastRef'
    <3>1. CASE Binds("depth", got)
      BY <1>1, <3>1
    <3>2. CASE ~Binds("depth", got)
      <4>1. got["depth"] = last["depth"]
        BY <3>2 DEF Binds
      <4> QED
        BY <1>1, <3>2, <4>1 DEF RememberedIsBound
    <3> QED
      BY <3>1, <3>2
  <2> QED
    BY <1>1, <2>1, <2>2 DEF RememberedIsBound
<1>8. CacheIsCreated'
  <2> SUFFICES ASSUME NEW o \in stateCache'
               PROVE  \E v \in Vector : o = Created(o.kind, v)
    BY DEF CacheIsCreated, Created
  <2>1. CASE o \in stateCache
    BY <2>1 DEF CacheIsCreated
  <2>2. CASE \E k \in StateKind : got[k] # Null /\ o = got[k]
    BY <1>3, <2>2
  <2> QED
    BY <1>1, <2>1, <2>2
<1>9. FlushIsCurrent'
  <2>1. lastRef' = Ref[renderState]
    BY <1>1 DEF Binds
  <2>2. \A k \in StateKind : got[k] # Null => got[k] \in stateCache'
    BY <1>1
  <2> QED
    BY <1>1, <1>2, <1>3, <2>1, <2>2 DEF FlushIsCurrent
<1> QED
  BY <1>6, <1>7, <1>8, <1>9

LEMMA NextFlush == FlushInv /\ [FlushNext]_flushVars => FlushInv'
<1> SUFFICES ASSUME FlushInv, [FlushNext]_flushVars PROVE FlushInv'
  OBVIOUS
<1> USE DEF FlushInv
<1>1. CASE Draw
  BY <1>1, DrawFlush
<1>2. ASSUME NEW v \in Vector, SetState(v) PROVE FlushInv'
  BY <1>2 DEF SetState, FlushTypeOK, RememberedIsBound, CacheIsCreated, FlushIsCurrent, Created
<1>3. CASE Apply_Default_State
  BY <1>3, VectorAssumption
  DEF Apply_Default_State, FlushTypeOK, RememberedIsBound, CacheIsCreated, FlushIsCurrent, Created
<1>4. CASE Invalidate_Cached_Render_States
  <2>1. Nothing \in [StateKind -> Object \cup {Null}] /\ \A k \in StateKind : Nothing[k] = Null
    BY DEF Nothing
  <2>2. "depth" \in StateKind
    BY DEF StateKind
  <2>3. FlushTypeOK'
    BY <1>4, <2>1 DEF Invalidate_Cached_Render_States, FlushTypeOK
  <2>4. RememberedIsBound'
    BY <1>4, <2>1, <2>2 DEF Invalidate_Cached_Render_States, RememberedIsBound
  <2>5. CacheIsCreated' /\ FlushIsCurrent'
    BY <1>4 DEF Invalidate_Cached_Render_States, CacheIsCreated, FlushIsCurrent, Created
  <2> QED
    BY <2>3, <2>4, <2>5
<1>5. CASE UNCHANGED flushVars
  BY <1>5 DEF flushVars, FlushTypeOK, RememberedIsBound, CacheIsCreated, FlushIsCurrent, Created
<1> QED
  BY <1>1, <1>2, <1>3, <1>4, <1>5 DEF FlushNext

(***************************************************************************)
(* The redundant-bind skip of Apply_Render_State_Changes is sound: an      *)
(* object remembered as bound is bound, with its stencil reference.        *)
(***************************************************************************)
THEOREM RememberedIsAlwaysBound == FlushSpec => []RememberedIsBound
<1>1. FlushInv => RememberedIsBound
  BY DEF FlushInv
<1> QED
  BY <1>1, InitFlush, NextFlush, PTL DEF FlushSpec

(***************************************************************************)
(* The state is always well typed.                                         *)
(***************************************************************************)
THEOREM FlushTypeCorrect == FlushSpec => []FlushTypeOK
<1>1. FlushInv => FlushTypeOK
  BY DEF FlushInv
<1> QED
  BY <1>1, InitFlush, NextFlush, PTL DEF FlushSpec

(***************************************************************************)
(* If different states have different keys, every flush leaves the context *)
(* drawing with the vector's states.  The hypothesis is where Depth_Key    *)
(* of D3D11States falls short: it ORs the stencil operations with the      *)
(* mixed masks, and the OR can hide an operation.                          *)
(***************************************************************************)
THEOREM FlushDrawsAsSet ==
  ASSUME KeysTellStatesApart
  PROVE  FlushSpec => []DrawnAsSet
<1>1. FlushInv => DrawnAsSet
  <2> SUFFICES ASSUME FlushInv, ~renderStateDirty
               PROVE  /\ \A k \in StateKind : active[k] # Null =>
                           context[k] # Null /\ context[k].desc = Desc[k][renderState]
                      /\ active["depth"] # Null => contextRef = Ref[renderState]
    BY DEF DrawnAsSet
  <2> USE DEF FlushInv
  <2>1. last = active /\ lastRef = Ref[renderState] /\ renderState \in Vector
    BY DEF FlushIsCurrent, FlushTypeOK
  <2>2. ASSUME NEW k \in StateKind, active[k] # Null
        PROVE  context[k] # Null /\ context[k].desc = Desc[k][renderState]
    <3>1. context[k] = active[k]
      BY <2>1, <2>2 DEF RememberedIsBound
    <3>2. active[k] \in stateCache /\ active[k].kind = k /\ active[k].key = Key[k][renderState]
      BY <2>2 DEF FlushIsCurrent
    <3>3. PICK v \in Vector : active[k] = Created(k, v)
      BY <3>2 DEF CacheIsCreated
    <3>4. Key[k][v] = Key[k][renderState] /\ active[k].desc = Desc[k][v]
      BY <3>2, <3>3 DEF Created
    <3> QED
      BY <2>1, <2>2, <3>1, <3>4, KeysTellStatesApart DEF KeysTellStatesApart
  <2>3. active["depth"] # Null => contextRef = Ref[renderState]
    BY <2>1 DEF RememberedIsBound
  <2> QED
    BY <2>2, <2>3
<1> QED
  BY <1>1, InitFlush, NextFlush, PTL DEF FlushSpec
=============================================================================
