------------------------ MODULE SleepyUpdatesProofs ------------------------
(***************************************************************************)
(* Proofs about SleepyUpdates, for any modules, owners, phases and times   *)
(* that satisfy its assumptions.                                           *)
(***************************************************************************)
EXTENDS SleepyUpdates, SequenceTheorems, WellFoundedInduction, TLAPS

(* The parent of a position, and its children. *)
LEMMA Half ==
  ASSUME NEW i \in Nat, i >= 2
  PROVE  /\ i \div 2 \in 1 .. i - 1
         /\ \A j \in Nat : i \div 2 = j <=> i = 2 * j \/ i = 2 * j + 1
  BY SMT

Ordered(i) == Priority(sleepy[i \div 2]) <= Priority(sleepy[i])

(*--------------------- the inductive invariant -------------------------*)

(* The two parts of Indexed: places, and who has one. *)
Places ==
  /\ \A u \in Module : index[u] # 0 => sleepy[index[u]] = u
  /\ \A i \in 1 .. Len(sleepy) : index[sleepy[i]] = i

Members ==
  \A u \in Module :
    index[u] # 0 <=> (Owner[u] \in listed \/ u \in leaving) /\ u \notin joining

(* Where the loops are, and what they have still to put in order: the edge *)
(* above the position they are at, or those below it, or both; and while   *)
(* the heap is made anew nothing above the last position it has come to.   *)
LoopOK ==
  /\ loop # "none" => at \in 1 .. Len(sleepy) /\ lowest \in 1 .. Len(sleepy)
  /\ loop # "child" => lowest = 1

BeingOrdered(i) ==
  \/ loop \in {"parent", "both"} /\ i = at
  \/ loop \in {"both", "child"} /\ i \div 2 = at

HeapOrder ==
  \A i \in 2 .. Len(sleepy) : i \div 2 >= lowest /\ ~BeingOrdered(i) => Ordered(i)

(* The parent of the position the loop is at precedes its children. *)
AroundOrder ==
  loop # "none" /\ at \div 2 >= lowest =>
    \A i \in 2 .. Len(sleepy) : i \div 2 = at =>
      Priority(sleepy[at \div 2]) <= Priority(sleepy[i])

(* Who is being pushed or erased. *)
Population ==
  /\ joining = {} \/ leaving = {}
  /\ \A u \in joining : Owner[u] \in listed
  /\ \A u \in leaving : Owner[u] \notin listed
  /\ leaving # {} => stage = "cleanup"

(* The module being updated is due and on top, and whoever is on the way   *)
(* into the heap does not precede it.                                      *)
OnTop ==
  cur # None =>
    /\ stage = "objects"
    /\ sleepy # <<>> /\ Head(sleepy) = cur
    /\ nextCall[cur] <= frame
    /\ lowest = 1 /\ joining \cap {cur} = {}
    /\ \A u \in joining : Priority(cur) <= Priority(u)
    /\ loop # "none" => at > 1
    /\ loop \in {"parent", "both"} => Priority(cur) <= Priority(sleepy[at])

Punctual ==
  \A u \in Module : Owner[u] \in listed \/ u \in leaving =>
    nextCall[u] + (IF stage \in {"commands", "objects"} THEN 1 ELSE 0) >= frame

CalledSleep ==
  stage = "objects" => \A u \in called \ {cur} : nextCall[u] > frame

IInv ==
  /\ TypeOK /\ LoopOK /\ Places /\ Members /\ HeapOrder /\ AroundOrder
  /\ Population /\ OnTop /\ Punctual /\ CalledSleep

(*------------------------- facts about the heap ------------------------*)

LEMMA PriorityType ==
  ASSUME TypeOK, NEW u \in Module
  PROVE  /\ Priority(u) \in Nat
         /\ \A v \in Module : Priority(u) <= Priority(v) =>
              \/ nextCall[u] < nextCall[v]
              \/ nextCall[u] = nextCall[v] /\ Phase[u] <= Phase[v]
         /\ \A v \in Module : nextCall[u] < nextCall[v] => Priority(u) <= Priority(v)
<1>1. \A v \in Module : nextCall[v] \in Nat /\ Phase[v] \in 0 .. 3
  BY ModuleAssumption, TimeAssumption DEF TypeOK, PHASE_INITIAL, PHASE_FINAL
<1> QED BY <1>1 DEF Priority

(* In a heap whose order is complete nobody precedes the top. *)
LEMMA TopIsFirst ==
  ASSUME TypeOK, LoopOK, HeapOrder, Resting,
         NEW i \in 1 .. Len(sleepy)
  PROVE  Priority(Head(sleepy)) <= Priority(sleepy[i])
<1> DEFINE before == {k \in 1 .. Len(sleepy) : Priority(sleepy[k]) < Priority(sleepy[1])}
<1>1. /\ \A k \in 1 .. Len(sleepy) : sleepy[k] \in Module /\ Priority(sleepy[k]) \in Nat
      /\ Len(sleepy) \in Nat /\ Len(sleepy) >= 1 /\ Head(sleepy) = sleepy[1]
  <2>1. sleepy \in Seq(Module)
    BY DEF TypeOK
  <2>2. \A k \in 1 .. Len(sleepy) : sleepy[k] \in Module
    BY <2>1
  <2> QED BY <2>1, <2>2, PriorityType
<1>2. SUFFICES ASSUME before # {} PROVE FALSE
  BY <1>1
<1>3. PICK k \in before : \A j \in before : ~(<<j, k>> \in OpToRel(<, Nat))
  <2>1. before \subseteq Nat
    BY DEF TypeOK
  <2> HIDE DEF before
  <2> QED BY <1>2, <2>1, NatLessThanWellFounded, WFMin
<1>4. k \in Nat /\ k >= 2 /\ k <= Len(sleepy)
  BY <1>1 DEF TypeOK
<1>5. k \div 2 \in 1 .. k - 1
  BY <1>4, Half
<1>6. Priority(sleepy[k \div 2]) <= Priority(sleepy[k])
  BY <1>4, <1>5 DEF HeapOrder, LoopOK, Resting, BeingOrdered, Ordered
<1>7. k \div 2 \in 1 .. Len(sleepy)
  BY <1>1, <1>4, <1>5
<1>8. k \div 2 \in before
  BY <1>1, <1>4, <1>6, <1>7
<1>9. k \div 2 \in Nat /\ k \div 2 < k
  BY <1>4, <1>5
<1>10. <<k \div 2, k>> \in OpToRel(<, Nat)
  BY <1>4, <1>9 DEF OpToRel
<1> QED BY <1>3, <1>8, <1>10

(*--------------------- the loops over the heap -------------------------*)

(* Two entries of the heap are exchanged, and told their new places: that  *)
(* keeps all that is not about the order.                                  *)
LEMMA SwapKeeps ==
  ASSUME IInv, Resting = FALSE, NEW i \in 1 .. Len(sleepy), NEW j \in 1 .. Len(sleepy), i # j,
         Swap(i, j), at' = j, UNCHANGED <<loop, lowest>>,
         UNCHANGED <<frame, stage, nextCall, cur, called, objectVars>>
  PROVE  /\ TypeOK' /\ LoopOK' /\ Places' /\ Members'
         /\ Population' /\ Punctual' /\ CalledSleep'
         /\ Len(sleepy') = Len(sleepy)
         /\ \A k \in 1 .. Len(sleepy) : sleepy[k] \in Module /\ sleepy'[k] \in Module
         /\ \A k \in 1 .. Len(sleepy) :
              sleepy'[k] = IF k = i THEN sleepy[j] ELSE IF k = j THEN sleepy[i] ELSE sleepy[k]
<1>1. sleepy[i] \in Module /\ sleepy[j] \in Module
  BY DEF IInv, TypeOK
<1> DEFINE first == [sleepy EXCEPT ![i] = sleepy[j]]
<1>2. /\ first \in Seq(Module) /\ Len(first) = Len(sleepy)
      /\ \A k \in 1 .. Len(sleepy) : first[k] = IF k = i THEN sleepy[j] ELSE sleepy[k]
  <2>1. sleepy \in Seq(Module)
    BY DEF IInv, TypeOK
  <2> QED BY ONLY <1>1, <2>1, ExceptSeq, i \in 1 .. Len(sleepy)
<1>3. sleepy' = [first EXCEPT ![j] = sleepy[i]]
  BY DEF Swap
<1>4. /\ sleepy' \in Seq(Module) /\ Len(sleepy') = Len(sleepy)
      /\ \A k \in 1 .. Len(sleepy) :
           sleepy'[k] = IF k = j THEN sleepy[i] ELSE first[k]
  <2> HIDE DEF first
  <2> QED BY <1>1, <1>2, <1>3, ExceptSeq
<1>5. index' = [u \in Module |-> IF u = sleepy[i] THEN j ELSE IF u = sleepy[j] THEN i ELSE index[u]]
  BY <1>1 DEF IInv, Swap, TypeOK
<1>6. sleepy[i] # sleepy[j] /\ index[sleepy[i]] = i /\ index[sleepy[j]] = j
  BY DEF IInv, Places
<1>7. \A k \in 1 .. Len(sleepy) : sleepy[k] \in Module /\ index[sleepy[k]] = k
  BY SMTT(30) DEF IInv, Places, TypeOK
<1>8. \A u \in Module : index[u] \in 0 .. Len(sleepy) /\ (index[u] # 0 => sleepy[index[u]] = u)
  BY DEF IInv, Places, TypeOK
<1>9. i \in Nat /\ j \in Nat /\ i # 0 /\ j # 0 /\ Len(sleepy) \in Nat
  BY DEF IInv, TypeOK
<1>10. \A k \in 1 .. Len(sleepy) :
         sleepy'[k] = IF k = j THEN sleepy[i] ELSE IF k = i THEN sleepy[j] ELSE sleepy[k]
  BY <1>2, <1>4
<1> HIDE DEF first
<1>11. index' \in [Module -> 0 .. Len(sleepy')]
  BY <1>4, <1>5, <1>8, <1>9
<1>12. \A u \in Module : index'[u] # 0 => sleepy'[index'[u]] = u
  BY <1>5, <1>6, <1>8, <1>9, <1>10
<1>13. \A k \in 1 .. Len(sleepy') : index'[sleepy'[k]] = k
  BY <1>1, <1>4, <1>5, <1>6, <1>7, <1>10
<1>14. \A u \in Module : index'[u] # 0 <=> index[u] # 0
  BY <1>5, <1>6, <1>9
<1>15. TypeOK'
  BY <1>4, <1>9, <1>11 DEF IInv, TypeOK, objectVars
<1>16. Places'
  BY <1>12, <1>13 DEF IInv, Places
<1>17. LoopOK'
  BY <1>4, <1>9 DEF IInv, LoopOK
<1>18. Members'
  BY <1>14 DEF IInv, Members, objectVars
<1>19. Population' /\ Punctual' /\ CalledSleep'
  BY DEF IInv, Population, Punctual, CalledSleep, objectVars
<1>20. \A k \in 1 .. Len(sleepy) : sleepy[k] \in Module /\ sleepy'[k] \in Module
  BY <1>4, <1>7
<1> QED BY <1>4, <1>10, <1>15, <1>16, <1>17, <1>18, <1>19, <1>20

LEMMA ParentKeeps ==
  ASSUME IInv, RebalanceParent
  PROVE  IInv'
<1> DEFINE c == at \div 2
<1>1. /\ loop \in {"parent", "both"} /\ lowest = 1
      /\ at \in 1 .. Len(sleepy) /\ Len(sleepy) \in Nat
      /\ UNCHANGED <<frame, stage, nextCall, cur, called, objectVars>>
  BY DEF IInv, LoopOK, TypeOK, RebalanceParent
<1>2. CASE at > 1 /\ LowerPriority(sleepy[c], sleepy[at])
  <2>1. /\ Swap(at, c) /\ at' = c /\ UNCHANGED <<loop, lowest>>
        /\ c \in 1 .. Len(sleepy) /\ c < at /\ at # c
    BY <1>1, <1>2, Half DEF RebalanceParent, StartLoop
  <2>2. /\ TypeOK' /\ LoopOK' /\ Places' /\ Members'
        /\ Population' /\ Punctual' /\ CalledSleep'
        /\ Len(sleepy') = Len(sleepy)
        /\ \A k \in 1 .. Len(sleepy) : sleepy[k] \in Module /\ sleepy'[k] \in Module
        /\ \A k \in 1 .. Len(sleepy) :
             sleepy'[k] = IF k = at THEN sleepy[c] ELSE IF k = c THEN sleepy[at] ELSE sleepy[k]
    <3>1. Resting = FALSE
      BY <1>1 DEF Resting
    <3> HIDE DEF c
    <3> QED BY <1>1, <2>1, <3>1, SwapKeeps
  <2>3. HeapOrder' /\ AroundOrder'
    <3> DEFINE n == Len(sleepy)
               h == [k \in 2 .. n |-> k \div 2]
               p == [k \in 1 .. n |-> Priority(sleepy[k])]
               q == [k \in 1 .. n |-> Priority(sleepy'[k])]
    <3>1. /\ h \in [2 .. n -> 1 .. n] /\ \A k \in 2 .. n : h[k] < k
          /\ n \in Nat /\ at \in 2 .. n /\ c \in 1 .. n /\ h[at] = c
      BY <1>1, <1>2, <2>1, Half
    <3>2. p \in [1 .. n -> Nat] /\ q \in [1 .. n -> Nat] /\ p[c] > p[at]
      BY <1>1, <1>2, <2>1, <2>2, PriorityType DEF IInv, LowerPriority
    <3>3. \A k \in 1 .. n : q[k] = IF k = at THEN p[c] ELSE IF k = c THEN p[at] ELSE p[k]
      BY <1>1, <2>1, <2>2
    <3>4. \A k \in 2 .. n : k # at /\ (loop = "both" => h[k] # at) => p[h[k]] <= p[k]
      BY <1>1, <3>1 DEF IInv, HeapOrder, BeingOrdered, Ordered
    <3>5. \A k \in 2 .. n : h[k] = at => p[c] <= p[k]
      BY <1>1, <2>1, <3>1 DEF IInv, AroundOrder
    <3>6. /\ \A k \in 2 .. n : k # c /\ (loop = "both" => h[k] # c) => q[h[k]] <= q[k]
          /\ c > 1 => \A k \in 2 .. n : h[k] = c => q[h[c]] <= q[k]
      <4> HIDE DEF n, h, p, q, c
      <4> USE <3>1, <3>2, <3>3, <3>4, <3>5
      <4>1. c < at
        OBVIOUS
      <4>2. \A k \in 2 .. n : k \in 1 .. n /\ h[k] \in 1 .. n
        BY SMTT(30)
      <4>3. \A k \in 2 .. n : h[k] = c /\ k # at => p[c] <= p[k]
        BY <4>1
      <4>4. ASSUME NEW k \in 2 .. n, k # c, loop = "both" => h[k] # c PROVE q[h[k]] <= q[k]
        <5>1. CASE k = at
          BY <4>1, <5>1
        <5>2. CASE k # at /\ h[k] = c
          BY <4>1, <4>2, <4>3, <4>4, <5>2
        <5>3. CASE k # at /\ h[k] = at
          BY <4>1, <4>2, <4>4, <5>3
        <5>4. CASE k # at /\ h[k] # at /\ h[k] # c
          BY <4>1, <4>2, <4>4, <5>4
        <5> QED BY <5>1, <5>2, <5>3, <5>4
      <4>5. ASSUME c > 1, NEW k \in 2 .. n, h[k] = c PROVE q[h[c]] <= q[k]
        <5>1. c \in 2 .. n /\ h[c] \in 1 .. n /\ h[c] < c
          BY <4>5
        <5>2. p[h[c]] <= p[c] /\ q[h[c]] = p[h[c]]
          BY <4>1, <5>1, SMTT(30)
        <5>3. CASE k = at
          BY <4>1, <5>1, <5>2, <5>3
        <5>4. CASE k # at
          <6>1. k \in 1 .. n /\ k # c /\ q[k] = p[k] /\ p[c] <= p[k]
            BY <4>2, <4>3, <4>5, <5>1, <5>4
          <6>2. p[h[c]] \in Nat /\ p[c] \in Nat /\ p[k] \in Nat
            BY <5>1, <6>1
          <6> QED BY ONLY <5>2, <6>1, <6>2
        <5> QED BY <5>3, <5>4
      <4> QED BY <4>4, <4>5
    <3>7. \A k \in 1 .. n : q[k] = Priority(sleepy[k])'
      BY <1>1 DEF Priority
    <3>8. \A k \in 2 .. n : k \div 2 \in 1 .. n /\ k \in 1 .. n /\ h[k] = k \div 2
      BY <3>1
    <3>9. HeapOrder'
      <4> HIDE DEF c, h, q
      <4> QED BY <1>1, <2>1, <2>2, <3>6, <3>7, <3>8 DEF HeapOrder, BeingOrdered, Ordered
    <3>10. AroundOrder'
      <4>1. c \div 2 >= 1 => c > 1 /\ h[c] = c \div 2 /\ c \div 2 \in 1 .. n
        BY <2>1, <3>1
      <4>2. ASSUME at' \div 2 >= 1, NEW k \in 2 .. n, k \div 2 = at'
            PROVE  (Priority(sleepy[at \div 2]) <= Priority(sleepy[k]))'
        <5>1. c > 1 /\ h[k] = c
          BY <2>1, <3>8, <4>1, <4>2
        <5>2. q[h[c]] <= q[k]
          <6> HIDE DEF c, h, q
          <6> QED BY <3>6, <4>2, <5>1
        <5>3. q[k] = Priority(sleepy[k])'
          BY <3>7, <3>8
        <5>4. q[h[c]] = Priority(sleepy'[c \div 2])
          <6> HIDE DEF c, h
          <6> QED BY <2>1, <4>1, <4>2
        <5>5. q[h[c]] = Priority(sleepy[at \div 2])'
          BY <1>1, <2>1, <5>4 DEF Priority
        <5> HIDE DEF q
        <5> QED BY <5>2, <5>3, <5>5
      <4> QED BY <1>1, <2>1, <2>2, <4>2 DEF AroundOrder
    <3> QED BY <3>9, <3>10
  <2>4. OnTop'
    <3>1. SUFFICES ASSUME cur # None PROVE OnTop'
      BY <1>1 DEF OnTop
    <3>2. /\ stage = "objects" /\ sleepy # <<>> /\ Head(sleepy) = cur /\ nextCall[cur] <= frame
          /\ joining \cap {cur} = {} /\ \A u \in joining : Priority(cur) <= Priority(u)
          /\ Priority(cur) <= Priority(sleepy[at]) /\ cur = sleepy[1]
      BY <1>1, <3>1 DEF IInv, OnTop, TypeOK
    <3>3. /\ Priority(sleepy[at]) \in Nat /\ Priority(sleepy[c]) \in Nat
          /\ Priority(sleepy[c]) > Priority(sleepy[at])
      BY <1>1, <1>2, <2>1, <2>2, PriorityType DEF IInv, LowerPriority
    <3>4. c # 1
      BY <3>2, <3>3
    <3>5. c > 1 /\ sleepy'[1] = cur /\ sleepy'[c] = sleepy[at]
      BY <1>1, <2>1, <2>2, <3>2, <3>4
    <3>6. sleepy' # <<>> /\ Head(sleepy') = cur
      BY <1>1, <2>2, <3>5 DEF TypeOK
    <3> QED BY <1>1, <2>1, <3>2, <3>5, <3>6 DEF OnTop, Priority, objectVars
  <2> QED BY <2>2, <2>3, <2>4 DEF IInv
<1>3. CASE ~(at > 1 /\ LowerPriority(sleepy[c], sleepy[at]))
  <2>1. /\ UNCHANGED <<sleepy, index, lowest>>
        /\ loop = "both" => loop' = "child" /\ at' = at
        /\ loop = "parent" => loop' = "none" /\ at' = 1
    BY <1>1, <1>3 DEF RebalanceParent, StartLoop
  <2>2. at > 1 => Ordered(at)
    <3>1. at > 1 => c \in 1 .. Len(sleepy)
      BY <1>1, Half
    <3>2. at > 1 => sleepy[c] \in Module /\ sleepy[at] \in Module
      BY <1>1, <3>1, SMTT(30) DEF IInv, TypeOK
    <3>3. at > 1 => Priority(sleepy[c]) \in Nat /\ Priority(sleepy[at]) \in Nat
      BY <3>2, PriorityType DEF IInv
    <3> QED BY <1>1, <1>3, <3>3 DEF Ordered, LowerPriority
  <2>3. \A k \in 2 .. Len(sleepy) : k \div 2 >= 1 /\ (Ordered(k))' = Ordered(k)
    BY <1>1, <2>1 DEF Ordered, Priority
  <2>4. HeapOrder'
    BY <1>1, <2>1, <2>2, <2>3 DEF IInv, HeapOrder, BeingOrdered
  <2>5. AroundOrder'
    BY <1>1, <2>1 DEF IInv, AroundOrder, Priority
  <2>6. TypeOK' /\ LoopOK'
    BY <1>1, <2>1 DEF IInv, TypeOK, LoopOK, objectVars
  <2>7. Places' /\ Members' /\ Population' /\ Punctual' /\ CalledSleep'
    BY <1>1, <2>1 DEF IInv, Places, Members, Population, Punctual, CalledSleep, objectVars
  <2>8. OnTop'
    BY <1>1, <2>1 DEF IInv, OnTop, Priority, objectVars
  <2> QED BY <2>4, <2>5, <2>6, <2>7, <2>8 DEF IInv
<1> QED BY <1>2, <1>3

LEMMA ChildKeeps ==
  ASSUME IInv, RebalanceChild
  PROVE  IInv'
<1> DEFINE c == HigherChild(at)
<1>1. /\ loop = "child" /\ at \in 1 .. Len(sleepy) /\ lowest \in 1 .. Len(sleepy)
      /\ Len(sleepy) \in Nat
      /\ UNCHANGED <<frame, stage, nextCall, cur, called, objectVars>>
  BY DEF IInv, LoopOK, TypeOK, RebalanceChild
<1>2. \A k \in 1 .. Len(sleepy) : sleepy[k] \in Module /\ Priority(sleepy[k]) \in Nat
  <2>1. \A k \in 1 .. Len(sleepy) : sleepy[k] \in Module
    BY DEF IInv, TypeOK
  <2> QED BY <2>1, PriorityType DEF IInv
<1>3. \A k \in 2 .. Len(sleepy) : k \div 2 \in 1 .. Len(sleepy) /\ k \div 2 < k
  BY <1>1, Half
<1>4. 2 * at <= Len(sleepy) =>
        /\ c \in 2 .. Len(sleepy) /\ c \div 2 = at /\ c > at
        /\ \A k \in 2 .. Len(sleepy) : k \div 2 = at => Priority(sleepy[c]) <= Priority(sleepy[k])
  <2>1. \A k \in 2 .. Len(sleepy) : k \div 2 = at => k = 2 * at \/ k = 2 * at + 1
    BY <1>1
  <2>2. (2 * at) \div 2 = at /\ (2 * at + 1) \div 2 = at
    BY <1>1
  <2>3. CASE 2 * at < Len(sleepy) /\ LowerPriority(sleepy[2 * at], sleepy[2 * at + 1])
    <3>1. c = 2 * at + 1
      BY <2>3 DEF HigherChild
    <3>2. /\ Priority(sleepy[2 * at]) \in Nat /\ Priority(sleepy[2 * at + 1]) \in Nat
          /\ Priority(sleepy[2 * at]) > Priority(sleepy[2 * at + 1])
      BY <1>1, <1>2, <2>3 DEF LowerPriority
    <3> HIDE DEF c
    <3> QED BY <1>1, <2>1, <2>2, <2>3, <3>1, <3>2
  <2>4. CASE 2 * at < Len(sleepy) /\ ~LowerPriority(sleepy[2 * at], sleepy[2 * at + 1])
    <3>1. c = 2 * at
      BY <2>4 DEF HigherChild
    <3>2. /\ Priority(sleepy[2 * at]) \in Nat /\ Priority(sleepy[2 * at + 1]) \in Nat
          /\ Priority(sleepy[2 * at]) <= Priority(sleepy[2 * at + 1])
      BY <1>1, <1>2, <2>4 DEF LowerPriority
    <3> HIDE DEF c
    <3> QED BY <1>1, <2>1, <2>2, <2>4, <3>1, <3>2
  <2>5. CASE 2 * at = Len(sleepy)
    BY <1>1, <1>2, <2>1, <2>2, <2>5 DEF HigherChild
  <2> QED BY <1>1, <2>3, <2>4, <2>5
<1>5. CASE 2 * at <= Len(sleepy) /\ LowerPriority(sleepy[at], sleepy[c])
  <2>1. /\ Swap(at, c) /\ at' = c /\ UNCHANGED <<loop, lowest>>
        /\ c \in 1 .. Len(sleepy) /\ c > at /\ at # c
    BY <1>1, <1>4, <1>5 DEF RebalanceChild, StartLoop
  <2>2. /\ TypeOK' /\ LoopOK' /\ Places' /\ Members'
        /\ Population' /\ Punctual' /\ CalledSleep'
        /\ Len(sleepy') = Len(sleepy)
        /\ \A k \in 1 .. Len(sleepy) : sleepy[k] \in Module /\ sleepy'[k] \in Module
        /\ \A k \in 1 .. Len(sleepy) :
             sleepy'[k] = IF k = at THEN sleepy[c] ELSE IF k = c THEN sleepy[at] ELSE sleepy[k]
    <3>1. Resting = FALSE
      BY <1>1 DEF Resting
    <3> HIDE DEF c
    <3> QED BY <1>1, <2>1, <3>1, SwapKeeps
  <2>3. HeapOrder' /\ AroundOrder'
    <3> DEFINE n == Len(sleepy)
               h == [k \in 2 .. n |-> k \div 2]
               p == [k \in 1 .. n |-> Priority(sleepy[k])]
               q == [k \in 1 .. n |-> Priority(sleepy'[k])]
    <3>1. /\ h \in [2 .. n -> 1 .. n] /\ \A k \in 2 .. n : h[k] < k
          /\ n \in Nat /\ lowest \in Nat /\ at \in 1 .. n /\ c \in 2 .. n /\ h[c] = at
      BY <1>1, <1>3, <1>4, <1>5
    <3>2. p \in [1 .. n -> Nat] /\ q \in [1 .. n -> Nat] /\ p[at] > p[c]
      BY <1>1, <1>2, <1>5, <2>1, <2>2, PriorityType DEF IInv, LowerPriority
    <3>3. \A k \in 1 .. n : q[k] = IF k = at THEN p[c] ELSE IF k = c THEN p[at] ELSE p[k]
      BY <1>1, <2>1, <2>2
    <3>4. \A k \in 2 .. n : h[k] >= lowest /\ h[k] # at => p[h[k]] <= p[k]
      BY <1>1, <1>3, <3>1 DEF IInv, HeapOrder, BeingOrdered, Ordered
    <3>5. /\ \A k \in 2 .. n : h[k] = at => p[c] <= p[k]
          /\ at > 1 /\ h[at] >= lowest => \A k \in 2 .. n : h[k] = at => p[h[at]] <= p[k]
      BY <1>1, <1>3, <1>4, <1>5, <3>1, SMTT(30) DEF IInv, AroundOrder
    <3>6. /\ \A k \in 2 .. n : h[k] >= lowest /\ h[k] # c => q[h[k]] <= q[k]
          /\ at >= lowest => \A k \in 2 .. n : h[k] = c => q[at] <= q[k]
      <4> HIDE DEF n, h, p, q, c
      <4> USE <3>1, <3>2, <3>3, <3>4, <3>5
      <4>1. at < c
        OBVIOUS
      <4>2. \A k \in 2 .. n : k \in 1 .. n /\ h[k] \in 1 .. n
        BY SMTT(30)
      <4>3. ASSUME NEW k \in 2 .. n, h[k] >= lowest, h[k] # c PROVE q[h[k]] <= q[k]
        <5>1. CASE k = c
          BY <4>1, <5>1
        <5>2. CASE k # c /\ h[k] = at
          <6>1. k \in 1 .. n /\ k # at /\ q[k] = p[k] /\ p[c] <= p[k] /\ q[h[k]] = p[c]
            BY <4>1, <4>2, <5>2
          <6> QED BY <6>1
        <5>3. CASE k = at
          <6>1. h[k] \in 1 .. n /\ h[k] < at /\ h[k] # at /\ at > 1 /\ h[at] >= lowest
            BY <4>2, <4>3, <5>3
          <6>2. p[h[at]] <= p[c] /\ q[h[at]] = p[h[at]] /\ q[at] = p[c]
            BY <4>1, <6>1, <5>3
          <6> QED BY <5>3, <6>2
        <5>4. CASE k # c /\ k # at /\ h[k] # at
          <6>1. p[h[k]] <= p[k] /\ q[k] = p[k] /\ q[h[k]] = p[h[k]]
            BY <4>2, <4>3, <5>4
          <6> QED BY <6>1
        <5> QED BY <5>1, <5>2, <5>3, <5>4
      <4>4. ASSUME at >= lowest, NEW k \in 2 .. n, h[k] = c PROVE q[at] <= q[k]
        <5>1. k \in 1 .. n /\ h[k] < k /\ k > c
          BY <4>2, <4>4
        <5>2. k # at /\ k # c
          BY <4>1, <5>1
        <5>3. q[k] = p[k] /\ q[at] = p[c]
          BY <4>1, <5>1, <5>2
        <5>4. h[k] >= lowest /\ h[k] # at
          BY <4>1, <4>4
        <5>5. p[c] <= p[k]
          BY <4>4, <5>4
        <5> QED BY <5>3, <5>5
      <4> QED BY <4>3, <4>4
    <3>7. \A k \in 1 .. n : q[k] = Priority(sleepy[k])'
      BY <1>1 DEF Priority
    <3>8. \A k \in 2 .. n : k \div 2 \in 1 .. n /\ k \in 1 .. n /\ h[k] = k \div 2
      BY <1>3
    <3>9. HeapOrder'
      <4> HIDE DEF c, h, q
      <4> QED BY <1>1, <2>1, <2>2, <3>6, <3>7, <3>8 DEF HeapOrder, BeingOrdered, Ordered
    <3>10. AroundOrder'
      <4>1. ASSUME at' \div 2 >= lowest, NEW k \in 2 .. n, k \div 2 = at'
            PROVE  (Priority(sleepy[at \div 2]) <= Priority(sleepy[k]))'
        <5>1. at >= lowest /\ h[k] = c
          BY <1>4, <1>5, <2>1, <3>8, <4>1
        <5>2. q[at] <= q[k]
          <6> HIDE DEF c, h, q
          <6> QED BY <3>6, <4>1, <5>1
        <5>3. q[k] = Priority(sleepy[k])'
          BY <3>7, <3>8
        <5>4. q[at] = Priority(sleepy'[at])
          BY <1>1
        <5>5. q[at] = Priority(sleepy[at \div 2])'
          BY <1>1, <1>4, <1>5, <2>1, <5>4 DEF Priority
        <5> HIDE DEF q
        <5> QED BY <5>2, <5>3, <5>5
      <4> QED BY <1>1, <2>1, <2>2, <4>1 DEF AroundOrder
    <3> QED BY <3>9, <3>10
  <2>4. OnTop'
    <3>1. SUFFICES ASSUME cur # None PROVE OnTop'
      BY <1>1 DEF OnTop
    <3>2. at > 1 /\ sleepy # <<>> /\ cur = sleepy[1] /\ 1 \in 1 .. Len(sleepy)
      BY <1>1, <3>1 DEF IInv, OnTop, TypeOK
    <3>3. sleepy'[1] = cur
      <4> HIDE DEF c
      <4> QED BY <1>1, <2>1, <2>2, <3>2
    <3>4. sleepy' # <<>> /\ Head(sleepy') = cur
      <4>1. sleepy' \in Seq(Module) /\ Len(sleepy') \in Nat /\ Len(sleepy') >= 1
        BY <1>1, <2>2, <3>2 DEF TypeOK
      <4> QED BY <3>3, <4>1
    <3>5. at' > 1
      <4> HIDE DEF c
      <4> QED BY <1>1, <2>1, <3>2
    <3> QED BY <1>1, <2>1, <3>1, <3>4, <3>5, <3>2 DEF IInv, OnTop, Priority, objectVars
  <2> QED BY <2>2, <2>3, <2>4 DEF IInv
<1>6. CASE ~(2 * at <= Len(sleepy) /\ LowerPriority(sleepy[at], sleepy[c]))
  <2>1. /\ UNCHANGED <<sleepy, index>>
        /\ lowest > 1 => lowest' = lowest - 1 /\ at' = lowest - 1 /\ UNCHANGED loop
        /\ lowest = 1 => loop' = "none" /\ at' = 1 /\ UNCHANGED lowest
    BY <1>1, <1>6 DEF RebalanceChild, StartLoop
  <2>2. \A k \in 2 .. Len(sleepy) : k \div 2 >= lowest => Ordered(k)
    <3>1. ASSUME NEW k \in 2 .. Len(sleepy), k \div 2 = at PROVE Ordered(k)
      <4>1. 2 * at <= Len(sleepy)
        BY <1>1, <3>1
      <4>2. c \in 1 .. Len(sleepy) /\ at \in 1 .. Len(sleepy) /\ k \in 1 .. Len(sleepy)
        BY <1>1, <1>4, <3>1, <4>1
      <4>3. ~LowerPriority(sleepy[at], sleepy[c])
        BY <1>6, <4>1
      <4>4. Priority(sleepy[c]) <= Priority(sleepy[k])
        BY <1>4, <3>1, <4>1
      <4>5. Priority(sleepy[at]) <= Priority(sleepy[k])
        <5> HIDE DEF c
        <5> QED BY <1>2, <4>2, <4>3, <4>4 DEF LowerPriority
      <4> QED BY <3>1, <4>5 DEF Ordered
    <3> QED BY <1>1, <3>1 DEF IInv, HeapOrder, BeingOrdered
  <2>3. \A k \in 2 .. Len(sleepy) : (Ordered(k))' = Ordered(k)
    BY <1>1, <2>1 DEF Ordered, Priority
  <2>4. HeapOrder'
    <3>1. \A k \in 2 .. Len(sleepy) :
            k \div 2 >= lowest' /\ ~(BeingOrdered(k))' => k \div 2 >= lowest
      BY <1>1, <1>3, <2>1 DEF BeingOrdered
    <3> QED BY <2>1, <2>2, <2>3, <3>1 DEF HeapOrder
  <2>5. AroundOrder'
    BY <1>1, <2>1 DEF AroundOrder
  <2>6. TypeOK' /\ LoopOK'
    <3>1. /\ at' \in Nat \ {0} /\ lowest' \in Nat \ {0} /\ loop' \in {"none", "child"}
          /\ loop' # "none" => at' \in 1 .. Len(sleepy) /\ lowest' \in 1 .. Len(sleepy)
          /\ loop' # "child" => lowest' = 1
      BY <1>1, <2>1
    <3> QED BY <1>1, <2>1, <3>1 DEF IInv, TypeOK, LoopOK, objectVars
  <2>7. Places' /\ Members' /\ Population' /\ Punctual' /\ CalledSleep'
    BY <1>1, <2>1 DEF IInv, Places, Members, Population, Punctual, CalledSleep, objectVars
  <2>8. OnTop'
    BY <1>1, <2>1 DEF IInv, OnTop, Priority, objectVars
  <2> QED BY <2>4, <2>5, <2>6, <2>7, <2>8 DEF IInv
<1> QED BY <1>5, <1>6

(*--------------------- modules that come and go ------------------------*)

LEMMA HeapType ==
  ASSUME TypeOK
  PROVE  /\ sleepy \in Seq(Module) /\ Len(sleepy) \in Nat
         /\ \A k \in 1 .. Len(sleepy) : sleepy[k] \in Module /\ Priority(sleepy[k]) \in Nat
         /\ sleepy # <<>> => Len(sleepy) >= 1 /\ Head(sleepy) = sleepy[1]
         /\ frame \in Nat /\ frame + 1 < Forever /\ Forever \in Nat
         /\ \A u \in Module : nextCall[u] \in Nat /\ index[u] \in 0 .. Len(sleepy)
<1>1. sleepy \in Seq(Module) /\ Len(sleepy) \in Nat
  BY DEF TypeOK
<1>2. \A k \in 1 .. Len(sleepy) : sleepy[k] \in Module
  BY <1>1
<1>3. frame \in Nat /\ frame + 1 < Forever /\ Forever \in Nat
  BY TimeAssumption DEF TypeOK
<1>4. \A u \in Module : nextCall[u] \in Nat /\ index[u] \in 0 .. Len(sleepy)
  BY <1>3 DEF TypeOK
<1>5. sleepy # <<>> => Len(sleepy) >= 1 /\ Head(sleepy) = sleepy[1]
  BY <1>1
<1> QED BY <1>1, <1>2, <1>3, <1>4, <1>5, PriorityType

LEMMA PushKeeps ==
  ASSUME IInv, PushSleepyUpdate
  PROVE  IInv'
<1> DEFINE n == Len(sleepy)
<1>1. /\ TypeOK /\ Places /\ Members /\ Population /\ n \in Nat
      /\ \A k \in 1 .. n : sleepy[k] \in Module
  BY HeapType DEF IInv
<1>2. PICK u \in joining : /\ sleepy' = Append(sleepy, u)
                          /\ index' = [index EXCEPT ![u] = n + 1]
                          /\ joining' = joining \ {u}
  BY DEF PushSleepyUpdate
<1>3. /\ loop = "none" /\ loop' = "parent" /\ at' = n + 1 /\ lowest = 1 /\ lowest' = 1
      /\ UNCHANGED <<frame, stage, nextCall, cur, called, listed, destroyed, toDestroy, leaving>>
  BY DEF PushSleepyUpdate, StartLoop, IInv, LoopOK, Resting
<1>4. u \in Module /\ index[u] = 0 /\ Owner[u] \in listed /\ leaving = {}
  BY <1>1 DEF TypeOK, Members, Population
<1>5. /\ sleepy' \in Seq(Module) /\ Len(sleepy') = n + 1 /\ sleepy'[n + 1] = u
      /\ \A k \in 1 .. n : sleepy'[k] = sleepy[k]
  BY <1>1, <1>2, <1>4 DEF TypeOK
<1>6. \A k \in 1 .. n : sleepy[k] # u /\ index[sleepy[k]] = k
  BY <1>1, <1>4 DEF Places
<1>7. TypeOK'
  <2>1. index' \in [Module -> 0 .. n + 1]
    BY <1>1, <1>2, <1>4 DEF TypeOK
  <2>2. joining' \subseteq Module
    BY <1>1, <1>2 DEF TypeOK
  <2>3. index' \in [Module -> 0 .. Len(sleepy')]
    BY <1>5, <2>1
  <2>4. at' \in Nat \ {0} /\ lowest' \in Nat \ {0} /\ loop' = "parent"
    BY <1>1, <1>3
  <2> QED BY <1>1, <1>3, <1>5, <2>2, <2>3, <2>4 DEF TypeOK
<1>8. LoopOK'
  BY <1>1, <1>3, <1>5 DEF LoopOK
<1>9. Places'
  <2>1. ASSUME NEW w \in Module, index'[w] # 0 PROVE sleepy'[index'[w]] = w
    <3>1. w # u => index'[w] = index[w] /\ index[w] \in 1 .. n /\ sleepy[index[w]] = w
      BY <1>1, <1>2, <2>1 DEF TypeOK, Places
    <3>2. w = u => index'[w] = n + 1
      BY <1>1, <1>2, <1>4 DEF TypeOK
    <3> QED BY <1>5, <3>1, <3>2
  <2>2. ASSUME NEW k \in 1 .. n + 1 PROVE index'[sleepy'[k]] = k
    <3>1. k \in 1 .. n \/ k = n + 1
      BY <1>1
    <3> QED BY <1>1, <1>2, <1>4, <1>5, <1>6, <3>1 DEF TypeOK
  <2> QED BY <1>5, <2>1, <2>2 DEF Places
<1>10. Members'
  BY <1>1, <1>2, <1>3, <1>4 DEF Members, TypeOK
<1>11. HeapOrder' /\ AroundOrder'
  <2>1. ASSUME NEW k \in 2 .. n PROVE Ordered(k) /\ (Ordered(k))'
    <3>1. k \in 1 .. n /\ k \div 2 \in 1 .. n
      BY <1>1, Half
    <3>2. Ordered(k)
      BY <1>3, <3>1 DEF IInv, HeapOrder, BeingOrdered
    <3> QED BY <1>3, <1>5, <3>1, <3>2 DEF Ordered, Priority
  <2>2. HeapOrder'
    <3>1. \A k \in 2 .. n + 1 : k \in 2 .. n \/ k = at'
      BY <1>1, <1>3
    <3> QED BY <1>3, <1>5, <2>1, <3>1 DEF HeapOrder, BeingOrdered
  <2>3. \A k \in 2 .. n + 1 : k \div 2 # at'
    BY <1>1, <1>3
  <2> QED BY <1>5, <2>2, <2>3 DEF AroundOrder
<1>12. Population' /\ Punctual' /\ CalledSleep'
  BY <1>2, <1>3 DEF IInv, Population, Punctual, CalledSleep
<1>13. OnTop'
  <2>1. SUFFICES ASSUME cur # None PROVE OnTop'
    BY <1>3 DEF OnTop
  <2>2. n >= 1 /\ sleepy[1] = cur
    BY <1>1, <2>1, HeapType DEF IInv, OnTop
  <2>3. sleepy' # <<>> /\ Head(sleepy') = cur /\ at' > 1
    BY <1>1, <1>3, <1>5, <2>2
  <2>4. Priority(cur) <= Priority(u)
    BY <1>2, <2>1 DEF IInv, OnTop
  <2> QED BY <1>2, <1>3, <1>5, <2>1, <2>3, <2>4 DEF IInv, OnTop, Priority
<1> QED BY <1>7, <1>8, <1>9, <1>10, <1>11, <1>12, <1>13 DEF IInv

LEMMA EraseKeeps ==
  ASSUME IInv, EraseSleepyUpdate
  PROVE  IInv'
<1> DEFINE last == Len(sleepy)
<1>1. /\ TypeOK /\ Places /\ Members /\ Population /\ last \in Nat
      /\ \A k \in 1 .. last : sleepy[k] \in Module /\ Priority(sleepy[k]) \in Nat
  BY HeapType DEF IInv
<1>2. PICK u \in leaving :
        LET i == index[u] IN
          /\ sleepy' = SubSeq([sleepy EXCEPT ![i] = sleepy[last]], 1, last - 1)
          /\ index' = [index EXCEPT ![sleepy[last]] = i, ![u] = 0]
          /\ leaving' = leaving \ {u}
          /\ IF i < last THEN StartLoop("both", i) ELSE StartLoop("none", 1)
  BY DEF EraseSleepyUpdate
<1> DEFINE i == index[u]
           v == sleepy[last]
<1>3. /\ loop = "none" /\ lowest = 1 /\ lowest' = 1
      /\ i < last => loop' = "both" /\ at' = i
      /\ ~(i < last) => loop' = "none" /\ at' = 1
      /\ UNCHANGED <<frame, stage, nextCall, cur, called, listed, destroyed, toDestroy, joining>>
  BY <1>2 DEF EraseSleepyUpdate, StartLoop, IInv, LoopOK, Resting
<1>4. /\ u \in Module /\ i # 0 /\ Owner[u] \notin listed /\ joining = {}
      /\ stage = "cleanup" /\ cur = None
  BY <1>1 DEF TypeOK, Members, Population, IInv, OnTop
<1>5. /\ i \in 1 .. last /\ sleepy[i] = u /\ v \in Module /\ index[v] = last /\ last >= 1
  <2>1. i \in 1 .. last
    BY <1>1, <1>4 DEF TypeOK
  <2> QED BY <1>1, <1>4, <2>1 DEF Places
<1>6. /\ sleepy' \in Seq(Module) /\ Len(sleepy') = last - 1
      /\ \A k \in 1 .. last - 1 : sleepy'[k] = IF k = i THEN v ELSE sleepy[k]
  <2> DEFINE moved == [sleepy EXCEPT ![i] = v]
  <2>1. /\ moved \in Seq(Module) /\ Len(moved) = last
        /\ \A k \in 1 .. last : moved[k] = IF k = i THEN v ELSE sleepy[k]
    <3> HIDE DEF i, v
    <3>1. sleepy \in Seq(Module)
      BY <1>1 DEF TypeOK
    <3> QED BY <1>5, <3>1, ExceptSeq
  <2>2. sleepy' = SubSeq(moved, 1, last - 1)
    BY <1>2
  <2> HIDE DEF moved
  <2> QED BY <1>1, <1>5, <2>1, <2>2
<1>7. index' = [w \in Module |-> IF w = u THEN 0 ELSE IF w = v THEN i ELSE index[w]]
  BY <1>1, <1>2, <1>4, <1>5 DEF TypeOK
<1>8. (v = u) <=> (i = last)
  BY <1>1, <1>5
<1> HIDE DEF i, v
<1>9. \A w \in Module : index[w] # 0 => index[w] \in 1 .. last /\ sleepy[index[w]] = w
  BY <1>1 DEF TypeOK, Places
<1>10. \A k \in 1 .. last : index[sleepy[k]] = k
  BY <1>1 DEF Places
<1>11. \A k \in 1 .. last - 1 : k \in 1 .. last
  BY <1>1
<1>12. index' \in [Module -> 0 .. last - 1]
  <2>1. ASSUME NEW w \in Module, w # u, w # v, index[w] # 0 PROVE index[w] \in 1 .. last - 1
    <3>1. index[w] \in 1 .. last /\ sleepy[index[w]] = w
      BY <1>9, <2>1
    <3>2. index[w] # last
      BY <2>1, <3>1 DEF v
    <3> QED BY <1>1, <3>1, <3>2
  <2>2. v # u => i \in 1 .. last - 1
    BY <1>1, <1>5, <1>8
  <2> QED BY <1>1, <1>5, <1>7, <2>1, <2>2
<1>13. TypeOK'
  <2>1. leaving' \subseteq Module
    BY <1>1, <1>2 DEF TypeOK
  <2>2. at' \in Nat \ {0} /\ loop' \in {"none", "both"} /\ lowest' \in Nat \ {0}
    BY <1>1, <1>3, <1>5
  <2> QED BY <1>1, <1>3, <1>6, <1>12, <2>1, <2>2 DEF TypeOK
<1>14. LoopOK'
  BY <1>1, <1>3, <1>5, <1>6 DEF LoopOK
<1>15. Places'
  <2>1. ASSUME NEW w \in Module, index'[w] # 0 PROVE sleepy'[index'[w]] = w
    <3>1. w # u /\ index'[w] \in 1 .. last - 1
      BY <1>1, <1>7, <1>12, <2>1
    <3>2. CASE w = v
      BY <1>6, <1>7, <3>1, <3>2
    <3>3. CASE w # v
      <4>1. index'[w] = index[w] /\ sleepy[index[w]] = w
        BY <1>7, <1>9, <2>1, <3>1, <3>3
      <4>2. index[w] # i
        BY <1>5, <3>1, <4>1
      <4> QED BY <1>6, <3>1, <4>1, <4>2
    <3> QED BY <3>2, <3>3
  <2>2. ASSUME NEW k \in 1 .. last - 1 PROVE index'[sleepy'[k]] = k
    <3>1. CASE k = i
      <4>1. v # u
        BY <1>1, <1>8, <2>2, <3>1
      <4> QED BY <1>5, <1>6, <1>7, <3>1, <4>1
    <3>2. CASE k # i
      <4>1. sleepy'[k] = sleepy[k] /\ sleepy[k] \in Module /\ index[sleepy[k]] = k
        BY <1>1, <1>6, <1>10, <1>11, <3>2
      <4>2. sleepy[k] # u /\ sleepy[k] # v
        BY <1>1, <1>5, <3>2, <4>1 DEF i
      <4> QED BY <1>7, <4>1, <4>2
    <3> QED BY <3>1, <3>2
  <2> QED BY <1>6, <2>1, <2>2 DEF Places
<1>16. Members'
  <2>1. \A w \in Module : w # u => (index'[w] # 0 <=> index[w] # 0)
    BY <1>1, <1>5, <1>7
  <2>2. index'[u] = 0
    BY <1>4, <1>7
  <2> QED BY <1>1, <1>2, <1>3, <1>4, <2>1, <2>2 DEF Members
<1>17. HeapOrder' /\ AroundOrder'
  <2>1. \A k \in 2 .. last : k \in 1 .. last /\ k \div 2 \in 1 .. last /\ k \div 2 < k
    BY <1>1, Half
  <2>2. \A k \in 2 .. last : Priority(sleepy[k \div 2]) <= Priority(sleepy[k])
    BY <1>3, <2>1 DEF IInv, HeapOrder, BeingOrdered, Ordered
  <2>3. HeapOrder'
    <3>1. SUFFICES ASSUME NEW k \in 2 .. last - 1, ~(BeingOrdered(k))'
                   PROVE  (Ordered(k))'
      BY <1>6 DEF HeapOrder
    <3>2. k # i /\ k \div 2 # i
      BY <1>1, <1>3, <1>5, <2>1, <3>1 DEF BeingOrdered
    <3>3. k \in 1 .. last - 1 /\ k \div 2 \in 1 .. last - 1 /\ k \in 2 .. last
      BY <1>1, <2>1
    <3>4. sleepy'[k] = sleepy[k] /\ sleepy'[k \div 2] = sleepy[k \div 2]
      BY <1>6, <3>2, <3>3
    <3> QED BY <1>3, <2>2, <3>3, <3>4 DEF Ordered, Priority
  <2>4. AroundOrder'
    <3>1. SUFFICES ASSUME i < last, i \div 2 >= 1, NEW k \in 2 .. last - 1, k \div 2 = i
                   PROVE  Priority(sleepy'[i \div 2]) <= Priority(sleepy'[k])
      BY <1>3, <1>6 DEF AroundOrder, Priority
    <3>2. i \in 2 .. last /\ k \in 2 .. last /\ k # i /\ i \div 2 < i
      BY <1>1, <1>5, <2>1, <3>1, SMTT(30)
    <3>3. i \div 2 \in 1 .. last - 1 /\ k \in 1 .. last - 1 /\ i \div 2 \in 1 .. last
      BY <1>1, <2>1, <3>1, <3>2
    <3>4. sleepy'[k] = sleepy[k] /\ sleepy'[i \div 2] = sleepy[i \div 2]
      BY <1>6, <3>2, <3>3
    <3>5. /\ Priority(sleepy[i \div 2]) <= Priority(sleepy[i])
          /\ Priority(sleepy[i]) <= Priority(sleepy[k])
      BY <2>2, <3>1, <3>2
    <3>6. /\ Priority(sleepy[i \div 2]) \in Nat /\ Priority(sleepy[i]) \in Nat
          /\ Priority(sleepy[k]) \in Nat
      BY <1>1, <1>5, <1>11, <3>3
    <3> QED BY <3>4, <3>5, <3>6
  <2> QED BY <2>3, <2>4
<1>18. Population' /\ Punctual' /\ CalledSleep' /\ OnTop'
  BY <1>2, <1>3, <1>4 DEF IInv, Population, Punctual, CalledSleep, OnTop
<1> QED BY <1>13, <1>14, <1>15, <1>16, <1>17, <1>18 DEF IInv

(*------------------------- GameLogic::update ---------------------------*)

LEMMA AtFrameIs ==
  ASSUME TypeOK, NEW f \in Nat, f >= frame
  PROVE  /\ AtFrame(f) \in 0 .. Forever /\ AtFrame(f) >= frame
         /\ f > frame => AtFrame(f) > frame
         /\ f = frame => AtFrame(f) = frame
  BY HeapType DEF AtFrame

(* When nothing is going on every listed object's modules are in the heap, *)
(* and nobody else's; the order is complete; no module of the heap is      *)
(* overdue if the one on top is not.                                       *)
LEMMA WhenIdle ==
  ASSUME IInv, Idle
  PROVE  /\ loop = "none" /\ lowest = 1 /\ joining = {} /\ leaving = {}
         /\ \A u \in Module : index[u] # 0 <=> Owner[u] \in listed
         /\ \A u \in Module : index[u] # 0 => index[u] \in 1 .. Len(sleepy) /\ sleepy[index[u]] = u
         /\ \A k \in 2 .. Len(sleepy) : k \div 2 \in 1 .. Len(sleepy) /\ k \div 2 < k /\ Ordered(k)
         /\ \A u \in Module : Owner[u] \in listed =>
              sleepy # <<>> /\ Head(sleepy) \in Module /\ Priority(Head(sleepy)) <= Priority(u)
<1>1. /\ TypeOK /\ LoopOK /\ Places /\ Members /\ HeapOrder /\ Resting
      /\ loop = "none" /\ lowest = 1 /\ joining = {} /\ leaving = {}
  BY DEF IInv, LoopOK, Idle, Resting
<1>2. \A u \in Module : index[u] # 0 <=> Owner[u] \in listed
  BY <1>1 DEF Members
<1>3. \A u \in Module : index[u] # 0 => index[u] \in 1 .. Len(sleepy) /\ sleepy[index[u]] = u
  BY <1>1, HeapType DEF Places
<1>4. \A k \in 2 .. Len(sleepy) : k \div 2 \in 1 .. Len(sleepy) /\ k \div 2 < k /\ Ordered(k)
  <2>1. \A k \in 2 .. Len(sleepy) : k \div 2 \in 1 .. Len(sleepy) /\ k \div 2 < k
    BY <1>1, HeapType, Half
  <2> QED BY <1>1, <2>1 DEF HeapOrder, BeingOrdered
<1>5. ASSUME NEW u \in Module, Owner[u] \in listed
      PROVE  sleepy # <<>> /\ Head(sleepy) \in Module /\ Priority(Head(sleepy)) <= Priority(u)
  <2>1. index[u] \in 1 .. Len(sleepy) /\ sleepy[index[u]] = u
    BY <1>2, <1>3, <1>5
  <2>2. Priority(Head(sleepy)) <= Priority(u)
    BY <1>1, <2>1, TopIsFirst
  <2>3. sleepy # <<>> /\ Head(sleepy) \in Module
    BY <1>1, <2>1, HeapType
  <2> QED BY <2>2, <2>3
<1> QED BY <1>1, <1>2, <1>3, <1>4, <1>5

(* When the top is not due, nobody is.                                     *)
LEMMA NobodyDue ==
  ASSUME IInv, Idle, ~SomebodyDue, NEW u \in Module, Owner[u] \in listed
  PROVE  nextCall[u] > frame
<1>1. sleepy # <<>> /\ Head(sleepy) \in Module /\ Priority(Head(sleepy)) <= Priority(u)
  BY WhenIdle
<1>2. nextCall[Head(sleepy)] <= nextCall[u]
  BY <1>1, PriorityType, HeapType DEF IInv
<1>3. nextCall[Head(sleepy)] > frame
  BY <1>1, HeapType DEF IInv, SomebodyDue
<1> QED BY <1>1, <1>2, <1>3, HeapType DEF IInv

LEMMA ProceedKeeps ==
  ASSUME IInv, BeginObjects \/ EndObjects \/ CleanUp \/ CleanedUp \/ EndFrame
  PROVE  IInv'
<1>1. /\ Idle /\ UNCHANGED <<nextCall, cur, heapVars, objectVars>>
      /\ stage' \in {"commands", "objects", "systems", "cleanup", "weapons"}
      /\ leaving = {} /\ joining = {} /\ cur = None
  BY DEF BeginObjects, EndObjects, CleanUp, CleanedUp, EndFrame, Proceed, IInv, OnTop, Idle
<1>2. frame' \in 0 .. MaxFrame /\ called' \subseteq Module
  <2>1. frame \in 0 .. MaxFrame /\ MaxFrame \in Nat /\ called \subseteq Module
    BY TimeAssumption DEF IInv, TypeOK
  <2>2. CASE EndFrame
    BY <2>1, <2>2 DEF EndFrame
  <2>3. CASE ~EndFrame
    BY <2>1, <2>3 DEF BeginObjects, EndObjects, CleanUp, CleanedUp, Proceed
  <2> QED BY <2>2, <2>3
<1>3. TypeOK' /\ LoopOK' /\ Places' /\ Members'
  BY <1>1, <1>2 DEF IInv, TypeOK, LoopOK, Places, Members, heapVars, objectVars
<1>4. HeapOrder' /\ AroundOrder'
  BY <1>1 DEF IInv, HeapOrder, AroundOrder, BeingOrdered, Ordered, Priority, heapVars
<1>5. Population' /\ OnTop'
  BY <1>1 DEF IInv, Population, OnTop, objectVars
<1>6. CalledSleep'
  BY <1>1 DEF CalledSleep, BeginObjects, EndObjects, CleanUp, CleanedUp, EndFrame, Proceed
<1>7. Punctual'
  <2>1. CASE EndObjects
    <3>1. \A u \in Module : Owner[u] \in listed => nextCall[u] > frame
      BY <1>1, <2>1, NobodyDue DEF EndObjects
    <3>2. frame' = frame /\ stage' = "systems"
      BY <2>1 DEF EndObjects, Proceed
    <3>3. \A u \in Module : Owner[u] \in listed => nextCall[u] + 0 >= frame
      BY <3>1, HeapType DEF IInv
    <3> QED BY <1>1, <3>2, <3>3 DEF Punctual, objectVars
  <2>2. CASE EndFrame
    <3>1. stage = "weapons" /\ frame' = frame + 1 /\ stage' = "commands"
      BY <2>2 DEF EndFrame
    <3>2. \A u \in Module : Owner[u] \in listed => nextCall[u] + 1 >= frame + 1
      BY <3>1, HeapType DEF IInv, Punctual
    <3> QED BY <1>1, <3>1, <3>2 DEF Punctual, objectVars
  <2>3. CASE BeginObjects
    BY <1>1, <2>3 DEF BeginObjects, Proceed, IInv, Punctual, objectVars
  <2>4. CASE CleanUp \/ CleanedUp
    BY <1>1, <2>4 DEF CleanUp, CleanedUp, Proceed, IInv, Punctual, objectVars
  <2> QED BY <2>1, <2>2, <2>3, <2>4
<1> QED BY <1>3, <1>4, <1>5, <1>6, <1>7 DEF IInv

LEMMA CallKeeps ==
  ASSUME IInv, CallUpdate
  PROVE  IInv'
<1>1. /\ Idle /\ stage = "objects" /\ cur = None /\ sleepy # <<>> /\ cur' = Head(sleepy)
      /\ nextCall[cur'] <= frame /\ called' = called \cup {cur'}
      /\ UNCHANGED <<frame, stage, nextCall, heapVars, objectVars>>
  BY DEF CallUpdate, Calling, SomebodyDue
<1>2. loop = "none" /\ lowest = 1 /\ joining = {} /\ leaving = {}
  BY <1>1, WhenIdle
<1>3. cur' \in Module
  BY <1>1, HeapType DEF IInv
<1>4. TypeOK' /\ LoopOK' /\ Places' /\ Members'
  BY <1>1, <1>3 DEF IInv, TypeOK, LoopOK, Places, Members, heapVars, objectVars
<1>5. HeapOrder' /\ AroundOrder'
  BY <1>1 DEF IInv, HeapOrder, AroundOrder, BeingOrdered, Ordered, Priority, heapVars
<1>6. Population' /\ Punctual'
  BY <1>1 DEF IInv, Population, Punctual, objectVars
<1>7. OnTop'
  BY <1>1, <1>2 DEF OnTop, heapVars, objectVars
<1>8. CalledSleep'
  BY <1>1, NoneAssumption DEF IInv, CalledSleep, TypeOK
<1> QED BY <1>4, <1>5, <1>6, <1>7, <1>8 DEF IInv

(* The time of one module changes, and the heap is put in order from it.   *)
LEMMA OneChanges ==
  ASSUME IInv, Idle, NEW u \in Module, Owner[u] \in listed,
         NEW f \in Nat, f >= frame, SetNextCall(u, f),
         loop' = "both", at' = index[u], UNCHANGED <<sleepy, index, lowest, frame, stage, objectVars>>,
         cur' \in {cur, None}, called' \subseteq called
  PROVE  /\ TypeOK' /\ LoopOK' /\ Places' /\ Members' /\ HeapOrder' /\ AroundOrder'
         /\ Population' /\ Punctual'
         /\ nextCall' = [nextCall EXCEPT ![u] = AtFrame(f)]
         /\ \A w \in Module : w # u => nextCall'[w] = nextCall[w]
         /\ nextCall'[u] = AtFrame(f)
<1>1. /\ TypeOK /\ loop = "none" /\ lowest = 1 /\ index[u] \in 1 .. Len(sleepy)
      /\ \A k \in 2 .. Len(sleepy) : k \div 2 \in 1 .. Len(sleepy) /\ k \div 2 < k /\ Ordered(k)
      /\ \A k \in 1 .. Len(sleepy) : sleepy[k] \in Module /\ Priority(sleepy[k]) \in Nat
      /\ Len(sleepy) \in Nat
  BY WhenIdle, HeapType DEF IInv
<1>2. /\ nextCall' = [nextCall EXCEPT ![u] = AtFrame(f)]
      /\ nextCall' \in [Module -> 0 .. Forever]
      /\ \A w \in Module : w # u => nextCall'[w] = nextCall[w]
      /\ nextCall'[u] = AtFrame(f)
  BY <1>1, AtFrameIs DEF SetNextCall, TypeOK
<1>3. \A k \in 1 .. Len(sleepy) : k # index[u] => sleepy[k] \in Module \ {u}
  BY <1>1 DEF IInv, Places
<1>4. \A k \in 1 .. Len(sleepy) : k # index[u] => 4 * nextCall'[sleepy[k]] + Phase[sleepy[k]] = Priority(sleepy[k])
  BY <1>2, <1>3 DEF Priority
<1>5. TypeOK' /\ LoopOK' /\ Places' /\ Members' /\ Population'
  <2>1. TypeOK'
    <3>1. at' \in Nat \ {0} /\ cur' \in Module \cup {None} /\ called' \subseteq Module
      BY <1>1 DEF TypeOK
    <3> QED BY <1>1, <1>2, <3>1 DEF TypeOK, objectVars
  <2> QED BY <1>1, <2>1 DEF IInv, LoopOK, Places, Members, Population, objectVars
<1>6. HeapOrder'
  <2>1. SUFFICES ASSUME NEW k \in 2 .. Len(sleepy), k # index[u], k \div 2 # index[u]
                 PROVE  (Ordered(k))'
    BY DEF HeapOrder, BeingOrdered
  <2>2. Priority(sleepy[k \div 2]) <= Priority(sleepy[k]) /\ k \in 1 .. Len(sleepy)
    BY <1>1, <2>1 DEF Ordered
  <2> QED BY <1>1, <1>4, <2>1, <2>2 DEF Ordered, Priority
<1>7. AroundOrder'
  <2> DEFINE a == index[u]
  <2>1. SUFFICES ASSUME a \div 2 >= 1, NEW k \in 2 .. Len(sleepy), k \div 2 = a
                 PROVE  4 * nextCall'[sleepy[a \div 2]] + Phase[sleepy[a \div 2]]
                          <= 4 * nextCall'[sleepy[k]] + Phase[sleepy[k]]
    BY <1>1 DEF AroundOrder, Priority
  <2>2. /\ a \in 2 .. Len(sleepy) /\ a \div 2 \in 1 .. Len(sleepy) /\ a \div 2 # a
        /\ k \in 1 .. Len(sleepy) /\ k # a
    BY <1>1, <2>1, SMTT(30)
  <2>3. Priority(sleepy[a \div 2]) <= Priority(sleepy[a]) /\ Priority(sleepy[a]) <= Priority(sleepy[k])
    BY <1>1, <2>1, <2>2 DEF Ordered
  <2>4. Priority(sleepy[a \div 2]) <= Priority(sleepy[k])
    <3>1. /\ Priority(sleepy[a \div 2]) \in Nat /\ Priority(sleepy[a]) \in Nat
          /\ Priority(sleepy[k]) \in Nat
      BY <1>1, <2>2
    <3> QED BY <2>3, <3>1
  <2> HIDE DEF a
  <2>5. /\ 4 * nextCall'[sleepy[a \div 2]] + Phase[sleepy[a \div 2]] = Priority(sleepy[a \div 2])
        /\ 4 * nextCall'[sleepy[k]] + Phase[sleepy[k]] = Priority(sleepy[k])
    BY <1>4, <2>2 DEF a
  <2> QED BY <2>4, <2>5
<1>8. Punctual'
  <2>1. \A w \in Module : Owner[w] \in listed \/ w \in leaving =>
           nextCall'[w] + (IF stage \in {"commands", "objects"} THEN 1 ELSE 0) >= frame
    <3>1. nextCall'[u] \in Nat /\ nextCall'[u] >= frame /\ frame \in Nat
      BY <1>1, <1>2, AtFrameIs, HeapType
    <3> QED BY <1>2, <3>1 DEF IInv, Punctual
  <2> QED BY <2>1 DEF Punctual, objectVars
<1> QED BY <1>2, <1>5, <1>6, <1>7, <1>8

(* The module on top is the one at index 1, and its object is listed.      *)
LEMMA TopsIndex ==
  ASSUME IInv, Idle, sleepy # <<>>
  PROVE  Head(sleepy) \in Module /\ index[Head(sleepy)] = 1 /\ Owner[Head(sleepy)] \in listed
<1>1. Head(sleepy) \in Module /\ Head(sleepy) = sleepy[1] /\ 1 \in 1 .. Len(sleepy)
  BY HeapType DEF IInv
<1>2. index[Head(sleepy)] = 1
  BY <1>1 DEF IInv, Places
<1> QED BY <1>1, <1>2, WhenIdle

LEMMA ReturnKeeps ==
  ASSUME IInv, ReturnFromUpdate
  PROVE  IInv' /\ nextCall' = [nextCall EXCEPT ![cur] = nextCall'[cur]] /\ nextCall'[cur] > frame
<1>1. PICK returned \in Sleeps : SetNextCall(cur, frame + SleepLen(returned))
  BY DEF ReturnFromUpdate
<1>2. /\ Idle /\ cur # None /\ cur' = None
      /\ loop' = "both" /\ at' = 1 /\ UNCHANGED <<sleepy, index, lowest>>
      /\ UNCHANGED <<frame, stage, called, objectVars>>
  BY DEF ReturnFromUpdate, RebalanceTop, StartLoop
<1>3. /\ cur \in Module /\ sleepy # <<>> /\ Head(sleepy) = cur /\ stage = "objects"
  BY <1>2 DEF IInv, OnTop, TypeOK
<1>4. index[cur] = 1 /\ Owner[cur] \in listed
  BY <1>2, <1>3, TopsIndex
<1> DEFINE f == frame + SleepLen(returned)
<1>5. f \in Nat /\ f > frame
  BY TimeAssumption, HeapType DEF IInv, SleepLen, UPDATE_SLEEP_NONE
<1> HIDE DEF f
<1>6. /\ TypeOK' /\ LoopOK' /\ Places' /\ Members' /\ HeapOrder' /\ AroundOrder'
      /\ Population' /\ Punctual'
      /\ nextCall' = [nextCall EXCEPT ![cur] = AtFrame(f)]
      /\ \A w \in Module : w # cur => nextCall'[w] = nextCall[w]
      /\ nextCall'[cur] = AtFrame(f)
  <2>1. SetNextCall(cur, f) /\ f >= frame
    BY <1>1, <1>5, HeapType DEF f, IInv
  <2> QED BY <1>2, <1>3, <1>4, <1>5, <2>1, OneChanges
<1>7. nextCall'[cur] > frame
  BY <1>5, <1>6, AtFrameIs, HeapType DEF IInv
<1>8. OnTop' /\ CalledSleep'
  BY <1>2, <1>3, <1>6, <1>7 DEF IInv, OnTop, CalledSleep, TypeOK
<1>9. nextCall' = [nextCall EXCEPT ![cur] = nextCall'[cur]]
  BY <1>6
<1> QED BY <1>6, <1>7, <1>8, <1>9 DEF IInv

LEMMA PutOffKeeps ==
  ASSUME IInv, PutOffDisabled
  PROVE  IInv' /\ nextCall' = [nextCall EXCEPT ![Head(sleepy)] = frame + 1]
<1> DEFINE u == Head(sleepy)
           f == frame + UPDATE_SLEEP_NONE
<1>1. /\ Idle /\ stage = "objects" /\ cur = None /\ cur' = None /\ sleepy # <<>>
      /\ SetNextCall(u, f)
      /\ loop' = "both" /\ at' = 1 /\ UNCHANGED <<sleepy, index, lowest>>
      /\ UNCHANGED <<frame, stage, called, objectVars>>
  BY DEF PutOffDisabled, Calling, SomebodyDue, RebalanceTop, StartLoop
<1>2. u \in Module /\ index[u] = 1 /\ Owner[u] \in listed
  BY <1>1, TopsIndex
<1>3. f \in Nat /\ f > frame /\ f = frame + 1 /\ AtFrame(f) = frame + 1
  BY HeapType DEF IInv, UPDATE_SLEEP_NONE, AtFrame
<1> HIDE DEF u, f
<1>4. /\ TypeOK' /\ LoopOK' /\ Places' /\ Members' /\ HeapOrder' /\ AroundOrder'
      /\ Population' /\ Punctual'
      /\ nextCall' = [nextCall EXCEPT ![u] = AtFrame(f)]
      /\ \A w \in Module : w # u => nextCall'[w] = nextCall[w]
      /\ nextCall'[u] = AtFrame(f)
  <2>1. f >= frame
    BY <1>3, HeapType DEF IInv
  <2> QED BY <1>1, <1>2, <1>3, <2>1, OneChanges
<1>5. OnTop'
  BY <1>1 DEF OnTop
<1>6. CalledSleep'
  BY <1>1, <1>3, <1>4, HeapType DEF IInv, CalledSleep, TypeOK
<1> QED BY <1>3, <1>4, <1>5, <1>6 DEF IInv, u

(* Whoever may make a module due in this frame, that module does not       *)
(* precede the one being updated.                                          *)
LEMMA NotBeforeCurrent ==
  ASSUME IInv, cur # None, NEW u \in Module, NEW f \in Nat, f >= frame,
         f = frame => MayMakeDue /\ Phase[u] >= PHASE_NORMAL
  PROVE  Priority(cur) <= 4 * f + Phase[u]
<1>1. /\ cur \in Module /\ nextCall[cur] \in Nat /\ nextCall[cur] <= frame /\ frame \in Nat
      /\ Phase[cur] \in 0 .. 3 /\ Phase[u] \in 0 .. 3
  BY HeapType, ModuleAssumption DEF IInv, OnTop, TypeOK, PHASE_INITIAL, PHASE_FINAL
<1>2. CASE f > frame
  BY <1>1, <1>2 DEF Priority
<1>3. CASE f = frame
  <2>1. Phase[cur] # 3 /\ Phase[u] >= 2
    BY <1>1, <1>3 DEF MayMakeDue, PHASE_NORMAL, PHASE_FINAL
  <2> QED BY <1>1, <1>3, <2>1 DEF Priority
<1> QED BY <1>1, <1>2, <1>3

LEMMA WakeKeeps ==
  ASSUME IInv, NEW u \in Module, SetWakeFrame(u)
  PROVE  /\ IInv' /\ nextCall' = [nextCall EXCEPT ![u] = nextCall'[u]]
         /\ nextCall'[u] >= frame /\ ~(frame > 0 /\ nextCall[u] = frame /\ nextCall'[u] = frame + 1)
<1>1. PICK delay \in WakeDelays[u] :
        /\ delay = 0 => MayMakeDue
        /\ ~AlreadyAwake(u, delay)
        /\ SetNextCall(u, frame + delay)
        /\ called' = IF delay = 0 THEN called \ {u} ELSE called
  BY DEF SetWakeFrame
<1>2. /\ Idle /\ Owner[u] \in listed /\ u # cur
      /\ loop' = "both" /\ at' = index[u] /\ UNCHANGED lowest
      /\ UNCHANGED <<frame, stage, cur, sleepy, index, objectVars>>
  BY DEF SetWakeFrame, Running, StartLoop
<1> DEFINE f == frame + delay
<1>3. /\ delay \in Nat /\ f \in Nat /\ f >= frame /\ frame \in Nat
      /\ (delay = 0 <=> f = frame) /\ (delay = 1 <=> f = frame + 1)
      /\ delay = 0 => Phase[u] >= PHASE_NORMAL
  <2>1. delay \in Nat /\ frame \in Nat
    BY ModuleAssumption, HeapType DEF IInv
  <2>2. delay = 0 => Phase[u] >= PHASE_NORMAL
    BY ModuleAssumption
  <2> QED BY <2>1, <2>2
<1>4. AtFrame(f) >= frame /\ (AtFrame(f) = frame <=> f = frame) /\ (AtFrame(f) = frame + 1 <=> f = frame + 1)
  <2>1. frame + 1 < Forever /\ Forever \in Nat
    BY HeapType DEF IInv
  <2> HIDE DEF f
  <2> QED BY <1>3, <2>1 DEF AtFrame
<1> HIDE DEF f
<1>5. /\ TypeOK' /\ LoopOK' /\ Places' /\ Members' /\ HeapOrder' /\ AroundOrder'
      /\ Population' /\ Punctual'
      /\ nextCall' = [nextCall EXCEPT ![u] = AtFrame(f)]
      /\ \A w \in Module : w # u => nextCall'[w] = nextCall[w]
      /\ nextCall'[u] = AtFrame(f)
  <2>1. SetNextCall(u, f) /\ called' \subseteq called
    BY <1>1 DEF f
  <2> QED BY <1>2, <1>3, <2>1, OneChanges
<1>6. AtFrame(f) \in Nat
  BY <1>3, AtFrameIs, HeapType DEF IInv
<1>7. OnTop'
  <2>1. SUFFICES ASSUME cur # None PROVE OnTop'
    BY <1>2 DEF OnTop
  <2>2. cur \in Module /\ sleepy # <<>> /\ Head(sleepy) = cur /\ index[cur] = 1
    BY <1>2, <2>1, TopsIndex DEF IInv, OnTop, TypeOK
  <2>3. index[u] > 1 /\ sleepy[index[u]] = u
    <3>1. index[u] \in 1 .. Len(sleepy) /\ sleepy[index[u]] = u
      BY <1>2, WhenIdle
    <3>2. index[u] # 1
      BY <1>2, <2>2, <3>1, HeapType DEF IInv
    <3> QED BY <3>1, <3>2
  <2>4. Priority(cur) <= 4 * AtFrame(f) + Phase[u]
    BY <1>1, <1>3, <1>4, <1>6, <2>1, NotBeforeCurrent
  <2>5. nextCall'[cur] = nextCall[cur]
    BY <1>2, <1>5, <2>2
  <2>6. joining = {} /\ lowest = 1
    BY <1>2, WhenIdle
  <2> QED BY <1>2, <1>5, <2>1, <2>2, <2>3, <2>4, <2>5, <2>6 DEF IInv, OnTop, Priority, objectVars
<1>8. CalledSleep'
  <2>1. f = frame \/ AtFrame(f) > frame
    BY <1>3, <1>4, <1>6
  <2> QED BY <1>1, <1>2, <1>3, <1>5, <2>1 DEF IInv, CalledSleep, TypeOK
<1>9. nextCall' = [nextCall EXCEPT ![u] = nextCall'[u]]
  BY <1>5
<1>10. ~(frame > 0 /\ nextCall[u] = frame /\ nextCall'[u] = frame + 1)
  BY <1>1, <1>3, <1>4, <1>5 DEF AlreadyAwake
<1> QED BY <1>4, <1>5, <1>7, <1>8, <1>9, <1>10 DEF IInv

LEMMA NewKeeps ==
  ASSUME IInv, NEW o \in Object, NewObject(o)
  PROVE  /\ IInv'
         /\ \A u \in Module : Owner[u] = o => nextCall'[u] \in Nat /\ nextCall'[u] >= frame
         /\ \A u \in Module : Owner[u] # o => nextCall'[u] = nextCall[u]
<1>1. /\ Running /\ Idle /\ MayMakeDue /\ o \notin listed /\ listed' = listed \cup {o}
      /\ joining' = ModulesOf(o) /\ called' = called \ ModulesOf(o)
      /\ nextCall' = [u \in Module |-> IF Owner[u] = o THEN FirstCall(u) ELSE nextCall[u]]
      /\ UNCHANGED <<frame, stage, cur, heapVars, destroyed, toDestroy, leaving>>
  BY DEF NewObject, Running
<1>2. /\ loop = "none" /\ lowest = 1 /\ joining = {} /\ leaving = {}
      /\ \A u \in Module : index[u] # 0 <=> Owner[u] \in listed
  BY <1>1, WhenIdle
<1>3. /\ TypeOK /\ frame \in Nat /\ Forever \in Nat /\ frame + 1 < Forever
      /\ \A k \in 1 .. Len(sleepy) : sleepy[k] \in Module
  BY HeapType DEF IInv
<1>4. ASSUME NEW u \in Module
      PROVE  /\ FirstCall(u) \in 0 .. Forever /\ FirstCall(u) >= frame
             /\ FirstCall(u) = frame => Phase[u] >= PHASE_NORMAL
  <2>1. CtorDelay[u] \in Nat /\ (CtorDelay[u] = 0 => Phase[u] >= PHASE_NORMAL)
    BY ModuleAssumption
  <2> QED BY <1>3, <2>1 DEF FirstCall, AtFrame
<1>5. /\ nextCall' \in [Module -> 0 .. Forever]
      /\ \A u \in Module : Owner[u] = o => nextCall'[u] = FirstCall(u)
      /\ \A u \in Module : Owner[u] # o => nextCall'[u] = nextCall[u]
  BY <1>1, <1>3, <1>4 DEF TypeOK
<1>6. \A k \in 1 .. Len(sleepy) : nextCall'[sleepy[k]] = nextCall[sleepy[k]]
  BY <1>1, <1>2, <1>3, <1>5 DEF IInv, Places
<1>7. TypeOK' /\ LoopOK' /\ Places'
  <2>1. joining' \subseteq Module
    BY <1>1 DEF ModulesOf
  <2> QED BY <1>1, <1>3, <1>5, <2>1 DEF IInv, TypeOK, LoopOK, Places, heapVars
<1>8. Members' /\ Population'
  BY <1>1, <1>2 DEF Members, Population, ModulesOf, heapVars
<1>9. HeapOrder' /\ AroundOrder'
  <2>1. \A k \in 2 .. Len(sleepy) : k \in 1 .. Len(sleepy) /\ k \div 2 \in 1 .. Len(sleepy)
    BY HeapType, Half DEF IInv
  <2>2. \A k \in 2 .. Len(sleepy) : Ordered(k) => (Ordered(k))'
    BY <1>1, <1>6, <2>1 DEF Ordered, Priority, heapVars
  <2> QED BY <1>1, <1>2, <2>2 DEF IInv, HeapOrder, AroundOrder, BeingOrdered, heapVars
<1>10. Punctual'
  BY <1>1, <1>2, <1>3, <1>4, <1>5 DEF IInv, Punctual
<1>11. CalledSleep'
  BY <1>1, <1>3, <1>5 DEF IInv, CalledSleep, ModulesOf, TypeOK
<1>12. OnTop'
  <2>1. SUFFICES ASSUME cur # None PROVE OnTop'
    BY <1>1 DEF OnTop
  <2>2. cur \in Module /\ sleepy # <<>> /\ Head(sleepy) = cur /\ Owner[cur] \in listed
    BY <1>1, <2>1, TopsIndex DEF IInv, OnTop, TypeOK
  <2>3. nextCall'[cur] = nextCall[cur] /\ cur \notin joining'
    BY <1>1, <1>5, <2>2 DEF ModulesOf
  <2>4. \A u \in joining' : Priority(cur) <= 4 * nextCall'[u] + Phase[u]
    <3>1. SUFFICES ASSUME NEW u \in Module, Owner[u] = o
                   PROVE  Priority(cur) <= 4 * FirstCall(u) + Phase[u]
      BY <1>1, <1>5 DEF ModulesOf
    <3>2. FirstCall(u) \in Nat
      BY <1>3, <1>4
    <3> QED BY <1>1, <1>4, <2>1, <3>2, NotBeforeCurrent
  <2> QED BY <1>1, <1>2, <2>1, <2>2, <2>3, <2>4 DEF IInv, OnTop, Priority, heapVars
<1>13. \A u \in Module : Owner[u] = o => nextCall'[u] \in Nat /\ nextCall'[u] >= frame
  BY <1>3, <1>4, <1>5
<1> QED BY <1>5, <1>7, <1>8, <1>9, <1>10, <1>11, <1>12, <1>13 DEF IInv

LEMMA DestroyKeeps ==
  ASSUME IInv, NEW o \in Object, DestroyObject(o)
  PROVE  IInv'
<1>1. /\ o \in listed /\ destroyed' = destroyed \cup {o} /\ toDestroy' = toDestroy \cup {o}
      /\ UNCHANGED <<frame, stage, nextCall, cur, called, heapVars, listed, joining, leaving>>
  BY DEF DestroyObject
<1>2. TypeOK' /\ LoopOK' /\ Places' /\ Members' /\ Population'
  BY <1>1 DEF IInv, TypeOK, LoopOK, Places, Members, Population, heapVars
<1>3. HeapOrder' /\ AroundOrder'
  BY <1>1 DEF IInv, HeapOrder, AroundOrder, BeingOrdered, Ordered, Priority, heapVars
<1>4. OnTop' /\ Punctual' /\ CalledSleep'
  BY <1>1 DEF IInv, OnTop, Punctual, CalledSleep, Priority, heapVars
<1> QED BY <1>2, <1>3, <1>4 DEF IInv

LEMMA ProcessKeeps ==
  ASSUME IInv, ProcessDestroyList
  PROVE  IInv' /\ listed' \subseteq listed
<1>1. PICK o \in toDestroy : /\ leaving' = ModulesOf(o) /\ toDestroy' = toDestroy \ {o}
                            /\ destroyed' = destroyed \ {o} /\ listed' = listed \ {o}
  BY DEF ProcessDestroyList
<1>2. /\ Idle /\ stage = "cleanup" /\ cur = None
      /\ UNCHANGED <<frame, stage, nextCall, cur, called, heapVars, joining>>
  BY DEF ProcessDestroyList, IInv, OnTop
<1>3. /\ loop = "none" /\ lowest = 1 /\ joining = {} /\ leaving = {}
      /\ \A u \in Module : index[u] # 0 <=> Owner[u] \in listed
  BY <1>2, WhenIdle
<1>4. o \in listed
  BY DEF IInv, TypeOK
<1>5. TypeOK' /\ LoopOK' /\ Places'
  <2>1. leaving' \subseteq Module
    BY <1>1 DEF ModulesOf
  <2> QED BY <1>1, <1>2, <2>1 DEF IInv, TypeOK, LoopOK, Places, heapVars
<1>6. \A u \in Module : Owner[u] \in listed' \/ u \in leaving' <=> Owner[u] \in listed
  BY <1>1, <1>4 DEF ModulesOf
<1>7. Members' /\ Population'
  BY <1>1, <1>2, <1>3, <1>6 DEF Members, Population, ModulesOf, heapVars
<1>8. HeapOrder' /\ AroundOrder'
  BY <1>2 DEF IInv, HeapOrder, AroundOrder, BeingOrdered, Ordered, Priority, heapVars
<1>9. OnTop' /\ CalledSleep'
  BY <1>2 DEF OnTop, CalledSleep
<1>10. Punctual'
  BY <1>2, <1>3, <1>6 DEF IInv, Punctual
<1> QED BY <1>1, <1>5, <1>7, <1>8, <1>9, <1>10 DEF IInv

LEMMA LoadKeeps ==
  ASSUME IInv, SaveAndLoad
  PROVE  IInv'
<1> DEFINE n == Len(sleepy)
           m == n \div 2 + 1
<1>1. PICK new \in Orders :
        /\ sleepy' = new
        /\ index' = [u \in Module |-> IF Owner[u] \notin listed THEN 0
                                      ELSE CHOOSE i \in 1 .. n : new[i] = u]
  BY DEF SaveAndLoad
<1>2. /\ Idle /\ stage = "commands" /\ sleepy # <<>> /\ toDestroy' = {} /\ cur = None
      /\ loop' = "child" /\ at' = m /\ lowest' = m
      /\ UNCHANGED <<frame, stage, nextCall, cur, called, listed, destroyed, joining, leaving>>
  BY DEF SaveAndLoad, IInv, OnTop
<1>3. n \in Nat /\ n >= 1 /\ joining = {} /\ leaving = {}
  BY <1>2, HeapType, WhenIdle DEF IInv
<1>4. m \in 1 .. n /\ m \in Nat \ {0}
  BY <1>3
<1>5. /\ new \in [1 .. n -> Module]
      /\ \A u \in Module : Owner[u] \in listed <=> \E i \in 1 .. n : new[i] = u
      /\ \A i, j \in 1 .. n : new[i] = new[j] => i = j
  BY DEF Orders
<1>6. sleepy' \in Seq(Module) /\ Len(sleepy') = n
  BY <1>1, <1>3, <1>5
<1>7. ASSUME NEW u \in Module, Owner[u] \in listed
      PROVE  index'[u] \in 1 .. n /\ new[index'[u]] = u
  <2>1. \E i \in 1 .. n : new[i] = u
    BY <1>5, <1>7
  <2>2. index'[u] = CHOOSE i \in 1 .. n : new[i] = u
    BY <1>1, <1>7
  <2> QED BY <2>1, <2>2
<1>8. \A u \in Module : Owner[u] \notin listed => index'[u] = 0
  BY <1>1
<1>9. TypeOK'
  <2>1. index' \in [Module -> 0 .. n]
    <3>1. \A u \in Module : index'[u] \in 0 .. n
      BY <1>3, <1>7, <1>8
    <3> QED BY <1>1, <3>1
  <2> QED BY <1>2, <1>4, <1>6, <2>1 DEF IInv, TypeOK
<1>10. LoopOK'
  BY <1>2, <1>4, <1>6 DEF LoopOK
<1>11. Places'
  <2>1. \A u \in Module : index'[u] # 0 => sleepy'[index'[u]] = u
    BY <1>1, <1>7, <1>8
  <2>2. ASSUME NEW i \in 1 .. n PROVE index'[sleepy'[i]] = i
    <3>1. new[i] \in Module /\ Owner[new[i]] \in listed
      BY <1>5
    <3>2. index'[new[i]] \in 1 .. n /\ new[index'[new[i]]] = new[i]
      BY <1>7, <3>1
    <3> QED BY <1>1, <1>5, <3>2
  <2> QED BY <1>6, <2>1, <2>2 DEF Places
<1>12. Members'
  BY <1>2, <1>3, <1>7, <1>8 DEF Members
<1>13. HeapOrder' /\ AroundOrder'
  <2>1. \A k \in 2 .. n : ~(k \div 2 >= m)
    BY <1>3
  <2>2. ~(m \div 2 >= m)
    BY <1>3
  <2> QED BY <1>2, <1>6, <2>1, <2>2 DEF HeapOrder, AroundOrder
<1>14. Population' /\ OnTop' /\ Punctual' /\ CalledSleep'
  BY <1>2 DEF IInv, Population, OnTop, Punctual, CalledSleep
<1> QED BY <1>9, <1>10, <1>11, <1>12, <1>13, <1>14 DEF IInv

(*---------------------- the safety properties --------------------------*)

(* The invariant holds in every state of every behaviour.                  *)
LEMMA Inductive == Spec => []IInv
<1>1. Init => IInv
  <2>1. SUFFICES ASSUME Init PROVE IInv
    OBVIOUS
  <2>2. /\ TypeOK /\ LoopOK /\ Places /\ Members /\ Population
        /\ HeapOrder /\ AroundOrder
    <3>1. sleepy = <<>> /\ Len(sleepy) = 0 /\ sleepy \in Seq(Module)
      BY <2>1 DEF Init
    <3>2. TypeOK
      BY <2>1, <3>1, TimeAssumption DEF Init, TypeOK
    <3> QED BY <2>1, <3>1, <3>2 DEF Init, LoopOK, Places, Members, Population, HeapOrder, AroundOrder
  <2>3. OnTop /\ Punctual /\ CalledSleep
    BY <2>1 DEF Init, OnTop, Punctual, CalledSleep
  <2> QED BY <2>2, <2>3 DEF IInv
<1>2. IInv /\ [Next]_vars => IInv'
  <2>1. SUFFICES ASSUME IInv, [Next]_vars PROVE IInv'
    OBVIOUS
  <2>2. CASE RebalanceParent
    BY <2>1, <2>2, ParentKeeps
  <2>3. CASE RebalanceChild
    BY <2>1, <2>3, ChildKeeps
  <2>4. CASE PushSleepyUpdate
    BY <2>1, <2>4, PushKeeps
  <2>5. CASE EraseSleepyUpdate
    BY <2>1, <2>5, EraseKeeps
  <2>6. CASE BeginObjects \/ EndObjects \/ CleanUp \/ CleanedUp \/ EndFrame
    BY <2>1, <2>6, ProceedKeeps
  <2>7. CASE ProcessDestroyList
    BY <2>1, <2>7, ProcessKeeps
  <2>8. CASE CallUpdate
    BY <2>1, <2>8, CallKeeps
  <2>9. CASE ReturnFromUpdate
    BY <2>1, <2>9, ReturnKeeps
  <2>10. CASE PutOffDisabled
    BY <2>1, <2>10, PutOffKeeps
  <2>11. CASE \E u \in Module : SetWakeFrame(u)
    BY <2>1, <2>11, WakeKeeps
  <2>12. CASE \E o \in Object : NewObject(o) \/ DestroyObject(o)
    BY <2>1, <2>12, NewKeeps, DestroyKeeps
  <2>13. CASE SaveAndLoad
    BY <2>1, <2>13, LoadKeeps
  <2>14. CASE UNCHANGED vars
    <3>1. TypeOK' /\ LoopOK' /\ Places' /\ Members' /\ Population'
      BY <2>1, <2>14 DEF IInv, TypeOK, LoopOK, Places, Members, Population, vars, heapVars, objectVars
    <3>2. HeapOrder' /\ AroundOrder'
      BY <2>1, <2>14 DEF IInv, HeapOrder, AroundOrder, BeingOrdered, Ordered, Priority, vars, heapVars
    <3>3. OnTop' /\ Punctual' /\ CalledSleep'
      BY <2>1, <2>14 DEF IInv, OnTop, Punctual, CalledSleep, Priority, vars, heapVars, objectVars
    <3> QED BY <3>1, <3>2, <3>3 DEF IInv
  <2> QED BY <2>1, <2>2, <2>3, <2>4, <2>5, <2>6, <2>7, <2>8, <2>9, <2>10, <2>11, <2>12, <2>13, <2>14
          DEF Next
<1> QED BY <1>1, <1>2, PTL DEF Spec

(* The vector, the indices and the times have their types in every state.  *)
THEOREM TypeCorrect == Spec => []TypeOK
<1>1. IInv => TypeOK
  BY DEF IInv
<1> QED BY <1>1, Inductive, PTL

(* The vector is a heap whenever no loop is restoring it: what             *)
(* validateSleepyUpdate asserts after each change (GameLogic.cpp:2844).    *)
THEOREM Sorted == Spec => []SleepyUpdatesSorted
<1>1. IInv => SleepyUpdatesSorted
  <2>1. SUFFICES ASSUME IInv, Resting, NEW i \in 2 .. Len(sleepy) PROVE Ordered(i)
    BY DEF SleepyUpdatesSorted, Ordered
  <2>2. i \div 2 >= 1
    BY HeapType, Half DEF IInv
  <2> QED BY <2>1, <2>2 DEF IInv, HeapOrder, LoopOK, BeingOrdered, Resting
<1> QED BY <1>1, Inductive, PTL

(* Every module's index in the heap is right, also in the middle of the    *)
(* loops, and the heap has the modules of the listed objects.              *)
THEOREM IndicesRight == Spec => []Indexed
<1>1. IInv => Indexed
  BY DEF IInv, Places, Members, Indexed
<1> QED BY <1>1, Inductive, PTL

(* The module being updated stays on top of the heap, so that the one      *)
(* moved down when it returns is itself (GameLogic.cpp:3874).              *)
THEOREM OnTopWhileUpdated == Spec => []UpdatedIsOnTop
<1>1. IInv => UpdatedIsOnTop
  BY DEF IInv, OnTop, UpdatedIsOnTop
<1> QED BY <1>1, Inductive, PTL

(* All of what validateSleepyUpdate asserts (GameLogic.cpp:2827), and the  *)
(* module that is called on top.                                           *)
THEOREM Valid == Spec => []ValidSleepyUpdate
<1>1. SleepyUpdatesSorted /\ Indexed /\ UpdatedIsOnTop => ValidSleepyUpdate
  BY DEF ValidSleepyUpdate
<1> QED BY <1>1, Sorted, IndicesRight, OnTopWhileUpdated, PTL

(* No module in the heap is overdue once the objects were updated.         *)
THEOREM NoneOverslept == Spec => []NobodyOverslept
<1>1. IInv => NobodyOverslept
  <2>1. SUFFICES ASSUME IInv, NEW i \in 1 .. Len(sleepy)
                 PROVE  nextCall[sleepy[i]] + (IF stage \in {"commands", "objects"} THEN 1 ELSE 0) >= frame
    BY DEF NobodyOverslept
  <2>2. sleepy[i] \in Module /\ index[sleepy[i]] = i /\ i # 0
    BY <2>1, HeapType DEF IInv, Places
  <2> QED BY <2>1, <2>2 DEF IInv, Members, Punctual
<1> QED BY <1>1, Inductive, PTL

(* A module is called a second time in a frame only if it was woken in it. *)
THEOREM OnceAFrame == Spec => CalledOnce
<1>1. IInv /\ [Next]_vars => [\A u \in Module : cur' = u /\ cur # u => u \notin called]_vars
  <2>1. SUFFICES ASSUME IInv, Next, NEW u \in Module, cur' = u, cur # u PROVE u \notin called
    OBVIOUS
  <2>2. cur' # None
    BY <2>1, NoneAssumption
  <2>3. CallUpdate
    BY <2>1, <2>2 DEF Next, RebalanceParent, RebalanceChild, PushSleepyUpdate, EraseSleepyUpdate,
       BeginObjects, EndObjects, CleanUp, ProcessDestroyList, CleanedUp, EndFrame, Proceed,
       ReturnFromUpdate, PutOffDisabled, SetWakeFrame, NewObject, DestroyObject, SaveAndLoad
  <2>4. stage = "objects" /\ cur = None /\ nextCall[u] <= frame
    BY <2>1, <2>3 DEF CallUpdate, Calling, SomebodyDue
  <2> QED BY <2>1, <2>4, HeapType DEF IInv, CalledSleep
<1> QED BY <1>1, Inductive, PTL DEF Spec, CalledOnce

(*--------------------------- the refinement ----------------------------*)

Wake == [u \in Module |-> IF Owner[u] \in listed THEN nextCall[u] ELSE None]

LEMMA WakeIs ==
  ASSUME TypeOK, NEW u \in Module
  PROVE  /\ Wake[u] # None <=> Owner[u] \in listed
         /\ Owner[u] \in listed => Wake[u] = nextCall[u] /\ Wake[u] \in Nat
  BY HeapType, NoneAssumption DEF Wake

(* The module on top is the first of the schedule.                         *)
LEMMA TopIsScheduled ==
  ASSUME IInv, Calling
  PROVE  /\ Head(sleepy) \in Schedule!Present /\ Schedule!First(Head(sleepy))
<1> DEFINE u == Head(sleepy)
<1>1. u \in Module /\ Owner[u] \in listed /\ nextCall[u] <= frame
  BY TopsIndex DEF Calling, SomebodyDue
<1>2. TypeOK /\ Wake[u] = nextCall[u] /\ Wake[u] # None
  BY <1>1, WakeIs DEF IInv
<1>3. ASSUME NEW v \in Module, Wake[v] # None
      PROVE  Wake[u] < Wake[v] \/ (Wake[u] = Wake[v] /\ Phase[u] <= Phase[v])
  <2>1. Owner[v] \in listed /\ Wake[v] = nextCall[v]
    BY <1>2, <1>3, WakeIs
  <2>2. Priority(u) <= Priority(v)
    BY <2>1, WhenIdle DEF Calling
  <2> HIDE DEF u
  <2>3. nextCall[u] < nextCall[v] \/ (nextCall[u] = nextCall[v] /\ Phase[u] <= Phase[v])
    <3>1. nextCall[u] \in Nat /\ nextCall[v] \in Nat
      BY <1>1, <1>2, <1>3, HeapType
    <3>2. Phase[u] \in 0 .. 3 /\ Phase[v] \in 0 .. 3
      BY <1>1, <1>3, ModuleAssumption DEF PHASE_INITIAL, PHASE_FINAL
    <3> QED BY <2>2, <3>1, <3>2 DEF Priority
  <2> QED BY <1>2, <2>1, <2>3
<1> QED BY <1>1, <1>2, <1>3 DEF Schedule!Present, Schedule!First, Wake

(* What the objects' modules do to each other is a change of the schedule. *)
LEMMA ChangeOf ==
  ASSUME TypeOK, TypeOK', UNCHANGED <<frame, stage, cur>>,
         \A u \in Module : Wake'[u] # Wake[u] =>
           /\ u # cur
           /\ Wake'[u] # None =>
                /\ Wake'[u] >= frame
                /\ ~(frame > 0 /\ Wake[u] = frame /\ Wake'[u] = frame + 1)
  PROVE  Schedule!Next
<1>1. Wake' \in [Module -> Nat \cup {None}]
  BY HeapType DEF Wake, TypeOK
<1> QED BY <1>1 DEF Schedule!Next, Schedule!Change, Wake

LEMMA StepRefines ==
  ASSUME IInv, IInv', Next
  PROVE  Schedule!Next \/ UNCHANGED Schedule!schedule
<1>1. TypeOK /\ TypeOK'
  BY DEF IInv
<1>2. CASE \/ RebalanceParent \/ RebalanceChild \/ PushSleepyUpdate \/ EraseSleepyUpdate
           \/ CleanUp \/ CleanedUp \/ SaveAndLoad \/ \E o \in Object : DestroyObject(o)
  <2>1. UNCHANGED <<frame, nextCall, cur, listed>>
    BY <1>2 DEF RebalanceParent, RebalanceChild, PushSleepyUpdate, EraseSleepyUpdate,
       CleanUp, CleanedUp, Proceed, SaveAndLoad, DestroyObject, objectVars
  <2>2. (stage = "objects")' = (stage = "objects")
    BY <1>2 DEF RebalanceParent, RebalanceChild, PushSleepyUpdate, EraseSleepyUpdate,
       CleanUp, CleanedUp, Proceed, SaveAndLoad, DestroyObject
  <2> QED BY <2>1, <2>2 DEF Schedule!schedule
<1>3. CASE BeginObjects
  <2>1. stage = "commands" /\ stage' = "objects" /\ UNCHANGED <<frame, nextCall, cur, listed>>
    BY <1>3 DEF BeginObjects, Proceed, objectVars
  <2> QED BY <2>1 DEF Schedule!Next, Schedule!Begin
<1>4. CASE EndObjects
  <2>1. /\ Idle /\ ~SomebodyDue /\ stage = "objects" /\ stage' = "systems" /\ cur = None
        /\ UNCHANGED <<frame, nextCall, cur, listed>>
    BY <1>4 DEF EndObjects, Proceed, objectVars
  <2>2. \A u \in Module : Wake[u] # None => Wake[u] > frame
    BY <1>1, <2>1, WakeIs, NobodyDue
  <2> QED BY <2>1, <2>2 DEF Schedule!Next, Schedule!End, Schedule!Present, Wake
<1>5. CASE EndFrame
  <2>1. /\ stage = "weapons" /\ stage' = "commands" /\ frame' = frame + 1
        /\ UNCHANGED <<nextCall, cur, listed>>
    BY <1>5 DEF EndFrame, objectVars
  <2> QED BY <2>1 DEF Schedule!Next, Schedule!Tick
<1>6. CASE CallUpdate
  <2>1. /\ Calling /\ stage = "objects" /\ cur = None /\ cur' = Head(sleepy)
        /\ UNCHANGED <<frame, stage, nextCall, listed>>
    BY <1>6 DEF CallUpdate, Calling, objectVars
  <2> QED BY <2>1, TopIsScheduled DEF Schedule!Next, Schedule!Call
<1>7. CASE ReturnFromUpdate
  <2>1. /\ Idle /\ cur # None /\ cur' = None /\ UNCHANGED <<frame, stage, listed>>
    BY <1>7 DEF ReturnFromUpdate, objectVars
  <2>2. cur \in Module /\ Owner[cur] \in listed
    BY <1>1, <2>1, TopsIndex DEF IInv, OnTop, TypeOK
  <2>3. nextCall' = [nextCall EXCEPT ![cur] = nextCall'[cur]] /\ nextCall'[cur] > frame
    BY <1>7, ReturnKeeps
  <2>4. Wake'[cur] = nextCall'[cur] /\ nextCall'[cur] \in Nat
    BY <1>1, <2>1, <2>2, HeapType DEF Wake, TypeOK
  <2>5. Wake' = [Wake EXCEPT ![cur] = Wake'[cur]]
    BY <1>1, <2>1, <2>3, <2>4 DEF Wake, TypeOK
  <2> QED BY <2>1, <2>3, <2>4, <2>5 DEF Schedule!Next, Schedule!Sleep, Wake
<1>8. CASE PutOffDisabled
  <2> DEFINE u == Head(sleepy)
  <2>1. Calling /\ stage = "objects" /\ cur = None /\ UNCHANGED <<frame, stage, cur, listed>>
    BY <1>8 DEF PutOffDisabled, Calling, objectVars
  <2>2. u \in Schedule!Present /\ Schedule!First(u)
    BY <2>1, TopIsScheduled
  <2>3. nextCall' = [nextCall EXCEPT ![u] = frame + 1]
    BY <1>8, PutOffKeeps
  <2>4. u \in Module /\ Owner[u] \in listed
    BY <2>1, TopsIndex DEF Calling, SomebodyDue
  <2> HIDE DEF u
  <2>5. Wake' = [Wake EXCEPT ![u] = frame + 1]
    BY <1>1, <2>1, <2>3, <2>4 DEF Wake, TypeOK
  <2> QED BY <2>1, <2>2, <2>5 DEF Schedule!Next, Schedule!PutOff, Wake
<1>9. CASE \E u \in Module : SetWakeFrame(u)
  <2>1. PICK u \in Module : SetWakeFrame(u)
    BY <1>9
  <2>2. /\ nextCall' = [nextCall EXCEPT ![u] = nextCall'[u]] /\ nextCall'[u] >= frame
        /\ ~(frame > 0 /\ nextCall[u] = frame /\ nextCall'[u] = frame + 1)
    BY <2>1, WakeKeeps
  <2>3. Owner[u] \in listed /\ u # cur /\ UNCHANGED <<frame, stage, cur, listed>>
    BY <2>1 DEF SetWakeFrame, objectVars
  <2>4. \A w \in Module : w # u => Wake'[w] = Wake[w]
    BY <1>1, <2>2, <2>3 DEF Wake, TypeOK
  <2>5. Wake[u] = nextCall[u] /\ Wake'[u] = nextCall'[u]
    BY <2>3 DEF Wake
  <2> QED BY <1>1, <2>2, <2>3, <2>4, <2>5, ChangeOf
<1>10. CASE \E o \in Object : NewObject(o)
  <2>1. PICK o \in Object : NewObject(o)
    BY <1>10
  <2>2. /\ o \notin listed /\ listed' = listed \cup {o} /\ Idle
        /\ UNCHANGED <<frame, stage, cur>>
    BY <2>1 DEF NewObject, Running
  <2>3. /\ \A u \in Module : Owner[u] = o => nextCall'[u] \in Nat /\ nextCall'[u] >= frame
        /\ \A u \in Module : Owner[u] # o => nextCall'[u] = nextCall[u]
    BY <2>1, NewKeeps
  <2>4. \A u \in Module : Owner[u] = o =>
           /\ Wake[u] = None /\ Wake'[u] = nextCall'[u] /\ u # cur
    <3>1. cur # None => Owner[cur] \in listed
      BY <2>2, TopsIndex DEF IInv, OnTop
    <3> QED BY <2>2, <3>1, NoneAssumption DEF Wake
  <2>5. \A u \in Module : Owner[u] # o => Wake'[u] = Wake[u]
    BY <2>2, <2>3 DEF Wake
  <2>6. frame \in Nat /\ None \notin Nat
    BY <1>1, HeapType, NoneAssumption
  <2> QED BY <1>1, <2>2, <2>3, <2>4, <2>5, <2>6, ChangeOf
<1>11. CASE ProcessDestroyList
  <2>1. listed' \subseteq listed /\ cur = None /\ UNCHANGED <<frame, stage, cur, nextCall>>
    BY <1>11, ProcessKeeps DEF ProcessDestroyList, IInv, OnTop
  <2>2. \A u \in Module : Wake'[u] # Wake[u] => (Wake'[u] = None /\ u # cur)
    BY <2>1, NoneAssumption DEF Wake
  <2> QED BY <1>1, <2>1, <2>2, ChangeOf
<1> QED BY <1>2, <1>3, <1>4, <1>5, <1>6, <1>7, <1>8, <1>9, <1>10, <1>11 DEF Next

(* The heap with its loops calls the modules as the schedule says: a due   *)
(* one that none precedes, and until nobody is due (UpdateModule.h:81).    *)
THEOREM Implements == Spec => ImplementsSchedule
<1>1. Init => Schedule!Init
  BY DEF Init, Schedule!Init
<1>2. IInv /\ IInv' /\ [Next]_vars => [Schedule!Next]_(Schedule!schedule)
  <2>1. SUFFICES ASSUME IInv, IInv', [Next]_vars PROVE Schedule!Next \/ UNCHANGED Schedule!schedule
    OBVIOUS
  <2>2. CASE UNCHANGED vars
    BY <2>2 DEF vars, objectVars, Schedule!schedule
  <2> QED BY <2>1, <2>2, StepRefines
<1> QED BY <1>1, <1>2, Inductive, PTL DEF Spec, ImplementsSchedule, Schedule!Spec
=============================================================================
