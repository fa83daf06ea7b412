------------------------ MODULE NetCommandListsProofs ------------------------
(***************************************************************************)
(* Proofs about NetCommandList, for every finite or infinite set of        *)
(* commands that have IDs, the commands of FrameData's lists; and, in the  *)
(* second half, about NetCommandWrapperList.                               *)
(***************************************************************************)
EXTENDS NetCommandList, NetCommandWrapperList, FiniteSetTheorems, SequenceTheorems,
        WellFoundedInduction, TLAPS

(* A loop stops, at the first position not past.                           *)
LEMMA ScanStops ==
  ASSUME NEW past, NEW i \in Nat, i <= Len(list) + 1, Len(list) \in Nat,
         Len(list) + 1 \notin past
  PROVE  /\ Scan(i, past) \in i..(Len(list) + 1)
         /\ Scan(i, past) \notin past
         /\ i..(Scan(i, past) - 1) \subseteq past
<1> DEFINE stops == (i..(Len(list) + 1)) \ past
<1>1. stops \subseteq Nat /\ stops # {}
  BY SMT
<1>2. PICK j \in stops : \A k \in stops : ~(<<k, j>> \in OpToRel(<, Nat))
  <2> HIDE DEF stops
  <2> QED BY <1>1, NatLessThanWellFounded, WFMin
<1>3. \A k \in stops : ~(k < j)
  BY <1>1, <1>2 DEF OpToRel
<1>4. i..(j - 1) \subseteq past
  BY <1>3
<1> QED BY <1>2, <1>4 DEF Scan

(* What inserting a command does to the list.                              *)
LEMMA InsertAtEffect ==
  ASSUME NEW S, NEW s \in Seq(S), NEW c \in S, NEW p \in 1..(Len(s) + 1)
  PROVE  /\ InsertAt(s, p, c) \in Seq(S)
         /\ Len(InsertAt(s, p, c)) = Len(s) + 1
         /\ \A k \in 1..(Len(s) + 1) :
              InsertAt(s, p, c)[k] = IF k < p THEN s[k]
                                     ELSE IF k = p THEN c ELSE s[k - 1]
<1> DEFINE a == SubSeq(s, 1, p - 1)
           b == SubSeq(s, p, Len(s))
<1>1. /\ a \in Seq(S) /\ Len(a) = p - 1
      /\ \A k \in 1..(p - 1) : a[k] = s[k]
  BY SubSeqProperties, \A k \in 1..Len(s) : s[k] \in S
<1>2. /\ b \in Seq(S) /\ Len(b) = Len(s) - p + 1
      /\ \A k \in 1..(Len(s) - p + 1) : b[k] = s[p + k - 1]
  BY SubSeqProperties, \A k \in 1..Len(s) : s[k] \in S
<1>3. <<c>> \in Seq(S) /\ Len(<<c>>) = 1 /\ <<c>>[1] = c
  OBVIOUS
<1> HIDE DEF a, b
<1> DEFINE t == a \o <<c>>
           u == t \o b
<1>4. /\ t \in Seq(S) /\ Len(t) = p
      /\ \A k \in 1..p : t[k] = IF k < p THEN s[k] ELSE c
  BY <1>1, <1>3, ConcatProperties
<1> HIDE DEF t
<1>5. /\ u \in Seq(S) /\ Len(u) = Len(t) + Len(b)
      /\ \A k \in 1..(Len(t) + Len(b)) :
           u[k] = IF k <= Len(t) THEN t[k] ELSE b[k - Len(t)]
  BY <1>2, <1>4, ConcatProperties
<1> HIDE DEF u
<1>6. Len(u) = Len(s) + 1
  BY <1>2, <1>4, <1>5
<1>7. \A k \in 1..(Len(s) + 1) :
        u[k] = IF k < p THEN s[k] ELSE IF k = p THEN c ELSE s[k - 1]
  <2> SUFFICES ASSUME NEW k \in 1..(Len(s) + 1)
               PROVE  u[k] = IF k < p THEN s[k] ELSE IF k = p THEN c ELSE s[k - 1]
    OBVIOUS
  <2>1. u[k] = IF k <= p THEN t[k] ELSE b[k - p]
    BY <1>2, <1>4, <1>5
  <2>2. CASE k <= p
    BY <1>4, <2>1, <2>2
  <2>3. CASE k > p
    <3>1. k - p \in 1..(Len(s) - p + 1) /\ p + (k - p) - 1 = k - 1
      BY <2>3
    <3>2. b[k - p] = s[k - 1]
      BY <1>2, <3>1
    <3> QED BY <2>1, <2>3, <3>2
  <2> QED BY <2>2, <2>3
<1>8. InsertAt(s, p, c) = u
  BY DEF InsertAt, a, b, t, u
<1> QED BY <1>5, <1>6, <1>7, <1>8

(* What removing a command does to the list.                               *)
LEMMA RemoveAtEffect ==
  ASSUME NEW S, NEW s \in Seq(S), NEW p \in 1..Len(s)
  PROVE  /\ RemoveAt(s, p) \in Seq(S)
         /\ Len(RemoveAt(s, p)) = Len(s) - 1
         /\ \A k \in 1..(Len(s) - 1) :
              RemoveAt(s, p)[k] = IF k < p THEN s[k] ELSE s[k + 1]
<1> DEFINE a == SubSeq(s, 1, p - 1)
           b == SubSeq(s, p + 1, Len(s))
           u == a \o b
<1>1. /\ a \in Seq(S) /\ Len(a) = p - 1
      /\ \A k \in 1..(p - 1) : a[k] = s[k]
  BY SubSeqProperties, \A k \in 1..Len(s) : s[k] \in S
<1>2. /\ b \in Seq(S) /\ Len(b) = Len(s) - p
      /\ \A k \in 1..(Len(s) - p) : b[k] = s[p + k]
  BY SubSeqProperties, \A k \in 1..Len(s) : s[k] \in S
<1> HIDE DEF a, b
<1>3. /\ u \in Seq(S) /\ Len(u) = Len(a) + Len(b)
      /\ \A k \in 1..(Len(a) + Len(b)) :
           u[k] = IF k <= Len(a) THEN a[k] ELSE b[k - Len(a)]
  BY <1>1, <1>2, ConcatProperties
<1> HIDE DEF u
<1>4. Len(u) = Len(s) - 1
  BY <1>1, <1>2, <1>3
<1>5. ASSUME NEW k \in 1..(Len(s) - 1)
      PROVE  u[k] = IF k < p THEN s[k] ELSE s[k + 1]
  <2>0. u[k] = IF k <= p - 1 THEN a[k] ELSE b[k - (p - 1)]
    <3>1. k \in 1..(Len(a) + Len(b))
      BY <1>1, <1>2
    <3> QED BY <1>1, <1>3, <3>1
  <2>1. CASE k < p
    BY <1>1, <2>1, <2>0
  <2>2. CASE k >= p
    <3>1. k - (p - 1) \in 1..(Len(s) - p) /\ p + (k - (p - 1)) = k + 1
      BY <2>2
    <3>2. u[k] = b[k - (p - 1)]
      BY <2>0, <2>2
    <3> QED BY <1>2, <2>2, <3>1, <3>2
  <2> QED BY <2>1, <2>2
<1>6. RemoveAt(s, p) = u
  BY DEF RemoveAt, a, b, u
<1> QED BY <1>3, <1>4, <1>5, <1>6

-----------------------------------------------------------------------------

AllHaveIDs == \A c \in Commands : c.hasID

(* The fields the order compares are numbers.                              *)
LEMMA Fields ==
  ASSUME NEW c \in Commands
  PROVE  /\ c.type \in Nat /\ c.player \in Nat /\ c.id \in Nat /\ c.sort \in Nat
         /\ c.hasID => c.sort = c.id
  BY CommandsAssumption DEF Command

LEMMA LessTransitive ==
  ASSUME NEW c \in Commands, NEW d \in Commands, NEW e \in Commands,
         Less(c, d), Less(d, e)
  PROVE  Less(c, e)
  BY Fields DEF Less

LEMMA LessAsymmetric ==
  ASSUME NEW c \in Commands, NEW d \in Commands, Less(c, d)
  PROVE  ~Less(d, c)
  BY Fields DEF Less

(* Commands with IDs are ordered unless they are equal.                    *)
LEMMA LessTotal ==
  ASSUME AllHaveIDs, NEW c \in Commands, NEW d \in Commands,
         ~Less(d, c), ~Equal(d, c)
  PROVE  Less(c, d)
<1>1. /\ c.hasID /\ d.hasID /\ c.sort = c.id /\ d.sort = d.id
      /\ c.type \in Nat /\ c.player \in Nat /\ c.sort \in Nat
      /\ d.type \in Nat /\ d.player \in Nat /\ d.sort \in Nat
  BY Fields DEF AllHaveIDs
<1>2. ~(d.player = c.player /\ d.id = c.id)
  BY <1>1 DEF Equal, AllHaveIDs
<1> QED BY <1>1, <1>2 DEF Less

(* The three loops of addMessage stop at the first command that is not     *)
(* less than the new one.                                                  *)
LEMMA PositionSplits ==
  ASSUME TypeOK, StrictlySorted, NEW c \in Commands
  PROVE  /\ Position(c) \in 1..(Len(list) + 1)
         /\ \A k \in 1..(Position(c) - 1) : Less(list[k], c)
         /\ \A k \in Position(c)..Len(list) : ~Less(list[k], c)
<1> DEFINE N       == Len(list)
           types   == {k \in 1..N : list[k].type < c.type}
           players == {k \in 1..N : /\ list[k].type = c.type
                                    /\ list[k].player < c.player}
           numbers == {k \in 1..N : /\ list[k].type = c.type
                                    /\ list[k].player = c.player
                                    /\ list[k].sort < c.sort}
           t == Scan(1, types)
           q == Scan(t, players)
           p == Scan(q, numbers)
<1>1. N \in Nat /\ \A k \in 1..N : list[k] \in Commands
  BY DEF TypeOK
<1>2. N + 1 \notin types /\ N + 1 \notin players /\ N + 1 \notin numbers
  BY <1>1
<1>3. t \in 1..(N + 1) /\ t \notin types /\ 1..(t - 1) \subseteq types
  <2> HIDE DEF types
  <2> QED BY <1>1, <1>2, ScanStops
<1>4. q \in t..(N + 1) /\ q \notin players /\ t..(q - 1) \subseteq players
  <2> HIDE DEF types, players, t
  <2> QED BY <1>1, <1>2, <1>3, ScanStops
<1>5. p \in q..(N + 1) /\ p \notin numbers /\ q..(p - 1) \subseteq numbers
  <2> HIDE DEF types, players, numbers, t, q
  <2> QED BY <1>1, <1>2, <1>3, <1>4, ScanStops
<1>6. Position(c) = p
  BY DEF Position
<1> HIDE DEF N, t, q, p
<1>7. \A k \in 1..(p - 1) : Less(list[k], c)
  <2> SUFFICES ASSUME NEW k \in 1..(p - 1) PROVE Less(list[k], c)
    OBVIOUS
  <2>1. k \in types \/ k \in players \/ k \in numbers
    <3> HIDE DEF types, players, numbers
    <3> QED BY <1>1, <1>3, <1>4, <1>5
  <2> QED BY <2>1 DEF Less
<1>8. p <= N => ~Less(list[p], c)
  <2> SUFFICES ASSUME p <= N PROVE ~Less(list[p], c)
    OBVIOUS
  <2>1. /\ t \in 1..N /\ q \in 1..N /\ p \in 1..N /\ t <= p /\ q <= p
        /\ list[t] \in Commands /\ list[p] \in Commands
    BY <1>1, <1>3, <1>4, <1>5
  <2>2. list[p].type >= c.type
    <3>1. list[t].type >= c.type
      BY <1>3, <2>1, Fields
    <3>2. t = p \/ Less(list[t], list[p])
      BY <2>1 DEF StrictlySorted, N
    <3> QED BY <2>1, <3>1, <3>2, Fields DEF Less
  <2>3. list[p].type = c.type => list[p].player >= c.player
    <3>1. CASE p = q
      BY <1>4, <2>1, <3>1, Fields
    <3>2. CASE p # q
      <4>1. p - 1 \in numbers /\ p - 1 \in 1..N /\ list[p - 1] \in Commands
        BY <1>1, <1>3, <1>4, <1>5, <2>1, <3>2
      <4>2. Less(list[p - 1], list[p])
        BY <2>1, <4>1 DEF StrictlySorted, N
      <4> QED BY <2>1, <4>1, <4>2, Fields DEF Less
    <3> QED BY <3>1, <3>2
  <2>4. list[p].type = c.type /\ list[p].player = c.player => list[p].sort >= c.sort
    BY <1>5, <2>1, Fields
  <2> QED BY <2>1, <2>2, <2>3, <2>4, Fields DEF Less
<1>9. \A k \in p..N : ~Less(list[k], c)
  <2> SUFFICES ASSUME NEW k \in p..N, Less(list[k], c) PROVE FALSE
    OBVIOUS
  <2>1. p \in 1..N /\ k \in 1..N /\ list[p] \in Commands /\ list[k] \in Commands
    BY <1>1, <1>3, <1>4, <1>5
  <2>2. k = p \/ Less(list[p], list[k])
    BY <2>1 DEF StrictlySorted, N
  <2> QED BY <1>8, <2>1, <2>2, LessTransitive
<1>10. p \in 1..(N + 1)
  BY <1>1, <1>3, <1>4, <1>5
<1> QED BY <1>6, <1>7, <1>9, <1>10 DEF N

(* Inserting a command between the smaller and the larger ones.            *)
LEMMA InsertKeepsSorted ==
  ASSUME TypeOK, StrictlySorted, NEW c \in Commands, NEW p \in 1..(Len(list) + 1),
         \A k \in 1..(p - 1) : Less(list[k], c),
         \A k \in p..Len(list) : Less(c, list[k]),
         InsertAtPosition(c, p)
  PROVE  TypeOK' /\ StrictlySorted'
<1>1. list \in Seq(Commands) /\ Len(list) \in Nat
  BY DEF TypeOK
<1>2. /\ list' \in Seq(Commands) /\ Len(list') = Len(list) + 1
      /\ \A k \in 1..(Len(list) + 1) :
           list'[k] = IF k < p THEN list[k]
                      ELSE IF k = p THEN c ELSE list[k - 1]
  <2>1. list' = InsertAt(list, p, c)
    BY DEF InsertAtPosition
  <2>2. /\ InsertAt(list, p, c) \in Seq(Commands)
        /\ Len(InsertAt(list, p, c)) = Len(list) + 1
        /\ \A k \in 1..(Len(list) + 1) :
             InsertAt(list, p, c)[k] = IF k < p THEN list[k]
                                       ELSE IF k = p THEN c ELSE list[k - 1]
    BY <1>1, InsertAtEffect, SMTT(60)
  <2> QED BY <2>1, <2>2
<1>3. TypeOK'
  BY <1>1, <1>2 DEF TypeOK, InsertAtPosition
<1>4. ASSUME NEW i \in 1..(Len(list) + 1), NEW j \in 1..(Len(list) + 1), i < j
      PROVE  Less(list'[i], list'[j])
  <2>1. CASE j < p
    BY <1>1, <1>2, <1>4, <2>1 DEF StrictlySorted
  <2>2. CASE j = p
    BY <1>1, <1>2, <1>4, <2>2
  <2>3. CASE j > p
    <3>1. list'[j] = list[j - 1] /\ j - 1 \in p..Len(list) /\ j - 1 \in 1..Len(list)
      BY <1>1, <1>2, <2>3
    <3>2. CASE i < p
      <4>1. list'[i] = list[i] /\ i \in 1..Len(list) /\ i < j - 1
        BY <1>1, <1>2, <1>4, <2>3, <3>2
      <4> QED BY <3>1, <4>1 DEF StrictlySorted
    <3>3. CASE i = p
      BY <1>2, <3>1, <3>3
    <3>4. CASE i > p
      <4>1. list'[i] = list[i - 1] /\ i - 1 \in 1..Len(list) /\ i - 1 < j - 1
        BY <1>1, <1>2, <1>4, <3>4
      <4> QED BY <3>1, <4>1 DEF StrictlySorted
    <3> QED BY <3>2, <3>3, <3>4
  <2> QED BY <2>1, <2>2, <2>3
<1>5. StrictlySorted'
  BY <1>2, <1>4 DEF StrictlySorted
<1> QED BY <1>3, <1>5

(* The fast path: right behind the hint is the position of such a command. *)
LEMMA InOrderSplits ==
  ASSUME AllHaveIDs, TypeOK, StrictlySorted, NEW c \in Commands, InOrder(c)
  PROVE  /\ hint + 1 \in 1..(Len(list) + 1)
         /\ \A k \in 1..hint : Less(list[k], c)
         /\ \A k \in (hint + 1)..Len(list) : Less(c, list[k])
<1>1. /\ Len(list) \in Nat /\ hint \in 1..Len(list)
      /\ \A k \in 1..Len(list) : list[k] \in Commands
  BY DEF TypeOK, InOrder
<1>2. Less(list[hint], c)
  BY <1>1, Fields DEF AllHaveIDs, InOrder, Less
<1>3. \A k \in 1..hint : Less(list[k], c)
  <2> SUFFICES ASSUME NEW k \in 1..hint PROVE Less(list[k], c)
    OBVIOUS
  <2>1. k = hint \/ Less(list[k], list[hint])
    BY <1>1 DEF StrictlySorted
  <2> QED BY <1>1, <1>2, <2>1, LessTransitive
<1>4. ASSUME hint < Len(list) PROVE Less(c, list[hint + 1])
  <2>1. hint + 1 \in 1..Len(list) /\ list[hint + 1] \in Commands
    BY <1>1, <1>4
  <2>2. Less(list[hint], list[hint + 1])
    BY <1>1, <1>4, <2>1 DEF StrictlySorted
  <2>3. \/ list[hint + 1].type > c.type
        \/ list[hint + 1].player > c.player
        \/ list[hint + 1].id > c.id
    BY <1>4 DEF InOrder
  <2>4. list[hint].type = c.type /\ list[hint].player = c.player
    BY DEF InOrder
  <2>5. list[hint + 1].sort = list[hint + 1].id /\ c.sort = c.id
    BY <2>1, Fields DEF AllHaveIDs
  <2> QED BY <1>1, <2>1, <2>2, <2>3, <2>4, <2>5, Fields DEF Less
<1>5. \A k \in (hint + 1)..Len(list) : Less(c, list[k])
  <2> SUFFICES ASSUME NEW k \in (hint + 1)..Len(list) PROVE Less(c, list[k])
    OBVIOUS
  <2>1. /\ hint < Len(list) /\ hint + 1 \in 1..Len(list) /\ k \in 1..Len(list)
        /\ list[hint + 1] \in Commands /\ list[k] \in Commands
    BY <1>1
  <2>2. k = hint + 1 \/ Less(list[hint + 1], list[k])
    BY <2>1 DEF StrictlySorted
  <2> QED BY <1>4, <2>1, <2>2, LessTransitive
<1> QED BY <1>1, <1>3, <1>5

LEMMA AddKeepsSorted ==
  ASSUME AllHaveIDs, TypeOK, StrictlySorted, NEW c \in Commands, AddMessage(c)
  PROVE  TypeOK' /\ StrictlySorted'
<1>1. Len(list) \in Nat /\ \A k \in 1..Len(list) : list[k] \in Commands
  BY DEF TypeOK
<1>2. CASE list = <<>> /\ InsertAtPosition(c, 1)
  <2>1. Len(list) = 0
    BY <1>2
  <2> QED BY <1>2, <2>1, InsertKeepsSorted
<1>3. CASE list # <<>> /\ InOrder(c) /\ InsertAtPosition(c, hint + 1)
  <2>1. hint \in Nat /\ (hint + 1) - 1 = hint
    BY DEF TypeOK
  <2> QED BY <1>3, <2>1, InOrderSplits, InsertKeepsSorted
<1>4. CASE Dropped(c) /\ UNCHANGED vars
  BY <1>4 DEF vars, TypeOK, StrictlySorted
<1>5. CASE list # <<>> /\ ~InOrder(c) /\ ~Dropped(c) /\ InsertAtPosition(c, Position(c))
  <2> DEFINE p == Position(c)
  <2>1. /\ p \in 1..(Len(list) + 1)
        /\ \A k \in 1..(p - 1) : Less(list[k], c)
        /\ \A k \in p..Len(list) : ~Less(list[k], c)
    BY PositionSplits
  <2>2. ~Equal(Neighbour(p), c)
    BY <1>5 DEF Dropped
  <2> HIDE DEF p
  <2>3. \A k \in p..Len(list) : Less(c, list[k])
    <3> SUFFICES ASSUME NEW k \in p..Len(list) PROVE Less(c, list[k])
      OBVIOUS
    <3>1. /\ p \in 1..Len(list) /\ k \in 1..Len(list)
          /\ list[p] \in Commands /\ list[k] \in Commands
      BY <1>1, <2>1
    <3>2. Less(c, list[p])
      BY <1>1, <2>1, <2>2, <3>1, LessTotal DEF Neighbour
    <3>3. k = p \/ Less(list[p], list[k])
      BY <3>1 DEF StrictlySorted
    <3> QED BY <3>1, <3>2, <3>3, LessTransitive
  <2> QED BY <1>5, <2>1, <2>3, InsertKeepsSorted DEF p
<1> QED BY <1>2, <1>3, <1>4, <1>5 DEF AddMessage

LEMMA RemoveKeepsSorted ==
  ASSUME TypeOK, StrictlySorted, NEW i \in 1..Len(list), RemoveMessage(i)
  PROVE  TypeOK' /\ StrictlySorted'
<1>1. list \in Seq(Commands) /\ Len(list) \in Nat /\ hint \in 0..Len(list)
  BY DEF TypeOK
<1>2. /\ list' \in Seq(Commands) /\ Len(list') = Len(list) - 1
      /\ \A k \in 1..(Len(list) - 1) :
           list'[k] = IF k < i THEN list[k] ELSE list[k + 1]
  BY <1>1, RemoveAtEffect DEF RemoveMessage
<1>3. hint' \in 0..(Len(list) - 1)
  BY <1>1 DEF RemoveMessage, HintWithout
<1>4. ASSUME NEW k \in 1..(Len(list) - 1), NEW l \in 1..(Len(list) - 1), k < l
      PROVE  Less(list'[k], list'[l])
  <2>1. PICK m \in 1..Len(list), n \in 1..Len(list) :
          m < n /\ list'[k] = list[m] /\ list'[l] = list[n]
    <3>1. CASE l < i
      <4>1. list'[k] = list[k] /\ list'[l] = list[l]
        BY <1>1, <1>2, <1>4, <3>1
      <4> QED BY <1>1, <1>4, <4>1
    <3>2. CASE k < i /\ i <= l
      BY <1>1, <1>2, <1>4, <3>2, SMTT(30)
    <3>3. CASE i <= k
      BY <1>1, <1>2, <1>4, <3>3, SMTT(30)
    <3> QED BY <1>4, <3>1, <3>2, <3>3
  <2> QED BY <2>1 DEF StrictlySorted
<1> QED BY <1>2, <1>3, <1>4 DEF TypeOK, StrictlySorted

-----------------------------------------------------------------------------

(* Lists of commands with IDs are always well formed and strictly sorted,  *)
(* whatever is inserted and removed in whatever order: a list is a         *)
(* function of the set of commands it holds.                               *)
THEOREM Sorted ==
  ASSUME AllHaveIDs
  PROVE  Spec => [](TypeOK /\ StrictlySorted)
<1>1. Init => TypeOK /\ StrictlySorted
  BY DEF Init, TypeOK, StrictlySorted
<1>2. ASSUME TypeOK, StrictlySorted, [Next]_vars
      PROVE  TypeOK' /\ StrictlySorted'
  <2>1. CASE \E c \in Commands : AddMessage(c)
    BY <1>2, <2>1, AddKeepsSorted
  <2>2. CASE \E i \in 1..Len(list) : RemoveMessage(i)
    BY <1>2, <2>2, RemoveKeepsSorted
  <2>3. CASE Reset
    BY <2>3 DEF Reset, TypeOK, StrictlySorted
  <2>4. CASE UNCHANGED vars
    BY <1>2, <2>4 DEF vars, TypeOK, StrictlySorted
  <2> QED BY <1>2, <2>1, <2>2, <2>3, <2>4 DEF Next
<1> QED BY <1>1, <1>2, PTL DEF Spec

(* Only commands the list holds already are dropped.                       *)
THEOREM OnlyDuplicatesDropped ==
  ASSUME AllHaveIDs
  PROVE  Spec => []DropsOnlyDuplicates
<1>1. ASSUME TypeOK, StrictlySorted PROVE DropsOnlyDuplicates
  <2> SUFFICES ASSUME NEW c \in Commands, Dropped(c) PROVE c \in ToSet(list)
    BY DEF DropsOnlyDuplicates
  <2>1. Len(list) \in Nat \ {0} /\ \A k \in 1..Len(list) : list[k] \in Commands
    BY <1>1 DEF TypeOK, Dropped
  <2>2. Position(c) \in 1..(Len(list) + 1)
    BY <1>1, PositionSplits
  <2>3. PICK k \in 1..Len(list) : Neighbour(Position(c)) = list[k]
    BY <2>1, <2>2 DEF Neighbour, Last
  <2>4. list[k] \in Commands /\ Equal(list[k], c)
    BY <2>1, <2>3 DEF Dropped
  <2>5. list[k] = c
    BY <2>4, CommandsAssumption DEF AllHaveIDs, Equal
  <2>6. DOMAIN list = 1..Len(list)
    BY <1>1 DEF TypeOK
  <2> QED BY <2>5, <2>6 DEF ToSet
<1> QED BY <1>1, Sorted, PTL

-----------------------------------------------------------------------------

(* Any command, with an ID or without, is inserted inside the list or right*)
(* behind it, however the list is sorted.                                  *)
LEMMA PositionInList ==
  ASSUME TypeOK, NEW c \in Commands
  PROVE  Position(c) \in 1..(Len(list) + 1)
<1> DEFINE types   == {k \in 1..Len(list) : list[k].type < c.type}
           players == {k \in 1..Len(list) : /\ list[k].type = c.type
                                            /\ list[k].player < c.player}
           numbers == {k \in 1..Len(list) : /\ list[k].type = c.type
                                            /\ list[k].player = c.player
                                            /\ list[k].sort < c.sort}
           t == Scan(1, types)
           q == Scan(t, players)
<1>1. Position(c) = Scan(q, numbers)
  BY DEF Position
<1>2. Len(list) \in Nat
  BY DEF TypeOK
<1>3. /\ Len(list) + 1 \notin types /\ Len(list) + 1 \notin players
      /\ Len(list) + 1 \notin numbers
  BY <1>2
<1> HIDE DEF types, players, numbers
<1>4. t \in 1..(Len(list) + 1)
  BY <1>2, <1>3, ScanStops
<1> HIDE DEF t
<1>5. q \in t..(Len(list) + 1)
  BY <1>2, <1>3, <1>4, ScanStops
<1> HIDE DEF q
<1> QED BY <1>1, <1>2, <1>3, <1>4, <1>5, ScanStops

LEMMA InsertKeepsType ==
  ASSUME TypeOK, NEW c \in Commands, NEW p \in 1..(Len(list) + 1),
         InsertAtPosition(c, p)
  PROVE  TypeOK'
<1>1. list \in Seq(Commands) /\ Len(list) \in Nat
  BY DEF TypeOK
<1>2. list' \in Seq(Commands) /\ Len(list') = Len(list) + 1 /\ hint' = p
  BY <1>1, InsertAtEffect DEF InsertAtPosition
<1> QED BY <1>1, <1>2 DEF TypeOK

(* The hint is always null or points into the list, for commands of every  *)
(* kind, acknowledgements without an ID included: removeMessage never      *)
(* leaves it on a node that was freed.                                     *)
THEOREM TypeCorrect == Spec => []TypeOK
<1>1. Init => TypeOK
  BY DEF Init, TypeOK
<1>2. ASSUME TypeOK, [Next]_vars
      PROVE  TypeOK'
  <2>1. list \in Seq(Commands) /\ Len(list) \in Nat /\ hint \in 0..Len(list)
    BY <1>2 DEF TypeOK
  <2>2. ASSUME NEW c \in Commands, AddMessage(c) PROVE TypeOK'
    <3>1. CASE list = <<>> /\ InsertAtPosition(c, 1)
      BY <1>2, <2>1, <3>1, InsertKeepsType
    <3>2. CASE list # <<>> /\ InOrder(c) /\ InsertAtPosition(c, hint + 1)
      BY <1>2, <2>1, <3>2, InsertKeepsType
    <3>3. CASE UNCHANGED vars
      BY <1>2, <3>3 DEF vars, TypeOK
    <3>4. CASE InsertAtPosition(c, Position(c))
      BY <1>2, <3>4, PositionInList, InsertKeepsType
    <3> QED BY <2>2, <3>1, <3>2, <3>3, <3>4 DEF AddMessage
  <2>3. ASSUME NEW i \in 1..Len(list), RemoveMessage(i) PROVE TypeOK'
    <3>1. list' \in Seq(Commands) /\ Len(list') = Len(list) - 1
      BY <2>1, <2>3, RemoveAtEffect DEF RemoveMessage
    <3>2. hint' \in 0..(Len(list) - 1)
      BY <2>1, <2>3 DEF RemoveMessage, HintWithout
    <3> QED BY <3>1, <3>2 DEF TypeOK
  <2>4. CASE Reset
    BY <2>4 DEF Reset, TypeOK
  <2>5. CASE UNCHANGED vars
    BY <1>2, <2>5 DEF vars, TypeOK
  <2> QED BY <1>2, <2>2, <2>3, <2>4, <2>5 DEF Next
<1> QED BY <1>1, <1>2, PTL DEF Spec

-----------------------------------------------------------------------------
(* The reassembly of big commands, for any commands, sizes, IDs and number *)
(* of copies.  The inductive invariant says of a buffer whose ID has not   *)
(* clashed that one command owns it: all its chunks are of that command,   *)
(* and no other with this ID has copies under way.                         *)

Owns(c, i) ==
  /\ c \in sent /\ Id[c] = i
  /\ wrappers[i].num = Size[c]
  /\ \A k \in DOMAIN wrappers[i].data : wrappers[i].data[k] = c
  /\ \A d \in sent \ over : Id[d] = i => d = c

(* A buffer of an ID that has not clashed has an owner.                    *)
Owned == \A i \in Ids \ clashed : wrappers[i] # NoNode => \E c \in WrappedCommand : Owns(c, i)

(* No two commands use such an ID at a time.                               *)
OneUser ==
  \A c, d \in sent \ over : Id[c] = Id[d] /\ Id[c] \notin clashed => c = d

(* A chunk in a buffer has arrived once more than its command was handed   *)
(* over.                                                                   *)
Counted ==
  \A c \in WrappedCommand : \A k \in Chunks(c) :
    /\ handed[c] <= arrived[c][k]
    /\ k \in DOMAIN wrappers[Id[c]].data /\ wrappers[Id[c]].data[k] = c =>
         handed[c] + 1 <= arrived[c][k]

(* What has arrived of a command not handed over yet is in its buffer.     *)
Collected ==
  \A c \in WrappedCommand : \A k \in Chunks(c) :
    Id[c] \notin clashed /\ handed[c] = 0 /\ arrived[c][k] > 0 =>
      k \in DOMAIN wrappers[Id[c]].data /\ wrappers[Id[c]].data[k] = c

WrapperInv == WrapperTypeOK /\ Owned /\ OneUser /\ Counted /\ Collected /\ HandedOverIntact
-----------------------------------------------------------------------------
(* An empty buffer is one.                                                 *)
LEMMA EmptyNode == ASSUME NEW n \in Nat PROVE NodeOK(Node(n))
<1>1. DOMAIN Node(n).data = {}
  BY DEF Node
<1>2. Node(n).data \in [{} -> WrappedCommand]
  BY DEF Node
<1> QED
  BY <1>1, <1>2, FS_EmptySet DEF NodeOK, Node

(* A chunk that is copied is counted once, in its place.                   *)
LEMMA ChunkCopied ==
  ASSUME NEW node, NodeOK(node), NEW c \in WrappedCommand, NEW k \in Nat
  PROVE  /\ NodeOK(WithChunk(node, c, k))
         /\ WithChunk(node, c, k).num = node.num
         /\ DOMAIN node.data \subseteq DOMAIN WithChunk(node, c, k).data
         /\ k < node.num => k \in DOMAIN WithChunk(node, c, k).data
         /\ \A j \in DOMAIN WithChunk(node, c, k).data :
              \/ j \in DOMAIN node.data /\ WithChunk(node, c, k).data[j] = node.data[j]
              \/ j = k /\ WithChunk(node, c, k).data[j] = c
         /\ \A j \in DOMAIN node.data : WithChunk(node, c, k).data[j] = node.data[j]
<1>1. CASE Fits(node, k) /\ Missing(node, k)
  <2> DEFINE D == DOMAIN node.data
             E == [j \in D \cup {k} |-> IF j = k THEN c ELSE node.data[j]]
             N == [num |-> node.num, present |-> node.present + 1, data |-> E]
  <2>1. WithChunk(node, c, k) = N
    BY <1>1 DEF WithChunk
  <2>2. /\ node.num \in Nat /\ node.present \in Nat /\ D \subseteq 0..node.num - 1
        /\ node.data \in [D -> WrappedCommand] /\ node.present = Cardinality(D)
    BY DEF NodeOK
  <2>3. k \in 0..node.num - 1 /\ k \notin D
    BY <1>1, <2>2 DEF Fits, Missing
  <2>4. IsFiniteSet(D)
    <3>1. IsFiniteSet(0..node.num - 1)
      BY <2>2, FS_Interval, SMTT(30)
    <3> QED
      BY <2>2, <3>1, FS_Subset
  <2>5. Cardinality(D \cup {k}) = node.present + 1
    BY <2>2, <2>3, <2>4, FS_AddElement
  <2>6. DOMAIN E = D \cup {k} /\ E \in [D \cup {k} -> WrappedCommand]
    BY <2>2
  <2>7. NodeOK(N)
    BY <2>2, <2>3, <2>5, <2>6 DEF NodeOK
  <2> QED
    BY <2>1, <2>2, <2>3, <2>6, <2>7
<1>2. CASE ~(Fits(node, k) /\ Missing(node, k))
  BY <1>2 DEF WithChunk, Fits, Missing
<1> QED
  BY <1>1, <1>2

(* A buffer of a command's chunks only is complete when it is the command. *)
LEMMA WholeCommand ==
  ASSUME NEW c \in WrappedCommand, NEW node, NodeOK(node), node.num = Size[c],
         \A k \in DOMAIN node.data : node.data[k] = c
  PROVE  node.present = node.num <=> node.data = [k \in Chunks(c) |-> c]
<1> DEFINE D == DOMAIN node.data
<1>1. /\ D \subseteq Chunks(c) /\ node.data \in [D -> WrappedCommand]
      /\ node.present = Cardinality(D) /\ node.num \in Nat \ {0}
  BY WrapperAssumption DEF NodeOK, Chunks
<1>2. IsFiniteSet(Chunks(c)) /\ Cardinality(Chunks(c)) = node.num
  <2> DEFINE n == node.num
  <2>1. n \in Nat \ {0} /\ n - 1 \in Int /\ ~(0 > n - 1)
    BY <1>1
  <2>2. IsFiniteSet(0..n - 1) /\ Cardinality(0..n - 1) = (n - 1) - 0 + 1
    <3> HIDE DEF n
    <3>1. ASSUME NEW m \in Int, ~(0 > m)
          PROVE  IsFiniteSet(0..m) /\ Cardinality(0..m) = m - 0 + 1
      BY <3>1, FS_Interval
    <3> QED
      BY <2>1, <3>1
  <2>3. Chunks(c) = 0..n - 1 /\ (n - 1) - 0 + 1 = n
    BY <2>1 DEF Chunks
  <2> QED
    BY <2>2, <2>3
<1>3. ASSUME node.present = node.num PROVE node.data = [k \in Chunks(c) |-> c]
  <2>1. D = Chunks(c)
    BY <1>1, <1>2, <1>3, FS_Subset
  <2> QED
    BY <1>1, <2>1
<1>4. ASSUME node.data = [k \in Chunks(c) |-> c] PROVE node.present = node.num
  <2>1. D = Chunks(c)
    BY <1>4
  <2> QED
    BY <1>1, <1>2, <2>1
<1> QED
  BY <1>3, <1>4

-----------------------------------------------------------------------------
(* The invariant holds at first.                                           *)
LEMMA InitInv == WrapperInit => WrapperInv
<1> SUFFICES ASSUME WrapperInit PROVE WrapperInv
  OBVIOUS
<1>1. NodeOK(NoNode) /\ DOMAIN NoNode.data = {}
  BY EmptyNode DEF NoNode, Node
<1>2. WrapperTypeOK
  BY <1>1 DEF WrapperInit, WrapperTypeOK
<1>3. Owned
  BY DEF WrapperInit, Owned
<1>4. OneUser
  BY DEF WrapperInit, OneUser
<1>5. \A c \in WrappedCommand : Id[c] \in Ids
  BY DEF Ids
<1>6. Counted
  BY <1>1, <1>5 DEF WrapperInit, Counted
<1>7. Collected
  BY DEF WrapperInit, Collected
<1> QED
  BY <1>2, <1>3, <1>4, <1>6, <1>7 DEF WrapperInv, HandedOverIntact, WrapperInit

(* A command that is sent may clash; then nothing is said of its ID.       *)
LEMMA SendInv == ASSUME WrapperInv, NEW c \in WrappedCommand, Send(c) PROVE WrapperInv'
<1>1. Id[c] \in Ids
  BY DEF Ids
<1>2. WrapperTypeOK'
  BY <1>1 DEF WrapperInv, WrapperTypeOK, Send
<1>3. Owned'
  <2> SUFFICES ASSUME NEW i \in Ids, i \notin clashed', wrappers[i] # NoNode
               PROVE  \E b \in WrappedCommand : Owns(b, i)'
    BY DEF Owned, Send
  <2>1. i \notin clashed /\ i # Id[c]
    BY DEF Send, InUse
  <2>2. PICK b \in WrappedCommand : Owns(b, i)
    BY <2>1 DEF WrapperInv, Owned
  <2>3. Owns(b, i)'
    BY <2>1, <2>2 DEF Owns, Send
  <2> QED
    BY <2>3
<1>4. OneUser'
  BY DEF WrapperInv, OneUser, Send, InUse
<1>5. Counted'
  BY DEF WrapperInv, Counted, Send
<1>6. Collected'
  BY DEF WrapperInv, Collected, Send
<1>7. HandedOverIntact'
  BY DEF WrapperInv, HandedOverIntact, Send
<1> QED
  BY <1>2, <1>3, <1>4, <1>5, <1>6, <1>7 DEF WrapperInv

(* The end of the copies of a command.                                     *)
LEMMA LastCopyInv == ASSUME WrapperInv, NEW c \in WrappedCommand, LastCopy(c) PROVE WrapperInv'
<1>1. WrapperTypeOK'
  BY DEF WrapperInv, WrapperTypeOK, LastCopy
<1>2. Owned'
  <2> SUFFICES ASSUME NEW i \in Ids \ clashed, wrappers[i] # NoNode
               PROVE  \E b \in WrappedCommand : Owns(b, i)'
    BY DEF Owned, LastCopy
  <2>1. PICK b \in WrappedCommand : Owns(b, i)
    BY DEF WrapperInv, Owned
  <2>2. Owns(b, i)'
    BY <2>1 DEF Owns, LastCopy
  <2> QED
    BY <2>2
<1>3. OneUser'
  BY DEF WrapperInv, OneUser, LastCopy
<1>4. Counted'
  BY DEF WrapperInv, Counted, LastCopy
<1>5. Collected'
  BY DEF WrapperInv, Collected, LastCopy
<1> QED
  BY <1>1, <1>2, <1>3, <1>4, <1>5 DEF WrapperInv, HandedOverIntact, LastCopy

(* A chunk arrives: in the buffer of its command, in that of another one   *)
(* with a clashed ID, or it opens a buffer.                                *)
LEMMA ProcessWrapperInv ==
  ASSUME WrapperInv, NEW c \in WrappedCommand, NEW k \in Chunks(c), ProcessWrapper(c, k)
  PROVE  WrapperInv'
<1> DEFINE i == Id[c]
           node == IF wrappers[i] = NoNode THEN Node(Size[c]) ELSE wrappers[i]
           new == WithChunk(node, c, k)
<1>1. /\ i \in Ids /\ k \in Nat /\ Size[c] \in Nat \ {0} /\ k < Size[c]
      /\ c \in sent \ over /\ sent \subseteq WrappedCommand
  <2>1. Size[c] \in Nat \ {0}
    BY WrapperAssumption
  <2>2. k \in 0..Size[c] - 1
    BY DEF Chunks
  <2>3. k \in Nat /\ k < Size[c]
    BY <2>1, <2>2
  <2>4. i \in Ids
    BY DEF Ids
  <2>5. c \in sent \ over /\ sent \subseteq WrappedCommand
    BY DEF ProcessWrapper, WrapperInv, WrapperTypeOK
  <2> QED
    BY <2>1, <2>3, <2>4, <2>5
<1>2. NodeOK(node)
  BY <1>1, EmptyNode DEF WrapperInv, WrapperTypeOK
<1>3. wrappers' = [wrappers EXCEPT ![i] = new] /\ DOMAIN wrappers = Ids
  BY DEF ProcessWrapper, WrapperInv, WrapperTypeOK
<1>4. wrappers'[i] = new /\ \A j \in Ids \ {i} : wrappers'[j] = wrappers[j]
  BY <1>1, <1>3
<1>5. /\ arrived' = [arrived EXCEPT ![c][k] = @ + 1]
      /\ DOMAIN arrived = WrappedCommand /\ \A d \in WrappedCommand : arrived[d] \in [Chunks(d) -> Nat]
      /\ UNCHANGED <<sent, over, handed, garbled, clashed>>
      /\ handed \in [WrappedCommand -> Nat]
  BY DEF ProcessWrapper, WrapperInv, WrapperTypeOK
<1>6. /\ arrived'[c][k] = arrived[c][k] + 1
      /\ \A d \in WrappedCommand : \A j \in Chunks(d) :
           (d # c \/ j # k) => arrived'[d][j] = arrived[d][j]
      /\ \A d \in WrappedCommand : arrived'[d] \in [Chunks(d) -> Nat]
      /\ DOMAIN arrived' = WrappedCommand
      /\ \A d \in WrappedCommand : \A j \in Chunks(d) : arrived[d][j] \in Nat
  BY <1>5
<1>7. /\ NodeOK(new) /\ new.num = node.num
      /\ DOMAIN node.data \subseteq DOMAIN new.data
      /\ k < node.num => k \in DOMAIN new.data
      /\ \A j \in DOMAIN new.data :
           \/ j \in DOMAIN node.data /\ new.data[j] = node.data[j]
           \/ j = k /\ new.data[j] = c
      /\ \A j \in DOMAIN node.data : new.data[j] = node.data[j]
  <2> HIDE DEF node
  <2> QED
    BY <1>1, <1>2, ChunkCopied
<1>8. /\ wrappers[i] = NoNode => DOMAIN node.data = {} /\ node.num = Size[c]
      /\ wrappers[i] # NoNode => node = wrappers[i]
      /\ \A j \in DOMAIN node.data : j \in DOMAIN wrappers[i].data /\ wrappers[i].data[j] = node.data[j]
      /\ \A j \in DOMAIN wrappers[i].data : j \in DOMAIN node.data
  BY DEF Node, NoNode
<1> HIDE DEF new, node
<1>9. WrapperTypeOK'
  <2>1. DOMAIN wrappers' = Ids /\ \A j \in Ids : NodeOK(wrappers'[j])
    BY <1>3, <1>4, <1>7 DEF WrapperInv, WrapperTypeOK
  <2>2. /\ sent' \subseteq WrappedCommand /\ over' \subseteq sent'
        /\ garbled' \subseteq Ids /\ clashed' \subseteq Ids
    BY <1>5 DEF WrapperInv, WrapperTypeOK
  <2> QED
    BY <1>5, <1>6, <2>1, <2>2 DEF WrapperTypeOK
<1>10. ASSUME i \notin clashed
       PROVE  Owns(c, i)' /\ \A j \in DOMAIN new.data : new.data[j] = c
  <2>1. \A d \in sent \ over : Id[d] = i => d = c
    BY <1>1, <1>10 DEF WrapperInv, OneUser
  <2>2. node.num = Size[c] /\ \A j \in DOMAIN node.data : node.data[j] = c
    <3>1. CASE wrappers[i] = NoNode
      BY <1>8, <3>1
    <3>2. CASE wrappers[i] # NoNode
      <4>1. PICK b \in WrappedCommand : Owns(b, i)
        BY <1>1, <1>10, <3>2 DEF WrapperInv, Owned
      <4>2. b = c
        BY <1>1, <4>1 DEF Owns
      <4> QED
        BY <1>8, <3>2, <4>1, <4>2 DEF Owns
    <3> QED
      BY <3>1, <3>2
  <2>3. new.num = Size[c] /\ \A j \in DOMAIN new.data : new.data[j] = c
    BY <1>7, <2>2
  <2> QED
    BY <1>1, <1>4, <1>5, <2>1, <2>3 DEF Owns
<1>11. Owned'
  <2> SUFFICES ASSUME NEW j \in Ids, j \notin clashed, wrappers'[j] # NoNode
               PROVE  \E b \in WrappedCommand : Owns(b, j)'
    BY <1>5 DEF Owned
  <2>1. CASE j = i
    BY <1>10, <2>1
  <2>2. CASE j # i
    <3>1. wrappers'[j] = wrappers[j]
      BY <1>4, <2>2
    <3>2. PICK b \in WrappedCommand : Owns(b, j)
      BY <3>1 DEF WrapperInv, Owned
    <3>3. Owns(b, j)'
      BY <1>5, <3>1, <3>2 DEF Owns
    <3> QED
      BY <3>3
  <2> QED
    BY <2>1, <2>2
<1>12. OneUser'
  BY <1>5 DEF WrapperInv, OneUser
<1>13. Counted'
  <2> SUFFICES ASSUME NEW d \in WrappedCommand, NEW j \in Chunks(d)
               PROVE  /\ handed[d] <= arrived'[d][j]
                      /\ j \in DOMAIN wrappers'[Id[d]].data /\ wrappers'[Id[d]].data[j] = d =>
                           handed[d] + 1 <= arrived'[d][j]
    BY <1>5 DEF Counted
  <2>1. /\ handed[d] \in Nat /\ arrived[d][j] \in Nat /\ handed[d] <= arrived[d][j]
        /\ j \in DOMAIN wrappers[Id[d]].data /\ wrappers[Id[d]].data[j] = d =>
             handed[d] + 1 <= arrived[d][j]
    BY <1>5, <1>6 DEF WrapperInv, Counted
  <2>2. CASE d = c /\ j = k
    BY <1>6, <2>1, <2>2
  <2>3. CASE d # c \/ j # k
    <3>1. arrived'[d][j] = arrived[d][j]
      BY <1>6, <2>3
    <3>2. ASSUME j \in DOMAIN wrappers'[Id[d]].data, wrappers'[Id[d]].data[j] = d
          PROVE  j \in DOMAIN wrappers[Id[d]].data /\ wrappers[Id[d]].data[j] = d
      <4>1. CASE Id[d] = i
        <5>1. j \in DOMAIN new.data /\ new.data[j] = d
          BY <1>4, <3>2, <4>1
        <5>2. j \in DOMAIN node.data /\ new.data[j] = node.data[j]
          BY <1>7, <2>3, <5>1
        <5> QED
          BY <1>8, <4>1, <5>1, <5>2
      <4>2. CASE Id[d] # i
        <5>1. Id[d] \in Ids
          BY DEF Ids
        <5> QED
          BY <1>4, <3>2, <4>2, <5>1
      <4> QED
        BY <4>1, <4>2
    <3> QED
      BY <2>1, <3>1, <3>2
  <2> QED
    BY <2>2, <2>3
<1>14. Collected'
  <2> SUFFICES ASSUME NEW d \in WrappedCommand, NEW j \in Chunks(d),
                      Id[d] \notin clashed, handed[d] = 0, arrived'[d][j] > 0
               PROVE  j \in DOMAIN wrappers'[Id[d]].data /\ wrappers'[Id[d]].data[j] = d
    BY <1>5 DEF Collected
  <2>1. CASE d = c /\ j = k
    <3>1. k < node.num
      <4>1. Owns(c, i)'
        BY <1>10, <2>1
      <4> QED
        BY <1>1, <1>4, <1>7, <4>1 DEF Owns
    <3>2. k \in DOMAIN new.data /\ new.data[k] = c
      BY <1>7, <1>10, <2>1, <3>1
    <3> QED
      BY <1>4, <2>1, <3>2
  <2>2. CASE d # c \/ j # k
    <3>1. j \in DOMAIN wrappers[Id[d]].data /\ wrappers[Id[d]].data[j] = d
      BY <1>6, <2>2 DEF WrapperInv, Collected
    <3>2. CASE Id[d] = i
      BY <1>4, <1>7, <1>8, <3>1, <3>2
    <3>3. CASE Id[d] # i
      <4>1. Id[d] \in Ids
        BY DEF Ids
      <4> QED
        BY <1>4, <3>1, <3>3, <4>1
    <3> QED
      BY <3>2, <3>3
  <2> QED
    BY <2>1, <2>2
<1>15. HandedOverIntact'
  BY <1>5 DEF WrapperInv, HandedOverIntact
<1> QED
  BY <1>9, <1>11, <1>12, <1>13, <1>14, <1>15 DEF WrapperInv

(* What is complete is handed over and leaves the list.                    *)
LEMMA GetReadyCommandsInv == ASSUME WrapperInv, GetReadyCommands PROVE WrapperInv'
<1>1. /\ DOMAIN wrappers' = Ids
      /\ \A i \in Ids : wrappers'[i] = IF IsComplete(i) THEN NoNode ELSE wrappers[i]
  BY DEF GetReadyCommands, Remaining
<1>2. /\ UNCHANGED <<sent, over, arrived, clashed>>
      /\ handed' \in [WrappedCommand -> Nat]
      /\ \A c \in WrappedCommand : handed[c] \in Nat
      /\ \A c \in WrappedCommand : \A k \in Chunks(c) : arrived[c][k] \in Nat
      /\ \A c \in WrappedCommand :
           handed'[c] = IF IsComplete(Id[c]) /\ Holds(Id[c], c) THEN handed[c] + 1 ELSE handed[c]
  BY DEF GetReadyCommands, WrapperInv, WrapperTypeOK
<1>3. NodeOK(NoNode) /\ DOMAIN NoNode.data = {}
  BY EmptyNode DEF NoNode, Node
<1>4. \A c \in WrappedCommand : Id[c] \in Ids
  BY DEF Ids
<1>5. ASSUME NEW i \in Ids \ clashed, IsComplete(i), NEW c \in WrappedCommand, Owns(c, i)
      PROVE  Holds(i, c)
  <2>1. NodeOK(wrappers[i])
    BY DEF WrapperInv, WrapperTypeOK
  <2>2. wrappers[i].data = [k \in Chunks(c) |-> c]
    BY <1>5, <2>1, WholeCommand DEF Owns, IsComplete
  <2> QED
    BY <1>5, <2>2 DEF Holds, Owns
<1>6. WrapperTypeOK'
  <2>1. \A i \in Ids : NodeOK(wrappers'[i])
    BY <1>1, <1>3 DEF WrapperInv, WrapperTypeOK
  <2>2. garbled' \subseteq Ids
    BY DEF GetReadyCommands, WrapperInv, WrapperTypeOK
  <2> QED
    BY <1>1, <1>2, <2>1, <2>2 DEF WrapperInv, WrapperTypeOK
<1>7. Owned'
  <2> SUFFICES ASSUME NEW i \in Ids, i \notin clashed, wrappers'[i] # NoNode
               PROVE  \E c \in WrappedCommand : Owns(c, i)'
    BY <1>2 DEF Owned
  <2>1. wrappers'[i] = wrappers[i]
    BY <1>1
  <2>2. PICK c \in WrappedCommand : Owns(c, i)
    BY <2>1 DEF WrapperInv, Owned
  <2>3. Owns(c, i)'
    BY <1>2, <2>1, <2>2 DEF Owns
  <2> QED
    BY <2>3
<1>8. OneUser'
  BY <1>2 DEF WrapperInv, OneUser
<1>9. Counted'
  <2> SUFFICES ASSUME NEW c \in WrappedCommand, NEW k \in Chunks(c)
               PROVE  /\ handed'[c] <= arrived[c][k]
                      /\ k \in DOMAIN wrappers'[Id[c]].data /\ wrappers'[Id[c]].data[k] = c =>
                           handed'[c] + 1 <= arrived[c][k]
    BY <1>2 DEF Counted
  <2>1. /\ handed[c] <= arrived[c][k]
        /\ k \in DOMAIN wrappers[Id[c]].data /\ wrappers[Id[c]].data[k] = c =>
             handed[c] + 1 <= arrived[c][k]
    BY DEF WrapperInv, Counted
  <2>2. CASE IsComplete(Id[c])
    <3>1. wrappers'[Id[c]] = NoNode
      BY <1>1, <1>4, <2>2
    <3>2. ASSUME Holds(Id[c], c) PROVE handed[c] + 1 <= arrived[c][k]
      <4>1. k \in DOMAIN wrappers[Id[c]].data /\ wrappers[Id[c]].data[k] = c
        BY <3>2 DEF Holds
      <4> QED
        BY <2>1, <4>1
    <3> QED
      BY <1>2, <1>3, <2>1, <3>1, <3>2
  <2>3. CASE ~IsComplete(Id[c])
    BY <1>1, <1>2, <1>4, <2>1, <2>3
  <2> QED
    BY <2>2, <2>3
<1>10. Collected'
  <2> SUFFICES ASSUME NEW c \in WrappedCommand, NEW k \in Chunks(c),
                      Id[c] \notin clashed, handed'[c] = 0, arrived[c][k] > 0
               PROVE  k \in DOMAIN wrappers'[Id[c]].data /\ wrappers'[Id[c]].data[k] = c
    BY <1>2 DEF Collected
  <2>1. handed[c] = 0 /\ ~(IsComplete(Id[c]) /\ Holds(Id[c], c))
    BY <1>2
  <2>2. k \in DOMAIN wrappers[Id[c]].data /\ wrappers[Id[c]].data[k] = c
    BY <2>1 DEF WrapperInv, Collected
  <2>3. ~IsComplete(Id[c])
    <3> SUFFICES ASSUME IsComplete(Id[c]) PROVE FALSE
      OBVIOUS
    <3>1. PICK b \in WrappedCommand : Owns(b, Id[c])
      BY <1>4 DEF WrapperInv, Owned, IsComplete
    <3>2. b = c
      BY <2>2, <3>1 DEF Owns
    <3> QED
      BY <1>4, <1>5, <2>1, <3>1, <3>2
  <2> QED
    BY <1>1, <1>4, <2>2, <2>3
<1>11. HandedOverIntact'
  <2> SUFFICES ASSUME NEW i \in Ids, IsComplete(i), ~\E c \in WrappedCommand : Holds(i, c),
                      i \notin clashed
               PROVE  FALSE
    BY <1>2 DEF WrapperInv, HandedOverIntact, GetReadyCommands
  <2>1. PICK c \in WrappedCommand : Owns(c, i)
    BY DEF WrapperInv, Owned, IsComplete
  <2> QED
    BY <1>5, <2>1
<1> QED
  BY <1>6, <1>7, <1>8, <1>9, <1>10, <1>11 DEF WrapperInv

(* A stuttering step.                                                      *)
LEMMA StutterInv == ASSUME WrapperInv, UNCHANGED wrapperVars PROVE WrapperInv'
<1>1. WrapperTypeOK'
  BY DEF WrapperInv, WrapperTypeOK, wrapperVars
<1>2. Owned'
  BY DEF WrapperInv, Owned, Owns, wrapperVars
<1>3. OneUser' /\ HandedOverIntact'
  BY DEF WrapperInv, OneUser, HandedOverIntact, wrapperVars
<1>4. Counted' /\ Collected'
  BY DEF WrapperInv, Counted, Collected, wrapperVars
<1> QED
  BY <1>1, <1>2, <1>3, <1>4 DEF WrapperInv

(* The invariant is one.                                                   *)
THEOREM WrapperInvariant == WrapperSpec => []WrapperInv
<1>1. WrapperInv /\ [WrapperNext]_wrapperVars => WrapperInv'
  BY SendInv, LastCopyInv, ProcessWrapperInv, GetReadyCommandsInv, StutterInv DEF WrapperNext
<1> QED
  BY <1>1, InitInv, PTL DEF WrapperSpec

(* Buffers, counts and sets have their types; a buffer's count is right.   *)
THEOREM WrapperTypeCorrect == WrapperSpec => []WrapperTypeOK
<1>1. WrapperInv => WrapperTypeOK
  BY DEF WrapperInv
<1> QED
  BY <1>1, WrapperInvariant, PTL

(* Only under an ID that came into use before its last use was over is     *)
(* anything but a whole command handed over.                               *)
THEOREM Intact == WrapperSpec => []HandedOverIntact
<1>1. WrapperInv => HandedOverIntact
  BY DEF WrapperInv
<1> QED
  BY <1>1, WrapperInvariant, PTL

(* A command is handed over at most as often as each chunk has arrived.    *)
THEOREM ArrivedFirst == WrapperSpec => []NoMoreThanArrived
<1>1. WrapperInv => NoMoreThanArrived
  BY DEF WrapperInv, Counted, NoMoreThanArrived
<1> QED
  BY <1>1, WrapperInvariant, PTL

(* Once each chunk has arrived nothing is missing.                         *)
THEOREM Complete == WrapperSpec => []NothingMissing
<1>1. WrapperInv => NothingMissing
  <2> SUFFICES ASSUME WrapperInv, NEW c \in WrappedCommand, Id[c] \notin clashed, handed[c] = 0,
                      \A k \in Chunks(c) : arrived[c][k] > 0
               PROVE  IsComplete(Id[c]) /\ Holds(Id[c], c)
    BY DEF NothingMissing, WrapperInv, WrapperTypeOK
  <2> DEFINE i == Id[c]
  <2>1. \A k \in Chunks(c) : k \in DOMAIN wrappers[i].data /\ wrappers[i].data[k] = c
    BY DEF WrapperInv, Collected
  <2>2. 0 \in Chunks(c)
    BY WrapperAssumption DEF Chunks
  <2>3. wrappers[i] # NoNode /\ i \in Ids
    BY <2>1, <2>2 DEF NoNode, Node, Ids
  <2>4. PICK b \in WrappedCommand : Owns(b, i)
    BY <2>3 DEF WrapperInv, Owned
  <2>5. b = c
    BY <2>1, <2>2, <2>4 DEF Owns
  <2>6. NodeOK(wrappers[i])
    BY <2>3 DEF WrapperInv, WrapperTypeOK
  <2>7. wrappers[i].data = [k \in Chunks(c) |-> c]
    <3>1. DOMAIN wrappers[i].data = Chunks(c)
      BY <2>1, <2>4, <2>5, <2>6 DEF NodeOK, Owns, Chunks
    <3> QED
      BY <2>1, <2>6, <3>1 DEF NodeOK
  <2>8. wrappers[i].present = wrappers[i].num
    BY <2>4, <2>5, <2>6, <2>7, WholeCommand DEF Owns
  <2> QED
    BY <2>3, <2>7, <2>8 DEF IsComplete, Holds
<1> QED
  BY <1>1, WrapperInvariant, PTL
=============================================================================
