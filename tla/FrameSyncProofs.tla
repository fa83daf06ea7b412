-------------------------- MODULE FrameSyncProofs --------------------------
(***************************************************************************)
(* Proofs about FrameSync: the players stay in lockstep and the rings of   *)
(* frames hold what they should, for any players, run aheads, ring size,   *)
(* commands and number of frames, on a network that loses, duplicates and  *)
(* reorders.                                                               *)
(***************************************************************************)
EXTENDS FrameSync, FiniteSetTheorems, SequenceTheorems, TLAPS

Slots == 0..(FrameDataLength - 1)

Command ==
  [from : Players, frame : Nat, kind : {"GAMECOMMAND", "RUNAHEAD", "PLAYERLEAVE"},
   arg : Nat, id : Nat]

FrameData == [cmds : SUBSET Command, count : Nat \cup {None}]

(* The last frame q may have commands for, and the last one of which all   *)
(* of q's commands have been scheduled.                                    *)
Horizon(q) == IF status[q] = "INGAME" THEN lastExecution[q] ELSE lastExecution[q] + 1

Closed(q) == IF status[q] = "INGAME" THEN Horizon(q) - 1 ELSE Horizon(q)

(* The frames p may hold data of.                                          *)
Reach(p) ==
  (IF status[p] = "INGAME" THEN frame[p] ELSE Horizon(p)) + 2 * MaxRunAhead + 1

Window(p) == (frame[p] - FramesToKeep)..Reach(p)

IssuedBy(q) == {c \in scheduled : c.from = q}

Bundle(f) == {c \in scheduled : c.frame = f}

-----------------------------------------------------------------------------

Types ==
  /\ frame \in [Players -> Nat]
  /\ runAhead \in [Players -> MinRunAhead..MaxRunAhead]
  /\ lastExecution \in [Players -> Nat]
  /\ lastCompleted \in [Players -> Nat]
  /\ status \in [Players -> {"INGAME", "LEAVING", "LEFT"}]
  /\ frameData \in [Players -> [Players -> [Slots -> FrameData]]]
  /\ quitFrame \in [Players -> [Players -> Nat \cup {None}]]
  /\ scheduled \in SUBSET Command /\ IsFiniteSet(scheduled)
  /\ executed \in [Players -> Seq(SUBSET Command)]
  /\ \A p \in Players : Len(executed[p]) = frame[p] - 1

(* Each player's counters: it schedules ahead of its frame, announces all  *)
(* but the last frame it schedules for, and leaves after its last frame.   *)
CountersInStep ==
  /\ \A p \in Players :
       /\ frame[p] >= 1
       /\ lastExecution[p] > InitialRunAhead
       /\ lastExecution[p] <= frame[p] + MaxRunAhead
       /\ status[p] = "INGAME" => /\ lastExecution[p] >= frame[p] + runAhead[p]
                                  /\ lastCompleted[p] = Closed(p)
       /\ status[p] = "LEAVING" => frame[p] <= Horizon(p)
       /\ status[p] = "LEFT" => frame[p] = Horizon(p) + 1
  /\ status[Router] = "INGAME"

(* Commands lie within the horizon of their player; only the router changes*)
(* the run ahead, and a player leaves on its last frame.                   *)
CommandsInRange ==
  /\ \A c \in scheduled :
       /\ c.frame > InitialRunAhead /\ c.frame <= Horizon(c.from)
       /\ c.kind = "RUNAHEAD" => c.from = Router /\ c.arg \in MinRunAhead..MaxRunAhead
       /\ c.kind = "PLAYERLEAVE" => status[c.from] # "INGAME" /\ c.frame = Horizon(c.from)
  /\ \A q \in Players : status[q] # "INGAME" =>
       \E c \in scheduled : c.from = q /\ c.kind = "PLAYERLEAVE"

(* The commands of a player are numbered, and of several one is the last.  *)
CommandsNumbered ==
  /\ \A c \in scheduled : c.id < Cardinality(IssuedBy(c.from))
  /\ \A c, d \in scheduled : c.from = d.from /\ c.id = d.id => c = d
  /\ \A S \in SUBSET scheduled :
       S # {} => \E c \in S : \A d \in S : d.id <= c.id

(* What is under way is true whenever it arrives: counts are of frames that*)
(* are closed, and nothing is sent to a player far beyond its last frame.  *)
MessageTrue(m) ==
  /\ m.to \in Players /\ m.cmd.from \in Players /\ m.to # m.cmd.from
  /\ IF m.cmd.kind = "FRAMEINFO"
       THEN /\ m.cmd.frame \in 1..Closed(m.cmd.from)
            /\ m.cmd.arg = Cardinality(Issued(m.cmd.from, m.cmd.frame))
       ELSE m.cmd \in scheduled
  /\ status[m.to] = "LEAVING" => m.cmd.frame <= Reach(m.to)

MessagesTrue == \A m \in net : MessageTrue(m)

(* Nobody gets past the horizon of a player before seeing it leave.        *)
NobodyRunsAway ==
  \A p, q \in Players :
    /\ quitFrame[p][q] = None => p = q \/ frame[p] <= Horizon(q)
    /\ quitFrame[p][q] # None =>
         p # q /\ status[q] # "INGAME" /\ frame[p] > Horizon(q)

(* A slot holds commands of its player and of frames in the window, and a  *)
(* count that is right for one of these frames.                            *)
HeldTrue ==
  \A p, q \in Players : \A s \in Slots : \A c \in frameData[p][q][s].cmds :
    c \in scheduled /\ c.from = q /\ Slot(c.frame) = s /\ c.frame \in Window(p)

CountTrue(p, q, s) ==
  \E f \in Window(p) :
    /\ f \in 1..Closed(q) /\ Slot(f) = s
    /\ frameData[p][q][s].count = Cardinality(Issued(q, f))

CountsTrue ==
  \A p, q \in Players : \A s \in Slots :
    p # q /\ frameData[p][q][s].count # None => CountTrue(p, q, s)

(* Of its own commands a player holds all that are not too old.            *)
OwnComplete ==
  \A c \in scheduled :
    c.frame >= frame[c.from] - FramesToKeep => c \in Held(c.from, c.from, c.frame)

(* Of frames it has executed a player holds all commands of everybody.     *)
KeptComplete ==
  \A p, q \in Players : \A f \in Served(p) :
    f \in 1..(frame[p] - 1) => Held(p, q, f) = Issued(q, f)

(* What was executed is what was scheduled, then and ever since.           *)
LogTrue ==
  \A p \in Players : \A f \in 1..(frame[p] - 1) : executed[p][f] = Bundle(f)

(* The run ahead is that of the last change executed.                      *)
Changes(f) == {c \in scheduled : c.kind = "RUNAHEAD" /\ c.frame < f}

NotAfter(d, c) == d.frame < c.frame \/ (d.frame = c.frame /\ d.id <= c.id)

RunAheadFromLog ==
  \A p \in Players :
    \/ Changes(frame[p]) = {} /\ runAhead[p] = InitialRunAhead
    \/ \E c \in Changes(frame[p]) :
         runAhead[p] = c.arg /\ \A d \in Changes(frame[p]) : NotAfter(d, c)

(* The players need not be finitely many, but one is never behind another. *)
SomebodyLeads == \E p \in Players : \A q \in Players : frame[q] <= frame[p]

IInv ==
  /\ Types
  /\ CountersInStep
  /\ CommandsInRange
  /\ CommandsNumbered
  /\ MessagesTrue
  /\ NobodyRunsAway
  /\ HeldTrue
  /\ CountsTrue
  /\ OwnComplete
  /\ KeptComplete
  /\ LogTrue
  /\ RunAheadFromLog
  /\ SomebodyLeads

-----------------------------------------------------------------------------

(* The sizes, as the proofs use them.                                      *)
LEMMA Sizes ==
  /\ Router \in Players
  /\ MinRunAhead \in Nat /\ MinRunAhead >= 1
  /\ InitialRunAhead \in Nat /\ MinRunAhead <= InitialRunAhead
  /\ MaxRunAhead \in Nat /\ InitialRunAhead <= MaxRunAhead
  /\ FramesToKeep \in Nat /\ FramesToKeep >= MaxRunAhead + 1
  /\ FrameDataLength \in Nat
  /\ FrameDataLength >= FramesToKeep + 2 * MaxRunAhead + 2
<1>1. InitialRunAhead \in MinRunAhead..MaxRunAhead /\ MinRunAhead \in Nat \ {0}
  BY SizeAssumption
<1>2. MaxRunAhead \in Nat /\ InitialRunAhead \in Int
  BY <1>1, SizeAssumption
<1> QED BY <1>1, <1>2, SizeAssumption

(* Two frames less than a ring apart have slots of their own.              *)
LEMMA SlotInjective ==
  ASSUME NEW f \in Int, NEW g \in Int, Slot(f) = Slot(g),
         f - g < FrameDataLength, g - f < FrameDataLength
  PROVE  f = g
<1> DEFINE i == f \div FrameDataLength
<1> DEFINE j == g \div FrameDataLength
<1>1. FrameDataLength \in Nat /\ FrameDataLength >= 1
  BY Sizes
<1>2. i \in Int /\ j \in Int
  BY <1>1
<1>3. f = FrameDataLength * i + (f % FrameDataLength)
  BY <1>1
<1>4. g = FrameDataLength * j + (g % FrameDataLength)
  BY <1>1
<1>5. f - g = FrameDataLength * (i - j)
  BY <1>1, <1>2, <1>3, <1>4 DEF Slot
<1> HIDE DEF i, j
<1>6. i - j < 1
  BY <1>1, <1>2, <1>5
<1>7. j - i < 1
  BY <1>1, <1>2, <1>5
<1> QED BY <1>1, <1>2, <1>5, <1>6, <1>7

LEMMA SlotInRing ==
  ASSUME NEW f \in Int
  PROVE  Slot(f) \in Slots
<1>1. FrameDataLength \in Nat /\ FrameDataLength >= 1
  BY Sizes
<1> QED BY <1>1 DEF Slot, Slots

LEMMA SlotOfSmall ==
  ASSUME NEW f \in Slots
  PROVE  Slot(f) = f
<1>1. FrameDataLength \in Nat /\ FrameDataLength >= 1
  BY Sizes
<1> QED BY <1>1 DEF Slot, Slots

(* The greater of two numbers.                                             *)
LEMMA MaxOfTwo ==
  ASSUME NEW i \in Int, NEW j \in Int
  PROVE  Max({i, j}) = IF i <= j THEN j ELSE i
<1>1. \E x \in {i, j} : \A y \in {i, j} : x >= y
  OBVIOUS
<1>2. Max({i, j}) \in {i, j} /\ \A y \in {i, j} : Max({i, j}) >= y
  BY <1>1 DEF Max
<1> QED BY <1>2

(* Where the horizons lie.                                                 *)
LEMMA Horizons ==
  ASSUME Types, CountersInStep, NEW p \in Players
  PROVE  /\ frame[p] \in Nat /\ frame[p] >= 1
         /\ Horizon(p) \in Nat /\ Horizon(p) <= frame[p] + MaxRunAhead + 1
         /\ Closed(p) \in Nat /\ Closed(p) >= InitialRunAhead
         /\ Reach(p) \in Int
         /\ status[p] = "INGAME" =>
              /\ Horizon(p) = lastExecution[p] /\ Closed(p) = Horizon(p) - 1
              /\ frame[p] < Horizon(p) /\ Horizon(p) <= frame[p] + MaxRunAhead
              /\ Reach(p) = frame[p] + 2 * MaxRunAhead + 1
         /\ status[p] # "INGAME" =>
              /\ Horizon(p) = lastExecution[p] + 1 /\ Closed(p) = Horizon(p)
              /\ Reach(p) = Horizon(p) + 2 * MaxRunAhead + 1
         /\ status[p] # "LEFT" => frame[p] <= Horizon(p)
         /\ status[p] = "LEFT" => frame[p] = Horizon(p) + 1
         /\ status[p] \in {"INGAME", "LEAVING", "LEFT"}
<1>1. /\ frame[p] \in Nat /\ lastExecution[p] \in Nat
      /\ runAhead[p] \in MinRunAhead..MaxRunAhead
      /\ status[p] \in {"INGAME", "LEAVING", "LEFT"}
  BY DEF Types
<1> QED BY <1>1, Sizes DEF CountersInStep, Horizon, Closed, Reach

(* A frame that is served shares its slot with no other frame of the       *)
(* window.                                                                 *)
LEMMA ServedAlone ==
  ASSUME Types, CountersInStep, NEW p \in Players,
         NEW f \in Served(p), NEW g \in Window(p), Slot(f) = Slot(g)
  PROVE  f = g
<1>1. f \in Int /\ g \in Int
  BY Horizons, Sizes DEF Served, Window
<1>2. f - g < FrameDataLength /\ g - f < FrameDataLength
  <2>1. CASE status[p] = "INGAME"
    BY <1>1, <2>1, Horizons, Sizes DEF Served, Window
  <2>2. CASE status[p] # "INGAME"
    <3>1. /\ f <= Horizon(p) /\ f >= Horizon(p) - FramesToKeep
          /\ f >= frame[p] - FramesToKeep
          /\ f <= frame[p] + 2 * MaxRunAhead + 1
      <4>1. f - lastExecution[p] \in (1 - FramesToKeep)..1
        BY <2>2 DEF Served
      <4>2. lastExecution[p] \in Nat /\ Horizon(p) = lastExecution[p] + 1
        BY <2>2 DEF Types, Horizon
      <4>3. f \in (frame[p] - FramesToKeep)..(frame[p] + 2 * MaxRunAhead + 1)
        BY DEF Served
      <4> QED BY <1>1, <4>1, <4>2, <4>3, Horizons, Sizes
    <3> QED BY <1>1, <2>2, <3>1, Horizons, Sizes DEF Window
  <2> QED BY <2>1, <2>2
<1> QED BY <1>1, <1>2, SlotInjective

(* So does the frame a player is at.                                       *)
LEMMA CurrentServed ==
  ASSUME Types, CountersInStep, NEW p \in Players, status[p] # "LEFT"
  PROVE  frame[p] \in Served(p) /\ frame[p] \in Window(p)
<1>1. status[p] # "INGAME" => frame[p] - lastExecution[p] \in (1 - FramesToKeep)..1
  <2>1. lastExecution[p] \in Nat /\ lastExecution[p] <= frame[p] + MaxRunAhead
    BY DEF Types, CountersInStep
  <2> QED BY <2>1, Horizons, Sizes
<1> QED BY <1>1, Horizons, Sizes DEF Served, Window

(* What is held of a frame that is served are commands of that frame.      *)
LEMMA HeldIssued ==
  ASSUME Types, CountersInStep, HeldTrue,
         NEW p \in Players, NEW q \in Players, NEW f \in Served(p)
  PROVE  Held(p, q, f) \subseteq Issued(q, f)
<1>1. f \in Int
  BY Horizons, Sizes DEF Served
<1>2. Slot(f) \in Slots
  BY <1>1, SlotInRing
<1>3. ASSUME NEW c \in Held(p, q, f)
      PROVE  c \in Issued(q, f)
  <2>1. /\ c \in scheduled /\ c.from = q
        /\ Slot(c.frame) = Slot(f) /\ c.frame \in Window(p)
    BY <1>2, <1>3 DEF HeldTrue, Held
  <2>2. c.frame = f
    BY <2>1, ServedAlone
  <2> QED BY <2>1, <2>2 DEF Issued
<1> QED BY <1>3

LEMMA IssuedFinite ==
  ASSUME Types, NEW q, NEW f
  PROVE  IsFiniteSet(Issued(q, f)) /\ Cardinality(Issued(q, f)) \in Nat
<1>1. Issued(q, f) \subseteq scheduled
  BY DEF Issued
<1>2. IsFiniteSet(Issued(q, f))
  BY <1>1, FS_Subset DEF Types
<1> QED BY <1>2, FS_CardinalityType

-----------------------------------------------------------------------------
(* The invariant implies what the runs check.                              *)

LEMMA NoAliasingFromInv ==
  ASSUME IInv
  PROVE  NoAliasing
<1> SUFFICES ASSUME NEW p \in Players, NEW q \in Players, NEW f \in Served(p),
                    NEW c \in Held(p, q, f)
             PROVE  c.frame = f
  BY DEF NoAliasing
<1>1. c \in Issued(q, f)
  BY HeldIssued DEF IInv
<1> QED BY <1>1 DEF Issued

(* The count in the slot of a frame that is served is that frame's.        *)
LEMMA CountIssued ==
  ASSUME Types, CountersInStep, CountsTrue,
         NEW p \in Players, NEW q \in Players, p # q, NEW f \in Served(p),
         frameData[p][q][Slot(f)].count # None
  PROVE  /\ f \in 1..Closed(q)
         /\ frameData[p][q][Slot(f)].count = Cardinality(Issued(q, f))
<1>1. f \in Int
  BY Horizons, Sizes DEF Served
<1>2. CountTrue(p, q, Slot(f))
  BY <1>1, SlotInRing DEF CountsTrue
<1>3. PICK g \in Window(p) :
        /\ g \in 1..Closed(q) /\ Slot(g) = Slot(f)
        /\ frameData[p][q][Slot(f)].count = Cardinality(Issued(q, g))
  BY <1>2 DEF CountTrue
<1>4. g = f
  BY <1>3, ServedAlone
<1> QED BY <1>3, <1>4

LEMMA NeverTooManyFromInv ==
  ASSUME IInv
  PROVE  NeverTooManyCommands
<1> SUFFICES ASSUME NEW p \in Players, NEW q \in Players, NEW f \in Served(p),
                    p # q, frameData[p][q][Slot(f)].count # None
             PROVE  Cardinality(Held(p, q, f)) <= frameData[p][q][Slot(f)].count
  BY DEF NeverTooManyCommands
<1>1. frameData[p][q][Slot(f)].count = Cardinality(Issued(q, f))
  BY CountIssued DEF IInv
<1>2. Held(p, q, f) \subseteq Issued(q, f)
  BY HeldIssued DEF IInv
<1>3. IsFiniteSet(Issued(q, f))
  BY IssuedFinite DEF IInv
<1> QED BY <1>1, <1>2, <1>3, FS_Subset

LEMMA BoundedDriftFromInv ==
  ASSUME IInv
  PROVE  BoundedDrift
<1> SUFFICES ASSUME NEW p \in Players, NEW q \in Connected(p)
             PROVE  frame[p] <= frame[q] + (IF status[q] = "INGAME"
                                              THEN MaxRunAhead ELSE MaxRunAhead + 1)
  BY DEF BoundedDrift
<1>1. q \in Players /\ p # q /\ quitFrame[p][q] = None
  BY DEF Connected
<1>2. frame[p] <= Horizon(q)
  BY <1>1 DEF IInv, NobodyRunsAway
<1> QED BY <1>1, <1>2, Horizons, Sizes DEF IInv

LEMMA LaggardServableFromInv ==
  ASSUME IInv
  PROVE  LaggardServable
<1> SUFFICES ASSUME NEW p \in Players, NEW q \in Connected(p),
                    NEW f \in Served(p), f \in frame[q]..(frame[p] - 1),
                    NEW r \in Players
             PROVE  Held(p, r, f) = Issued(r, f)
  BY DEF LaggardServable
<1>1. q \in Players
  BY DEF Connected
<1>2. f \in 1..(frame[p] - 1)
  BY <1>1, Horizons DEF IInv
<1> QED BY <1>2 DEF IInv, KeptComplete

LEMMA SameRunAheadFromInv ==
  ASSUME IInv
  PROVE  SameRunAhead
<1> SUFFICES ASSUME NEW p \in Players, NEW q \in Players, frame[p] = frame[q]
             PROVE  runAhead[p] = runAhead[q]
  BY DEF SameRunAhead
<1> DEFINE C == Changes(frame[p])
<1>1. \/ C = {} /\ runAhead[p] = InitialRunAhead
      \/ \E c \in C : runAhead[p] = c.arg /\ \A d \in C : NotAfter(d, c)
  BY DEF IInv, RunAheadFromLog
<1>2. \/ C = {} /\ runAhead[q] = InitialRunAhead
      \/ \E c \in C : runAhead[q] = c.arg /\ \A d \in C : NotAfter(d, c)
  BY DEF IInv, RunAheadFromLog
<1>3. CASE C = {}
  BY <1>1, <1>2, <1>3
<1>4. ASSUME NEW c \in C, NEW d \in C, NotAfter(d, c), NotAfter(c, d)
      PROVE  c = d
  <2>1. /\ c \in Command /\ d \in Command
        /\ c \in scheduled /\ d \in scheduled
        /\ c.from = Router /\ d.from = Router
    BY DEF IInv, Types, CommandsInRange, Changes
  <2>2. c.frame \in Nat /\ d.frame \in Nat /\ c.id \in Nat /\ d.id \in Nat
    BY <2>1 DEF Command
  <2>3. c.id = d.id
    BY <1>4, <2>2 DEF NotAfter
  <2> QED BY <2>1, <2>3 DEF IInv, CommandsNumbered
<1>5. CASE C # {}
  <2>1. PICK c \in C : runAhead[p] = c.arg /\ \A d \in C : NotAfter(d, c)
    BY <1>1, <1>5
  <2>2. PICK e \in C : runAhead[q] = e.arg /\ \A d \in C : NotAfter(d, e)
    BY <1>2, <1>5
  <2>3. c = e
    BY <1>4, <2>1, <2>2
  <2> QED BY <2>1, <2>2, <2>3
<1> QED BY <1>3, <1>5

LEMMA TypeOKFromInv ==
  ASSUME IInv
  PROVE  TypeOK
<1>1. ASSUME NEW p \in Players, NEW q \in Players,
             NEW s \in 0..(FrameDataLength - 1)
      PROVE  /\ frameData[p][q][s].cmds \subseteq scheduled
             /\ frameData[p][q][s].count \in Nat \cup {None}
  <2>1. s \in Slots
    BY DEF Slots
  <2>2. frameData[p][q][s] \in FrameData
    BY <2>1 DEF IInv, Types
  <2>3. frameData[p][q][s].cmds \subseteq scheduled
    BY <2>1 DEF IInv, HeldTrue
  <2> QED BY <2>2, <2>3 DEF FrameData
<1> QED BY <1>1 DEF IInv, Types, TypeOK

-----------------------------------------------------------------------------
(* The initial states satisfy the invariant.                               *)

LEMMA InitTypes ==
  ASSUME Init
  PROVE  Types
<1>1. frameData \in [Players -> [Players -> [Slots -> FrameData]]]
  BY DEF Init, Slots, FrameData, ZeroFrame, EmptyFrame, None
<1>2. executed \in [Players -> Seq(SUBSET Command)]
      /\ \A p \in Players : Len(executed[p]) = frame[p] - 1
  BY DEF Init
<1>3. scheduled \in SUBSET Command /\ IsFiniteSet(scheduled)
  BY FS_EmptySet DEF Init
<1>4. quitFrame \in [Players -> [Players -> Nat \cup {None}]]
  BY DEF Init
<1>5. runAhead \in [Players -> MinRunAhead..MaxRunAhead]
  BY Sizes DEF Init
<1>6. /\ frame \in [Players -> Nat]
      /\ lastExecution \in [Players -> Nat]
      /\ lastCompleted \in [Players -> Nat]
      /\ status \in [Players -> {"INGAME", "LEAVING", "LEFT"}]
  BY Sizes DEF Init
<1> QED BY <1>1, <1>2, <1>3, <1>4, <1>5, <1>6 DEF Types

LEMMA InitInv ==
  ASSUME Init
  PROVE  IInv
<1>1. Types
  BY InitTypes
<1>2. \A p \in Players : /\ frame[p] = 1 /\ runAhead[p] = InitialRunAhead
                         /\ lastExecution[p] = 1 + InitialRunAhead
                         /\ lastCompleted[p] = InitialRunAhead
                         /\ status[p] = "INGAME"
                         /\ \A q \in Players : quitFrame[p][q] = None
  BY DEF Init
<1>3. scheduled = {}
  BY DEF Init
<1>4. CountersInStep
  BY <1>2, Sizes DEF CountersInStep, Closed, Horizon
<1>5. \A p \in Players : /\ Horizon(p) = 1 + InitialRunAhead
                         /\ Closed(p) = InitialRunAhead
                         /\ Reach(p) = 1 + 2 * MaxRunAhead + 1
  BY <1>2, Sizes DEF Closed, Horizon, Reach
<1>6. \A q, f : Issued(q, f) = {} /\ Cardinality(Issued(q, f)) = 0
  BY <1>3, FS_EmptySet DEF Issued
<1>7. CommandsInRange /\ CommandsNumbered /\ OwnComplete
  <2>1. CommandsInRange
    BY <1>2, <1>3 DEF CommandsInRange
  <2>2. CommandsNumbered
    BY <1>3 DEF CommandsNumbered
  <2>3. OwnComplete
    BY <1>3 DEF OwnComplete
  <2> QED BY <2>1, <2>2, <2>3
<1>8. MessagesTrue
  <2> SUFFICES ASSUME NEW m \in net
               PROVE  MessageTrue(m)
    BY DEF MessagesTrue
  <2>1. PICK p \in Players : m \in Send(p, {FrameInfo(p, InitialRunAhead, 0)})
    BY DEF Init
  <2>2. m.to \in Players /\ m.to # p /\ m.cmd = FrameInfo(p, InitialRunAhead, 0)
    BY <2>1, Sizes DEF Send, Connected
  <2>3. /\ m.cmd.from = p /\ m.cmd.kind = "FRAMEINFO"
        /\ m.cmd.frame = InitialRunAhead /\ m.cmd.arg = 0
    BY <2>2 DEF FrameInfo
  <2>4. InitialRunAhead \in 1..Closed(p)
    BY <1>5, Sizes
  <2> QED BY <1>2, <1>6, <2>2, <2>3, <2>4 DEF MessageTrue
<1>9. NobodyRunsAway
  BY <1>2, <1>5, Sizes DEF NobodyRunsAway
<1>10. \A p, q \in Players : \A s \in Slots :
         frameData[p][q][s] = IF s \in 1..(InitialRunAhead - 1) THEN ZeroFrame
                                                               ELSE EmptyFrame
  BY DEF Init, Slots
<1>11. \A p, q \in Players : \A s \in Slots : frameData[p][q][s].cmds = {}
  BY <1>10 DEF ZeroFrame, EmptyFrame
<1>12. HeldTrue
  BY <1>11 DEF HeldTrue
<1>13. CountsTrue
  <2> SUFFICES ASSUME NEW p \in Players, NEW q \in Players, NEW s \in Slots,
                      frameData[p][q][s].count # None
               PROVE  CountTrue(p, q, s)
    BY DEF CountsTrue
  <2>1. s \in 1..(InitialRunAhead - 1) /\ frameData[p][q][s].count = 0
    BY <1>10 DEF ZeroFrame, EmptyFrame
  <2>2. Slot(s) = s
    BY SlotOfSmall
  <2>3. s \in Window(p) /\ s \in 1..Closed(q)
    BY <1>2, <1>5, <2>1, Sizes DEF Window
  <2> QED BY <1>6, <2>1, <2>2, <2>3 DEF CountTrue
<1>14. \A p \in Players : 1..(frame[p] - 1) = {}
  BY <1>2
<1>15. KeptComplete
  BY <1>14 DEF KeptComplete
<1>16. LogTrue
  BY <1>14 DEF LogTrue
<1>17. RunAheadFromLog
  BY <1>2, <1>3 DEF RunAheadFromLog, Changes
<1>18. SomebodyLeads
  BY <1>2, Sizes DEF SomebodyLeads
<1> QED BY <1>1, <1>4, <1>7, <1>8, <1>9, <1>12, <1>13, <1>15, <1>16, <1>17,
           <1>18 DEF IInv

-----------------------------------------------------------------------------
(* Scheduling a command, by whichever action.                              *)

ScheduleStep(p, cmd, others) ==
  /\ cmd \in Command /\ cmd.from = p /\ cmd.id = Cardinality(IssuedBy(p))
  /\ status[p] = "INGAME"
  /\ scheduled' = scheduled \cup {cmd}
  /\ frameData' = [frameData EXCEPT ![p][p][Slot(cmd.frame)] = AddCommand(@, cmd)]
  /\ net' = net \cup Send(p, {cmd} \cup others)
  /\ UNCHANGED <<frame, runAhead, lastExecution, quitFrame, executed>>
  /\ \/ /\ cmd.frame = Horizon(p)
        /\ cmd.kind # "PLAYERLEAVE"
        /\ cmd.kind = "RUNAHEAD" => p = Router /\ cmd.arg \in MinRunAhead..MaxRunAhead
        /\ others = {}
        /\ UNCHANGED <<status, lastCompleted>>
     \/ /\ cmd.frame = Horizon(p) + 1
        /\ cmd.kind = "PLAYERLEAVE"
        /\ others = {FrameInfo(p, Horizon(p), LocalCount(p, Horizon(p))),
                     FrameInfo(p, Horizon(p) + 1, LocalCount(p, Horizon(p) + 1) + 1)}
        /\ p # Router
        /\ status' = [status EXCEPT ![p] = "LEAVING"]
        /\ lastCompleted' = [lastCompleted EXCEPT ![p] = Horizon(p)]

LEMMA IssuedByFinite ==
  ASSUME Types, NEW q
  PROVE  IsFiniteSet(IssuedBy(q)) /\ Cardinality(IssuedBy(q)) \in Nat
<1>1. IssuedBy(q) \subseteq scheduled
  BY DEF IssuedBy
<1>2. IsFiniteSet(IssuedBy(q))
  BY <1>1, FS_Subset DEF Types
<1> QED BY <1>2, FS_CardinalityType

LEMMA CmdIsCommand ==
  ASSUME Types, NEW p \in Players, NEW f \in Nat, NEW arg \in Nat,
         NEW kind \in {"GAMECOMMAND", "RUNAHEAD", "PLAYERLEAVE"}
  PROVE  LET cmd == Cmd(p, f, kind, arg)
         IN /\ cmd \in Command /\ cmd.from = p /\ cmd.frame = f
            /\ cmd.kind = kind /\ cmd.arg = arg
            /\ cmd.id = Cardinality(IssuedBy(p))
BY IssuedByFinite DEF Cmd, Command, IssuedBy

(* A player still in the game schedules for its horizon.                   *)
LEMMA ExecutionFrameIsHorizon ==
  ASSUME Types, CountersInStep, NEW p \in Players, status[p] = "INGAME"
  PROVE  /\ ExecutionFrame(p) = Horizon(p)
         /\ [lastExecution EXCEPT ![p] = ExecutionFrame(p)] = lastExecution
<1>1. /\ lastExecution[p] \in Nat /\ frame[p] \in Nat
      /\ runAhead[p] \in MinRunAhead..MaxRunAhead
      /\ lastExecution[p] >= frame[p] + runAhead[p]
  BY DEF Types, CountersInStep
<1>2. frame[p] + runAhead[p] \in Int
  BY <1>1, Sizes
<1>3. ExecutionFrame(p) = lastExecution[p]
  BY <1>1, <1>2, MaxOfTwo DEF ExecutionFrame
<1>4. [lastExecution EXCEPT ![p] = lastExecution[p]] = lastExecution
  BY DEF Types
<1> QED BY <1>3, <1>4 DEF Horizon

LEMMA SchedulingIsScheduleStep ==
  ASSUME Types, CountersInStep, NEW p \in Players,
         IssueCommand(p) \/ ChangeRunAhead(p) \/ Leave(p)
  PROVE  \E cmd, others : ScheduleStep(p, cmd, others)
<1>1. status[p] = "INGAME"
  BY DEF IssueCommand, ChangeRunAhead, Leave
<1>2. /\ ExecutionFrame(p) = Horizon(p)
      /\ [lastExecution EXCEPT ![p] = ExecutionFrame(p)] = lastExecution
  BY <1>1, ExecutionFrameIsHorizon
<1>3. Horizon(p) \in Nat /\ Horizon(p) + 1 \in Nat
  BY Horizons
<1>4. CASE IssueCommand(p)
  <2> DEFINE cmd == Cmd(p, ExecutionFrame(p), "GAMECOMMAND", 0)
  <2>1. /\ cmd \in Command /\ cmd.from = p /\ cmd.frame = Horizon(p)
        /\ cmd.kind = "GAMECOMMAND" /\ cmd.id = Cardinality(IssuedBy(p))
    BY <1>2, <1>3, CmdIsCommand
  <2>2. Schedule(p, cmd, {})
        /\ UNCHANGED <<frame, runAhead, lastCompleted, status, quitFrame, executed>>
    BY <1>4 DEF IssueCommand
  <2> HIDE DEF cmd
  <2>3. ScheduleStep(p, cmd, {})
    BY <1>1, <1>2, <2>1, <2>2 DEF ScheduleStep, Schedule
  <2> QED BY <2>3
<1>5. CASE ChangeRunAhead(p)
  <2>1. PICK r \in NewRunAheads :
          Schedule(p, Cmd(p, ExecutionFrame(p), "RUNAHEAD", r), {})
    BY <1>5 DEF ChangeRunAhead
  <2> DEFINE cmd == Cmd(p, ExecutionFrame(p), "RUNAHEAD", r)
  <2>2. r \in Nat /\ r \in MinRunAhead..MaxRunAhead
    BY Sizes DEF NewRunAheads
  <2>3. /\ cmd \in Command /\ cmd.from = p /\ cmd.frame = Horizon(p)
        /\ cmd.kind = "RUNAHEAD" /\ cmd.arg = r
        /\ cmd.id = Cardinality(IssuedBy(p))
    BY <1>2, <1>3, <2>2, CmdIsCommand
  <2>4. /\ Schedule(p, cmd, {}) /\ p = Router
        /\ UNCHANGED <<frame, runAhead, lastCompleted, status, quitFrame, executed>>
    BY <1>5, <2>1 DEF ChangeRunAhead
  <2> HIDE DEF cmd
  <2>5. ScheduleStep(p, cmd, {})
    BY <1>1, <1>2, <2>2, <2>3, <2>4 DEF ScheduleStep, Schedule
  <2> QED BY <2>5
<1>6. CASE Leave(p)
  <2> DEFINE cmd == Cmd(p, ExecutionFrame(p) + 1, "PLAYERLEAVE", 0)
  <2> DEFINE others == {FrameInfo(p, ExecutionFrame(p), LocalCount(p, ExecutionFrame(p))),
                        FrameInfo(p, ExecutionFrame(p) + 1,
                                  LocalCount(p, ExecutionFrame(p) + 1) + 1)}
  <2>1. /\ cmd \in Command /\ cmd.from = p /\ cmd.frame = Horizon(p) + 1
        /\ cmd.kind = "PLAYERLEAVE" /\ cmd.id = Cardinality(IssuedBy(p))
    BY <1>2, <1>3, CmdIsCommand
  <2>2. others = {FrameInfo(p, Horizon(p), LocalCount(p, Horizon(p))),
                  FrameInfo(p, Horizon(p) + 1, LocalCount(p, Horizon(p) + 1) + 1)}
    BY <1>2
  <2>3. /\ Schedule(p, cmd, others)
        /\ lastCompleted' = [lastCompleted EXCEPT ![p] = ExecutionFrame(p)]
        /\ status' = [status EXCEPT ![p] = "LEAVING"]
        /\ UNCHANGED <<frame, runAhead, quitFrame, executed>>
        /\ p # Router
    BY <1>6, SizeAssumption DEF Leave
  <2> HIDE DEF cmd, others
  <2>4. ScheduleStep(p, cmd, others)
    BY <1>1, <1>2, <2>1, <2>2, <2>3 DEF ScheduleStep, Schedule
  <2> QED BY <2>4
<1> QED BY <1>4, <1>5, <1>6

(* Of its own commands a player holds exactly those of frames it serves.   *)
LEMMA OwnHeld ==
  ASSUME Types, CountersInStep, HeldTrue, OwnComplete,
         NEW p \in Players, NEW f \in Served(p)
  PROVE  Held(p, p, f) = Issued(p, f) /\ LocalCount(p, f) = Cardinality(Issued(p, f))
<1>1. Held(p, p, f) \subseteq Issued(p, f)
  BY HeldIssued
<1>2. ASSUME NEW c \in Issued(p, f)
      PROVE  c \in Held(p, p, f)
  <2>1. c \in scheduled /\ c.from = p /\ c.frame = f
    BY DEF Issued
  <2>2. f >= frame[p] - FramesToKeep
    BY DEF Served
  <2> QED BY <2>1, <2>2 DEF OwnComplete
<1> QED BY <1>1, <1>2 DEF Held, LocalCount

LEMMA ScheduleHorizons ==
  ASSUME IInv, NEW p \in Players, NEW cmd, NEW others, ScheduleStep(p, cmd, others)
  PROVE  /\ \A q \in Players :
              /\ Horizon(q)' >= Horizon(q) /\ Horizon(q)' \in Nat
              /\ Closed(q)' >= Closed(q) /\ Closed(q)' \in Nat
              /\ Reach(q)' >= Reach(q) /\ Reach(q)' \in Int
              /\ q # p => status'[q] = status[q]
              /\ status[q] # "INGAME" => status'[q] = status[q] /\ Horizon(q)' = Horizon(q)
              /\ status'[q] = "INGAME" => status[q] = "INGAME" /\ Horizon(q)' = Horizon(q)
              /\ frame[q] <= cmd.frame
         /\ cmd.frame \in Nat /\ cmd.frame > Closed(p)
         /\ cmd.frame = Horizon(p)' /\ cmd.frame \in Window(p)
         /\ cmd.frame > InitialRunAhead
         /\ status'[p] = "INGAME" => Closed(p)' = Closed(p)
         /\ status'[p] # "INGAME" => Closed(p)' = cmd.frame
<1>0. Types /\ CountersInStep
  BY DEF IInv
<1>1. /\ status[p] = "INGAME" /\ frame' = frame /\ lastExecution' = lastExecution
      /\ \/ cmd.frame = Horizon(p) /\ status' = status
         \/ cmd.frame = Horizon(p) + 1 /\ status' = [status EXCEPT ![p] = "LEAVING"]
  BY DEF ScheduleStep
<1>2. /\ \A q \in Players : q # p => status'[q] = status[q]
      /\ \/ cmd.frame = Horizon(p) /\ status'[p] = "INGAME"
         \/ cmd.frame = Horizon(p) + 1 /\ status'[p] = "LEAVING"
  BY <1>0, <1>1 DEF Types
<1>3. /\ \A q \in Players : q # p => /\ Horizon(q)' = Horizon(q)
                                     /\ Closed(q)' = Closed(q) /\ Reach(q)' = Reach(q)
      /\ status'[p] = "INGAME" => /\ Horizon(p)' = Horizon(p)
                                  /\ Closed(p)' = Closed(p) /\ Reach(p)' = Reach(p)
  BY <1>1, <1>2 DEF Horizon, Closed, Reach
<1>4. status'[p] = "LEAVING" => /\ Horizon(p)' = Horizon(p) + 1
                                /\ Closed(p)' = Horizon(p) + 1
                                /\ Reach(p)' = Horizon(p) + 1 + 2 * MaxRunAhead + 1
  BY <1>1 DEF Horizon, Closed, Reach
<1>5. \A q \in Players : frame[q] <= Horizon(p)
  <2> SUFFICES ASSUME NEW q \in Players
               PROVE  frame[q] <= Horizon(p)
    OBVIOUS
  <2>1. CASE q = p
    BY <1>0, <1>1, <2>1, Horizons
  <2>2. CASE q # p
    <3>1. quitFrame[q][p] = None
      BY <1>1 DEF IInv, NobodyRunsAway
    <3> QED BY <2>2, <3>1 DEF IInv, NobodyRunsAway
  <2> QED BY <2>1, <2>2
<1>6. /\ Horizon(p) \in Nat /\ frame[p] \in Nat /\ frame[p] < Horizon(p)
      /\ Horizon(p) <= frame[p] + MaxRunAhead
      /\ Closed(p) = Horizon(p) - 1 /\ Closed(p) \in Nat /\ Closed(p) >= InitialRunAhead
      /\ Reach(p) = frame[p] + 2 * MaxRunAhead + 1
  BY <1>0, <1>1, Horizons
<1>7. \A q \in Players : Horizon(q) \in Nat /\ Closed(q) \in Nat /\ Reach(q) \in Int
                         /\ frame[q] \in Nat
  BY <1>0, Horizons
<1>8. \A q \in Players :
              /\ Horizon(q)' >= Horizon(q) /\ Horizon(q)' \in Nat
              /\ Closed(q)' >= Closed(q) /\ Closed(q)' \in Nat
              /\ Reach(q)' >= Reach(q) /\ Reach(q)' \in Int
  BY <1>2, <1>3, <1>4, <1>6, <1>7, Sizes
<1>9. \A q \in Players :
              /\ status[q] # "INGAME" => status'[q] = status[q] /\ Horizon(q)' = Horizon(q)
              /\ status'[q] = "INGAME" => status[q] = "INGAME" /\ Horizon(q)' = Horizon(q)
  BY <1>1, <1>2, <1>3
<1>10. \A q \in Players : frame[q] <= cmd.frame
  BY <1>2, <1>5, <1>6, <1>7
<1>11. /\ cmd.frame \in Nat /\ cmd.frame > Closed(p)
       /\ cmd.frame = Horizon(p)' /\ cmd.frame > InitialRunAhead
  BY <1>2, <1>3, <1>4, <1>6, Sizes
<1>12. cmd.frame \in Window(p)
  BY <1>2, <1>6, Sizes DEF Window
<1> QED BY <1>2, <1>3, <1>4, <1>8, <1>9, <1>10, <1>11, <1>12

LEMMA ScheduleCommands ==
  ASSUME IInv, NEW p \in Players, NEW cmd, NEW others, ScheduleStep(p, cmd, others)
  PROVE  /\ cmd \notin scheduled
         /\ \A q \in Players : \A f :
              q # p \/ f # cmd.frame => Issued(q, f)' = Issued(q, f)
         /\ \A q \in Players : \A f \in 1..Closed(q) : Issued(q, f)' = Issued(q, f)
         /\ \A q \in Players : q # p => IssuedBy(q)' = IssuedBy(q)
         /\ Cardinality(IssuedBy(p)') = Cardinality(IssuedBy(p)) + 1
<1>1. /\ cmd.from = p /\ cmd.id = Cardinality(IssuedBy(p)) /\ cmd \in Command
      /\ scheduled' = scheduled \cup {cmd}
  BY DEF ScheduleStep
<1>2. cmd \notin scheduled
  <2>1. cmd.id \in Nat
    BY <1>1 DEF Command
  <2>2. cmd \in scheduled => cmd.id < cmd.id
    BY <1>1 DEF IInv, CommandsNumbered
  <2> QED BY <2>1, <2>2
<1>3. \A q \in Players : \A f :
        q # p \/ f # cmd.frame => Issued(q, f)' = Issued(q, f)
  BY <1>1 DEF Issued
<1>4. \A q \in Players : \A f \in 1..Closed(q) : Issued(q, f)' = Issued(q, f)
  <2>1. cmd.frame \in Nat /\ cmd.frame > Closed(p) /\ Closed(p) \in Nat
    BY ScheduleHorizons, Horizons DEF IInv
  <2>2. cmd.frame \notin 1..Closed(p)
    BY <2>1
  <2> QED BY <1>3, <2>2
<1>5. \A q \in Players : q # p => IssuedBy(q)' = IssuedBy(q)
  BY <1>1 DEF IssuedBy
<1>6. IssuedBy(p)' = IssuedBy(p) \cup {cmd}
  BY <1>1 DEF IssuedBy
<1>7. cmd \notin IssuedBy(p)
  BY <1>2 DEF IssuedBy
<1>8. IsFiniteSet(IssuedBy(p))
  BY IssuedByFinite DEF IInv
<1>9. Cardinality(IssuedBy(p) \cup {cmd}) = Cardinality(IssuedBy(p)) + 1
  BY <1>7, <1>8, FS_AddElement
<1> QED BY <1>2, <1>3, <1>4, <1>5, <1>6, <1>9

(* The command joins one slot of the player's own data.                    *)
LEMMA ScheduleData ==
  ASSUME IInv, NEW p \in Players, NEW cmd, NEW others, ScheduleStep(p, cmd, others)
  PROVE  /\ frameData' \in [Players -> [Players -> [Slots -> FrameData]]]
         /\ \A q, r \in Players : \A s \in Slots :
              /\ q # p \/ r # p \/ s # Slot(cmd.frame) =>
                   frameData'[q][r][s] = frameData[q][r][s]
              /\ frameData'[q][r][s].count = frameData[q][r][s].count
         /\ frameData'[p][p][Slot(cmd.frame)].cmds =
              frameData[p][p][Slot(cmd.frame)].cmds \cup {cmd}
<1> DEFINE t == Slot(cmd.frame)
<1>1. frameData \in [Players -> [Players -> [Slots -> FrameData]]]
  BY DEF IInv, Types
<1>2. t \in Slots /\ cmd \in Command
  <2>1. cmd.frame \in Int
    BY ScheduleHorizons
  <2> QED BY <2>1, SlotInRing DEF ScheduleStep
<1>3. frameData' = [frameData EXCEPT ![p][p][t] = AddCommand(@, cmd)]
  BY DEF ScheduleStep
<1> HIDE DEF t
<1>4. frameData[p][p][t] \in FrameData
  BY <1>1, <1>2
<1>5. /\ AddCommand(frameData[p][p][t], cmd) \in FrameData
      /\ AddCommand(frameData[p][p][t], cmd).cmds = frameData[p][p][t].cmds \cup {cmd}
      /\ AddCommand(frameData[p][p][t], cmd).count = frameData[p][p][t].count
  BY <1>2, <1>4 DEF AddCommand, FrameData
<1>6. frameData'[p][p][t] = AddCommand(frameData[p][p][t], cmd)
  BY <1>1, <1>2, <1>3
<1>7. \A q, r \in Players : \A s \in Slots :
        q # p \/ r # p \/ s # t => frameData'[q][r][s] = frameData[q][r][s]
  BY <1>1, <1>2, <1>3
<1>8. frameData' \in [Players -> [Players -> [Slots -> FrameData]]]
  BY <1>1, <1>2, <1>3, <1>5
<1> QED BY <1>5, <1>6, <1>7, <1>8 DEF t

(* The counts a leaving player announces are those of its last two frames. *)
LEMMA LeaveCounts ==
  ASSUME IInv, NEW p \in Players, NEW cmd, NEW others, ScheduleStep(p, cmd, others),
         NEW i \in others
  PROVE  /\ i.kind = "FRAMEINFO" /\ i.from = p /\ i.frame \in 1..Closed(p)'
         /\ i.frame <= cmd.frame /\ p # Router
         /\ i.arg = Cardinality(Issued(p, i.frame)')
<1>0. Types /\ CountersInStep /\ HeldTrue /\ OwnComplete
  BY DEF IInv
<1> PICK h \in Nat : h = Horizon(p)
  BY <1>0, Horizons
<1>1. /\ status[p] = "INGAME" /\ p # Router /\ cmd.frame = h + 1
      /\ status' = [status EXCEPT ![p] = "LEAVING"]
      /\ i \in {FrameInfo(p, h, LocalCount(p, h)),
                FrameInfo(p, h + 1, LocalCount(p, h + 1) + 1)}
      /\ scheduled' = scheduled \cup {cmd} /\ cmd.from = p
  BY DEF ScheduleStep
<1>2. /\ h \in Nat /\ h >= 1 /\ h > frame[p] /\ frame[p] \in Nat
      /\ h <= frame[p] + MaxRunAhead
  BY <1>0, <1>1, Horizons
<1>3. Closed(p)' = cmd.frame
  <2>1. status'[p] = "LEAVING"
    BY <1>0, <1>1 DEF Types
  <2> QED BY <2>1, ScheduleHorizons
<1>4. h \in Served(p) /\ h + 1 \in Served(p)
  BY <1>1, <1>2, Sizes DEF Served
<1>5. LocalCount(p, h) = Cardinality(Issued(p, h))
      /\ LocalCount(p, h + 1) = Cardinality(Issued(p, h + 1))
  BY <1>0, <1>4, OwnHeld
<1>6. Issued(p, h + 1) = {} /\ Issued(p, h + 1)' = {cmd}
  <2>1. Issued(p, h + 1) = {}
    <3>1. ASSUME NEW c \in Issued(p, h + 1) PROVE FALSE
      <4>1. c.frame <= h /\ c.frame = h + 1
        BY DEF IInv, CommandsInRange, Issued
      <4> QED BY <1>2, <4>1
    <3> QED BY <3>1
  <2>2. Issued(p, h + 1)' = Issued(p, h + 1) \cup {cmd}
    BY <1>1 DEF Issued
  <2> QED BY <2>1, <2>2
<1>7. Cardinality(Issued(p, h + 1)) = 0 /\ Cardinality(Issued(p, h + 1)') = 1
  BY <1>6, FS_EmptySet, FS_Singleton
<1>8. Issued(p, h)' = Issued(p, h)
  <2>1. h # cmd.frame
    BY <1>1, <1>2
  <2> QED BY <2>1, ScheduleCommands
<1>9. CASE i = FrameInfo(p, h, LocalCount(p, h))
  <2>1. i.kind = "FRAMEINFO" /\ i.from = p /\ i.frame = h /\ i.arg = LocalCount(p, h)
    BY <1>9 DEF FrameInfo
  <2>2. i.arg = Cardinality(Issued(p, i.frame)')
    BY <1>5, <1>8, <2>1
  <2> QED BY <1>1, <1>2, <1>3, <2>1, <2>2
<1>10. CASE i = FrameInfo(p, h + 1, LocalCount(p, h + 1) + 1)
  <2>1. /\ i.kind = "FRAMEINFO" /\ i.from = p /\ i.frame = h + 1
        /\ i.arg = LocalCount(p, h + 1) + 1
    BY <1>10 DEF FrameInfo
  <2>2. i.arg = Cardinality(Issued(p, i.frame)')
    BY <1>5, <1>7, <2>1
  <2> QED BY <1>1, <1>2, <1>3, <2>1, <2>2
<1> QED BY <1>1, <1>9, <1>10

(* Whoever the messages of a step are sent to can use them.                *)
LEMMA SentToOthers ==
  ASSUME Types, NEW p \in Players, NEW cmds, NEW m \in Send(p, cmds)
  PROVE  /\ m.to \in Players /\ m.to # p /\ m.cmd \in cmds
         /\ m.to = Router \/ (p = Router /\ m.to \in Connected(p))
BY Sizes DEF Send, Connected

(* All of the game lies within reach of a player the router is connected   *)
(* to.                                                                     *)
LEMMA ReachOfConnected ==
  ASSUME Types, CountersInStep, NobodyRunsAway,
         NEW p \in Players, NEW q \in Players, status[p] # "LEFT",
         p = Router \/ quitFrame[Router][p] = None
  PROVE  Horizon(q) <= Reach(p)
<1>1. Router \in Players /\ status[Router] = "INGAME"
  BY Sizes DEF CountersInStep
<1>2. frame[q] <= Horizon(Router)
  <2>1. q # Router => quitFrame[q][Router] = None
    BY <1>1 DEF NobodyRunsAway
  <2>2. q = Router \/ frame[q] <= Horizon(Router)
    BY <1>1, <2>1 DEF NobodyRunsAway
  <2> QED BY <1>1, <2>2, Horizons
<1>3. Horizon(Router) <= frame[Router] + MaxRunAhead
  BY <1>1, Horizons
<1>4. Horizon(q) <= frame[q] + MaxRunAhead + 1
  BY Horizons
<1>5. CASE status[p] = "INGAME"
  <2>1. frame[q] <= Horizon(p)
    <3>1. q # p => quitFrame[q][p] = None
      BY <1>5 DEF NobodyRunsAway
    <3>2. q = p \/ frame[q] <= Horizon(p)
      BY <3>1 DEF NobodyRunsAway
    <3> QED BY <1>5, <3>2, Horizons
  <2>2. Horizon(p) <= frame[p] + MaxRunAhead /\ Reach(p) = frame[p] + 2 * MaxRunAhead + 1
    BY <1>5, Horizons
  <2> QED BY <1>4, <2>1, <2>2, Horizons, Sizes
<1>6. CASE status[p] # "INGAME"
  <2>1. frame[Router] <= Horizon(p)
    BY <1>1, <1>6 DEF NobodyRunsAway
  <2>2. Reach(p) = Horizon(p) + 2 * MaxRunAhead + 1
    BY <1>6, Horizons
  <2>3. /\ frame[Router] \in Int /\ Horizon(p) \in Int /\ frame[q] \in Int
        /\ Horizon(Router) \in Int /\ Horizon(q) \in Int /\ MaxRunAhead \in Nat
    BY <1>1, Horizons, Sizes
  <2> QED BY <1>2, <1>3, <1>4, <2>1, <2>2, <2>3
<1> QED BY <1>5, <1>6

LEMMA ScheduleKeepsCounters ==
  ASSUME IInv, NEW p \in Players, NEW cmd, NEW others, ScheduleStep(p, cmd, others)
  PROVE  Types' /\ CountersInStep'
<1>1. Types'
  <2>1. /\ UNCHANGED <<frame, runAhead, lastExecution, quitFrame, executed>>
        /\ cmd \in Command /\ scheduled' = scheduled \cup {cmd}
    BY DEF ScheduleStep
  <2>2. /\ status' \in [Players -> {"INGAME", "LEAVING", "LEFT"}]
        /\ lastCompleted' \in [Players -> Nat]
    <3>1. Horizon(p) \in Nat
      BY Horizons DEF IInv
    <3>2. /\ status \in [Players -> {"INGAME", "LEAVING", "LEFT"}]
          /\ lastCompleted \in [Players -> Nat]
      BY DEF IInv, Types
    <3>3. \/ UNCHANGED <<status, lastCompleted>>
          \/ /\ status' = [status EXCEPT ![p] = "LEAVING"]
             /\ lastCompleted' = [lastCompleted EXCEPT ![p] = Horizon(p)]
      BY DEF ScheduleStep
    <3> QED BY <3>1, <3>2, <3>3
  <2>3. scheduled' \in SUBSET Command /\ IsFiniteSet(scheduled')
    BY <2>1, FS_AddElement DEF IInv, Types
  <2>4. frameData' \in [Players -> [Players -> [Slots -> FrameData]]]
    BY ScheduleData
  <2>5. /\ frame' \in [Players -> Nat]
        /\ runAhead' \in [Players -> MinRunAhead..MaxRunAhead]
        /\ lastExecution' \in [Players -> Nat]
        /\ quitFrame' \in [Players -> [Players -> Nat \cup {None}]]
        /\ executed' \in [Players -> Seq(SUBSET Command)]
        /\ \A q \in Players : Len(executed'[q]) = frame'[q] - 1
    BY <2>1 DEF IInv, Types
  <2> QED BY <2>2, <2>3, <2>4, <2>5 DEF Types
<1>2. CountersInStep'
  <2>1. /\ UNCHANGED <<frame, runAhead, lastExecution>>
        /\ status[p] = "INGAME"
        /\ \/ UNCHANGED <<status, lastCompleted>>
           \/ /\ p # Router /\ status' = [status EXCEPT ![p] = "LEAVING"]
              /\ lastCompleted' = [lastCompleted EXCEPT ![p] = Horizon(p)]
    BY DEF ScheduleStep
  <2>2. /\ \A q \in Players : q # p => /\ status'[q] = status[q]
                                       /\ lastCompleted'[q] = lastCompleted[q]
        /\ \/ status'[p] = "INGAME" /\ lastCompleted'[p] = lastCompleted[p]
           \/ status'[p] = "LEAVING" /\ p # Router
    BY <2>1 DEF IInv, Types
  <2>3. status'[Router] = "INGAME"
    BY <2>2, Sizes DEF IInv, CountersInStep
  <2>4. ASSUME NEW q \in Players
        PROVE  /\ frame'[q] >= 1
               /\ lastExecution'[q] > InitialRunAhead
               /\ lastExecution'[q] <= frame'[q] + MaxRunAhead
               /\ status'[q] = "INGAME" =>
                    /\ lastExecution'[q] >= frame'[q] + runAhead'[q]
                    /\ lastCompleted'[q] = Closed(q)'
               /\ status'[q] = "LEAVING" => frame'[q] <= Horizon(q)'
               /\ status'[q] = "LEFT" => frame'[q] = Horizon(q)' + 1
    <3>1. CASE status'[q] = status[q] /\ lastCompleted'[q] = lastCompleted[q]
      BY <2>1, <3>1 DEF IInv, CountersInStep, Closed, Horizon
    <3>2. CASE q = p /\ status'[p] = "LEAVING"
      <4>1. Horizon(p)' = Horizon(p) + 1
        BY <2>1, <3>2 DEF Horizon
      <4>2. frame[p] <= Horizon(p)' /\ frame'[p] = frame[p]
        BY <2>1, <4>1, Horizons DEF IInv
      <4>3. /\ frame[p] >= 1 /\ lastExecution[p] > InitialRunAhead
            /\ lastExecution[p] <= frame[p] + MaxRunAhead
        BY DEF IInv, CountersInStep
      <4> QED BY <2>1, <3>2, <4>2, <4>3
    <3> QED BY <2>1, <2>2, <3>1, <3>2
  <2> QED BY <2>3, <2>4 DEF CountersInStep
<1> QED BY <1>1, <1>2

LEMMA ScheduleKeepsCommands ==
  ASSUME IInv, NEW p \in Players, NEW cmd, NEW others, ScheduleStep(p, cmd, others)
  PROVE  CommandsInRange' /\ CommandsNumbered'
<1>1. /\ cmd.from = p /\ cmd.id = Cardinality(IssuedBy(p)) /\ cmd \in Command
      /\ scheduled' = scheduled \cup {cmd}
      /\ status[p] = "INGAME"
      /\ \/ /\ cmd.kind # "PLAYERLEAVE" /\ status' = status
            /\ cmd.kind = "RUNAHEAD" => p = Router /\ cmd.arg \in MinRunAhead..MaxRunAhead
         \/ cmd.kind = "PLAYERLEAVE" /\ status' = [status EXCEPT ![p] = "LEAVING"]
  BY DEF ScheduleStep
<1>2. scheduled \subseteq Command
  BY DEF IInv, Types
<1>3. CommandsInRange'
  <2>1. ASSUME NEW c \in scheduled
        PROVE  /\ c.frame > InitialRunAhead /\ c.frame <= Horizon(c.from)'
               /\ c.kind = "RUNAHEAD" => c.from = Router /\ c.arg \in MinRunAhead..MaxRunAhead
               /\ c.kind = "PLAYERLEAVE" =>
                    status'[c.from] # "INGAME" /\ c.frame = Horizon(c.from)'
    <3>1. c.from \in Players /\ c.frame \in Nat
      BY <1>2 DEF Command
    <3>2. /\ c.frame > InitialRunAhead /\ c.frame <= Horizon(c.from)
          /\ c.kind = "RUNAHEAD" => c.from = Router /\ c.arg \in MinRunAhead..MaxRunAhead
          /\ c.kind = "PLAYERLEAVE" => status[c.from] # "INGAME" /\ c.frame = Horizon(c.from)
      BY DEF IInv, CommandsInRange
    <3>3. /\ Horizon(c.from)' >= Horizon(c.from)
          /\ Horizon(c.from)' \in Nat /\ Horizon(c.from) \in Nat
          /\ status[c.from] # "INGAME" =>
               status'[c.from] = status[c.from] /\ Horizon(c.from)' = Horizon(c.from)
      BY <3>1, ScheduleHorizons, Horizons DEF IInv
    <3>4. c.frame <= Horizon(c.from)'
      BY <3>1, <3>2, <3>3
    <3> QED BY <3>2, <3>3, <3>4
  <2>2. /\ cmd.frame > InitialRunAhead /\ cmd.frame <= Horizon(cmd.from)'
        /\ cmd.kind = "RUNAHEAD" => cmd.from = Router /\ cmd.arg \in MinRunAhead..MaxRunAhead
        /\ cmd.kind = "PLAYERLEAVE" =>
             status'[cmd.from] # "INGAME" /\ cmd.frame = Horizon(cmd.from)'
    <3>1. cmd.frame > InitialRunAhead /\ cmd.frame = Horizon(p)' /\ cmd.frame \in Nat
      BY ScheduleHorizons
    <3>2. cmd.kind = "PLAYERLEAVE" => status'[p] # "INGAME"
      BY <1>1 DEF IInv, Types
    <3> QED BY <1>1, <3>1, <3>2
  <2>3. ASSUME NEW q \in Players, status'[q] # "INGAME"
        PROVE  \E c \in scheduled' : c.from = q /\ c.kind = "PLAYERLEAVE"
    <3>1. CASE status[q] # "INGAME"
      BY <1>1, <3>1 DEF IInv, CommandsInRange
    <3>2. CASE status[q] = "INGAME"
      <4>1. q = p /\ cmd.kind = "PLAYERLEAVE"
        BY <1>1, <2>3, <3>2 DEF IInv, Types
      <4> QED BY <1>1, <4>1
    <3> QED BY <3>1, <3>2
  <2> QED BY <1>1, <2>1, <2>2, <2>3 DEF CommandsInRange
<1>4. CommandsNumbered'
  <2> DEFINE n == Cardinality(IssuedBy(p))
  <2>0. n \in Nat
    BY IssuedByFinite DEF IInv
  <2>1. \A c \in scheduled : c.id \in Nat /\ c.from \in Players
    BY <1>2 DEF Command
  <2>2. \A c \in scheduled : c.id < Cardinality(IssuedBy(c.from))
    BY DEF IInv, CommandsNumbered
  <2>3. \A c \in scheduled : c.from = p => c.id < n
    BY <2>2
  <2>4. /\ \A q \in Players : q # p => IssuedBy(q)' = IssuedBy(q)
        /\ Cardinality(IssuedBy(p)') = n + 1
    BY ScheduleCommands
  <2>5. ASSUME NEW c \in scheduled'
        PROVE  c.id < Cardinality(IssuedBy(c.from)')
    <3>1. CASE c = cmd
      BY <1>1, <2>0, <2>4, <3>1
    <3>2. CASE c \in scheduled /\ c.from = p
      <4>1. c.id < n /\ c.id \in Nat
        BY <2>1, <2>3, <3>2
      <4>2. Cardinality(IssuedBy(c.from)') = n + 1
        BY <2>4, <3>2
      <4> HIDE DEF n
      <4> QED BY <2>0, <4>1, <4>2
    <3>3. CASE c \in scheduled /\ c.from # p
      <4>1. c.id < Cardinality(IssuedBy(c.from)) /\ c.from \in Players
        BY <2>1, <2>2, <3>3
      <4>2. IssuedBy(c.from)' = IssuedBy(c.from)
        BY <2>4, <3>3, <4>1
      <4> QED BY <4>1, <4>2
    <3> QED BY <1>1, <3>1, <3>2, <3>3
  <2>6. ASSUME NEW c \in scheduled', NEW d \in scheduled', c.from = d.from, c.id = d.id
        PROVE  c = d
    <3>1. CASE c \in scheduled /\ d \in scheduled
      BY <2>6, <3>1 DEF IInv, CommandsNumbered
    <3>2. CASE c = cmd /\ d \in scheduled
      <4>1. d.id < n /\ d.id = n /\ d.id \in Nat
        BY <1>1, <2>1, <2>3, <2>6, <3>2
      <4> QED BY <2>0, <4>1
    <3>3. CASE d = cmd /\ c \in scheduled
      <4>1. c.id < n /\ c.id = n /\ c.id \in Nat
        BY <1>1, <2>1, <2>3, <2>6, <3>3
      <4> QED BY <2>0, <4>1
    <3> QED BY <1>1, <3>1, <3>2, <3>3
  <2>7. ASSUME NEW S \in SUBSET scheduled', S # {}
        PROVE  \E c \in S : \A d \in S : d.id <= c.id
    <3>1. \A c \in scheduled' : c.id \in Nat
      BY <1>1, <2>1, <2>0
    <3>2. CASE S \subseteq {cmd}
      BY <2>7, <3>1, <3>2
    <3>3. CASE ~(S \subseteq {cmd})
      <4> DEFINE T == S \ {cmd}
      <4>1. T \in SUBSET scheduled /\ T # {} /\ S \subseteq T \cup {cmd}
        BY <1>1, <3>3
      <4>2. PICK c \in T : \A d \in T : d.id <= c.id
        BY <4>1 DEF IInv, CommandsNumbered
      <4>3. CASE cmd \in S /\ cmd.id > c.id
        BY <3>1, <4>1, <4>2, <4>3
      <4>4. CASE ~(cmd \in S /\ cmd.id > c.id)
        BY <3>1, <4>1, <4>2, <4>4
      <4> QED BY <4>3, <4>4
    <3> QED BY <3>2, <3>3
  <2> QED BY <2>5, <2>6, <2>7 DEF CommandsNumbered
<1> QED BY <1>3, <1>4

(* What is under way is within the horizon of the player it comes from.    *)
LEMMA MessageHorizon ==
  ASSUME IInv, NEW m \in net
  PROVE  m.cmd.frame \in Nat /\ m.cmd.frame <= Horizon(m.cmd.from)
<1>1. MessageTrue(m)
  BY DEF IInv, MessagesTrue
<1>2. CASE m.cmd.kind = "FRAMEINFO"
  <2>1. m.cmd.frame \in 1..Closed(m.cmd.from) /\ m.cmd.from \in Players
    BY <1>1, <1>2 DEF MessageTrue
  <2>2. /\ Closed(m.cmd.from) \in Nat /\ Horizon(m.cmd.from) \in Nat
        /\ Closed(m.cmd.from) <= Horizon(m.cmd.from)
    BY <2>1, Horizons DEF IInv
  <2> QED BY <2>1, <2>2
<1>3. CASE m.cmd.kind # "FRAMEINFO"
  BY <1>1, <1>3 DEF MessageTrue, IInv, CommandsInRange, Types, Command
<1> QED BY <1>2, <1>3

LEMMA ScheduleKeepsMessages ==
  ASSUME IInv, NEW p \in Players, NEW cmd, NEW others, ScheduleStep(p, cmd, others)
  PROVE  MessagesTrue'
<1>1. /\ cmd.from = p /\ cmd.kind # "FRAMEINFO" /\ scheduled' = scheduled \cup {cmd}
      /\ net' = net \cup Send(p, {cmd} \cup others)
      /\ status[p] = "INGAME"
      /\ \/ status' = status
         \/ p # Router /\ status' = [status EXCEPT ![p] = "LEAVING"]
      /\ UNCHANGED <<frame, quitFrame>>
  BY DEF ScheduleStep, Command
<1>2. Types' /\ CountersInStep' /\ CommandsInRange'
  BY ScheduleKeepsCounters, ScheduleKeepsCommands
<1>3. cmd.frame \in Nat /\ cmd.frame = Horizon(p)'
  BY ScheduleHorizons
<1>4. ASSUME NEW m \in net
      PROVE  MessageTrue(m)'
  <2>1. MessageTrue(m)
    BY DEF IInv, MessagesTrue
  <2>2. /\ m.to \in Players /\ m.cmd.from \in Players /\ m.to # m.cmd.from
        /\ m.cmd.kind # "FRAMEINFO" => m.cmd \in scheduled'
    BY <1>1, <2>1 DEF MessageTrue
  <2>3. m.cmd.kind = "FRAMEINFO" =>
          /\ m.cmd.frame \in 1..Closed(m.cmd.from)'
          /\ m.cmd.arg = Cardinality(Issued(m.cmd.from, m.cmd.frame)')
    <3>1. SUFFICES ASSUME m.cmd.kind = "FRAMEINFO"
                   PROVE  /\ m.cmd.frame \in 1..Closed(m.cmd.from)'
                          /\ m.cmd.arg = Cardinality(Issued(m.cmd.from, m.cmd.frame)')
      OBVIOUS
    <3>2. /\ m.cmd.frame \in 1..Closed(m.cmd.from)
          /\ m.cmd.arg = Cardinality(Issued(m.cmd.from, m.cmd.frame))
      BY <2>1, <3>1 DEF MessageTrue
    <3>3. Issued(m.cmd.from, m.cmd.frame)' = Issued(m.cmd.from, m.cmd.frame)
      BY <2>2, <3>2, ScheduleCommands
    <3>4. /\ Closed(m.cmd.from)' >= Closed(m.cmd.from)
          /\ Closed(m.cmd.from)' \in Nat /\ Closed(m.cmd.from) \in Nat
      BY <2>2, ScheduleHorizons, Horizons DEF IInv
    <3> QED BY <3>2, <3>3, <3>4
  <2>4. status'[m.to] = "LEAVING" => m.cmd.frame <= Reach(m.to)'
    <3>1. SUFFICES ASSUME status'[m.to] = "LEAVING"
                   PROVE  m.cmd.frame <= Reach(m.to)'
      OBVIOUS
    <3>2. /\ Reach(m.to)' >= Reach(m.to) /\ Reach(m.to)' \in Int /\ Reach(m.to) \in Int
      BY <2>2, ScheduleHorizons, Horizons DEF IInv
    <3>3. m.cmd.frame \in Int
      BY <2>1 DEF MessageTrue, IInv, Types, Command
    <3>4. CASE status[m.to] = "LEAVING"
      <4>1. m.cmd.frame <= Reach(m.to)
        BY <2>1, <3>4 DEF MessageTrue
      <4> QED BY <3>2, <3>3, <4>1
    <3>5. CASE status[m.to] # "LEAVING"
      <4>1. m.to = p
        BY <1>1, <2>2, <3>1, <3>5, ScheduleHorizons
      <4>2. Horizon(m.cmd.from) <= Reach(m.to)
        <5>1. status[m.to] # "LEFT" /\ (p # Router => quitFrame[Router][p] = None)
          BY <1>1, <4>1, Sizes DEF IInv, NobodyRunsAway
        <5> QED BY <2>2, <4>1, <5>1, ReachOfConnected DEF IInv
      <4>3. m.cmd.frame <= Horizon(m.cmd.from)
        BY MessageHorizon
      <4>4. Horizon(m.cmd.from) \in Int
        BY <2>2, Horizons DEF IInv
      <4> QED BY <3>2, <3>3, <4>2, <4>3, <4>4
    <3> QED BY <3>4, <3>5
  <2> QED BY <2>2, <2>3, <2>4 DEF MessageTrue
<1>5. ASSUME NEW m \in Send(p, {cmd} \cup others)
      PROVE  MessageTrue(m)'
  <2>1. /\ m.to \in Players /\ m.to # p /\ m.cmd \in {cmd} \cup others
        /\ m.to = Router \/ (p = Router /\ m.to \in Connected(p))
    BY SentToOthers DEF IInv
  <2>2. /\ m.cmd.from = p /\ m.cmd.frame \in Int /\ m.cmd.frame <= cmd.frame
        /\ IF m.cmd.kind = "FRAMEINFO"
             THEN /\ m.cmd.frame \in 1..Closed(p)'
                  /\ m.cmd.arg = Cardinality(Issued(p, m.cmd.frame)')
             ELSE m.cmd \in scheduled'
    <3>1. CASE m.cmd = cmd
      BY <1>1, <1>3, <3>1
    <3>2. CASE m.cmd \in others
      BY <3>2, LeaveCounts
    <3> QED BY <2>1, <3>1, <3>2
  <2>3. status'[m.to] = "LEAVING" => m.cmd.frame <= Reach(m.to)'
    <3>1. SUFFICES ASSUME status'[m.to] = "LEAVING"
                   PROVE  m.cmd.frame <= Reach(m.to)'
      OBVIOUS
    <3>2. status'[Router] = "INGAME"
      BY <1>2 DEF CountersInStep
    <3>3. p = Router /\ quitFrame[Router][m.to] = None
      BY <2>1, <3>1, <3>2 DEF Connected
    <3>4. status[m.to] = "LEAVING"
      BY <1>1, <2>1, <3>1, ScheduleHorizons
    <3>5. Horizon(p) <= Reach(m.to)
      BY <2>1, <3>3, <3>4, ReachOfConnected DEF IInv
    <3>6. cmd.frame = Horizon(p)
      BY <3>3 DEF ScheduleStep
    <3>7. Reach(m.to)' >= Reach(m.to) /\ Reach(m.to)' \in Int /\ Reach(m.to) \in Int
      BY <2>1, ScheduleHorizons, Horizons DEF IInv
    <3> QED BY <1>3, <2>2, <3>5, <3>6, <3>7
  <2> QED BY <2>1, <2>2, <2>3 DEF MessageTrue
<1> QED BY <1>1, <1>4, <1>5 DEF MessagesTrue

LEMMA ScheduleKeepsDrift ==
  ASSUME IInv, NEW p \in Players, NEW cmd, NEW others, ScheduleStep(p, cmd, others)
  PROVE  NobodyRunsAway'
<1> SUFFICES ASSUME NEW q \in Players, NEW z \in Players
             PROVE  /\ quitFrame'[q][z] = None => q = z \/ frame'[q] <= Horizon(z)'
                    /\ quitFrame'[q][z] # None =>
                         q # z /\ status'[z] # "INGAME" /\ frame'[q] > Horizon(z)'
  BY DEF NobodyRunsAway
<1>1. UNCHANGED <<frame, quitFrame>>
  BY DEF ScheduleStep
<1>2. /\ quitFrame[q][z] = None => q = z \/ frame[q] <= Horizon(z)
      /\ quitFrame[q][z] # None =>
           q # z /\ status[z] # "INGAME" /\ frame[q] > Horizon(z)
  BY DEF IInv, NobodyRunsAway
<1>3. /\ Horizon(z)' >= Horizon(z) /\ Horizon(z)' \in Nat
      /\ status[z] # "INGAME" => status'[z] = status[z] /\ Horizon(z)' = Horizon(z)
  BY ScheduleHorizons
<1>4. frame[q] \in Nat /\ Horizon(z) \in Nat
  BY Horizons DEF IInv
<1>5. CASE quitFrame[q][z] = None
  BY <1>1, <1>2, <1>3, <1>4, <1>5
<1>6. CASE quitFrame[q][z] # None
  BY <1>1, <1>2, <1>3, <1>4, <1>6
<1> QED BY <1>5, <1>6

LEMMA ScheduleKeepsHeld ==
  ASSUME IInv, NEW p \in Players, NEW cmd, NEW others, ScheduleStep(p, cmd, others)
  PROVE  HeldTrue' /\ CountsTrue' /\ OwnComplete'
<1>1. /\ cmd.from = p /\ scheduled' = scheduled \cup {cmd}
      /\ UNCHANGED frame
  BY DEF ScheduleStep
<1>2. \A q, r \in Players : \A s \in Slots :
        /\ q # p \/ r # p \/ s # Slot(cmd.frame) =>
             frameData'[q][r][s] = frameData[q][r][s]
        /\ frameData'[q][r][s].count = frameData[q][r][s].count
  BY ScheduleData
<1>3. frameData'[p][p][Slot(cmd.frame)].cmds =
        frameData[p][p][Slot(cmd.frame)].cmds \cup {cmd}
  BY ScheduleData
<1>4. \A q \in Players : Window(q) \subseteq Window(q)'
  <2> SUFFICES ASSUME NEW q \in Players
               PROVE  Window(q) \subseteq Window(q)'
    OBVIOUS
  <2>1. Reach(q)' >= Reach(q) /\ Reach(q)' \in Int /\ Reach(q) \in Int
    BY ScheduleHorizons, Horizons DEF IInv
  <2>2. frame[q] - FramesToKeep \in Int
    BY Horizons, Sizes DEF IInv
  <2> QED BY <1>1, <2>1, <2>2 DEF Window
<1>5. HeldTrue'
  <2> SUFFICES ASSUME NEW q \in Players, NEW r \in Players, NEW s \in Slots,
                      NEW c \in frameData'[q][r][s].cmds
               PROVE  /\ c \in scheduled' /\ c.from = r
                      /\ Slot(c.frame) = s /\ c.frame \in Window(q)'
    BY DEF HeldTrue
  <2>1. CASE c \in frameData[q][r][s].cmds
    BY <1>1, <1>4, <2>1 DEF IInv, HeldTrue
  <2>2. CASE c \notin frameData[q][r][s].cmds
    <3>1. c = cmd /\ q = p /\ r = p /\ s = Slot(cmd.frame)
      BY <1>2, <1>3, <2>2
    <3>2. cmd.frame \in Window(p)
      BY ScheduleHorizons
    <3> QED BY <1>1, <1>4, <3>1, <3>2
  <2> QED BY <2>1, <2>2
<1>6. CountsTrue'
  <2> SUFFICES ASSUME NEW q \in Players, NEW r \in Players, NEW s \in Slots,
                      q # r, frameData'[q][r][s].count # None
               PROVE  CountTrue(q, r, s)'
    BY DEF CountsTrue
  <2>1. frameData'[q][r][s].count = frameData[q][r][s].count
    BY <1>2
  <2>2. CountTrue(q, r, s)
    BY <2>1 DEF IInv, CountsTrue
  <2>3. PICK f \in Window(q) :
          /\ f \in 1..Closed(r) /\ Slot(f) = s
          /\ frameData[q][r][s].count = Cardinality(Issued(r, f))
    BY <2>2 DEF CountTrue
  <2>4. Issued(r, f)' = Issued(r, f)
    BY <2>3, ScheduleCommands
  <2>5. f \in Window(q)'
    BY <1>4
  <2>6. f \in 1..Closed(r)'
    <3>1. Closed(r)' >= Closed(r) /\ Closed(r)' \in Nat /\ Closed(r) \in Nat
      BY ScheduleHorizons, Horizons DEF IInv
    <3> QED BY <2>3, <3>1
  <2> QED BY <2>1, <2>3, <2>4, <2>5, <2>6 DEF CountTrue
<1>7. OwnComplete'
  <2> SUFFICES ASSUME NEW c \in scheduled', c.frame >= frame'[c.from] - FramesToKeep
               PROVE  c \in Held(c.from, c.from, c.frame)'
    BY DEF OwnComplete
  <2>1. CASE c = cmd
    BY <1>1, <1>3, <2>1 DEF Held
  <2>2. CASE c \in scheduled
    <3>1. c \in Held(c.from, c.from, c.frame) /\ c.from \in Players /\ c.frame \in Nat
      BY <1>1, <2>2 DEF IInv, OwnComplete, Types, Command
    <3>2. Slot(c.frame) \in Slots
      BY <3>1, SlotInRing
    <3> QED BY <1>2, <1>3, <3>1, <3>2 DEF Held
  <2> QED BY <1>1, <2>1, <2>2
<1> QED BY <1>5, <1>6, <1>7

LEMMA ScheduleKeepsKept ==
  ASSUME IInv, NEW p \in Players, NEW cmd, NEW others, ScheduleStep(p, cmd, others)
  PROVE  KeptComplete'
<1> SUFFICES ASSUME NEW q \in Players, NEW r \in Players, NEW f \in Served(q)',
                    f \in 1..(frame'[q] - 1)
             PROVE  Held(q, r, f)' = Issued(r, f)'
  BY DEF KeptComplete
<1>1. /\ UNCHANGED <<frame, lastExecution>>
  BY DEF ScheduleStep
<1>2. f \in Served(q)
  <2>1. status[q] # "INGAME" => status'[q] # "INGAME"
    BY ScheduleHorizons
  <2> QED BY <1>1, <2>1 DEF Served
<1>3. Held(q, r, f) = Issued(r, f)
  BY <1>1, <1>2 DEF IInv, KeptComplete
<1>4. f \in Int /\ frame[q] \in Nat /\ f < frame[q]
  BY <1>1, Horizons DEF IInv
<1>5. cmd.frame \in Nat /\ frame[q] <= cmd.frame /\ f # cmd.frame
  <2>1. cmd.frame \in Nat /\ frame[q] <= cmd.frame
    BY ScheduleHorizons
  <2> QED BY <1>4, <2>1
<1>6. Issued(r, f)' = Issued(r, f)
  BY <1>5, ScheduleCommands
<1>7. Held(q, r, f)' = Held(q, r, f)
  <2>1. Slot(f) \in Slots
    BY <1>4, SlotInRing
  <2>2. q = p => Slot(f) # Slot(cmd.frame)
    <3>1. cmd.frame \in Window(p)
      BY ScheduleHorizons
    <3> QED BY <1>2, <1>5, <3>1, ServedAlone DEF IInv
  <2> QED BY <2>1, <2>2, ScheduleData DEF Held
<1> QED BY <1>3, <1>6, <1>7

LEMMA ScheduleKeepsLog ==
  ASSUME IInv, NEW p \in Players, NEW cmd, NEW others, ScheduleStep(p, cmd, others)
  PROVE  LogTrue' /\ RunAheadFromLog' /\ SomebodyLeads'
<1>1. /\ UNCHANGED <<frame, runAhead, executed>>
      /\ scheduled' = scheduled \cup {cmd}
  BY DEF ScheduleStep
<1>2. cmd.frame \in Nat /\ \A q \in Players : frame[q] <= cmd.frame /\ frame[q] \in Nat
  BY ScheduleHorizons, Horizons DEF IInv
<1>3. LogTrue'
  <2> SUFFICES ASSUME NEW q \in Players, NEW f \in 1..(frame'[q] - 1)
               PROVE  executed'[q][f] = Bundle(f)'
    BY DEF LogTrue
  <2>1. executed[q][f] = Bundle(f)
    BY <1>1 DEF IInv, LogTrue
  <2>2. f # cmd.frame
    BY <1>1, <1>2
  <2> QED BY <1>1, <2>1, <2>2 DEF Bundle
<1>4. RunAheadFromLog'
  <2>1. \A q \in Players : Changes(frame[q])' = Changes(frame[q])
    BY <1>1, <1>2 DEF Changes
  <2> QED BY <1>1, <2>1 DEF IInv, RunAheadFromLog
<1>5. SomebodyLeads'
  BY <1>1 DEF IInv, SomebodyLeads
<1> QED BY <1>3, <1>4, <1>5

LEMMA ScheduleKeepsInv ==
  ASSUME IInv, NEW p \in Players,
         IssueCommand(p) \/ ChangeRunAhead(p) \/ Leave(p)
  PROVE  IInv'
<1>1. PICK cmd, others : ScheduleStep(p, cmd, others)
  BY SchedulingIsScheduleStep DEF IInv
<1>2. Types' /\ CountersInStep'
  BY <1>1, ScheduleKeepsCounters
<1>3. CommandsInRange' /\ CommandsNumbered'
  BY <1>1, ScheduleKeepsCommands
<1>4. MessagesTrue'
  BY <1>1, ScheduleKeepsMessages
<1>5. NobodyRunsAway'
  BY <1>1, ScheduleKeepsDrift
<1>6. HeldTrue' /\ CountsTrue' /\ OwnComplete'
  BY <1>1, ScheduleKeepsHeld
<1>7. KeptComplete'
  BY <1>1, ScheduleKeepsKept
<1>8. LogTrue' /\ RunAheadFromLog' /\ SomebodyLeads'
  BY <1>1, ScheduleKeepsLog
<1> QED BY <1>2, <1>3, <1>4, <1>5, <1>6, <1>7, <1>8 DEF IInv

-----------------------------------------------------------------------------
(* Receiving a message.                                                    *)

(* A message that is not too old falls into the window of its receiver.    *)
LEMMA MessageInWindow ==
  ASSUME IInv, NEW m \in net, status[m.to] # "LEFT", ~OutOfDate(m.to, m.cmd)
  PROVE  m.cmd.frame \in Window(m.to) /\ frame[m.to] <= m.cmd.frame
<1>1. MessageTrue(m)
  BY DEF IInv, MessagesTrue
<1>2. m.to \in Players /\ m.cmd.from \in Players
  BY <1>1 DEF MessageTrue
<1>3. m.cmd.frame \in Nat /\ frame[m.to] \in Nat /\ frame[m.to] <= m.cmd.frame
  BY <1>2, MessageHorizon, Horizons DEF IInv, OutOfDate
<1>4. m.cmd.frame <= Reach(m.to)
  <2>1. CASE status[m.to] = "INGAME"
    <3>1. m.to = Router \/ quitFrame[Router][m.to] = None
      BY <1>2, <2>1, Sizes DEF IInv, NobodyRunsAway
    <3>2. Horizon(m.cmd.from) <= Reach(m.to)
      BY <1>2, <3>1, ReachOfConnected DEF IInv
    <3>3. Horizon(m.cmd.from) \in Nat /\ Reach(m.to) \in Int
      BY <1>2, Horizons DEF IInv
    <3> QED BY <1>3, <3>2, <3>3, MessageHorizon
  <2>2. CASE status[m.to] # "INGAME"
    <3>1. status[m.to] = "LEAVING"
      BY <1>2, <2>2, Horizons DEF IInv
    <3> QED BY <1>1, <3>1 DEF MessageTrue
  <2> QED BY <2>1, <2>2
<1>5. Reach(m.to) \in Int
  BY <1>2, Horizons DEF IInv
<1> QED BY <1>3, <1>4, <1>5, Sizes DEF Window

(* The message m changes slot t of what p holds of q, and no more.         *)
Stored(m, p, q, t) ==
  /\ frameData' \in [Players -> [Players -> [Slots -> FrameData]]]
  /\ \A y, z \in Players : \A s \in Slots :
       y # p \/ z # q \/ s # t => frameData'[y][z][s] = frameData[y][z][s]
  /\ \/ frameData'[p][q][t].cmds = frameData[p][q][t].cmds
     \/ /\ m.cmd.kind # "FRAMEINFO"
        /\ frameData'[p][q][t].cmds = frameData[p][q][t].cmds \cup {m.cmd}
  /\ \/ frameData'[p][q][t].count = frameData[p][q][t].count
     \/ /\ m.cmd.kind = "FRAMEINFO"
        /\ frameData'[p][q][t].count = m.cmd.arg

LEMMA ReceiveData ==
  ASSUME IInv, NEW m \in net, Receive(m),
         NEW p \in Players, NEW q \in Players, NEW t \in Slots,
         p = m.to, q = m.cmd.from, t = Slot(m.cmd.frame)
  PROVE  Stored(m, p, q, t)
<1>1. MessageTrue(m)
  BY DEF IInv, MessagesTrue
<1>2. frameData \in [Players -> [Players -> [Slots -> FrameData]]]
  BY DEF IInv, Types
<1>3. frameData[p][q][t] \in FrameData
  BY <1>2
<1>4. ASSUME NEW fd \in FrameData,
             frameData' = [frameData EXCEPT ![p][q][t] = fd]
      PROVE  /\ frameData' \in [Players -> [Players -> [Slots -> FrameData]]]
             /\ frameData'[p][q][t] = fd
             /\ \A y, z \in Players : \A s \in Slots :
                  y # p \/ z # q \/ s # t => frameData'[y][z][s] = frameData[y][z][s]
  BY <1>2, <1>4
<1>5. CASE frameData' = frameData
  BY <1>2, <1>5 DEF Stored
<1>6. CASE /\ m.cmd.kind = "FRAMEINFO"
           /\ frameData' = [frameData EXCEPT ![p][q][t].count = m.cmd.arg]
  <2> DEFINE fd == [frameData[p][q][t] EXCEPT !.count = m.cmd.arg]
  <2>1. m.cmd.arg \in Nat
    <3>1. m.cmd.arg = Cardinality(Issued(m.cmd.from, m.cmd.frame))
      BY <1>1, <1>6 DEF MessageTrue
    <3> QED BY <3>1, IssuedFinite DEF IInv
  <2>2. /\ fd \in FrameData /\ fd.cmds = frameData[p][q][t].cmds
        /\ fd.count = m.cmd.arg
    BY <1>3, <2>1 DEF FrameData
  <2>3. frameData' = [frameData EXCEPT ![p][q][t] = fd]
    BY <1>6
  <2> HIDE DEF fd
  <2> QED BY <1>4, <1>6, <2>2, <2>3 DEF Stored
<1>7. CASE /\ m.cmd.kind # "FRAMEINFO"
           /\ frameData' = [frameData EXCEPT ![p][q][t] = AddCommand(@, m.cmd)]
  <2> DEFINE fd == AddCommand(frameData[p][q][t], m.cmd)
  <2>1. m.cmd \in Command
    BY <1>1, <1>7 DEF MessageTrue, IInv, Types
  <2>2. /\ fd \in FrameData /\ fd.cmds = frameData[p][q][t].cmds \cup {m.cmd}
        /\ fd.count = frameData[p][q][t].count
    BY <1>3, <2>1 DEF FrameData, AddCommand
  <2>3. frameData' = [frameData EXCEPT ![p][q][t] = fd]
    BY <1>7
  <2> HIDE DEF fd
  <2> QED BY <1>4, <1>7, <2>2, <2>3 DEF Stored
<1> QED BY <1>5, <1>6, <1>7 DEF Receive

LEMMA ReceiveKeepsMessages ==
  ASSUME IInv, NEW m \in net, Receive(m)
  PROVE  MessagesTrue'
<1>1. /\ net' = net \cup Relay(m.to, m.cmd)
      /\ UNCHANGED <<frame, lastExecution, status, scheduled>>
  BY DEF Receive
<1>2. \A n : MessageTrue(n)' <=> MessageTrue(n)
  BY <1>1 DEF MessageTrue, Closed, Horizon, Reach, Issued
<1>3. MessageTrue(m)
  BY DEF IInv, MessagesTrue
<1>4. ASSUME NEW n \in Relay(m.to, m.cmd)
      PROVE  MessageTrue(n)
  <2>1. /\ n.to \in Connected(Router) \ {m.cmd.from} /\ n.cmd = m.cmd
    BY DEF Relay
  <2>2. n.to \in Players /\ n.to # n.cmd.from /\ quitFrame[Router][n.to] = None
    BY <2>1 DEF Connected
  <2>3. status[n.to] = "LEAVING" => n.cmd.frame <= Reach(n.to)
    <3>1. SUFFICES ASSUME status[n.to] = "LEAVING"
                   PROVE  n.cmd.frame <= Reach(n.to)
      OBVIOUS
    <3>2. m.cmd.from \in Players
      BY <1>3 DEF MessageTrue
    <3>3. Horizon(m.cmd.from) <= Reach(n.to)
      BY <2>2, <3>1, <3>2, ReachOfConnected DEF IInv
    <3>4. Horizon(m.cmd.from) \in Nat /\ Reach(n.to) \in Int
      BY <2>2, <3>2, Horizons DEF IInv
    <3> QED BY <2>1, <3>3, <3>4, MessageHorizon
  <2> QED BY <1>3, <2>1, <2>2, <2>3 DEF MessageTrue
<1>5. \A n \in net : MessageTrue(n)
  BY DEF IInv, MessagesTrue
<1> QED BY <1>1, <1>2, <1>4, <1>5 DEF MessagesTrue

LEMMA ReceiveKeepsHeld ==
  ASSUME IInv, NEW m \in net, Receive(m)
  PROVE  Types' /\ HeldTrue' /\ CountsTrue' /\ OwnComplete' /\ KeptComplete'
<1>1. MessageTrue(m)
  BY DEF IInv, MessagesTrue
<1>2. PICK p \in Players, q \in Players, t \in Slots :
        p = m.to /\ q = m.cmd.from /\ t = Slot(m.cmd.frame) /\ p # q
  <2>1. Slot(m.cmd.frame) \in Slots
    BY MessageHorizon, SlotInRing
  <2> QED BY <1>1, <2>1 DEF MessageTrue
<1>3. Stored(m, p, q, t)
  BY <1>2, ReceiveData
<1>4. m.cmd.frame \in Window(p) /\ frame[p] <= m.cmd.frame
  BY <1>2, MessageInWindow DEF Receive
<1>5. UNCHANGED <<frame, runAhead, lastExecution, lastCompleted, status,
                  quitFrame, scheduled, executed>>
  BY DEF Receive
<1>6. /\ \A y \in Players : Window(y)' = Window(y) /\ Closed(y)' = Closed(y)
      /\ \A y, f : Issued(y, f)' = Issued(y, f)
      /\ \A y \in Players : Served(y)' = Served(y)
  BY <1>5 DEF Window, Reach, Closed, Horizon, Issued, Served
<1>7. Types'
  BY <1>3, <1>5 DEF IInv, Types, Stored
<1>8. HeldTrue'
  <2> SUFFICES ASSUME NEW y \in Players, NEW z \in Players, NEW s \in Slots,
                      NEW c \in frameData'[y][z][s].cmds
               PROVE  /\ c \in scheduled /\ c.from = z
                      /\ Slot(c.frame) = s /\ c.frame \in Window(y)
    BY <1>5, <1>6 DEF HeldTrue
  <2>1. CASE c \in frameData[y][z][s].cmds
    BY <2>1 DEF IInv, HeldTrue
  <2>2. CASE c \notin frameData[y][z][s].cmds
    <3>1. /\ y = p /\ z = q /\ s = t /\ c = m.cmd /\ m.cmd.kind # "FRAMEINFO"
      BY <1>3, <2>2 DEF Stored
    <3>2. m.cmd \in scheduled
      BY <1>1, <3>1 DEF MessageTrue
    <3> QED BY <1>2, <1>4, <3>1, <3>2
  <2> QED BY <2>1, <2>2
<1>9. CountsTrue'
  <2> SUFFICES ASSUME NEW y \in Players, NEW z \in Players, NEW s \in Slots,
                      y # z, frameData'[y][z][s].count # None
               PROVE  \E f \in Window(y) :
                        /\ f \in 1..Closed(z) /\ Slot(f) = s
                        /\ frameData'[y][z][s].count = Cardinality(Issued(z, f))
    BY <1>6 DEF CountsTrue, CountTrue
  <2>1. CASE frameData'[y][z][s].count = frameData[y][z][s].count
    BY <2>1 DEF IInv, CountsTrue, CountTrue
  <2>2. CASE frameData'[y][z][s].count # frameData[y][z][s].count
    <3>1. /\ y = p /\ z = q /\ s = t /\ m.cmd.kind = "FRAMEINFO"
          /\ frameData'[p][q][t].count = m.cmd.arg
      BY <1>3, <2>2 DEF Stored
    <3>2. /\ m.cmd.frame \in 1..Closed(q)
          /\ m.cmd.arg = Cardinality(Issued(q, m.cmd.frame))
      BY <1>1, <1>2, <3>1 DEF MessageTrue
    <3> QED BY <1>2, <1>4, <3>1, <3>2
  <2> QED BY <2>1, <2>2
<1>10. OwnComplete'
  <2> SUFFICES ASSUME NEW c \in scheduled, c.frame >= frame[c.from] - FramesToKeep
               PROVE  c \in frameData'[c.from][c.from][Slot(c.frame)].cmds
    BY <1>5 DEF OwnComplete, Held
  <2>1. /\ c \in frameData[c.from][c.from][Slot(c.frame)].cmds
        /\ c.from \in Players /\ c.frame \in Nat
    BY DEF IInv, OwnComplete, Held, Types, Command
  <2>2. Slot(c.frame) \in Slots
    BY <2>1, SlotInRing
  <2>3. frameData'[c.from][c.from][Slot(c.frame)] =
          frameData[c.from][c.from][Slot(c.frame)]
    <3>1. c.from # p \/ c.from # q
      BY <1>2
    <3> QED BY <1>3, <2>1, <2>2, <3>1 DEF Stored
  <2> QED BY <2>1, <2>3
<1>11. KeptComplete'
  <2> SUFFICES ASSUME NEW y \in Players, NEW z \in Players, NEW f \in Served(y),
                      f \in 1..(frame[y] - 1)
               PROVE  frameData'[y][z][Slot(f)].cmds = Issued(z, f)
    BY <1>5, <1>6 DEF KeptComplete, Held
  <2>1. frameData[y][z][Slot(f)].cmds = Issued(z, f)
    BY DEF IInv, KeptComplete, Held
  <2>2. f \in Int /\ frame[y] \in Nat /\ f < frame[y] /\ m.cmd.frame \in Nat
    BY Horizons, MessageHorizon DEF IInv
  <2>3. Slot(f) \in Slots
    BY <2>2, SlotInRing
  <2>4. y = p => Slot(f) # t
    <3>1. SUFFICES ASSUME y = p, Slot(f) = t
                   PROVE  FALSE
      OBVIOUS
    <3>2. f = m.cmd.frame
      BY <1>2, <1>4, <3>1, ServedAlone DEF IInv
    <3> QED BY <1>4, <2>2, <3>1, <3>2
  <2>5. frameData'[y][z][Slot(f)] = frameData[y][z][Slot(f)]
    BY <1>3, <2>3, <2>4 DEF Stored
  <2> QED BY <2>1, <2>5
<1> QED BY <1>7, <1>8, <1>9, <1>10, <1>11

LEMMA ReceiveKeepsInv ==
  ASSUME IInv, NEW m \in net, Receive(m)
  PROVE  IInv'
<1>1. Types' /\ HeldTrue' /\ CountsTrue' /\ OwnComplete' /\ KeptComplete'
  BY ReceiveKeepsHeld
<1>2. MessagesTrue'
  BY ReceiveKeepsMessages
<1>3. UNCHANGED <<frame, runAhead, lastExecution, lastCompleted, status,
                  quitFrame, scheduled, executed>>
  BY DEF Receive
<1>4. /\ \A q : Horizon(q)' = Horizon(q) /\ Closed(q)' = Closed(q)
      /\ \A q : IssuedBy(q)' = IssuedBy(q)
      /\ \A f : Bundle(f)' = Bundle(f)
      /\ \A q : Changes(frame[q])' = Changes(frame[q])
  BY <1>3 DEF Horizon, Closed, IssuedBy, Bundle, Changes
<1>5. CountersInStep' /\ CommandsInRange' /\ CommandsNumbered'
  <2>1. CountersInStep'
    BY <1>3, <1>4 DEF IInv, CountersInStep
  <2>2. CommandsInRange'
    BY <1>3, <1>4 DEF IInv, CommandsInRange
  <2>3. CommandsNumbered'
    BY <1>3, <1>4 DEF IInv, CommandsNumbered
  <2> QED BY <2>1, <2>2, <2>3
<1>6. NobodyRunsAway'
  BY <1>3, <1>4 DEF IInv, NobodyRunsAway
<1>7. LogTrue' /\ RunAheadFromLog' /\ SomebodyLeads'
  <2>1. LogTrue'
    BY <1>3, <1>4 DEF IInv, LogTrue
  <2>2. RunAheadFromLog'
    BY <1>3, <1>4 DEF IInv, RunAheadFromLog
  <2>3. SomebodyLeads'
    BY <1>3 DEF IInv, SomebodyLeads
  <2> QED BY <2>1, <2>2, <2>3
<1> QED BY <1>1, <1>2, <1>5, <1>6, <1>7 DEF IInv

-----------------------------------------------------------------------------
(* Executing a frame.                                                      *)

(* When all commands are ready, what is held of the frame is what was      *)
(* scheduled for it.                                                       *)
LEMMA ReadyIsComplete ==
  ASSUME IInv, NEW p \in Players, status[p] # "LEFT", AllCommandsReady(p)
  PROVE  /\ \A q \in Players : Held(p, q, frame[p]) = Issued(q, frame[p])
         /\ \A q \in Connected(p) : frame[p] <= Closed(q)
         /\ FrameCommands(p) = Bundle(frame[p])
<1> PICK f \in Nat : f = frame[p]
  BY DEF IInv, Types
<1>1. f \in Served(p)
  BY CurrentServed DEF IInv
<1>2. \A q \in Players : Held(p, q, f) \subseteq Issued(q, f)
  BY <1>1, HeldIssued DEF IInv
<1>3. ASSUME NEW q \in Connected(p)
      PROVE  f <= Closed(q) /\ Held(p, q, f) = Issued(q, f)
  <2>1. q \in Players /\ q # p /\ quitFrame[p][q] = None
    BY DEF Connected
  <2>2. Cardinality(Held(p, q, f)) = frameData[p][q][Slot(f)].count
    BY <2>1 DEF AllCommandsReady, FrameDataReady, Held
  <2>3. IsFiniteSet(Issued(q, f))
    BY IssuedFinite DEF IInv
  <2>4. Held(p, q, f) \in SUBSET Issued(q, f)
    BY <1>2, <2>1
  <2>5. IsFiniteSet(Held(p, q, f))
    BY <2>3, <2>4, FS_Subset
  <2>6. frameData[p][q][Slot(f)].count # None
    <3>1. Cardinality(Held(p, q, f)) \in Nat
      BY <2>5, FS_CardinalityType
    <3> QED BY <2>2, <3>1 DEF None
  <2>7. f \in 1..Closed(q) /\ frameData[p][q][Slot(f)].count = Cardinality(Issued(q, f))
    BY <1>1, <2>1, <2>6, CountIssued DEF IInv
  <2>8. Held(p, q, f) = Issued(q, f)
    BY <2>2, <2>3, <2>4, <2>7, FS_Subset
  <2>9. Closed(q) \in Nat
    BY <2>1, Horizons DEF IInv
  <2> QED BY <2>7, <2>8, <2>9
<1>4. ASSUME NEW q \in Players, q # p, quitFrame[p][q] # None
      PROVE  Held(p, q, f) = Issued(q, f) /\ Issued(q, f) = {}
  <2>1. frame[p] > Horizon(q) /\ Horizon(q) \in Nat
    BY <1>4, Horizons DEF IInv, NobodyRunsAway
  <2>2. ASSUME NEW c \in Issued(q, f) PROVE FALSE
    <3>1. c.frame = f /\ c.frame <= Horizon(q)
      BY DEF Issued, IInv, CommandsInRange
    <3> QED BY <2>1, <3>1
  <2> QED BY <1>2, <2>2
<1>5. Held(p, p, f) = Issued(p, f) /\ quitFrame[p][p] = None
  BY <1>1, OwnHeld DEF IInv, NobodyRunsAway
<1>6. \A q \in Players : Held(p, q, f) = Issued(q, f)
  BY <1>3, <1>4, <1>5 DEF Connected
<1>7. FrameCommands(p) = UNION {Held(p, q, f) : q \in {r \in Players : HasFrameData(p, r)}}
  BY DEF FrameCommands, Held
<1>8. ASSUME NEW c \in FrameCommands(p)
      PROVE  c \in Bundle(f)
  <2>1. PICK q \in Players : c \in Held(p, q, f)
    BY <1>7
  <2> QED BY <1>6, <2>1 DEF Issued, Bundle
<1>9. ASSUME NEW c \in Bundle(f)
      PROVE  c \in FrameCommands(p)
  <2>1. c.from \in Players /\ c \in Issued(c.from, f)
    BY DEF Bundle, Issued, IInv, Types, Command
  <2>2. c \in Held(p, c.from, f)
    BY <1>6, <2>1
  <2>3. HasFrameData(p, c.from)
    BY <1>4, <1>5, <2>1 DEF HasFrameData
  <2> QED BY <1>7, <2>1, <2>2, <2>3
<1> QED BY <1>3, <1>6, <1>8, <1>9

(* The new run ahead is that of the last change in the bundle, if any.     *)
LEMMA NewRunAheadFacts ==
  ASSUME IInv, NEW p \in Players, NEW f
  PROVE  LET changes == {c \in Bundle(f) : c.kind = "RUNAHEAD"}
         IN /\ NewRunAhead(p, Bundle(f)) \in MinRunAhead..MaxRunAhead
            /\ \/ changes = {} /\ NewRunAhead(p, Bundle(f)) = runAhead[p]
               \/ \E c \in changes : /\ NewRunAhead(p, Bundle(f)) = c.arg
                                     /\ \A d \in changes : d.id <= c.id
<1> DEFINE changes == {c \in Bundle(f) : c.kind = "RUNAHEAD"}
<1>1. CASE changes = {}
  <2>1. NewRunAhead(p, Bundle(f)) = runAhead[p]
    BY <1>1 DEF NewRunAhead
  <2>2. runAhead[p] \in MinRunAhead..MaxRunAhead
    BY DEF IInv, Types
  <2> QED BY <1>1, <2>1, <2>2
<1>2. CASE changes # {}
  <2>1. changes \in SUBSET scheduled
    BY DEF Bundle
  <2>2. \E c \in changes : \A d \in changes : d.id <= c.id
    BY <1>2, <2>1 DEF IInv, CommandsNumbered
  <2> DEFINE last == CHOOSE c \in changes : \A d \in changes : d.id <= c.id
  <2>3. last \in changes /\ \A d \in changes : d.id <= last.id
    BY <2>2
  <2>4. NewRunAhead(p, Bundle(f)) = last.arg
    BY <1>2 DEF NewRunAhead
  <2>5. last.arg \in MinRunAhead..MaxRunAhead
    BY <2>1, <2>3 DEF IInv, CommandsInRange
  <2> HIDE DEF last
  <2> QED BY <2>3, <2>4, <2>5
<1> QED BY <1>1, <1>2

(* A player's last command is on its horizon.                              *)
LEMMA GoneIsLast ==
  ASSUME IInv, NEW f, NEW q \in Players
  PROVE  q \in Gone(Bundle(f)) <=> status[q] # "INGAME" /\ Horizon(q) = f
<1>1. q \in Gone(Bundle(f)) <=>
        \E c \in scheduled : c.frame = f /\ c.kind = "PLAYERLEAVE" /\ c.from = q
  BY DEF Gone, Bundle
<1>2. \A c \in scheduled : c.kind = "PLAYERLEAVE" =>
        status[c.from] # "INGAME" /\ c.frame = Horizon(c.from)
  BY DEF IInv, CommandsInRange
<1>3. status[q] # "INGAME" => \E c \in scheduled : c.from = q /\ c.kind = "PLAYERLEAVE"
  BY DEF IInv, CommandsInRange
<1> QED BY <1>1, <1>2, <1>3

(* Player p executes frame f; r is its run ahead from then on, and exec the*)
(* frame it schedules for.                                                 *)
AdvanceStep(p, f, r, exec) ==
  /\ f \in Nat /\ f = frame[p] /\ f >= 1 /\ f <= Horizon(p)
  /\ \A q \in Players : Held(p, q, f) = Issued(q, f)
  /\ \A q \in Connected(p) : f <= Closed(q)
  /\ r = NewRunAhead(p, Bundle(f)) /\ r \in MinRunAhead..MaxRunAhead
  /\ exec \in Nat /\ exec >= lastExecution[p]
  /\ exec >= f + 1 + r /\ exec <= f + 1 + MaxRunAhead
  /\ frame' = [frame EXCEPT ![p] = f + 1]
  /\ executed' = [executed EXCEPT ![p] = Append(@, Bundle(f))]
  /\ runAhead' = [runAhead EXCEPT ![p] = r]
  /\ quitFrame' = [quitFrame EXCEPT ![p] =
       [q \in Players |-> IF q \in Gone(Bundle(f)) \ {p} /\ @[q] = None
                            THEN f + FramesToKeep + 1 ELSE @[q]]]
  /\ frameData' = [frameData EXCEPT ![p] = [q \in Players |->
       [s \in DOMAIN @[q] |-> IF s \in FrameToReset(p) THEN EmptyFrame ELSE @[q][s]]]]
  /\ status' = [status EXCEPT ![p] =
       IF status[p] # "INGAME" /\ Horizon(p) = f THEN "LEFT" ELSE @]
  /\ lastExecution' = [lastExecution EXCEPT ![p] =
                         IF status[p] = "INGAME" THEN exec ELSE @]
  /\ lastCompleted' = [lastCompleted EXCEPT ![p] =
                         IF status[p] = "INGAME" THEN exec - 1 ELSE @]
  /\ net' = net \cup Send(p, {FrameInfo(p, g, LocalCount(p, g)) :
                                g \in FramesToTick(p, exec)})
  /\ FramesToTick(p, exec) = IF status[p] = "INGAME" THEN Horizon(p)..(exec - 1) ELSE {}
  /\ UNCHANGED scheduled

LEMMA AdvanceIsAdvanceStep ==
  ASSUME IInv, NEW p \in Players, Advance(p)
  PROVE  /\ status[p] # "LEFT"
         /\ \E f, r, exec : AdvanceStep(p, f, r, exec)
<1> DEFINE f == frame[p]
<1> DEFINE r == NewRunAhead(p, Bundle(f))
<1> DEFINE exec == Max({lastExecution[p], f + 1 + r})
<1>1. status[p] # "LEFT" /\ AllCommandsReady(p)
  BY DEF Advance
<1>2. /\ \A q \in Players : Held(p, q, f) = Issued(q, f)
      /\ \A q \in Connected(p) : f <= Closed(q)
      /\ FrameCommands(p) = Bundle(f)
  BY <1>1, ReadyIsComplete
<1>3. r \in MinRunAhead..MaxRunAhead
  BY NewRunAheadFacts
<1>4. f \in Nat /\ f >= 1 /\ f <= Horizon(p)
  BY <1>1, Horizons DEF IInv
<1>5. lastExecution[p] \in Nat /\ lastExecution[p] <= f + MaxRunAhead
  BY DEF IInv, Types, CountersInStep
<1>6. status[p] \in {"INGAME", "LEAVING", "LEFT"}
  BY DEF IInv, Types
<1>7. /\ executed' = [executed EXCEPT ![p] = Append(@, Bundle(f))]
      /\ runAhead' = [runAhead EXCEPT ![p] = r]
      /\ quitFrame' = [quitFrame EXCEPT ![p] =
           [q \in Players |-> IF q \in Gone(Bundle(f)) \ {p} /\ @[q] = None
                                THEN f + FramesToKeep + 1 ELSE @[q]]]
      /\ frameData' = [frameData EXCEPT ![p] = [q \in Players |->
           [s \in DOMAIN @[q] |-> IF s \in FrameToReset(p) THEN EmptyFrame ELSE @[q][s]]]]
      /\ status' = [status EXCEPT ![p] = IF p \in Gone(Bundle(f)) THEN "LEFT" ELSE @]
      /\ lastExecution' = [lastExecution EXCEPT ![p] =
                             IF status[p] = "INGAME" THEN exec ELSE @]
      /\ lastCompleted' = [lastCompleted EXCEPT ![p] =
                             IF FramesToTick(p, exec) = {} THEN @ ELSE exec - 1]
      /\ net' = net \cup Send(p, {FrameInfo(p, g, LocalCount(p, g)) :
                                    g \in FramesToTick(p, exec)})
      /\ frame' = [frame EXCEPT ![p] = @ + 1]
      /\ UNCHANGED scheduled
  BY <1>2 DEF Advance
<1>8. (p \in Gone(Bundle(f))) <=> (status[p] # "INGAME" /\ Horizon(p) = f)
  BY GoneIsLast
<1>9. frame' = [frame EXCEPT ![p] = f + 1]
  BY <1>7
<1>10. status' = [status EXCEPT ![p] =
                    IF status[p] # "INGAME" /\ Horizon(p) = f THEN "LEFT" ELSE @]
  BY <1>7, <1>8
<1>11. status[p] = "INGAME" =>
         /\ Closed(p) = Horizon(p) - 1 /\ lastCompleted[p] = Closed(p)
         /\ Horizon(p) = lastExecution[p]
  BY Horizons DEF IInv, CountersInStep
<1> HIDE DEF r, f
<1>12. /\ exec \in Nat /\ exec >= lastExecution[p]
       /\ exec >= f + 1 + r /\ exec <= f + 1 + MaxRunAhead
  <2>1. exec = IF lastExecution[p] <= f + 1 + r THEN f + 1 + r ELSE lastExecution[p]
    BY <1>3, <1>4, <1>5, MaxOfTwo, Sizes
  <2> QED BY <1>3, <1>4, <1>5, <2>1, Sizes
<1> HIDE DEF exec
<1>13. FramesToTick(p, exec) = IF status[p] = "INGAME" THEN Horizon(p)..(exec - 1) ELSE {}
  BY <1>5, <1>11 DEF FramesToTick
<1>14. lastCompleted' = [lastCompleted EXCEPT ![p] =
                           IF status[p] = "INGAME" THEN exec - 1 ELSE @]
  <2>1. CASE FramesToTick(p, exec) # {}
    BY <1>7, <1>13, <2>1
  <2>2. CASE FramesToTick(p, exec) = {}
    <3>1. status[p] = "INGAME" => exec - 1 = lastCompleted[p]
      BY <1>5, <1>11, <1>12, <1>13, <2>2
    <3> QED BY <1>7, <2>2, <3>1
  <2> QED BY <2>1, <2>2
<1>15. AdvanceStep(p, f, r, exec)
  BY <1>2, <1>3, <1>4, <1>7, <1>9, <1>10, <1>12, <1>13, <1>14 DEF AdvanceStep, r, f
<1> QED BY <1>1, <1>15

LEMMA AdvanceCounters ==
  ASSUME IInv, NEW p \in Players, NEW f, NEW r, NEW exec,
         AdvanceStep(p, f, r, exec), status[p] # "LEFT"
  PROVE  /\ \A q \in Players : q # p =>
              /\ frame'[q] = frame[q] /\ status'[q] = status[q]
              /\ runAhead'[q] = runAhead[q] /\ executed'[q] = executed[q]
              /\ lastExecution'[q] = lastExecution[q]
              /\ lastCompleted'[q] = lastCompleted[q]
              /\ quitFrame'[q] = quitFrame[q] /\ frameData'[q] = frameData[q]
              /\ Horizon(q)' = Horizon(q) /\ Closed(q)' = Closed(q)
              /\ Reach(q)' = Reach(q) /\ Served(q)' = Served(q)
         /\ frame'[p] = f + 1 /\ runAhead'[p] = r
         /\ executed'[p] = Append(executed[p], Bundle(f))
         /\ status[p] = "INGAME" =>
              /\ status'[p] = "INGAME"
              /\ lastExecution'[p] = exec /\ lastCompleted'[p] = exec - 1
              /\ Horizon(p)' = exec /\ Closed(p)' = exec - 1
              /\ Reach(p)' = f + 1 + 2 * MaxRunAhead + 1
         /\ status[p] # "INGAME" =>
              /\ status'[p] = IF Horizon(p) = f THEN "LEFT" ELSE status[p]
              /\ lastExecution'[p] = lastExecution[p]
              /\ lastCompleted'[p] = lastCompleted[p]
              /\ Horizon(p)' = Horizon(p) /\ Closed(p)' = Closed(p)
              /\ Reach(p)' = Reach(p)
<1>1. /\ frame \in [Players -> Nat]
      /\ runAhead \in [Players -> MinRunAhead..MaxRunAhead]
      /\ lastExecution \in [Players -> Nat]
      /\ lastCompleted \in [Players -> Nat]
      /\ status \in [Players -> {"INGAME", "LEAVING", "LEFT"}]
      /\ frameData \in [Players -> [Players -> [Slots -> FrameData]]]
      /\ quitFrame \in [Players -> [Players -> Nat \cup {None}]]
      /\ executed \in [Players -> Seq(SUBSET Command)]
  BY DEF IInv, Types
<1>2. /\ frame' = [frame EXCEPT ![p] = f + 1]
      /\ runAhead' = [runAhead EXCEPT ![p] = r]
      /\ status' = [status EXCEPT ![p] =
           IF status[p] # "INGAME" /\ Horizon(p) = f THEN "LEFT" ELSE @]
      /\ lastExecution' = [lastExecution EXCEPT ![p] =
                             IF status[p] = "INGAME" THEN exec ELSE @]
      /\ lastCompleted' = [lastCompleted EXCEPT ![p] =
                             IF status[p] = "INGAME" THEN exec - 1 ELSE @]
      /\ executed' = [executed EXCEPT ![p] = Append(@, Bundle(f))]
  BY DEF AdvanceStep
<1>3. \A q \in Players : q # p =>
        /\ frame'[q] = frame[q] /\ status'[q] = status[q]
        /\ runAhead'[q] = runAhead[q] /\ executed'[q] = executed[q]
        /\ lastExecution'[q] = lastExecution[q]
        /\ lastCompleted'[q] = lastCompleted[q]
  BY <1>1, <1>2
<1>4. \A q \in Players : q # p => quitFrame'[q] = quitFrame[q]
  BY <1>1 DEF AdvanceStep
<1>5. \A q \in Players : q # p => frameData'[q] = frameData[q]
  BY <1>1 DEF AdvanceStep
<1>6. \A q \in Players : q # p =>
        /\ Horizon(q)' = Horizon(q) /\ Closed(q)' = Closed(q)
        /\ Reach(q)' = Reach(q) /\ Served(q)' = Served(q)
  BY <1>3 DEF Horizon, Closed, Reach, Served
<1>7. /\ frame'[p] = f + 1 /\ runAhead'[p] = r
      /\ executed'[p] = Append(executed[p], Bundle(f))
      /\ status'[p] = IF status[p] # "INGAME" /\ Horizon(p) = f THEN "LEFT" ELSE status[p]
      /\ lastExecution'[p] = IF status[p] = "INGAME" THEN exec ELSE lastExecution[p]
      /\ lastCompleted'[p] = IF status[p] = "INGAME" THEN exec - 1 ELSE lastCompleted[p]
  BY <1>1, <1>2
<1>8. status[p] = "INGAME" => /\ Horizon(p)' = exec /\ Closed(p)' = exec - 1
                              /\ Reach(p)' = f + 1 + 2 * MaxRunAhead + 1
  BY <1>7 DEF Horizon, Closed, Reach
<1>9. status[p] # "INGAME" =>
        /\ Horizon(p)' = Horizon(p) /\ Closed(p)' = Closed(p) /\ Reach(p)' = Reach(p)
  BY <1>7 DEF Horizon, Closed, Reach
<1> QED BY <1>3, <1>4, <1>5, <1>6, <1>7, <1>8, <1>9

(* What everybody may do grows only.                                       *)
LEMMA AdvanceHorizons ==
  ASSUME IInv, NEW p \in Players, NEW f, NEW r, NEW exec,
         AdvanceStep(p, f, r, exec), status[p] # "LEFT"
  PROVE  \A q \in Players :
           /\ Horizon(q)' >= Horizon(q) /\ Horizon(q)' \in Nat /\ Horizon(q) \in Nat
           /\ Closed(q)' >= Closed(q) /\ Closed(q)' \in Nat /\ Closed(q) \in Nat
           /\ Reach(q)' >= Reach(q) /\ Reach(q)' \in Int /\ Reach(q) \in Int
           /\ status[q] = "INGAME" <=> status'[q] = "INGAME"
           /\ status[q] # "INGAME" => Horizon(q)' = Horizon(q)
<1> SUFFICES ASSUME NEW q \in Players
             PROVE  /\ Horizon(q)' >= Horizon(q) /\ Horizon(q)' \in Nat /\ Horizon(q) \in Nat
                    /\ Closed(q)' >= Closed(q) /\ Closed(q)' \in Nat /\ Closed(q) \in Nat
                    /\ Reach(q)' >= Reach(q) /\ Reach(q)' \in Int /\ Reach(q) \in Int
                    /\ status[q] = "INGAME" <=> status'[q] = "INGAME"
                    /\ status[q] # "INGAME" => Horizon(q)' = Horizon(q)
  OBVIOUS
<1>1. Horizon(q) \in Nat /\ Closed(q) \in Nat /\ Reach(q) \in Int
  BY Horizons DEF IInv
<1>2. CASE q # p \/ status[q] # "INGAME"
  <2>1. /\ Horizon(q)' = Horizon(q) /\ Closed(q)' = Closed(q) /\ Reach(q)' = Reach(q)
    BY <1>2, AdvanceCounters
  <2>2. status[q] = "INGAME" <=> status'[q] = "INGAME"
    BY <1>2, AdvanceCounters
  <2> QED BY <1>1, <2>1, <2>2
<1>3. CASE q = p /\ status[p] = "INGAME"
  <2>1. /\ status'[p] = "INGAME" /\ Horizon(p)' = exec /\ Closed(p)' = exec - 1
        /\ Reach(p)' = f + 1 + 2 * MaxRunAhead + 1
    BY <1>3, AdvanceCounters
  <2>2. /\ f \in Nat /\ f = frame[p] /\ r \in MinRunAhead..MaxRunAhead
        /\ exec \in Nat /\ exec >= lastExecution[p] /\ exec >= f + 1 + r
    BY DEF AdvanceStep
  <2>3. /\ Horizon(p) = lastExecution[p] /\ Closed(p) = Horizon(p) - 1
        /\ Reach(p) = frame[p] + 2 * MaxRunAhead + 1
    BY <1>3, Horizons DEF IInv
  <2> QED BY <1>1, <1>3, <2>1, <2>2, <2>3, Sizes
<1> QED BY <1>2, <1>3

LEMMA AdvanceKeepsCounters ==
  ASSUME IInv, NEW p \in Players, NEW f, NEW r, NEW exec,
         AdvanceStep(p, f, r, exec), status[p] # "LEFT"
  PROVE  Types' /\ CountersInStep'
<1>1. /\ f \in Nat /\ f = frame[p] /\ f >= 1 /\ r \in MinRunAhead..MaxRunAhead
      /\ exec \in Nat /\ exec >= lastExecution[p] /\ exec >= f + 1 + r
      /\ exec <= f + 1 + MaxRunAhead /\ f <= Horizon(p) /\ UNCHANGED scheduled
  BY DEF AdvanceStep
<1>2. Types'
  <2>1. frameData' \in [Players -> [Players -> [Slots -> FrameData]]]
    <3>1. frameData \in [Players -> [Players -> [Slots -> FrameData]]]
      BY DEF IInv, Types
    <3>2. EmptyFrame \in FrameData
      BY DEF EmptyFrame, FrameData, None
    <3>3. [q \in Players |-> [s \in DOMAIN frameData[p][q] |->
             IF s \in FrameToReset(p) THEN EmptyFrame ELSE frameData[p][q][s]]]
          \in [Players -> [Slots -> FrameData]]
      BY <3>1, <3>2
    <3>4. frameData' = [frameData EXCEPT ![p] = [q \in Players |->
            [s \in DOMAIN frameData[p][q] |->
               IF s \in FrameToReset(p) THEN EmptyFrame ELSE frameData[p][q][s]]]]
      BY DEF AdvanceStep
    <3> QED BY <3>1, <3>3, <3>4
  <2>2. quitFrame' \in [Players -> [Players -> Nat \cup {None}]]
    <3>1. quitFrame \in [Players -> [Players -> Nat \cup {None}]]
      BY DEF IInv, Types
    <3>2. f + FramesToKeep + 1 \in Nat
      BY <1>1, Sizes
    <3> QED BY <3>1, <3>2 DEF AdvanceStep
  <2>3. executed' \in [Players -> Seq(SUBSET Command)]
        /\ \A q \in Players : Len(executed'[q]) = frame'[q] - 1
    <3>1. /\ executed \in [Players -> Seq(SUBSET Command)]
          /\ \A q \in Players : Len(executed[q]) = frame[q] - 1
      BY DEF IInv, Types
    <3>2. Bundle(f) \in SUBSET Command
      BY DEF Bundle, IInv, Types
    <3>3. /\ Append(executed[p], Bundle(f)) \in Seq(SUBSET Command)
          /\ Len(Append(executed[p], Bundle(f))) = Len(executed[p]) + 1
      BY <3>1, <3>2
    <3>4. executed' \in [Players -> Seq(SUBSET Command)]
      BY <3>1, <3>3 DEF AdvanceStep
    <3>5. ASSUME NEW q \in Players
          PROVE  Len(executed'[q]) = frame'[q] - 1
      <4>1. CASE q = p
        BY <1>1, <3>1, <3>3, <4>1, AdvanceCounters, SMTT(30)
      <4>2. CASE q # p
        BY <3>1, <4>2, AdvanceCounters
      <4> QED BY <4>1, <4>2
    <3> QED BY <3>4, <3>5
  <2>4. /\ frame' \in [Players -> Nat]
        /\ runAhead' \in [Players -> MinRunAhead..MaxRunAhead]
        /\ lastExecution' \in [Players -> Nat]
    <3>1. /\ frame \in [Players -> Nat]
          /\ runAhead \in [Players -> MinRunAhead..MaxRunAhead]
          /\ lastExecution \in [Players -> Nat]
      BY DEF IInv, Types
    <3>2. /\ frame' = [frame EXCEPT ![p] = f + 1]
          /\ runAhead' = [runAhead EXCEPT ![p] = r]
          /\ lastExecution' = [lastExecution EXCEPT ![p] =
                                 IF status[p] = "INGAME" THEN exec ELSE @]
      BY DEF AdvanceStep
    <3> QED BY <1>1, <3>1, <3>2
  <2>5. lastCompleted' \in [Players -> Nat]
    <3>1. exec - 1 \in Nat
      BY <1>1, Sizes
    <3>2. lastCompleted \in [Players -> Nat]
      BY DEF IInv, Types
    <3> QED BY <3>1, <3>2 DEF AdvanceStep
  <2>6. status' \in [Players -> {"INGAME", "LEAVING", "LEFT"}]
    <3>1. status \in [Players -> {"INGAME", "LEAVING", "LEFT"}]
      BY DEF IInv, Types
    <3> QED BY <3>1 DEF AdvanceStep
  <2>7. scheduled' \in SUBSET Command /\ IsFiniteSet(scheduled')
    BY <1>1 DEF IInv, Types
  <2> QED BY <2>1, <2>2, <2>3, <2>4, <2>5, <2>6, <2>7 DEF Types
<1>3. CountersInStep'
  <2>1. status'[Router] = "INGAME"
    BY Sizes, AdvanceHorizons DEF IInv, CountersInStep
  <2>2. ASSUME NEW q \in Players
        PROVE  /\ frame'[q] >= 1
               /\ lastExecution'[q] > InitialRunAhead
               /\ lastExecution'[q] <= frame'[q] + MaxRunAhead
               /\ status'[q] = "INGAME" =>
                    /\ lastExecution'[q] >= frame'[q] + runAhead'[q]
                    /\ lastCompleted'[q] = Closed(q)'
               /\ status'[q] = "LEAVING" => frame'[q] <= Horizon(q)'
               /\ status'[q] = "LEFT" => frame'[q] = Horizon(q)' + 1
    <3>1. CASE q # p
      BY <3>1, AdvanceCounters DEF IInv, CountersInStep
    <3>2. CASE q = p
      <4>1. /\ lastExecution[p] \in Nat /\ lastExecution[p] > InitialRunAhead
            /\ lastExecution[p] <= f + MaxRunAhead
            /\ frame'[p] = f + 1 /\ runAhead'[p] = r /\ Horizon(p) \in Nat
        <5>1. /\ lastExecution[p] \in Nat /\ lastExecution[p] > InitialRunAhead
              /\ lastExecution[p] <= f + MaxRunAhead
          BY <1>1 DEF IInv, Types, CountersInStep
        <5>2. frame'[p] = f + 1 /\ runAhead'[p] = r
          BY AdvanceCounters
        <5>3. Horizon(p) \in Nat
          BY Horizons DEF IInv
        <5> QED BY <5>1, <5>2, <5>3
      <4>2. CASE status[p] = "INGAME"
        <5>1. /\ status'[p] = "INGAME" /\ lastExecution'[p] = exec
              /\ lastCompleted'[p] = exec - 1 /\ Closed(p)' = exec - 1
          BY <4>2, AdvanceCounters
        <5> QED BY <1>1, <3>2, <4>1, <5>1, Sizes
      <4>3. CASE status[p] # "INGAME"
        <5>1. /\ status'[p] = IF Horizon(p) = f THEN "LEFT" ELSE status[p]
              /\ lastExecution'[p] = lastExecution[p] /\ Horizon(p)' = Horizon(p)
          BY <4>3, AdvanceCounters
        <5>2. status[p] = "LEAVING"
          BY <4>3 DEF IInv, Types
        <5> QED BY <1>1, <3>2, <4>1, <5>1, <5>2, Sizes
      <4> QED BY <4>2, <4>3
    <3> QED BY <3>1, <3>2
  <2> QED BY <2>1, <2>2 DEF CountersInStep
<1> QED BY <1>2, <1>3

LEMMA AdvanceKeepsCommands ==
  ASSUME IInv, NEW p \in Players, NEW f, NEW r, NEW exec,
         AdvanceStep(p, f, r, exec), status[p] # "LEFT"
  PROVE  CommandsInRange' /\ CommandsNumbered'
<1>1. UNCHANGED scheduled
  BY DEF AdvanceStep
<1>2. CommandsInRange'
  <2>1. ASSUME NEW c \in scheduled
        PROVE  /\ c.frame > InitialRunAhead /\ c.frame <= Horizon(c.from)'
               /\ c.kind = "RUNAHEAD" => c.from = Router /\ c.arg \in MinRunAhead..MaxRunAhead
               /\ c.kind = "PLAYERLEAVE" =>
                    status'[c.from] # "INGAME" /\ c.frame = Horizon(c.from)'
    <3>1. c.from \in Players /\ c.frame \in Nat
      BY DEF IInv, Types, Command
    <3>2. /\ c.frame > InitialRunAhead /\ c.frame <= Horizon(c.from)
          /\ c.kind = "RUNAHEAD" => c.from = Router /\ c.arg \in MinRunAhead..MaxRunAhead
          /\ c.kind = "PLAYERLEAVE" => status[c.from] # "INGAME" /\ c.frame = Horizon(c.from)
      BY DEF IInv, CommandsInRange
    <3>3. /\ Horizon(c.from)' >= Horizon(c.from)
          /\ Horizon(c.from)' \in Nat /\ Horizon(c.from) \in Nat
          /\ status[c.from] # "INGAME" =>
               status'[c.from] # "INGAME" /\ Horizon(c.from)' = Horizon(c.from)
      BY <3>1, AdvanceHorizons
    <3>4. c.frame <= Horizon(c.from)'
      BY <3>1, <3>2, <3>3
    <3> QED BY <3>2, <3>3, <3>4
  <2>2. ASSUME NEW q \in Players, status'[q] # "INGAME"
        PROVE  \E c \in scheduled' : c.from = q /\ c.kind = "PLAYERLEAVE"
    <3>1. status[q] # "INGAME"
      BY <2>2, AdvanceHorizons
    <3> QED BY <1>1, <3>1 DEF IInv, CommandsInRange
  <2> QED BY <1>1, <2>1, <2>2 DEF CommandsInRange
<1>3. CommandsNumbered'
  <2>1. \A q : IssuedBy(q)' = IssuedBy(q)
    BY <1>1 DEF IssuedBy
  <2> QED BY <1>1, <2>1 DEF IInv, CommandsNumbered
<1> QED BY <1>2, <1>3

(* The counts a player announces are of the frames it closes, and right.   *)
LEMMA TickedCounts ==
  ASSUME IInv, NEW p \in Players, NEW f, NEW r, NEW exec,
         AdvanceStep(p, f, r, exec), status[p] # "LEFT",
         NEW g \in FramesToTick(p, exec)
  PROVE  /\ g \in 1..Closed(p)' /\ g <= Horizon(p)'
         /\ LocalCount(p, g) = Cardinality(Issued(p, g))
         /\ p = Router => g <= f + MaxRunAhead
<1>1. /\ status[p] = "INGAME" /\ g \in Horizon(p)..(exec - 1)
      /\ exec \in Nat /\ exec <= f + 1 + MaxRunAhead /\ f = frame[p] /\ f \in Nat
  BY DEF AdvanceStep
<1>2. Closed(p)' = exec - 1 /\ Horizon(p)' = exec
  BY <1>1, AdvanceCounters
<1>3. Horizon(p) \in Nat /\ frame[p] < Horizon(p)
  BY <1>1, Horizons DEF IInv
<1>4. g \in Int /\ g > f /\ g <= f + MaxRunAhead
  BY <1>1, <1>3, Sizes
<1>5. g \in Served(p)
  BY <1>1, <1>4, Sizes DEF Served
<1>6. LocalCount(p, g) = Cardinality(Issued(p, g))
  BY <1>5, OwnHeld DEF IInv
<1> QED BY <1>1, <1>2, <1>4, <1>6

LEMMA AdvanceKeepsMessages ==
  ASSUME IInv, NEW p \in Players, NEW f, NEW r, NEW exec,
         AdvanceStep(p, f, r, exec), status[p] # "LEFT"
  PROVE  MessagesTrue'
<1> DEFINE ticked == {FrameInfo(p, g, LocalCount(p, g)) : g \in FramesToTick(p, exec)}
<1>1. /\ net' = net \cup Send(p, ticked) /\ UNCHANGED scheduled
      /\ f = frame[p] /\ f \in Nat
  BY DEF AdvanceStep
<1>2. \A q, g : Issued(q, g)' = Issued(q, g)
  BY <1>1 DEF Issued
<1>3. \A q \in Players : status'[q] = "LEAVING" => status[q] = "LEAVING"
  BY AdvanceCounters
<1>4. ASSUME NEW m \in net
      PROVE  MessageTrue(m)'
  <2>1. MessageTrue(m)
    BY DEF IInv, MessagesTrue
  <2>2. m.to \in Players /\ m.cmd.from \in Players /\ m.to # m.cmd.from
    BY <2>1 DEF MessageTrue
  <2>3. m.cmd.frame \in Nat
    BY MessageHorizon
  <2>4. /\ Closed(m.cmd.from)' >= Closed(m.cmd.from)
        /\ Closed(m.cmd.from)' \in Nat /\ Closed(m.cmd.from) \in Nat
        /\ Reach(m.to)' >= Reach(m.to) /\ Reach(m.to)' \in Int /\ Reach(m.to) \in Int
    BY <2>2, AdvanceHorizons
  <2>5. m.cmd.kind = "FRAMEINFO" =>
          /\ m.cmd.frame \in 1..Closed(m.cmd.from)'
          /\ m.cmd.arg = Cardinality(Issued(m.cmd.from, m.cmd.frame)')
    BY <1>2, <2>1, <2>3, <2>4 DEF MessageTrue
  <2>6. status'[m.to] = "LEAVING" => m.cmd.frame <= Reach(m.to)'
    BY <1>3, <2>1, <2>2, <2>3, <2>4 DEF MessageTrue
  <2>7. m.cmd.kind # "FRAMEINFO" => m.cmd \in scheduled'
    BY <1>1, <2>1 DEF MessageTrue
  <2> QED BY <2>2, <2>5, <2>6, <2>7 DEF MessageTrue
<1>5. ASSUME NEW m \in Send(p, ticked)
      PROVE  MessageTrue(m)'
  <2>1. /\ m.to \in Players /\ m.to # p /\ m.cmd \in ticked
        /\ m.to = Router \/ (p = Router /\ m.to \in Connected(p))
    BY SentToOthers DEF IInv
  <2>2. PICK g \in FramesToTick(p, exec) : m.cmd = FrameInfo(p, g, LocalCount(p, g))
    BY <2>1
  <2>3. /\ m.cmd.from = p /\ m.cmd.kind = "FRAMEINFO"
        /\ m.cmd.frame = g /\ m.cmd.arg = LocalCount(p, g)
    BY <2>2 DEF FrameInfo
  <2>4. /\ g \in 1..Closed(p)' /\ LocalCount(p, g) = Cardinality(Issued(p, g))
        /\ p = Router => g <= f + MaxRunAhead
    BY TickedCounts
  <2>5. status'[m.to] = "LEAVING" => g <= Reach(m.to)'
    <3>1. SUFFICES ASSUME status'[m.to] = "LEAVING"
                   PROVE  g <= Reach(m.to)'
      OBVIOUS
    <3>2. status[m.to] = "LEAVING" /\ status[Router] = "INGAME"
      BY <1>3, <2>1, <3>1 DEF IInv, CountersInStep
    <3>3. p = Router /\ quitFrame[Router][m.to] = None
      BY <2>1, <3>2 DEF Connected
    <3>4. frame[p] <= Horizon(m.to)
      BY <2>1, <3>3 DEF IInv, NobodyRunsAway
    <3>5. /\ Reach(m.to) = Horizon(m.to) + 2 * MaxRunAhead + 1 /\ Horizon(m.to) \in Nat
      BY <2>1, <3>2, Horizons DEF IInv
    <3>6. Reach(m.to)' >= Reach(m.to) /\ Reach(m.to)' \in Int /\ Reach(m.to) \in Int
      BY <2>1, AdvanceHorizons
    <3>7. g \in Int /\ g <= f + MaxRunAhead
      BY <2>4, <3>3
    <3> QED BY <1>1, <3>4, <3>5, <3>6, <3>7, Sizes
  <2> QED BY <1>2, <2>1, <2>3, <2>4, <2>5 DEF MessageTrue
<1> QED BY <1>1, <1>4, <1>5 DEF MessagesTrue

(* The players that leave with the bundle are not connected any more.      *)
LEMMA AdvanceConnected ==
  ASSUME IInv, NEW p \in Players, NEW f, NEW r, NEW exec,
         AdvanceStep(p, f, r, exec), NEW q \in Players
  PROVE  quitFrame'[p][q] = None <=>
           quitFrame[p][q] = None /\ ~(q # p /\ status[q] # "INGAME" /\ Horizon(q) = f)
<1>1. quitFrame \in [Players -> [Players -> Nat \cup {None}]]
  BY DEF IInv, Types
<1>2. quitFrame' = [quitFrame EXCEPT ![p] =
        [z \in Players |-> IF z \in Gone(Bundle(f)) \ {p} /\ @[z] = None
                             THEN f + FramesToKeep + 1 ELSE @[z]]]
  BY DEF AdvanceStep
<1>3. quitFrame'[p][q] = IF q \in Gone(Bundle(f)) \ {p} /\ quitFrame[p][q] = None
                           THEN f + FramesToKeep + 1 ELSE quitFrame[p][q]
  BY <1>1, <1>2
<1>4. f + FramesToKeep + 1 # None
  BY Sizes, SMTT(30) DEF AdvanceStep, None
<1> QED BY <1>3, <1>4, GoneIsLast

LEMMA AdvanceKeepsDrift ==
  ASSUME IInv, NEW p \in Players, NEW f, NEW r, NEW exec,
         AdvanceStep(p, f, r, exec), status[p] # "LEFT"
  PROVE  NobodyRunsAway'
<1> SUFFICES ASSUME NEW q \in Players, NEW z \in Players
             PROVE  /\ quitFrame'[q][z] = None => q = z \/ frame'[q] <= Horizon(z)'
                    /\ quitFrame'[q][z] # None =>
                         q # z /\ status'[z] # "INGAME" /\ frame'[q] > Horizon(z)'
  BY DEF NobodyRunsAway
<1>1. /\ quitFrame[q][z] = None => q = z \/ frame[q] <= Horizon(z)
      /\ quitFrame[q][z] # None =>
           q # z /\ status[z] # "INGAME" /\ frame[q] > Horizon(z)
  BY DEF IInv, NobodyRunsAway
<1>2. /\ Horizon(z)' >= Horizon(z) /\ Horizon(z)' \in Nat /\ Horizon(z) \in Nat
      /\ status[z] = "INGAME" <=> status'[z] = "INGAME"
      /\ status[z] # "INGAME" => Horizon(z)' = Horizon(z)
  BY AdvanceHorizons
<1>3. frame[q] \in Nat /\ f \in Nat /\ f = frame[p] /\ frame'[p] = f + 1
  BY AdvanceCounters DEF AdvanceStep, IInv, Types
<1>4. CASE q # p
  <2>1. frame'[q] = frame[q] /\ quitFrame'[q][z] = quitFrame[q][z]
    BY <1>4, AdvanceCounters
  <2> QED BY <1>1, <1>2, <1>3, <2>1
<1>5. CASE q = p
  <2>1. quitFrame'[p][z] = None <=>
          quitFrame[p][z] = None /\ ~(z # p /\ status[z] # "INGAME" /\ Horizon(z) = f)
    BY AdvanceConnected
  <2>2. CASE quitFrame'[p][z] # None
    BY <1>1, <1>2, <1>3, <1>5, <2>1, <2>2
  <2>3. CASE quitFrame'[p][z] = None /\ z # p
    <3>1. z \in Connected(p)
      BY <2>1, <2>3 DEF Connected
    <3>2. f <= Closed(z)
      BY <3>1 DEF AdvanceStep
    <3>3. f < Horizon(z)
      BY <1>1, <1>2, <1>3, <1>5, <2>1, <2>3, <3>2, Horizons DEF IInv
    <3> QED BY <1>2, <1>3, <1>5, <2>3, <3>3
  <2> QED BY <1>5, <2>2, <2>3
<1> QED BY <1>4, <1>5

(* The slot of the frame that is old enough is emptied, and no other.      *)
LEMMA AdvanceData ==
  ASSUME IInv, NEW p \in Players, NEW f, NEW r, NEW exec,
         AdvanceStep(p, f, r, exec), NEW q \in Players, NEW s \in Slots
  PROVE  /\ f > FramesToKeep /\ s = Slot(f - FramesToKeep) =>
              frameData'[p][q][s] = EmptyFrame
         /\ ~(f > FramesToKeep /\ s = Slot(f - FramesToKeep)) =>
              frameData'[p][q][s] = frameData[p][q][s]
<1>1. frameData \in [Players -> [Players -> [Slots -> FrameData]]]
  BY DEF IInv, Types
<1>2. frameData' = [frameData EXCEPT ![p] = [z \in Players |->
        [t \in DOMAIN @[z] |-> IF t \in FrameToReset(p) THEN EmptyFrame ELSE @[z][t]]]]
  BY DEF AdvanceStep
<1>3. frameData'[p][q][s] = IF s \in FrameToReset(p) THEN EmptyFrame
                                                    ELSE frameData[p][q][s]
  BY <1>1, <1>2
<1>4. s \in FrameToReset(p) <=> f > FramesToKeep /\ s = Slot(f - FramesToKeep)
  BY DEF FrameToReset, AdvanceStep
<1> QED BY <1>3, <1>4

(* Nothing of the frames still in the window goes with it.                 *)
LEMMA AdvanceWindow ==
  ASSUME IInv, NEW p \in Players, NEW f, NEW r, NEW exec,
         AdvanceStep(p, f, r, exec), status[p] # "LEFT",
         NEW g \in Window(p)
  PROVE  g \in Window(p)' \/ g = f - FramesToKeep
<1>1. /\ Reach(p)' >= Reach(p) /\ Reach(p)' \in Int /\ Reach(p) \in Int
  BY AdvanceHorizons
<1>2. f \in Nat /\ f = frame[p]
  BY DEF AdvanceStep
<1>3. frame'[p] = f + 1
  BY AdvanceCounters
<1> QED BY <1>1, <1>2, <1>3, Sizes DEF Window

LEMMA AdvanceKeepsHeld ==
  ASSUME IInv, NEW p \in Players, NEW f, NEW r, NEW exec,
         AdvanceStep(p, f, r, exec), status[p] # "LEFT"
  PROVE  HeldTrue' /\ CountsTrue' /\ OwnComplete'
<1>1. /\ UNCHANGED scheduled /\ f \in Nat /\ f = frame[p] /\ f >= 1
      /\ f <= Horizon(p)
  BY DEF AdvanceStep
<1>2. \A q \in Players : q # p => Window(q)' = Window(q) /\ frameData'[q] = frameData[q]
  BY AdvanceCounters DEF Window
<1>3. \A g : g \in Window(p) => g \in Window(p)' \/ g = f - FramesToKeep
  BY AdvanceWindow
<1>4. \A q \in Players : \A s \in Slots :
        /\ f > FramesToKeep /\ s = Slot(f - FramesToKeep) =>
             frameData'[p][q][s] = EmptyFrame
        /\ ~(f > FramesToKeep /\ s = Slot(f - FramesToKeep)) =>
             frameData'[p][q][s] = frameData[p][q][s]
  BY AdvanceData
<1>5. EmptyFrame.cmds = {} /\ EmptyFrame.count = None
  BY DEF EmptyFrame
<1>6. HeldTrue'
  <2> SUFFICES ASSUME NEW q \in Players, NEW z \in Players, NEW s \in Slots,
                      NEW c \in frameData'[q][z][s].cmds
               PROVE  /\ c \in scheduled /\ c.from = z
                      /\ Slot(c.frame) = s /\ c.frame \in Window(q)'
    BY <1>1 DEF HeldTrue
  <2>1. CASE q # p
    BY <1>2, <2>1 DEF IInv, HeldTrue
  <2>2. CASE q = p
    <3>1. /\ ~(f > FramesToKeep /\ s = Slot(f - FramesToKeep))
          /\ c \in frameData[p][z][s].cmds
      BY <1>4, <1>5, <2>2
    <3>2. c \in scheduled /\ c.from = z /\ Slot(c.frame) = s /\ c.frame \in Window(p)
      BY <3>1 DEF IInv, HeldTrue
    <3>3. c.frame # f - FramesToKeep
      <4>1. c.frame > InitialRunAhead /\ c.frame \in Nat
        BY <3>2 DEF IInv, CommandsInRange, Types, Command
      <4> QED BY <1>1, <3>1, <3>2, <4>1, Sizes
    <3> QED BY <1>3, <2>2, <3>2, <3>3
  <2> QED BY <2>1, <2>2
<1>7. CountsTrue'
  <2> SUFFICES ASSUME NEW q \in Players, NEW z \in Players, NEW s \in Slots,
                      q # z, frameData'[q][z][s].count # None
               PROVE  CountTrue(q, z, s)'
    BY DEF CountsTrue
  <2>1. frameData'[q][z][s] = frameData[q][z][s]
    BY <1>2, <1>4, <1>5
  <2>2. PICK g \in Window(q) :
          /\ g \in 1..Closed(z) /\ Slot(g) = s
          /\ frameData[q][z][s].count = Cardinality(Issued(z, g))
    BY <2>1 DEF IInv, CountsTrue, CountTrue
  <2>3. g \in Window(q)'
    <3>1. CASE q # p
      BY <1>2, <3>1
    <3>2. CASE q = p
      <4>1. ~(f > FramesToKeep /\ s = Slot(f - FramesToKeep))
        BY <1>4, <1>5, <3>2
      <4>2. g # f - FramesToKeep
        BY <1>1, <2>2, <4>1, Sizes
      <4> QED BY <1>3, <3>2, <4>2
    <3> QED BY <3>1, <3>2
  <2>4. g \in 1..Closed(z)'
    <3>1. Closed(z)' >= Closed(z) /\ Closed(z)' \in Nat /\ Closed(z) \in Nat
      BY AdvanceHorizons
    <3> QED BY <2>2, <3>1
  <2>5. Issued(z, g)' = Issued(z, g)
    BY <1>1 DEF Issued
  <2> QED BY <2>1, <2>2, <2>3, <2>4, <2>5 DEF CountTrue
<1>8. OwnComplete'
  <2> SUFFICES ASSUME NEW c \in scheduled, c.frame >= frame'[c.from] - FramesToKeep
               PROVE  c \in frameData'[c.from][c.from][Slot(c.frame)].cmds
    BY <1>1 DEF OwnComplete, Held
  <2>1. /\ c.from \in Players /\ c.frame \in Nat /\ c.frame <= Horizon(c.from)
    BY DEF IInv, Types, Command, CommandsInRange
  <2>2. Slot(c.frame) \in Slots
    BY <2>1, SlotInRing
  <2>3. CASE c.from # p
    BY <1>2, <2>1, <2>3, AdvanceCounters DEF IInv, OwnComplete, Held
  <2>4. CASE c.from = p
    <3>1. frame'[p] = f + 1
      BY AdvanceCounters
    <3>2. c.frame > f - FramesToKeep /\ c.frame >= f - FramesToKeep
      BY <1>1, <2>1, <2>4, <3>1, Sizes
    <3>3. c \in frameData[p][p][Slot(c.frame)].cmds
      BY <1>1, <2>4, <3>2 DEF IInv, OwnComplete, Held
    <3>4. Slot(c.frame) # Slot(f - FramesToKeep)
      <4>1. Horizon(p) <= f + MaxRunAhead + 1 /\ Horizon(p) \in Nat
        BY <1>1, Horizons DEF IInv
      <4>2. /\ f - FramesToKeep \in Int
            /\ c.frame - (f - FramesToKeep) < FrameDataLength
            /\ (f - FramesToKeep) - c.frame < FrameDataLength
            /\ c.frame # f - FramesToKeep
        BY <1>1, <2>1, <2>4, <3>2, <4>1, Sizes
      <4> QED BY <2>1, <4>2, SlotInjective
    <3> QED BY <1>4, <2>2, <2>4, <3>3, <3>4
  <2> QED BY <2>3, <2>4
<1> QED BY <1>6, <1>7, <1>8

LEMMA AdvanceKeepsKept ==
  ASSUME IInv, NEW p \in Players, NEW f, NEW r, NEW exec,
         AdvanceStep(p, f, r, exec), status[p] # "LEFT"
  PROVE  KeptComplete'
<1> SUFFICES ASSUME NEW q \in Players, NEW z \in Players, NEW g \in Served(q)',
                    g \in 1..(frame'[q] - 1)
             PROVE  Held(q, z, g)' = Issued(z, g)'
  BY DEF KeptComplete
<1>1. /\ UNCHANGED scheduled /\ f \in Nat /\ f = frame[p] /\ f >= 1
      /\ \A y \in Players : Held(p, y, f) = Issued(y, f)
  BY DEF AdvanceStep
<1>2. Issued(z, g)' = Issued(z, g)
  BY <1>1 DEF Issued
<1>3. CASE q # p
  <2>1. /\ frame'[q] = frame[q] /\ Served(q)' = Served(q) /\ frameData'[q] = frameData[q]
    BY <1>3, AdvanceCounters
  <2> QED BY <1>2, <2>1 DEF IInv, KeptComplete, Held
<1>4. CASE q = p
  <2>1. frame'[p] = f + 1
    BY AdvanceCounters
  <2>2. g \in 1..f
    BY <1>1, <1>4, <2>1
  <2>3. g >= f + 1 - FramesToKeep
    BY <1>1, <1>4, <2>1, <2>2, Sizes DEF Served
  <2>4. Held(p, z, g) = Issued(z, g)
    <3>1. CASE g = f
      BY <1>1, <3>1
    <3>2. CASE g # f
      <4>1. g \in 1..(frame[p] - 1)
        BY <1>1, <2>2, <3>2
      <4>2. g \in Served(p)
        <5>1. status[p] # "INGAME" =>
                status'[p] # "INGAME" /\ lastExecution'[p] = lastExecution[p]
          BY AdvanceCounters, AdvanceHorizons
        <5>2. status[p] # "INGAME" => g - lastExecution[p] \in (1 - FramesToKeep)..1
          BY <1>4, <5>1 DEF Served
        <5>3. g \in (frame[p] - FramesToKeep)..(frame[p] + 2 * MaxRunAhead + 1)
          BY <1>1, <2>2, <2>3, Sizes
        <5> QED BY <5>2, <5>3 DEF Served
      <4> QED BY <4>1, <4>2 DEF IInv, KeptComplete
    <3> QED BY <3>1, <3>2
  <2>5. Slot(g) # Slot(f - FramesToKeep)
    <3>1. /\ f - FramesToKeep \in Int /\ g \in Int /\ g # f - FramesToKeep
          /\ g - (f - FramesToKeep) < FrameDataLength
          /\ (f - FramesToKeep) - g < FrameDataLength
      BY <1>1, <2>2, <2>3, Sizes
    <3> QED BY <3>1, SlotInjective
  <2>6. Slot(g) \in Slots
    BY <2>2, SlotInRing
  <2>7. Held(p, z, g)' = Held(p, z, g)
    BY <2>5, <2>6, AdvanceData DEF Held
  <2> QED BY <1>2, <1>4, <2>4, <2>7
<1> QED BY <1>3, <1>4

LEMMA AdvanceKeepsLog ==
  ASSUME IInv, NEW p \in Players, NEW f, NEW r, NEW exec,
         AdvanceStep(p, f, r, exec), status[p] # "LEFT"
  PROVE  LogTrue' /\ RunAheadFromLog' /\ SomebodyLeads'
<1>1. /\ UNCHANGED scheduled /\ f \in Nat /\ f = frame[p] /\ f >= 1
      /\ r = NewRunAhead(p, Bundle(f))
  BY DEF AdvanceStep
<1>2. /\ frame'[p] = f + 1 /\ runAhead'[p] = r
      /\ executed'[p] = Append(executed[p], Bundle(f))
  BY AdvanceCounters
<1>3. \A q \in Players : q # p =>
        frame'[q] = frame[q] /\ runAhead'[q] = runAhead[q] /\ executed'[q] = executed[q]
  BY AdvanceCounters
<1>4. \A g : Bundle(g)' = Bundle(g) /\ Changes(g)' = Changes(g)
  BY <1>1 DEF Bundle, Changes
<1>5. \A q \in Players : frame[q] \in Nat
  BY DEF IInv, Types
<1>6. LogTrue'
  <2> SUFFICES ASSUME NEW q \in Players, NEW g \in 1..(frame'[q] - 1)
               PROVE  executed'[q][g] = Bundle(g)
    BY <1>4 DEF LogTrue
  <2>1. CASE q # p
    BY <1>3, <2>1 DEF IInv, LogTrue
  <2>2. CASE q = p
    <3>1. executed[p] \in Seq(SUBSET Command) /\ Len(executed[p]) = f - 1
      BY <1>1 DEF IInv, Types
    <3>2. g \in 1..f
      BY <1>1, <1>2, <2>2
    <3>3. Append(executed[p], Bundle(f))[g] = IF g = f THEN Bundle(f) ELSE executed[p][g]
      BY <1>1, <3>1, <3>2
    <3>4. g # f => executed[p][g] = Bundle(g)
      <4>1. g # f => g \in 1..(frame[p] - 1)
        BY <1>1, <3>2
      <4> QED BY <4>1 DEF IInv, LogTrue
    <3> QED BY <1>2, <2>2, <3>3, <3>4
  <2> QED BY <2>1, <2>2
<1>7. RunAheadFromLog'
  <2> SUFFICES ASSUME NEW q \in Players
               PROVE  \/ Changes(frame'[q]) = {} /\ runAhead'[q] = InitialRunAhead
                      \/ \E c \in Changes(frame'[q]) :
                           /\ runAhead'[q] = c.arg
                           /\ \A d \in Changes(frame'[q]) : NotAfter(d, c)
    BY <1>1, <1>4 DEF RunAheadFromLog, Changes, NotAfter
  <2>1. \/ Changes(frame[q]) = {} /\ runAhead[q] = InitialRunAhead
        \/ \E c \in Changes(frame[q]) :
             runAhead[q] = c.arg /\ \A d \in Changes(frame[q]) : NotAfter(d, c)
    BY DEF IInv, RunAheadFromLog
  <2>2. CASE q # p
    BY <1>3, <2>1, <2>2
  <2>3. CASE q = p
    <3> DEFINE new == {c \in Bundle(f) : c.kind = "RUNAHEAD"}
    <3>1. \A c \in scheduled : c.frame \in Nat
      BY DEF IInv, Types, Command
    <3>2. Changes(f + 1) = Changes(f) \cup new
      BY <1>1, <3>1 DEF Changes, Bundle
    <3>3. \/ new = {} /\ r = runAhead[p]
          \/ \E c \in new : r = c.arg /\ \A d \in new : d.id <= c.id
      BY <1>1, NewRunAheadFacts
    <3>4. \A c \in new : c.frame = f
      BY DEF Bundle
    <3>5. \A d \in Changes(f) : d.frame < f
      BY DEF Changes
    <3> HIDE DEF new
    <3>6. CASE new = {}
      BY <1>1, <1>2, <2>1, <2>3, <3>2, <3>3, <3>6
    <3>7. CASE new # {}
      <4>1. PICK c \in new : r = c.arg /\ \A d \in new : d.id <= c.id
        BY <3>3, <3>7
      <4>2. \A d \in Changes(f + 1) : NotAfter(d, c)
        BY <3>2, <3>4, <3>5, <4>1 DEF NotAfter
      <4> QED BY <1>2, <2>3, <3>2, <4>1, <4>2
    <3> QED BY <3>6, <3>7
  <2> QED BY <2>2, <2>3
<1>8. SomebodyLeads'
  <2>1. PICK q \in Players : \A z \in Players : frame[z] <= frame[q]
    BY DEF IInv, SomebodyLeads
  <2>2. CASE frame[q] = f
    <3>1. \A z \in Players : frame'[z] <= frame'[p]
      BY <1>1, <1>2, <1>3, <1>5, <2>1, <2>2
    <3> QED BY <3>1 DEF SomebodyLeads
  <2>3. CASE frame[q] # f
    <3>1. \A z \in Players : frame'[z] <= frame'[q]
      BY <1>1, <1>2, <1>3, <1>5, <2>1, <2>3
    <3> QED BY <3>1 DEF SomebodyLeads
  <2> QED BY <2>2, <2>3
<1> QED BY <1>6, <1>7, <1>8

LEMMA AdvanceKeepsInv ==
  ASSUME IInv, NEW p \in Players, Advance(p)
  PROVE  IInv'
<1>1. status[p] # "LEFT"
  BY AdvanceIsAdvanceStep
<1>2. PICK f, r, exec : AdvanceStep(p, f, r, exec)
  BY AdvanceIsAdvanceStep
<1>3. Types' /\ CountersInStep'
  BY <1>1, <1>2, AdvanceKeepsCounters
<1>4. CommandsInRange' /\ CommandsNumbered'
  BY <1>1, <1>2, AdvanceKeepsCommands
<1>5. MessagesTrue'
  BY <1>1, <1>2, AdvanceKeepsMessages
<1>6. NobodyRunsAway'
  BY <1>1, <1>2, AdvanceKeepsDrift
<1>7. HeldTrue' /\ CountsTrue' /\ OwnComplete'
  BY <1>1, <1>2, AdvanceKeepsHeld
<1>8. KeptComplete'
  BY <1>1, <1>2, AdvanceKeepsKept
<1>9. LogTrue' /\ RunAheadFromLog' /\ SomebodyLeads'
  BY <1>1, <1>2, AdvanceKeepsLog
<1> QED BY <1>3, <1>4, <1>5, <1>6, <1>7, <1>8, <1>9 DEF IInv

-----------------------------------------------------------------------------

LEMMA InvInductive ==
  IInv /\ [Next]_vars => IInv'
<1> SUFFICES ASSUME IInv, [Next]_vars
             PROVE  IInv'
  OBVIOUS
<1>1. ASSUME NEW p \in Players, IssueCommand(p) \/ ChangeRunAhead(p) \/ Leave(p)
      PROVE  IInv'
  BY <1>1, ScheduleKeepsInv
<1>2. ASSUME NEW p \in Players, Advance(p)
      PROVE  IInv'
  BY <1>2, AdvanceKeepsInv
<1>3. ASSUME NEW m \in net, Receive(m)
      PROVE  IInv'
  BY <1>3, ReceiveKeepsInv
<1>4. CASE UNCHANGED vars
  <2>1. UNCHANGED <<frame, runAhead, lastExecution, lastCompleted, status,
                    frameData, quitFrame, net, scheduled, executed>>
    BY <1>4 DEF vars
  <2>2. Types' /\ CountersInStep' /\ SomebodyLeads' /\ LogTrue'
    BY <2>1 DEF IInv, Types, CountersInStep, SomebodyLeads, LogTrue, Horizon,
                Closed, Bundle
  <2>3. CommandsInRange' /\ CommandsNumbered'
    BY <2>1 DEF IInv, CommandsInRange, CommandsNumbered, Horizon, IssuedBy
  <2>4. MessagesTrue'
    BY <2>1 DEF IInv, MessagesTrue, MessageTrue, Closed, Reach, Horizon, Issued
  <2>5. NobodyRunsAway' /\ RunAheadFromLog'
    BY <2>1 DEF IInv, NobodyRunsAway, RunAheadFromLog, Horizon, Changes, NotAfter
  <2>6. HeldTrue' /\ OwnComplete'
    BY <2>1 DEF IInv, HeldTrue, OwnComplete, Window, Reach, Horizon, Held
  <2>7. CountsTrue'
    BY <2>1 DEF IInv, CountsTrue, CountTrue, Window, Reach, Closed, Horizon, Issued
  <2>8. KeptComplete'
    BY <2>1 DEF IInv, KeptComplete, Served, Held, Issued
  <2> QED BY <2>2, <2>3, <2>4, <2>5, <2>6, <2>7, <2>8 DEF IInv
<1> QED BY <1>1, <1>2, <1>3, <1>4 DEF Next

(* The whole invariant holds at every step of every game.                  *)
THEOREM InvHolds == Spec => []IInv
BY InitInv, InvInductive, PTL DEF Spec

-----------------------------------------------------------------------------
(* What the runs check, for all values of the constants.                   *)

(* All variables keep their types, and a log is as long as the frame says. *)
THEOREM TypeCorrect == Spec => []TypeOK
<1>1. IInv => TypeOK
  BY TypeOKFromInv
<1> QED BY <1>1, InvHolds, PTL

(* FrameData::allCommandsReady never finds more commands than announced, so*)
(* it never throws a frame's data away to have it sent again.              *)
THEOREM NeverTooManyCommandsHolds == Spec => []NeverTooManyCommands
<1>1. IInv => NeverTooManyCommands
  BY NeverTooManyFromInv
<1> QED BY <1>1, InvHolds, PTL

(* FRAME_DATA_LENGTH slots are enough: no slot of the ring mixes two frames*)
(* that a player still reads.                                              *)
THEOREM NoAliasingHolds == Spec => []NoAliasing
<1>1. IInv => NoAliasing
  BY NoAliasingFromInv
<1> QED BY <1>1, InvHolds, PTL

(* FRAMES_TO_KEEP frames are enough: a player that has fallen behind finds *)
(* all it lacks with whoever is ahead of it.                               *)
THEOREM LaggardServableHolds == Spec => []LaggardServable
<1>1. IInv => LaggardServable
  BY LaggardServableFromInv
<1> QED BY <1>1, InvHolds, PTL

(* The run ahead bounds how far the players drift apart.                   *)
THEOREM BoundedDriftHolds == Spec => []BoundedDrift
<1>1. IInv => BoundedDrift
  BY BoundedDriftFromInv
<1> QED BY <1>1, InvHolds, PTL

(* On one frame all players have one run ahead.                            *)
THEOREM SameRunAheadHolds == Spec => []SameRunAhead
<1>1. IInv => SameRunAhead
  BY SameRunAheadFromInv
<1> QED BY <1>1, InvHolds, PTL

-----------------------------------------------------------------------------
(* The refinement of Lockstep.  Its log is that of the player furthest     *)
(* ahead, or of any of those: by LogTrue players of one frame have one log.*)

LEMMA LeaderLeads ==
  ASSUME IInv
  PROVE  Leader \in Players /\ \A q \in Players : frame[q] <= frame[Leader]
BY DEF IInv, SomebodyLeads, Leader

LEMMA EqualFramesEqualLogs ==
  ASSUME IInv, NEW p \in Players, NEW q \in Players, frame[p] = frame[q]
  PROVE  executed[p] = executed[q]
<1>1. /\ executed[p] \in Seq(SUBSET Command) /\ executed[q] \in Seq(SUBSET Command)
      /\ Len(executed[p]) = frame[p] - 1 /\ Len(executed[q]) = frame[q] - 1
  BY DEF IInv, Types
<1>2. \A i \in 1..Len(executed[p]) : executed[p][i] = executed[q][i]
  BY <1>1 DEF IInv, LogTrue
<1> QED BY <1>1, <1>2, SeqEqual

LEMMA InitRefines ==
  ASSUME Init
  PROVE  Abstract!Init
<1>1. IInv
  BY InitInv
<1>2. /\ scheduled = {} /\ executed = [p \in Players |-> <<>>]
  BY DEF Init
<1>3. Leader \in Players
  BY <1>1, LeaderLeads
<1> QED BY <1>2, <1>3 DEF Abstract!Init

LEMMA ScheduleRefines ==
  ASSUME IInv, NEW p \in Players,
         IssueCommand(p) \/ ChangeRunAhead(p) \/ Leave(p)
  PROVE  Abstract!Schedule
<1>1. PICK cmd, others : ScheduleStep(p, cmd, others)
  BY SchedulingIsScheduleStep DEF IInv
<1>2. UNCHANGED <<frame, executed>> /\ scheduled' = scheduled \cup {cmd}
  BY <1>1 DEF ScheduleStep
<1>3. cmd.frame \in Nat /\ \A q \in Players : frame[q] <= cmd.frame /\ frame[q] \in Nat
  BY <1>1, ScheduleHorizons, Horizons DEF IInv
<1>4. Leader' = Leader
  BY <1>2 DEF Leader
<1>5. Leader \in Players /\ Len(executed[Leader]) = frame[Leader] - 1
  BY LeaderLeads DEF IInv, Types
<1>6. cmd.frame > Len(executed[Leader])
  BY <1>3, <1>5
<1> QED BY <1>2, <1>4, <1>6 DEF Abstract!Schedule

(* The first player to execute a frame leads, the others follow it.        *)
LEMMA AdvanceRefines ==
  ASSUME IInv, NEW p \in Players, Advance(p)
  PROVE  Abstract!Lead(p) \/ Abstract!Follow(p)
<1> DEFINE done == [q \in Players |-> Len(executed[q])]
<1>1. status[p] # "LEFT" /\ IInv'
  BY AdvanceIsAdvanceStep, AdvanceKeepsInv
<1>2. PICK f, r, exec : AdvanceStep(p, f, r, exec)
  BY AdvanceIsAdvanceStep
<1>3. /\ UNCHANGED scheduled /\ f \in Nat /\ f = frame[p] /\ f >= 1
  BY <1>2 DEF AdvanceStep
<1>4. /\ frame'[p] = f + 1 /\ executed'[p] = Append(executed[p], Bundle(f))
      /\ \A q \in Players : q # p => frame'[q] = frame[q] /\ executed'[q] = executed[q]
  BY <1>1, <1>2, AdvanceCounters
<1>5. \A q \in Players : Len(executed[q]) = frame[q] - 1 /\ frame[q] \in Nat
  BY DEF IInv, Types
<1>6. \A q \in Players : Len(executed'[q]) = frame'[q] - 1 /\ frame'[q] \in Nat
  BY <1>1 DEF IInv, Types
<1>7. Leader \in Players /\ \A q \in Players : frame[q] <= frame[Leader]
  BY LeaderLeads
<1> PICK old \in Players : old = Leader
  BY <1>7
<1>8. Leader' \in Players /\ \A q \in Players : frame'[q] <= frame'[Leader']
  BY <1>1 DEF IInv, SomebodyLeads, Leader
<1> PICK new \in Players : new = Leader'
  BY <1>8
<1>9. done' = [done EXCEPT ![p] = @ + 1]
  <2>1. \A q \in Players : Len(executed'[q]) = IF q = p THEN Len(executed[p]) + 1
                                                       ELSE Len(executed[q])
    BY <1>3, <1>4, <1>5, <1>6
  <2> QED BY <2>1
<1>10. CASE frame[old] = f
  <2>1. executed[old] = executed[p]
    BY <1>3, <1>10, EqualFramesEqualLogs
  <2>2. frame'[new] = f + 1
    <3>1. frame'[p] <= frame'[new]
      BY <1>8
    <3>2. new # p => frame'[new] <= f
      BY <1>4, <1>7, <1>10
    <3> QED BY <1>3, <1>4, <1>6, <3>1, <3>2
  <2>3. new = p
    BY <1>3, <1>4, <1>7, <1>5, <1>10, <2>2
  <2>4. executed'[new] = Append(executed[old], Bundle(Len(executed[old]) + 1))
    BY <1>3, <1>4, <1>5, <2>1, <2>3
  <2>5. done[p] = Len(executed[old])
    BY <2>1
  <2> HIDE DEF done
  <2>6. Abstract!Bundle(Len(executed[old]) + 1) = Bundle(Len(executed[old]) + 1)
    BY DEF Abstract!Bundle, Bundle
  <2> QED BY <1>3, <1>9, <2>4, <2>5, <2>6 DEF Abstract!Lead, done
<1>11. CASE frame[old] # f
  <2>1. f < frame[old]
    BY <1>3, <1>5, <1>7, <1>11
  <2>2. old # p /\ executed'[old] = executed[old] /\ frame'[old] = frame[old]
    BY <1>3, <1>4, <1>11
  <2>3. frame'[new] = frame[old]
    BY <1>3, <1>4, <1>5, <1>6, <1>7, <1>8, <2>1, <2>2, SMTT(30)
  <2>4. executed'[new] = executed'[old]
    <3>1. frame'[new] = frame'[old]
      BY <2>2, <2>3
    <3>2. /\ executed'[new] \in Seq(SUBSET Command) /\ executed'[old] \in Seq(SUBSET Command)
          /\ Len(executed'[new]) = frame'[new] - 1 /\ Len(executed'[old]) = frame'[old] - 1
      BY <1>1 DEF IInv, Types
    <3>3. \A i \in 1..Len(executed'[new]) : executed'[new][i] = executed'[old][i]
      BY <1>1, <3>1, <3>2 DEF IInv, LogTrue
    <3> QED BY <3>1, <3>2, <3>3, SeqEqual
  <2>5. done[p] < Len(executed[old])
    BY <1>3, <1>5, <2>1
  <2> QED BY <1>3, <1>9, <2>2, <2>4, <2>5 DEF Abstract!Follow
<1> QED BY <1>10, <1>11

LEMMA StepRefines ==
  IInv /\ [Next]_vars => [Abstract!Next]_Abstract!vars
<1> SUFFICES ASSUME IInv, [Next]_vars
             PROVE  [Abstract!Next]_Abstract!vars
  OBVIOUS
<1>1. ASSUME NEW p \in Players, IssueCommand(p) \/ ChangeRunAhead(p) \/ Leave(p)
      PROVE  Abstract!Next
  BY <1>1, ScheduleRefines DEF Abstract!Next
<1>2. ASSUME NEW p \in Players, Advance(p)
      PROVE  Abstract!Next
  BY <1>2, AdvanceRefines DEF Abstract!Next
<1>3. ASSUME UNCHANGED <<frame, executed, scheduled>>
      PROVE  UNCHANGED Abstract!vars
  BY <1>3 DEF Abstract!vars, Leader
<1>4. ASSUME NEW m \in net, Receive(m)
      PROVE  UNCHANGED Abstract!vars
  BY <1>3, <1>4 DEF Receive
<1>5. CASE UNCHANGED vars
  BY <1>3, <1>5 DEF vars
<1> QED BY <1>1, <1>2, <1>4, <1>5 DEF Next

(* All players execute the same bundles, and each bundle holds exactly the *)
(* commands scheduled for its frame: the lockstep the game logic relies on.*)
THEOREM LockstepImplemented == Spec => ImplementsLockstep
BY InitRefines, StepRefines, InvHolds, PTL DEF Spec, ImplementsLockstep, Abstract!Spec

=============================================================================
