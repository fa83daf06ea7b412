---------------------------- MODULE SleepyUpdates ----------------------------
(***************************************************************************)
(* How GameLogic calls the update modules of the objects.  Most of them    *)
(* sleep most of the time; the vector m_sleepyUpdates is a binary heap     *)
(* ordered by the frame and phase of the next call, each module knows its  *)
(* index in it, and GameLogic::update calls the module at the top until    *)
(* that one sleeps.  Modules are created, destroyed and woken at any time, *)
(* most often from the update of another module.                           *)
(*                                                                         *)
(* Positions count from 1, so that i \div 2 is the parent of i, and index  *)
(* 0 stands for -1.  The loops that restore the order of the heap take a   *)
(* step of their own for each iteration, and nothing else happens before   *)
(* they end (Idle).                                                        *)
(***************************************************************************)
EXTENDS Naturals, Sequences

CONSTANTS
  Object, Module,
  Owner,       \* the object a module belongs to
  Phase,       \* the phase of a module
  CtorDelay,   \* what its constructor passes to setWakeFrame, 0 if nothing
  WakeDelays,  \* what is passed to setWakeFrame later
  Sleeps,      \* what update() may return
  Forever,     \* UPDATE_SLEEP_FOREVER
  MaxFrame,    \* bound of this model: the last frame
  None

PHASE_INITIAL == 0
PHASE_PHYSICS == 1
PHASE_NORMAL == 2
PHASE_FINAL == 3

UPDATE_SLEEP_NONE == 1

(* AI and physics modules come before the others, and neither their        *)
(* constructors (AIUpdate.cpp:299, PhysicsUpdate.cpp:232) nor those who    *)
(* wake them ask for the current frame.                                    *)
ASSUME ModuleAssumption ==
  /\ Owner \in [Module -> Object]
  /\ Phase \in [Module -> PHASE_INITIAL .. PHASE_FINAL]
  /\ CtorDelay \in [Module -> Nat]
  /\ WakeDelays \in [Module -> SUBSET Nat]
  /\ \A u \in Module : (CtorDelay[u] = 0 \/ 0 \in WakeDelays[u]) => Phase[u] >= PHASE_NORMAL

ASSUME TimeAssumption ==
  /\ Sleeps \in SUBSET Nat
  /\ MaxFrame \in Nat /\ Forever \in Nat /\ MaxFrame + 1 < Forever

ASSUME NoneAssumption == None \notin Module \cup Nat

VARIABLES
  frame,      \* m_frame
  stage,      \* what GameLogic::update is doing
  sleepy,     \* m_sleepyUpdates
  index,      \* m_indexInLogic of each module
  nextCall,   \* the frame in m_nextCallFrameAndPhase
  cur,        \* m_curUpdateModule
  listed,     \* the objects in m_objList
  destroyed,  \* the objects with OBJECT_STATUS_DESTROYED
  toDestroy,  \* m_objectsToDestroy
  joining,    \* modules registerObject has still to push
  leaving,    \* modules processDestroyList has still to erase
  loop,       \* the loop that is restoring the order of the heap
  at,         \* its position
  lowest,     \* remakeSleepyUpdate: the last position it has come to
  called      \* modules called in this frame and not asked to be called again

heapVars == <<sleepy, index, loop, at, lowest>>
objectVars == <<listed, destroyed, toDestroy, joining, leaving>>
vars == <<frame, stage, nextCall, cur, called, heapVars, objectVars>>

ModulesOf(o) == {u \in Module : Owner[u] = o}

AtFrame(f) == IF f > Forever THEN Forever ELSE f

Priority(u) == 4 * nextCall[u] + Phase[u]

(* Mutant of LowerPriority: a module passes one of the same priority. *)
NotHigherPriority(u, v) == Priority(u) >= Priority(v)

LowerPriority(u, v) == Priority(u) > Priority(v)

Init ==
  /\ frame = 0 /\ stage = "commands"
  /\ sleepy = <<>>
  /\ index = [u \in Module |-> 0]
  /\ nextCall = [u \in Module |-> 0]
  /\ cur = None
  /\ listed = {} /\ destroyed = {} /\ toDestroy = {}
  /\ joining = {} /\ leaving = {}
  /\ loop = "none" /\ at = 1 /\ lowest = 1
  /\ called = {}

(*----------------------------- the heap --------------------------------*)

Resting == loop = "none"

Idle == Resting /\ joining = {} /\ leaving = {}

Swap(i, j) ==
  /\ sleepy' = [sleepy EXCEPT ![i] = sleepy[j], ![j] = sleepy[i]]
  /\ index' = [index EXCEPT ![sleepy[j]] = i, ![sleepy[i]] = j]

StartLoop(l, i) == loop' = l /\ at' = i /\ UNCHANGED lowest

RebalanceParent ==
  /\ loop \in {"parent", "both"}
  /\ LET parent == at \div 2 IN
       IF at > 1 /\ LowerPriority(sleepy[parent], sleepy[at])
       THEN Swap(at, parent) /\ StartLoop(loop, parent)
       ELSE /\ IF loop = "both" THEN StartLoop("child", at) ELSE StartLoop("none", 1)
            /\ UNCHANGED <<sleepy, index>>
  /\ UNCHANGED <<frame, stage, nextCall, cur, called, objectVars>>

HigherChild(i) ==
  IF 2 * i < Len(sleepy) /\ LowerPriority(sleepy[2 * i], sleepy[2 * i + 1])
  THEN 2 * i + 1 ELSE 2 * i

RebalanceChild ==
  /\ loop = "child"
  /\ LET child == HigherChild(at) IN
       IF 2 * at <= Len(sleepy) /\ LowerPriority(sleepy[at], sleepy[child])
       THEN Swap(at, child) /\ StartLoop("child", child)
       ELSE /\ UNCHANGED <<sleepy, index>>
            /\ IF lowest > 1
               THEN lowest' = lowest - 1 /\ at' = lowest - 1 /\ UNCHANGED loop
               ELSE StartLoop("none", 1)
  /\ UNCHANGED <<frame, stage, nextCall, cur, called, objectVars>>

PushSleepyUpdate ==
  /\ Resting
  /\ \E u \in joining :
       /\ sleepy' = Append(sleepy, u)
       /\ index' = [index EXCEPT ![u] = Len(sleepy) + 1]
       /\ joining' = joining \ {u}
  /\ StartLoop("parent", Len(sleepy) + 1)
  /\ UNCHANGED <<frame, stage, nextCall, cur, called, listed, destroyed, toDestroy, leaving>>

EraseSleepyUpdate ==
  /\ Resting
  /\ \E u \in leaving :
       LET i == index[u]
           last == Len(sleepy)
       IN /\ sleepy' = SubSeq([sleepy EXCEPT ![i] = sleepy[last]], 1, last - 1)
          /\ index' = [index EXCEPT ![sleepy[last]] = i, ![u] = 0]
          /\ leaving' = leaving \ {u}
          /\ IF i < last THEN StartLoop("both", i) ELSE StartLoop("none", 1)
  /\ UNCHANGED <<frame, stage, nextCall, cur, called, listed, destroyed, toDestroy, joining>>

(*-------------------------- GameLogic::update ---------------------------*)

(* Scripts and commands, then the objects, then the other systems (AI of   *)
(* the players, construction), the clean-up, and the delayed damage of     *)
(* weapons.                                                                *)
Proceed(from, to) ==
  /\ Idle /\ stage = from /\ stage' = to
  /\ UNCHANGED <<frame, nextCall, cur, heapVars, objectVars>>

BeginObjects == Proceed("commands", "objects") /\ called' = {}

SomebodyDue == sleepy # <<>> /\ nextCall[Head(sleepy)] <= frame

EndObjects ==
  /\ cur = None /\ ~SomebodyDue
  /\ Proceed("objects", "systems") /\ UNCHANGED called

CleanUp == Proceed("systems", "cleanup") /\ UNCHANGED called

CleanedUp == toDestroy = {} /\ Proceed("cleanup", "weapons") /\ UNCHANGED called

EndFrame ==
  /\ Idle /\ stage = "weapons" /\ frame < MaxFrame
  /\ frame' = frame + 1 /\ stage' = "commands"
  /\ UNCHANGED <<nextCall, cur, called, heapVars, objectVars>>

Calling == Idle /\ stage = "objects" /\ cur = None /\ SomebodyDue

CallUpdate ==
  /\ Calling
  /\ cur' = Head(sleepy)
  /\ called' = called \cup {cur'}
  /\ UNCHANGED <<frame, stage, nextCall, heapVars, objectVars>>

(* The next call is set and the top of the heap, whoever is there, is      *)
(* moved down.                                                             *)
SetNextCall(u, f) == nextCall' = [nextCall EXCEPT ![u] = AtFrame(f)]

(* Mutant of RebalanceTop: the loop towards the parent, which a module on  *)
(* top does not have.                                                      *)
RebalanceTopUp == StartLoop("parent", 1) /\ UNCHANGED <<sleepy, index>>

RebalanceTop == StartLoop("both", 1) /\ UNCHANGED <<sleepy, index>>

(* Mutant of SleepLen: what update() returns is used as it is. *)
SleepLenAsReturned(returned) == returned

SleepLen(returned) == IF returned < 1 THEN UPDATE_SLEEP_NONE ELSE returned

ReturnFromUpdate ==
  /\ Idle /\ cur # None
  /\ \E returned \in Sleeps : SetNextCall(cur, frame + SleepLen(returned))
  /\ cur' = None
  /\ RebalanceTop
  /\ UNCHANGED <<frame, stage, called, objectVars>>

(* The object is disabled and the module does not run in that state. *)
PutOffDisabled ==
  /\ Calling
  /\ SetNextCall(Head(sleepy), frame + UPDATE_SLEEP_NONE)
  /\ RebalanceTop
  /\ UNCHANGED <<frame, stage, cur, called, objectVars>>

(*----------- what updates, commands and the other systems do ------------*)

Running == Idle /\ (stage \in {"commands", "systems", "weapons"} \/ cur # None)

(* The two kinds of module of the last phase, FiringTracker and            *)
(* ObjectWeaponStatusHelper, create nothing and wake nobody at once.       *)
MayMakeDue == cur \notin {u \in Module : Phase[u] = PHASE_FINAL}

(* Mutant of AlreadyAwake: "the subtle but important case" is missing. *)
NeverAwake(u, delay) == FALSE

(* friend_awakenUpdateModule *)
AlreadyAwake(u, delay) == frame > 0 /\ nextCall[u] = frame /\ delay = 1

SetWakeFrame(u) ==
  /\ Running
  /\ Owner[u] \in listed /\ u # cur
  /\ \E delay \in WakeDelays[u] :
       /\ delay = 0 => MayMakeDue
       /\ frame + delay # nextCall[u]
       /\ ~AlreadyAwake(u, delay)
       /\ SetNextCall(u, frame + delay)
       /\ called' = IF delay = 0 THEN called \ {u} ELSE called
  /\ StartLoop("both", index[u])
  /\ UNCHANGED <<frame, stage, cur, sleepy, index, objectVars>>

FirstCall(u) ==
  IF CtorDelay[u] > 0 THEN AtFrame(frame + CtorDelay[u])
  ELSE IF frame = 0 THEN 1 ELSE frame

(* The constructors, and registerObject. *)
NewObject(o) ==
  /\ Running /\ MayMakeDue
  /\ o \notin listed
  /\ listed' = listed \cup {o}
  /\ joining' = ModulesOf(o)
  /\ nextCall' = [u \in Module |-> IF Owner[u] = o THEN FirstCall(u) ELSE nextCall[u]]
  /\ called' = called \ ModulesOf(o)
  /\ UNCHANGED <<frame, stage, cur, heapVars, destroyed, toDestroy, leaving>>

(* The destructor of an object may destroy others that belong to it, which *)
(* the clean-up finds at the end of its list.                              *)
DestroyObject(o) ==
  /\ (Running \/ (Idle /\ stage = "cleanup"))
  /\ o \in listed \ destroyed
  /\ destroyed' = destroyed \cup {o}
  /\ toDestroy' = toDestroy \cup {o}
  /\ UNCHANGED <<frame, stage, nextCall, cur, called, heapVars, listed, joining, leaving>>

ProcessDestroyList ==
  /\ Idle /\ stage = "cleanup"
  /\ \E o \in toDestroy :
       /\ leaving' = ModulesOf(o)
       /\ toDestroy' = toDestroy \ {o}
       /\ destroyed' = destroyed \ {o}
       /\ listed' = listed \ {o}
  /\ UNCHANGED <<frame, stage, nextCall, cur, called, heapVars, joining>>

(* A game is saved and loaded between two frames.  The times and the       *)
(* status of the objects are in the file; the heap is made anew from the   *)
(* modules of the objects, in the order of these.                          *)
Orders ==
  {new \in [1 .. Len(sleepy) -> Module] :
     /\ \A u \in Module : Owner[u] \in listed <=> \E i \in 1 .. Len(sleepy) : new[i] = u
     /\ \A i, j \in 1 .. Len(sleepy) : new[i] = new[j] => i = j}

SaveAndLoad ==
  /\ Idle /\ stage = "commands" /\ sleepy # <<>>
  /\ \E new \in Orders :
       /\ sleepy' = new
       /\ index' = [u \in Module |-> IF Owner[u] \notin listed THEN 0
                                     ELSE CHOOSE i \in 1 .. Len(sleepy) : new[i] = u]
  /\ toDestroy' = {}
  /\ loop' = "child"
  /\ at' = Len(sleepy) \div 2 + 1 /\ lowest' = Len(sleepy) \div 2 + 1
  /\ UNCHANGED <<frame, stage, nextCall, cur, called, listed, destroyed, joining, leaving>>

Next ==
  \/ RebalanceParent \/ RebalanceChild \/ PushSleepyUpdate \/ EraseSleepyUpdate
  \/ BeginObjects \/ EndObjects \/ CleanUp \/ ProcessDestroyList \/ CleanedUp \/ EndFrame
  \/ CallUpdate \/ ReturnFromUpdate \/ PutOffDisabled
  \/ \E u \in Module : SetWakeFrame(u)
  \/ \E o \in Object : NewObject(o) \/ DestroyObject(o)
  \/ SaveAndLoad

Spec == Init /\ [][Next]_vars

(*----------------------------- properties -------------------------------*)

TypeOK ==
  /\ frame \in 0 .. MaxFrame
  /\ stage \in {"commands", "objects", "systems", "cleanup", "weapons"}
  /\ sleepy \in Seq(Module)
  /\ index \in [Module -> 0 .. Len(sleepy)]
  /\ nextCall \in [Module -> 0 .. Forever]
  /\ cur \in Module \cup {None}
  /\ listed \subseteq Object /\ destroyed \subseteq listed /\ toDestroy \subseteq destroyed
  /\ joining \subseteq Module /\ leaving \subseteq Module
  /\ loop \in {"none", "parent", "both", "child"}
  /\ at \in Nat \ {0} /\ lowest \in Nat \ {0}
  /\ called \subseteq Module

(* A module is never before its parent in the heap, however modules come,  *)
(* go, and change their times (GameLogic.cpp:2852).                        *)
SleepyUpdatesSorted ==
  Resting => \A i \in 2 .. Len(sleepy) : Priority(sleepy[i \div 2]) <= Priority(sleepy[i])

(* Each module's index is its place in the heap, and the modules in it are *)
(* those of the listed objects, but for those being pushed or erased:      *)
(* friend_awakenUpdateModule never ends the program (GameLogic.cpp:3131).  *)
Indexed ==
  /\ \A u \in Module : index[u] # 0 => sleepy[index[u]] = u
  /\ \A i \in 1 .. Len(sleepy) : index[sleepy[i]] = i
  /\ \A u \in Module :
       index[u] # 0 <=> (Owner[u] \in listed \/ u \in leaving) /\ u \notin joining

(* A module is on top of the heap while its update runs, whatever that     *)
(* creates or wakes: GameLogic::update moves down what is on top when the  *)
(* update returns (GameLogic.cpp:3874).                                    *)
UpdatedIsOnTop == cur # None => sleepy # <<>> /\ Head(sleepy) = cur

(* What validateSleepyUpdate asserts of the heap, and what the loop of     *)
(* GameLogic::update takes for granted of its top.                         *)
ValidSleepyUpdate == SleepyUpdatesSorted /\ Indexed /\ UpdatedIsOnTop

(* When the objects of a frame have been updated nobody is overdue, and    *)
(* only who was created after that is a frame late in the next.            *)
NobodyOverslept ==
  \A i \in 1 .. Len(sleepy) :
    nextCall[sleepy[i]] + (IF stage \in {"commands", "objects"} THEN 1 ELSE 0) >= frame

(* No module is called twice in a frame, unless it was asked to run again. *)
CalledOnce == [][\A u \in Module : cur' = u /\ cur # u => u \notin called]_vars

(* The heap implements the schedule: a call goes to a module that nobody   *)
(* precedes, and no module that is due is left out.                        *)
Schedule == INSTANCE SleepySchedule
  WITH updating <- stage = "objects",
       Absent <- None,
       wake <- [u \in Module |-> IF Owner[u] \in listed THEN nextCall[u] ELSE None]

ImplementsSchedule == Schedule!Spec

(* The loops over the heap run on, update functions return after whatever  *)
(* they do to others, and so does everything else in GameLogic::update.    *)
HeapStep ==
  \/ RebalanceParent \/ RebalanceChild \/ PushSleepyUpdate \/ EraseSleepyUpdate

UpdateStep ==
  \/ BeginObjects \/ EndObjects \/ CleanUp \/ ProcessDestroyList \/ CleanedUp \/ EndFrame
  \/ CallUpdate \/ ReturnFromUpdate \/ PutOffDisabled

Fairness == WF_vars(HeapStep) /\ SF_vars(UpdateStep)

FairSpec == Spec /\ Fairness

(* Every frame comes to its end. *)
FramesEnd == \A f \in 0 .. MaxFrame - 1 : frame = f ~> frame = f + 1
=============================================================================
