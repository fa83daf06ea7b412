--------------------------- MODULE SleepySchedule ---------------------------
(***************************************************************************)
(* What the scheduler of update modules promises, without its heap: while  *)
(* the objects of a logic frame are updated, the module called next is one *)
(* of those with the earliest frame and, in that frame, the earliest phase *)
(* (UpdateModule.h:81); and the updating ends only when nobody is due.     *)
(***************************************************************************)
EXTENDS Naturals

CONSTANTS Module, Phase, None,
  Absent  \* the wake frame of a module whose object does not exist

VARIABLES
  frame,     \* the logic frame
  updating,  \* the objects are being updated
  wake,      \* the frame in which a module is to be called next
  cur        \* the module being called

schedule == <<frame, updating, wake, cur>>

Present == {u \in Module : wake[u] # Absent}

(* The module is due, and nobody is before it. *)
First(u) ==
  /\ wake[u] <= frame
  /\ \A v \in Present :
       \/ wake[u] < wake[v]
       \/ wake[u] = wake[v] /\ Phase[u] <= Phase[v]

Init ==
  /\ frame = 0
  /\ updating = FALSE
  /\ wake = [u \in Module |-> Absent]
  /\ cur = None

(* The objects are updated until nobody is due, and then it is the next    *)
(* frame.                                                                  *)
Begin == ~updating /\ updating' = TRUE /\ UNCHANGED <<frame, wake, cur>>

End ==
  /\ updating /\ cur = None
  /\ \A u \in Present : wake[u] > frame
  /\ updating' = FALSE
  /\ UNCHANGED <<frame, wake, cur>>

Tick == ~updating /\ frame' = frame + 1 /\ UNCHANGED <<updating, wake, cur>>

(* The first module is called and says for how long it will sleep, a frame *)
(* at least; one that is disabled is put off to the next frame instead.    *)
Call ==
  /\ updating /\ cur = None
  /\ \E u \in Present : First(u) /\ cur' = u
  /\ UNCHANGED <<frame, updating, wake>>

Sleep ==
  /\ cur # None
  /\ wake'[cur] \in Nat /\ wake'[cur] > frame
  /\ wake' = [wake EXCEPT ![cur] = wake'[cur]]
  /\ cur' = None
  /\ UNCHANGED <<frame, updating>>

PutOff ==
  /\ updating /\ cur = None
  /\ \E u \in Present : First(u) /\ wake' = [wake EXCEPT ![u] = frame + 1]
  /\ UNCHANGED <<frame, updating, cur>>

(* At any time modules come and go with their objects, and any but the one *)
(* being called may be given another time; one that is due in this frame   *)
(* is not put off because it is asked to wake as soon as possible.         *)
Change ==
  /\ wake' \in [Module -> Nat \cup {Absent}]
  /\ \A u \in Module : wake'[u] # wake[u] =>
       /\ u # cur
       /\ wake'[u] # Absent =>
            /\ wake'[u] >= frame
            /\ ~(frame > 0 /\ wake[u] = frame /\ wake'[u] = frame + 1)
  /\ UNCHANGED <<frame, updating, cur>>

Next == Begin \/ End \/ Tick \/ Call \/ Sleep \/ PutOff \/ Change

Spec == Init /\ [][Next]_schedule
=============================================================================
