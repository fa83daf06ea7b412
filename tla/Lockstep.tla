------------------------------ MODULE Lockstep ------------------------------
(***************************************************************************)
(* What the network layer promises the game logic: every player executes   *)
(* the same bundle of commands on the same logic frame, and the bundle of  *)
(* a frame holds every command any player scheduled for it.                *)
(*                                                                         *)
(* The first player to execute a frame closes it.  From then on nobody may *)
(* schedule a command for that frame, and all the others have to execute   *)
(* the bundle it was closed with.                                          *)
(***************************************************************************)
EXTENDS Naturals, Sequences

CONSTANT Players

VARIABLES
  scheduled,  \* every command scheduled so far, a record with a field frame
  log,        \* log[f] is the bundle frame f was closed with
  done        \* done[p] is the last frame p has executed

vars == <<scheduled, log, done>>

Bundle(f) == {c \in scheduled : c.frame = f}

Init ==
  /\ scheduled = {}
  /\ log = <<>>
  /\ done = [p \in Players |-> 0]

(* Commands join frames that are still open.                               *)
Schedule ==
  /\ scheduled \subseteq scheduled'
  /\ \A c \in scheduled' \ scheduled : c.frame > Len(log)
  /\ UNCHANGED <<log, done>>

(* p executes a frame somebody else has closed.                            *)
Follow(p) ==
  /\ done[p] < Len(log)
  /\ done' = [done EXCEPT ![p] = @ + 1]
  /\ UNCHANGED <<scheduled, log>>

(* p is the first to execute its next frame, and closes it.                *)
Lead(p) ==
  /\ done[p] = Len(log)
  /\ log' = Append(log, Bundle(Len(log) + 1))
  /\ done' = [done EXCEPT ![p] = @ + 1]
  /\ UNCHANGED scheduled

Next == Schedule \/ \E p \in Players : Follow(p) \/ Lead(p)

Spec == Init /\ [][Next]_vars

=============================================================================
