------------------------- MODULE MCNetCommandList -------------------------
(* Instance of NetCommandList for TLC.                                     *)
EXTENDS NetCommandList

Synchronized(t, p, n) ==
  [type |-> t, player |-> p, id |-> n, sort |-> n, orig |-> 0, hasID |-> TRUE]

(* The commands of one frame from two players.  Types are those of the     *)
(* enumeration NetCommandType: frame info (3), a game command (4), a       *)
(* change of the run ahead (7).  Player 0 has just used the last of its    *)
(* 16 bit IDs, number 9 here, and gone on with 0.                          *)
FrameCommands ==
  {Synchronized(4, 0, n) : n \in {0, 1, 8, 9}} \cup
  {Synchronized(4, 1, n) : n \in {1, 2, 3}} \cup
  {Synchronized(7, 0, 2), Synchronized(3, 1, 4)}
=============================================================================
