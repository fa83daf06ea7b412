---------------------------- MODULE MCFrameSync ----------------------------
(* Instances of FrameSync for TLC: players a and b, and the packet router. *)
EXTENDS FrameSync
CONSTANTS a, b, r

OneEach == [p \in Players |-> 1]
OneIfLeaver == [p \in Players |-> IF p \in Leavers THEN 1 ELSE 0]
=============================================================================
