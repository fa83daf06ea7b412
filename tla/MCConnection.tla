---------------------------- MODULE MCConnection ----------------------------
(* Instance of Connection for TLC: player 1 has a command of its own and   *)
(* one it relays for player 3, with the same ID.                           *)
EXTENDS Connection

Cmd(o, i) == [ack |-> FALSE, orig |-> o, id |-> i]

OneWay == [p \in Players |-> IF p = 1 THEN {Cmd(1, 1), Cmd(3, 1)} ELSE {}]
=============================================================================
