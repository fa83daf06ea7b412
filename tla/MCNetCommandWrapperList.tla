---------------------- MODULE MCNetCommandWrapperList ----------------------
(* Commands c and d of two players, with one ID.                           *)
EXTENDS NetCommandWrapperList, TLC

CONSTANTS c, d

IdOf == c :> 64000 @@ d :> 64000
SizeOf == c :> 2 @@ d :> 3
=============================================================================
