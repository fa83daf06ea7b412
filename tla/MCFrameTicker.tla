--------------------------- MODULE MCFrameTicker ---------------------------
(* Instance of FrameTicker for TLC: a run ahead that may shrink from 3 to  *)
(* 1 and grow back while five frames are played.                           *)
EXTENDS FrameTicker
=============================================================================
