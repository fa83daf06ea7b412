-------------------------- MODULE MCDisconnectSync --------------------------
(* Three players; the first slot is the packet router.                     *)
EXTENDS DisconnectSync
=============================================================================
