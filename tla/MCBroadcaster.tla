--------------------------- MODULE MCBroadcaster ---------------------------
(***************************************************************************)
(* Instances of Broadcaster for TLC.                                       *)
(***************************************************************************)
EXTENDS BroadcasterProperties

CONSTANTS g1, g2

OverlappingCalls == {g1, g2}
=============================================================================
