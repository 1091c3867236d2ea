------------------------------- MODULE MCHub -------------------------------
(***************************************************************************)
(* Instances of Hub for TLC.                                               *)
(***************************************************************************)
EXTENDS HubProperties

CONSTANTS c1, c2

MCClients == {c1, c2}
MCResponsive == {c1}

BothKinds == {"snapshot", "events"}
TwoSnapshots == [k \in BothKinds |-> IF k = "snapshot" THEN 2 ELSE 1]
=============================================================================
