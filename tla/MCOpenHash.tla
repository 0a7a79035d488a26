----------------------------- MODULE MCOpenHash -----------------------------
(* OpenHash for TLC: five keys, three of which have the same hash.         *)
EXTENDS OpenHash, TLC

MCKeys      == 1 .. 5
MCPrimary   == <<7, 7, 7, 19, 34>>
MCSecondary == (7 :> 26) @@ (19 :> 11) @@ (34 :> 5)

ASSUME MCAssumption == PathsReach /\ RoomToGrow
=============================================================================
