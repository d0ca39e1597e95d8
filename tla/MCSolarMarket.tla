--------------------------- MODULE MCSolarMarket ---------------------------
(***************************************************************************)
(* Values for the constants of SolarMarket.                                *)
(***************************************************************************)
EXTENDS SolarMarket

CONSTANTS b1, b2, p1, p2, p3,
          RoomOfAll   \* every battery's room

MCRoom == [b \in Battery |-> RoomOfAll]
=============================================================================
