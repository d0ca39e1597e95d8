---------------------------- MODULE MCPeerGather ----------------------------
(***************************************************************************)
(* Values for the constants of PeerGather.  The numbers are chosen so that *)
(* a group holds several pairs that add up to the target, or none.         *)
(***************************************************************************)
EXTENDS PeerGather

CONSTANTS a1, a2, a3

MCDatum  == {1, 3}
MCTarget == {4}
=============================================================================
