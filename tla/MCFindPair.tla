----------------------------- MODULE MCFindPair -----------------------------
(***************************************************************************)
(* Values for the constants of FindPair: lists with repeated and negative  *)
(* numbers, targets within and out of reach.                               *)
(***************************************************************************)
EXTENDS FindPair

MCSummand == {-1, 0, 1, 3}
MCTarget  == -3..5
=============================================================================
