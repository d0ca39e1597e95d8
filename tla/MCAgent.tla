------------------------------ MODULE MCAgent ------------------------------
(***************************************************************************)
(* Agent for model checking: its constants are numbers and Booleans, which *)
(* the configurations give.                                                *)
(***************************************************************************)
EXTENDS Agent
=============================================================================
