----------------------------- MODULE MCMajordomo -----------------------------
(***************************************************************************)
(* Values for the constants of Majordomo: one service, and the worker      *)
(* objects of each process are pairs <<process, number>>.                  *)
(***************************************************************************)
EXTENDS Majordomo

CONSTANTS w1, w2, r1, r2, echo,
          Objects   \* worker objects per process

MCSvcOf   == [w \in Worker |-> echo]
MCReqSvc  == [r \in Request |-> echo]
MCObj     == Worker \X (1..Objects)
MCOwnerOf == [o \in MCObj |-> o[1]]
=============================================================================
