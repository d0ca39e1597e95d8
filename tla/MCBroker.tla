------------------------------ MODULE MCBroker ------------------------------
(***************************************************************************)
(* Values for the constants of Broker: the worker objects of each process  *)
(* are pairs <<process, number>>.                                          *)
(***************************************************************************)
EXTENDS Broker

CONSTANTS w1, w2, r1, r2, r3, echo, sumnums,
          ObjectsOfEcho, ObjectsOfSumnums   \* worker objects per process

\* With two services w2 sums, and r3 asks for a sum.
MCSvcOf  == [w \in Worker |-> IF w = w2 /\ sumnums \in Service THEN sumnums ELSE echo]
MCReqSvc == [r \in Request |-> IF r = r3 THEN sumnums ELSE echo]

Objects(w) == {w} \X (1..(IF MCSvcOf[w] = echo THEN ObjectsOfEcho ELSE ObjectsOfSumnums))
MCObj      == UNION {Objects(w) : w \in Worker}
MCOwnerOf  == [o \in MCObj |-> o[1]]
=============================================================================
