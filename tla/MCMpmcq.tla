------------------------------ MODULE MCMpmcq ------------------------------
(***************************************************************************)
(* Mpmcq with two users whose messages can be told apart.                  *)
(***************************************************************************)
EXTENDS Mpmcq

CONSTANTS m0, m1

MCMessage == {m0, m1}
MCSends == [u \in {0, 1} |-> IF u = 0 THEN {m0} ELSE {m1}]
=============================================================================
