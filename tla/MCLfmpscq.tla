----------------------------- MODULE MCLfmpscq -----------------------------
(***************************************************************************)
(* Lfmpscq with two producers whose messages can be told apart.            *)
(***************************************************************************)
EXTENDS Lfmpscq

CONSTANTS m1, m2

MCMessage == {m1, m2}
MCSends == [p \in {1, 2} |-> IF p = 1 THEN {m1} ELSE {m2}]
=============================================================================
