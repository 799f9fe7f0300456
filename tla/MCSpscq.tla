------------------------------ MODULE MCSpscq ------------------------------
(***************************************************************************)
(* Instances of Spscq for TLC.  Three slots hold two messages, so the ring *)
(* is empty, half full, full and wrapped around; two words a message are   *)
(* enough for a torn one.                                                  *)
(***************************************************************************)
EXTENDS Spscq

MCWord == {0, 1}
MCZero == 0
=============================================================================
