------------------------------ MODULE MCShmman ------------------------------
(***************************************************************************)
(* Shmman with two objects: one that leaves no room for the other in the   *)
(* System V segment made for it, and one that does.                        *)
(***************************************************************************)
EXTENDS Shmman

MCSize == [s \in {0, 1} |-> IF s = 0 THEN 4 ELSE 8]
=============================================================================
