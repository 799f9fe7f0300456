----------------------------- MODULE MCAtomics -----------------------------
(***************************************************************************)
(* Atomics with two processes, bytes of one bit and registers of two: the  *)
(* 64 bit arguments differ in both halves and carry from one to the other. *)
(***************************************************************************)
EXTENDS Atomics

MCArg == [t \in Type |-> CASE t \in {"signed", "unsigned"} -> {0, 1}
                           [] t = "register"               -> {0, 1, 3}
                           [] t = "double"                 -> {1, 6}]
=============================================================================
