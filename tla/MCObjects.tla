----------------------------- MODULE MCObjects -----------------------------
(***************************************************************************)
(* Instances of Objects for TLC: every user may get and release the object *)
(* and use it for ever, so that each meets the others in earlier and later *)
(* rounds of a barrier.                                                    *)
(***************************************************************************)
EXTENDS Objects

CONSTANTS a, b, c, d

MCUser == {a, b, c, d}
MCPair == {a, b}
=============================================================================
