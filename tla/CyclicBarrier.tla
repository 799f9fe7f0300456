--------------------------- MODULE CyclicBarrier ---------------------------
(***************************************************************************)
(* What a reusable barrier promises: nobody passes before everybody has    *)
(* arrived, and nobody arrives for the next round before everybody has     *)
(* passed in this one.                                                     *)
(***************************************************************************)
CONSTANT User

VARIABLES
    waiting,    \* users that have arrived and may not pass yet
    passing     \* users of the round that is complete, still to pass

vars == <<waiting, passing>>

Init ==
    /\ waiting = {}
    /\ passing = {}

Arrive(u) ==
    /\ passing = {}
    /\ u \notin waiting
    /\ waiting \cup {u} # User
    /\ waiting' = waiting \cup {u}
    /\ UNCHANGED passing

\* The last user to arrive completes the round.
ArriveLast(u) ==
    /\ passing = {}
    /\ u \notin waiting
    /\ waiting \cup {u} = User
    /\ waiting' = {}
    /\ passing' = User

Pass(u) ==
    /\ u \in passing
    /\ passing' = passing \ {u}
    /\ UNCHANGED waiting

Next == \E u \in User : Arrive(u) \/ ArriveLast(u) \/ Pass(u)

Spec == Init /\ [][Next]_vars
=============================================================================
