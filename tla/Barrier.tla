------------------------------ MODULE Barrier ------------------------------
(***************************************************************************)
(* barrier_wait of src/barrier.c: a barrier in shared memory made of the   *)
(* counter cnt of users inside and the flag fallen.  A step is one access  *)
(* to shared memory.  A user that arrives while the previous round is      *)
(* still leaving waits at the gate (the first loop).                       *)
(*                                                                         *)
(* OpenGate and the like are faulty variants of the definition that        *)
(* follows them; no action uses them.                                      *)
(***************************************************************************)
EXTENDS Integers, FiniteSets

CONSTANTS
    User,       \* the processes that use the barrier
    numUser     \* bd->numUser, the same in every user's descriptor

ASSUME UserAssumption == IsFiniteSet(User) /\ User # {}
ASSUME NumUserAssumption == numUser = Cardinality(User)

VARIABLES
    cnt,        \* bd->shm->cnt
    fallen,     \* bd->shm->fallen
    pc          \* where each user is: "out" of barrier_wait, or about to do
                \* the access its label names

vars == <<cnt, fallen, pc>>

Inside == {"readCnt", "readFallen", "open", "leave"}
Label  == Inside \cup {"out", "gate", "arrive", "reset"}

Goto(u, from, to) ==
    /\ pc[u] = from
    /\ pc' = [pc EXCEPT ![u] = to]

\* barrier_get: the first user sets cnt and fallen.
Init ==
    /\ cnt = 0
    /\ fallen = 0
    /\ pc = [u \in User |-> "out"]

Call(u) ==
    /\ Goto(u, "out", "gate")
    /\ UNCHANGED <<cnt, fallen>>

OpenGate(u) ==
    /\ Goto(u, "gate", "arrive")
    /\ UNCHANGED <<cnt, fallen>>

\* The first loop reads fallen and ends.
PassGate(u) ==
    /\ fallen # 1
    /\ Goto(u, "gate", "arrive")
    /\ UNCHANGED <<cnt, fallen>>

\* atomic_faa32(&cnt, 1)
Arrive(u) ==
    /\ Goto(u, "arrive", "readCnt")
    /\ cnt' = cnt + 1
    /\ UNCHANGED fallen

\* The condition of the second loop reads cnt, then, unless cnt ends the
\* loop, fallen.
ReadCnt(u) ==
    /\ IF cnt # numUser THEN Goto(u, "readCnt", "readFallen")
                        ELSE Goto(u, "readCnt", "open")
    /\ UNCHANGED <<cnt, fallen>>

SpinsOnCnt(u) ==
    /\ Goto(u, "readFallen", "readCnt")
    /\ UNCHANGED <<cnt, fallen>>

ReadFallen(u) ==
    /\ IF fallen = 0 THEN Goto(u, "readFallen", "readCnt")
                     ELSE Goto(u, "readFallen", "open")
    /\ UNCHANGED <<cnt, fallen>>

OpenClearsCnt(u) ==
    /\ Goto(u, "open", "leave")
    /\ fallen' = 1
    /\ cnt' = 0

Open(u) ==
    /\ Goto(u, "open", "leave")
    /\ fallen' = 1
    /\ UNCHANGED cnt

LeaveResetsEarly(u) ==
    /\ cnt' = cnt - 1
    /\ IF cnt <= 2 THEN Goto(u, "leave", "reset") ELSE Goto(u, "leave", "out")
    /\ UNCHANGED fallen

\* atomic_faa32(&cnt, -1) returns the value before the addition.
Leave(u) ==
    /\ cnt' = cnt - 1
    /\ IF cnt = 1 THEN Goto(u, "leave", "reset") ELSE Goto(u, "leave", "out")
    /\ UNCHANGED fallen

Reset(u) ==
    /\ Goto(u, "reset", "out")
    /\ fallen' = 0
    /\ UNCHANGED cnt

\* barrier_wait, once called.
Wait(u) ==
    \/ PassGate(u)
    \/ Arrive(u)
    \/ ReadCnt(u)
    \/ ReadFallen(u)
    \/ Open(u)
    \/ Leave(u)
    \/ Reset(u)

Next == \E u \in User : Call(u) \/ Wait(u)

Spec == Init /\ [][Next]_vars

\* A user inside barrier_wait runs on; none is obliged to call it again.
FairSpec == Spec /\ \A u \in User : WF_vars(Wait(u))

-----------------------------------------------------------------------------
(***************************************************************************)
(* Properties                                                              *)
(***************************************************************************)

\* cnt is never negative nor above the number of users.
TypeOK ==
    /\ cnt \in 0 .. numUser
    /\ fallen \in {0, 1}
    /\ pc \in [User -> Label]

\* The round is complete: from the last arrival until the reset.
Complete == cnt = numUser \/ fallen = 1

Present == {u \in User : pc[u] \in Inside \cup {"reset"}}

\* The user that resets the barrier is the last one: no other user is beyond
\* the gate, so nobody sets fallen after the reset or loses its arrival.
ResetIsAlone ==
    \A u, v \in User : pc[u] = "reset" /\ v # u => pc[v] \in {"out", "gate"}

\* A user leaves only in a complete round: the two loops and the two accesses
\* of the counter together implement a reusable barrier.
Abstract == INSTANCE CyclicBarrier
              WITH waiting <- IF Complete THEN {} ELSE Present,
                   passing <- IF Complete THEN Present ELSE {}

ImplementsBarrier == Abstract!Spec

\* Once everybody has arrived, everybody returns, whether or not anybody ever
\* calls barrier_wait again; a user that is slow to notice the release is not
\* caught by the next round.
AllReleased ==
    \A u \in User : (cnt = numUser) ~> (pc[u] = "out")

\* The gate opens again after every round.
GateOpens ==
    \A u \in User : (pc[u] = "gate") ~> (pc[u] # "gate")
=============================================================================
