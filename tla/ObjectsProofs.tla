--------------------------- MODULE ObjectsProofs ---------------------------
(***************************************************************************)
(* Proofs about Barrier and Objects for every finite set of users and      *)
(* every kind of object.  Of a barrier by itself: type correctness, the    *)
(* lone reset, and that barrier_wait implements the cyclic barrier.  Of an *)
(* object: it is initialized once, the mutex has one owner, and the steps  *)
(* of gets, releases and deaths leave a barrier what module Barrier says.  *)
(*                                                                         *)
(* The argument for the barrier.  cnt is the number of users inside, so    *)
(* cnt = numUser means that all of them are.  From that moment to the      *)
(* reset the gate is or will be shut before anybody can come back to it,   *)
(* so nobody arrives; every user sets fallen before it decrements cnt, so  *)
(* the one that takes cnt to 0 is past every store of fallen when it       *)
(* resets it.                                                              *)
(*                                                                         *)
(* The argument for an object.  Its lock is 1 while a user is between its  *)
(* compare-and-swap and its store of 0, so there is one such user, and     *)
(* only it changes init: it tests, clears and marks undisturbed, and       *)
(* nobody has the object before init is 1.  After that nothing but         *)
(* mutex_lock, mutex_trylock and mutex_unlock writes the mutex.            *)
(*                                                                         *)
(* All of this is lost where the clearing of a sensor buffer in front of   *)
(* the object reaches its lock, so the theorems about objects are about    *)
(* the behaviours Spared of that; the run objects_overrun shows one that   *)
(* is not.                                                                 *)
(***************************************************************************)
EXTENDS Objects, FiniteSetTheorems, TLAPS

\* The users cnt counts.
In == {u \in User : pc[u] \in Inside}

BarrierInv ==
    /\ fallen \in {0, 1}
    /\ pc \in [User -> Label]
    /\ cnt = Cardinality(In)
    /\ \A u \in User : pc[u] = "open" => Complete
    /\ \A u \in User : pc[u] = "leave" => fallen = 1
    /\ \A u \in User : pc[u] = "reset" => fallen = 1 /\ cnt = 0
    /\ \A u \in User : pc[u] = "arrive" => fallen = 0
    /\ ResetIsAlone

-----------------------------------------------------------------------------
\* cnt ranges over 0 .. numUser; it is numUser when all users are inside and
\* 0 when none is.
LEMMA CntIs ==
    ASSUME BarrierInv
    PROVE  /\ In \subseteq User
           /\ IsFiniteSet(In)
           /\ cnt \in 0 .. numUser
           /\ cnt = numUser <=> In = User
           /\ cnt = 0 <=> In = {}
           /\ numUser \in Nat \ {0}
<1>1. In \subseteq User
  BY DEF In
<1>2. IsFiniteSet(In) /\ Cardinality(In) <= Cardinality(User)
      /\ (Cardinality(In) = Cardinality(User) => In = User)
  BY <1>1, FS_Subset, UserAssumption
<1>3. Cardinality(In) \in Nat /\ Cardinality(User) \in Nat
  BY <1>2, FS_CardinalityType, UserAssumption
<1>4. (Cardinality(In) = 0 <=> In = {}) /\ Cardinality(User) # 0
  BY <1>2, FS_EmptySet, UserAssumption
<1>. QED
  BY <1>1, <1>2, <1>3, <1>4, NumUserAssumption DEF BarrierInv

LEMMA BarrierInvInit == Init => BarrierInv
<1> SUFFICES ASSUME Init PROVE BarrierInv
  OBVIOUS
<1>1. In = {}
  BY DEF Init, In, Inside
<1>2. Cardinality(In) = 0
  BY <1>1, FS_EmptySet
<1>. QED
  BY <1>2 DEF Init, BarrierInv, Label, Complete, ResetIsAlone

\* A step that moves user u between two labels on the same side of the
\* counter leaves In alone.
LEMMA SameSide ==
    ASSUME pc \in [User -> Label], NEW u \in User, NEW from, NEW to \in Label,
           Goto(u, from, to), from \in Inside <=> to \in Inside
    PROVE  In' = In /\ pc' \in [User -> Label]
BY DEF Goto, In

LEMMA BarrierInvStep == BarrierInv /\ [Next]_vars => BarrierInv'
<1> SUFFICES ASSUME BarrierInv, [Next]_vars PROVE BarrierInv'
  OBVIOUS
<1>0. /\ pc \in [User -> Label] /\ cnt \in 0 .. numUser /\ IsFiniteSet(In)
      /\ cnt = Cardinality(In) /\ (cnt = numUser <=> In = User)
      /\ (cnt = 0 <=> In = {}) /\ numUser \in Nat \ {0}
  BY CntIs DEF BarrierInv
<1>1. ASSUME NEW u \in User, Call(u) PROVE BarrierInv'
  <2>1. In' = In /\ pc' \in [User -> Label]
    BY <1>0, <1>1, SameSide DEF Call, Label, Inside
  <2>. QED
    BY <1>0, <1>1, <2>1 DEF Call, Goto, BarrierInv, Complete, ResetIsAlone
<1>2. ASSUME NEW u \in User, PassGate(u) PROVE BarrierInv'
  <2>1. In' = In /\ pc' \in [User -> Label]
    BY <1>0, <1>2, SameSide DEF PassGate, Label, Inside
  <2>. QED
    BY <1>0, <1>2, <2>1 DEF PassGate, Goto, BarrierInv, Complete, ResetIsAlone
<1>3. ASSUME NEW u \in User, Arrive(u) PROVE BarrierInv'
  <2>1. pc' \in [User -> Label] /\ u \notin In /\ In' = In \cup {u}
    BY <1>0, <1>3 DEF Arrive, Goto, In, Inside, Label
  <2>2. cnt' = Cardinality(In')
    BY <1>0, <1>3, <2>1, FS_AddElement DEF Arrive
  <2>3. fallen = 0 /\ \A v \in User : pc[v] # "reset"
    BY <1>3 DEF Arrive, Goto, BarrierInv
  <2>4. cnt # numUser
    BY <1>0, <2>1
  <2>. QED
    BY <1>0, <1>3, <2>1, <2>2, <2>3, <2>4
       DEF Arrive, Goto, BarrierInv, Complete, ResetIsAlone
<1>4. ASSUME NEW u \in User, ReadCnt(u) PROVE BarrierInv'
  <2>1. In' = In /\ pc' \in [User -> Label]
    <3>1. CASE cnt # numUser
      BY <1>0, <1>4, <3>1, SameSide DEF ReadCnt, Label, Inside
    <3>2. CASE cnt = numUser
      BY <1>0, <1>4, <3>2, SameSide DEF ReadCnt, Label, Inside
    <3>. QED
      BY <3>1, <3>2
  <2>. QED
    BY <1>0, <1>4, <2>1 DEF ReadCnt, Goto, BarrierInv, Complete, ResetIsAlone
<1>5. ASSUME NEW u \in User, ReadFallen(u) PROVE BarrierInv'
  <2>1. In' = In /\ pc' \in [User -> Label]
    <3>1. CASE fallen = 0
      BY <1>0, <1>5, <3>1, SameSide DEF ReadFallen, Label, Inside
    <3>2. CASE fallen # 0
      BY <1>0, <1>5, <3>2, SameSide DEF ReadFallen, Label, Inside
    <3>. QED
      BY <3>1, <3>2
  <2>. QED
    BY <1>0, <1>5, <2>1 DEF ReadFallen, Goto, BarrierInv, Complete, ResetIsAlone
<1>6. ASSUME NEW u \in User, Open(u) PROVE BarrierInv'
  <2>1. In' = In /\ pc' \in [User -> Label]
    BY <1>0, <1>6, SameSide DEF Open, Label, Inside
  <2>2. Complete
    BY <1>6 DEF Open, Goto, BarrierInv
  <2>3. \A v \in User : pc[v] # "arrive"
    BY <1>0, <2>2 DEF BarrierInv, Complete, In, Inside
  <2>. QED
    BY <1>0, <1>6, <2>1, <2>3
       DEF Open, Goto, BarrierInv, Complete, ResetIsAlone
<1>7. ASSUME NEW u \in User, Leave(u) PROVE BarrierInv'
  <2>1. pc' \in [User -> Label] /\ u \in In /\ In' = In \ {u}
    BY <1>0, <1>7 DEF Leave, Goto, In, Inside, Label
  <2>2. cnt' = Cardinality(In')
    BY <1>0, <1>7, <2>1, FS_RemoveElement DEF Leave
  <2>3. fallen = 1 /\ \A v \in User : pc[v] \notin {"arrive", "reset"}
    BY <1>0, <1>7, <2>1 DEF Leave, Goto, BarrierInv
  <2>4. ASSUME cnt = 1, NEW v \in User, v # u PROVE pc[v] \in {"out", "gate"}
    <3>1. v \notin In
      BY <1>0, <1>7, <2>1, <2>2, <2>4, FS_RemoveElement, FS_EmptySet DEF Leave
    <3>. QED
      BY <1>0, <2>3, <3>1 DEF In, Inside, Label
  <2>. QED
    BY <1>0, <1>7, <2>1, <2>2, <2>3, <2>4
       DEF Leave, Goto, BarrierInv, Complete, ResetIsAlone
<1>8. ASSUME NEW u \in User, Reset(u) PROVE BarrierInv'
  <2>1. In' = In /\ pc' \in [User -> Label]
    BY <1>0, <1>8, SameSide DEF Reset, Label, Inside
  <2>2. \A v \in User : v # u => pc[v] \in {"out", "gate"}
    BY <1>8 DEF Reset, Goto, BarrierInv, ResetIsAlone
  <2>. QED
    BY <1>0, <1>8, <2>1, <2>2
       DEF Reset, Goto, BarrierInv, Complete, ResetIsAlone
<1>9. CASE UNCHANGED vars
  BY <1>9 DEF vars, BarrierInv, Complete, ResetIsAlone, In
<1>. QED
  BY <1>1, <1>2, <1>3, <1>4, <1>5, <1>6, <1>7, <1>8, <1>9 DEF Next, Wait

LEMMA BarrierInvHolds == Spec => []BarrierInv
<1>. QED
  BY BarrierInvInit, BarrierInvStep, PTL DEF Spec

-----------------------------------------------------------------------------
\* cnt stays between 0 and the number of users whatever the interleaving.
THEOREM TypeCorrect == Spec => []TypeOK
<1>1. BarrierInv => TypeOK
  BY CntIs DEF BarrierInv, TypeOK
<1>. QED
  BY <1>1, BarrierInvHolds, PTL

\* Whoever resets the barrier is the last user beyond the gate.
THEOREM LastOneResets == Spec => []ResetIsAlone
<1>1. BarrierInv => ResetIsAlone
  BY DEF BarrierInv
<1>. QED
  BY <1>1, BarrierInvHolds, PTL

-----------------------------------------------------------------------------
(***************************************************************************)
(* The refinement                                                          *)
(***************************************************************************)

\* A step that changes neither Complete nor Present is no step of the
\* abstract barrier.
LEMMA Stutter ==
    ASSUME Complete' = Complete, Present' = Present
    PROVE  UNCHANGED Abstract!vars
BY DEF Abstract!vars

\* barrier_wait is a reusable barrier for any number of users: no user returns
\* before every user of the round has arrived, and none arrives for the next
\* round before all have returned.
THEOREM WaitImplementsBarrier == Spec => ImplementsBarrier
<1>1. Init => Abstract!Init
  <2> SUFFICES ASSUME Init PROVE Abstract!Init
    OBVIOUS
  <2>1. Present = {}
    BY DEF Init, Present, Inside
  <2>. QED
    BY <2>1 DEF Abstract!Init
<1>2. BarrierInv /\ [Next]_vars => [Abstract!Next]_(Abstract!vars)
  <2> SUFFICES ASSUME BarrierInv, [Next]_vars
               PROVE  [Abstract!Next]_(Abstract!vars)
    OBVIOUS
  <2>0. /\ pc \in [User -> Label] /\ cnt \in 0 .. numUser /\ IsFiniteSet(In)
        /\ (cnt = numUser <=> In = User) /\ (cnt = 0 <=> In = {})
        /\ numUser \in Nat \ {0}
    BY CntIs DEF BarrierInv
  <2>00. BarrierInv'
    BY BarrierInvStep
  <2>1. ASSUME NEW u \in User, Call(u) PROVE UNCHANGED Abstract!vars
    BY <2>0, <2>1, Stutter DEF Call, Goto, Present, Inside, Complete
  <2>2. ASSUME NEW u \in User, PassGate(u) PROVE UNCHANGED Abstract!vars
    BY <2>0, <2>2, Stutter DEF PassGate, Goto, Present, Inside, Complete
  <2>3. ASSUME NEW u \in User, Arrive(u)
        PROVE  Abstract!Arrive(u) \/ Abstract!ArriveLast(u)
    <3>1. fallen = 0 /\ fallen' = 0
      BY <2>3 DEF Arrive, Goto, BarrierInv
    <3>2. u \notin In /\ In' = In \cup {u}
      BY <2>0, <2>3 DEF Arrive, Goto, In, Inside
    <3>3. Present = In /\ Present' = In'
      BY <2>00, <3>1 DEF Present, In, Inside, BarrierInv
    <3>4. ~Complete
      BY <2>0, <3>1, <3>2 DEF Complete
    <3>5. Complete' <=> In' = User
      <4>1. (cnt = numUser <=> In = User)'
        BY <2>00, CntIs, PTL
      <4>. QED
        BY <3>1, <4>1 DEF Complete
    <3>. QED
      BY <3>2, <3>3, <3>4, <3>5 DEF Abstract!Arrive, Abstract!ArriveLast
  <2>4. ASSUME NEW u \in User, ReadCnt(u) PROVE UNCHANGED Abstract!vars
    BY <2>0, <2>4, Stutter DEF ReadCnt, Goto, Present, Inside, Complete
  <2>5. ASSUME NEW u \in User, ReadFallen(u) PROVE UNCHANGED Abstract!vars
    BY <2>0, <2>5, Stutter DEF ReadFallen, Goto, Present, Inside, Complete
  <2>6. ASSUME NEW u \in User, Open(u) PROVE UNCHANGED Abstract!vars
    <3>1. Complete /\ Complete'
      BY <2>6 DEF Open, Goto, BarrierInv, Complete
    <3>2. Present' = Present
      BY <2>0, <2>6 DEF Open, Goto, Present, Inside
    <3>. QED
      BY <3>1, <3>2, Stutter
  <2>7. ASSUME NEW u \in User, Leave(u)
        PROVE  Abstract!Pass(u) \/ UNCHANGED Abstract!vars
    <3>1. Complete /\ Complete'
      BY <2>7 DEF Leave, Goto, BarrierInv, Complete
    <3>2. CASE cnt = 1
      <4>1. Present' = Present
        BY <2>0, <2>7, <3>2 DEF Leave, Goto, Present, Inside
      <4>. QED
        BY <3>1, <4>1, Stutter
    <3>3. CASE cnt # 1
      <4>1. u \in Present /\ Present' = Present \ {u}
        BY <2>0, <2>7, <3>3 DEF Leave, Goto, Present, Inside
      <4>. QED
        BY <3>1, <4>1 DEF Abstract!Pass
    <3>. QED
      BY <3>2, <3>3
  <2>8. ASSUME NEW u \in User, Reset(u) PROVE Abstract!Pass(u)
    <3>1. Complete /\ ~Complete'
      BY <2>0, <2>8 DEF Reset, Goto, BarrierInv, Complete
    <3>2. u \in Present /\ Present = {u} /\ Present' = {}
      BY <2>0, <2>8
         DEF Reset, Goto, BarrierInv, ResetIsAlone, Present, Inside
    <3>. QED
      BY <3>1, <3>2 DEF Abstract!Pass
  <2>9. CASE UNCHANGED vars
    BY <2>9, Stutter DEF vars, Present, Complete
  <2>. QED
    BY <2>1, <2>2, <2>3, <2>4, <2>5, <2>6, <2>7, <2>8, <2>9
       DEF Next, Wait, Abstract!Next
<1>3. QED
  BY <1>1, <1>2, BarrierInvHolds, PTL DEF Spec, ImplementsBarrier, Abstract!Spec

-----------------------------------------------------------------------------
(***************************************************************************)
(* The object                                                              *)
(***************************************************************************)

\* No overrun so far, or one that ends in the padding.
Spared == Padding = 8 \/ ~overrun

Place == InGet \cup {"none", "take", "have", "lock", "holds", "spin", "dead"}

\* At most one user is inside a get, and it holds the object's lock.
GetIsAlone ==
    /\ \A u \in User : at[u] \in InGet => lock = 1
    /\ \A u, w \in User : at[u] \in InGet /\ at[w] \in InGet => u = w

\* What the user inside the get has made of init; nobody uses the object before.
InitIsKnown ==
    /\ \A u \in User : at[u] \in {"clear", "mark"} => init = 0
    /\ \A u \in User : at[u] = "unlock" => init = 1
    /\ init = 0 => Using = {} /\ fallen = 0

\* barrier_wait is called by users that have the barrier.
WaitersHave ==
    \A u \in User : pc[u] # "out" => kind = "barrier" /\ at[u] = "have"

\* The owner's mutex is 1.
MutexIsHeld ==
    ~stranger => \A u \in User : at[u] = "holds" => mutex = 1

ObjectInv ==
    /\ lock \in {0, 1}
    /\ init \in {0, 1}
    /\ at \in [User -> Place]
    /\ GetIsAlone
    /\ InitIsKnown
    /\ WaitersHave
    /\ MutexIsHeld
    /\ MutualExclusion
    /\ BarrierInv

-----------------------------------------------------------------------------
\* A new segment with no user.
LEMMA ObjectInvInit == ObjectInit => ObjectInv
<1> SUFFICES ASSUME ObjectInit PROVE ObjectInv
  OBVIOUS
<1>1. BarrierInv
  BY BarrierInvInit DEF ObjectInit
<1>. QED
  BY <1>1 DEF ObjectInit, Init, ObjectInv, Place, InGet, GetIsAlone, InitIsKnown,
              Using, WaitersHave, MutexIsHeld, MutualExclusion

\* While nobody uses it the barrier is as barrier_get leaves it.
LEMMA UnusedBarrier ==
    ASSUME ObjectInv, init = 0
    PROVE  cnt = 0 /\ fallen = 0
<1>1. In = {}
  BY DEF ObjectInv, InitIsKnown, WaitersHave, Using, In, Inside
<1>. QED
  BY <1>1, FS_EmptySet DEF ObjectInv, InitIsKnown, BarrierInv

\* Every step is one of barrier_wait or leaves the barrier alone: the first get
\* stores the values that are there already.
LEMMA StepOfBarrier == ObjectInv /\ [ObjectNext]_allVars => [Next]_vars
<1> SUFFICES ASSUME ObjectInv, [ObjectNext]_allVars PROVE [Next]_vars
  OBVIOUS
<1>1. ASSUME NEW u \in User, Clear(u) PROVE UNCHANGED vars
  <2>1. init = 0
    BY <1>1 DEF Clear, Move, ObjectInv, InitIsKnown
  <2>2. cnt = 0 /\ fallen = 0
    BY <2>1, UnusedBarrier
  <2>. QED
    BY <1>1, <2>2 DEF Clear, ClearMutex, ClearFlag, ClearBarrier, vars
<1>2. ASSUME NEW u \in User,
             Get(u) \/ GetFails(u) \/ Take(u) \/ Test(u) \/ Mark(u)
             \/ Unlock(u) \/ Release(u) \/ Die(u)
      PROVE  UNCHANGED vars
  BY <1>2 DEF Get, GetFails, Take, Test, Mark, Unlock, Release, Die, Aside, allVars
<1>3. ASSUME NEW u \in User,
             MutexLock(u) \/ MutexLocked(u) \/ MutexTrylock(u) \/ MutexUnlock(u)
      PROVE  UNCHANGED vars
  BY <1>3 DEF MutexLock, MutexLocked, MutexTrylock, MutexUnlock, OnMutex
<1>4. ASSUME NEW u \in User, NEW value,
             FlagStore(u, value) \/ FlagSpin(u, value) \/ FlagSpun(u)
      PROVE  UNCHANGED vars
  BY <1>4 DEF FlagStore, FlagSpin, FlagSpun, OnFlag
<1>5. ASSUME NEW u \in User, BarrierCall(u) \/ BarrierWait(u) PROVE Next
  BY <1>5 DEF BarrierCall, BarrierWait, Next
<1>6. CASE Overrun
  BY <1>6 DEF Overrun
<1>7. CASE UNCHANGED allVars
  BY <1>7 DEF allVars
<1>. QED
  BY <1>1, <1>2, <1>3, <1>4, <1>5, <1>6, <1>7 DEF ObjectNext, GetStep

\* A step of barrier_wait moves its caller.
LEMMA WaitMovesOne ==
    ASSUME NEW u \in User, pc \in [User -> Label], Call(u) \/ Wait(u)
    PROVE  \A v \in User : v # u => pc'[v] = pc[v]
BY DEF Call, Wait, PassGate, Arrive, ReadCnt, ReadFallen, Open, Leave, Reset, Goto

-----------------------------------------------------------------------------
\* Take is the only way into a get, and needs the lock to be 0; the user inside
\* alone changes init.
LEMMA ObjectInvStep ==
    ObjectInv /\ Spared' /\ [ObjectNext]_allVars => ObjectInv'
<1> SUFFICES ASSUME ObjectInv, Spared', [ObjectNext]_allVars PROVE ObjectInv'
  OBVIOUS
<1>0. BarrierInv'
  BY StepOfBarrier, BarrierInvStep DEF ObjectInv
<1> USE <1>0 DEF ObjectInv, GetIsAlone, InitIsKnown, Using, WaitersHave, MutexIsHeld,
                 MutualExclusion, Place, InGet, Move, Aside, headVars, vars
<1>1. ASSUME NEW u \in User, Get(u) \/ GetFails(u) PROVE ObjectInv'
  BY <1>1 DEF Get, GetFails, allVars, objectVars
<1>2. ASSUME NEW u \in User, Take(u) PROVE ObjectInv'
  BY <1>2 DEF Take
<1>3. ASSUME NEW u \in User, Test(u) PROVE ObjectInv'
  BY <1>3 DEF Test
<1>4. ASSUME NEW u \in User, Clear(u) PROVE ObjectInv'
  BY <1>4, UnusedBarrier DEF Clear, ClearMutex, ClearFlag, ClearBarrier
<1>5. ASSUME NEW u \in User, Mark(u) PROVE ObjectInv'
  BY <1>5 DEF Mark
<1>6. ASSUME NEW u \in User, Unlock(u) PROVE ObjectInv'
  BY <1>6 DEF Unlock
<1>7. ASSUME NEW u \in User, Release(u) PROVE ObjectInv'
  BY <1>7 DEF Release
<1>8. ASSUME NEW u \in User, Die(u) PROVE ObjectInv'
  BY <1>8 DEF Die
<1>9. CASE Overrun
  BY <1>9 DEF Overrun, Spared
<1>10. ASSUME NEW u \in User, MutexLock(u) PROVE ObjectInv'
  BY <1>10 DEF MutexLock, OnMutex
<1>11. ASSUME NEW u \in User, MutexLocked(u) \/ MutexTrylock(u) PROVE ObjectInv'
  BY <1>11 DEF MutexLocked, MutexTrylock, OnMutex
<1>12. ASSUME NEW u \in User, MutexUnlock(u) PROVE ObjectInv'
  <2>1. CASE at[u] = "have"
    BY <1>12, <2>1 DEF MutexUnlock, OnMutex
  <2>2. CASE at[u] = "holds"
    BY <1>12, <2>2 DEF MutexUnlock, OnMutex
  <2>. QED
    BY <1>12, <2>1, <2>2 DEF MutexUnlock
<1>13. ASSUME NEW u \in User, NEW value \in {0, 1},
              FlagStore(u, value) \/ FlagSpin(u, value) \/ FlagSpun(u)
       PROVE  ObjectInv'
  <2>1. CASE FlagStore(u, value)
    BY <2>1 DEF FlagStore, OnFlag
  <2>2. CASE FlagSpin(u, value)
    BY <2>2 DEF FlagSpin, OnFlag
  <2>3. CASE FlagSpun(u)
    BY <2>3 DEF FlagSpun, OnFlag
  <2>. QED
    BY <1>13, <2>1, <2>2, <2>3
<1>14. ASSUME NEW u \in User, BarrierCall(u) \/ BarrierWait(u) PROVE ObjectInv'
  <2>1. /\ kind = "barrier" /\ at[u] = "have" /\ UNCHANGED objectVars
        /\ \A v \in User : v # u => pc'[v] = pc[v]
    BY <1>14, WaitMovesOne DEF BarrierCall, BarrierWait, OnBarrier, BarrierInv
  <2>2. init = 1
    BY <2>1
  <2>. QED
    BY <2>1, <2>2 DEF objectVars
<1>15. CASE UNCHANGED allVars
  BY <1>15 DEF allVars, objectVars
<1>. QED
  BY <1>1, <1>2, <1>3, <1>4, <1>5, <1>6, <1>7, <1>8, <1>9, <1>10, <1>11, <1>12,
     <1>13, <1>14, <1>15 DEF ObjectNext, GetStep

LEMMA ObjectInvHolds == ObjectSpec /\ []Spared => []ObjectInv
<1>. QED
  BY ObjectInvInit, ObjectInvStep, PTL DEF ObjectSpec

-----------------------------------------------------------------------------
(***************************************************************************)
(* Results                                                                 *)
(***************************************************************************)

\* The contents of the object are set by one user, once, before anybody uses
\* them, whoever dies in a get meanwhile.
THEOREM ObjectInitializedOnce == ObjectSpec /\ []Spared => InitializedOnce
<1>1. ObjectInv /\ [ObjectNext]_allVars =>
          [\A u \in User : Clear(u) => init = 0 /\ Using = {}]_allVars
  BY DEF ObjectInv, InitIsKnown, Clear, Move
<1>. QED
  BY <1>1, ObjectInvHolds, PTL DEF ObjectSpec, InitializedOnce

\* The mutex has one owner, for every number of users, as long as nobody
\* unlocks what another has locked.
THEOREM MutexHasOneOwner == ObjectSpec /\ []Spared => []MutualExclusion
<1>1. ObjectInv => MutualExclusion
  BY DEF ObjectInv
<1>. QED
  BY <1>1, ObjectInvHolds, PTL

\* A barrier that users get, release and die with is the barrier of module
\* Barrier: what is proved of that one holds of the object.
THEOREM ObjectIsBarrier == ObjectSpec /\ []Spared => Spec
<1>1. ObjectInit => Init
  BY DEF ObjectInit
<1>. QED
  BY <1>1, StepOfBarrier, ObjectInvHolds, PTL DEF ObjectSpec, Spec

\* The counter stays in range, the last user resets alone, and barrier_wait
\* implements the reusable barrier, all with gets and releases in between.
THEOREM ObjectImplementsBarrier ==
    ObjectSpec /\ []Spared => []TypeOK /\ []ResetIsAlone /\ ImplementsBarrier
<1>. QED
  BY ObjectIsBarrier, TypeCorrect, LastOneResets, WaitImplementsBarrier, PTL
=============================================================================
