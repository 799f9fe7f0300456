------------------------------ MODULE Objects ------------------------------
(***************************************************************************)
(* The life of one small object in shared memory, from get to release: the *)
(* mutex of src/mutex.c, the flag of src/flag.c or the barrier of          *)
(* src/barrier.c, whose users wait as module Barrier has it.  Every *_get  *)
(* takes the object's lock, and the first one sets its contents.           *)
(*                                                                         *)
(* A step is one access to shared memory.  A new segment is zero.  A user  *)
(* may die with the object's lock or with the mutex; a death elsewhere is  *)
(* a user that calls nothing more.                                         *)
(*                                                                         *)
(* TakeAnyway and the like are faulty variants of the definition that      *)
(* follows them; no action uses them.                                      *)
(***************************************************************************)
EXTENDS Barrier

CONSTANTS
    Kind,       \* of "mutex", "flag" and "barrier": what the object may be
    Padding     \* unused bytes behind the object that precedes this one; the
                \* data of a sensor buffer are words of four bytes

ASSUME KindAssumption    == Kind \subseteq {"mutex", "flag", "barrier"}
ASSUME PaddingAssumption == Padding \in {4, 8}

VARIABLES
    kind,       \* the type of the object
    lock,       \* the object's lock
    init,       \* its init flag
    mutex,      \* m->mutex
    f,          \* the flag's f
    at,         \* each user: "none", "have" it, or about to do what its label
                \* says, in a get or in a call of the mutex or of the flag
    val,        \* the value flag_spin waits for
    overrun,    \* a sensor buffer before this object has been initialized
    stranger    \* the mutex was unlocked by one that did not hold it (history)

headVars   == <<lock, init>>
objectVars == <<kind, headVars, mutex, f, at, val, overrun, stranger>>
allVars    == <<objectVars, vars>>

InGet == {"test", "clear", "mark", "unlock"}

ObjectInit ==
    /\ Init
    /\ kind \in Kind
    /\ lock = 0 /\ init = 0 /\ mutex = 0 /\ f = 0
    /\ at = [u \in User |-> "none"]
    /\ val = [u \in User |-> 0]
    /\ overrun = FALSE
    /\ stranger = FALSE

Move(u, from, to) == at[u] = from /\ at' = [at EXCEPT ![u] = to]

\* A step that leaves the contents of the object alone.
Aside == UNCHANGED <<kind, mutex, f, val, overrun, stranger, vars>>

-----------------------------------------------------------------------------
(***************************************************************************)
(* mutex_get, flag_get, barrier_get; the same for every kind of object     *)
(***************************************************************************)
\* shmman_get_shmseg returns the segment, or fails and the get returns -1.
Get(u) == Move(u, "none", "take") /\ UNCHANGED headVars /\ Aside
GetFails(u) == at[u] = "none" /\ UNCHANGED allVars

TakeAnyway(u) ==
    /\ Move(u, "take", "test")
    /\ lock' = 1
    /\ UNCHANGED init
    /\ Aside

\* atomic_cas32(&lock, 0, 1)
Take(u) ==
    /\ lock = 0
    /\ Move(u, "take", "test")
    /\ lock' = 1
    /\ UNCHANGED init
    /\ Aside

Test(u) ==
    /\ Move(u, "test", IF init = 0 THEN "clear" ELSE "unlock")
    /\ UNCHANGED headVars
    /\ Aside

ClearMutex   == kind = "mutex" /\ mutex' = 0 /\ UNCHANGED <<f, vars>>
ClearFlag    == kind = "flag" /\ f' = 0 /\ UNCHANGED <<mutex, vars>>
ClearBarrier == kind = "barrier" /\ cnt' = 0 /\ fallen' = 0
                /\ UNCHANGED <<mutex, f, pc>>

\* The first user.
Clear(u) ==
    /\ Move(u, "clear", "mark")
    /\ ClearMutex \/ ClearFlag \/ ClearBarrier
    /\ UNCHANGED <<kind, headVars, val, overrun, stranger>>

Mark(u) ==
    /\ Move(u, "mark", "unlock")
    /\ init' = 1
    /\ UNCHANGED lock
    /\ Aside

KeepLock(u) == Move(u, "unlock", "have") /\ UNCHANGED headVars /\ Aside

\* lock = 0; return 0
Unlock(u) ==
    /\ Move(u, "unlock", "have")
    /\ lock' = 0
    /\ UNCHANGED init
    /\ Aside

\* mutex_release, flag_release, barrier_release: the segment stays.
Release(u) ==
    /\ pc[u] = "out"
    /\ Move(u, "have", "none")
    /\ UNCHANGED headVars
    /\ Aside

\* A user is killed with a lock; nobody gives it back.
Die(u) ==
    /\ at[u] \in InGet \cup {"holds"}
    /\ Move(u, at[u], "dead")
    /\ UNCHANGED headVars
    /\ Aside

\* sensorbuffer_get of the object before this one clears r and v of a buffer
\* behind its last one: two words, of which the second may be lock.
Overrun ==
    /\ ~overrun
    /\ overrun' = TRUE
    /\ lock' = IF Padding = 4 THEN 0 ELSE lock
    /\ UNCHANGED <<kind, init, mutex, f, at, val, stranger, vars>>

-----------------------------------------------------------------------------
(***************************************************************************)
(* mutex.c                                                                 *)
(***************************************************************************)
OnMutex(u) == kind = "mutex" /\ UNCHANGED <<kind, headVars, f, val, overrun, vars>>

\* mutex_lock, until its compare-and-swap succeeds
MutexLock(u) ==
    /\ OnMutex(u)
    /\ Move(u, "have", "lock")
    /\ UNCHANGED <<mutex, stranger>>

LockedAnyway(u) ==
    /\ OnMutex(u)
    /\ Move(u, "lock", "holds")
    /\ mutex' = 1
    /\ UNCHANGED stranger

MutexLocked(u) ==
    /\ OnMutex(u)
    /\ mutex = 0
    /\ Move(u, "lock", "holds")
    /\ mutex' = 1
    /\ UNCHANGED stranger

\* mutex_trylock returns 0; otherwise it returns -1 and changes nothing.
MutexTrylock(u) ==
    /\ OnMutex(u)
    /\ mutex = 0
    /\ Move(u, "have", "holds")
    /\ mutex' = 1
    /\ UNCHANGED stranger

\* mutex_unlock stores 0 whoever calls it.
MutexUnlock(u) ==
    /\ OnMutex(u)
    /\ at[u] \in {"have", "holds"}
    /\ Move(u, at[u], "have")
    /\ mutex' = 0
    /\ stranger' = (stranger \/ (at[u] = "have" /\ mutex = 1))

-----------------------------------------------------------------------------
(***************************************************************************)
(* flag.c                                                                  *)
(***************************************************************************)
OnFlag(u) == kind = "flag" /\ UNCHANGED <<kind, headVars, mutex, overrun, stranger, vars>>

\* flag_set and flag_reset
FlagStore(u, value) ==
    /\ OnFlag(u)
    /\ at[u] = "have"
    /\ f' = value
    /\ UNCHANGED <<at, val>>

FlagSpin(u, value) ==
    /\ OnFlag(u)
    /\ Move(u, "have", "spin")
    /\ val' = [val EXCEPT ![u] = value]
    /\ UNCHANGED f

FlagSpun(u) ==
    /\ OnFlag(u)
    /\ f = val[u]
    /\ Move(u, "spin", "have")
    /\ val' = [val EXCEPT ![u] = 0]
    /\ UNCHANGED f

-----------------------------------------------------------------------------
OnBarrier(u) == kind = "barrier" /\ at[u] = "have" /\ UNCHANGED objectVars
BarrierCall(u) == OnBarrier(u) /\ Call(u)
BarrierWait(u) == OnBarrier(u) /\ Wait(u)

\* A step of a get once begun.
GetStep(u) == Take(u) \/ Test(u) \/ Clear(u) \/ Mark(u) \/ Unlock(u)

ObjectNext ==
    \/ Overrun
    \/ \E u \in User :
          \/ Get(u)
          \/ GetFails(u)
          \/ GetStep(u)
          \/ Release(u)
          \/ Die(u)
          \/ MutexLock(u)
          \/ MutexLocked(u)
          \/ MutexTrylock(u)
          \/ MutexUnlock(u)
          \/ \E value \in {0, 1} : FlagStore(u, value) \/ FlagSpin(u, value)
          \/ FlagSpun(u)
          \/ BarrierCall(u)
          \/ BarrierWait(u)

ObjectSpec == ObjectInit /\ [][ObjectNext]_allVars

\* A user inside a get, flag_spin or barrier_wait runs on.
ObjectFairSpec ==
    /\ ObjectSpec
    /\ \A u \in User : /\ WF_allVars(GetStep(u))
                       /\ WF_allVars(FlagSpun(u))
                       /\ WF_allVars(BarrierWait(u))

-----------------------------------------------------------------------------
(***************************************************************************)
(* Properties                                                              *)
(***************************************************************************)

\* Users that have the object and may have used it.
Using == {u \in User : at[u] \in {"have", "lock", "holds", "spin"}}

\* The object is initialized once, by one user, before anybody uses it: no get
\* takes away a mutex, a flag or an arrival at the barrier.
InitializedOnce ==
    [][\A u \in User : Clear(u) => init = 0 /\ Using = {}]_allVars

\* The mutex has one owner, whoever gets, releases or dies meanwhile, as long
\* as nobody unlocks what another has locked.
MutualExclusion ==
    \A u, w \in User :
        at[u] = "holds" /\ at[w] = "holds" => u = w \/ stranger

\* A get gives the object's lock back, unless it dies inside.
LockComesBack ==
    (lock = 1) ~> (lock = 0 \/ \E u \in User : at[u] = "dead")

\* flag_spin ends unless the flag leaves the value again and again: it may
\* miss a value that was there for a moment.
SpinEnds ==
    \A u \in User : []<>(at[u] # "spin") \/ []<>(f # val[u])

\* No wait outlives what it waits for: the barrier lets everybody go that has
\* arrived and opens its gate again, and the flag is seen.
WaitsEnd == AllReleased /\ GateOpens /\ SpinEnds
=============================================================================
