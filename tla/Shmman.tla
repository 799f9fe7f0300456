------------------------------- MODULE Shmman -------------------------------
(***************************************************************************)
(* The shared memory manager of system/linux/src/shmman.c: a table in      *)
(* shared memory of the objects' segments, each a piece of a System V      *)
(* segment, and in every process the tables of what it has attached.       *)
(*                                                                         *)
(* A step is one access to a location another process writes.  What is     *)
(* written under shared_lock and never changed afterwards is read with the *)
(* step next to it.  A process has one descriptor of an object at a time.  *)
(* local_sysVshmseg_table's cnt, which nothing reads, is left out.         *)
(*                                                                         *)
(* The module follows one life of the manager's own segment, from the      *)
(* initialize that makes it until nobody is attached to it any more.       *)
(* Finalize removes its name while others go on using it, and the next     *)
(* initialize then begins another life.  The lives share the keys of the   *)
(* System V segments and nothing else: OtherLife is what they do to those. *)
(*                                                                         *)
(* RoomUnchecked and the like are faulty variants of the definition that   *)
(* follows them; no action uses them.                                      *)
(***************************************************************************)
EXTENDS Integers, Sequences, FiniteSets

CONSTANTS
    Proc,               \* the processes
    MAX_SHMSEG,         \* ids of objects: 0 .. MAX_SHMSEG - 1
    MAX_SVSHMSEG,       \* the most System V segments
    FtokIds,            \* ftok uses the id modulo this: 256
    MIN_SVSHMSEGSIZE,   \* the least pages of one
    PageSize,           \* linux_pagesize
    Size,               \* the size of each object, in bytes
    Beginnings,         \* the life begins "alone", "crowded" by users or leavings
                        \* of earlier lives, or either
    MaxCnt              \* bound on the counts with which a get begins

ASSUME ProcAssumption     == IsFiniteSet(Proc)
ASSUME MaxShmAssumption   == MAX_SHMSEG \in Nat \ {0}
ASSUME MaxSvAssumption    == MAX_SVSHMSEG \in Nat
ASSUME FtokIdsAssumption  == FtokIds \in Nat /\ FtokIds > MAX_SVSHMSEG
ASSUME MinPagesAssumption == MIN_SVSHMSEGSIZE \in Nat
ASSUME PageSizeAssumption == PageSize \in Nat \ {0} /\ PageSize % 8 = 0
ASSUME SizeAssumption     == Size \in [0 .. MAX_SHMSEG - 1 -> Nat]
ASSUME BeginningsAssumption == Beginnings \subseteq {"alone", "crowded"}
ASSUME MaxCntAssumption   == MaxCnt \in Nat

VARIABLES
    lock,       \* *shared_lock
    initflag,   \* *shared_initflag
    key_cnt,    \* *shared_key_cnt
    sysVtable,  \* shared_sysVshmseg_table, as long as *shared_sysVseg_cnt
    shmtable,   \* shared_shmseg_table: NoEntry where init is 0
    cnt,        \* the cnt of each entry
    kernel,     \* the System V segment each key names: "none", one of "ours", or
                \* one of "theirs", made in another life
    life,       \* how it began, or "removed": it has lost its name to a finalize
    pc,         \* each process: "out", "idle", "dead", "gone" to another life,
                \* or what it does next
    undone,     \* of its initialize: "nolock", the pointers to lock and flag are
                \* cleared; "freed", the local tables are; "halfway", segments
                \* are detached that the local table still points into
    arg,        \* shmid of its call
    idx,        \* sysVshmseg_table_idx in create, the loop counter in finalize
    sysVid,     \* its local_sysVshmseg_table: attached segments by index, or -1
    ptr,        \* its local_shmseg_table: <<segment, offset>>, or NULL
    rd,         \* the cnt it has read and is about to write back
    failed,     \* a create has returned with the lock taken, or a process has
                \* died with it (history)
    drift       \* ids whose cnt lost an update, or a user that did not
                \* release (history)

shared == <<lock, initflag, key_cnt, sysVtable, shmtable>>
system == <<kernel, life>>
local  == <<undone, arg, idx, sysVid, ptr, rd>>
history == <<failed, drift>>
vars   == <<shared, cnt, system, pc, local, history>>

Shmid   == 0 .. MAX_SHMSEG - 1
SvIndex == 1 .. MAX_SVSHMSEG
NoEntry == [sysVtable_idx |-> 0, offset |-> 0, size |-> 0]
NULL    == <<0, 0>>
Key     == 0 .. FtokIds - 1
Foreign == FtokIds   \* in the local tables: a segment of another life

\* The size rounded up to the next multiple of 8 above it.
Aligned(size) == size + (8 - (size % 8))

Larger(a, b) == IF a < b THEN b ELSE a

Pages(shm_size) == Larger((shm_size \div PageSize) + 1, MIN_SVSHMSEGSIZE)

\* Before the first initialize; the new segment of shmman is zero.
Init ==
    /\ lock = 0 /\ initflag = 0 /\ key_cnt = 0
    /\ sysVtable = <<>>
    /\ shmtable = [s \in Shmid |-> NoEntry]
    /\ cnt = [s \in Shmid |-> 0]
    /\ kernel = [k \in Key |-> "none"]
    /\ life \in Beginnings
    /\ undone = [p \in Proc |-> {}]
    /\ pc = [p \in Proc |-> "out"]
    /\ arg = [p \in Proc |-> 0]
    /\ idx = [p \in Proc |-> 0]
    /\ sysVid = [p \in Proc |-> [v \in SvIndex |-> -1]]
    /\ ptr = [p \in Proc |-> [s \in Shmid |-> NULL]]
    /\ rd = [p \in Proc |-> 0]
    /\ failed = FALSE
    /\ drift = {}

\* The ids a process has got and not released.
Held(p) == {s \in Shmid : ptr[p][s] # NULL}

\* Its local tables, when they are new or no longer used.
NoTables(p) ==
    /\ sysVid' = [sysVid EXCEPT ![p] = [v \in SvIndex |-> -1]]
    /\ ptr' = [ptr EXCEPT ![p] = [s \in Shmid |-> NULL]]

Goto(p, label) == pc' = [pc EXCEPT ![p] = label]

\* A call returns, whatever its value; its locals are dropped.
Forget(p) ==
    /\ arg' = [arg EXCEPT ![p] = 0]
    /\ idx' = [idx EXCEPT ![p] = 0]
    /\ rd' = [rd EXCEPT ![p] = 0]

Return(p) == Goto(p, "idle") /\ Forget(p)

\* The processes that have the segment of shmman mapped.
Attacheds == {p \in Proc : pc[p] \notin {"out", "rmself", "gone", "dead"}}

\* The kernel detaches what a dead process had; nobody else cleans up after it.
Dies(p) ==
    /\ Goto(p, "dead")
    /\ failed' = (failed \/ pc[p] \in {"init", "create", "made", "entry"})
    /\ drift' = drift \cup Held(p)
                \cup (IF pc[p] \in {"up", "down"} THEN {arg[p]} ELSE {})
    /\ undone' = [undone EXCEPT ![p] = {}]
    /\ NoTables(p)
    /\ Forget(p)

-----------------------------------------------------------------------------
(***************************************************************************)
(* shmman_initialize                                                       *)
(***************************************************************************)
\* The segment of shmman is attached, which leaves nothing behind where it fails;
\* the lock comes next.  A segment that has lost its name can be attached only by
\* a process whose shmget came before, and while it exists.  A process that has
\* not left may begin anew, at the cost of what it has not released: its local
\* tables are new and empty.
Initialize(p) ==
    /\ pc[p] \in {"out", "idle"}
    /\ life = "removed" => Attacheds # {}
    /\ drift' = drift \cup Held(p)
    /\ undone' = [undone EXCEPT ![p] = {}]
    /\ NoTables(p)
    /\ Goto(p, "initlock")
    /\ UNCHANGED <<shared, cnt, system, arg, idx, rd, failed>>

InitializeLock(p) ==
    /\ pc[p] = "initlock"
    /\ lock = 0
    /\ lock' = 1
    /\ Goto(p, "init")
    /\ UNCHANGED <<initflag, key_cnt, sysVtable, shmtable, cnt, system, local,
                   history>>

\* The tables are reset if nobody has done so; the lock is released.
InitializeTables(p) ==
    /\ pc[p] = "init"
    /\ IF initflag = 0
       THEN /\ initflag' = 1
            /\ sysVtable' = <<>>
            /\ key_cnt' = 1
            /\ shmtable' = [s \in Shmid |-> NoEntry]
       ELSE UNCHANGED <<initflag, sysVtable, key_cnt, shmtable>>
    /\ lock' = 0
    /\ Return(p)
    /\ UNCHANGED <<cnt, system, undone, sysVid, ptr, history>>

-----------------------------------------------------------------------------
(***************************************************************************)
(* shmman_create_shmseg, called by shmman_get_shmseg                       *)
(***************************************************************************)
\* Through the pointer that finalize has cleared there is no get, only a death.
GetCall(p) ==
    /\ pc[p] = "idle"
    /\ undone[p] \cap {"nolock", "freed"} = {}
    /\ \E s \in Shmid :
          /\ cnt[s] \in 0 .. MaxCnt
          /\ arg' = [arg EXCEPT ![p] = s]
    /\ Goto(p, "lock")
    /\ UNCHANGED <<shared, cnt, system, undone, idx, sysVid, ptr, rd, history>>

CreateLockUntested(p) ==
    /\ pc[p] = "lock"
    /\ lock' = 1
    /\ Goto(p, "create")
    /\ UNCHANGED <<initflag, key_cnt, sysVtable, shmtable, cnt, system, local,
                   history>>

CreateLock(p) ==
    /\ pc[p] = "lock"
    /\ lock = 0
    /\ lock' = 1
    /\ Goto(p, "create")
    /\ UNCHANGED <<initflag, key_cnt, sysVtable, shmtable, cnt, system, local,
                   history>>

shm_size(p) == Aligned(Size[arg[p]])

CreateExists(p) ==
    /\ pc[p] = "create"
    /\ shmtable[arg[p]] # NoEntry
    /\ lock' = 0
    /\ Goto(p, "attach")
    /\ UNCHANGED <<initflag, key_cnt, sysVtable, shmtable, cnt, system, local,
                   history>>

CreatingAgain(p) == pc[p] = "create"
Creating(p) == pc[p] = "create" /\ shmtable[arg[p]] = NoEntry

\* The System V segments with room enough.  The test for MAX_SHMSEG entries is
\* left out: *shared_shmseg_cnt counts the entries, and this id has none yet.
RoomUnchecked(p) == DOMAIN sysVtable
Room(p) ==
    {v \in DOMAIN sysVtable :
        sysVtable[v].size - sysVtable[v].offset >= shm_size(p)}

First(S) == CHOOSE v \in S : \A u \in S : v <= u

\* The segment fits into the first System V segment with room.
CreateFits(p) ==
    /\ Creating(p)
    /\ Room(p) # {}
    /\ idx' = [idx EXCEPT ![p] = First(Room(p))]
    /\ Goto(p, "entry")
    /\ UNCHANGED <<shared, cnt, system, undone, arg, sysVid, ptr, rd, history>>

CreateRefusedLocked(p) ==
    /\ Creating(p)
    /\ Room(p) = {}
    /\ Len(sysVtable) >= MAX_SVSHMSEG
    /\ Return(p)
    /\ UNCHANGED <<shared, cnt, system, undone, sysVid, ptr, history>>

\* The table is full: the lock is released, return -1.
CreateRefused(p) ==
    /\ Creating(p)
    /\ Room(p) = {}
    /\ Len(sysVtable) >= MAX_SVSHMSEG
    /\ lock' = 0
    /\ Return(p)
    /\ UNCHANGED <<initflag, key_cnt, sysVtable, shmtable, cnt, system, undone,
                   sysVid, ptr, history>>

CreatingNew(p) ==
    /\ Creating(p)
    /\ Room(p) = {}
    /\ Len(sysVtable) < MAX_SVSHMSEG

NewSize(p) == Pages(shm_size(p)) * PageSize

\* The result of ftok, less the part all keys share.
createSysVKey == key_cnt % FtokIds

\* shmget opens a segment that is there already, if it is large enough.
ShmgetCreates ==
    kernel' = [kernel EXCEPT ![createSysVKey] = IF @ = "none" THEN "ours" ELSE @]

\* What a process attaches under a key.
SegmentOf(key) == IF kernel[key] = "theirs" THEN Foreign ELSE key

\* A new System V segment, attached and entered in the local table.
CreateSysV(p) ==
    /\ CreatingNew(p)
    /\ ShmgetCreates
    /\ key_cnt' = key_cnt + 1
    /\ sysVid' = [sysVid EXCEPT ![p][Len(sysVtable) + 1] = SegmentOf(createSysVKey)]
    /\ Goto(p, "made")
    /\ UNCHANGED <<lock, initflag, sysVtable, shmtable, cnt, life, undone,
                   arg, idx, ptr, rd, history>>

\* The key of the segment a process has made and not entered in the table.
NewKey == (key_cnt - 1) % FtokIds

\* The entry in the shared table, which counts from here on.
CreateNew(p) ==
    /\ pc[p] = "made"
    /\ sysVtable' = Append(sysVtable, [sysVkey |-> NewKey, size |-> NewSize(p),
                                       offset |-> 0])
    /\ idx' = [idx EXCEPT ![p] = Len(sysVtable) + 1]
    /\ Goto(p, "entry")
    /\ UNCHANGED <<lock, initflag, key_cnt, shmtable, cnt, system, undone, arg,
                   sysVid, ptr, rd, history>>

\* shmget or, with the segment there, shmat fails: return -1, keeping the lock.
CreateFails(p) ==
    /\ CreatingNew(p)
    /\ key_cnt' = key_cnt + 1
    /\ ShmgetCreates \/ UNCHANGED kernel
    /\ failed' = TRUE
    /\ Return(p)
    /\ UNCHANGED <<lock, initflag, sysVtable, shmtable, cnt, life, undone,
                   sysVid, ptr, drift>>

\* The segment's lock and init flag are cleared through the pointer of the local
\* table; where this process has not attached the System V segment, that is what
\* malloc returned: the process dies of it, or writes where nobody looks.
\* Then the new entry, and the lock is released.  A process that dies on the way
\* leaves the entry and the space not yet taken.
CreateEntry(p) ==
    /\ pc[p] = "entry"
    /\ LET v == idx[p] IN
          /\ shmtable' = [shmtable EXCEPT ![arg[p]] =
                [sysVtable_idx |-> v, offset |-> sysVtable[v].offset,
                 size |-> shm_size(p)]]
          /\ cnt' = [cnt EXCEPT ![arg[p]] = 0]
          /\ \/ /\ sysVtable' = [sysVtable EXCEPT ![v].offset = @ + shm_size(p)]
                /\ lock' = 0
                /\ Goto(p, "attach")
                /\ UNCHANGED <<local, failed, drift>>
             \/ /\ Dies(p)
                /\ UNCHANGED <<sysVtable, lock>>
    /\ UNCHANGED <<initflag, key_cnt, system>>

-----------------------------------------------------------------------------
(***************************************************************************)
(* The rest of shmman_get_shmseg                                           *)
(***************************************************************************)
ConnectedNever(p) == FALSE
Connected(p) == ptr[p][arg[p]] # NULL

GetAgain(p) ==
    /\ pc[p] = "attach"
    /\ Connected(p)
    /\ Return(p)
    /\ UNCHANGED <<shared, cnt, system, undone, sysVid, ptr, history>>

\* The System V segment is attached, unless it is already; the count is read.
Attach(p) ==
    /\ pc[p] = "attach"
    /\ ~Connected(p)
    /\ LET v == shmtable[arg[p]].sysVtable_idx IN
       LET key == sysVtable[v].sysVkey IN
          \/ sysVid[p][v] # -1 /\ UNCHANGED sysVid
          \/ /\ sysVid[p][v] = -1 /\ kernel[key] # "none"
             /\ sysVid' = [sysVid EXCEPT ![p][v] = SegmentOf(key)]
    /\ rd' = [rd EXCEPT ![p] = cnt[arg[p]]]
    /\ Goto(p, "up")
    /\ UNCHANGED <<shared, cnt, system, undone, arg, idx, ptr, history>>

\* shmget or shmat fails: return -1.
AttachFails(p) ==
    /\ pc[p] = "attach"
    /\ ~Connected(p)
    /\ sysVid[p][shmtable[arg[p]].sysVtable_idx] = -1
    /\ Return(p)
    /\ UNCHANGED <<shared, cnt, system, undone, sysVid, ptr, history>>

\* A count is written back; an update between is lost.
WriteCnt(p, value) ==
    /\ cnt' = [cnt EXCEPT ![arg[p]] = value]
    /\ drift' = IF rd[p] = cnt[arg[p]] THEN drift ELSE drift \cup {arg[p]}

CountUp(p) ==
    /\ pc[p] = "up"
    /\ WriteCnt(p, rd[p] + 1)
    /\ LET e == shmtable[arg[p]] IN
          ptr' = [ptr EXCEPT ![p][arg[p]] =
                     <<sysVid[p][e.sysVtable_idx], e.offset>>]
    /\ Return(p)
    /\ UNCHANGED <<shared, system, undone, sysVid, failed>>

-----------------------------------------------------------------------------
(***************************************************************************)
(* shmman_release_shmseg and shmman_disconnect, which take no lock         *)
(***************************************************************************)
Release(p) ==
    /\ pc[p] = "idle"
    /\ \E s \in Held(p) :
          /\ ptr' = [ptr EXCEPT ![p][s] = NULL]
          /\ arg' = [arg EXCEPT ![p] = s]
          /\ rd' = [rd EXCEPT ![p] = cnt[s]]
    /\ Goto(p, "down")
    /\ UNCHANGED <<shared, cnt, system, undone, idx, sysVid, history>>

CountDown(p) ==
    /\ pc[p] = "down"
    /\ WriteCnt(p, rd[p] - 1)
    /\ Return(p)
    /\ UNCHANGED <<shared, system, undone, sysVid, ptr, failed>>

\* All System V segments are detached and the local tables freed; the counts of
\* the objects not released stay as they are.  The segment of shmman stays
\* attached, so that a finalize may follow.
Disconnect(p) ==
    /\ pc[p] = "idle"
    /\ undone[p] # {"freed"}
    /\ NoTables(p)
    /\ drift' = drift \cup Held(p)
    /\ undone' = [undone EXCEPT ![p] = {"freed"}]
    /\ UNCHANGED <<shared, cnt, system, pc, arg, idx, rd, failed>>

\* shmdt fails: return -1, the segments before detached and nothing freed.
DisconnectFails(p) ==
    /\ pc[p] = "idle"
    /\ \E v \in DOMAIN sysVtable :
          /\ sysVid[p][v] # -1
          /\ sysVid' = [sysVid EXCEPT ![p] =
                [u \in SvIndex |-> IF u < v THEN -1 ELSE sysVid[p][u]]]
    /\ undone' = [undone EXCEPT ![p] = IF sysVid' = sysVid THEN @ ELSE @ \cup {"halfway"}]
    /\ UNCHANGED <<shared, cnt, system, pc, arg, idx, ptr, rd, history>>

-----------------------------------------------------------------------------
(***************************************************************************)
(* shmman_finalize, by any process and whatever the others do              *)
(***************************************************************************)
\* The pointers to the lock and the flag are cleared, in this process.
Finalize(p) ==
    /\ pc[p] = "idle"
    /\ idx' = [idx EXCEPT ![p] = 1]
    /\ undone' = [undone EXCEPT ![p] = IF @ = {"freed"} THEN @ ELSE @ \cup {"nolock"}]
    /\ Goto(p, "finalize")
    /\ UNCHANGED <<shared, cnt, system, arg, sysVid, ptr, rd, history>>

EntriesButLast(p) == idx[p] < Len(sysVtable)
Entries(p) == idx[p] <= Len(sysVtable)

FinalizeFind(p) ==
    /\ pc[p] = "finalize"
    /\ Entries(p)
    /\ kernel[sysVtable[idx[p]].sysVkey] # "none"
    /\ Goto(p, "rmid")
    /\ UNCHANGED <<shared, cnt, system, local, history>>

\* The segment that was found goes.  Another finalize may have removed it since;
\* the key then names none, or that of another life.
FinalizeRemove(p) ==
    /\ pc[p] = "rmid"
    /\ LET key == sysVtable[idx[p]].sysVkey IN
          \/ kernel' = [kernel EXCEPT ![key] = "none"]
          \/ kernel[key] # "ours" /\ UNCHANGED kernel
    /\ idx' = [idx EXCEPT ![p] = @ + 1]
    /\ Goto(p, "finalize")
    /\ UNCHANGED <<shared, cnt, life, undone, arg, sysVid, ptr, rd, history>>

\* shmget does not find the key, or another call fails: return -1.
FinalizeFails(p) ==
    /\ pc[p] \in {"finalize", "rmid"}
    /\ Return(p)
    /\ UNCHANGED <<shared, cnt, system, undone, sysVid, ptr, history>>

\* The loop has ended and the segment of shmman is detached.
FinalizeEnd(p) ==
    /\ pc[p] = "finalize"
    /\ ~Entries(p)
    /\ drift' = drift \cup Held(p)
    /\ undone' = [undone EXCEPT ![p] = {}]
    /\ NoTables(p)
    /\ Forget(p)
    /\ Goto(p, "rmself")
    /\ UNCHANGED <<shared, cnt, system, failed>>

\* It loses its name: return 0.  Others keep what they have.
FinalizeSelf(p) ==
    /\ pc[p] = "rmself"
    /\ life' = "removed"
    /\ Goto(p, "gone")
    /\ UNCHANGED <<shared, cnt, kernel, local, history>>

\* shmctl fails: return -1.
FinalizeSelfFails(p) ==
    /\ pc[p] = "rmself"
    /\ Goto(p, "out")
    /\ UNCHANGED <<shared, cnt, system, local, history>>

-----------------------------------------------------------------------------
(***************************************************************************)
(* What is beyond the calls                                                *)
(***************************************************************************)
Die(p) ==
    /\ pc[p] \notin {"out", "gone", "dead"}
    /\ Dies(p)
    /\ UNCHANGED <<shared, cnt, system>>

\* A create or a finalize of another life, which counts its keys from 1 as well.
OtherLife(k) ==
    /\ life # "alone"
    /\ kernel' = [kernel EXCEPT ![k] = IF @ = "none" THEN "theirs" ELSE "none"]
    /\ UNCHANGED <<shared, cnt, life, pc, local, history>>

-----------------------------------------------------------------------------
Call(p) ==
    \/ Initialize(p)
    \/ GetCall(p)
    \/ Release(p)
    \/ Disconnect(p)
    \/ DisconnectFails(p)
    \/ Finalize(p)

Step(p) ==
    \/ InitializeLock(p)
    \/ InitializeTables(p)
    \/ CreateLock(p)
    \/ CreateExists(p)
    \/ CreateFits(p)
    \/ CreateRefused(p)
    \/ CreateSysV(p)
    \/ CreateNew(p)
    \/ CreateFails(p)
    \/ CreateEntry(p)
    \/ GetAgain(p)
    \/ Attach(p)
    \/ AttachFails(p)
    \/ CountUp(p)
    \/ CountDown(p)
    \/ FinalizeFind(p)
    \/ FinalizeRemove(p)
    \/ FinalizeFails(p)
    \/ FinalizeEnd(p)
    \/ FinalizeSelf(p)
    \/ FinalizeSelfFails(p)

Next ==
    \/ \E p \in Proc : Call(p) \/ Step(p) \/ Die(p)
    \/ \E k \in SvIndex : OtherLife(k)

Spec == Init /\ [][Next]_vars

\* A process in a call is scheduled.
FairSpec == Spec /\ \A p \in Proc : WF_vars(Step(p))

-----------------------------------------------------------------------------
(***************************************************************************)
(* Properties.                                                             *)
(***************************************************************************)
Label == {"out", "initlock", "init", "idle", "lock", "create", "made", "entry",
          "dead", "attach", "up", "down", "finalize", "rmid", "rmself", "gone"}

\* Every variable has its type; the unused part of a System V segment, an unsigned
\* difference in the code, does not wrap.
TypeOK ==
    /\ lock \in {0, 1} /\ initflag \in {0, 1}
    /\ key_cnt \in 0 .. MAX_SVSHMSEG + 1
    /\ Len(sysVtable) <= MAX_SVSHMSEG
    /\ \A v \in DOMAIN sysVtable :
          /\ sysVtable[v] \in [sysVkey : Key, size : Nat, offset : Nat]
          /\ sysVtable[v].offset <= sysVtable[v].size
    /\ \A s \in Shmid : \/ shmtable[s] = NoEntry
                        \/ shmtable[s] \in [sysVtable_idx : DOMAIN sysVtable,
                                            offset : Nat, size : Nat]
    /\ cnt \in [Shmid -> Int]
    /\ kernel \in [Key -> {"none", "ours", "theirs"}]
    /\ life \in {"alone", "crowded", "removed"}
    /\ pc \in [Proc -> Label]
    /\ undone \in [Proc -> SUBSET {"nolock", "freed", "halfway"}]
    /\ sysVid \in [Proc -> [SvIndex -> Key \cup {Foreign, -1}]]
    /\ \A p \in Proc, s \in Shmid : ptr[p][s] \in {NULL} \cup ((Key \cup {Foreign}) \X Nat)
    /\ failed \in BOOLEAN /\ drift \subseteq Shmid

Created == {s \in Shmid : shmtable[s] # NoEntry}

\* However the processes' creates interleave, the segments of different objects
\* do not overlap, begin at multiples of 8 and lie within a System V segment
\* that has the size the table says.
Inside(s) ==
    LET e == shmtable[s] IN
    LET seg == sysVtable[e.sysVtable_idx] IN
       e.offset % 8 = 0 /\ e.offset + e.size <= seg.size
Apart(s, t) ==
    LET d == shmtable[s] IN
    LET e == shmtable[t] IN
       d.sysVtable_idx = e.sysVtable_idx
          => d.offset + d.size <= e.offset \/ e.offset + e.size <= d.offset
SegmentsDisjoint ==
    /\ \A s \in Created : Inside(s)
    /\ \A s, t \in Created : s # t => Apart(s, t)

\* The processes whose local tables are in use.
Connecteds ==
    {p \in Proc : pc[p] \in {"idle", "lock", "create", "made", "entry", "attach",
                             "up", "down", "finalize", "rmid"}}

\* Whoever has got an object has a pointer to its place in the table, which never
\* changes under a user, in a segment that it has attached (unless its disconnect
\* failed half way) and that is the same for all users, whatever is finalized
\* under them.  Only another life can put one of its own segments in between.
SameMemory ==
    \A p \in Connecteds : \A s \in Held(p) :
        /\ s \in Created
        /\ LET e == shmtable[s] IN
           LET segment == ptr[p][s][1] IN
              /\ ptr[p][s] = <<segment, e.offset>>
              /\ \/ segment = sysVtable[e.sysVtable_idx].sysVkey
                 \/ segment = Foreign /\ life # "alone"
              /\ "halfway" \notin undone[p] => sysVid[p][e.sysVtable_idx] = segment

\* shmman.c:40 "the current number of users of the segment": the count is right
\* as long as no two updates of it, which take no lock, overlapped and nobody
\* left without a release.
CountIsUsers ==
    \A s \in Created \ drift :
        cnt[s] = Cardinality({p \in Connecteds :
                                 \/ s \in Held(p)
                                 \/ pc[p] = "down" /\ arg[p] = s})

\* A lock that is taken is given back, however the calls end, unless shmget or
\* shmat failed in a create or a process died with the lock.
LockComesBack ==
    lock = 1 ~> (lock = 0 \/ failed)

\* When the loop of a finalize ends, whatever calls of others it overlapped and
\* however theirs ended, no key names a segment of this life: unless a create is
\* between shmget and its entry at that moment, whose segment is then left, or
\* one has failed or died there before.
FinalizeLeavesNothing ==
    [][(\E p \in Proc : FinalizeEnd(p))
          => \A k \in Key :
                kernel[k] = "ours"
                   => failed \/ \E q \in Proc : pc[q] = "made" /\ k = NewKey]_vars

\* shmman.c:300 "set lock and init flag at the beginning of shared memory
\* segment": they are written through a pointer to that segment.
NoStrayWrite == \A p \in Proc : pc[p] = "entry" => sysVid[p][idx[p]] # -1
=============================================================================
