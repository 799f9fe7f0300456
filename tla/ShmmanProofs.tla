---------------------------- MODULE ShmmanProofs ----------------------------
(***************************************************************************)
(* Proofs about Shmman for every set of processes, of objects and of       *)
(* System V segments, and for a life that begins among users and leavings  *)
(* of earlier ones as well: type correctness, the segments of different    *)
(* objects do not overlap, whoever has got an object has the same memory,  *)
(* its count is the number of its users, and what finalize leaves.         *)
(*                                                                         *)
(* The argument.  The tables change only with the lock taken, and whoever  *)
(* takes it is alone until it gives it back (LockInv).  A create that      *)
(* fails, or a process that dies, keeps the lock without an owner (Stuck), *)
(* and nothing changes the tables from there on.  The keys of ftok,        *)
(* counted up with the table, are therefore the indices of the table, and  *)
(* no user of an object loses the entry it has read (TableInv, MemoryInv). *)
(* A key that is new is one no finalize has passed yet (FinalizeInv).      *)
(***************************************************************************)
EXTENDS Shmman, FiniteSetTheorems, SequenceTheorems, WellFoundedInduction, TLAPS

SvEntry == [sysVkey : Key, size : Nat, offset : Nat]
Entry   == [sysVtable_idx : Nat, offset : Nat, size : Nat]
Segment == Key \cup {Foreign}
Undone  == {"nolock", "freed", "halfway"}

\* The types of all variables, those no bound hangs on.
Types ==
    /\ lock \in {0, 1} /\ initflag \in {0, 1}
    /\ key_cnt \in Nat
    /\ sysVtable \in Seq(SvEntry)
    /\ shmtable \in [Shmid -> Entry]
    /\ cnt \in [Shmid -> Int]
    /\ kernel \in [Key -> {"none", "ours", "theirs"}]
    /\ life \in {"alone", "crowded", "removed"}
    /\ pc \in [Proc -> Label]
    /\ undone \in [Proc -> SUBSET Undone]
    /\ arg \in [Proc -> Shmid] /\ idx \in [Proc -> Nat] /\ rd \in [Proc -> Int]
    /\ sysVid \in [Proc -> [SvIndex -> Segment \cup {-1}]]
    /\ ptr \in [Proc -> [Shmid -> Segment \X Nat]]
    /\ failed \in BOOLEAN /\ drift \subseteq Shmid

\* A process with one of these labels has taken the lock.
Locked == {"init", "create", "made", "entry"}

LockInv ==
    /\ \A p, q \in Proc : pc[p] \in Locked /\ pc[q] \in Locked => p = q
    /\ \A p \in Proc : pc[p] \in Locked => lock = 1

\* The lock is taken and nobody will give it back.
Stuck == lock = 1 /\ \A p \in Proc : pc[p] \notin Locked

\* Before the first initialize there is nothing.
ResetInv ==
    initflag = 0 =>
        /\ key_cnt = 0 /\ sysVtable = <<>> /\ Created = {}
        /\ \A k \in Key : kernel[k] # "ours"
        /\ \A p \in Proc : pc[p] \in {"out", "initlock", "init", "dead"}

\* The key of a System V segment is its index in the table, which is never 0
\* and not repeated; the next one is the key counted next, or the one before,
\* where a process has counted it and not entered.
KeyInv ==
    /\ Len(sysVtable) <= MAX_SVSHMSEG
    /\ initflag = 1 =>
          \/ key_cnt = Len(sysVtable) + 1 /\ \A p \in Proc : pc[p] # "made"
          \/ /\ key_cnt = Len(sysVtable) + 2 /\ Len(sysVtable) < MAX_SVSHMSEG
             /\ Stuck \/ \E p \in Proc : pc[p] = "made"
    /\ \A v \in DOMAIN sysVtable : sysVtable[v].sysVkey = v

\* Every entry lies in the used part of its System V segment, the one a creator
\* died of excepted.
Placed(s) ==
    LET e == shmtable[s] IN
        /\ e.sysVtable_idx \in DOMAIN sysVtable
        /\ Stuck \/ e.offset + e.size <= sysVtable[e.sysVtable_idx].offset

PlaceInv ==
    /\ \A s \in Created : Placed(s) /\ Inside(s)
    /\ \A s, t \in Created : s # t => Apart(s, t)

OffsetInv ==
    \A v \in DOMAIN sysVtable :
        sysVtable[v].offset <= sysVtable[v].size /\ sysVtable[v].offset % 8 = 0

\* What a call has found in the tables is still so.
CallInv ==
    /\ \A p \in Proc : pc[p] = "made" => arg[p] \notin Created
    /\ \A p \in Proc : pc[p] = "entry" =>
          /\ arg[p] \notin Created /\ idx[p] \in DOMAIN sysVtable
          /\ sysVtable[idx[p]].size - sysVtable[idx[p]].offset >= shm_size(p)
    /\ \A p \in Proc : pc[p] \in {"attach", "up", "down"} => arg[p] \in Created

TableInv == OffsetInv /\ PlaceInv /\ CallInv

\* A segment attached for the index v of the table.
Rightly(v, segment) == segment = v \/ (segment = Foreign /\ life # "alone")

\* What a process has attached is what the table names, or another life's, and
\* what it has got is where the table says.
UserInv(p) ==
    /\ \A v \in SvIndex : sysVid[p][v] # -1 => Rightly(v, sysVid[p][v])
    /\ \A s \in Held(p) :
          /\ s \in Created
          /\ Rightly(shmtable[s].sysVtable_idx, ptr[p][s][1])
          /\ ptr[p][s] = <<ptr[p][s][1], shmtable[s].offset>>
          /\ "halfway" \notin undone[p] =>
                sysVid[p][shmtable[s].sysVtable_idx] = ptr[p][s][1]
    /\ pc[p] = "up" => sysVid[p][shmtable[arg[p]].sysVtable_idx] # -1
    /\ pc[p] \in {"up", "down"} => arg[p] \notin Held(p)
    /\ p \notin Connecteds => Held(p) = {}

MemoryInv == \A p \in Proc : UserInv(p)

\* A key names a segment of this life only if it has been counted; unless a
\* create failed, it is in the table or about to be.
KernelInv ==
    /\ life = "alone" => \A k \in Key : kernel[k] # "theirs"
    /\ \A k \in Key : kernel[k] = "ours" =>
          /\ k > 0 /\ k < key_cnt
          /\ \/ failed
             \/ k \in DOMAIN sysVtable
             \/ \E p \in Proc : pc[p] = "made" /\ k = NewKey

\* What a finalize has passed is removed.
FinalizeInv ==
    \A p \in Proc : pc[p] \in {"finalize", "rmid"} =>
        /\ idx[p] > 0 /\ idx[p] <= Len(sysVtable) + 1
        /\ pc[p] = "rmid" => idx[p] <= Len(sysVtable)
        /\ \A k \in Key : k < idx[p] => kernel[k] # "ours"

Inv ==
    /\ Types
    /\ LockInv
    /\ ResetInv
    /\ KeyInv
    /\ TableInv
    /\ MemoryInv
    /\ KernelInv
    /\ FinalizeInv

\* A step of a process.
Acts(p) == Call(p) \/ Step(p) \/ Die(p)

-----------------------------------------------------------------------------
(***************************************************************************)
(* Arithmetic                                                              *)
(***************************************************************************)

\* A set of natural numbers has a least element.
LEMMA Least ==
    ASSUME NEW T \in SUBSET Nat, T # {}
    PROVE  \E m \in T : \A n \in T : m <= n
<1> DEFINE R == OpToRel(<, Nat)
<1>1. IsWellFoundedOn(R, Nat)
  BY NatLessThanWellFounded
<1>2. \A m, n \in Nat : m < n => <<m, n>> \in R
  BY DEF OpToRel
<1> HIDE DEF R
<1>3. PICK m \in T : \A n \in T : <<n, m>> \notin R
  BY <1>1, WFMin
<1>4. \A n \in T : ~(n < m)
  BY <1>2, <1>3
<1>. QED
  BY <1>4

\* The first of some indices is one of them.
LEMMA FirstIs ==
    ASSUME NEW T \in SUBSET Nat, T # {}
    PROVE  First(T) \in T
<1>1. \E m \in T : \A n \in T : m <= n
  BY Least
<1>. QED
  BY <1>1 DEF First

\* A size is rounded up to a multiple of 8 above it.
LEMMA AlignedIs ==
    ASSUME NEW size \in Nat
    PROVE  Aligned(size) \in Nat /\ Aligned(size) > 0 /\ Aligned(size) % 8 = 0
<1>1. size % 8 \in 0 .. 7 /\ (size + (8 - (size % 8))) % 8 = 0
  OBVIOUS
<1>. QED
  BY <1>1 DEF Aligned

LEMMA Multiples ==
    ASSUME NEW a \in Nat, NEW b \in Nat, a % 8 = 0, b % 8 = 0
    PROVE  (a + b) % 8 = 0
OBVIOUS

\* The new System V segment is large enough for the object it is made for.
LEMMA NewSizeIs ==
    ASSUME NEW p \in Proc, arg \in [Proc -> Shmid]
    PROVE  /\ shm_size(p) \in Nat /\ shm_size(p) > 0 /\ shm_size(p) % 8 = 0
           /\ NewSize(p) \in Nat /\ NewSize(p) > 0 /\ shm_size(p) <= NewSize(p)
<1> DEFINE x == shm_size(p)
           pages == Pages(x)
           d == x \div PageSize
<1>1. x \in Nat /\ x > 0 /\ x % 8 = 0
  BY AlignedIs, SizeAssumption DEF shm_size, Shmid
<1> HIDE DEF x
<1>2. d \in Nat /\ x < PageSize * d + PageSize
  BY <1>1, PageSizeAssumption
<1>3. pages \in Nat /\ pages >= d + 1
  BY <1>2, MinPagesAssumption DEF Pages, Larger
<1> HIDE DEF d, pages
<1>4. PICK e \in Nat : pages = d + 1 + e
  <2>1. pages - (d + 1) \in Nat /\ pages = d + 1 + (pages - (d + 1))
    BY <1>2, <1>3
  <2>. QED
    BY <2>1
<1>5. pages * PageSize = PageSize * d + PageSize + PageSize * e /\ PageSize * e \in Nat
  BY <1>2, <1>4, PageSizeAssumption
<1>. QED
  BY <1>1, <1>2, <1>5, PageSizeAssumption DEF NewSize, x, pages

-----------------------------------------------------------------------------
(***************************************************************************)
(* Types                                                                   *)
(***************************************************************************)

\* What Types says where it is used most.
LEMMA TableIs ==
    ASSUME Types
    PROVE  /\ sysVtable \in Seq(SvEntry) /\ Len(sysVtable) \in Nat
           /\ DOMAIN sysVtable = 1 .. Len(sysVtable)
           /\ \A v \in DOMAIN sysVtable : v \in Nat /\ v > 0 /\ sysVtable[v] \in SvEntry
BY DEF Types

\* The segments with room are indices of the table.
LEMMA RoomIs ==
    ASSUME Types, NEW p \in Proc, Room(p) # {}
    PROVE  First(Room(p)) \in Room(p) /\ First(Room(p)) \in DOMAIN sysVtable
<1>1. Room(p) \subseteq DOMAIN sysVtable /\ Room(p) \in SUBSET Nat
  BY TableIs DEF Room
<1>. QED
  BY <1>1, FirstIs

\* A number not above the counted keys is its own remainder.
LEMMA KeyIs ==
    ASSUME NEW k \in 0 .. MAX_SVSHMSEG
    PROVE  k % FtokIds = k /\ k \in Key
<1>1. k \in Nat /\ k < FtokIds /\ FtokIds \in Nat \ {0}
  BY FtokIdsAssumption, MaxSvAssumption
<1>2. k % FtokIds = k
  BY <1>1
<1>. QED
  BY <1>1, <1>2 DEF Key

\* A key is in range in any case.
LEMMA KeyRange ==
    ASSUME key_cnt \in Nat
    PROVE  createSysVKey \in Key /\ NewKey \in Key
BY FtokIdsAssumption, MaxSvAssumption DEF createSysVKey, NewKey, Key

\* What a process attaches is a segment.
LEMMA SegmentIs ==
    ASSUME NEW key \in Key
    PROVE  SegmentOf(key) \in Segment /\ SegmentOf(key) # -1
BY FtokIdsAssumption, MaxSvAssumption DEF SegmentOf, Segment, Foreign, Key

LEMMA KernelGrows ==
    ASSUME Types, ShmgetCreates \/ UNCHANGED kernel
    PROVE  /\ kernel' \in [Key -> {"none", "ours", "theirs"}]
           /\ \A k \in Key : kernel'[k] # kernel[k] =>
                 k = createSysVKey /\ kernel'[k] = "ours"
<1>1. createSysVKey \in Key
  BY KeyRange DEF Types
<1>. QED
  BY <1>1 DEF ShmgetCreates, Types

LEMMA EntryGrows ==
    ASSUME NEW e \in SvEntry, NEW n \in Nat
    PROVE  [e EXCEPT !.offset = @ + n] \in SvEntry
BY DEF SvEntry

\* Offset n further in the System V segment v, all else as it was.
LEMMA OffsetMoves ==
    ASSUME Types, NEW v \in DOMAIN sysVtable, NEW n \in Nat,
           sysVtable' = [sysVtable EXCEPT ![v].offset = @ + n]
    PROVE  /\ sysVtable' \in Seq(SvEntry) /\ Len(sysVtable') = Len(sysVtable)
           /\ DOMAIN sysVtable' = DOMAIN sysVtable
           /\ \A u \in DOMAIN sysVtable :
                 /\ sysVtable'[u].sysVkey = sysVtable[u].sysVkey
                 /\ sysVtable'[u].size = sysVtable[u].size
                 /\ sysVtable'[u].offset =
                       IF u = v THEN sysVtable[u].offset + n ELSE sysVtable[u].offset
<1> DEFINE e == [sysVtable[v] EXCEPT !.offset = @ + n]
<1>1. /\ sysVtable \in Seq(SvEntry) /\ v \in 1 .. Len(sysVtable)
      /\ DOMAIN sysVtable = 1 .. Len(sysVtable) /\ sysVtable[v] \in SvEntry
  BY TableIs
<1>2. /\ e \in SvEntry /\ e.sysVkey = sysVtable[v].sysVkey
      /\ e.size = sysVtable[v].size /\ e.offset = sysVtable[v].offset + n
  BY <1>1, EntryGrows DEF SvEntry
<1>3. sysVtable' = [sysVtable EXCEPT ![v] = e]
  OBVIOUS
<1> HIDE DEF e
<1>4. /\ sysVtable' \in Seq(SvEntry) /\ Len(sysVtable') = Len(sysVtable)
      /\ \A u \in 1 .. Len(sysVtable) : sysVtable'[u] = IF u = v THEN e ELSE sysVtable[u]
  BY <1>1, <1>2, <1>3, ExceptSeq
<1>. QED
  BY <1>1, <1>2, <1>4

\* New local tables and dropped locals have their types.
LEMMA FreshIs ==
    ASSUME Types, NEW p \in Proc
    PROVE  /\ NoTables(p) => /\ sysVid' \in [Proc -> [SvIndex -> Segment \cup {-1}]]
                             /\ ptr' \in [Proc -> [Shmid -> Segment \X Nat]]
           /\ Forget(p) => /\ arg' \in [Proc -> Shmid] /\ idx' \in [Proc -> Nat]
                           /\ rd' \in [Proc -> Int]
<1>1. 0 \in Shmid /\ NULL \in Segment \X Nat
  BY MaxShmAssumption, FtokIdsAssumption, MaxSvAssumption DEF Shmid, Key, NULL, Segment
<1>2. ASSUME NoTables(p)
      PROVE  /\ sysVid' \in [Proc -> [SvIndex -> Segment \cup {-1}]]
             /\ ptr' \in [Proc -> [Shmid -> Segment \X Nat]]
  BY <1>1, <1>2 DEF NoTables, Types
<1>3. ASSUME Forget(p)
      PROVE  /\ arg' \in [Proc -> Shmid] /\ idx' \in [Proc -> Nat]
             /\ rd' \in [Proc -> Int]
  BY <1>1, <1>3 DEF Forget, Types
<1>. QED
  BY <1>2, <1>3

\* What becomes of a process that dies.
LEMMA DiesIs ==
    ASSUME Types, NEW p \in Proc, Dies(p)
    PROVE  /\ pc' \in [Proc -> Label] /\ failed' \in BOOLEAN /\ drift' \subseteq Shmid
           /\ undone' \in [Proc -> SUBSET Undone]
           /\ sysVid' \in [Proc -> [SvIndex -> Segment \cup {-1}]]
           /\ ptr' \in [Proc -> [Shmid -> Segment \X Nat]]
           /\ arg' \in [Proc -> Shmid] /\ idx' \in [Proc -> Nat] /\ rd' \in [Proc -> Int]
<1>1. pc' \in [Proc -> Label] /\ undone' \in [Proc -> SUBSET Undone]
  BY DEF Dies, Goto, Types, Label
<1>2. drift' \subseteq Shmid
  BY DEF Dies, Types, Held
<1>3. failed' \in BOOLEAN
  BY DEF Dies, Types
<1>. QED
  BY <1>1, <1>2, <1>3, FreshIs DEF Dies

LEMMA TypesStep ==
    ASSUME Inv, NEW p \in Proc, Acts(p)
    PROVE  Types'
<1>0. Types /\ NoEntry \in Entry
  BY DEF Inv, NoEntry, Entry
<1> USE <1>0 DEF Types, shared, system, local, history, Goto, Return, Label
<1>1. CASE Initialize(p)
  <2>1. drift' \subseteq Shmid /\ undone' \in [Proc -> SUBSET Undone] /\ pc' \in [Proc -> Label]
    BY <1>1 DEF Initialize, Held
  <2>. QED
    BY <1>1, <2>1, FreshIs DEF Initialize
<1>2. CASE InitializeLock(p)
  BY <1>2 DEF InitializeLock
<1>3. CASE InitializeTables(p)
  <2>1. <<>> \in Seq(SvEntry)
    BY EmptySeq
  <2>2. /\ sysVtable' \in Seq(SvEntry) /\ shmtable' \in [Shmid -> Entry]
        /\ initflag' \in {0, 1} /\ key_cnt' \in Nat
    <3>1. CASE initflag = 0
      BY <1>3, <2>1, <3>1 DEF InitializeTables
    <3>2. CASE initflag # 0
      BY <1>3, <3>2 DEF InitializeTables
    <3>. QED
      BY <3>1, <3>2
  <2>. QED
    BY <1>3, <2>2, FreshIs DEF InitializeTables
<1>4. CASE GetCall(p)
  BY <1>4, SMTT(30) DEF GetCall
<1>5. CASE CreateLock(p)
  BY <1>5 DEF CreateLock
<1>6. CASE CreateExists(p)
  BY <1>6 DEF CreateExists
<1>7. CASE CreateFits(p)
  <2>1. First(Room(p)) \in Nat
    BY <1>7, RoomIs, TableIs DEF CreateFits
  <2>. QED
    BY <1>7, <2>1 DEF CreateFits
<1>8. CASE CreateRefused(p)
  BY FreshIs, <1>8 DEF CreateRefused
<1>9. CASE CreateSysV(p)
  <2>1. createSysVKey \in Key /\ SegmentOf(createSysVKey) \in Segment
        /\ kernel' \in [Key -> {"none", "ours", "theirs"}]
    BY <1>9, KeyRange, SegmentIs, KernelGrows DEF CreateSysV
  <2>2. Len(sysVtable) + 1 \in SvIndex
    BY <1>9, MaxSvAssumption, SMTT(30) DEF CreateSysV, CreatingNew, SvIndex
  <2>3. sysVid' \in [Proc -> [SvIndex -> Segment \cup {-1}]]
    BY <1>9, <2>1, <2>2 DEF CreateSysV
  <2>. QED
    BY <1>9, <2>1, <2>3 DEF CreateSysV
<1>10. CASE CreateNew(p)
  <2>1. NewKey \in Key /\ NewSize(p) \in Nat
    BY KeyRange, NewSizeIs
  <2>2. sysVtable' \in Seq(SvEntry) /\ Len(sysVtable) + 1 \in Nat
    BY <1>10, <2>1, AppendProperties DEF CreateNew, SvEntry
  <2>. QED
    BY SMTT(30), <1>10, <2>2 DEF CreateNew
<1>11. CASE CreateFails(p)
  <2>1. kernel' \in [Key -> {"none", "ours", "theirs"}]
    BY <1>11, KernelGrows DEF CreateFails
  <2>. QED
    BY <1>11, <2>1, FreshIs DEF CreateFails
<1>12. CASE CreateEntry(p)
  <2>1. /\ shm_size(p) \in Nat /\ idx[p] \in DOMAIN sysVtable
        /\ sysVtable[idx[p]] \in SvEntry
    BY <1>12, NewSizeIs, TableIs DEF CreateEntry, Inv, TableInv, PlaceInv, CallInv
  <2>2. [sysVtable EXCEPT ![idx[p]].offset = @ + shm_size(p)] \in Seq(SvEntry)
    <3>1. [sysVtable[idx[p]] EXCEPT !.offset = @ + shm_size(p)] \in SvEntry
      BY <2>1, EntryGrows
    <3>. QED
      BY SMTT(30), <2>1, <3>1, ExceptSeq
  <2>3. sysVtable' \in Seq(SvEntry)
    BY <1>12, <2>2 DEF CreateEntry
  <2>4. shmtable' \in [Shmid -> Entry]
    BY <1>12, <2>1 DEF CreateEntry, SvEntry, Entry
  <2>5. cnt' \in [Shmid -> Int]
    BY <1>12 DEF CreateEntry
  <2>6. CASE Dies(p) /\ UNCHANGED <<sysVtable, lock>>
    BY <1>12, <2>3, <2>4, <2>5, <2>6, DiesIs DEF CreateEntry
  <2>7. CASE lock' = 0 /\ Goto(p, "attach") /\ UNCHANGED <<local, failed, drift>>
    BY <1>12, <2>3, <2>4, <2>5, <2>7 DEF CreateEntry
  <2>. QED
    BY <1>12, <2>6, <2>7 DEF CreateEntry
<1>13. CASE GetAgain(p)
  BY FreshIs, <1>13 DEF GetAgain
<1>14. CASE Attach(p)
  <2>. PICK v : v = shmtable[arg[p]].sysVtable_idx
    OBVIOUS
  <2>1. v \in DOMAIN sysVtable
    BY <1>14 DEF Attach, Inv, TableInv, PlaceInv, CallInv, Placed
  <2>2. sysVtable[v].sysVkey \in Key
    BY <2>1, TableIs DEF SvEntry
  <2>3. SegmentOf(sysVtable[v].sysVkey) \in Segment
    BY <2>2, SegmentIs
  <2>4. sysVid' \in [Proc -> [SvIndex -> Segment \cup {-1}]]
    <3>1. \/ UNCHANGED sysVid
          \/ sysVid' = [sysVid EXCEPT ![p][v] = SegmentOf(sysVtable[v].sysVkey)]
      BY ZenonT(40), <1>14 DEF Attach
    <3>2. PICK x \in Segment : x = SegmentOf(sysVtable[v].sysVkey)
      BY <2>3
    <3>3. UNCHANGED sysVid \/ sysVid' = [sysVid EXCEPT ![p][v] = x]
      BY <3>1, <3>2
    <3>4. sysVid \in [Proc -> [SvIndex -> Segment \cup {-1}]]
      OBVIOUS
    <3> HIDE <1>0
    <3>. QED
      BY <3>3, <3>4
  <2>5. rd' \in [Proc -> Int] /\ pc' \in [Proc -> Label]
    BY <1>14 DEF Attach
  <2>. QED
    BY ZenonT(40), <1>14, <2>4, <2>5 DEF Attach
<1>15. CASE AttachFails(p)
  BY FreshIs, <1>15 DEF AttachFails
<1>16. CASE CountUp(p)
  <2>. PICK v : v = shmtable[arg[p]].sysVtable_idx
    OBVIOUS
  <2>1. shmtable[arg[p]] \in Entry /\ v \in DOMAIN sysVtable /\ v \in SvIndex
    <3>1. arg[p] \in Created /\ shmtable[arg[p]] \in Entry
      BY <1>16 DEF CountUp, Inv, TableInv, PlaceInv, CallInv
    <3>2. v \in DOMAIN sysVtable
      BY <3>1 DEF Inv, TableInv, PlaceInv, CallInv, Placed
    <3>3. Len(sysVtable) <= MAX_SVSHMSEG
      BY DEF Inv, KeyInv
    <3>. QED
      BY <3>1, <3>2, <3>3, TableIs, MaxSvAssumption, SMTT(30) DEF SvIndex
  <2>2. sysVid[p][v] \in Segment
    BY SMTT(30), <1>16, <2>1 DEF CountUp, Inv, MemoryInv, UserInv
  <2>3. ptr' \in [Proc -> [Shmid -> Segment \X Nat]]
    BY <1>16, <2>1, <2>2 DEF CountUp, Entry
  <2>4. cnt' \in [Shmid -> Int] /\ drift' \subseteq Shmid
    BY SMTT(30), <1>16 DEF CountUp, WriteCnt
  <2>. QED
    BY <1>16, <2>3, <2>4, FreshIs DEF CountUp
<1>17. CASE Release(p)
  <2>1. PICK s \in Shmid : /\ ptr' = [ptr EXCEPT ![p][s] = NULL]
                          /\ arg' = [arg EXCEPT ![p] = s]
                          /\ rd' = [rd EXCEPT ![p] = cnt[s]]
    BY <1>17 DEF Release, Held
  <2>2. NULL \in Segment \X Nat
    BY FtokIdsAssumption, MaxSvAssumption DEF NULL, Key, Segment
  <2>3. ptr' \in [Proc -> [Shmid -> Segment \X Nat]]
    BY <2>1, <2>2
  <2>4. arg' \in [Proc -> Shmid] /\ rd' \in [Proc -> Int] /\ pc' \in [Proc -> Label]
    BY <1>17, <2>1 DEF Release
  <2>. QED
    BY <1>17, <2>3, <2>4 DEF Release
<1>18. CASE CountDown(p)
  <2>1. arg[p] \in Shmid /\ rd[p] - 1 \in Int
    OBVIOUS
  <2>2. cnt' \in [Shmid -> Int] /\ drift' \subseteq Shmid
    BY <1>18, <2>1 DEF CountDown, WriteCnt
  <2>. QED
    BY <1>18, <2>2, FreshIs DEF CountDown
<1>19. CASE Disconnect(p)
  <2>1. drift' \subseteq Shmid /\ undone' \in [Proc -> SUBSET Undone]
    BY <1>19 DEF Disconnect, Held, Undone
  <2>. QED
    BY <1>19, <2>1, FreshIs DEF Disconnect
<1>20. CASE DisconnectFails(p)
  <2>1. PICK v : sysVid' = [sysVid EXCEPT ![p] =
                    [u \in SvIndex |-> IF u < v THEN -1 ELSE sysVid[p][u]]]
    BY <1>20 DEF DisconnectFails
  <2>2. sysVid' \in [Proc -> [SvIndex -> Segment \cup {-1}]]
    BY <2>1
  <2>3. undone' \in [Proc -> SUBSET Undone]
    BY <1>20 DEF DisconnectFails, Undone
  <2>. QED
    BY <1>20, <2>2, <2>3 DEF DisconnectFails
<1>21. CASE Finalize(p)
  <2>1. undone' \in [Proc -> SUBSET Undone]
    BY <1>21 DEF Finalize, Undone
  <2>. QED
    BY <1>21, <2>1 DEF Finalize
<1>22. CASE FinalizeFind(p)
  BY <1>22 DEF FinalizeFind
<1>23. CASE FinalizeRemove(p)
  <2>1. idx' \in [Proc -> Nat]
    BY SMTT(30), <1>23 DEF FinalizeRemove
  <2>2. kernel' \in [Key -> {"none", "ours", "theirs"}]
    BY <1>23 DEF FinalizeRemove
  <2>. QED
    BY <1>23, <2>1, <2>2 DEF FinalizeRemove
<1>24. CASE FinalizeFails(p)
  BY <1>24, FreshIs DEF FinalizeFails
<1>25. CASE FinalizeEnd(p)
  <2>1. drift' \subseteq Shmid /\ undone' \in [Proc -> SUBSET Undone] /\ pc' \in [Proc -> Label]
    BY <1>25 DEF FinalizeEnd, Held
  <2>. QED
    BY <1>25, <2>1, FreshIs DEF FinalizeEnd
<1>26. CASE FinalizeSelf(p)
  BY <1>26 DEF FinalizeSelf
<1>27. CASE FinalizeSelfFails(p)
  BY <1>27 DEF FinalizeSelfFails
<1>28. CASE Die(p)
  BY <1>28, DiesIs DEF Die
<1>. QED
  BY <1>1, <1>2, <1>3, <1>4, <1>5, <1>6, <1>7, <1>8, <1>9, <1>10, <1>11, <1>12,
     <1>13, <1>14, <1>15, <1>16, <1>17, <1>18, <1>19, <1>20, <1>21, <1>22, <1>23,
     <1>24, <1>25, <1>26, <1>27, <1>28 DEF Acts, Call, Step

-----------------------------------------------------------------------------
(***************************************************************************)
(* Who has the lock                                                        *)
(***************************************************************************)

\* A process changes nobody's locals but its own.
LEMMA OthersStay ==
    ASSUME Types, NEW p \in Proc, Acts(p)
    PROVE  \A q \in Proc : q # p =>
              /\ pc'[q] = pc[q] /\ arg'[q] = arg[q] /\ idx'[q] = idx[q]
              /\ rd'[q] = rd[q] /\ sysVid'[q] = sysVid[q] /\ ptr'[q] = ptr[q]
              /\ undone'[q] = undone[q]
<1> USE DEF Types, shared, system, local, history, Goto, Forget, Return, NoTables
<1>1. CASE Initialize(p) \/ GetCall(p) \/ Release(p)
  BY <1>1 DEF Initialize, GetCall, Release
<1>2. CASE Disconnect(p) \/ DisconnectFails(p) \/ Finalize(p)
  BY <1>2 DEF Disconnect, DisconnectFails, Finalize
<1>3. CASE InitializeLock(p) \/ InitializeTables(p) \/ CreateLock(p) \/ CreateExists(p)
  BY <1>3 DEF InitializeLock, InitializeTables, CreateLock, CreateExists
<1>4. CASE CreateFits(p) \/ CreateRefused(p) \/ CreateSysV(p) \/ CreateNew(p) \/ CreateFails(p)
  BY <1>4 DEF CreateFits, CreateRefused, CreateSysV, CreateNew, CreateFails
<1>5. CASE CreateEntry(p) \/ Die(p)
  BY <1>5 DEF CreateEntry, Die, Dies
<1>6. CASE GetAgain(p) \/ Attach(p) \/ AttachFails(p) \/ CountUp(p) \/ CountDown(p)
  BY ZenonT(40), <1>6 DEF GetAgain, Attach, AttachFails, CountUp, CountDown, WriteCnt
<1>7. CASE FinalizeFind(p) \/ FinalizeRemove(p) \/ FinalizeFails(p)
  BY <1>7 DEF FinalizeFind, FinalizeRemove, FinalizeFails
<1>8. CASE FinalizeEnd(p) \/ FinalizeSelf(p) \/ FinalizeSelfFails(p)
  BY <1>8 DEF FinalizeEnd, FinalizeSelf, FinalizeSelfFails
<1>. QED
  BY <1>1, <1>2, <1>3, <1>4, <1>5, <1>6, <1>7, <1>8 DEF Acts, Call, Step

\* What becomes of the lock: it is taken when it is free, or given back by the
\* process that has it.
LEMMA LockMoves ==
    ASSUME Inv, NEW p \in Proc, Acts(p)
    PROVE  \/ lock = 0 /\ lock' = 1
           \/ lock' = 0 /\ pc'[p] \notin Locked /\ pc[p] \in Locked
           \/ lock' = lock /\ (pc'[p] \in Locked => pc[p] \in Locked)
<1> USE DEF Inv, Types, shared, Goto, Return, Locked
<1>1. CASE Call(p)
  BY <1>1 DEF Call, Initialize, GetCall, Release, Disconnect, DisconnectFails, Finalize
<1>2. CASE InitializeLock(p) \/ InitializeTables(p) \/ CreateLock(p) \/ CreateExists(p)
  BY <1>2 DEF InitializeLock, InitializeTables, CreateLock, CreateExists
<1>3. CASE CreateFits(p) \/ CreateRefused(p) \/ CreateSysV(p) \/ CreateNew(p) \/ CreateFails(p)
  BY <1>3 DEF CreateFits, CreateRefused, CreateSysV, CreateNew, CreateFails, Creating,
              CreatingNew
<1>4. CASE CreateEntry(p) \/ Die(p)
  BY <1>4 DEF CreateEntry, Die, Dies
<1>5. CASE GetAgain(p) \/ Attach(p) \/ AttachFails(p) \/ CountUp(p) \/ CountDown(p)
  BY <1>5 DEF GetAgain, Attach, AttachFails, CountUp, CountDown
<1>6. CASE FinalizeFind(p) \/ FinalizeRemove(p) \/ FinalizeFails(p)
  BY <1>6 DEF FinalizeFind, FinalizeRemove, FinalizeFails
<1>7. CASE FinalizeEnd(p) \/ FinalizeSelf(p) \/ FinalizeSelfFails(p)
  BY <1>7 DEF FinalizeEnd, FinalizeSelf, FinalizeSelfFails
<1>. QED
  BY <1>1, <1>2, <1>3, <1>4, <1>5, <1>6, <1>7 DEF Acts, Step

LEMMA LockInvStep ==
    ASSUME Inv, NEW p \in Proc, Acts(p)
    PROVE  LockInv' /\ (Stuck => Stuck')
<1>1. LockInv /\ Types
  BY DEF Inv
<1>2. \A q \in Proc : q # p => pc'[q] = pc[q]
  BY <1>1, OthersStay
<1>3. CASE lock = 0 /\ lock' = 1
  BY <1>1, <1>2, <1>3 DEF LockInv, Stuck
<1>4. CASE lock' = 0 /\ pc'[p] \notin Locked /\ pc[p] \in Locked
  BY <1>1, <1>2, <1>4 DEF LockInv, Stuck
<1>5. CASE lock' = lock /\ (pc'[p] \in Locked => pc[p] \in Locked)
  BY <1>1, <1>2, <1>5 DEF LockInv, Stuck
<1>. QED
  BY <1>3, <1>4, <1>5, LockMoves

\* Whoever fails or dies with the lock taken leaves it stuck.
LEMMA Sticks ==
    ASSUME Inv, NEW p \in Proc, Acts(p), pc[p] \in Locked, pc'[p] \notin Locked,
           lock' = lock
    PROVE  Stuck'
BY OthersStay DEF Inv, LockInv, Stuck

-----------------------------------------------------------------------------
(***************************************************************************)
(* The tables                                                              *)
(***************************************************************************)

\* The steps that leave the tables alone.
Quiet == UNCHANGED <<initflag, key_cnt, sysVtable, shmtable>>

LEMMA WhoChangesTables ==
    ASSUME Inv, NEW p \in Proc, Acts(p)
    PROVE  \/ Quiet
           \/ InitializeTables(p) /\ initflag = 0
           \/ CreateSysV(p)
           \/ CreateNew(p)
           \/ CreateFails(p)
           \/ CreateEntry(p)
<1> USE DEF Quiet, shared
<1>1. CASE Call(p)
  BY <1>1 DEF Call, Initialize, GetCall, Release, Disconnect, DisconnectFails, Finalize
<1>2. CASE InitializeLock(p) \/ CreateLock(p) \/ CreateExists(p)
  BY <1>2 DEF InitializeLock, CreateLock, CreateExists
<1>3. CASE InitializeTables(p)
  BY <1>3 DEF InitializeTables
<1>4. CASE CreateFits(p) \/ CreateRefused(p)
  BY <1>4 DEF CreateFits, CreateRefused
<1>5. CASE GetAgain(p) \/ Attach(p) \/ AttachFails(p) \/ CountUp(p) \/ CountDown(p)
  BY <1>5 DEF GetAgain, Attach, AttachFails, CountUp, CountDown
<1>6. CASE FinalizeFind(p) \/ FinalizeRemove(p) \/ FinalizeFails(p)
  BY <1>6 DEF FinalizeFind, FinalizeRemove, FinalizeFails
<1>7. CASE FinalizeEnd(p) \/ FinalizeSelf(p) \/ FinalizeSelfFails(p) \/ Die(p)
  BY <1>7 DEF FinalizeEnd, FinalizeSelf, FinalizeSelfFails, Die
<1>. QED
  BY <1>1, <1>2, <1>3, <1>4, <1>5, <1>6, <1>7 DEF Acts, Step

\* A process that creates has found the tables in use, the lock its own, and the
\* key counted next, or just counted, not used.
LEMMA CreatorIs ==
    ASSUME Inv, NEW p \in Proc, pc[p] \in {"create", "made", "entry"}
    PROVE  /\ initflag = 1 /\ lock = 1 /\ ~Stuck
           /\ \A q \in Proc : q # p => pc[q] \notin Locked
           /\ pc[p] # "made" => key_cnt = Len(sysVtable) + 1
           /\ pc[p] # "made" /\ Len(sysVtable) < MAX_SVSHMSEG =>
                 createSysVKey = Len(sysVtable) + 1
           /\ pc[p] = "made" => /\ key_cnt = Len(sysVtable) + 2
                                /\ Len(sysVtable) < MAX_SVSHMSEG
                                /\ NewKey = Len(sysVtable) + 1
<1>1. ~Stuck /\ lock = 1 /\ \A q \in Proc : q # p => pc[q] \notin Locked
  BY DEF Stuck, Inv, LockInv, Locked
<1>2. initflag = 1
  BY DEF Inv, ResetInv, Types
<1>3. pc[p] # "made" => key_cnt = Len(sysVtable) + 1
  BY <1>1, <1>2 DEF Inv, KeyInv, Locked
<1>4. pc[p] = "made" => key_cnt = Len(sysVtable) + 2 /\ Len(sysVtable) < MAX_SVSHMSEG
  BY <1>1, <1>2 DEF Inv, KeyInv
<1>5. ASSUME Len(sysVtable) < MAX_SVSHMSEG
      PROVE  (Len(sysVtable) + 1) % FtokIds = Len(sysVtable) + 1
  <2>1. Len(sysVtable) + 1 \in 0 .. MAX_SVSHMSEG
    BY <1>5, TableIs, MaxSvAssumption DEF Inv
  <2>. QED
    BY <2>1, KeyIs
<1>6. pc[p] = "made" => key_cnt - 1 = Len(sysVtable) + 1
  BY <1>4, TableIs DEF Inv
<1>. QED
  BY <1>1, <1>2, <1>3, <1>4, <1>5, <1>6 DEF createSysVKey, NewKey

\* Before the first initialize there is only that, and a death.
LEMMA ResetMoves ==
    ASSUME Inv, NEW p \in Proc, Acts(p), initflag = 0
    PROVE  Initialize(p) \/ InitializeLock(p) \/ InitializeTables(p) \/ Die(p)
<1>1. pc[p] \in {"out", "initlock", "init", "dead"} /\ pc \in [Proc -> Label]
      /\ Held(p) = {}
  BY DEF Inv, ResetInv, Types, MemoryInv, UserInv, Connecteds
<1>2. ASSUME Call(p) PROVE Initialize(p)
  BY <1>1, <1>2 DEF Call, GetCall, Release, Disconnect, DisconnectFails, Finalize
<1>3. ASSUME Step(p) PROVE InitializeLock(p) \/ InitializeTables(p)
  BY <1>1, <1>3
     DEF Step, CreateLock, CreateExists, CreateFits, CreateRefused, CreateSysV,
         CreateNew, CreateFails, CreateEntry, GetAgain, Attach, AttachFails,
         CountUp, CountDown, FinalizeFind, FinalizeRemove, FinalizeFails,
         FinalizeEnd, FinalizeSelf, FinalizeSelfFails, Creating, CreatingNew
<1>. QED
  BY <1>2, <1>3 DEF Acts

LEMMA ResetInvStep ==
    ASSUME Inv, NEW p \in Proc, Acts(p)
    PROVE  ResetInv'
<1>1. \A q \in Proc : q # p => pc'[q] = pc[q]
  BY OthersStay DEF Inv
<1>2. CASE InitializeTables(p)
  BY <1>2 DEF InitializeTables, ResetInv, Inv, Types
<1>3. ASSUME ~InitializeTables(p), initflag' = 0 PROVE ResetInv'
  <2>1. initflag = 0
    BY <1>3, WhoChangesTables
       DEF Quiet, CreateSysV, CreateNew, CreateFails, CreateEntry
  <2>2. /\ key_cnt = 0 /\ sysVtable = <<>> /\ Created = {}
        /\ \A k \in Key : kernel[k] # "ours"
        /\ \A q \in Proc : pc[q] \in {"out", "initlock", "init", "dead"}
    BY <2>1 DEF Inv, ResetInv
  <2>3. Initialize(p) \/ InitializeLock(p) \/ Die(p)
    BY <1>3, <2>1, ResetMoves
  <2>4. /\ UNCHANGED <<key_cnt, sysVtable, shmtable, kernel>>
        /\ pc'[p] \in {"initlock", "init", "dead"}
    BY <2>3 DEF Initialize, InitializeLock, Die, Dies, shared, system, Goto, Inv, Types
  <2>. QED
    BY <1>1, <2>2, <2>4 DEF ResetInv, Created
<1>. QED
  BY <1>2, <1>3 DEF ResetInv

\* Who makes a System V segment, and what becomes of it.
LEMMA MadeMoves ==
    ASSUME Inv, NEW p \in Proc, Acts(p)
    PROVE  /\ pc'[p] = "made" => CreateSysV(p)
           /\ pc[p] = "made" => CreateNew(p) \/ Die(p)
<1> USE DEF Inv, Types, shared, system, local, history, Goto, Return
<1>1. CASE Call(p)
  BY <1>1 DEF Call, Initialize, GetCall, Release, Disconnect, DisconnectFails, Finalize
<1>2. CASE InitializeLock(p) \/ InitializeTables(p) \/ CreateLock(p) \/ CreateExists(p)
  BY <1>2 DEF InitializeLock, InitializeTables, CreateLock, CreateExists
<1>3. CASE CreateFits(p) \/ CreateRefused(p) \/ CreateSysV(p) \/ CreateNew(p) \/ CreateFails(p)
  BY <1>3 DEF CreateFits, CreateRefused, CreateSysV, CreateNew, CreateFails, Creating,
              CreatingNew
<1>4. CASE CreateEntry(p) \/ Die(p)
  BY <1>4 DEF CreateEntry, Die, Dies
<1>5. CASE GetAgain(p) \/ Attach(p) \/ AttachFails(p) \/ CountUp(p) \/ CountDown(p)
  BY <1>5 DEF GetAgain, Attach, AttachFails, CountUp, CountDown
<1>6. CASE FinalizeFind(p) \/ FinalizeRemove(p) \/ FinalizeFails(p)
  BY <1>6 DEF FinalizeFind, FinalizeRemove, FinalizeFails
<1>7. CASE FinalizeEnd(p) \/ FinalizeSelf(p) \/ FinalizeSelfFails(p)
  BY <1>7 DEF FinalizeEnd, FinalizeSelf, FinalizeSelfFails
<1>. QED
  BY <1>1, <1>2, <1>3, <1>4, <1>5, <1>6, <1>7 DEF Acts, Step

LEMMA KeyInvStep ==
    ASSUME Inv, NEW p \in Proc, Acts(p)
    PROVE  KeyInv'
<1>0. /\ KeyInv /\ Types /\ (Stuck => Stuck') /\ Len(sysVtable) \in Nat
      /\ \A q \in Proc : q # p => pc'[q] = pc[q]
  BY LockInvStep, OthersStay, TableIs DEF Inv
<1>1. CASE InitializeTables(p) /\ initflag = 0
  <2>1. key_cnt' = 1 /\ sysVtable' = <<>> /\ pc'[p] = "idle"
    BY <1>0, <1>1 DEF InitializeTables, Return, Goto, Types
  <2>2. \A q \in Proc : pc'[q] # "made"
    BY <1>0, <1>1, <2>1 DEF Inv, ResetInv
  <2>. QED
    BY <2>1, <2>2, MaxSvAssumption DEF KeyInv
<1>2. CASE CreateSysV(p)
  <2>1. /\ key_cnt' = Len(sysVtable) + 2 /\ Len(sysVtable) < MAX_SVSHMSEG
        /\ sysVtable' = sysVtable /\ pc'[p] = "made"
    <3>1. /\ key_cnt' = key_cnt + 1 /\ Len(sysVtable) < MAX_SVSHMSEG
          /\ sysVtable' = sysVtable /\ pc[p] = "create" /\ pc'[p] = "made"
      BY <1>0, <1>2 DEF CreateSysV, CreatingNew, Creating, Goto, Types
    <3>2. key_cnt = Len(sysVtable) + 1
      BY <3>1, CreatorIs
    <3>. QED
      BY <1>0, <3>1, <3>2
  <2>. QED
    BY <1>0, <2>1 DEF KeyInv
<1>3. CASE CreateNew(p)
  <2>1. /\ sysVtable' = Append(sysVtable, [sysVkey |-> Len(sysVtable) + 1,
                                           size |-> NewSize(p), offset |-> 0])
        /\ key_cnt' = Len(sysVtable) + 2 /\ Len(sysVtable) < MAX_SVSHMSEG
        /\ pc'[p] = "entry"
    BY <1>0, <1>3, CreatorIs DEF CreateNew, Goto, Types
  <2>2. Len(sysVtable') = Len(sysVtable) + 1 /\ DOMAIN sysVtable' = 1 .. Len(sysVtable) + 1
    BY <1>0, <2>1, TableIs
  <2>3. \A v \in DOMAIN sysVtable' : sysVtable'[v].sysVkey = v
    BY <1>0, <2>1, <2>2, TableIs DEF KeyInv
  <2>4. \A q \in Proc : pc'[q] # "made"
    BY <1>0, <1>3, <2>1, CreatorIs DEF CreateNew, Locked
  <2>. QED
    BY <1>0, <2>1, <2>2, <2>3, <2>4, MaxSvAssumption DEF KeyInv
<1>4. CASE CreateFails(p)
  <2>1. /\ key_cnt' = Len(sysVtable) + 2 /\ Len(sysVtable) < MAX_SVSHMSEG
        /\ sysVtable' = sysVtable /\ lock' = lock /\ pc[p] \in Locked
        /\ pc'[p] \notin Locked
    <3>1. /\ key_cnt' = key_cnt + 1 /\ Len(sysVtable) < MAX_SVSHMSEG
          /\ sysVtable' = sysVtable /\ lock' = lock /\ pc[p] = "create"
          /\ pc'[p] = "idle"
      BY <1>0, <1>4 DEF CreateFails, CreatingNew, Creating, Return, Goto, Types
    <3>2. key_cnt = Len(sysVtable) + 1
      BY <3>1, CreatorIs
    <3>. QED
      BY <1>0, <3>1, <3>2 DEF Locked
  <2>2. Stuck'
    BY <2>1, Sticks
  <2>. QED
    BY <1>0, <2>1, <2>2 DEF KeyInv
<1>5. CASE CreateEntry(p)
  <2>1. /\ initflag = 1 /\ key_cnt = Len(sysVtable) + 1 /\ UNCHANGED <<initflag, key_cnt>>
        /\ idx[p] \in DOMAIN sysVtable /\ pc'[p] # "made"
    BY <1>0, <1>5, CreatorIs DEF CreateEntry, Dies, Inv, TableInv, CallInv, Goto, Types
  <2>2. \/ sysVtable' = sysVtable
        \/ sysVtable' = [sysVtable EXCEPT ![idx[p]].offset = @ + shm_size(p)]
    BY <1>5 DEF CreateEntry
  <2>3. /\ DOMAIN sysVtable' = DOMAIN sysVtable /\ Len(sysVtable') = Len(sysVtable)
        /\ \A v \in DOMAIN sysVtable : sysVtable'[v].sysVkey = sysVtable[v].sysVkey
    <3>1. CASE sysVtable' = sysVtable
      BY <3>1
    <3>2. CASE sysVtable' = [sysVtable EXCEPT ![idx[p]].offset = @ + shm_size(p)]
      BY <1>0, <2>1, <3>2, OffsetMoves, NewSizeIs DEF Types
    <3>. QED
      BY <2>2, <3>1, <3>2
  <2>4. \A q \in Proc : pc'[q] # "made"
    BY <1>0, <1>5, <2>1, CreatorIs DEF CreateEntry, Locked
  <2>. QED
    BY <1>0, <2>1, <2>3, <2>4 DEF KeyInv
<1>6. CASE Quiet /\ ~CreateSysV(p) /\ ~CreateNew(p)
  <2>1. pc'[p] # "made"
    BY <1>6, MadeMoves
  <2>2. CASE pc[p] # "made"
    BY <1>0, <1>6, <2>1, <2>2 DEF KeyInv, Quiet
  <2>3. CASE pc[p] = "made"
    <3>1. Die(p)
      BY <1>6, <2>3, MadeMoves
    <3>2. Stuck'
      BY <2>3, <3>1, Sticks DEF Die, Dies, Goto, shared, Inv, Types, Locked
    <3>. QED
      BY <1>0, <1>6, <2>3, <3>2 DEF KeyInv, Quiet
  <2>. QED
    BY <2>2, <2>3
<1>. QED
  BY <1>1, <1>2, <1>3, <1>4, <1>5, <1>6, WhoChangesTables

\* How a process comes to have found something in the tables.
LEMMA CallMoves ==
    ASSUME Inv, NEW p \in Proc, Acts(p)
    PROVE  /\ pc'[p] = "entry" => CreateFits(p) \/ CreateNew(p)
           /\ pc'[p] \in {"attach", "up", "down"} =>
                 \/ CreateExists(p)
                 \/ CreateEntry(p)
                 \/ pc[p] = "attach" /\ arg'[p] = arg[p]
                 \/ Release(p)
<1> USE DEF Inv, Types, shared, local, history, Goto, Return
<1>1. CASE Call(p)
  BY <1>1 DEF Call, Initialize, GetCall, Release, Disconnect, DisconnectFails, Finalize
<1>2. CASE InitializeLock(p) \/ InitializeTables(p) \/ CreateLock(p) \/ CreateExists(p)
  BY <1>2 DEF InitializeLock, InitializeTables, CreateLock, CreateExists
<1>3. CASE CreateFits(p) \/ CreateRefused(p) \/ CreateSysV(p) \/ CreateNew(p) \/ CreateFails(p)
  BY <1>3 DEF CreateFits, CreateRefused, CreateSysV, CreateNew, CreateFails
<1>4. CASE CreateEntry(p) \/ Die(p)
  BY <1>4 DEF CreateEntry, Die, Dies
<1>5. CASE GetAgain(p) \/ Attach(p) \/ AttachFails(p) \/ CountUp(p) \/ CountDown(p)
  BY <1>5 DEF GetAgain, Attach, AttachFails, CountUp, CountDown
<1>6. CASE FinalizeFind(p) \/ FinalizeRemove(p) \/ FinalizeFails(p)
  BY <1>6 DEF FinalizeFind, FinalizeRemove, FinalizeFails
<1>7. CASE FinalizeEnd(p) \/ FinalizeSelf(p) \/ FinalizeSelfFails(p)
  BY <1>7 DEF FinalizeEnd, FinalizeSelf, FinalizeSelfFails
<1>. QED
  BY <1>1, <1>2, <1>3, <1>4, <1>5, <1>6, <1>7 DEF Acts, Step

\* While the tables stay, so does what the calls have found in them.
LEMMA TablesStayStep ==
    ASSUME Inv, NEW p \in Proc, Acts(p), UNCHANGED <<sysVtable, shmtable>>,
           ~CreateNew(p), ~CreateEntry(p)
    PROVE  TableInv'
<1>0. TableInv /\ Types /\ (Stuck => Stuck')
  BY LockInvStep DEF Inv
<1>1. OffsetInv'
  BY <1>0 DEF OffsetInv, TableInv
<1>2. Created' = Created /\ \A s \in Created : Placed(s)' /\ Inside(s)'
  BY <1>0 DEF PlaceInv, TableInv, Created, Placed, Inside
<1>3. PlaceInv'
  BY <1>0, <1>2 DEF PlaceInv, TableInv, Apart
<1>4. ASSUME NEW q \in Proc, pc'[q] = "entry"
      PROVE  /\ arg'[q] \notin Created /\ idx'[q] \in DOMAIN sysVtable
             /\ sysVtable[idx'[q]].size - sysVtable[idx'[q]].offset >= shm_size(q)'
  <2>1. CASE q = p
    <3>1. CreateFits(p)
      BY <1>4, <2>1, CallMoves
    <3>2. First(Room(p)) \in Room(p) /\ First(Room(p)) \in DOMAIN sysVtable
      BY <1>0, <3>1, RoomIs DEF CreateFits
    <3>3. arg' = arg /\ idx'[p] = First(Room(p)) /\ arg[p] \notin Created
      BY <1>0, <3>1 DEF CreateFits, Creating, Created, Types
    <3>4. sysVtable[idx'[p]].size - sysVtable[idx'[p]].offset >= shm_size(p)
      BY <3>2, <3>3 DEF Room
    <3>. QED
      BY <2>1, <3>2, <3>3, <3>4 DEF shm_size
  <2>2. CASE q # p
    <3>1. pc[q] = "entry" /\ arg'[q] = arg[q] /\ idx'[q] = idx[q]
      BY <1>0, <1>4, <2>2, OthersStay
    <3>. QED
      BY <1>0, <3>1 DEF TableInv, CallInv, shm_size
  <2>. QED
    BY <2>1, <2>2
<1>5. ASSUME NEW q \in Proc, pc'[q] \in {"attach", "up", "down"}
      PROVE  arg'[q] \in Created
  <2>1. CASE q = p
    <3>1. CASE CreateExists(p)
      BY <1>0, <2>1, <3>1 DEF CreateExists, local, Created, Types
    <3>2. CASE pc[p] = "attach" /\ arg'[p] = arg[p]
      BY <1>0, <2>1, <3>2 DEF TableInv, CallInv
    <3>3. CASE Release(p)
      BY <1>0, <2>1, <3>3 DEF Release, Inv, MemoryInv, UserInv, Types
    <3>. QED
      BY <1>5, <2>1, <3>1, <3>2, <3>3, CallMoves
  <2>2. CASE q # p
    BY <1>0, <1>5, <2>2, OthersStay DEF TableInv, CallInv
  <2>. QED
    BY <2>1, <2>2
<1>6. ASSUME NEW q \in Proc, pc'[q] = "made" PROVE arg'[q] \notin Created
  <2>1. CASE q = p
    <3>1. CreateSysV(p)
      BY <1>6, <2>1, MadeMoves
    <3>. QED
      BY <2>1, <3>1 DEF CreateSysV, CreatingNew, Creating, Created
  <2>2. CASE q # p
    BY <1>0, <1>6, <2>2, OthersStay DEF TableInv, CallInv
  <2>. QED
    BY <2>1, <2>2
<1>7. CallInv'
  BY <1>2, <1>4, <1>5, <1>6 DEF CallInv
<1>. QED
  BY <1>1, <1>3, <1>7 DEF TableInv

\* A new System V segment changes nothing about those in the table.
LEMMA NewIs ==
    ASSUME Inv, NEW p \in Proc, CreateNew(p)
    PROVE  /\ DOMAIN sysVtable' = 1 .. Len(sysVtable) + 1
           /\ Len(sysVtable') = Len(sysVtable) + 1
           /\ \A v \in DOMAIN sysVtable : v \in DOMAIN sysVtable' /\ sysVtable'[v] = sysVtable[v]
           /\ Len(sysVtable) + 1 \in DOMAIN sysVtable'
           /\ sysVtable'[Len(sysVtable) + 1].sysVkey = Len(sysVtable) + 1
           /\ sysVtable'[Len(sysVtable) + 1].size = NewSize(p)
           /\ sysVtable'[Len(sysVtable) + 1].offset = 0
           /\ shmtable' = shmtable /\ arg' = arg /\ arg[p] \notin Created
           /\ idx'[p] = Len(sysVtable) + 1 /\ pc'[p] = "entry"
<1>1. /\ pc[p] = "made" /\ arg[p] \notin Created
      /\ shmtable' = shmtable /\ arg' = arg
      /\ idx'[p] = Len(sysVtable) + 1 /\ pc'[p] = "entry"
  BY DEF CreateNew, Goto, Inv, Types, TableInv, CallInv
<1>2. NewKey = Len(sysVtable) + 1
  BY <1>1, CreatorIs
<1>3. sysVtable' = Append(sysVtable, [sysVkey |-> Len(sysVtable) + 1,
                                     size |-> NewSize(p), offset |-> 0])
  BY <1>2 DEF CreateNew
<1>. QED
  BY <1>1, <1>3, TableIs DEF Inv

LEMMA CreateNewTableStep ==
    ASSUME Inv, NEW p \in Proc, CreateNew(p)
    PROVE  TableInv'
<1>0. /\ TableInv /\ Types /\ (Stuck => Stuck')
      /\ NewSize(p) \in Nat /\ shm_size(p) <= NewSize(p) /\ shm_size(p) \in Nat
  BY LockInvStep, NewSizeIs DEF Inv, Types, Acts, Step
<1>1. OffsetInv'
  <2>1. 0 % 8 = 0
    OBVIOUS
  <2>2. ASSUME NEW v \in DOMAIN sysVtable'
        PROVE  sysVtable'[v].offset <= sysVtable'[v].size /\ sysVtable'[v].offset % 8 = 0
    <3>1. CASE v \in DOMAIN sysVtable
      BY <1>0, <3>1, NewIs DEF OffsetInv, TableInv
    <3>2. CASE v = Len(sysVtable) + 1
      BY <1>0, <2>1, <3>2, NewIs
    <3>. QED
      BY <1>0, <3>1, <3>2, NewIs, TableIs
  <2>. QED
    BY <2>2 DEF OffsetInv
<1>2. Created' = Created
  BY NewIs DEF Created
<1>3. \A s \in Created : Placed(s)' /\ Inside(s)'
  BY <1>0, NewIs, TableIs DEF TableInv, PlaceInv, Placed, Inside
<1>4. PlaceInv'
  <2>1. \A s, t \in Created : Apart(s, t) => Apart(s, t)'
    BY NewIs DEF Apart
  <2>. QED
    BY <1>0, <1>2, <1>3, <2>1 DEF TableInv, PlaceInv
<1>5. \A q \in Proc : q # p => pc'[q] = pc[q] /\ idx'[q] = idx[q]
  BY <1>0, OthersStay DEF Acts, Step
<1>6. \A q \in Proc : q # p => pc'[q] \notin {"made", "entry"}
  BY <1>5, CreatorIs DEF CreateNew, Locked
<1>7. CallInv'
  <2>1. shm_size(p)' = shm_size(p)
    BY NewIs DEF shm_size
  <2>2. idx'[p] \in DOMAIN sysVtable'
        /\ sysVtable'[idx'[p]].size - sysVtable'[idx'[p]].offset >= shm_size(p)'
    <3>1. /\ sysVtable'[idx'[p]].size = NewSize(p) /\ sysVtable'[idx'[p]].offset = 0
          /\ idx'[p] \in DOMAIN sysVtable'
      BY NewIs
    <3>. QED
      BY <1>0, <2>1, <3>1
  <2>. QED
    BY <1>0, <1>2, <1>5, <1>6, <2>2, NewIs DEF TableInv, CallInv
<1>. QED
  BY <1>1, <1>4, <1>7 DEF TableInv

\* The new entry begins where the used part of its System V segment ended.
LEMMA EntryIs ==
    ASSUME Inv, NEW p \in Proc, CreateEntry(p)
    PROVE  LET v == idx[p]
               n == shm_size(p)
               a == arg[p]
           IN /\ v \in DOMAIN sysVtable /\ n \in Nat /\ n > 0 /\ n % 8 = 0
              /\ sysVtable[v].offset + n <= sysVtable[v].size
              /\ a \in Shmid /\ a \notin Created /\ Created' = Created \cup {a}
              /\ shmtable'[a] = [sysVtable_idx |-> v, offset |-> sysVtable[v].offset,
                                 size |-> n]
              /\ \A s \in Shmid : s # a => shmtable'[s] = shmtable[s]
              /\ DOMAIN sysVtable' = DOMAIN sysVtable
              /\ \A u \in DOMAIN sysVtable :
                    /\ sysVtable'[u].sysVkey = sysVtable[u].sysVkey
                    /\ sysVtable'[u].size = sysVtable[u].size
              /\ \/ /\ \A u \in DOMAIN sysVtable : sysVtable'[u].offset =
                          IF u = v THEN sysVtable[u].offset + n ELSE sysVtable[u].offset
                 \/ sysVtable' = sysVtable /\ Stuck'
<1> DEFINE v == idx[p]
           n == shm_size(p)
           a == arg[p]
<1>0. Types /\ TableInv /\ pc[p] = "entry"
  BY DEF Inv, CreateEntry
<1>1. n \in Nat /\ n > 0 /\ n % 8 = 0 /\ a \in Shmid
  BY <1>0, NewSizeIs DEF Types
<1>2. /\ v \in DOMAIN sysVtable /\ a \notin Created
      /\ sysVtable[v].size - sysVtable[v].offset >= n
  BY <1>0 DEF TableInv, CallInv
<1>3. sysVtable[v].offset + n <= sysVtable[v].size /\ v > 0 /\ v \in Nat
  BY <1>0, <1>1, <1>2, TableIs DEF SvEntry
<1>4. shmtable' = [shmtable EXCEPT ![a] = [sysVtable_idx |-> v,
                      offset |-> sysVtable[v].offset, size |-> n]]
  BY DEF CreateEntry
<1>5. /\ shmtable'[a] = [sysVtable_idx |-> v, offset |-> sysVtable[v].offset, size |-> n]
      /\ \A s \in Shmid : s # a => shmtable'[s] = shmtable[s]
  BY <1>0, <1>1, <1>4 DEF Types
<1>6. Created' = Created \cup {a}
  <2>1. shmtable'[a] # NoEntry
    BY <1>3, <1>5 DEF NoEntry
  <2>. QED
    BY <1>1, <1>5, <2>1 DEF Created
<1>7. CASE sysVtable' = [sysVtable EXCEPT ![v].offset = @ + n]
  BY <1>0, <1>1, <1>2, <1>3, <1>5, <1>6, <1>7, OffsetMoves
<1>8. CASE sysVtable' = sysVtable /\ lock' = lock /\ Dies(p)
  <2>1. Stuck'
    BY <1>0, <1>8, Sticks DEF Acts, Step, Dies, Goto, Locked, Types
  <2>. QED
    BY <1>1, <1>2, <1>3, <1>5, <1>6, <1>8, <2>1
<1>. QED
  BY <1>7, <1>8 DEF CreateEntry

LEMMA CreateEntryTableStep ==
    ASSUME Inv, NEW p \in Proc, CreateEntry(p)
    PROVE  TableInv'
<1>. PICK v, n, a : v = idx[p] /\ n = shm_size(p) /\ a = arg[p]
  OBVIOUS
<1>0. /\ TableInv /\ Types /\ ~Stuck
      /\ v \in DOMAIN sysVtable /\ sysVtable[v] \in SvEntry
      /\ sysVtable[v].offset % 8 = 0 /\ sysVtable[v].offset \in Nat
  BY CreatorIs, EntryIs, TableIs DEF Inv, CreateEntry, TableInv, OffsetInv, SvEntry
<1>1. /\ n \in Nat /\ n > 0 /\ n % 8 = 0
      /\ sysVtable[v].offset + n <= sysVtable[v].size
      /\ a \in Shmid /\ a \notin Created /\ Created' = Created \cup {a}
      /\ shmtable'[a] = [sysVtable_idx |-> v, offset |-> sysVtable[v].offset, size |-> n]
      /\ \A s \in Shmid : s # a => shmtable'[s] = shmtable[s]
  BY EntryIs
<1>2. /\ DOMAIN sysVtable' = DOMAIN sysVtable
      /\ \A u \in DOMAIN sysVtable : sysVtable'[u].size = sysVtable[u].size
      /\ \/ \A u \in DOMAIN sysVtable : sysVtable'[u].offset =
               IF u = v THEN sysVtable[u].offset + n ELSE sysVtable[u].offset
         \/ sysVtable' = sysVtable /\ Stuck'
  BY EntryIs, ZenonT(40)
<1>3. \A s \in Created : s \in Shmid /\ s # a /\ shmtable'[s] = shmtable[s]
  BY <1>1 DEF Created
<1>4. OffsetInv'
  <2>1. (sysVtable[v].offset + n) % 8 = 0
    BY <1>0, <1>1, Multiples
  <2>2. \A u \in DOMAIN sysVtable :
           sysVtable[u].offset <= sysVtable[u].size /\ sysVtable[u].offset % 8 = 0
    BY <1>0 DEF TableInv, OffsetInv
  <2>. QED
    BY <1>1, <1>2, <2>1, <2>2 DEF OffsetInv
<1>5. ASSUME NEW s \in Created
      PROVE  Placed(s)' /\ Inside(s)' /\ Apart(s, a)' /\ Apart(a, s)'
  <2>1. /\ shmtable[s] \in Entry /\ Placed(s) /\ Inside(s) /\ shmtable'[s] = shmtable[s]
    BY <1>0, <1>3 DEF TableInv, PlaceInv, Types
  <2>2. PICK w, o, k : w = shmtable[s].sysVtable_idx /\ o = shmtable[s].offset /\ k = shmtable[s].size
    OBVIOUS
  <2>3. /\ o \in Nat /\ k \in Nat /\ w \in DOMAIN sysVtable
        /\ o + k <= sysVtable[w].offset /\ sysVtable[w].offset \in Nat
        /\ o % 8 = 0 /\ o + k <= sysVtable[w].size
    BY <1>0, <2>1, <2>2, TableIs DEF Placed, Inside, Entry, SvEntry
  <2>4. Placed(s)'
    BY <1>0, <1>1, <1>2, <2>1, <2>2, <2>3 DEF Placed
  <2>5. Inside(s)'
    BY <1>2, <2>1, <2>2, <2>3 DEF Inside
  <2>6. Apart(s, a)' /\ Apart(a, s)'
    BY <1>0, <1>1, <2>1, <2>2, <2>3 DEF Apart
  <2>. QED
    BY <2>4, <2>5, <2>6
<1>6. Placed(a)' /\ Inside(a)'
  BY <1>0, <1>1, <1>2 DEF Placed, Inside
<1>7. \A s, t \in Created : s # t => Apart(s, t)'
  BY <1>0, <1>3 DEF TableInv, PlaceInv, Apart
<1>8. PlaceInv'
  BY <1>1, <1>5, <1>6, <1>7 DEF PlaceInv
<1>9. \A q \in Proc : q # p => pc'[q] = pc[q] /\ arg'[q] = arg[q]
  BY <1>0, OthersStay DEF Acts, Step
<1>10. \A q \in Proc : pc'[q] \notin {"made", "entry"}
  <2>1. \A q \in Proc : q # p => pc'[q] \notin {"made", "entry"}
    BY <1>9, CreatorIs DEF CreateEntry, Locked
  <2>2. pc'[p] \notin {"made", "entry"}
    BY <1>0 DEF CreateEntry, Dies, Goto, Types
  <2>. QED
    BY <2>1, <2>2
<1>11. pc'[p] = "dead" \/ arg'[p] = a
  BY <1>0 DEF CreateEntry, Dies, Goto, local, Types
<1>12. CallInv'
  BY <1>0, <1>1, <1>9, <1>10, <1>11 DEF TableInv, CallInv
<1>. QED
  BY <1>4, <1>8, <1>12 DEF TableInv

\* After a reset nobody has found anything in the tables.
LEMMA ResetTableStep ==
    ASSUME Inv, NEW p \in Proc, InitializeTables(p), initflag = 0
    PROVE  TableInv'
<1>0. Types /\ \A q \in Proc : q # p => pc'[q] = pc[q]
  BY OthersStay DEF Inv, Acts, Step
<1>1. sysVtable' = <<>> /\ Created' = {} /\ pc'[p] = "idle"
  BY <1>0 DEF InitializeTables, Created, Goto, Return, Types
<1>2. \A q \in Proc : q # p => pc'[q] \in {"out", "initlock", "init", "dead"}
  BY <1>0 DEF Inv, ResetInv
<1>. QED
  BY <1>1, <1>2 DEF TableInv, OffsetInv, PlaceInv, CallInv

LEMMA TableInvStep ==
    ASSUME Inv, NEW p \in Proc, Acts(p)
    PROVE  TableInv'
<1>1. CASE Quiet \/ CreateSysV(p) \/ CreateFails(p)
  <2>1. CASE CreateNew(p) \/ CreateEntry(p)
    BY <2>1, CreateNewTableStep, CreateEntryTableStep
  <2>2. CASE ~CreateNew(p) /\ ~CreateEntry(p)
    BY <1>1, <2>2, TablesStayStep DEF Quiet, CreateSysV, CreateFails
  <2>. QED
    BY <2>1, <2>2
<1>2. CASE CreateNew(p)
  BY <1>2, CreateNewTableStep
<1>3. CASE CreateEntry(p)
  BY <1>3, CreateEntryTableStep
<1>4. CASE InitializeTables(p) /\ initflag = 0
  BY <1>4, ResetTableStep
<1>. QED
  BY <1>1, <1>2, <1>3, <1>4, WhoChangesTables

-----------------------------------------------------------------------------
(***************************************************************************)
(* What the users have                                                     *)
(***************************************************************************)

\* What a user can rely on: the entries are there after the step as before, and
\* no life is alone that was not.
Keeps ==
    /\ \A s \in Created : s \in Created' /\ shmtable'[s] = shmtable[s]
    /\ life' = "alone" => life = "alone"

LEMMA KeepsIs ==
    ASSUME Inv, NEW p \in Proc, Acts(p)
    PROVE  Keeps
<1>1. life' = "alone" => life = "alone"
  <2> USE DEF system
  <2>1. CASE Call(p)
    BY <2>1 DEF Call, Initialize, GetCall, Release, Disconnect, DisconnectFails, Finalize
  <2>2. CASE Step(p)
    BY <2>2
       DEF Step, InitializeLock, InitializeTables, CreateLock, CreateExists,
           CreateFits, CreateRefused, CreateSysV, CreateNew, CreateFails, CreateEntry,
           GetAgain, Attach, AttachFails, CountUp, CountDown, FinalizeFind,
           FinalizeRemove, FinalizeFails, FinalizeEnd, FinalizeSelf, FinalizeSelfFails
  <2>3. CASE Die(p)
    BY <2>3 DEF Die
  <2>. QED
    BY <2>1, <2>2, <2>3 DEF Acts
<1>2. CASE Quiet \/ CreateSysV(p) \/ CreateFails(p)
  BY <1>1, <1>2 DEF Quiet, CreateSysV, CreateFails, Keeps, Created
<1>3. CASE InitializeTables(p) /\ initflag = 0
  BY <1>1, <1>3 DEF Keeps, Inv, ResetInv
<1>4. CASE CreateNew(p)
  BY <1>1, <1>4, NewIs DEF Keeps, Created
<1>5. CASE CreateEntry(p)
  BY <1>1, <1>5, EntryIs DEF Keeps, Created
<1>. QED
  BY <1>2, <1>3, <1>4, <1>5, WhoChangesTables

\* A step that leaves what a process has attached and got, leaves it right.
LEMMA UserStays ==
    ASSUME Inv, NEW q \in Proc, Keeps, sysVid'[q] = sysVid[q], ptr'[q] = ptr[q],
           undone[q] \subseteq undone'[q],
           pc'[q] \in {"up", "down"} => pc'[q] = pc[q] /\ arg'[q] = arg[q],
           q \in Connecteds => q \in Connecteds'
    PROVE  UserInv(q)'
<1>1. UserInv(q) /\ Held(q)' = Held(q)
  BY DEF Inv, MemoryInv, Held
<1>2. pc[q] = "up" => arg[q] \in Created
  BY DEF Inv, TableInv, CallInv
<1>3. \A v, x : Rightly(v, x) => Rightly(v, x)'
  BY DEF Rightly, Keeps
<1>4. \A v \in SvIndex : sysVid'[q][v] # -1 => Rightly(v, sysVid[q][v])'
  BY <1>1, <1>3 DEF UserInv
<1>5. ASSUME NEW s \in Held(q)
      PROVE  /\ s \in Created'
             /\ Rightly(shmtable[s].sysVtable_idx, ptr[q][s][1])'
             /\ ptr'[q][s] = <<ptr'[q][s][1], shmtable'[s].offset>>
             /\ "halfway" \notin undone'[q] =>
                   sysVid'[q][shmtable'[s].sysVtable_idx] = ptr'[q][s][1]
  BY <1>1, <1>3 DEF UserInv, Keeps
<1>6. /\ pc'[q] = "up" => sysVid'[q][shmtable'[arg'[q]].sysVtable_idx] # -1
      /\ pc'[q] \in {"up", "down"} => arg'[q] \notin Held(q)
      /\ q \notin Connecteds' => Held(q) = {}
  BY <1>1, <1>2 DEF UserInv, Keeps
<1>. QED
  BY <1>1, <1>4, <1>5, <1>6 DEF UserInv

\* A process whose tables are empty has nothing wrong.
LEMMA UserEmpty ==
    ASSUME Types, NEW p \in Proc, NoTables(p), pc'[p] \notin {"up", "down"}
    PROVE  UserInv(p)' /\ Held(p)' = {}
<1>1. /\ \A v \in SvIndex : sysVid'[p][v] = -1
      /\ \A s \in Shmid : ptr'[p][s] = NULL
  BY DEF NoTables, Types
<1>2. Held(p)' = {}
  BY <1>1 DEF Held
<1>. QED
  BY <1>1, <1>2 DEF UserInv

\* The steps that leave what the process has attached and got.
LEMMA WhoChangesLocals ==
    ASSUME Inv, NEW p \in Proc, Acts(p)
    PROVE  \/ NoTables(p) /\ pc'[p] \notin {"up", "down"}
           \/ CreateSysV(p)
           \/ Attach(p)
           \/ CountUp(p)
           \/ Release(p)
           \/ DisconnectFails(p)
           \/ /\ UNCHANGED <<sysVid, ptr>> /\ pc'[p] \notin {"up", "down"}
              /\ undone[p] \subseteq undone'[p]
              /\ p \in Connecteds => p \in Connecteds'
<1> USE DEF Inv, Types, Connecteds, local, Goto, Return
<1>1. CASE Initialize(p) \/ GetCall(p) \/ Disconnect(p)
  BY <1>1 DEF Initialize, GetCall, Disconnect
<1>2. CASE Finalize(p)
  BY <1>2 DEF Finalize
<1>3. CASE InitializeLock(p) \/ InitializeTables(p) \/ CreateLock(p) \/ CreateExists(p)
  BY <1>3 DEF InitializeLock, InitializeTables, CreateLock, CreateExists
<1>4. CASE CreateFits(p) \/ CreateRefused(p) \/ CreateNew(p) \/ CreateFails(p)
  BY <1>4 DEF CreateFits, CreateRefused, CreateNew, CreateFails
<1>5. CASE CreateEntry(p) \/ Die(p)
  BY <1>5 DEF CreateEntry, Die, Dies
<1>6. CASE GetAgain(p) \/ AttachFails(p) \/ CountDown(p)
  BY <1>6 DEF GetAgain, AttachFails, CountDown
<1>7. CASE FinalizeFind(p) \/ FinalizeRemove(p) \/ FinalizeFails(p)
  BY <1>7 DEF FinalizeFind, FinalizeRemove, FinalizeFails
<1>8. CASE FinalizeEnd(p) \/ FinalizeSelf(p) \/ FinalizeSelfFails(p)
  BY <1>8 DEF FinalizeEnd, FinalizeSelf, FinalizeSelfFails
<1>. QED
  BY <1>1, <1>2, <1>3, <1>4, <1>5, <1>6, <1>7, <1>8 DEF Acts, Call, Step

\* An entry names a System V segment of the table, with its index for a key.
LEMMA PlaceIs ==
    ASSUME Inv, NEW s \in Created
    PROVE  LET v == shmtable[s].sysVtable_idx
           IN  /\ v \in DOMAIN sysVtable /\ v \in SvIndex /\ v > 0 /\ v \in Key
               /\ sysVtable[v].sysVkey = v /\ shmtable[s].offset \in Nat
<1> DEFINE v == shmtable[s].sysVtable_idx
<1>1. v \in DOMAIN sysVtable /\ shmtable[s].offset \in Nat
  BY DEF Inv, TableInv, PlaceInv, Placed, Types, Entry, Created
<1>2. v \in 1 .. Len(sysVtable) /\ Len(sysVtable) <= MAX_SVSHMSEG /\ Len(sysVtable) \in Nat
  BY <1>1, TableIs DEF Inv, KeyInv
<1>3. sysVtable[v].sysVkey = v
  BY <1>1 DEF Inv, KeyInv
<1>. QED
  BY <1>1, <1>2, <1>3, MaxSvAssumption, FtokIdsAssumption DEF SvIndex, Key

\* What is attached under a key is the segment the table names, or another's.
LEMMA AttachedRightly ==
    ASSUME Inv, NEW v \in Key
    PROVE  Rightly(v, SegmentOf(v)) /\ SegmentOf(v) # -1
BY SegmentIs DEF SegmentOf, Rightly, Inv, KernelInv

LEMMA UserStep ==
    ASSUME Inv, NEW p \in Proc, Acts(p)
    PROVE  UserInv(p)'
<1>0. Types /\ Keeps /\ UserInv(p)
  BY KeepsIs DEF Inv, MemoryInv
<1>1. CASE NoTables(p) /\ pc'[p] \notin {"up", "down"}
  BY <1>0, <1>1, UserEmpty
<1>2. CASE CreateSysV(p)
  <2>. PICK w : w = Len(sysVtable) + 1
    OBVIOUS
  <2>1. /\ pc[p] = "create" /\ pc'[p] = "made" /\ UNCHANGED <<shmtable, life, ptr, undone>>
        /\ sysVid' = [sysVid EXCEPT ![p][w] = SegmentOf(createSysVKey)]
        /\ Len(sysVtable) < MAX_SVSHMSEG
    BY <1>0, <1>2 DEF CreateSysV, CreatingNew, Creating, Goto, Types
  <2>2. createSysVKey = w /\ w \in SvIndex /\ w \in Key
    <3>1. createSysVKey = w
      BY <2>1, CreatorIs
    <3>2. w \in SvIndex
      BY <1>0, <2>1, TableIs, MaxSvAssumption DEF SvIndex
    <3>. QED
      BY <3>1, <3>2, FtokIdsAssumption, MaxSvAssumption DEF SvIndex, Key
  <2>3. PICK x : x = SegmentOf(w) /\ Rightly(w, x)
    BY <2>2, AttachedRightly
  <2>4. \A v \in SvIndex : sysVid'[p][v] = IF v = w THEN x ELSE sysVid[p][v]
    BY <1>0, <2>1, <2>2, <2>3 DEF Types
  <2>5. \A s \in Held(p) : shmtable[s].sysVtable_idx \in SvIndex
                           /\ shmtable[s].sysVtable_idx # w
    BY <1>0, PlaceIs, TableIs DEF UserInv
  <2>6. Held(p)' = Held(p) /\ Created' = Created /\ p \in Connecteds'
    BY <2>1 DEF Held, Created, Connecteds
  <2>7. \A v, y : Rightly(v, y)' <=> Rightly(v, y)
    BY <2>1 DEF Rightly
  <2>8. \A v \in SvIndex : sysVid'[p][v] # -1 => Rightly(v, sysVid'[p][v])
    BY <1>0, <2>3, <2>4 DEF UserInv
  <2>9. \A s \in Held(p) :
           /\ s \in Created
           /\ Rightly(shmtable[s].sysVtable_idx, ptr[p][s][1])
           /\ ptr[p][s] = <<ptr[p][s][1], shmtable[s].offset>>
           /\ "halfway" \notin undone[p] =>
                 sysVid'[p][shmtable[s].sysVtable_idx] = ptr[p][s][1]
    BY <1>0, <2>4, <2>5 DEF UserInv
  <2>. QED
    BY <2>1, <2>6, <2>7, <2>8, <2>9 DEF UserInv
<1>3. CASE Attach(p)
  <2>. PICK w : w = shmtable[arg[p]].sysVtable_idx
    OBVIOUS
  <2>1. /\ pc[p] = "attach" /\ pc'[p] = "up" /\ arg[p] \in Created /\ arg' = arg
        /\ UNCHANGED <<shmtable, sysVtable, life, ptr, undone>> /\ arg[p] \notin Held(p)
    BY <1>0, <1>3 DEF Attach, shared, system, Inv, TableInv, CallInv, Held, Connected,
                      Goto, Types
  <2>2. /\ w \in SvIndex /\ w \in Key /\ sysVtable[w].sysVkey = w
    BY <2>1, PlaceIs
  <2>3. PICK x : x = SegmentOf(w) /\ Rightly(w, x) /\ x # -1
    BY <2>2, AttachedRightly
  <2>4. \/ sysVid[p][w] # -1 /\ sysVid' = sysVid
        \/ sysVid[p][w] = -1 /\ sysVid' = [sysVid EXCEPT ![p][w] = x]
    BY ZenonT(40), <1>3, <2>2, <2>3 DEF Attach
  <2>5. /\ \A v \in SvIndex : sysVid[p][v] # -1 => sysVid'[p][v] = sysVid[p][v]
        /\ \A v \in SvIndex : sysVid'[p][v] # -1 =>
              sysVid'[p][v] = sysVid[p][v] \/ (v = w /\ sysVid'[p][v] = x)
        /\ sysVid'[p][w] # -1
    BY <1>0, <2>2, <2>3, <2>4 DEF Types
  <2>6. \A s \in Held(p) : shmtable[s].sysVtable_idx \in SvIndex /\ ptr[p][s][1] # -1
    <3>1. \A y \in Segment : y # -1
      BY FtokIdsAssumption, MaxSvAssumption DEF Segment, Key, Foreign
    <3>. QED
      BY <1>0, <3>1, PlaceIs DEF UserInv, Held, Types
  <2>7. Held(p)' = Held(p) /\ Created' = Created /\ p \in Connecteds'
    BY <2>1 DEF Held, Created, Connecteds
  <2>8. \A v, y : Rightly(v, y)' <=> Rightly(v, y)
    BY <2>1 DEF Rightly
  <2>9. \A v \in SvIndex : sysVid'[p][v] # -1 => Rightly(v, sysVid'[p][v])
    BY <1>0, <2>3, <2>5 DEF UserInv
  <2>10. \A s \in Held(p) :
           /\ s \in Created
           /\ Rightly(shmtable[s].sysVtable_idx, ptr[p][s][1])
           /\ ptr[p][s] = <<ptr[p][s][1], shmtable[s].offset>>
           /\ "halfway" \notin undone[p] =>
                 sysVid'[p][shmtable[s].sysVtable_idx] = ptr[p][s][1]
    BY SMTT(30), <1>0, <2>5, <2>6 DEF UserInv
  <2>. QED
    BY <2>1, <2>5, <2>7, <2>8, <2>9, <2>10 DEF UserInv
<1>4. CASE CountUp(p)
  <2>. PICK a, w, o, x : /\ a = arg[p] /\ w = shmtable[a].sysVtable_idx
                         /\ o = shmtable[a].offset /\ x = sysVid[p][w]
    OBVIOUS
  <2>1. /\ pc[p] = "up" /\ pc'[p] = "idle" /\ a \in Created /\ a \in Shmid
        /\ UNCHANGED <<shmtable, life, sysVid, undone>> /\ x # -1
        /\ ptr' = [ptr EXCEPT ![p][a] = <<x, o>>]
    BY SMTT(30), <1>0, <1>4 DEF CountUp, shared, system, Inv, UserInv, TableInv, CallInv,
                                Created, Return, Goto, Types
  <2>2. w \in SvIndex
    BY <2>1, PlaceIs
  <2>3. Rightly(w, x)
    BY <1>0, <2>1, <2>2 DEF UserInv
  <2>4. \A s \in Shmid : ptr'[p][s] = IF s = a THEN <<x, o>> ELSE ptr[p][s]
    BY <1>0, <2>1 DEF Types
  <2>5. Created' = Created /\ p \in Connecteds' /\ Held(p)' \subseteq Held(p) \cup {a}
    BY <2>1, <2>4 DEF Held, Created, Connecteds
  <2>6. \A v, y : Rightly(v, y)' <=> Rightly(v, y)
    BY <2>1 DEF Rightly
  <2>7. ASSUME NEW s \in Held(p)'
        PROVE  /\ s \in Created
               /\ Rightly(shmtable[s].sysVtable_idx, ptr'[p][s][1])
               /\ ptr'[p][s] = <<ptr'[p][s][1], shmtable[s].offset>>
               /\ "halfway" \notin undone[p] =>
                     sysVid[p][shmtable[s].sysVtable_idx] = ptr'[p][s][1]
    <3>1. CASE s = a
      BY <2>1, <2>3, <2>4, <3>1
    <3>2. CASE s # a
      BY <1>0, <2>4, <2>5, <3>2 DEF UserInv, Held
    <3>. QED
      BY <3>1, <3>2
  <2>. QED
    BY <1>0, <2>1, <2>5, <2>6, <2>7 DEF UserInv
<1>5. CASE Release(p)
  <2>1. PICK a \in Shmid : /\ ptr' = [ptr EXCEPT ![p][a] = NULL]
                           /\ arg' = [arg EXCEPT ![p] = a]
    BY <1>5 DEF Release, Held
  <2>2. /\ UNCHANGED <<shmtable, life, sysVid, undone>> /\ Created' = Created
        /\ pc'[p] = "down" /\ arg'[p] = a /\ p \in Connecteds'
    BY <1>0, <1>5, <2>1 DEF Release, Connecteds, shared, system, Created, Goto, Types
  <2>3. \A s \in Shmid : ptr'[p][s] = IF s = a THEN NULL ELSE ptr[p][s]
    BY <1>0, <2>1 DEF Types
  <2>4. /\ Held(p)' \subseteq Held(p) /\ a \notin Held(p)'
        /\ \A s \in Held(p)' : ptr'[p][s] = ptr[p][s]
    BY <2>3 DEF Held
  <2>5. \A v, y : Rightly(v, y)' <=> Rightly(v, y)
    BY <2>2 DEF Rightly
  <2>. QED
    BY <1>0, <2>2, <2>4, <2>5 DEF UserInv
<1>6. CASE DisconnectFails(p)
  <2>1. /\ UNCHANGED <<shmtable, life, ptr>> /\ pc[p] = "idle" /\ pc' = pc
        /\ p \in Connecteds' /\ Created' = Created /\ Held(p)' = Held(p)
    BY <1>6 DEF DisconnectFails, shared, system, Connecteds, Created, Held
  <2>2. \A v \in SvIndex : sysVid'[p][v] \in {-1, sysVid[p][v]}
    BY <1>0, <1>6 DEF DisconnectFails, Types
  <2>3. "halfway" \notin undone'[p] => sysVid' = sysVid /\ "halfway" \notin undone[p]
    BY <1>0, <1>6 DEF DisconnectFails, Types
  <2>4. \A v, y : Rightly(v, y)' <=> Rightly(v, y)
    BY <2>1 DEF Rightly
  <2>5. \A v \in SvIndex : sysVid'[p][v] # -1 => Rightly(v, sysVid'[p][v])
    BY <1>0, <2>2 DEF UserInv
  <2>6. \A s \in Held(p) :
           /\ s \in Created
           /\ Rightly(shmtable[s].sysVtable_idx, ptr[p][s][1])
           /\ ptr[p][s] = <<ptr[p][s][1], shmtable[s].offset>>
           /\ "halfway" \notin undone'[p] =>
                 sysVid'[p][shmtable[s].sysVtable_idx] = ptr[p][s][1]
    BY <1>0, <2>3 DEF UserInv
  <2>. QED
    BY <2>1, <2>4, <2>5, <2>6 DEF UserInv
<1>7. CASE /\ UNCHANGED <<sysVid, ptr>> /\ pc'[p] \notin {"up", "down"}
           /\ undone[p] \subseteq undone'[p]
           /\ p \in Connecteds => p \in Connecteds'
  BY <1>0, <1>7, UserStays
<1>. QED
  BY <1>1, <1>2, <1>3, <1>4, <1>5, <1>6, <1>7, WhoChangesLocals

LEMMA MemoryInvStep ==
    ASSUME Inv, NEW p \in Proc, Acts(p)
    PROVE  MemoryInv'
<1>1. ASSUME NEW q \in Proc, q # p PROVE UserInv(q)'
  <2>1. /\ pc'[q] = pc[q] /\ arg'[q] = arg[q] /\ sysVid'[q] = sysVid[q]
        /\ ptr'[q] = ptr[q] /\ undone'[q] = undone[q]
    BY <1>1, OthersStay DEF Inv
  <2>2. q \in Connecteds => q \in Connecteds'
    BY <2>1 DEF Connecteds
  <2>. QED
    BY <2>1, <2>2, KeepsIs, UserStays
<1>. QED
  BY <1>1, UserStep DEF MemoryInv

-----------------------------------------------------------------------------
(***************************************************************************)
(* What finalize finds and leaves                                          *)
(***************************************************************************)

\* A process does not unmake a failure; one that leaves a segment behind is one.
LEMMA FailedStays ==
    ASSUME Inv, NEW p \in Proc, Acts(p)
    PROVE  /\ failed => failed'
           /\ CreateFails(p) \/ (pc[p] = "made" /\ Die(p)) => failed'
<1> USE DEF history
<1>1. CASE Call(p)
  BY SMTT(30), <1>1 DEF Call, Initialize, GetCall, Release, Disconnect, DisconnectFails, Finalize,
                        CreateFails, CreatingNew, Creating, Die
<1>2. CASE Step(p) /\ ~CreateEntry(p)
  <2>1. failed => failed'
    BY <1>2
       DEF Step, InitializeLock, InitializeTables, CreateLock, CreateExists,
           CreateFits, CreateRefused, CreateSysV, CreateNew, CreateFails,
           GetAgain, Attach, AttachFails, CountUp, CountDown, FinalizeFind,
           FinalizeRemove, FinalizeFails, FinalizeEnd, FinalizeSelf, FinalizeSelfFails
  <2>. QED
    BY <2>1 DEF CreateFails, Die, Dies
<1>3. CASE CreateEntry(p) \/ Die(p)
  <2>1. failed => failed'
    BY <1>3 DEF CreateEntry, Die, Dies
  <2>2. CreateFails(p) => failed'
    BY DEF CreateFails
  <2>3. pc[p] = "made" /\ Die(p) => failed'
    BY DEF Die, Dies
  <2>. QED
    BY <2>1, <2>2, <2>3
<1>. QED
  BY <1>1, <1>2, <1>3 DEF Acts

\* Only a create makes a segment of this life, under the key counted next.
LEMMA WhoMakesSegments ==
    ASSUME Inv, NEW p \in Proc, Acts(p)
    PROVE  /\ life' = "alone" => \A k \in Key : kernel'[k] # "theirs"
           /\ \A k \in Key : kernel'[k] = "ours" =>
                 \/ kernel[k] = "ours"
                 \/ /\ CreateSysV(p) \/ CreateFails(p)
                    /\ k = Len(sysVtable) + 1
<1>0. /\ Types /\ KernelInv /\ (life' = "alone" => life = "alone")
  BY KeepsIs DEF Inv, Keeps
<1>1. CASE kernel' = kernel
  BY <1>0, <1>1 DEF KernelInv
<1>2. CASE CreateSysV(p) \/ CreateFails(p)
  <2>1. \A k \in Key : kernel'[k] # kernel[k] => k = createSysVKey /\ kernel'[k] = "ours"
    BY <1>0, <1>2, KernelGrows DEF CreateSysV, CreateFails
  <2>2. createSysVKey = Len(sysVtable) + 1
    BY <1>2, CreatorIs DEF CreateSysV, CreateFails, CreatingNew, Creating
  <2>. QED
    BY <1>0, <1>2, <2>1, <2>2 DEF KernelInv
<1>3. CASE FinalizeRemove(p)
  <2>1. \A k \in Key : kernel'[k] = kernel[k] \/ kernel'[k] = "none"
    BY <1>0, <1>3 DEF FinalizeRemove, Types
  <2>. QED
    BY <1>0, <2>1 DEF KernelInv
<1> USE DEF system
<1>4. CASE Call(p) \/ Die(p)
  BY <1>1, <1>4 DEF Call, Initialize, GetCall, Release, Disconnect, DisconnectFails, Finalize, Die
<1>5. CASE Step(p)
  BY <1>1, <1>2, <1>3, <1>5
     DEF Step, InitializeLock, InitializeTables, CreateLock, CreateExists,
         CreateFits, CreateRefused, CreateNew, CreateEntry, GetAgain, Attach,
         AttachFails, CountUp, CountDown, FinalizeFind, FinalizeFails, FinalizeEnd,
         FinalizeSelf, FinalizeSelfFails
<1>. QED
  BY <1>4, <1>5 DEF Acts

\* The counted keys do not become fewer, nor the indices of the table.
LEMMA TablesGrow ==
    ASSUME Inv, NEW p \in Proc, Acts(p)
    PROVE  /\ key_cnt' >= key_cnt /\ Len(sysVtable') >= Len(sysVtable)
           /\ \A k \in DOMAIN sysVtable : k \in DOMAIN sysVtable'
<1>0. Types
  BY DEF Inv
<1>1. CASE Quiet
  BY <1>0, <1>1, TableIs DEF Quiet, Types
<1>2. CASE InitializeTables(p) /\ initflag = 0
  BY <1>2 DEF InitializeTables, Inv, ResetInv
<1>3. CASE CreateSysV(p) \/ CreateFails(p)
  BY <1>0, <1>3, TableIs DEF CreateSysV, CreateFails, Types
<1>4. CASE CreateNew(p)
  BY <1>0, <1>4, NewIs, TableIs DEF CreateNew, Types
<1>5. CASE CreateEntry(p)
  <2>1. DOMAIN sysVtable' = DOMAIN sysVtable /\ key_cnt' = key_cnt
    BY <1>5, EntryIs DEF CreateEntry
  <2>2. Len(sysVtable') = Len(sysVtable)
    BY <1>0, <1>5, <2>1, TypesStep, TableIs DEF Acts, Step, Types
  <2>. QED
    BY <1>0, <2>1, <2>2, TableIs DEF Types
<1>. QED
  BY <1>1, <1>2, <1>3, <1>4, <1>5, WhoChangesTables

LEMMA KernelInvStep ==
    ASSUME Inv, NEW p \in Proc, Acts(p)
    PROVE  KernelInv'
<1>0. /\ Types /\ KernelInv /\ Len(sysVtable) \in Nat
      /\ \A q \in Proc : q # p => pc'[q] = pc[q]
      /\ Types'
  BY OthersStay, TableIs, TypesStep DEF Inv
<1>1. ASSUME NEW k \in Key, kernel'[k] = "ours"
      PROVE  /\ k > 0 /\ k < key_cnt'
             /\ \/ failed'
                \/ k \in DOMAIN sysVtable'
                \/ \E q \in Proc : pc'[q] = "made" /\ k = NewKey'
  <2>1. CASE CreateFails(p) /\ k = Len(sysVtable) + 1
    <3>1. key_cnt' = Len(sysVtable) + 2
      <4>1. key_cnt = Len(sysVtable) + 1 /\ key_cnt' = key_cnt + 1
        BY <2>1, CreatorIs DEF CreateFails, CreatingNew, Creating
      <4>. QED
        BY <1>0, <4>1
    <3>. QED
      BY <1>0, <2>1, <3>1, FailedStays
  <2>2. CASE CreateSysV(p) /\ k = Len(sysVtable) + 1
    <3>1. /\ key_cnt = Len(sysVtable) + 1 /\ key_cnt' = key_cnt + 1
          /\ createSysVKey = Len(sysVtable) + 1 /\ pc'[p] = "made"
      BY <1>0, <2>2, CreatorIs DEF CreateSysV, CreatingNew, Creating, Goto, Types
    <3>2. key_cnt' = Len(sysVtable) + 2 /\ key_cnt' - 1 = key_cnt
      BY <1>0, <3>1
    <3>3. NewKey' = createSysVKey
      BY <3>2 DEF NewKey, createSysVKey
    <3>. QED
      BY <1>0, <2>2, <3>1, <3>2, <3>3
  <2>3. CASE kernel[k] = "ours"
    <3>1. k > 0 /\ k < key_cnt'
      BY <1>0, <2>3, TablesGrow DEF KernelInv, Key, Types
    <3>2. CASE failed \/ k \in DOMAIN sysVtable
      BY <3>1, <3>2, FailedStays, TablesGrow
    <3>3. ASSUME NEW q \in Proc, pc[q] = "made", k = NewKey, ~failed'
          PROVE  k \in DOMAIN sysVtable' \/ (pc'[q] = "made" /\ k = NewKey')
      <4>1. CASE q = p
        <5>1. CreateNew(p)
          BY <3>3, <4>1, MadeMoves, FailedStays
        <5>2. NewKey = Len(sysVtable) + 1
          BY <3>3, CreatorIs
        <5>. QED
          BY <3>3, <5>1, <5>2, NewIs
      <4>2. CASE q # p
        <5>1. pc'[q] = "made" /\ pc[p] \notin Locked
          BY <1>0, <3>3, <4>2, CreatorIs DEF Locked
        <5>2. key_cnt' = key_cnt
          BY <5>1, WhoChangesTables
             DEF Quiet, InitializeTables, CreateSysV, CreateNew, CreateFails, CreateEntry,
                 CreatingNew, Creating, Locked
        <5>. QED
          BY <3>3, <5>1, <5>2 DEF NewKey
      <4>. QED
        BY <4>1, <4>2
    <3>. QED
      BY <1>0, <2>3, <3>1, <3>2, <3>3 DEF KernelInv
  <2>. QED
    BY <1>1, <2>1, <2>2, <2>3, WhoMakesSegments
<1>. QED
  BY <1>1, WhoMakesSegments DEF KernelInv

\* How a process comes to look for a segment, or to have found it.
LEMMA FinalizeMoves ==
    ASSUME Inv, NEW p \in Proc, Acts(p), pc'[p] \in {"finalize", "rmid"}
    PROVE  Finalize(p) \/ FinalizeFind(p) \/ FinalizeRemove(p)
<1> USE DEF Inv, Types, shared, system, local, history, Goto, Return
<1>1. CASE Initialize(p) \/ GetCall(p) \/ Release(p)
  BY <1>1 DEF Initialize, GetCall, Release
<1>2. CASE Disconnect(p) \/ DisconnectFails(p)
  BY <1>2 DEF Disconnect, DisconnectFails
<1>3. CASE InitializeLock(p) \/ InitializeTables(p) \/ CreateLock(p) \/ CreateExists(p)
  BY <1>3 DEF InitializeLock, InitializeTables, CreateLock, CreateExists
<1>4. CASE CreateFits(p) \/ CreateRefused(p) \/ CreateSysV(p) \/ CreateNew(p) \/ CreateFails(p)
  BY <1>4 DEF CreateFits, CreateRefused, CreateSysV, CreateNew, CreateFails
<1>5. CASE CreateEntry(p) \/ Die(p)
  BY <1>5 DEF CreateEntry, Die, Dies
<1>6. CASE GetAgain(p) \/ Attach(p) \/ AttachFails(p) \/ CountUp(p) \/ CountDown(p)
  BY <1>6 DEF GetAgain, Attach, AttachFails, CountUp, CountDown
<1>7. CASE FinalizeFails(p) \/ FinalizeEnd(p) \/ FinalizeSelf(p) \/ FinalizeSelfFails(p)
  BY <1>7 DEF FinalizeFails, FinalizeEnd, FinalizeSelf, FinalizeSelfFails
<1>. QED
  BY <1>1, <1>2, <1>3, <1>4, <1>5, <1>6, <1>7 DEF Acts, Call, Step

LEMMA FinalizeInvStep ==
    ASSUME Inv, NEW p \in Proc, Acts(p)
    PROVE  FinalizeInv'
<1>0. /\ Types /\ FinalizeInv /\ KernelInv /\ Len(sysVtable) \in Nat
      /\ Len(sysVtable') \in Nat
      /\ \A q \in Proc : q # p => pc'[q] = pc[q] /\ idx'[q] = idx[q]
  <2>1. Types'
    BY TypesStep
  <2>2. Len(sysVtable') \in Nat
    BY <2>1 DEF Types
  <2>. QED
    BY <2>2, OthersStay, TableIs DEF Inv
<1>1. /\ Len(sysVtable') >= Len(sysVtable)
      /\ \A k \in Key : kernel'[k] = "ours" => kernel[k] = "ours" \/ k = Len(sysVtable) + 1
  BY TablesGrow, WhoMakesSegments
<1>2. ASSUME NEW q \in Proc, pc'[q] \in {"finalize", "rmid"}
      PROVE  /\ idx'[q] > 0 /\ idx'[q] <= Len(sysVtable') + 1
             /\ pc'[q] = "rmid" => idx'[q] <= Len(sysVtable')
             /\ \A k \in Key : k < idx'[q] => kernel'[k] # "ours"
  <2>1. CASE \/ q # p
             \/ /\ pc[q] \in {"finalize", "rmid"} /\ idx'[q] = idx[q]
                /\ pc'[q] = "rmid" => idx[q] <= Len(sysVtable)
    <3>1. /\ idx[q] \in Nat /\ idx'[q] = idx[q] /\ pc[q] \in {"finalize", "rmid"}
          /\ pc'[q] = "rmid" => idx[q] <= Len(sysVtable)
      BY <1>0, <1>2, <2>1 DEF FinalizeInv, Types
    <3>2. /\ idx[q] > 0 /\ idx[q] <= Len(sysVtable) + 1
          /\ \A k \in Key : k < idx[q] => kernel[k] # "ours"
      BY <1>0, <3>1 DEF FinalizeInv
    <3>3. \A k \in Key : k < idx[q] => k # Len(sysVtable) + 1
      BY <1>0, <3>1, <3>2 DEF Key
    <3>. QED
      BY <1>0, <1>1, <3>1, <3>2, <3>3
  <2>2. CASE q = p /\ Finalize(p)
    <3>1. pc'[p] = "finalize" /\ idx'[p] = 1 /\ kernel' = kernel
      BY <1>0, <2>2 DEF Finalize, system, Goto, Types
    <3>2. \A k \in Key : k < 1 => kernel'[k] # "ours"
      BY <1>0, <3>1 DEF KernelInv, Key
    <3>. QED
      BY <1>0, <2>2, <3>1, <3>2
  <2>3. CASE q = p /\ FinalizeFind(p)
    <3>1. pc[p] = "finalize" /\ idx' = idx /\ idx[p] <= Len(sysVtable)
      BY <2>3 DEF FinalizeFind, local, Entries
    <3>. QED
      BY <2>1, <2>3, <3>1
  <2>4. CASE q = p /\ FinalizeRemove(p)
    <3>. PICK w : w = idx[p]
      OBVIOUS
    <3>1. /\ pc[p] = "rmid" /\ w \in DOMAIN sysVtable /\ w \in Nat /\ w > 0
          /\ w <= Len(sysVtable) /\ pc'[p] = "finalize" /\ sysVtable' = sysVtable
          /\ idx'[p] = w + 1 /\ \A k \in Key : k < w => kernel[k] # "ours"
      BY <1>0, <2>4, TableIs DEF FinalizeRemove, FinalizeInv, shared, Goto, Types
    <3>2. sysVtable[w].sysVkey = w /\ w \in Key
      BY <3>1, TableIs, <1>0 DEF Inv, KeyInv, SvEntry
    <3>3. \/ kernel' = [kernel EXCEPT ![w] = "none"]
          \/ kernel[w] # "ours" /\ kernel' = kernel
      BY <2>4, <3>2 DEF FinalizeRemove
    <3>4. kernel'[w] # "ours" /\ \A k \in Key : k # w => kernel'[k] = kernel[k]
      BY <1>0, <3>2, <3>3 DEF Types
    <3>5. ASSUME NEW k \in Key, k < w + 1 PROVE kernel'[k] # "ours"
      <4>1. k = w \/ k < w
        BY <3>1, <3>5 DEF Key
      <4>. QED
        BY <3>1, <3>4, <4>1
    <3>. QED
      BY <1>0, <2>4, <3>1, <3>5
  <2>. QED
    BY <1>2, <2>1, <2>2, <2>3, <2>4, FinalizeMoves
<1>. QED
  BY <1>2 DEF FinalizeInv

-----------------------------------------------------------------------------
(***************************************************************************)
(* The invariant and what follows from it                                  *)
(***************************************************************************)

LEMMA InvInit == Init => Inv
<1> SUFFICES ASSUME Init PROVE Inv
  OBVIOUS
<1> USE DEF Init
<1>1. /\ sysVtable = <<>> /\ <<>> \in Seq(SvEntry) /\ Created = {} /\ Connecteds = {}
      /\ NULL \in Segment \X Nat /\ NoEntry \in Entry /\ 0 \in Shmid
      /\ \A p \in Proc : pc[p] = "out"
  BY EmptySeq, MaxShmAssumption, FtokIdsAssumption, MaxSvAssumption
     DEF Created, Connecteds, Shmid, Key, Segment, NULL, NoEntry, Entry
<1>2. Types
  <2>1. /\ lock \in {0, 1} /\ initflag \in {0, 1} /\ key_cnt \in Nat
        /\ sysVtable \in Seq(SvEntry) /\ shmtable \in [Shmid -> Entry]
        /\ cnt \in [Shmid -> Int] /\ kernel \in [Key -> {"none", "ours", "theirs"}]
        /\ life \in {"alone", "crowded", "removed"}
    BY <1>1, BeginningsAssumption
  <2>2. /\ pc \in [Proc -> Label] /\ arg \in [Proc -> Shmid]
        /\ idx \in [Proc -> Nat] /\ rd \in [Proc -> Int]
        /\ undone \in [Proc -> SUBSET Undone]
    BY <1>1 DEF Label
  <2>3. /\ sysVid \in [Proc -> [SvIndex -> Segment \cup {-1}]]
        /\ ptr \in [Proc -> [Shmid -> Segment \X Nat]]
    BY <1>1
  <2>4. failed \in BOOLEAN /\ drift \subseteq Shmid
    OBVIOUS
  <2>. QED
    BY <2>1, <2>2, <2>3, <2>4 DEF Types
<1>3. LockInv /\ ResetInv
  BY <1>1 DEF LockInv, ResetInv, Locked
<1>4. KeyInv
  BY <1>1, MaxSvAssumption DEF KeyInv
<1>5. TableInv
  BY <1>1 DEF TableInv, OffsetInv, PlaceInv, CallInv
<1>6. MemoryInv
  BY <1>1 DEF MemoryInv, UserInv, Held
<1>7. KernelInv /\ FinalizeInv
  BY <1>1 DEF KernelInv, FinalizeInv
<1>. QED
  BY <1>2, <1>3, <1>4, <1>5, <1>6, <1>7 DEF Inv

\* Another life changes no key to one of this life's segments.
LEMMA OtherLifeStep ==
    ASSUME Inv, NEW k \in SvIndex, OtherLife(k)
    PROVE  Inv'
<1>1. /\ UNCHANGED <<shared, cnt, life, pc, local, history>> /\ life # "alone"
      /\ kernel' = [kernel EXCEPT ![k] = IF @ = "none" THEN "theirs" ELSE "none"]
      /\ Types
  BY DEF OtherLife, Inv
<1>2. /\ kernel' \in [Key -> {"none", "ours", "theirs"}]
      /\ \A j \in Key : kernel'[j] = "ours" => kernel[j] = "ours"
  BY <1>1 DEF Types
<1> USE DEF shared, local, history
<1>3. Types' /\ LockInv' /\ ResetInv' /\ KeyInv'
  BY <1>1, <1>2 DEF Inv, Types, LockInv, ResetInv, KeyInv, Stuck, Created
<1>4. OffsetInv' /\ PlaceInv' /\ CallInv'
  BY <1>1 DEF Inv, TableInv, OffsetInv, PlaceInv, CallInv, Created, Placed, Inside,
              Apart, Stuck, shm_size
<1>5. MemoryInv'
  BY <1>1 DEF Inv, MemoryInv, UserInv, Rightly, Created, Connecteds, Held
<1>6. KernelInv' /\ FinalizeInv'
  BY <1>1, <1>2 DEF Inv, KernelInv, FinalizeInv, NewKey
<1>. QED
  BY <1>3, <1>4, <1>5, <1>6 DEF Inv, TableInv

LEMMA InvStep == Inv /\ [Next]_vars => Inv'
<1> SUFFICES ASSUME Inv, [Next]_vars PROVE Inv'
  OBVIOUS
<1>1. CASE \E p \in Proc : Acts(p)
  BY <1>1, TypesStep, LockInvStep, ResetInvStep, KeyInvStep, TableInvStep,
     MemoryInvStep, KernelInvStep, FinalizeInvStep DEF Inv
<1>2. CASE \E k \in SvIndex : OtherLife(k)
  BY <1>2, OtherLifeStep
<1>3. CASE UNCHANGED vars
  <2> USE <1>3 DEF vars, shared, system, local, history
  <2>1. Types' /\ LockInv' /\ ResetInv' /\ KeyInv'
    BY DEF Inv, Types, LockInv, ResetInv, KeyInv, Stuck, Created
  <2>2. OffsetInv' /\ PlaceInv' /\ CallInv'
    BY DEF Inv, TableInv, OffsetInv, PlaceInv, CallInv, Created, Placed, Inside,
           Apart, Stuck, shm_size
  <2>3. MemoryInv' /\ KernelInv' /\ FinalizeInv'
    BY DEF Inv, MemoryInv, UserInv, Rightly, KernelInv, FinalizeInv, NewKey, Created,
           Connecteds, Held
  <2>. QED
    BY <2>1, <2>2, <2>3 DEF Inv, TableInv
<1>. QED
  BY <1>1, <1>2, <1>3 DEF Next, Acts

LEMMA InvHolds == Spec => []Inv
BY InvInit, InvStep, PTL DEF Spec

\* Every variable keeps its type, the keys fit the ids of ftok, the table of
\* System V segments its MAX_SVSHMSEG places, and the unused part of a segment, an
\* unsigned difference in shmman_create_shmseg, does not wrap.
THEOREM TypeCorrect == Spec => []TypeOK
<1>1. Inv => TypeOK
  <2> SUFFICES ASSUME Inv PROVE TypeOK
    OBVIOUS
  <2>1. key_cnt \in 0 .. MAX_SVSHMSEG + 1 /\ Len(sysVtable) <= MAX_SVSHMSEG
    BY TableIs, MaxSvAssumption DEF Inv, Types, ResetInv, KeyInv
  <2>2. \A v \in DOMAIN sysVtable :
           /\ sysVtable[v] \in [sysVkey : Key, size : Nat, offset : Nat]
           /\ sysVtable[v].offset <= sysVtable[v].size
    BY TableIs DEF Inv, TableInv, OffsetInv, SvEntry
  <2>3. ASSUME NEW s \in Created
        PROVE  shmtable[s] \in [sysVtable_idx : DOMAIN sysVtable, offset : Nat, size : Nat]
    BY DEF Inv, TableInv, PlaceInv, Placed, Created, Types, Entry
  <2>4. \A p \in Proc, s \in Shmid : ptr[p][s] \in {NULL} \cup ((Key \cup {Foreign}) \X Nat)
    BY DEF Inv, Types, Segment
  <2>5. /\ sysVid \in [Proc -> [SvIndex -> Key \cup {Foreign, -1}]]
        /\ undone \in [Proc -> SUBSET {"nolock", "freed", "halfway"}]
    <3>1. Segment \cup {-1} = Key \cup {Foreign, -1}
      BY DEF Segment
    <3>. QED
      BY <3>1 DEF Inv, Types, Undone
  <2>. QED
    BY <2>1, <2>2, <2>3, <2>4, <2>5 DEF Inv, Types, TypeOK, Created
<1>. QED
  BY <1>1, InvHolds, PTL

\* However the processes' creates interleave, and whichever of them fail or die,
\* the segments of different objects do not overlap, begin at multiples of 8 and
\* lie within a System V segment that has the size the table says.
THEOREM ObjectsAreApart == Spec => []SegmentsDisjoint
<1>1. Inv => SegmentsDisjoint
  BY DEF Inv, TableInv, PlaceInv, SegmentsDisjoint
<1>. QED
  BY <1>1, InvHolds, PTL

\* shmman_get_shmseg gives all users of an object the same memory, the place
\* shmman_create_shmseg entered in the table, for as long as they use it, whatever
\* is finalized under them; but for a segment of another life under its key.
THEOREM UsersShareMemory == Spec => []SameMemory
<1>1. Inv => SameMemory
  <2> SUFFICES ASSUME Inv, NEW p \in Connecteds, NEW s \in Held(p)
               PROVE  /\ s \in Created
                      /\ LET e == shmtable[s] IN
                         LET segment == ptr[p][s][1] IN
                            /\ ptr[p][s] = <<segment, e.offset>>
                            /\ \/ segment = sysVtable[e.sysVtable_idx].sysVkey
                               \/ segment = Foreign /\ life # "alone"
                            /\ "halfway" \notin undone[p] =>
                                  sysVid[p][e.sysVtable_idx] = segment
    BY DEF SameMemory
  <2>1. UserInv(p)
    BY DEF Inv, MemoryInv, Connecteds
  <2>2. s \in Created
    BY <2>1 DEF UserInv
  <2>3. sysVtable[shmtable[s].sysVtable_idx].sysVkey = shmtable[s].sysVtable_idx
    BY <2>2, PlaceIs
  <2>. QED
    BY <2>1, <2>2, <2>3 DEF UserInv, Rightly
<1>. QED
  BY <1>1, InvHolds, PTL

\* When the loop of shmman_finalize ends, which looks the segments up by the keys
\* in the table and takes no lock, no key names a segment of this life, whatever
\* calls of others it overlapped; but for the one a create has made and not yet
\* entered, or the one of a create that failed or died there.
THEOREM FinalizeIsThorough == Spec => FinalizeLeavesNothing
<1>1. Inv /\ [Next]_vars =>
         [(\E p \in Proc : FinalizeEnd(p))
             => \A k \in Key :
                   kernel[k] = "ours"
                      => failed \/ \E q \in Proc : pc[q] = "made" /\ k = NewKey]_vars
  <2> SUFFICES ASSUME Inv, NEW p \in Proc, FinalizeEnd(p), NEW k \in Key,
                      kernel[k] = "ours", k \in DOMAIN sysVtable
               PROVE  FALSE
    BY DEF Inv, KernelInv
  <2>1. k < idx[p] /\ pc[p] = "finalize"
    BY TableIs DEF FinalizeEnd, Entries, Inv, Types
  <2>. QED
    BY <2>1 DEF Inv, FinalizeInv
<1>. QED
  BY <1>1, InvHolds, PTL DEF Spec, FinalizeLeavesNothing

-----------------------------------------------------------------------------
(***************************************************************************)
(* The count of an object's users                                          *)
(***************************************************************************)

Users(s) ==
    {p \in Connecteds : s \in Held(p) \/ (pc[p] = "down" /\ arg[p] = s)}

CountInv ==
    \A s \in Created \ drift : cnt[s] = Cardinality(Users(s))

\* A process drops its local tables, and what it is the user of has drifted.
Leaves(p) ==
    /\ NoTables(p) /\ UNCHANGED cnt /\ Created' = Created
    /\ pc'[p] # "down"
    /\ drift \cup Held(p) \subseteq drift'
    /\ pc[p] = "down" => arg[p] \in drift'

\* The steps that make or take away a user, or change a count.
LEMMA WhoChangesUsers ==
    ASSUME Inv, NEW p \in Proc, Acts(p)
    PROVE  \/ CreateEntry(p) \/ CountUp(p) \/ Release(p) \/ CountDown(p)
           \/ InitializeTables(p)
           \/ Leaves(p)
           \/ /\ UNCHANGED <<ptr, cnt, drift>> /\ Created' = Created
              /\ p \in Connecteds' <=> p \in Connecteds
              /\ pc[p] # "down" /\ pc'[p] # "down"
<1> USE DEF Inv, Types, Connecteds, Created, shared, local, history, Goto, Return
<1>1. CASE GetCall(p) \/ DisconnectFails(p) \/ Finalize(p)
  BY <1>1 DEF GetCall, DisconnectFails, Finalize
<1>2. CASE InitializeLock(p) \/ CreateLock(p) \/ CreateExists(p)
  BY <1>2 DEF InitializeLock, CreateLock, CreateExists
<1>3. CASE CreateFits(p) \/ CreateRefused(p) \/ CreateFails(p)
  BY <1>3 DEF CreateFits, CreateRefused, CreateFails, CreatingNew, Creating
<1>4. CASE CreateSysV(p) \/ CreateNew(p)
  BY <1>4 DEF CreateSysV, CreateNew, CreatingNew, Creating
<1>5. CASE GetAgain(p) \/ Attach(p) \/ AttachFails(p)
  BY <1>5 DEF GetAgain, Attach, AttachFails
<1>6. CASE FinalizeFind(p) \/ FinalizeRemove(p) \/ FinalizeFails(p)
  BY <1>6 DEF FinalizeFind, FinalizeRemove, FinalizeFails
<1>7. CASE FinalizeSelf(p) \/ FinalizeSelfFails(p)
  BY <1>7 DEF FinalizeSelf, FinalizeSelfFails
<1>8. CASE Initialize(p) \/ Disconnect(p) \/ FinalizeEnd(p)
  BY <1>8 DEF Initialize, Disconnect, FinalizeEnd, Leaves
<1>9. CASE Die(p)
  <2>1. UNCHANGED <<shmtable, cnt>> /\ Created' = Created /\ NoTables(p) /\ pc'[p] = "dead"
    BY <1>9 DEF Die, Dies
  <2>2. /\ drift \cup Held(p) \subseteq drift'
        /\ pc[p] = "down" => arg[p] \in drift'
    BY <1>9 DEF Die, Dies
  <2>. QED
    BY <2>1, <2>2 DEF Leaves
<1>. QED
  BY <1>1, <1>2, <1>3, <1>4, <1>5, <1>6, <1>7, <1>8, <1>9 DEF Acts, Call, Step

\* The other users of an object are the same as before.
LEMMA OtherUsers ==
    ASSUME Inv, NEW p \in Proc, Acts(p), NEW s \in Shmid
    PROVE  /\ Users(s) \subseteq Proc /\ Users(s)' \subseteq Proc
           /\ IsFiniteSet(Users(s))
           /\ \A q \in Proc : q # p => (q \in Users(s)' <=> q \in Users(s))
<1>1. Users(s) \subseteq Proc /\ Users(s)' \subseteq Proc
  BY DEF Users, Connecteds
<1>2. IsFiniteSet(Users(s))
  BY <1>1, ProcAssumption, FS_Subset
<1>3. \A q \in Proc : q # p => (q \in Users(s)' <=> q \in Users(s))
  BY OthersStay DEF Inv, Users, Connecteds, Held
<1>. QED
  BY <1>1, <1>2, <1>3

\* Whether the process is a user itself.
LEMMA SameUsers ==
    ASSUME Inv, NEW p \in Proc, Acts(p), NEW s \in Shmid,
           p \in Users(s)' <=> p \in Users(s)
    PROVE  Users(s)' = Users(s)
BY OtherUsers

LEMMA CountStep ==
    ASSUME Inv, CountInv, NEW p \in Proc, Acts(p)
    PROVE  CountInv'
<1>0. Types /\ \A s \in Created : s \in Shmid
  BY DEF Inv, Created
<1> SUFFICES ASSUME NEW s \in Shmid, s \in Created', s \notin drift'
             PROVE  cnt'[s] = Cardinality(Users(s)')
  BY DEF CountInv, Created
<1>1. s \in Created /\ s \notin drift => cnt[s] = Cardinality(Users(s))
  BY DEF CountInv
<1>2. CASE CreateEntry(p)
  <2>0. /\ drift \subseteq drift' /\ cnt' = [cnt EXCEPT ![arg[p]] = 0]
        /\ pc[p] = "entry" /\ pc'[p] # "down" /\ arg[p] \in Shmid
        /\ \/ NoTables(p) /\ pc'[p] = "dead" /\ Held(p) \subseteq drift'
           \/ ptr' = ptr /\ pc'[p] = "attach"
    BY <1>0, <1>2 DEF CreateEntry, Dies, local, history, Goto, Types
  <2>1. CASE s = arg[p]
    <3>1. s \notin Created
      BY <1>2, <2>1, EntryIs
    <3>2. Users(s) = {}
      <4>1. \A q \in Proc : s \notin Held(q)
        BY <3>1 DEF Inv, MemoryInv, UserInv
      <4>2. \A q \in Proc : pc[q] = "down" => arg[q] # s
        BY <3>1 DEF Inv, TableInv, CallInv
      <4>. QED
        BY <4>1, <4>2 DEF Users, Connecteds
    <3>3. p \notin Users(s)'
      <4>1. ptr'[p][s] = NULL
        <5>1. ptr[p][s] = NULL
          BY <2>0, <2>1, <3>2 DEF Users, Held, Connecteds
        <5>. QED
          BY <1>0, <2>0, <5>1 DEF NoTables, Types
      <4>. QED
        BY <2>0, <4>1 DEF Users, Held
    <3>4. Users(s)' = {}
      BY <3>2, <3>3, OtherUsers
    <3>. QED
      BY <1>0, <2>0, <2>1, <3>4, FS_EmptySet DEF Types
  <2>2. CASE s # arg[p]
    <3>1. s \in Created /\ cnt'[s] = cnt[s]
      <4>1. Created' = Created \cup {arg[p]}
        BY <1>2, EntryIs
      <4>2. cnt' = [cnt EXCEPT ![arg[p]] = 0] /\ cnt \in [Shmid -> Int]
        BY <1>0, <2>0 DEF Types
      <4>. QED
        BY <2>2, <4>1, <4>2
    <3>2. p \in Users(s)' <=> p \in Users(s)
      <4>1. CASE ptr' = ptr /\ pc'[p] = "attach"
        BY <2>0, <4>1 DEF Users, Held, Connecteds
      <4>2. CASE pc'[p] = "dead" /\ Held(p) \subseteq drift'
        BY <2>0, <4>2 DEF Users, Connecteds
      <4>. QED
        BY <2>0, <4>1, <4>2
    <3>. QED
      BY <1>1, <2>0, <3>1, <3>2, SameUsers
  <2>. QED
    BY <2>1, <2>2
<1>3. CASE CountUp(p)
  <2>0. /\ shmtable' = shmtable /\ Created' = Created /\ pc[p] = "up" /\ pc'[p] = "idle"
        /\ arg[p] \in Shmid /\ WriteCnt(p, rd[p] + 1) /\ arg[p] \in Created
        /\ p \in Connecteds /\ p \in Connecteds' /\ UserInv(p)
    BY <1>0, <1>3 DEF CountUp, Created, shared, Return, Goto, Types, Connecteds,
                      Inv, TableInv, CallInv, MemoryInv
  <2>1. /\ ptr'[p][arg[p]] # NULL
        /\ \A x \in Shmid : x # arg[p] => ptr'[p][x] = ptr[p][x]
    <3>. PICK w : w = shmtable[arg[p]].sysVtable_idx
      OBVIOUS
    <3>1. w \in SvIndex /\ w > 0
      BY <2>0, PlaceIs
    <3>2. sysVid[p][w] # -1 /\ Rightly(w, sysVid[p][w])
      BY <2>0, <3>1 DEF UserInv
    <3>3. sysVid[p][w] # 0
      BY <3>1, <3>2, FtokIdsAssumption, MaxSvAssumption DEF Rightly, Foreign
    <3>4. ptr' = [ptr EXCEPT ![p][arg[p]] = <<sysVid[p][w], shmtable[arg[p]].offset>>]
      BY <1>3 DEF CountUp
    <3>. QED
      BY <1>0, <2>0, <3>3, <3>4 DEF Types, NULL
  <2>2. CASE s = arg[p]
    <3>1. s \notin drift /\ rd[p] = cnt[s] /\ cnt'[s] = rd[p] + 1
      BY <1>0, <2>0, <2>2 DEF WriteCnt, Types
    <3>2. p \notin Users(s) /\ p \in Users(s)'
      BY <2>0, <2>1, <2>2 DEF Users, Held, UserInv
    <3>3. Users(s)' = Users(s) \cup {p}
      BY <3>2, OtherUsers
    <3>4. Cardinality(Users(s)') = Cardinality(Users(s)) + 1
      BY <3>2, <3>3, OtherUsers, FS_AddElement
    <3>. QED
      BY <1>1, <2>0, <2>2, <3>1, <3>4
  <2>3. CASE s # arg[p]
    <3>1. s \notin drift /\ cnt'[s] = cnt[s]
      BY <1>0, <2>0, <2>3 DEF WriteCnt, Types
    <3>2. p \in Users(s)' <=> p \in Users(s)
      BY <2>0, <2>1, <2>3 DEF Users, Held
    <3>. QED
      BY <1>1, <2>0, <3>1, <3>2, SameUsers
  <2>. QED
    BY <2>2, <2>3
<1>4. CASE Release(p)
  <2>1. PICK x \in Shmid :
           /\ ptr[p][x] # NULL /\ ptr' = [ptr EXCEPT ![p][x] = NULL]
           /\ arg' = [arg EXCEPT ![p] = x]
    BY <1>4 DEF Release, Held
  <2>2. /\ Created' = Created /\ cnt' = cnt /\ drift' = drift /\ pc[p] = "idle"
        /\ pc'[p] = "down" /\ arg'[p] = x
        /\ \A y \in Shmid : ptr'[p][y] = IF y = x THEN NULL ELSE ptr[p][y]
    BY SMTT(30), <1>0, <1>4, <2>1 DEF Release, Created, shared, history, Goto, Types
  <2>3. p \in Users(s)' <=> p \in Users(s)
    BY <2>1, <2>2 DEF Users, Held, Connecteds
  <2>. QED
    BY <1>1, <2>2, <2>3, SameUsers
<1>5. CASE CountDown(p)
  <2>0. /\ Created' = Created /\ pc[p] = "down" /\ pc'[p] = "idle" /\ ptr' = ptr
        /\ arg[p] \in Shmid /\ WriteCnt(p, rd[p] - 1)
        /\ p \in Connecteds /\ p \in Connecteds' /\ arg[p] \notin Held(p)
    BY <1>0, <1>5 DEF CountDown, Created, shared, Return, Goto, Types, Connecteds,
                      Inv, MemoryInv, UserInv
  <2>1. CASE s = arg[p]
    <3>1. s \notin drift /\ rd[p] = cnt[s] /\ cnt'[s] = rd[p] - 1
      BY <1>0, <2>0, <2>1 DEF WriteCnt, Types
    <3>2. p \in Users(s) /\ p \notin Users(s)'
      BY <2>0, <2>1 DEF Users, Held
    <3>3. Users(s)' = Users(s) \ {p}
      BY <3>2, OtherUsers
    <3>4. Cardinality(Users(s)') = Cardinality(Users(s)) - 1
      BY <3>2, <3>3, OtherUsers, FS_RemoveElement
    <3>. QED
      BY <1>1, <2>0, <3>1, <3>4
  <2>2. CASE s # arg[p]
    <3>1. s \notin drift /\ cnt'[s] = cnt[s]
      BY <1>0, <2>0, <2>2 DEF WriteCnt, Types
    <3>2. p \in Users(s)' <=> p \in Users(s)
      BY <2>0, <2>2 DEF Users, Held
    <3>. QED
      BY <1>1, <2>0, <3>1, <3>2, SameUsers
  <2>. QED
    BY <2>1, <2>2
<1>6. CASE Leaves(p)
  <2>1. p \notin Users(s)
    BY <1>6 DEF Leaves, Users
  <2>2. p \notin Users(s)'
    BY <1>0, <1>6 DEF Leaves, NoTables, Users, Held, Types
  <2>. QED
    BY <1>1, <1>6, <2>1, <2>2, SameUsers DEF Leaves
<1>7. CASE InitializeTables(p)
  <2>1. initflag # 0
    BY <1>7 DEF InitializeTables, Created
  <2>2. /\ Created' = Created /\ cnt' = cnt /\ drift' = drift /\ ptr' = ptr
        /\ pc[p] = "init" /\ pc'[p] = "idle"
    BY <1>0, <1>7, <2>1 DEF InitializeTables, Return, Goto, history, Created, Types
  <2>3. Held(p) = {} /\ Held(p)' = {}
    BY <2>2 DEF Inv, MemoryInv, UserInv, Connecteds, Held
  <2>4. p \in Users(s)' <=> p \in Users(s)
    BY <2>2, <2>3 DEF Users
  <2>. QED
    BY <1>1, <2>2, <2>4, SameUsers
<1>8. CASE /\ UNCHANGED <<ptr, cnt, drift>> /\ Created' = Created
           /\ p \in Connecteds' <=> p \in Connecteds
           /\ pc[p] # "down" /\ pc'[p] # "down"
  <2>1. p \in Users(s)' <=> p \in Users(s)
    BY <1>8 DEF Users, Held
  <2>. QED
    BY <1>1, <1>8, <2>1, SameUsers
<1>. QED
  BY <1>2, <1>3, <1>4, <1>5, <1>6, <1>7, <1>8, WhoChangesUsers

\* An object's count, which shmman_get_shmseg and shmman_release_shmseg change
\* without the lock, is the number of its users as long as no two updates of it
\* overlapped and nobody left without a release.
THEOREM CountIsRight == Spec => []CountIsUsers
<1>1. Init => CountInv
  BY DEF Init, Created, CountInv
<1>2. CountInv /\ Inv /\ [Next]_vars => CountInv'
  <2> SUFFICES ASSUME CountInv, Inv, [Next]_vars PROVE CountInv'
    OBVIOUS
  <2>1. CASE \E p \in Proc : Acts(p)
    BY <2>1, CountStep
  <2>2. CASE (\E k \in SvIndex : OtherLife(k)) \/ UNCHANGED vars
    <3>1. UNCHANGED <<shmtable, cnt, pc, arg, ptr, drift>>
      BY <2>2 DEF OtherLife, vars, shared, local, history
    <3>. QED
      BY <3>1 DEF CountInv, Created, Connecteds, Held, Users
  <2>. QED
    BY <2>1, <2>2 DEF Next, Acts
<1>3. CountInv => CountIsUsers
  BY DEF CountInv, CountIsUsers, Users
<1>. QED
  BY <1>1, <1>2, <1>3, InvHolds, PTL DEF Spec
=============================================================================
