# librtipc in TLA+

librtipc puts objects for inter-process communication into shared memory: a mutex, a flag, a barrier, a buffer for sensor data and four queues, most of them lock-free or wait-free.
This directory holds TLA+ models of the objects, the TLC configurations that check them on small instances, and proofs for TLAPS.
`PROJECT.json` lists the runs, the properties of each, and for every definition the source lines it stands for.

Paths below are relative to the repository's `src/` and `system/linux/src/`.

## Inventory

Every object is a piece of shared memory and a descriptor in each process.
All processes call the same functions on the same words; nothing else connects them.

| Component | State | Operations | What is hard | What makes it correct |
|---|---|---|---|---|
| `spscq.c` | `head`, `next_slot`, slots | enqueue, dequeue | producer and consumer copy without a lock; full and empty differ by one slot | FIFO of `numSlots - 1` whole messages |
| `barrier.c` | `cnt`, `fallen` | wait | reuse: fast users are in the next round while slow ones leave the last | nobody passes before all arrive, nobody is left behind |
| `sensorbuffer.c` | `last_written`, flags `r` and `v` and the data of each buffer | update (one writer), read (one reader) | the writer overwrites what is being read; store buffers; a writer that dies | a read returns a whole and recent sample |
| `lfmpscq.c` | linked list of slots, a shared index for each user, the consumer's retire list | enqueue (many), dequeue (one) | slot reuse (ABA), a tail that lags, producers that stop half way | FIFO, no slot has two owners, none is lost |
| `wfmpscq.c` | a ring for each writer, the id counter, `lastqueue` | enqueue (many), dequeue (one) with two strategies | the scan of the rings is not atomic; ids come round, and return through an `int` | FIFO of each writer; oldest first, or each ring in turn; -1 means empty |
| `mpmcq.c` | as `lfmpscq.c`, with two shared indices and a retire list for each user | enqueue, dequeue (many each) | as above, with competing consumers | FIFO, no slot reused while protected |
| `mutex.c`, `flag.c` | one word | lock, trylock, unlock; set, reset, getval, spin | an unlock by a stranger; a pulse nobody sees | mutual exclusion |
| `*_get`, `*_release` | `lock` and `init` at the start of the memory of an object | get, release | concurrent first users; a user that dies inside | initialized once, before use |
| `shmman.c` | a lock, the tables of segments and of System V segments in shared memory, the tables of what is attached in each process | initialize, create, get, release, disconnect, finalize | several processes creating, finalize under users, failing system calls, deaths, stale local tables, counts changed without the lock | segments do not overlap, all users see the same memory, finalize leaves nothing behind |
| `arch/*/src/atomic.c` | the processors' reservations of a word (ARM) | compare-and-swap, fetch-and-add of 8 to 64 bits | the ARM retry loops; halves, signs and carries; the builds in which nothing is added | each is one atomic step, and somebody gets on |
| `hwfunctions.c`, `osfunctions.c`, `rtipc.c` | none | copies, barriers, system calls | ordering of copies | |
| `demo/`, `benchmark/`, `Makefile` | | use and build the library | | |

The objects call `shmman_get_shmseg` for their memory, `hwfunctions_memcpy` for their data and `hwfunctions_membarrier` and the `atomic_*` functions for their protocol. They do not call each other.

The hazards that follow from this are in `PROJECT.json`, each at its line, with the properties that guard against it or a note on why none does. A hazard that the code simply meets, so that a property has to except it, has no property: deaths with an object's lock, unlocks by a stranger, lost counts, late stores in a sensor buffer, overtaken ids, the inexact operations of ARM.

## Modules

| Module | Models | Promise | Proofs |
|---|---|---|---|
| `Spscq` | `spscq.c` | `BoundedFifo` | `SpscqProofs` |
| `Barrier` | `barrier_wait` | `CyclicBarrier` | `ObjectsProofs` |
| `Objects`, with `Barrier` | `mutex.c`, `flag.c`, `barrier.c`, the get protocol of every object | invariants, action properties, and `CyclicBarrier` still | `ObjectsProofs` |
| `Sensorbuffer` | `sensorbuffer.c` | invariants | `SensorbufferProofs` |
| `Lfmpscq` | `lfmpscq.c` | `LinkedFifo`, until a dequeue overtakes `tail` | `LfmpscqProofs` |
| `Mpmcq` | `mpmcq.c` | `LinkedFifo`, with every user both producer and consumer | `MpmcqProofs` |
| `Wfmpscq` | `wfmpscq.c`, `atomic_faa64u` | `BoundedFifo` for each writer, and invariants | `WfmpscqProofs` |
| `Shmman` | `shmman.c` | invariants | `ShmmanProofs` |
| `Atomics` | both `atomic.c`, the x86 and the ARM one | `AtomicWord` | `AtomicsProofs` |

`BoundedFifo`, `LinkedFifo`, `CyclicBarrier` and `AtomicWord` are abstract: they know a sequence of messages, the sets of users before and behind the gate, or a word that each call reads and writes in one step, and nothing of how it is done.
The module of a component instantiates its abstract one with a refinement mapping, so that a step of the code is a step of the abstract machine or leaves it alone.
`MCSpscq`, `MCObjects`, `MCAtomics`, `MCLfmpscq`, `MCMpmcq` and `MCShmman` give TLC the constants that a configuration file cannot express; the other configurations run the component's module itself.

### How a module corresponds to the code

One step is one access to a location that another process writes.
What only one process touches is done in the step next to it, and so is what is protected by a lock or not yet (or no longer) reachable by others.
A variable has the name of the field or local it stands for; the place in a call is a label (`enq`, `deq`, `pc`, `wpc`, `rpc`).
An early return is an action of its own (`EnqueueFull`, `DequeueEmpty`, `CreateRefused`).
Variables marked *history* are not in the code; no guard reads them.

- **Spscq.** A message is a sequence of words and `hwfunctions_memcpy` copies one a step, so that a torn message is possible. The full test and the empty test are each one step, at the load of the index the other side writes.
- **Barrier.** `Arrive` is the fetch-and-add of `cnt`; `fallen` is the gate. The last user to leave sets it back in a step after its fetch-and-add.
- **Objects.** The life of one object, which is a mutex, a flag or a barrier: a user gets it in the steps of `*_get` (take the lock, test `init`, clear, mark, unlock), uses it, releases it and may get it again. `at` is where a user is; the users of a barrier that have it call `Barrier`'s `Wait`. A release leaves the memory as it is, so the next get finds `init` set. A user that dies does so with the object's lock or with the mutex; a death elsewhere is a user that calls nothing more. `Overrun` is the `sensorbuffer_get` of the object in front of this one, whose loop clears two words too far.
- **Atomics.** One word and the processors that call operations on it. `exclusive` is the set of processors with a reservation (external: the exclusive monitor); a store by anybody empties it, and it may be lost for no reason. The four `type`s stand for the signed and the unsigned 8 and 16 bit types, the 32 bit ones and the 64 bit ones, whose halves are kept apart by `Hi` and `Lo`. A compiler may fill a register above a narrow negative argument with zeros or with its sign, at the `-O0` of the `Makefile` or any other level; both are builds. The carry that `adc` finds is either.
- **Sensorbuffer.** A sample is the number of its update; a buffer of different words is torn. `pending` is the reader's store buffer: with `StoreDepth = 0` the machine is sequentially consistent, otherwise the store `r = 1` may reach memory after the load of `v`, as x86 allows. The writer may stop for ever or die and be restarted between any two of its steps.
- **Lfmpscq.** A slot has `used`, `next` and `data`. `getFreeSlot` tests one slot a step, `RetireNode` compares one shared index a step. `overtaken` records that a dequeue began while `tail` still named the dummy node.
- **Mpmcq.** The same list; `loc` has the locals of the call a user is in, and `first` and `second` are the nodes its two shared indices protect. A dequeue has taken its message when it moves `head` and copies it out later. `wasEmpty` remembers whether the queue was empty when the dequeue looked.
- **Wfmpscq.** A message is the number of the enqueue that drew its id, so that age and id can differ. `FaaAdds` says which `atomic_faa64u` the build has. `ToInt` is the conversion of `wfmpscq.c:172`, where the unsigned id is returned as an `int`: the upper half of the ids is negative and the last id is -1. `atStart` and `passed` remember what was there when a scan began. The abstract FIFO of a ring knows the message that is taken and not the value that `wfmpscq_dequeue` returns (its `takeRet` is always 0); the latter is the matter of `RefusedIfEmpty`.
- **Shmman.** Any process may call any function at any time it is not in one, finalize included, as the demos and benchmarks do (`demo/shmman-test/shmman-test.c:152`, `benchmark/wfmpscq-latency2/wfmpscq-latency2.c:235`), and may die at every step.
  - `lock` is `*shared_lock`. A create that makes a System V segment takes three steps under it: `CreateSysV` (shmget and shmat), `CreateNew` (its entry) and `CreateEntry` (the object's); a process may stop or die between them. `CreateEntry` contains the undefined write of `shmman.c:302`, of which the process dies or which hits what nobody looks at; `NoStrayWrite` is a property of the state in front of it.
  - `kernel` says which segment each key names (external: `shmget`, `shmat`, `shmctl`). Every System V call that can fail does so in an action of its own: `CreateFails`, `AttachFails`, `DisconnectFails`, `FinalizeFails`, `FinalizeSelfFails`.
  - Finalize visits the table entry by entry, and looks for a segment (`FinalizeFind`) in another step than it removes it (`FinalizeRemove`), so that creates and other finalizes come in between.
  - `undone` is what a failed finalize and a disconnect leave of an initialize. After a failed finalize a process may release, disconnect, finalize again or initialize, but a get goes through the cleared pointer to the lock and is a death; after a disconnect it may finalize or initialize; after a half-done disconnect it may do everything.
  - The module follows one life of the manager's own segment, until finalize has taken its name and everybody has left. A process that initializes after that begins another life, with a table of its own but with the same keys from 1 on: `OtherLife` is what it does to the keys. A life begins either `"alone"` or `"crowded"`, with segments and users of others about.

## Runs

| Run | Instance | Shows |
|---|---|---|
| `spscq` | 3 slots of 2 words | the ring is a FIFO of whole messages; both sides get on |
| `objects` | 4 users, one object of any of the three kinds, any number of gets, calls and releases | the object is initialized once, before use; one owner of the mutex; the gate opens for all and only for all; waits end |
| `objects_overrun` | 2 users of a mutex 4 bytes behind a sensor buffer | **violated:** the object's lock is cleared under the user that has it and the object is initialized twice |
| `atomics` | 2 processors, 4 builds, 4 types of word | every call is one atomic step, but for those named; calls return |
| `sensor` | 2 buffers of 2 words, store buffer of 1, 4 updates | what a read returns is whole, if its flag reached memory in time, and fresh; reads return |
| `lfmpscq` | 2 producers, 4 slots, 4 calls | ownership of slots, lock-freedom; the FIFO unless `tail` is overtaken |
| `lfmpscq_lost` | the same | **violated:** a dequeue overtakes `tail` and a message is lost |
| `mpmcq` | 2 users, 3 slots, 3 enqueues | protection, ownership of slots, the FIFO, empty only if empty, lock-freedom |
| `wfmpscq` | 3 writers, 3 slots each, 4 ids and 4 messages, both strategies | each ring is a FIFO; the strategies keep their word; -1 comes with a message only for the last id, in turn |
| `wfmpscq_ids` | 2 writers, 3 slots, 4 messages, x86 without `__AMD64__` | **violated:** all ids are 0 and the oldest message is not first |
| `shmman` | 2 processes, 2 objects of different size, 1 System V segment, finalize, failures and deaths at any time | disjoint segments, one memory for all users, counts, the lock comes back, what finalize leaves behind |
| `shmman_stray` | the same | **violated:** a creator writes through a pointer that was never set |

The violated properties say what a comment or document of the repository says; `findings` in `PROJECT.json` quotes it.

### Bounds

- `NumSlots` is the least with which a ring is empty, part full, full and wrapped around. A linked list of four slots with two producers has a slot to spare and can use it up.
- Two words are enough to tear a message, two buffers to catch up with the reader.
- Two producers contend for one node; a third would only find the node taken in the same way. Four barrier users have three in one round while one is in another; four users of a mutex or a flag are more than the two that can meet in a get.
- In the queue with many consumers three enqueues into three slots use a slot again while the other user still holds its old index: without the second look at `head` or at `tail` the run fails.
- A producer's messages are all alike in the two linked lists; those of different producers are not.
- Three writers of a wait-free queue are needed for a turn that is neither the next nor the last. Their four messages fill one ring and leave some for the others.
- `MaxCalls` and `MaxUpdates` bound the calls; a bounded producer has simply stopped calling, which the code allows. The spsc queue, the small objects and the memory manager run without such a bound. `MaxCnt` stops gets of an object whose count has drifted out of `0 .. MaxCnt`.
- `PageSize = 16` and a table of one System V segment make both objects fit into it or only one, according to the order of their creation, and let the table be full. `FtokIds` is 256 in the code.
- `MAXID = 3` in the run `wfmpscq` stands for 2^32 - 1: of the four ids 0 and 1 stay what they are as an `int`, 2 is negative and 3 is -1. The fourth message carries it, one more than `wfmpscq.h:44` allows the strategy by id, whose properties speak of the first three (`WithinIds`); in turn there is no such limit and the properties speak of all.
- `Beginnings` is `{"alone"}` in the runs. A life that begins among others', with keys that come and go under it, is in the theorems only: the state space does not fit into a run. So is a half-done disconnect that has detached something: with one System V segment in the table the first `shmdt` that fails is the only one.
- `Atomics` has bytes of one bit and registers of two. A byte is then negative or not, a register can hold more than a byte, and the 64 bit arguments 1 and 6 differ in both halves and carry from the lower to the upper. `MaxLost` is one reservation lost for no reason: without a bound an adversary could hold up every loop.
- `Padding` is what `shmman.c:212` leaves behind an object whose size is 0 (8 bytes) or 4 (4 bytes) modulo 8.

`CHECK_DEADLOCK FALSE` is set for `Shmman` and `Objects` only: the lock that a failed or dead user keeps stops every process, and all processes may have died or left.
The other modules have a caller that can always call.

### Fairness

Fairness is only what a scheduler gives: a process that is inside a call takes another step.

- `Spscq`: weak fairness of the producer and of the consumer, who retry as the benchmarks do.
- `Barrier`: weak fairness of each user's `Wait`, not of its decision to call again.
- `Objects`: the same, and weak fairness of each user's steps inside a get and of the load that ends `flag_spin`; none of the caller. A spin on a lock or a mutex is won by somebody, not by everybody, so the property is that the lock comes back.
- `Atomics`: weak fairness of the processors inside a call as a group.
- `Sensorbuffer`: weak fairness of the reader and of the store buffer; none of the writer, which may stop.
- `Lfmpscq`, `Mpmcq`: weak fairness of the producers, or users, as a group. That some call returns although any process may stop is lock-freedom.
- `Shmman`: weak fairness of the steps inside a call; none of the caller, and a process may die instead of taking its step. Nothing says that a particular process wins the spin lock, so the property is that the lock comes back.
- `Wfmpscq` has no loop that waits and no liveness property.

### Memory model

All modules but `Sensorbuffer` are sequentially consistent.
For `Spscq`, `Wfmpscq` and `Barrier` an x86 store buffer adds nothing: each side writes its data before its index, and x86 keeps stores in order; a barrier or a locked instruction lies between a store and a load that depend on each other.
`Lfmpscq` and `Mpmcq` store a shared index and load `tail` or `head` with nothing in between; their behaviour with store buffers is not modelled (see the plan).
`sensorbuffer_read` stores `r` and loads `v` and `r` with no barrier. `WholeIfOrdered` therefore speaks of the reads whose store was in memory at the load of `v`: without `~late` TLC finds a torn sample that the reader takes for whole, because its load of `r` is answered by its own waiting store.
The locks of `Objects` and the words of `Atomics` are stored with nothing pending that matters: a delayed unlock only keeps others out longer.
ARM's weaker order is not modelled.

## Proofs

TLC checks one instance of each property. The theorems hold for every value of the constants that satisfies the named assumptions at the head of the modules. These say no more than the code requires: counts and sizes are numbers, positive where an array has that length; the users, or processes, are finitely many where something counts them; a message is not the mark for none; the keys of `ftok` suffice for the table of segments and `PageSize` is a multiple of 8; a type of `Atomics` has two halves and fits into a register.

| Module | Theorem | Establishes |
|---|---|---|
| `SpscqProofs` | `TypeCorrect` | `TypeOK` |
| | `SlotsNotShared` | the slot being written is never the one being read |
| | `CopiesFaithful` | the words copied so far are those of the oldest message |
| | `RingImplementsFifo` | `Spscq` implements `BoundedFifo` |
| `ObjectsProofs` | `TypeCorrect` | `TypeOK` of `Barrier` |
| | `LastOneResets` | the user that resets is alone behind the gate |
| | `WaitImplementsBarrier` | `Barrier` implements `CyclicBarrier` |
| | `ObjectInitializedOnce` | `InitializedOnce`, if the object is spared of an overrun |
| | `MutexHasOneOwner` | `MutualExclusion`, if spared |
| | `ObjectIsBarrier` | with gets, releases and deaths in between it takes only steps of `Barrier`, if spared |
| | `ObjectImplementsBarrier` | so it has what the theorems about `Barrier` say |
| `SensorbufferProofs` | `TypeCorrect` | `TypeOK` |
| | `ReadsAreWhole` | `WholeIfOrdered` |
| | `ReadsAreWholeInOrder` | with `StoreDepth = 0` every read that returns 0 is whole |
| | `ReadsAreFresh` | `FreshAtCall` |
| | `LastWrittenIsValid` | `LatestIsValid` |
| `WfmpscqProofs` | `TypeCorrect` | `TypeOK` |
| | `OldestIsTaken` | `LowestAtStart`, where `atomic_faa64u` adds |
| | `EmptyWhenRefused` | `RefusedIfEmpty`, on every build |
| | `BypassIsBounded` | `BoundedBypass` |
| | `WritersKeepOrder` | each writer's ring implements `BoundedFifo` |
| `ShmmanProofs` | `TypeCorrect` | `TypeOK` |
| | `ObjectsAreApart` | `SegmentsDisjoint` |
| | `UsersShareMemory` | `SameMemory` |
| | `FinalizeIsThorough` | `FinalizeLeavesNothing` |
| | `CountIsRight` | `CountIsUsers` |
| `AtomicsProofs` | `CallsAreAtomic` | `Atomics` implements `AtomicWord` |
| `MpmcqProofs` | `TypeCorrect` | `TypeOK` |
| | `SlotsHaveOneOwner` | `OneOwner` |
| | `HazardPointersProtect` | `ProtectedNotReused` |
| | `EmptyWasSeen` | `EmptyWasEmpty` |
| | `QueueImplementsFifo` | `Mpmcq` implements `LinkedFifo` |
| `LfmpscqProofs` | `TypeCorrect` | `TypeOK` |
| | `SlotsHaveOneOwner` | `OneOwner` |
| | `HazardPointersProtect` | `ProtectedNotReused` |
| | `QueueIsFifoUnlessOvertaken` | `Lfmpscq` implements `LinkedFifo` until a dequeue has overtaken `tail` |

Each is proved in the same way: an invariant that is inductive and implies the property, one step of the proof for each action, and for a refinement that each step of the code is a step of the abstract machine or leaves it alone. None of the properties is inductive by itself. Each of these invariants has also been checked with TLC on the instance of the component's run.

**Spscq.** `TypeOK` and the test results are not inductive for the copies: a producer that copies must know that the ring is *still* not full, and that what it has copied is still in the slot. `SlotInv` adds that a producer in its copy is not `Full` and a consumer in its copy not `Empty` (each can be undone only by the other side, which moves the index the harmless way), and that both copies agree with the slot up to the word reached. `RingImplementsFifo` then shows that publishing appends to `Contents`, advancing takes its head, and every other step leaves it alone. The lemmas about `%` at the head of the module say that an index moves by one and wraps once.

**Barrier.** `TypeOK` does not bound `cnt` inductively. `BarrierInv` says that `cnt` is the number of users that have arrived and not left, and where a user may be while the gate is up or down. The step that resets needs that all others have left, which is `ResetIsAlone`. The cardinalities need a finite `User` and nothing else.

**Objects.** `ObjectInv` says that the lock is 1 while a user is between its compare-and-swap and its store of 0, so that there is at most one (`GetIsAlone`); that this user alone changes `init`, and nobody has the object before `init` is 1 (`InitIsKnown`); and that whoever owns the mutex has set it (`MutexIsHeld`). `BarrierInv` is carried along, since the only step that touches the barrier and is not one of `Barrier` is `Clear`, which happens before anybody has the object. The theorems are about the behaviours with `[]Spared`: either the object has 8 bytes of padding in front, or no sensor buffer has been initialized there. The run `objects_overrun` shows that they fail without it.

**Sensorbuffer.** A buffer whose `v` is 1 is whole, since the writer clears `v` before its first word and sets it after its last (`WriterInv`). A reader that found `v = 1` with its `r = 1` in memory has a copy that agrees with the buffer for as long as `r` is 1: the writer clears `r` before it writes a word (`CopyInv`). Freshness is a comparison of four numbers that only grow (`FreshInv`). `ReadsAreWhole` holds for every depth of the store buffer and speaks of the reads that are not `late`; `ReadsAreWholeInOrder` says that without a store buffer there is no such read.

**Wfmpscq.** The two sides of a ring are those of `Spscq` with a writer as a parameter (`RingInv`, with `Contents` as a function of both indices). For the strategies, `HeadsStay`: what was at the head of a ring when the scan began is there until the scan is over. The scan by id then ends with a `min_id` not above any of them (`SeenById`); the scan in turn is as many steps from a ring that waits as that ring may still be passed over (`Bypass`). `OldestIsTaken` assumes that the build's `atomic_faa64u` adds, and the run `wfmpscq_ids` shows what happens when it does not; the other theorems hold of every build. None of them bounds the messages: `LowestAtStart` and the half of `RefusedIfEmpty` about ids speak of the states with no more messages than the header allows, as the counter goes on and never returns there (`IdOrder`), and what a dequeue in turn returns holds of ids that come round as well. That a -1 with a message has the id `MAXID` is `ToInt` read backwards.

**Shmman.** A process at a label that holds the lock is alone there (`LockInv`). A create that fails, or a process that dies with the lock, leaves it without an owner, and nothing changes the tables from there on (`Stuck`). The keys of `ftok` are therefore the indices of the table, and one more is counted at most, by a create between its shmget and its entry (`KeyInv`); an entry lies in the used part of its segment and apart from the others (`TableInv`); and what a process has found in the tables before it takes no lock, or after it gave it back, is still so (`MemoryInv`: `UserInv` of each process, where `Rightly` leaves room for a segment of another life). Finalize takes no lock, and nothing stops creates while it runs. What saves it is that keys are never used twice in a life: a new segment has a key above all entries of the table, which no finalize has passed, so below the loop counter of a finalize no key names a segment of this life (`FinalizeInv`), and at the end of the loop only the one counted and not entered can be left (`KernelInv`). The theorem says so of every finalize that reaches the end of its loop, also the second of two that overlap. `CountIsRight` is about the counts that are not in `drift`: an update that lost another one, or a user that left without a release, puts its object there. That nothing else falsifies a count is the theorem. An induction over the table is replaced by the least index that is not where it should be. All five hold for lives that begin `"crowded"` as well, where TLC has checked the invariant on a smaller instance than the run's.

**Atomics.** A processor that still has its reservation has in its register what is in memory, because every store takes all reservations away (`ReservationInv`). The store that succeeds is therefore the call's one step. The theorem covers all builds, every size of the types and every argument; what `Inexact` excepts takes effect in one step too, and `Left` says which.

**Mpmcq.** `List` is computed by a walk of `NumSlots` steps, which no prover unfolds. `WalkIs` shows that a sequence that begins at `head`, follows `next` to a node without a successor and meets no node twice is what the walk finds; uniqueness and length come from the pigeonhole principle. `EffectIs` then sorts the steps by what they do to the list and the owners (take, fill, link, take out, reset, free, move `tail`, nothing), and `ListAfter` says how the list looks after each. The heart is `HazardInv`: for a user past the second look, the node it protects is used, in nobody's hand to be filled, and no `TryRetire` that could free it has gone by the shared index (`Kept`, `Passed`). It is established by the second look itself: the node is still `head` or `tail`, hence in the list, hence retired by nobody, and the shared index has named it since before. From it follows that the compare-and-swaps mean what they should: a protected node without a successor is the last of the list, so linking appends; a node that is not the head any more does not become it again while protected, so `head` moves by one and `tail` never back to a node taken out (`ReadInv`). `EmptyWasSeen` reads off `ReadInv`, where `wasEmpty` was set at the load of `next`.

**Lfmpscq.** The argument is that of `Mpmcq` for the behaviours in which no dequeue has overtaken `tail`, and needs more for those in which one has: `TypeCorrect`, and `SlotsHaveOneOwner` but for lost slots, hold of them too. `Inv` has therefore two halves.

- What always holds: the list that begins at `head` ends (`ListInv`), a slot has one owner (`Apart`), the retire lists name different slots, none of them the dummy, and a retired slot names a successor until it is reset (`RetireInv`), and no node is linked twice (`LinkInv`). The last is why a `tail` that is overtaken does no worse than it does. A producer may then append its node to one that left the list long ago, others append theirs behind it, and the compare-and-swap of yet another joins all of them to the list at once. Because each node has one predecessor, and `head` none, what begins at the new node is a path that ends and that has nothing in common with the list (`PathEnds`, `ListsAreApart`); the list with the path at its end is a list again. The lists of retired nodes stay below `NumSlots` elements since the dummy is on neither (`ListIsShort`).
- What holds until then (`Orderly`): `tail` is in the list, and is not the dummy while a dequeue moves `head` (`TailInv`); so the second look at `tail` shows that the node is retired by nobody and the shared index was there before (`HazardInv`, as in `Mpmcq`), a protected node without a successor is the last of the list, and a link appends one node (`LinkIsLast`). No slot in use is lost (`NoneLost`).

`OvertakenStays` says that a step out of a behaviour's orderly part cannot be undone, so that each step of the orderly part is between two orderly states; `ProducerFifoStep` and `ConsumerFifoStep` then show that it is a step of `LinkedFifo`.

The proof has corrected a property. `TypeOK` used to say that between two dequeues at most one node for each producer stays on the retire list. With five slots TLC finds a behaviour in which two stay for one producer, whose shared index moves from one retired node to another while the list is scanned. What the arrays of the code need, fewer than `NumSlots` nodes on either list, holds and is what `TypeOK` says now.

In `OneOwner` of `Mpmcq` and `Lfmpscq` the operand of `UNION` is in parentheses, because TLC and the prover read `UNION A \cap B` differently.

Every safety property of a passing run is stated by a theorem. Only model-checked is the liveness: `RetrySucceeds`, `WaitsEnd`, `LockComesBack`, `ReadReturns`, `CallsReturn`. The prover has no rules for fairness or ENABLED.

## Findings

1. `lfmpscq_dequeue` may overtake `tail`; a node that a producer protects is freed and a message that was enqueued with result 0 is lost (`lfmpscq.c:208`).
2. On x86 `atomic_faa64u` adds only if `__AMD64__` is defined, which no compiler does by itself; the ids of the wait-free queue are then all 0 (`arch/x86/src/atomic.c:274`).
3. A process that creates an object in a System V segment it has not attached writes through an uninitialized pointer (`shmman.c:301`).
4. `sensorbuffer_get` clears the flags of the buffer after each of its buffers, the last time behind its own memory, where the lock of the next object may be (`sensorbuffer.c:45`).
5. `wfmpscq_dequeue` returns the unsigned id of the message as an `int` (`wfmpscq.c:172`), where `wfmpscq.h:98` promises 0 on success: every id but the first reads as a failure in `wfmpscq-latency2.c:193`, the upper half is negative, and the id 0xffffffff, which round robin reaches, comes back as the -1 of an empty queue although a message was taken. `RefusedIfEmpty` holds with this one exception.

What else the models contain and their properties except, each by name:

- `late` in `Sensorbuffer`: the torn sample on x86 (`sensorbuffer.c:104`).
- `failed` and `drift` in `Shmman`: the create that fails, or dies, with the lock taken (`shmman.c:271`, `shmman.c:276`), the counts changed without it (`shmman.c:363`) or left behind by a user that did not release.
- The create between its shmget and its entry in `FinalizeLeavesNothing`: a finalize whose loop ends at that moment leaves its segment (`shmman.c:435`). A finalize that fails half way leaves the segments it has not come to, and a second one fails at the first entry (`shmman.c:437`); no property excludes either.
- `Foreign` in `SameMemory`: processes of another life put a segment of theirs under a key of this one (`shmman.c:81`, `shmman.c:340`).
- Ids drawn and not published in `LowestAtStart`: such a message may be overtaken by younger ones (`wfmpscq.c:94`).
- `stranger` in `Objects`: an unlock by a user that does not hold the mutex (`mutex.c:65`). Dead users: nobody gives back what they had locked (`mutex.c:29`).
- `Inexact` in `Atomics`: the ARM `atomic_cas64`, which stores the low half of `oldval`, the ARM `atomic_faa64`, which loses the carry between the halves, the ARM compare-and-swap of a negative narrow number, which fails if its register has its sign, and the x86 `atomic_faa64` without `__AMD64__`. `Left` says what they leave; they are one step all the same. The objects use only the low half of `atomic_faa64u`.

## Not modelled

- The get protocol around the queues and the sensor buffer: they take the lock as the small objects do, and their modules start from what the first user leaves.
- Two objects of one kind in one process: `getFreeSlot`'s index, the retire lists and `lastqueue` are one per process, whatever the descriptor.
- Crashes in the middle of a queue's call other than a process that stops for ever.
- The undefined read of `wfmpscq.c:151`, whose value is dropped.
- Store buffers outside `Sensorbuffer`; ARM's weaker order anywhere.
- Two lives of the shared memory manager in one state: of the other only `OtherLife` is there. A get through the pointer that finalize has cleared, or into the tables that disconnect has freed, is a death, as is a second disconnect; what else undefined behaviour may do is not modelled. A process with two descriptors of one object.
- Printing, system calls that keep no state, demos, benchmarks, the build.

## Plan

The components are modelled and all safety properties proved; what is left, in this order:

1. The shared indices of `Lfmpscq` and `Mpmcq` behind a store buffer, as `Sensorbuffer` has it. Expected: the protection that holds without store buffers fails with them.
2. Several queues in one process, with the lists and indices they share.
