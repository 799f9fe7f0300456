------------------------------- MODULE Mpmcq -------------------------------
(***************************************************************************)
(* The lock-free multi-producer multi-consumer queue of src/mpmcq.c: a     *)
(* linked list of slots whose first node is a dummy.  Every user has two   *)
(* shared indices that protect nodes from reuse, and a list of the nodes   *)
(* it took out of the queue and has not given back.                        *)
(*                                                                         *)
(* A step is one access to a location another process writes, on a         *)
(* sequentially consistent machine.  The memcpy into a slot and the reset  *)
(* of its next are one step, and so are the memcpy out of a slot and the   *)
(* move of the retire list to TmpList: no other process uses the slot at   *)
(* that time, which ProtectedNotReused and OneOwner check.  The locals of  *)
(* a call are dropped when it returns or its loop starts over.             *)
(*                                                                         *)
(* ScanTakesUsed and the like are faulty variants of the definition that   *)
(* follows them; no action uses them.                                      *)
(***************************************************************************)
EXTENDS Integers, Sequences, FiniteSets, Functions

CONSTANTS
    NumSlots,   \* qd->numSlots
    MaxUser,    \* qd->maxUser
    Message,    \* what a caller may enqueue
    Sends,      \* the messages of each user
    NoMessage,  \* the data of a slot that was never written
    MaxCalls    \* bound on the number of enqueue calls; 0: no bound

ASSUME NumSlotsAssumption == NumSlots \in Nat \ {0}
ASSUME MaxUserAssumption  == MaxUser \in Nat
ASSUME SendsAssumption    == Sends \in [0 .. MaxUser - 1 -> SUBSET Message]
ASSUME MessageAssumption  == NoMessage \notin Message
ASSUME MaxCallsAssumption == MaxCalls \in Nat

VARIABLES
    head,       \* q->head
    tail,       \* q->tail
    used,       \* used of each slot
    next,       \* next of each slot
    data,       \* the message in each slot
    sharedIdxs, \* the nodes protected, two for each user
    scan,       \* the static i of getFreeSlot in each process
    RList,      \* the retire list of each process
    loc,        \* the locals of each user's call
    calls,      \* enqueue calls so far, if they are bounded
    got         \* the message each user received last

listVars == <<head, tail, used, next, data>>
vars == <<listVars, sharedIdxs, scan, RList, loc, calls, got>>

UNDEFINED_NODE == -1
Slot == 0 .. NumSlots - 1
Node == Slot \cup {UNDEFINED_NODE}
User == 0 .. MaxUser - 1
SharedIdx == 0 .. 2 * MaxUser - 1

\* first: t_idx or h_idx; second: t_next or h_next_idx; last: the t_idx of a
\* dequeue; k and todo: the loops of TryRetire, then: what follows it;
\* wasEmpty: the queue was empty when next of the head was read (history).
Idle == [pc |-> "idle", msg |-> NoMessage, node |-> UNDEFINED_NODE, cnt |-> 0,
         first |-> UNDEFINED_NODE, second |-> UNDEFINED_NODE,
         last |-> UNDEFINED_NODE, todo |-> <<>>, k |-> 0, then |-> "idle",
         wasEmpty |-> FALSE]

\* mpmcq_get by the first user: slot 0 is the dummy.
Init ==
    /\ head = 0 /\ tail = 0
    /\ used = [s \in Slot |-> IF s = 0 THEN 1 ELSE 0]
    /\ next = [s \in Slot |-> UNDEFINED_NODE]
    /\ data = [s \in Slot |-> NoMessage]
    /\ sharedIdxs = [k \in SharedIdx |-> UNDEFINED_NODE]
    /\ scan = [u \in User |-> 0]
    /\ RList = [u \in User |-> <<>>]
    /\ loc = [u \in User |-> Idle]
    /\ calls = 0
    /\ got = [u \in User |-> NoMessage]

At(u, label) == loc[u].pc = label
Set(u, locals) == loc' = [loc EXCEPT ![u] = locals]
Goto(u, label) == loc' = [loc EXCEPT ![u].pc = label]

\* Start the loop of an enqueue or a dequeue over.
Restart(u, label) ==
    Set(u, [Idle EXCEPT !.pc = label, !.msg = loc[u].msg, !.node = loc[u].node])

-----------------------------------------------------------------------------
(***************************************************************************)
(* TryRetire                                                               *)
(***************************************************************************)
\* The locals with the nodes left to look at; after the last what follows.
Retire(locals, nodes) ==
    IF nodes # <<>> THEN [locals EXCEPT !.pc = "compare", !.todo = nodes, !.k = 0]
    ELSE IF locals.then = "idle" THEN Idle
    ELSE [Idle EXCEPT !.pc = locals.then, !.msg = locals.msg]

\* The retire list moves to TmpList.
TryRetire(u, locals, nodes) ==
    /\ Set(u, Retire(locals, nodes))
    /\ RList' = [RList EXCEPT ![u] = <<>>]

RetiredNode(u) == Head(loc[u].todo)
Done(u) == Set(u, Retire(loc[u], Tail(loc[u].todo)))

\* A shared index names the node: it stays on the list.
RetireKeep(u) ==
    /\ At(u, "compare")
    /\ loc[u].k \in SharedIdx
    /\ sharedIdxs[loc[u].k] = RetiredNode(u)
    /\ RList' = [RList EXCEPT ![u] = Append(@, RetiredNode(u))]
    /\ Done(u)
    /\ UNCHANGED <<listVars, sharedIdxs, scan, calls, got>>

RetirePass(u) ==
    /\ At(u, "compare")
    /\ loc[u].k \in SharedIdx
    /\ sharedIdxs[loc[u].k] # RetiredNode(u)
    /\ loc' = [loc EXCEPT ![u].k = @ + 1]
    /\ UNCHANGED <<listVars, sharedIdxs, scan, RList, calls, got>>

\* None does: reset next, then give the slot back.
RetireReset(u) ==
    /\ At(u, "compare")
    /\ loc[u].k \notin SharedIdx
    /\ next' = [next EXCEPT ![RetiredNode(u)] = UNDEFINED_NODE]
    /\ Goto(u, "free")
    /\ UNCHANGED <<head, tail, used, data, sharedIdxs, scan, RList, calls, got>>

RetireFree(u) ==
    /\ At(u, "free")
    /\ used' = [used EXCEPT ![RetiredNode(u)] = 0]
    /\ Done(u)
    /\ UNCHANGED <<head, tail, next, data, sharedIdxs, scan, RList, calls, got>>

-----------------------------------------------------------------------------
(***************************************************************************)
(* mpmcq_enqueue                                                           *)
(***************************************************************************)
Enqueue(u, m) ==
    /\ At(u, "idle")
    /\ MaxCalls > 0 => calls < MaxCalls
    /\ calls' = IF MaxCalls > 0 THEN calls + 1 ELSE 0
    /\ TryRetire(u, [Idle EXCEPT !.msg = m, !.then = "scan"], RList[u])
    /\ UNCHANGED <<listVars, sharedIdxs, scan, got>>

ScanTakesUsed(u) ==
    /\ At(u, "scan")
    /\ used' = [used EXCEPT ![scan[u]] = 1]
    /\ loc' = [loc EXCEPT ![u].pc = "fill", ![u].node = scan[u], ![u].cnt = 0]
    /\ UNCHANGED <<head, tail, next, data, sharedIdxs, scan, RList, calls, got>>

\* getFreeSlot takes the slot at i, which stays where it is.
ScanTakes(u) ==
    /\ At(u, "scan")
    /\ used[scan[u]] = 0
    /\ used' = [used EXCEPT ![scan[u]] = 1]
    /\ loc' = [loc EXCEPT ![u].pc = "fill", ![u].node = scan[u], ![u].cnt = 0]
    /\ UNCHANGED <<head, tail, next, data, sharedIdxs, scan, RList, calls, got>>

ScanNextUnwrapped(i) == i + 1
ScanNext(i) == (i + 1) % NumSlots

\* The slot at i is in use: try the next one; after numSlots tries return -1.
ScanMisses(u) ==
    /\ At(u, "scan")
    /\ used[scan[u]] # 0
    /\ scan' = [scan EXCEPT ![u] = ScanNext(@)]
    /\ Set(u, IF loc[u].cnt + 1 < NumSlots
              THEN [loc[u] EXCEPT !.cnt = @ + 1]
              ELSE Idle)
    /\ UNCHANGED <<listVars, sharedIdxs, RList, calls, got>>

\* The memcpy and next = UNDEFINED_NODE.
Fill(u) ==
    /\ At(u, "fill")
    /\ data' = [data EXCEPT ![loc[u].node] = loc[u].msg]
    /\ next' = [next EXCEPT ![loc[u].node] = UNDEFINED_NODE]
    /\ Goto(u, "tail")
    /\ UNCHANGED <<head, tail, used, sharedIdxs, scan, RList, calls, got>>

\* A user's first shared index protects its first, the second its second node.
Index0(u) == 2 * u
Index1(u) == 2 * u + 1

ReadTail(u) ==
    /\ At(u, "tail")
    /\ loc' = [loc EXCEPT ![u].pc = "protectTail", ![u].first = tail]
    /\ UNCHANGED <<listVars, sharedIdxs, scan, RList, calls, got>>

ProtectTail(u) ==
    /\ At(u, "protectTail")
    /\ sharedIdxs' = [sharedIdxs EXCEPT ![Index0(u)] = loc[u].first]
    /\ Goto(u, "checkTail")
    /\ UNCHANGED <<listVars, scan, RList, calls, got>>

TailUnchecked(u) ==
    /\ At(u, "checkTail")
    /\ Goto(u, "tailNext")
    /\ UNCHANGED <<listVars, sharedIdxs, scan, RList, calls, got>>

CheckTail(u) ==
    /\ At(u, "checkTail")
    /\ IF tail = loc[u].first THEN Goto(u, "tailNext") ELSE Restart(u, "tail")
    /\ UNCHANGED <<listVars, sharedIdxs, scan, RList, calls, got>>

ReadTailNext(u) ==
    /\ At(u, "tailNext")
    /\ LET t_next == next[loc[u].first] IN
          loc' = [loc EXCEPT ![u].second = t_next,
                             ![u].pc = IF t_next = UNDEFINED_NODE THEN "link"
                                                                  ELSE "helpTail"]
    /\ UNCHANGED <<listVars, sharedIdxs, scan, RList, calls, got>>

\* atomic_cas32(&tail, from, to)
CasTail(from, to) == tail' = IF tail = from THEN to ELSE tail

HelpTail(u) ==
    /\ At(u, "helpTail")
    /\ CasTail(loc[u].first, loc[u].second)
    /\ Restart(u, "tail")
    /\ UNCHANGED <<head, used, next, data, sharedIdxs, scan, RList, calls, got>>

\* The compare-and-swap that appends the node, or start over.
Link(u) ==
    /\ At(u, "link")
    /\ IF next[loc[u].first] = UNDEFINED_NODE
       THEN /\ next' = [next EXCEPT ![loc[u].first] = loc[u].node]
            /\ Goto(u, "swing")
       ELSE Restart(u, "tail") /\ UNCHANGED next
    /\ UNCHANGED <<head, tail, used, data, sharedIdxs, scan, RList, calls, got>>

\* Try to move tail to the node and return 0.
Swing(u) ==
    /\ At(u, "swing")
    /\ CasTail(loc[u].first, loc[u].node)
    /\ Set(u, Idle)
    /\ UNCHANGED <<head, used, next, data, sharedIdxs, scan, RList, calls, got>>

-----------------------------------------------------------------------------
(***************************************************************************)
(* mpmcq_dequeue                                                           *)
(***************************************************************************)
Dequeue(u) ==
    /\ At(u, "idle")
    /\ TryRetire(u, [Idle EXCEPT !.then = "head"], RList[u])
    /\ UNCHANGED <<listVars, sharedIdxs, scan, calls, got>>

ReadHead(u) ==
    /\ At(u, "head")
    /\ Set(u, [Idle EXCEPT !.pc = "protectHead", !.first = head])
    /\ UNCHANGED <<listVars, sharedIdxs, scan, RList, calls, got>>

ProtectHead(u) ==
    /\ At(u, "protectHead")
    /\ sharedIdxs' = [sharedIdxs EXCEPT ![Index0(u)] = loc[u].first]
    /\ Goto(u, "checkHead")
    /\ UNCHANGED <<listVars, scan, RList, calls, got>>

HeadUnchecked(u) ==
    /\ At(u, "checkHead")
    /\ Goto(u, "headTail")
    /\ UNCHANGED <<listVars, sharedIdxs, scan, RList, calls, got>>

CheckHead(u) ==
    /\ At(u, "checkHead")
    /\ IF head = loc[u].first THEN Goto(u, "headTail") ELSE Restart(u, "head")
    /\ UNCHANGED <<listVars, sharedIdxs, scan, RList, calls, got>>

ReadHeadTail(u) ==
    /\ At(u, "headTail")
    /\ loc' = [loc EXCEPT ![u].pc = "headNext", ![u].last = tail]
    /\ UNCHANGED <<listVars, sharedIdxs, scan, RList, calls, got>>

ReadHeadNext(u) ==
    /\ At(u, "headNext")
    /\ loc' = [loc EXCEPT ![u].pc = "protectNext",
                          ![u].second = next[loc[u].first],
                          ![u].wasEmpty = (next[head] = UNDEFINED_NODE)]
    /\ UNCHANGED <<listVars, sharedIdxs, scan, RList, calls, got>>

ProtectNext(u) ==
    /\ At(u, "protectNext")
    /\ sharedIdxs' = [sharedIdxs EXCEPT ![Index1(u)] = loc[u].second]
    /\ Goto(u, "recheckHead")
    /\ UNCHANGED <<listVars, scan, RList, calls, got>>

\* head is what it was and has no successor.
EmptyIfTail(u) == loc[u].second = UNDEFINED_NODE \/ loc[u].first = loc[u].last
Empty(u) == loc[u].second = UNDEFINED_NODE

\* Return -1.
DequeueEmpty(u) ==
    /\ At(u, "recheckHead")
    /\ head = loc[u].first
    /\ Empty(u)
    /\ Set(u, Idle)
    /\ UNCHANGED <<listVars, sharedIdxs, scan, RList, calls, got>>

RecheckHead(u) ==
    /\ At(u, "recheckHead")
    /\ ~(head = loc[u].first /\ Empty(u))
    /\ IF head # loc[u].first THEN Restart(u, "head")
       ELSE loc' = [loc EXCEPT ![u].last = UNDEFINED_NODE, ![u].wasEmpty = FALSE,
                               ![u].pc = IF loc[u].first = loc[u].last
                                         THEN "helpHead" ELSE "move"]
    /\ UNCHANGED <<listVars, sharedIdxs, scan, RList, calls, got>>

HelpNobody(u) ==
    /\ At(u, "helpHead")
    /\ Restart(u, "head")
    /\ UNCHANGED <<listVars, sharedIdxs, scan, RList, calls, got>>

\* tail named the dummy, the first, although it has a successor: move it on.
HelpHead(u) ==
    /\ At(u, "helpHead")
    /\ CasTail(loc[u].first, loc[u].second)
    /\ Restart(u, "head")
    /\ UNCHANGED <<head, used, next, data, sharedIdxs, scan, RList, calls, got>>

\* The compare-and-swap that takes the message, or start over.
Move(u) ==
    /\ At(u, "move")
    /\ head' = IF head = loc[u].first THEN loc[u].second ELSE head
    /\ IF head = loc[u].first THEN Goto(u, "copy") ELSE Restart(u, "head")
    /\ UNCHANGED <<tail, used, next, data, sharedIdxs, scan, RList, calls, got>>

\* The memcpy; RetireNode puts the old dummy on the retire list.
Copy(u) ==
    /\ At(u, "copy")
    /\ got' = [got EXCEPT ![u] = data[loc[u].second]]
    /\ TryRetire(u, [Idle EXCEPT !.then = "idle"], Append(RList[u], loc[u].first))
    /\ UNCHANGED <<listVars, sharedIdxs, scan, calls>>

-----------------------------------------------------------------------------
Call(u) == (\E m \in Sends[u] : Enqueue(u, m)) \/ Dequeue(u)

Step(u) ==
    \/ RetireKeep(u)
    \/ RetirePass(u)
    \/ RetireReset(u)
    \/ RetireFree(u)
    \/ ScanTakes(u)
    \/ ScanMisses(u)
    \/ Fill(u)
    \/ ReadTail(u)
    \/ ProtectTail(u)
    \/ CheckTail(u)
    \/ ReadTailNext(u)
    \/ HelpTail(u)
    \/ Link(u)
    \/ Swing(u)
    \/ ReadHead(u)
    \/ ProtectHead(u)
    \/ CheckHead(u)
    \/ ReadHeadTail(u)
    \/ ReadHeadNext(u)
    \/ ProtectNext(u)
    \/ DequeueEmpty(u)
    \/ RecheckHead(u)
    \/ HelpHead(u)
    \/ Move(u)
    \/ Copy(u)

Next == \E u \in User : Call(u) \/ Step(u)

Spec == Init /\ [][Next]_vars

\* Of the users inside a call at least one runs; any other process may have
\* stopped for ever wherever it is.
LockFreeSpec == Spec /\ WF_vars(\E u \in User : Step(u))

-----------------------------------------------------------------------------
(***************************************************************************)
(* Properties                                                              *)
(***************************************************************************)

\* Every variable keeps the range its C declaration and its uses give it: a
\* slot index is one, and no retire list outgrows its numSlots elements.
TypeOK ==
    /\ head \in Slot
    /\ tail \in Slot
    /\ used \in [Slot -> {0, 1}]
    /\ next \in [Slot -> Node]
    /\ data \in [Slot -> Message \cup {NoMessage}]
    /\ sharedIdxs \in [SharedIdx -> Node]
    /\ scan \in [User -> Slot]
    /\ \A u \in User :
          /\ RList[u] \in Seq(Slot) /\ Len(RList[u]) <= NumSlots
          /\ loc[u].todo \in Seq(Slot)
          /\ loc[u].cnt \in 0 .. NumSlots - 1
          /\ {loc[u].node, loc[u].first, loc[u].second, loc[u].last} \subseteq Node
    /\ got \in [User -> Message \cup {NoMessage}]

\* The dummy and, as far as there are any, the k nodes after it.
FirstNodes[k \in 0 .. NumSlots] ==
    IF k = 0 THEN <<head>>
    ELSE LET nodes == FirstNodes[k - 1]
             last  == nodes[Len(nodes)]
         IN  IF next[last] = UNDEFINED_NODE THEN nodes ELSE Append(nodes, next[last])

List == FirstNodes[NumSlots]

Contents == LET nodes == List
            IN  [k \in 1 .. Len(nodes) - 1 |-> data[nodes[k + 1]]]

\* Where a slot in use can be: in the list (with the dummy), an enqueue's new
\* node, or dequeued and on its way through a retire list.
InList  == Range(List)
Held(u) == IF loc[u].pc \in {"fill", "tail", "protectTail", "checkTail",
                             "tailNext", "helpTail", "link"}
           THEN {loc[u].node} ELSE {}
Retired(u) ==
    Range(RList[u]) \cup Range(loc[u].todo) \cup
    (IF At(u, "copy") THEN {loc[u].first} ELSE {})

\* A slot has one owner: no two users fill or retire the same slot, and none
\* does a slot that is still in the list.  No slot is lost, and with it no
\* message: a slot in use has an owner.
OneOwner ==
    /\ (UNION {Held(u) \cup Retired(u) : u \in User}) \cap InList = {}
    /\ \A u, w \in User : Held(u) \cap Retired(w) = {}
    /\ \A u, w \in User : u # w => /\ Held(u) \cap Held(w) = {}
                                  /\ Retired(u) \cap Retired(w) = {}
    /\ {s \in Slot : used[s] = 1} \subseteq
          InList \cup UNION {Held(u) \cup Retired(u) : u \in User}

\* The hazard pointers work: a node that a user has protected and then found
\* to be the tail, the head or the successor of the head is not given back,
\* and not filled again, while the user works with it.
InHand(u) ==
    CASE loc[u].pc \in {"tailNext", "helpTail", "link", "headTail", "headNext",
                        "protectNext", "recheckHead"} -> {loc[u].first}
      [] loc[u].pc \in {"helpHead", "move", "copy"} -> {loc[u].first, loc[u].second}
      [] OTHER -> {}

ProtectedNotReused ==
    \A u, w \in User : \A s \in InHand(u) : used[s] = 1 /\ s \notin Held(w)

\* A dequeue returns -1 only if the queue was empty at an instant of the call.
EmptyWasEmpty == [][\A u \in User : DequeueEmpty(u) => loc[u].wasEmpty]_vars

\* The list implements the FIFO: an enqueue that links its node has put its
\* message at the end, and each message is dequeued once, in that order.  The
\* message a dequeue has taken is the one it copies out afterwards.
Fifo == INSTANCE LinkedFifo
          WITH Producer <- User,
               Consumer <- User,
               queue <- Contents,
               calling <- [u \in User |-> loc[u].msg],
               isPut <- [u \in User |-> At(u, "swing")],
               taken <- [u \in User |-> IF At(u, "copy") THEN data[loc[u].second]
                                                         ELSE got[u]],
               takeRet <- [u \in User |-> 0]

ImplementsFifo == Fifo!Spec

\* Lock-freedom: while some user is inside a call, calls go on returning,
\* although other users may have stopped in the middle of theirs.
CallsReturn ==
    []<>(\E u \in User : ~At(u, "idle")) =>
        []<><<\E u \in User : ~At(u, "idle") /\ loc'[u].pc = "idle">>_vars
=============================================================================
