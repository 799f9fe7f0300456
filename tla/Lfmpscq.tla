------------------------------ MODULE Lfmpscq ------------------------------
(***************************************************************************)
(* The lock-free multi-producer single-consumer queue of src/lfmpscq.c: a  *)
(* linked list of slots in shared memory whose first node is a dummy.  A   *)
(* dequeued node is retired, and its slot given back only when no user's   *)
(* shared index (a hazard pointer) names it.                               *)
(*                                                                         *)
(* A step is one access to a location another process writes.  head is     *)
(* written and read by the consumer only, and a slot's data is written     *)
(* before the slot is linked, so their accesses are part of the step next  *)
(* to them.  The locals of a call are dropped when it returns.             *)
(*                                                                         *)
(* RetireKeepsOn and the like are faulty variants of the definition that   *)
(* follows them; no action uses them.                                      *)
(***************************************************************************)
EXTENDS Integers, Sequences, FiniteSets, Functions

CONSTANTS
    NumSlots,   \* qd->numSlots
    MaxUser,    \* qd->maxUser
    Producer,   \* the user ids of the producers
    Message,    \* what a caller may enqueue
    Sends,      \* the messages of each producer
    NoMessage,  \* the data of a slot that was never written
    MaxCalls    \* bound on the number of enqueue calls; 0: no bound

ASSUME NumSlotsAssumption == NumSlots \in Nat \ {0}
ASSUME MaxUserAssumption  == MaxUser \in Nat
ASSUME ProducerAssumption == Producer \subseteq 0 .. MaxUser - 1
ASSUME MaxCallsAssumption == MaxCalls \in Nat
ASSUME SendsAssumption    == Sends \in [Producer -> SUBSET Message]
ASSUME MessageAssumption  == NoMessage \notin Message

VARIABLES
    head,       \* q->head
    tail,       \* q->tail
    used,       \* used of each slot
    next,       \* next of each slot
    data,       \* the message in each slot
    sharedIdxs, \* the node each user protects
    enq,        \* the locals of each producer's enqueue
    scan,       \* the static i of getFreeSlot in each producer
    calls,      \* enqueue calls so far, if they are bounded
    deq,        \* the locals of the consumer's dequeue and RetireNode
    RList,      \* the consumer's retire list
    deqRet,     \* return value of the latest finished dequeue
    got,        \* the message the consumer received last
    overtaken   \* some dequeue began while tail named the dummy (history)

listVars == <<head, tail, used, next, data, sharedIdxs>>
prodVars == <<enq, scan, calls>>
consVars == <<deq, RList, deqRet, got, overtaken>>
vars     == <<listVars, prodVars, consVars>>

UNDEFINED_NODE == -1
Slot == 0 .. NumSlots - 1
Node == Slot \cup {UNDEFINED_NODE}
User == 0 .. MaxUser - 1

IdleEnqueue == [pc |-> "idle", cnt |-> 0, node |-> UNDEFINED_NODE,
                msg |-> NoMessage, t |-> UNDEFINED_NODE,
                t_next |-> UNDEFINED_NODE]
IdleDequeue == [pc |-> "idle", h_idx |-> UNDEFINED_NODE,
                h_next |-> UNDEFINED_NODE, TmpList |-> <<>>, i |-> 1, k |-> 0]

(***************************************************************************)
(* lfmpscq_get by the first user: slot 0 is the dummy.                     *)
(***************************************************************************)
Init ==
    /\ head = 0
    /\ tail = 0
    /\ used = [s \in Slot |-> IF s = 0 THEN 1 ELSE 0]
    /\ next = [s \in Slot |-> UNDEFINED_NODE]
    /\ data = [s \in Slot |-> NoMessage]
    /\ sharedIdxs = [u \in User |-> UNDEFINED_NODE]
    /\ enq = [p \in Producer |-> IdleEnqueue]
    /\ scan = [p \in Producer |-> 0]
    /\ calls = 0
    /\ deq = IdleDequeue
    /\ RList = <<>>
    /\ deqRet = 0
    /\ got = NoMessage
    /\ overtaken = FALSE

-----------------------------------------------------------------------------
(***************************************************************************)
(* lfmpscq_enqueue                                                         *)
(***************************************************************************)
At(p, label) == enq[p].pc = label

EnqueueCall(p, m) ==
    /\ At(p, "idle")
    /\ MaxCalls > 0 => calls < MaxCalls
    /\ calls' = IF MaxCalls > 0 THEN calls + 1 ELSE 0
    /\ enq' = [enq EXCEPT ![p].pc = "scan", ![p].msg = m]
    /\ UNCHANGED <<listVars, scan, consVars>>

\* getFreeSlot takes the slot at i, which stays where it is.
ScanTakes(p) ==
    /\ At(p, "scan")
    /\ used[scan[p]] = 0
    /\ used' = [used EXCEPT ![scan[p]] = 1]
    /\ enq' = [enq EXCEPT ![p].pc = "fill", ![p].node = scan[p]]
    /\ UNCHANGED <<head, tail, next, data, sharedIdxs, scan, calls, consVars>>

ScanNext(i) == (i + 1) % NumSlots

\* The slot at i is in use: try the next one; after numSlots tries return -1.
ScanMisses(p) ==
    /\ At(p, "scan")
    /\ used[scan[p]] # 0
    /\ scan' = [scan EXCEPT ![p] = ScanNext(@)]
    /\ enq' = IF enq[p].cnt + 1 < NumSlots
              THEN [enq EXCEPT ![p].cnt = @ + 1]
              ELSE [enq EXCEPT ![p] = IdleEnqueue]
    /\ UNCHANGED <<listVars, calls, consVars>>

\* The memcpy and next = UNDEFINED_NODE.
Fill(p) ==
    /\ At(p, "fill")
    /\ data' = [data EXCEPT ![enq[p].node] = enq[p].msg]
    /\ next' = [next EXCEPT ![enq[p].node] = UNDEFINED_NODE]
    /\ enq' = [enq EXCEPT ![p].pc = "readTail"]
    /\ UNCHANGED <<head, tail, used, sharedIdxs, scan, calls, consVars>>

ReadTail(p) ==
    /\ At(p, "readTail")
    /\ enq' = [enq EXCEPT ![p].pc = "protect", ![p].t = tail,
                          ![p].t_next = UNDEFINED_NODE]
    /\ UNCHANGED <<listVars, scan, calls, consVars>>

Protect(p) ==
    /\ At(p, "protect")
    /\ sharedIdxs' = [sharedIdxs EXCEPT ![p] = enq[p].t]
    /\ enq' = [enq EXCEPT ![p].pc = "recheck"]
    /\ UNCHANGED <<head, tail, used, next, data, scan, calls, consVars>>

\* tail moved since it was read: start over.
Recheck(p) ==
    /\ At(p, "recheck")
    /\ enq' = [enq EXCEPT ![p].pc = IF tail # enq[p].t THEN "readTail"
                                                      ELSE "readNext"]
    /\ UNCHANGED <<listVars, scan, calls, consVars>>

ReadNext(p) ==
    /\ At(p, "readNext")
    /\ enq' = [enq EXCEPT ![p].t_next = next[enq[p].t],
                          ![p].pc = IF next[enq[p].t] # UNDEFINED_NODE
                                    THEN "help" ELSE "link"]
    /\ UNCHANGED <<listVars, scan, calls, consVars>>

HelpNobody(p) ==
    /\ At(p, "help")
    /\ enq' = [enq EXCEPT ![p].pc = "readTail"]
    /\ UNCHANGED <<listVars, scan, calls, consVars>>

\* tail is not the last node: move it on, start over.
Help(p) ==
    /\ At(p, "help")
    /\ tail' = IF tail = enq[p].t THEN enq[p].t_next ELSE tail
    /\ enq' = [enq EXCEPT ![p].pc = "readTail"]
    /\ UNCHANGED <<head, used, next, data, sharedIdxs, scan, calls, consVars>>

LinkUnchecked(p) ==
    /\ At(p, "link")
    /\ next' = [next EXCEPT ![enq[p].t] = enq[p].node]
    /\ enq' = [enq EXCEPT ![p].pc = "swing"]
    /\ UNCHANGED <<head, tail, used, data, sharedIdxs, scan, calls, consVars>>

\* The compare-and-swap that appends the node, or start over.
Link(p) ==
    /\ At(p, "link")
    /\ IF next[enq[p].t] = UNDEFINED_NODE
       THEN /\ next' = [next EXCEPT ![enq[p].t] = enq[p].node]
            /\ enq' = [enq EXCEPT ![p].pc = "swing"]
       ELSE /\ enq' = [enq EXCEPT ![p].pc = "readTail"]
            /\ UNCHANGED next
    /\ UNCHANGED <<head, tail, used, data, sharedIdxs, scan, calls, consVars>>

\* Try to move tail to the node and return 0.
Swing(p) ==
    /\ At(p, "swing")
    /\ tail' = IF tail = enq[p].t THEN enq[p].node ELSE tail
    /\ enq' = [enq EXCEPT ![p] = IdleEnqueue]
    /\ UNCHANGED <<head, used, next, data, sharedIdxs, scan, calls, consVars>>

-----------------------------------------------------------------------------
(***************************************************************************)
(* lfmpscq_dequeue and RetireNode                                          *)
(***************************************************************************)

\* The dummy is the last node: return -1.
DequeueEmpty ==
    /\ deq.pc = "idle"
    /\ next[head] = UNDEFINED_NODE
    /\ deqRet' = -1
    /\ UNCHANGED <<listVars, prodVars, deq, RList, got, overtaken>>

DequeueBegin ==
    /\ deq.pc = "idle"
    /\ next[head] # UNDEFINED_NODE
    /\ deq' = [IdleDequeue EXCEPT !.pc = "take", !.h_idx = head,
                                  !.h_next = next[head]]
    /\ overtaken' = (overtaken \/ head = tail)
    /\ UNCHANGED <<listVars, prodVars, RList, deqRet, got>>

\* Copy the data, set head; RetireNode appends the old dummy to the retire
\* list and moves the list to TmpList.
DequeueTake ==
    /\ deq.pc = "take"
    /\ got' = data[deq.h_next]
    /\ head' = deq.h_next
    /\ deq' = [deq EXCEPT !.pc = "retire",
                          !.TmpList = Append(RList, deq.h_idx)]
    /\ RList' = <<>>
    /\ UNCHANGED <<tail, used, next, data, sharedIdxs, prodVars, deqRet, overtaken>>

Retiring == deq.TmpList[deq.i]

\* deq after the node at i has been dealt with.
NextRetired == [deq EXCEPT !.pc = "retire", !.i = @ + 1, !.k = 0]

RetireKeepsOn ==
    /\ deq.pc = "retire"
    /\ deq.i <= Len(deq.TmpList)
    /\ deq.k < MaxUser
    /\ sharedIdxs[deq.k] = Retiring
    /\ RList' = Append(RList, Retiring)
    /\ deq' = [deq EXCEPT !.k = @ + 1]
    /\ UNCHANGED <<listVars, prodVars, deqRet, got, overtaken>>

\* One comparison with a shared index: the node stays on the list.
RetireKeep ==
    /\ deq.pc = "retire"
    /\ deq.i <= Len(deq.TmpList)
    /\ deq.k < MaxUser
    /\ sharedIdxs[deq.k] = Retiring
    /\ RList' = Append(RList, Retiring)
    /\ deq' = NextRetired
    /\ UNCHANGED <<listVars, prodVars, deqRet, got, overtaken>>

RetirePass ==
    /\ deq.pc = "retire"
    /\ deq.i <= Len(deq.TmpList)
    /\ deq.k < MaxUser
    /\ sharedIdxs[deq.k] # Retiring
    /\ deq' = [deq EXCEPT !.k = @ + 1]
    /\ UNCHANGED <<listVars, prodVars, RList, deqRet, got, overtaken>>

RetireUnscanned ==
    /\ deq.pc = "retire"
    /\ deq.i <= Len(deq.TmpList)
    /\ next' = [next EXCEPT ![Retiring] = UNDEFINED_NODE]
    /\ deq' = [deq EXCEPT !.pc = "free"]
    /\ UNCHANGED <<head, tail, used, data, sharedIdxs, prodVars, RList, deqRet,
                   got, overtaken>>

\* No shared index names the node: reset next, then give the slot back.
RetireReset ==
    /\ deq.pc = "retire"
    /\ deq.i <= Len(deq.TmpList)
    /\ deq.k = MaxUser
    /\ next' = [next EXCEPT ![Retiring] = UNDEFINED_NODE]
    /\ deq' = [deq EXCEPT !.pc = "free"]
    /\ UNCHANGED <<head, tail, used, data, sharedIdxs, prodVars, RList, deqRet,
                   got, overtaken>>

RetireForgets ==
    /\ deq.pc = "free"
    /\ deq' = NextRetired
    /\ UNCHANGED <<listVars, prodVars, RList, deqRet, got, overtaken>>

RetireFree ==
    /\ deq.pc = "free"
    /\ used' = [used EXCEPT ![Retiring] = 0]
    /\ deq' = NextRetired
    /\ UNCHANGED <<head, tail, next, data, sharedIdxs, prodVars, RList, deqRet,
                   got, overtaken>>

DequeueReturn ==
    /\ deq.pc = "retire"
    /\ deq.i > Len(deq.TmpList)
    /\ deqRet' = 0
    /\ deq' = IdleDequeue
    /\ UNCHANGED <<listVars, prodVars, RList, got, overtaken>>

-----------------------------------------------------------------------------
Enqueue(p) ==
    \/ ScanTakes(p)
    \/ ScanMisses(p)
    \/ Fill(p)
    \/ ReadTail(p)
    \/ Protect(p)
    \/ Recheck(p)
    \/ ReadNext(p)
    \/ Help(p)
    \/ Link(p)
    \/ Swing(p)

Dequeue ==
    \/ DequeueEmpty
    \/ DequeueBegin
    \/ DequeueTake
    \/ RetireKeep
    \/ RetirePass
    \/ RetireReset
    \/ RetireFree
    \/ DequeueReturn

Next ==
    \/ \E p \in Producer : Enqueue(p) \/ \E m \in Sends[p] : EnqueueCall(p, m)
    \/ Dequeue

Spec == Init /\ [][Next]_vars

\* Of the producers inside an enqueue at least one runs; any other process
\* may have stopped for ever wherever it is.
LockFreeSpec == Spec /\ WF_vars(\E p \in Producer : Enqueue(p))

-----------------------------------------------------------------------------
(***************************************************************************)
(* Properties                                                              *)
(***************************************************************************)

\* Every variable keeps the range its C declaration and its uses give it; neither
\* of the two lists outgrows its numSlots elements, with the append that may follow.
TypeOK ==
    /\ head \in Slot
    /\ tail \in Slot
    /\ used \in [Slot -> {0, 1}]
    /\ next \in [Slot -> Node]
    /\ data \in [Slot -> Message \cup {NoMessage}]
    /\ sharedIdxs \in [User -> Node]
    /\ \A p \in Producer :
          /\ enq[p].node \in Node /\ enq[p].t \in Node /\ enq[p].t_next \in Node
          /\ enq[p].cnt \in 0 .. NumSlots - 1
          /\ enq[p].pc \in {"idle", "scan", "fill", "readTail", "protect",
                            "recheck", "readNext", "help", "link", "swing"}
    /\ scan \in [Producer -> Slot]
    /\ deq.pc \in {"idle", "take", "retire", "free"}
    /\ RList \in Seq(Slot) /\ Len(RList) < NumSlots
    /\ deq.TmpList \in Seq(Slot) /\ Len(deq.TmpList) < NumSlots
    /\ deqRet \in {0, -1}
    /\ got \in Message \cup {NoMessage}

\* The dummy and, as far as there are any, the k nodes after it.
FirstNodes[k \in 0 .. NumSlots] ==
    IF k = 0 THEN <<head>>
    ELSE LET nodes == FirstNodes[k - 1]
             last  == nodes[Len(nodes)]
         IN  IF next[last] = UNDEFINED_NODE THEN nodes ELSE Append(nodes, next[last])

List == FirstNodes[NumSlots]

Contents == LET nodes == List
            IN  [k \in 1 .. Len(nodes) - 1 |-> data[nodes[k + 1]]]

\* Where a slot in use can be: in the list (with the dummy), a producer's new
\* node, or on its way through the retire list.
InList  == Range(List)
Held(p) == IF enq[p].pc \in {"idle", "scan", "swing"} THEN {}
                                                      ELSE {enq[p].node}
Retired ==
    Range(RList) \cup
    {deq.TmpList[i] : i \in deq.i .. Len(deq.TmpList)}

\* A slot has one owner: no two producers fill the same slot, and none fills
\* a slot that is still in the list or not yet given back.  Unless a dequeue has
\* overtaken the tail, no slot in use is without an owner, and with it no message.
OneOwner ==
    /\ \A p, q \in Producer : p # q => Held(p) \cap Held(q) = {}
    /\ (UNION {Held(p) : p \in Producer}) \cap (InList \cup Retired) = {}
    /\ InList \cap Retired = {}
    /\ \/ overtaken
       \/ {s \in Slot : used[s] = 1} \subseteq
             (UNION {Held(p) : p \in Producer}) \cup InList \cup Retired

\* Lock-freedom: while some producer is inside an enqueue, enqueues go on
\* returning, although the consumer and other producers may have stopped in
\* the middle of their calls.
CallsReturn ==
    []<>(\E p \in Producer : enq[p].pc # "idle") =>
        []<><<\E p \in Producer : enq[p].pc # "idle" /\ enq'[p].pc = "idle">>_vars

\* The next two hold as long as no dequeue overtakes the tail: a dequeue
\* that begins between a producer's link and its update of tail takes the node
\* tail names away, and nothing in lfmpscq_dequeue prevents that.

\* A node a producer has protected and found to be the tail is not given back
\* before the producer is done with it.
ProtectedNotReused ==
    ~overtaken => \A p \in Producer :
        enq[p].pc \in {"readNext", "help", "link"} =>
            /\ used[enq[p].t] = 1
            /\ \A q \in Producer : enq[p].t \notin Held(q)

\* The list implements the FIFO: every enqueue that links its node has put
\* its message at the end, the consumer gets the messages in that order, and
\* is told that the queue is empty only when it is.
Fifo == INSTANCE LinkedFifo
          WITH Consumer <- {0},
               queue <- Contents,
               calling <- [p \in Producer |-> enq[p].msg],
               isPut <- [p \in Producer |-> enq[p].pc = "swing"],
               taken <- [c \in {0} |-> got],
               takeRet <- [c \in {0} |-> IF deq.pc \in {"retire", "free"}
                                         THEN 0 ELSE deqRet]

FifoUnlessOvertaken ==
    Fifo!Init /\ [][Fifo!Next \/ overtaken']_(Fifo!vars)

\* The same of every behaviour.
ImplementsFifo == Fifo!Spec
=============================================================================
