------------------------------ MODULE Wfmpscq ------------------------------
(***************************************************************************)
(* The wait-free multi-producer single-consumer queue of src/wfmpscq.c: a  *)
(* ring per writer and a shared counter of message ids.  The consumer      *)
(* looks at the rings one after another and takes a message from the one   *)
(* its strategy selects: the lowest id, or the next ring in turn.          *)
(*                                                                         *)
(* A step is one access to a location another process writes.  A message   *)
(* is the number of the enqueue that drew its id, so a smaller message is  *)
(* an older one, whatever id it carries.  MaxCalls bounds the enqueues.    *)
(*                                                                         *)
(* KeepAny and the like are faulty variants of the definition that follows *)
(* them; no action uses them.                                              *)
(***************************************************************************)
EXTENDS Integers, Sequences

CONSTANTS
    NumWriter,  \* qd->numWriter
    NumSlots,   \* qd->numSlots
    MAXID,      \* the largest unsigned int
    FaaAdds,    \* atomic_faa64u of the build adds: the ARM one does, the x86
                \* one only where __AMD64__ is defined; otherwise it returns 0
    MaxCalls

ASSUME NumWriterAssumption == NumWriter \in Nat \ {0}
ASSUME NumSlotsAssumption  == NumSlots \in Nat \ {0}
ASSUME MaxIdAssumption     == MAXID \in Nat /\ MAXID % 2 = 1
ASSUME FaaAddsAssumption   == FaaAdds \in BOOLEAN
ASSUME MaxCallsAssumption  == MaxCalls \in Nat

VARIABLES
    id_cnt,     \* qd->mem->id_cnt
    qhead,      \* head of each ring
    qtail,      \* tail of each ring
    ids,        \* the id in each slot
    data,       \* the message in each slot
    enq,        \* each writer: "idle", or about to do what its label says
    enqId,      \* the id it has drawn
    enqMsg,     \* the message it enqueues
    enqRet,     \* return value of its latest finished enqueue
    calls,      \* enqueues begun
    issued,     \* messages so far (history)
    dqstrat,    \* qd->dqstrat
    deq,        \* the consumer: "idle", "scan" or "copy"
    i,          \* the loop counter of its scan
    min_id,
    queue_id,
    lastqueue,
    deqRet,     \* return value of the latest finished dequeue
    buf,        \* the message in the caller's buffer, *data
    last,       \* the latest message taken from each ring (history)
    atStart,    \* the oldest message of each ring when the scan began (history)
    passed      \* messages taken from other rings since a scan began that could
                \* have taken one from this ring (history)

writerVars == <<enq, enqId, enqMsg, enqRet, calls, issued>>
readerVars == <<dqstrat, deq, i, min_id, queue_id, lastqueue, deqRet, buf>>
historyVars == <<last, atStart, passed>>
ringVars   == <<qhead, qtail, ids, data>>
vars       == <<id_cnt, ringVars, writerVars, readerVars, historyVars>>

Writer  == 0 .. NumWriter - 1
Index   == 0 .. NumSlots - 1
Message == 1 .. MaxCalls
None    == 0

\* An id that an int is made of: the upper half of the ids is negative, and
\* MAXID is -1.
ToInt(id) == IF id <= MAXID \div 2 THEN id ELSE id - (MAXID + 1)

NextIndexUnwrapped(k) == k + 1
NextIndex(k) == (k + 1) % NumSlots

(***************************************************************************)
(* wfmpscq_get by the first user; a new segment is zero.                   *)
(***************************************************************************)
Init ==
    /\ id_cnt = 0
    /\ qhead = [w \in Writer |-> 0]
    /\ qtail = [w \in Writer |-> 0]
    /\ ids = [w \in Writer |-> [s \in Index |-> 0]]
    /\ data = [w \in Writer |-> [s \in Index |-> None]]
    /\ enq = [w \in Writer |-> "idle"]
    /\ enqId = [w \in Writer |-> 0]
    /\ enqMsg = [w \in Writer |-> None]
    /\ enqRet = [w \in Writer |-> 0]
    /\ calls = 0
    /\ issued = 0
    /\ dqstrat \in {"IDABSOLUTE", "ROUNDROBIN"}
    /\ deq = "idle" /\ i = 0 /\ min_id = MAXID /\ queue_id = -1 /\ lastqueue = 0
    /\ deqRet = 0
    /\ buf = None
    /\ last = [w \in Writer |-> None]
    /\ atStart = [w \in Writer |-> None]
    /\ passed = [w \in Writer |-> 0]

-----------------------------------------------------------------------------
(***************************************************************************)
(* wfmpscq_enqueue                                                         *)
(***************************************************************************)
FullUnchecked(w) == FALSE
Full(w) == NextIndex(qtail[w]) = qhead[w]

EnqueueFull(w) ==
    /\ enq[w] = "idle"
    /\ Full(w)
    /\ enqRet' = [enqRet EXCEPT ![w] = -1]
    /\ UNCHANGED <<id_cnt, ringVars, enq, enqId, enqMsg, calls, issued,
                   readerVars, historyVars>>

EnqueueBegin(w) ==
    /\ enq[w] = "idle"
    /\ ~Full(w)
    /\ calls < MaxCalls
    /\ calls' = calls + 1
    /\ enq' = [enq EXCEPT ![w] = "id"]
    /\ UNCHANGED <<id_cnt, ringVars, enqId, enqMsg, enqRet, issued, readerVars,
                   historyVars>>

\* atomic_faa64u(&id_cnt, 1), kept in an unsigned int.
DrawId(w) ==
    /\ enq[w] = "id"
    /\ enq' = [enq EXCEPT ![w] = "fill"]
    /\ enqId' = [enqId EXCEPT ![w] = IF FaaAdds THEN id_cnt % (MAXID + 1) ELSE 0]
    /\ id_cnt' = IF FaaAdds THEN id_cnt + 1 ELSE id_cnt
    /\ issued' = issued + 1
    /\ enqMsg' = [enqMsg EXCEPT ![w] = issued + 1]
    /\ UNCHANGED <<ringVars, enqRet, calls, readerVars, historyVars>>

\* The memcpy and the store of the id; the consumer does not use the slot yet.
Fill(w) ==
    /\ enq[w] = "fill"
    /\ data' = [data EXCEPT ![w][qtail[w]] = enqMsg[w]]
    /\ ids' = [ids EXCEPT ![w][qtail[w]] = enqId[w]]
    /\ enq' = [enq EXCEPT ![w] = "publish"]
    /\ UNCHANGED <<id_cnt, qhead, qtail, enqId, enqMsg, enqRet, calls, issued,
                   readerVars, historyVars>>

\* After the barrier: the new tail; return 0.
Publish(w) ==
    /\ enq[w] = "publish"
    /\ qtail' = [qtail EXCEPT ![w] = NextIndex(@)]
    /\ enq' = [enq EXCEPT ![w] = "idle"]
    /\ enqRet' = [enqRet EXCEPT ![w] = 0]
    /\ UNCHANGED <<id_cnt, qhead, ids, data, enqId, enqMsg, calls, issued,
                   readerVars, historyVars>>

-----------------------------------------------------------------------------
(***************************************************************************)
(* wfmpscq_dequeue                                                         *)
(***************************************************************************)
Empty(w) == qhead[w] = qtail[w]

DequeueBegin ==
    /\ deq = "idle"
    /\ deq' = "scan"
    /\ i' = 0
    /\ min_id' = MAXID
    /\ queue_id' = -1
    /\ atStart' = [w \in Writer |->
                      IF Empty(w) THEN None ELSE data[w][qhead[w]]]
    /\ UNCHANGED <<id_cnt, ringVars, writerVars, dqstrat, lastqueue, deqRet,
                   buf, last, passed>>

KeepAny(w) == ~Empty(w)

\* IDABSOLUTE: the ring has a message, with an id below all those seen.
Better(w) == ~Empty(w) /\ ids[w][qhead[w]] < min_id

ScanById ==
    /\ deq = "scan"
    /\ dqstrat = "IDABSOLUTE"
    /\ i < NumWriter
    /\ i' = i + 1
    /\ IF Better(i)
       THEN min_id' = ids[i][qhead[i]] /\ queue_id' = i
       ELSE UNCHANGED <<min_id, queue_id>>
    /\ UNCHANGED <<id_cnt, ringVars, writerVars, dqstrat, deq, lastqueue, deqRet,
                   buf, historyVars>>

TurnStays == lastqueue
Turn == (lastqueue + 1) % NumWriter

\* ROUNDROBIN: the loop ends at the first ring that has a message.  Where none
\* has, the code reads an id from before the slots and drops it.
ScanInTurn ==
    /\ deq = "scan"
    /\ dqstrat = "ROUNDROBIN"
    /\ i < NumWriter
    /\ queue_id = -1
    /\ lastqueue' = Turn
    /\ IF Empty(Turn)
       THEN i' = i + 1 /\ UNCHANGED <<queue_id, min_id>>
       ELSE queue_id' = Turn /\ min_id' = ids[Turn][qhead[Turn]] /\ UNCHANGED i
    /\ UNCHANGED <<id_cnt, ringVars, writerVars, dqstrat, deq, deqRet, buf,
                   historyVars>>

\* The loop has ended.
ScanOver ==
    /\ deq = "scan"
    /\ i = NumWriter \/ (dqstrat = "ROUNDROBIN" /\ queue_id # -1)

\* All rings were empty when the scan came by: return -1.
DequeueEmpty ==
    /\ ScanOver
    /\ queue_id = -1
    /\ deq' = "idle"
    /\ deqRet' = -1
    /\ UNCHANGED <<id_cnt, ringVars, writerVars, dqstrat, i, min_id, queue_id,
                   lastqueue, buf, historyVars>>

\* The memcpy out of the slot.
DequeueCopy ==
    /\ ScanOver
    /\ queue_id # -1
    /\ deq' = "copy"
    /\ buf' = data[queue_id][qhead[queue_id]]
    /\ UNCHANGED <<id_cnt, ringVars, writerVars, dqstrat, i, min_id, queue_id,
                   lastqueue, deqRet, historyVars>>

\* The new head; return the id, an unsigned int, from a function of type int.
DequeueAdvance ==
    /\ deq = "copy"
    /\ qhead' = [qhead EXCEPT ![queue_id] = NextIndex(@)]
    /\ deq' = "idle"
    /\ deqRet' = ToInt(min_id)
    /\ last' = [last EXCEPT ![queue_id] = buf]
    /\ passed' = [w \in Writer |->
                     IF w = queue_id \/ atStart[w] = None THEN 0
                     ELSE passed[w] + 1]
    /\ UNCHANGED <<id_cnt, qtail, ids, data, writerVars, dqstrat, i, min_id,
                   queue_id, lastqueue, buf, atStart>>

-----------------------------------------------------------------------------
Enqueue(w) ==
    \/ EnqueueFull(w)
    \/ EnqueueBegin(w)
    \/ DrawId(w)
    \/ Fill(w)
    \/ Publish(w)

Dequeue ==
    \/ DequeueBegin
    \/ ScanById
    \/ ScanInTurn
    \/ DequeueEmpty
    \/ DequeueCopy
    \/ DequeueAdvance

Next == Dequeue \/ \E w \in Writer : Enqueue(w)

Spec == Init /\ [][Next]_vars

-----------------------------------------------------------------------------
(***************************************************************************)
(* Properties.                                                             *)
(***************************************************************************)
\* Every variable has its type: ids fit an unsigned int and what a dequeue
\* returns an int, the indices of the rings and of the scan stay in range.
TypeOK ==
    /\ id_cnt \in Nat
    /\ qhead \in [Writer -> Index] /\ qtail \in [Writer -> Index]
    /\ ids \in [Writer -> [Index -> 0 .. MAXID]]
    /\ data \in [Writer -> [Index -> Message \cup {None}]]
    /\ enq \in [Writer -> {"idle", "id", "fill", "publish"}]
    /\ enqId \in [Writer -> 0 .. MAXID]
    /\ enqMsg \in [Writer -> Message \cup {None}]
    /\ enqRet \in [Writer -> {0, -1}]
    /\ calls \in 0 .. MaxCalls /\ issued \in 0 .. calls
    /\ dqstrat \in {"IDABSOLUTE", "ROUNDROBIN"}
    /\ deq \in {"idle", "scan", "copy"}
    /\ i \in 0 .. NumWriter
    /\ min_id \in 0 .. MAXID
    /\ queue_id \in Writer \cup {-1}
    /\ lastqueue \in Writer
    /\ deqRet \in ToInt(MAXID \div 2 + 1) .. ToInt(MAXID \div 2)
    /\ buf \in Message \cup {None}
    /\ last \in [Writer -> Message \cup {None}]
    /\ atStart \in [Writer -> Message \cup {None}]
    /\ passed \in [Writer -> Nat]

\* The messages in a ring, oldest first.
Contents(w) ==
    [k \in 1 .. (qtail[w] - qhead[w]) % NumSlots |->
        data[w][(qhead[w] + k - 1) % NumSlots]]

WriterFifo(w) == INSTANCE BoundedFifo WITH
    Capacity <- NumSlots - 1, Blank <- None,
    queue <- Contents(w), putRet <- enqRet[w], takeRet <- 0, taken <- last[w]

\* Whatever the consumer picks and however its scan interleaves with the
\* writers, the messages of each writer arrive whole, once, in the order of its
\* calls, and a writer is refused only while its own ring holds NumSlots - 1.
WritersAreFifo ==
    /\ \A w \in Writer : WriterFifo(w)!Init
    /\ [][\A w \in Writer : [WriterFifo(w)!Next]_(WriterFifo(w)!vars)]_vars

\* wfmpscq.h:43 "the head of all queues with the lowest ID will be dequeued":
\* with DQSTR_IDABSOLUTE no message that was at the head of a ring when the
\* dequeue began is older than the one the dequeue takes, as long as there were
\* no more messages than the header allows.  (A message that arrives behind the
\* scan may be older.)
WithinIds == issued <= MAXID

LowestAtStart ==
    deq = "copy" /\ dqstrat = "IDABSOLUTE" /\ WithinIds
        => \A w \in Writer : atStart[w] # None => buf <= atStart[w]

\* A dequeue returns -1 only if every ring was empty when it began: the scan
\* looks at all of them, and what it saw empty had been empty before.  Only in
\* turn, and only for the id MAXID, does -1 come with a message, which is then
\* the one at the head of its ring.  By id this holds within the ids the header
\* allows; in turn there is no bound on the messages.
Refuses == deq # "idle" /\ deq' = "idle" /\ deqRet' = -1

RefusedIfEmpty ==
    [][Refuses /\ (dqstrat = "IDABSOLUTE" => WithinIds) =>
          IF qhead' = qhead
          THEN \A w \in Writer : atStart[w] = None
          ELSE dqstrat = "ROUNDROBIN" /\ ids[queue_id][qhead[queue_id]] = MAXID]_vars

\* With DQSTR_ROUNDROBIN a ring that has a message waits for at most one message
\* of each other ring, across dequeues and whatever the other writers do.
BoundedBypass ==
    dqstrat = "ROUNDROBIN"
        => \A w \in Writer : passed[w] <= NumWriter - 1
=============================================================================
