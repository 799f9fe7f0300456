------------------------------- MODULE Spscq -------------------------------
(***************************************************************************)
(* The wait-free single-producer single-consumer queue of src/spscq.c: a   *)
(* ring of NumSlots slots in shared memory, the index head of the oldest   *)
(* message (written by the consumer only) and the index next_slot of the   *)
(* first free slot (written by the producer only).                         *)
(*                                                                         *)
(* A step is one access to a location the other process may write, so the  *)
(* two calls interleave as two processes on two processors do.  A message  *)
(* is a vector of SlotWords words and hwfunctions_memcpy moves one word a  *)
(* step: a slot may be seen half written.  A process may stop at any step  *)
(* (a crash of it, as far as the other one can tell).                      *)
(*                                                                         *)
(* FullUnchecked, EmptyOffByOne and the like are faulty variants of the    *)
(* definition that follows them; no action uses them.                      *)
(***************************************************************************)
EXTENDS Integers, Sequences

CONSTANTS
    NumSlots,   \* qd->numSlots
    SlotWords,  \* the words hwfunctions_memcpy copies (qd->slotSize)
    Word,       \* the values of a word
    Zero        \* the word of a fresh shared memory segment

ASSUME NumSlotsAssumption  == NumSlots \in Nat \ {0}
ASSUME SlotWordsAssumption == SlotWords \in Nat \ {0}
ASSUME ZeroAssumption      == Zero \in Word

VARIABLES
    head,       \* q->head: first used slot
    next_slot,  \* q->next_slot: next free slot
    slots,      \* the slots behind the head structure
    enq,        \* the producer: "idle" or "copy" (between check and return)
    enqData,    \* the message of the current enqueue
    enqDone,    \* words its memcpy has written
    enqRet,     \* return value of the latest finished enqueue
    deq,        \* the consumer: "idle" or "copy"
    deqData,    \* the buffer the current dequeue fills
    deqDone,    \* words its memcpy has read
    deqRet,     \* return value of the latest finished dequeue
    received    \* the buffer as the latest successful dequeue returned it

prodVars == <<enq, enqData, enqDone, enqRet>>
consVars == <<deq, deqData, deqDone, deqRet, received>>
vars     == <<head, next_slot, slots, prodVars, consVars>>

Index   == 0 .. NumSlots - 1
Message == [1 .. SlotWords -> Word]
Blank   == [w \in 1 .. SlotWords |-> Zero]

(***************************************************************************)
(* spscq_get: the first user sets both indices; a new segment is zero.     *)
(***************************************************************************)
Init ==
    /\ head = 0
    /\ next_slot = 0
    /\ slots = [i \in Index |-> Blank]
    /\ enq = "idle" /\ enqData = Blank /\ enqDone = 0 /\ enqRet = 0
    /\ deq = "idle" /\ deqData = Blank /\ deqDone = 0 /\ deqRet = 0
    /\ received = Blank

NextIndexUnwrapped(i) == i + 1
NextIndex(i) == (i + 1) % NumSlots

FullUnchecked == FALSE
Full == NextIndex(next_slot) = head

EmptyOffByOne == head = next_slot \/ NextIndex(head) = next_slot
Empty == head = next_slot

-----------------------------------------------------------------------------
(***************************************************************************)
(* spscq_enqueue                                                           *)
(***************************************************************************)

\* The queue is full at the moment head is read: return -1.
EnqueueFull ==
    /\ enq = "idle"
    /\ Full
    /\ enqRet' = -1
    /\ UNCHANGED <<head, next_slot, slots, enq, enqData, enqDone, consVars>>

\* There is room: the slot at next_slot is chosen for the caller's data.
EnqueueBegin(m) ==
    /\ enq = "idle"
    /\ ~Full
    /\ enq' = "copy"
    /\ enqData' = m
    /\ enqDone' = 0
    /\ UNCHANGED <<head, next_slot, slots, enqRet, consVars>>

\* One word of the memcpy into the slot.
EnqueueCopy ==
    /\ enq = "copy"
    /\ enqDone < SlotWords
    /\ slots' = [slots EXCEPT ![next_slot][enqDone + 1] = enqData[enqDone + 1]]
    /\ enqDone' = enqDone + 1
    /\ UNCHANGED <<head, next_slot, enq, enqData, enqRet, consVars>>

\* After the memcpy and the barrier: publish the slot and return 0.
EnqueuePublish ==
    /\ enq = "copy"
    /\ enqDone = SlotWords
    /\ next_slot' = NextIndex(next_slot)
    /\ enq' = "idle"
    /\ enqRet' = 0
    /\ UNCHANGED <<head, slots, enqData, enqDone, consVars>>

-----------------------------------------------------------------------------
(***************************************************************************)
(* spscq_dequeue                                                           *)
(***************************************************************************)

\* The queue is empty at the moment next_slot is read: return -1.
DequeueEmpty ==
    /\ deq = "idle"
    /\ Empty
    /\ deqRet' = -1
    /\ UNCHANGED <<head, next_slot, slots, prodVars, deq, deqData, deqDone,
                   received>>

\* There is a message in the slot at head.
DequeueBegin ==
    /\ deq = "idle"
    /\ ~Empty
    /\ deq' = "copy"
    /\ deqDone' = 0
    /\ UNCHANGED <<head, next_slot, slots, prodVars, deqData, deqRet, received>>

\* One word of the memcpy out of the slot.
DequeueCopy ==
    /\ deq = "copy"
    /\ deqDone < SlotWords
    /\ deqData' = [deqData EXCEPT ![deqDone + 1] = slots[head][deqDone + 1]]
    /\ deqDone' = deqDone + 1
    /\ UNCHANGED <<head, next_slot, slots, prodVars, deq, deqRet, received>>

DequeueKeepsSlot ==
    /\ deq = "copy"
    /\ deqDone = SlotWords
    /\ deq' = "idle"
    /\ deqRet' = 0
    /\ received' = deqData
    /\ UNCHANGED <<head, next_slot, slots, prodVars, deqData, deqDone>>

\* After the memcpy and the barrier: free the slot and return 0.
DequeueAdvance ==
    /\ deq = "copy"
    /\ deqDone = SlotWords
    /\ head' = NextIndex(head)
    /\ deq' = "idle"
    /\ deqRet' = 0
    /\ received' = deqData
    /\ UNCHANGED <<next_slot, slots, prodVars, deqData, deqDone>>

-----------------------------------------------------------------------------
Producer ==
    \/ EnqueueFull
    \/ \E m \in Message : EnqueueBegin(m)
    \/ EnqueueCopy
    \/ EnqueuePublish

Consumer ==
    \/ DequeueEmpty
    \/ DequeueBegin
    \/ DequeueCopy
    \/ DequeueAdvance

Next == Producer \/ Consumer

Spec == Init /\ [][Next]_vars

\* Both processes run on processors of their own and retry refused calls, as
\* the loops of benchmark/spscq-latency/spscq-latency.c do.
FairSpec == Spec /\ WF_vars(Producer) /\ WF_vars(Consumer)

-----------------------------------------------------------------------------
(***************************************************************************)
(* Properties                                                              *)
(***************************************************************************)

\* Every variable keeps the range its C declaration and its uses give it.
TypeOK ==
    /\ head \in Index
    /\ next_slot \in Index
    /\ slots \in [Index -> Message]
    /\ enq \in {"idle", "copy"}
    /\ enqData \in Message
    /\ enqDone \in 0 .. SlotWords
    /\ enqRet \in {0, -1}
    /\ deq \in {"idle", "copy"}
    /\ deqData \in Message
    /\ deqDone \in 0 .. SlotWords
    /\ deqRet \in {0, -1}
    /\ received \in Message

\* The number of messages between the two indices.
Used == IF next_slot >= head THEN next_slot - head
                             ELSE next_slot - head + NumSlots

\* The slot of the i-th oldest message.
SlotOf(i) == (head + i - 1) % NumSlots

\* The messages inside the ring, oldest first.
Contents == [i \in 1 .. Used |-> slots[SlotOf(i)]]

\* The slot spscq_enqueue writes is never the one spscq_dequeue reads: the
\* room check at the start of the one and the empty check at the start of the
\* other still hold when their copies run.
NoSlotShared == enq = "copy" /\ deq = "copy" => next_slot # head

\* What a dequeue has copied so far is what the oldest slot holds: a message
\* is delivered whole although it is copied word by word beside a producer
\* that may wrap around the ring meanwhile.
CopyIsFaithful ==
    deq = "copy" =>
        /\ Used > 0
        /\ \A w \in 1 .. deqDone : deqData[w] = slots[head][w]

\* The ring implements a bounded FIFO of NumSlots - 1 messages: the order,
\* the integrity of each message, and when a call may be refused.
Fifo == INSTANCE BoundedFifo
          WITH Capacity <- NumSlots - 1,
               queue <- Contents, putRet <- enqRet,
               takeRet <- deqRet, taken <- received

ImplementsFifo == Fifo!Spec

\* A refused enqueue that is retried is accepted eventually: the slot the
\* consumer gives back is seen by the producer.
RetrySucceeds == (enqRet = -1) ~> (enqRet = 0)
=============================================================================
