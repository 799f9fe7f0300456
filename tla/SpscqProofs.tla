---------------------------- MODULE SpscqProofs ----------------------------
(***************************************************************************)
(* Proofs about Spscq for every number of slots, every message size and    *)
(* every set of words: type correctness, the two safety invariants, and    *)
(* that the ring implements the bounded FIFO.                              *)
(*                                                                         *)
(* The argument.  SlotInv says what each process knows in the middle of    *)
(* its call: the consumer that the queue is not empty, the producer that   *)
(* it is not full, each that its copy agrees with its slot so far.  The    *)
(* other process cannot falsify it: the consumer only empties the queue,   *)
(* the producer only fills it, and the slot each works on is not the       *)
(* other's.                                                                *)
(***************************************************************************)
EXTENDS Spscq, SequenceTheorems, TLAPS

SlotInv ==
    /\ TypeOK
    /\ deq = "copy" => ~Empty
    /\ enq = "copy" => ~Full
    /\ enq = "copy" =>
          \A w \in 1 .. enqDone : slots[next_slot][w] = enqData[w]
    /\ deq = "copy" =>
          \A w \in 1 .. deqDone : deqData[w] = slots[head][w]

-----------------------------------------------------------------------------
(***************************************************************************)
(* Index arithmetic                                                        *)
(***************************************************************************)

\* A remainder of less than twice the divisor costs one subtraction.
LEMMA ModOnce ==
    ASSUME NEW x \in 0 .. (2 * NumSlots - 1)
    PROVE  x % NumSlots = IF x < NumSlots THEN x ELSE x - NumSlots
BY NumSlotsAssumption

\* NextIndex steps through the ring and wraps at its end.
LEMMA NextIndexIs ==
    ASSUME NEW i \in Index
    PROVE  /\ NextIndex(i) \in Index
           /\ NextIndex(i) = IF i + 1 = NumSlots THEN 0 ELSE i + 1
<1>1. i + 1 \in 0 .. (2 * NumSlots - 1)
  BY NumSlotsAssumption DEF Index
<1>. QED
  BY <1>1, ModOnce, NumSlotsAssumption DEF NextIndex, Index

\* The ring never holds more than NumSlots - 1 messages, none when head and
\* next_slot meet, and NumSlots - 1 exactly when Full says so.
LEMMA UsedIs ==
    ASSUME TypeOK
    PROVE  /\ Used \in 0 .. NumSlots - 1
           /\ Empty <=> Used = 0
           /\ Full <=> Used = NumSlots - 1
<1>1. head \in Index /\ next_slot \in Index
  BY DEF TypeOK
<1>2. NextIndex(next_slot) = IF next_slot + 1 = NumSlots THEN 0 ELSE next_slot + 1
  BY <1>1, NextIndexIs
<1>. QED
  BY <1>1, <1>2, NumSlotsAssumption DEF Used, Empty, Full, Index

\* The slot i - 1 places after h in the ring.
LEMMA RingIndexIs ==
    ASSUME NEW h \in Index, NEW i \in 1 .. NumSlots
    PROVE  (h + i - 1) % NumSlots = IF h + i - 1 < NumSlots THEN h + i - 1
                                                   ELSE h + i - 1 - NumSlots
<1> DEFINE x == h + i - 1
<1>1. x \in 0 .. (2 * NumSlots - 1)
  BY NumSlotsAssumption DEF Index
<1> HIDE DEF x
<1>2. x % NumSlots = IF x < NumSlots THEN x ELSE x - NumSlots
  BY <1>1, ModOnce
<1>. QED
  BY <1>2, NumSlotsAssumption DEF x, Index

\* The used slots start at head, end before next_slot, and are all distinct
\* from next_slot.
LEMMA SlotOfIs ==
    ASSUME TypeOK, NEW i \in 1 .. NumSlots
    PROVE  /\ SlotOf(i) \in Index
           /\ SlotOf(i) = IF head + i - 1 < NumSlots THEN head + i - 1
                                              ELSE head + i - 1 - NumSlots
           /\ SlotOf(1) = head
           /\ i <= Used => SlotOf(i) # next_slot
           /\ i = Used + 1 => SlotOf(i) = next_slot
<1>1. head \in Index /\ next_slot \in Index
  BY DEF TypeOK
<1>2. SlotOf(i) = IF head + i - 1 < NumSlots THEN head + i - 1
                                        ELSE head + i - 1 - NumSlots
  BY <1>1, RingIndexIs DEF SlotOf
<1>3. SlotOf(1) = head
  <2>1. SlotOf(1) = IF head + 1 - 1 < NumSlots THEN head + 1 - 1
                                          ELSE head + 1 - 1 - NumSlots
    BY <1>1, RingIndexIs, NumSlotsAssumption DEF SlotOf
  <2>. QED
    BY <1>1, <2>1, NumSlotsAssumption DEF Index
<1>. QED
  BY <1>1, <1>2, <1>3, NumSlotsAssumption DEF Index, Used

-----------------------------------------------------------------------------
(***************************************************************************)
(* The inductive invariant                                                 *)
(***************************************************************************)

\* A fresh segment whose indices spscq_get has set.
LEMMA SlotInvInit == Init => SlotInv
BY NumSlotsAssumption, SlotWordsAssumption, ZeroAssumption
   DEF Init, SlotInv, TypeOK, Index, Message, Blank

\* No step of either process makes a variable leave its range.
LEMMA TypeOKStep == TypeOK /\ [Next]_vars => TypeOK'
<1> SUFFICES ASSUME TypeOK, [Next]_vars PROVE TypeOK'
  OBVIOUS
<1> USE DEF TypeOK
<1>1. CASE EnqueueFull
  BY <1>1 DEF EnqueueFull, consVars
<1>2. ASSUME NEW m \in Message, EnqueueBegin(m) PROVE TypeOK'
  BY <1>2, SlotWordsAssumption DEF EnqueueBegin, consVars
<1>3. CASE EnqueueCopy
  <2>1. enqDone + 1 \in 1 .. SlotWords
    BY <1>3, SlotWordsAssumption DEF EnqueueCopy
  <2>2. slots' \in [Index -> Message]
    BY <1>3, <2>1 DEF EnqueueCopy, Message
  <2>. QED
    BY <1>3, <2>1, <2>2 DEF EnqueueCopy, consVars
<1>4. CASE EnqueuePublish
  BY <1>4, NextIndexIs DEF EnqueuePublish, consVars
<1>5. CASE DequeueEmpty
  BY <1>5 DEF DequeueEmpty, prodVars
<1>6. CASE DequeueBegin
  BY <1>6, SlotWordsAssumption DEF DequeueBegin, prodVars
<1>7. CASE DequeueCopy
  <2>1. deqDone + 1 \in 1 .. SlotWords
    BY <1>7, SlotWordsAssumption DEF DequeueCopy
  <2>2. deqData' \in Message
    BY <1>7, <2>1 DEF DequeueCopy, Message
  <2>. QED
    BY <1>7, <2>1, <2>2 DEF DequeueCopy, prodVars
<1>8. CASE DequeueAdvance
  BY <1>8, NextIndexIs DEF DequeueAdvance, prodVars
<1>9. CASE UNCHANGED vars
  BY <1>9 DEF vars, prodVars, consVars
<1>. QED
  BY <1>1, <1>2, <1>3, <1>4, <1>5, <1>6, <1>7, <1>8, <1>9
     DEF Next, Producer, Consumer

\* Every step keeps what both processes know of the slots they work on.
LEMMA SlotInvStep == SlotInv /\ [Next]_vars => SlotInv'
<1> SUFFICES ASSUME SlotInv, [Next]_vars PROVE SlotInv'
  OBVIOUS
<1>0. TypeOK /\ TypeOK'
  BY TypeOKStep DEF SlotInv
<1>n. /\ NextIndex(head) = IF head + 1 = NumSlots THEN 0 ELSE head + 1
      /\ NextIndex(next_slot) = IF next_slot + 1 = NumSlots THEN 0
                                                          ELSE next_slot + 1
      /\ NextIndex(next_slot') = IF next_slot' + 1 = NumSlots THEN 0
                                                          ELSE next_slot' + 1
  BY <1>0, NextIndexIs DEF TypeOK
<1>1. CASE EnqueueFull
  BY <1>0, <1>1 DEF EnqueueFull, SlotInv, consVars, Empty, Full
<1>2. ASSUME NEW m \in Message, EnqueueBegin(m) PROVE SlotInv'
  BY <1>0, <1>2 DEF EnqueueBegin, SlotInv, consVars, Empty, Full
<1>3. CASE EnqueueCopy
  <2> USE <1>3 DEF EnqueueCopy, consVars
  <2>1. (deq = "copy" => ~Empty)' /\ (enq = "copy" => ~Full)'
    BY DEF SlotInv, Empty, Full
  <2>2. (enq = "copy" =>
            \A w \in 1 .. enqDone : slots[next_slot][w] = enqData[w])'
    BY <1>0 DEF SlotInv, TypeOK, Message
  <2>3. deq = "copy" => slots'[head] = slots[head]
    BY <1>0 DEF SlotInv, TypeOK, Empty
  <2>. QED
    BY <1>0, <2>1, <2>2, <2>3 DEF SlotInv
<1>4. CASE EnqueuePublish
  BY <1>0, <1>4, <1>n
     DEF EnqueuePublish, SlotInv, TypeOK, consVars, Empty, Full, Index
<1>5. CASE DequeueEmpty
  BY <1>0, <1>5 DEF DequeueEmpty, SlotInv, prodVars, Empty, Full
<1>6. CASE DequeueBegin
  BY <1>0, <1>6 DEF DequeueBegin, SlotInv, prodVars, Empty, Full
<1>7. CASE DequeueCopy
  BY <1>0, <1>7
     DEF DequeueCopy, SlotInv, TypeOK, Message, prodVars, Empty, Full
<1>8. CASE DequeueAdvance
  BY <1>0, <1>8, <1>n
     DEF DequeueAdvance, SlotInv, TypeOK, prodVars, Empty, Full, Index
<1>9. CASE UNCHANGED vars
  BY <1>0, <1>9 DEF SlotInv, vars, prodVars, consVars, Empty, Full
<1>. QED
  BY <1>1, <1>2, <1>3, <1>4, <1>5, <1>6, <1>7, <1>8, <1>9
     DEF Next, Producer, Consumer

\* SlotInv holds in every reachable state.
LEMMA SlotInvHolds == Spec => []SlotInv
<1>. QED
  BY SlotInvInit, SlotInvStep, PTL DEF Spec

\* Type correctness of the queue's state, for every instance.
THEOREM TypeCorrect == Spec => []TypeOK
<1>1. SlotInv => TypeOK
  BY DEF SlotInv
<1>. QED
  BY <1>1, SlotInvHolds, PTL

\* The producer never writes the slot the consumer reads, whatever the
\* interleaving of the two memcpys.
THEOREM SlotsNotShared == Spec => []NoSlotShared
<1>1. SlotInv => NoSlotShared
  BY DEF SlotInv, NoSlotShared, Empty
<1>. QED
  BY <1>1, SlotInvHolds, PTL

\* What a dequeue has copied is what the oldest slot holds.
THEOREM CopiesFaithful == Spec => []CopyIsFaithful
<1>1. SlotInv => CopyIsFaithful
  <2> SUFFICES ASSUME SlotInv, deq = "copy"
               PROVE  Used > 0 /\ \A w \in 1 .. deqDone :
                                       deqData[w] = slots[head][w]
    BY DEF CopyIsFaithful
  <2>1. Used > 0
    BY UsedIs, NumSlotsAssumption DEF SlotInv
  <2>. QED
    BY <2>1 DEF SlotInv
<1>. QED
  BY <1>1, SlotInvHolds, PTL

-----------------------------------------------------------------------------
(***************************************************************************)
(* The ring implements the bounded FIFO                                    *)
(***************************************************************************)

\* Two messages that agree on every word are the same.
LEMMA SameMessage ==
    ASSUME NEW m \in Message, NEW n \in Message,
           \A w \in 1 .. SlotWords : m[w] = n[w]
    PROVE  m = n
<1>1. /\ m = [w \in 1 .. SlotWords |-> m[w]]
      /\ n = [w \in 1 .. SlotWords |-> n[w]]
  BY DEF Message
<1>. QED
  BY <1>1

\* Contents is a sequence of Used messages.
LEMMA ContentsIsSeq ==
    ASSUME TypeOK
    PROVE  /\ Contents \in Seq(Message)
           /\ Len(Contents) = Used
           /\ \A i \in 1 .. Used : Contents[i] = slots[SlotOf(i)]
<1>1. Used \in Nat /\ Used <= NumSlots
  BY UsedIs, NumSlotsAssumption
<1>2. \A i \in 1 .. Used : SlotOf(i) \in Index
  BY <1>1, SlotOfIs, NumSlotsAssumption
<1>3. \A i \in 1 .. Used : slots[SlotOf(i)] \in Message
  BY <1>2 DEF TypeOK
<1>. QED
  BY <1>1, <1>3 DEF Contents

\* Writing the free slot does not change what is inside the queue.
LEMMA ContentsStable ==
    ASSUME TypeOK, UNCHANGED <<head, next_slot>>,
           \A i \in Index : i # next_slot => slots'[i] = slots[i]
    PROVE  Contents' = Contents
<1>1. Used' = Used /\ \A i : SlotOf(i)' = SlotOf(i)
  BY DEF Used, SlotOf
<1>2. \A i \in 1 .. Used : SlotOf(i) \in Index /\ SlotOf(i) # next_slot
  BY UsedIs, SlotOfIs, NumSlotsAssumption
<1>3. \A i \in 1 .. Used : slots'[SlotOf(i)] = slots[SlotOf(i)]
  BY <1>2
<1>. QED
  BY <1>1, <1>3 DEF Contents

\* Publishing the slot at next_slot appends its message.
LEMMA PublishAppends ==
    ASSUME SlotInv, EnqueuePublish
    PROVE  Fifo!Put(enqData)
<1>0. TypeOK /\ TypeOK'
  BY TypeOKStep DEF SlotInv, Next, Producer
<1>1. ~Full /\ Used < NumSlots - 1
  BY <1>0, UsedIs, NumSlotsAssumption DEF SlotInv, EnqueuePublish
<1>2. Used' = Used + 1 /\ \A i : SlotOf(i)' = SlotOf(i)
  <2>1. head' = head /\ NextIndex(next_slot) # head
    BY <1>1 DEF EnqueuePublish, Full, consVars
  <2>2. next_slot' = IF next_slot + 1 = NumSlots THEN 0 ELSE next_slot + 1
    BY <1>0, NextIndexIs DEF EnqueuePublish, TypeOK
  <2>3. next_slot' # head
    BY <2>1 DEF EnqueuePublish
  <2>4. Used' = Used + 1
    BY <1>0, <2>1, <2>2, <2>3, NumSlotsAssumption DEF Used, TypeOK, Index
  <2>. QED
    BY <2>1, <2>4 DEF SlotOf
<1>3. slots' = slots /\ slots[next_slot] = enqData
  <2>1. slots[next_slot] \in Message /\ enqData \in Message
    BY <1>0 DEF TypeOK
  <2>2. \A w \in 1 .. SlotWords : slots[next_slot][w] = enqData[w]
    BY DEF SlotInv, EnqueuePublish
  <2>. QED
    BY <2>1, <2>2, SameMessage DEF EnqueuePublish
<1>4. /\ Used \in Nat /\ Used + 1 \in 1 .. NumSlots
      /\ SlotOf(Used + 1) = next_slot
  BY <1>0, <1>1, UsedIs, SlotOfIs, NumSlotsAssumption
<1>5. Contents' = Append(Contents, enqData)
  <2>1. /\ Contents \in Seq(Message) /\ Len(Contents) = Used
        /\ \A i \in 1 .. Used : Contents[i] = slots[SlotOf(i)]
    BY <1>0, ContentsIsSeq
  <2>2. Contents' = [i \in 1 .. Used + 1 |-> slots[SlotOf(i)]]
    BY <1>2, <1>3 DEF Contents
  <2>3. \A i \in 1 .. Used + 1 : Contents'[i] = Append(Contents, enqData)[i]
    BY <1>3, <1>4, <2>1, <2>2
  <2>4. Append(Contents, enqData) \in Seq(Message)
        /\ Len(Append(Contents, enqData)) = Used + 1
    BY <1>0, <2>1 DEF TypeOK
  <2>5. \A i \in 1 .. Used + 1 : slots[SlotOf(i)] \in Message
    BY <2>2, <2>3, <2>4, <1>4, ElementOfSeq
  <2>6. Contents' \in Seq(Message) /\ Len(Contents') = Used + 1
    BY <1>4, <2>2, <2>5
  <2>. QED
    BY <2>3, <2>4, <2>6, SeqEqual
<1>6. Len(Contents) < NumSlots - 1
  BY <1>0, <1>1, ContentsIsSeq
<1>. QED
  BY <1>5, <1>6 DEF Fifo!Put, EnqueuePublish, consVars

\* Advancing head removes the oldest message, and it is the one delivered.
LEMMA AdvanceTakes ==
    ASSUME SlotInv, DequeueAdvance
    PROVE  Fifo!Take
<1>0. TypeOK
  BY DEF SlotInv
<1>1. Used > 0 /\ Used \in 1 .. NumSlots - 1
  BY <1>0, UsedIs, NumSlotsAssumption DEF SlotInv, DequeueAdvance
<1>2. head' = IF head + 1 = NumSlots THEN 0 ELSE head + 1
  BY <1>0, NextIndexIs DEF DequeueAdvance, TypeOK
<1>3. head' \in Index /\ next_slot' = next_slot /\ slots' = slots
  BY <1>0, NextIndexIs DEF DequeueAdvance, TypeOK
<1>4. Used' = Used - 1
  BY <1>0, <1>1, <1>2, <1>3, NumSlotsAssumption DEF Used, TypeOK, Index
<1>5. \A i \in 1 .. Used - 1 : SlotOf(i)' = SlotOf(i + 1)
  <2> SUFFICES ASSUME NEW i \in 1 .. Used - 1 PROVE SlotOf(i)' = SlotOf(i + 1)
    OBVIOUS
  <2>1. i \in 1 .. NumSlots /\ i + 1 \in 1 .. NumSlots
    BY <1>1, NumSlotsAssumption
  <2>2. SlotOf(i)' = IF head' + i - 1 < NumSlots THEN head' + i - 1
                                            ELSE head' + i - 1 - NumSlots
    BY <1>3, <2>1, RingIndexIs DEF SlotOf
  <2>3. SlotOf(i + 1) = IF head + (i + 1) - 1 < NumSlots THEN head + (i + 1) - 1
                                       ELSE head + (i + 1) - 1 - NumSlots
    BY <1>0, <2>1, SlotOfIs
  <2>. QED
    BY <1>0, <1>2, <2>1, <2>2, <2>3, NumSlotsAssumption DEF TypeOK, Index
<1>6. /\ Contents \in Seq(Message) /\ Len(Contents) = Used
      /\ \A i \in 1 .. Used : Contents[i] = slots[SlotOf(i)]
  BY <1>0, ContentsIsSeq
<1>7. Contents # <<>>
  BY <1>1, <1>6
<1>8. Contents' = Tail(Contents)
  <2>1. Contents' = [i \in 1 .. Used - 1 |-> slots[SlotOf(i + 1)]]
    BY <1>3, <1>4, <1>5 DEF Contents
  <2>2. /\ Tail(Contents) \in Seq(Message)
        /\ Len(Tail(Contents)) = Used - 1
        /\ \A i \in 1 .. Used - 1 : Tail(Contents)[i] = Contents[i + 1]
    BY <1>6, <1>7, HeadTailProperties
  <2>3. \A i \in 1 .. Used - 1 : slots[SlotOf(i + 1)] \in Message
    BY <1>1, <1>6, ElementOfSeq
  <2>4. Contents' \in Seq(Message) /\ Len(Contents') = Used - 1
    BY <1>1, <2>1, <2>3
  <2>5. \A i \in 1 .. Used - 1 : Contents'[i] = Tail(Contents)[i]
    BY <1>1, <1>6, <2>1, <2>2
  <2>. QED
    BY <2>2, <2>4, <2>5, SeqEqual
<1>9. received' = Head(Contents)
  <2>1. SlotOf(1) = head
    BY <1>0, SlotOfIs, NumSlotsAssumption
  <2>2. Head(Contents) = slots[head]
    BY <1>1, <1>6, <1>7, <2>1
  <2>3. slots[head] \in Message /\ deqData \in Message
    BY <1>0 DEF TypeOK
  <2>4. \A w \in 1 .. SlotWords : deqData[w] = slots[head][w]
    BY DEF SlotInv, DequeueAdvance
  <2>5. deqData = slots[head]
    BY <2>3, <2>4, SameMessage
  <2>. QED
    BY <2>2, <2>5 DEF DequeueAdvance
<1>. QED
  BY <1>7, <1>8, <1>9 DEF Fifo!Take, DequeueAdvance, prodVars

\* Every behaviour of the two processes is one of the bounded FIFO: a message
\* is delivered once, whole and in order, and a call is refused only when the
\* queue is full (NumSlots - 1 messages) or empty at that moment.
THEOREM RingImplementsFifo == Spec => ImplementsFifo
<1>1. Init => Fifo!Init
  <2> SUFFICES ASSUME Init PROVE Fifo!Init
    OBVIOUS
  <2>1. Used = 0
    BY DEF Init, Used
  <2>2. Contents = <<>>
    BY <2>1 DEF Contents
  <2>. QED
    BY <2>2 DEF Init, Fifo!Init
<1>2. SlotInv /\ [Next]_vars => [Fifo!Next]_(Fifo!vars)
  <2> SUFFICES ASSUME SlotInv, [Next]_vars PROVE [Fifo!Next]_(Fifo!vars)
    OBVIOUS
  <2>0. TypeOK
    BY DEF SlotInv
  <2>1. CASE EnqueueFull
    <3>1. Contents' = Contents
      BY <2>0, <2>1, ContentsStable DEF EnqueueFull
    <3>2. Len(Contents) = NumSlots - 1
      BY <2>0, <2>1, UsedIs, ContentsIsSeq DEF EnqueueFull
    <3>. QED
      BY <2>1, <3>1, <3>2
         DEF Fifo!Next, Fifo!PutRefused, EnqueueFull, consVars
  <2>2. ASSUME NEW m \in Message, EnqueueBegin(m) PROVE UNCHANGED Fifo!vars
    <3>1. Contents' = Contents
      BY <2>0, <2>2, ContentsStable DEF EnqueueBegin
    <3>. QED
      BY <2>2, <3>1 DEF Fifo!vars, EnqueueBegin, consVars
  <2>3. CASE EnqueueCopy
    <3>1. \A i \in Index : i # next_slot => slots'[i] = slots[i]
      BY <2>0, <2>3 DEF EnqueueCopy, TypeOK
    <3>2. Contents' = Contents
      BY <2>0, <2>3, <3>1, ContentsStable DEF EnqueueCopy
    <3>. QED
      BY <2>3, <3>2 DEF Fifo!vars, EnqueueCopy, consVars
  <2>4. CASE EnqueuePublish
    BY <2>0, <2>4, PublishAppends DEF Fifo!Next, TypeOK
  <2>5. CASE DequeueEmpty
    <3>1. Contents' = Contents
      BY <2>0, <2>5, ContentsStable DEF DequeueEmpty
    <3>2. Contents = <<>>
      BY <2>0, <2>5, UsedIs, ContentsIsSeq, EmptySeq DEF DequeueEmpty
    <3>. QED
      BY <2>5, <3>1, <3>2
         DEF Fifo!Next, Fifo!TakeRefused, DequeueEmpty, prodVars
  <2>6. CASE DequeueBegin
    <3>1. Contents' = Contents
      BY <2>0, <2>6, ContentsStable DEF DequeueBegin
    <3>. QED
      BY <2>6, <3>1 DEF Fifo!vars, DequeueBegin, prodVars
  <2>7. CASE DequeueCopy
    <3>1. Contents' = Contents
      BY <2>0, <2>7, ContentsStable DEF DequeueCopy
    <3>. QED
      BY <2>7, <3>1 DEF Fifo!vars, DequeueCopy, prodVars
  <2>8. CASE DequeueAdvance
    BY <2>8, AdvanceTakes DEF Fifo!Next
  <2>9. CASE UNCHANGED vars
    <3>1. Contents' = Contents
      BY <2>0, <2>9, ContentsStable DEF vars
    <3>. QED
      BY <2>9, <3>1 DEF Fifo!vars, vars, prodVars, consVars
  <2>. QED
    BY <2>1, <2>2, <2>3, <2>4, <2>5, <2>6, <2>7, <2>8, <2>9
       DEF Next, Producer, Consumer
<1>3. QED
  BY <1>1, <1>2, SlotInvHolds, PTL DEF Spec, ImplementsFifo, Fifo!Spec
=============================================================================
