--------------------------- MODULE WfmpscqProofs ---------------------------
(***************************************************************************)
(* Proofs about Wfmpscq for every number of writers and of slots: type     *)
(* correctness, the order of the messages of one writer, and what the two  *)
(* strategies promise the others.                                          *)
(*                                                                         *)
(* The argument.  Only the consumer takes messages out of a ring, so a     *)
(* ring that has one when a scan begins keeps it at its head until the     *)
(* scan takes it (HeadsStay).  The scan by id therefore meets every        *)
(* message that was at a head when it began, and min_id ends below them    *)
(* all (SeenById).  The scan in turn stops at the first ring with a        *)
(* message: the number of steps to a ring that waits falls with every      *)
(* message taken from another one (Bypass).                                *)
(***************************************************************************)
EXTENDS Wfmpscq, FiniteSetTheorems, SequenceTheorems, TLAPS

\* The writers that have begun an enqueue and not drawn its id.
Drawing == {w \in Writer : enq[w] = "id"}

\* The slots of a ring from its head to its tail.
InUse(w, s) ==
    IF qhead[w] <= qtail[w] THEN qhead[w] <= s /\ s < qtail[w]
                            ELSE qhead[w] <= s \/ s < qtail[w]

\* The two sides of each ring: a slot is free when its writer fills it, and
\* there is a message when the consumer takes it.
RingInv ==
    /\ \A w \in Writer, s \in Index : InUse(w, s) => data[w][s] \in Message
    /\ Cardinality(Drawing) = calls - issued
    /\ \A w \in Writer : enq[w] # "idle" => ~Full(w)
    /\ \A w \in Writer : enq[w] \in {"fill", "publish"} => enqMsg[w] \in Message
    /\ \A w \in Writer : enq[w] = "publish" => data[w][qtail[w]] = enqMsg[w]
    /\ deq # "idle" /\ queue_id # -1 => ~Empty(queue_id)
    /\ deq = "copy" => queue_id # -1 /\ buf = data[queue_id][qhead[queue_id]]

\* What was at the head of a ring when the scan began is there still.
HeadsStay ==
    deq # "idle" => \A w \in Writer :
        atStart[w] # None => ~Empty(w) /\ data[w][qhead[w]] = atStart[w]

\* As many steps the scan in turn is away from a ring.
Distance(w) == IF w > lastqueue THEN w - lastqueue ELSE w - lastqueue + NumWriter

\* A ring the scan in turn has not come to yet is not behind it.
SeenInTurn ==
    deq = "scan" /\ dqstrat = "ROUNDROBIN" /\ queue_id = -1 =>
        \A w \in Writer : atStart[w] # None => Distance(w) <= NumWriter - i

\* A ring that was passed over has a message.  It is as many steps away as it
\* may still be passed over, one less if another ring has been selected.
Bypass ==
    /\ \A w \in Writer : passed[w] > 0 => ~Empty(w)
    /\ dqstrat = "ROUNDROBIN" => \A w \in Writer :
          IF deq # "idle" /\ queue_id = w THEN passed[w] <= NumWriter - 1
          ELSE IF deq # "idle" /\ queue_id # -1 /\ atStart[w] # None
               THEN passed[w] + Distance(w) <= NumWriter - 1
               ELSE passed[w] + Distance(w) <= NumWriter

QueueInv ==
    /\ TypeOK
    /\ RingInv
    /\ HeadsStay
    /\ SeenInTurn
    /\ Bypass

\* The id that goes with a message, as long as the counter has not come round:
\* where atomic_faa64u does not add it is always 0.
IdOf(m) == IF FaaAdds THEN m - 1 ELSE 0

\* Within the ids the header allows, a message tells its id.
IdInv ==
    /\ FaaAdds => id_cnt = issued
    /\ \A w \in Writer : enqMsg[w] <= issued
    /\ \A w \in Writer, s \in Index : data[w][s] <= issued
    /\ WithinIds =>
          /\ \A w \in Writer : enq[w] \in {"fill", "publish"} =>
                                   enqId[w] = IdOf(enqMsg[w])
          /\ \A w \in Writer, s \in Index :
                data[w][s] # None => ids[w][s] = IdOf(data[w][s])

\* min_id is the id of the message selected, whatever ids there are.
Selected ==
    deq # "idle" /\ queue_id # -1 => min_id = ids[queue_id][qhead[queue_id]]

\* Within the ids the header allows, min_id is not above the id of a message
\* that was at the head of a ring already looked at.
SeenById ==
    dqstrat = "IDABSOLUTE" /\ deq # "idle" /\ WithinIds =>
        /\ \A w \in Writer :
              atStart[w] # None /\ (w < i \/ deq = "copy") =>
                  queue_id # -1 /\ min_id <= IdOf(atStart[w])
        /\ queue_id = -1 => min_id = MAXID

IdOrder == IdInv /\ Selected /\ SeenById

-----------------------------------------------------------------------------
(***************************************************************************)
(* Index arithmetic                                                        *)
(***************************************************************************)

\* NextIndex steps through a ring and wraps at its end.
LEMMA NextIndexIs ==
    ASSUME NEW k \in Index
    PROVE  /\ NextIndex(k) \in Index
           /\ NextIndex(k) = IF k + 1 = NumSlots THEN 0 ELSE k + 1
<1> DEFINE x == k + 1
<1>1. x \in 1 .. NumSlots
  BY NumSlotsAssumption DEF Index
<1> HIDE DEF x
<1>2. x % NumSlots = IF x = NumSlots THEN 0 ELSE x
  BY <1>1, NumSlotsAssumption
<1>. QED
  BY <1>1, <1>2, NumSlotsAssumption DEF x, NextIndex, Index

\* So does Turn through the writers.
LEMMA TurnIs ==
    ASSUME lastqueue \in Writer
    PROVE  /\ Turn \in Writer
           /\ Turn = IF lastqueue + 1 = NumWriter THEN 0 ELSE lastqueue + 1
<1> DEFINE x == lastqueue + 1
<1>1. x \in 1 .. NumWriter
  BY NumWriterAssumption DEF Writer
<1> HIDE DEF x
<1>2. x % NumWriter = IF x = NumWriter THEN 0 ELSE x
  BY <1>1, NumWriterAssumption
<1>. QED
  BY <1>1, <1>2, NumWriterAssumption DEF x, Turn, Writer

\* Every ring is a step or more away, and one step nearer when the turn passes
\* to another one.
LEMMA DistanceIs ==
    ASSUME lastqueue \in Writer, NEW w \in Writer
    PROVE  /\ Distance(w) \in 1 .. NumWriter
           /\ lastqueue' = Turn /\ w # Turn => Distance(w)' = Distance(w) - 1
           /\ lastqueue' = Turn /\ w = Turn => Distance(w)' = NumWriter
<1>1. /\ Turn \in Writer
      /\ Turn = IF lastqueue + 1 = NumWriter THEN 0 ELSE lastqueue + 1
  BY TurnIs
<1>2. Distance(w) \in 1 .. NumWriter
  BY NumWriterAssumption DEF Distance, Writer
<1>3. ASSUME lastqueue' = Turn, w # Turn PROVE Distance(w)' = Distance(w) - 1
  BY <1>1, <1>3, NumWriterAssumption DEF Distance, Writer
<1>4. ASSUME lastqueue' = Turn, w = Turn PROVE Distance(w)' = NumWriter
  BY <1>1, <1>4, NumWriterAssumption DEF Distance, Writer
<1>. QED
  BY <1>2, <1>3, <1>4

\* An id fits an unsigned int.
LEMMA IdFits ==
    ASSUME NEW n \in Nat
    PROVE  /\ n % (MAXID + 1) \in 0 .. MAXID
           /\ n <= MAXID => n % (MAXID + 1) = n
<1> DEFINE m == MAXID + 1
<1>1. m \in Nat \ {0}
  BY MaxIdAssumption
<1> HIDE DEF m
<1>2. n % m \in 0 .. m - 1 /\ (n < m => n % m = n)
  BY <1>1
<1>. QED
  BY <1>2, MaxIdAssumption DEF m

\* What becomes of an id that an int is made of; only MAXID turns into -1.
LEMMA ToIntIs ==
    ASSUME NEW id \in 0 .. MAXID
    PROVE  /\ ToInt(id) \in ToInt(MAXID \div 2 + 1) .. ToInt(MAXID \div 2)
           /\ ToInt(id) = -1 => id = MAXID
<1> DEFINE h == MAXID \div 2
<1>1. h \in Nat /\ MAXID = 2 * h + 1
  BY MaxIdAssumption
<1> HIDE DEF h
<1>2. /\ ToInt(id) = IF id <= h THEN id ELSE id - (MAXID + 1)
      /\ ToInt(h) = h /\ ToInt(h + 1) = h + 1 - (MAXID + 1)
  BY <1>1 DEF ToInt, h
<1>3. ToInt(id) \in ToInt(h + 1) .. ToInt(h) /\ (ToInt(id) = -1 => id = MAXID)
  BY <1>1, <1>2
<1>. QED
  BY <1>3 DEF h

-----------------------------------------------------------------------------
(***************************************************************************)
(* Type correctness                                                        *)
(***************************************************************************)

\* A writer that is drawing an id has begun an enqueue that is not yet counted.
LEMMA DrawingIs ==
    ASSUME TypeOK, RingInv
    PROVE  /\ IsFiniteSet(Drawing)
           /\ \A w \in Writer : enq[w] = "id" => issued < calls
<1>1. IsFiniteSet(Drawing)
  <2>1. IsFiniteSet(Writer)
    BY FS_Interval, NumWriterAssumption DEF Writer
  <2>. QED
    BY <2>1, FS_Subset DEF Drawing
<1>2. ASSUME NEW w \in Writer, enq[w] = "id" PROVE issued < calls
  <2>1. Drawing # {}
    BY <1>2 DEF Drawing
  <2>2. Cardinality(Drawing) \in Nat /\ Cardinality(Drawing) # 0
    BY <1>1, <2>1, FS_CardinalityType, FS_EmptySet
  <2>. QED
    BY <2>2, MaxCallsAssumption DEF RingInv, TypeOK
<1>. QED
  BY <1>1, <1>2

LEMMA TypeOKStep == TypeOK /\ RingInv /\ [Next]_vars => TypeOK'
<1> SUFFICES ASSUME TypeOK, RingInv, [Next]_vars PROVE TypeOK'
  OBVIOUS
<1>0. \A w \in Writer : enq[w] = "id" => issued < calls
  BY DrawingIs
<1> USE NumWriterAssumption, NumSlotsAssumption, MaxIdAssumption, MaxCallsAssumption
    DEF TypeOK, ringVars, writerVars, readerVars, historyVars
<1>1. ASSUME NEW w \in Writer, EnqueueFull(w) PROVE TypeOK'
  BY <1>1 DEF EnqueueFull
<1>2. ASSUME NEW w \in Writer, EnqueueBegin(w) PROVE TypeOK'
  BY <1>2 DEF EnqueueBegin
<1>3. ASSUME NEW w \in Writer, DrawId(w) PROVE TypeOK'
  <2>1. issued + 1 \in Message /\ issued + 1 \in 0 .. calls
    BY <1>0, <1>3 DEF DrawId, Message
  <2>2. id_cnt % (MAXID + 1) \in 0 .. MAXID
    BY IdFits
  <2>3. enqId' \in [Writer -> 0 .. MAXID] /\ id_cnt' \in Nat
    BY <1>3, <2>2 DEF DrawId
  <2>. QED
    BY <1>3, <2>1, <2>3 DEF DrawId
<1>4. ASSUME NEW w \in Writer, Fill(w) PROVE TypeOK'
  BY <1>4 DEF Fill
<1>5. ASSUME NEW w \in Writer, Publish(w) PROVE TypeOK'
  BY <1>5, NextIndexIs DEF Publish
<1>6. CASE DequeueBegin
  BY <1>6 DEF DequeueBegin
<1>7. CASE ScanById
  <2>1. i \in Writer /\ i + 1 \in 0 .. NumWriter
    BY <1>7 DEF ScanById, Writer
  <2>2. min_id' \in 0 .. MAXID /\ queue_id' \in Writer \cup {-1}
    <3>1. CASE Better(i)
      BY <1>7, <2>1, <3>1 DEF ScanById
    <3>2. CASE ~Better(i)
      BY <1>7, <3>2 DEF ScanById
    <3>. QED
      BY <3>1, <3>2
  <2>. QED
    BY <1>7, <2>1, <2>2 DEF ScanById
<1>8. CASE ScanInTurn
  BY <1>8, TurnIs DEF ScanInTurn
<1>9. CASE DequeueEmpty
  <2>1. -1 \in ToInt(MAXID \div 2 + 1) .. ToInt(MAXID \div 2)
    <3>1. ToInt(MAXID) = -1
      BY DEF ToInt
    <3>. QED
      BY <3>1, ToIntIs
  <2>. QED
    BY <1>9, <2>1 DEF DequeueEmpty
<1>10. CASE DequeueCopy
  BY <1>10 DEF DequeueCopy
<1>11. CASE DequeueAdvance
  <2>1. qhead' \in [Writer -> Index]
    BY <1>11, NextIndexIs DEF DequeueAdvance
  <2>2. passed' \in [Writer -> Nat]
    BY <1>11 DEF DequeueAdvance
  <2>3. deqRet' \in ToInt(MAXID \div 2 + 1) .. ToInt(MAXID \div 2)
    BY <1>11, ToIntIs DEF DequeueAdvance
  <2>. QED
    BY <1>11, <2>1, <2>2, <2>3 DEF DequeueAdvance
<1>12. CASE UNCHANGED vars
  BY <1>12 DEF vars
<1>. QED
  BY <1>1, <1>2, <1>3, <1>4, <1>5, <1>6, <1>7, <1>8, <1>9, <1>10, <1>11, <1>12
     DEF Next, Enqueue, Dequeue

-----------------------------------------------------------------------------
(***************************************************************************)
(* The two sides of a ring                                                 *)
(***************************************************************************)

\* Which slots are in use: none of an empty ring, never the one at the tail,
\* and at least the one at the head of a ring that is not empty.
LEMMA InUseIs ==
    ASSUME TypeOK, NEW w \in Writer
    PROVE  /\ qhead[w] \in Index /\ qtail[w] \in Index
           /\ ~InUse(w, qtail[w])
           /\ ~Empty(w) => InUse(w, qhead[w])
<1>1. qhead[w] \in Index /\ qtail[w] \in Index
  BY DEF TypeOK
<1>2. ~InUse(w, qtail[w])
  BY <1>1, NumSlotsAssumption DEF InUse, Index
<1>3. ~Empty(w) => InUse(w, qhead[w])
  BY <1>1, NumSlotsAssumption DEF InUse, Empty, Index
<1>. QED
  BY <1>1, <1>2, <1>3

\* The writer fills a slot the consumer does not look at, and the consumer
\* takes no message the writer has not published.
LEMMA RingInvStep ==
    ASSUME TypeOK, TypeOK', RingInv, [Next]_vars
    PROVE  RingInv'
<1> USE DEF RingInv, ringVars, writerVars, readerVars, historyVars
<1>0. IsFiniteSet(Drawing) /\ Drawing \subseteq Writer
  BY DrawingIs DEF Drawing
<1>1. ASSUME NEW w \in Writer, EnqueueFull(w) PROVE RingInv'
  BY <1>1 DEF EnqueueFull, Drawing, Full, Empty, InUse
<1>2. ASSUME NEW w \in Writer, EnqueueBegin(w) PROVE RingInv'
  <2>1. w \notin Drawing /\ Drawing' = Drawing \cup {w}
    BY <1>2 DEF EnqueueBegin, Drawing, TypeOK
  <2>2. Cardinality(Drawing') = Cardinality(Drawing) + 1
    BY <1>0, <2>1, FS_AddElement
  <2>3. Cardinality(Drawing') = calls' - issued'
    BY <1>2, <2>2 DEF EnqueueBegin, TypeOK
  <2>. QED
    BY <1>2, <2>3 DEF EnqueueBegin, TypeOK, Full, Empty, InUse
<1>3. ASSUME NEW w \in Writer, DrawId(w) PROVE RingInv'
  <2>1. w \in Drawing /\ Drawing' = Drawing \ {w}
    BY <1>3 DEF DrawId, Drawing, TypeOK
  <2>2. Cardinality(Drawing') = Cardinality(Drawing) - 1
    BY <1>0, <2>1, FS_RemoveElement
  <2>3. Cardinality(Drawing') = calls' - issued'
    BY <1>3, <2>2 DEF DrawId, TypeOK
  <2>4. enqMsg'[w] \in Message
    <3>1. issued < calls
      BY <1>3, DrawingIs DEF DrawId
    <3>. QED
      BY <1>3, <3>1, MaxCallsAssumption DEF DrawId, TypeOK, Message
  <2>. QED
    BY <1>3, <2>3, <2>4 DEF DrawId, TypeOK, Full, Empty, InUse
<1>4. ASSUME NEW w \in Writer, Fill(w) PROVE RingInv'
  <2>1. Drawing' = Drawing
    BY <1>4 DEF Fill, Drawing, TypeOK
  <2>2. \A x \in Writer, s \in Index :
           InUse(x, s) => data'[x][s] = data[x][s]
    BY <1>4, InUseIs DEF Fill, TypeOK
  <2>3. \A x \in Writer : ~Empty(x) => data'[x][qhead[x]] = data[x][qhead[x]]
    BY <2>2, InUseIs
  <2>4. data'[w][qtail[w]] = enqMsg[w]
    BY <1>4 DEF Fill, TypeOK
  <2>5. \A x \in Writer : x # w => data'[x] = data[x]
    BY <1>4 DEF Fill, TypeOK
  <2>6. deq = "copy" => queue_id \in Writer /\ ~Empty(queue_id)
    BY DEF TypeOK
  <2>. QED
    BY <1>4, <2>1, <2>2, <2>3, <2>4, <2>5, <2>6
       DEF Fill, TypeOK, Full, Empty, InUse
<1>5. ASSUME NEW w \in Writer, Publish(w) PROVE RingInv'
  <2>1. Drawing' = Drawing
    BY <1>5 DEF Publish, Drawing, TypeOK
  <2>2. qtail'[w] = NextIndex(qtail[w]) /\ \A x \in Writer : x # w => qtail'[x] = qtail[x]
    BY <1>5 DEF Publish, TypeOK
  <2>3. qtail'[w] # qhead[w]
    BY <1>5, <2>2 DEF Publish, Full
  <2>4. \A s \in Index : InUse(w, s)' => InUse(w, s) \/ s = qtail[w]
    BY <1>5, <2>2, <2>3, InUseIs, NextIndexIs, NumSlotsAssumption
       DEF Publish, InUse, Index
  <2>. QED
    BY <1>5, <2>1, <2>2, <2>3, <2>4 DEF Publish, TypeOK, Full, Empty, InUse
<1>6. CASE DequeueBegin
  BY <1>6 DEF DequeueBegin, Drawing, Full, Empty, InUse
<1>7. CASE ScanById
  <2>1. queue_id' # -1 => ~Empty(queue_id')
    BY <1>7 DEF ScanById, Better
  <2>. QED
    BY <1>7, <2>1 DEF ScanById, Drawing, Full, Empty, InUse
<1>8. CASE ScanInTurn
  <2>1. queue_id' # -1 => ~Empty(queue_id')
    BY <1>8 DEF ScanInTurn
  <2>. QED
    BY <1>8, <2>1 DEF ScanInTurn, Drawing, Full, Empty, InUse
<1>9. CASE DequeueEmpty
  BY <1>9 DEF DequeueEmpty, Drawing, Full, Empty, InUse
<1>10. CASE DequeueCopy
  BY <1>10 DEF DequeueCopy, ScanOver, Drawing, Full, Empty, InUse
<1>11. CASE DequeueAdvance
  <2>1. queue_id \in Writer /\ ~Empty(queue_id)
    BY <1>11 DEF DequeueAdvance, TypeOK
  <2>2. /\ qhead'[queue_id] = NextIndex(qhead[queue_id])
        /\ \A x \in Writer : x # queue_id => qhead'[x] = qhead[x]
    BY <1>11, <2>1 DEF DequeueAdvance, TypeOK
  <2>3. \A s \in Index : InUse(queue_id, s)' => InUse(queue_id, s)
    BY <1>11, <2>1, <2>2, InUseIs, NextIndexIs, NumSlotsAssumption
       DEF DequeueAdvance, InUse, Index, Empty
  <2>4. NextIndex(qtail[queue_id]) # qhead'[queue_id]
    BY <2>1, <2>2, InUseIs, NextIndexIs, NumSlotsAssumption DEF Empty, Index
  <2>. QED
    BY <1>11, <2>1, <2>2, <2>3, <2>4
       DEF DequeueAdvance, Drawing, TypeOK, Full, Empty, InUse
<1>12. CASE UNCHANGED vars
  BY <1>12 DEF vars, Drawing, Full, Empty, InUse
<1>. QED
  BY <1>1, <1>2, <1>3, <1>4, <1>5, <1>6, <1>7, <1>8, <1>9, <1>10, <1>11, <1>12
     DEF Next, Enqueue, Dequeue

-----------------------------------------------------------------------------
(***************************************************************************)
(* What the consumer's scan knows                                          *)
(***************************************************************************)

\* No step but the consumer's last changes the head of a ring that has a
\* message.
LEMMA HeadKept ==
    ASSUME TypeOK, RingInv, [Next]_vars, ~DequeueAdvance,
           NEW w \in Writer, ~Empty(w)
    PROVE  /\ qhead' = qhead /\ ~Empty(w)'
           /\ data'[w][qhead[w]] = data[w][qhead[w]]
           /\ ids'[w][qhead[w]] = ids[w][qhead[w]]
<1> USE DEF Empty, ringVars
<1>0. qhead[w] \in Index /\ InUse(w, qhead[w]) /\ ~InUse(w, qtail[w])
  BY InUseIs
<1>1. ASSUME NEW x \in Writer, EnqueueFull(x) \/ EnqueueBegin(x) \/ DrawId(x)
      PROVE  UNCHANGED ringVars
  BY <1>1 DEF EnqueueFull, EnqueueBegin, DrawId
<1>2. ASSUME NEW x \in Writer, Fill(x)
      PROVE  /\ UNCHANGED <<qhead, qtail>>
             /\ data'[w][qhead[w]] = data[w][qhead[w]]
             /\ ids'[w][qhead[w]] = ids[w][qhead[w]]
  BY <1>0, <1>2 DEF Fill, TypeOK
<1>3. ASSUME NEW x \in Writer, Publish(x)
      PROVE  UNCHANGED <<qhead, data, ids>> /\ qtail'[w] # qhead[w]
  BY <1>3 DEF Publish, RingInv, Full, TypeOK
<1>4. CASE DequeueBegin \/ ScanById \/ ScanInTurn \/ DequeueEmpty \/ DequeueCopy
  BY <1>4 DEF DequeueBegin, ScanById, ScanInTurn, DequeueEmpty, DequeueCopy
<1>5. CASE UNCHANGED vars
  BY <1>5 DEF vars
<1>. QED
  BY <1>1, <1>2, <1>3, <1>4, <1>5 DEF Next, Enqueue, Dequeue

\* What no step of a writer changes.
LEMMA WriterLeaves ==
    ASSUME NEW w \in Writer, Enqueue(w)
    PROVE  UNCHANGED <<qhead, readerVars, historyVars>>
BY DEF Enqueue, EnqueueFull, EnqueueBegin, DrawId, Fill, Publish, ringVars

LEMMA HeadsStayStep ==
    ASSUME TypeOK, RingInv, HeadsStay, [Next]_vars
    PROVE  HeadsStay'
<1>1. CASE DequeueBegin
  BY <1>1 DEF DequeueBegin, HeadsStay, Empty, ringVars
<1>2. CASE DequeueAdvance
  BY <1>2 DEF DequeueAdvance, HeadsStay
<1>3. CASE ~DequeueBegin /\ ~DequeueAdvance
  <2>1. atStart' = atStart /\ (deq' # "idle" => deq # "idle")
    <3>1. ASSUME NEW w \in Writer, Enqueue(w)
          PROVE  UNCHANGED <<atStart, deq>>
      BY <3>1, WriterLeaves DEF readerVars, historyVars
    <3>2. CASE ScanById \/ ScanInTurn \/ DequeueEmpty \/ DequeueCopy
      BY <3>2 DEF ScanById, ScanInTurn, DequeueEmpty, DequeueCopy, ScanOver,
                  historyVars
    <3>3. CASE UNCHANGED vars
      BY <3>3 DEF vars, readerVars, historyVars
    <3>. QED
      BY <1>3, <3>1, <3>2, <3>3 DEF Next, Dequeue
  <2>. QED
    BY <1>3, <2>1, HeadKept DEF HeadsStay
<1>. QED
  BY <1>1, <1>2, <1>3

\* The turn comes to each ring before the scan ends.
LEMMA SeenInTurnStep ==
    ASSUME TypeOK, HeadsStay, SeenInTurn, [Next]_vars
    PROVE  SeenInTurn'
<1> USE NumWriterAssumption DEF SeenInTurn
<1>1. ASSUME NEW w \in Writer, Enqueue(w) PROVE SeenInTurn'
  BY <1>1, WriterLeaves DEF readerVars, historyVars, Distance
<1>2. CASE DequeueBegin
  BY <1>2, DistanceIs DEF DequeueBegin, Distance, TypeOK
<1>3. CASE ScanById
  BY <1>3 DEF ScanById
<1>4. CASE ScanInTurn
  <2>1. CASE Empty(Turn)
    <3>1. i' = i + 1 /\ queue_id = -1 /\ lastqueue' = Turn /\ atStart' = atStart
      BY <1>4, <2>1 DEF ScanInTurn, historyVars
    <3>2. atStart[Turn] = None
      BY <1>4, <2>1, TurnIs DEF HeadsStay, ScanInTurn, TypeOK
    <3>3. \A w \in Writer : w # Turn => Distance(w)' = Distance(w) - 1
      BY <3>1, DistanceIs DEF TypeOK
    <3>4. \A w \in Writer : Distance(w) \in 1 .. NumWriter
      BY DistanceIs DEF TypeOK
    <3>. QED
      BY <1>4, <3>1, <3>2, <3>3, <3>4 DEF ScanInTurn, TypeOK
  <2>2. CASE ~Empty(Turn)
    BY <1>4, <2>2, TurnIs DEF ScanInTurn, TypeOK, Writer
  <2>. QED
    BY <2>1, <2>2
<1>5. CASE DequeueEmpty \/ DequeueCopy \/ DequeueAdvance
  BY <1>5 DEF DequeueEmpty, DequeueCopy, DequeueAdvance
<1>6. CASE UNCHANGED vars
  BY <1>6 DEF vars, readerVars, historyVars, Distance
<1>. QED
  BY <1>1, <1>2, <1>3, <1>4, <1>5, <1>6 DEF Next, Dequeue

\* Every message taken from another ring brings the turn nearer to one that
\* waits.
LEMMA BypassStep ==
    ASSUME TypeOK, RingInv, HeadsStay, Bypass, [Next]_vars
    PROVE  Bypass'
<1> USE NumWriterAssumption
<1>0. lastqueue \in Writer /\ \A w \in Writer : passed[w] \in Nat
  BY DEF TypeOK
<1>d. \A w \in Writer : Distance(w) \in 1 .. NumWriter
  BY <1>0, DistanceIs
<1>1. ASSUME ~DequeueAdvance
      PROVE  passed' = passed /\ \A w \in Writer : passed[w] > 0 => ~Empty(w)'
  <2>1. passed' = passed
    BY <1>1, WriterLeaves
       DEF Next, Dequeue, DequeueBegin, ScanById, ScanInTurn, DequeueEmpty,
           DequeueCopy, vars, historyVars
  <2>. QED
    BY <1>1, <2>1, HeadKept DEF Bypass
<1>2. ASSUME NEW w \in Writer, Enqueue(w) PROVE Bypass'
  <2>1. UNCHANGED <<readerVars, historyVars>>
    BY <1>2, WriterLeaves
  <2>2. ~DequeueAdvance
    BY <2>1 DEF DequeueAdvance, readerVars
  <2>. QED
    BY <1>1, <2>1, <2>2 DEF Bypass, readerVars, historyVars, Distance
<1>3. CASE DequeueBegin
  BY <1>1, <1>3 DEF DequeueBegin, DequeueAdvance, Bypass, Distance, Writer
<1>4. CASE ScanById
  BY <1>1, <1>4 DEF ScanById, DequeueAdvance, Bypass
<1>5. CASE ScanInTurn
  <2>0. /\ Turn \in Writer /\ lastqueue' = Turn /\ deq = "scan" /\ deq' = "scan"
        /\ queue_id = -1 /\ atStart' = atStart /\ dqstrat' = dqstrat
    BY <1>0, <1>5, TurnIs DEF ScanInTurn, historyVars
  <2>1. \A w \in Writer : w # Turn => Distance(w)' = Distance(w) - 1
    BY <1>0, <2>0, DistanceIs
  <2>2. \A w \in Writer : w = Turn => Distance(w)' = NumWriter
    BY <1>0, <2>0, DistanceIs
  <2>3. passed' = passed /\ \A w \in Writer : passed[w] > 0 => ~Empty(w)'
    BY <1>1, <2>0 DEF DequeueAdvance
  <2>4. CASE Empty(Turn)
    <3>1. queue_id' = -1 /\ passed[Turn] = 0
      BY <1>0, <1>5, <2>0, <2>4 DEF ScanInTurn, Bypass
    <3>. QED
      BY <1>0, <1>d, <1>5, <2>0, <2>1, <2>2, <2>3, <3>1
         DEF ScanInTurn, Bypass, Writer
  <2>5. CASE ~Empty(Turn)
    <3>1. queue_id' = Turn
      BY <1>5, <2>5 DEF ScanInTurn
    <3>. QED
      BY <1>0, <1>d, <1>5, <2>0, <2>1, <2>3, <3>1
         DEF ScanInTurn, Bypass, Writer
  <2>. QED
    BY <2>4, <2>5
<1>6. CASE DequeueEmpty
  BY <1>1, <1>6 DEF DequeueEmpty, ScanOver, DequeueAdvance, Bypass, Distance,
                    Writer
<1>7. CASE DequeueCopy
  BY <1>1, <1>7 DEF DequeueCopy, ScanOver, DequeueAdvance, Bypass, Distance,
                    historyVars
<1>8. CASE DequeueAdvance
  <2>1. \A w \in Writer : /\ passed'[w] = IF w = queue_id \/ atStart[w] = None THEN 0
                                            ELSE passed[w] + 1
                          /\ Distance(w)' = Distance(w)
    BY <1>8 DEF DequeueAdvance, Distance
  <2>2. queue_id # -1 /\ \A w \in Writer : w # queue_id => qhead'[w] = qhead[w]
    BY <1>8 DEF DequeueAdvance, RingInv, TypeOK
  <2>3. \A w \in Writer : passed'[w] > 0 => ~Empty(w)'
    BY <1>8, <2>1, <2>2 DEF DequeueAdvance, HeadsStay, Empty
  <2>. QED
    BY <1>0, <1>d, <1>8, <2>1, <2>2, <2>3 DEF DequeueAdvance, Bypass
<1>9. CASE UNCHANGED vars
  BY <1>9 DEF vars, readerVars, historyVars, ringVars, Bypass, Distance, Empty
<1>. QED
  BY <1>2, <1>3, <1>4, <1>5, <1>6, <1>7, <1>8, <1>9 DEF Next, Dequeue

LEMMA QueueInvInit == Init => QueueInv
<1> SUFFICES ASSUME Init PROVE QueueInv
  OBVIOUS
<1> USE NumWriterAssumption, NumSlotsAssumption, MaxIdAssumption, MaxCallsAssumption
<1>1. TypeOK
  <2>1. 0 \in ToInt(MAXID \div 2 + 1) .. ToInt(MAXID \div 2)
    <3>1. ToInt(0) = 0
      BY DEF ToInt
    <3>. QED
      BY <3>1, ToIntIs
  <2>. QED
    BY <2>1 DEF Init, TypeOK, Writer, Index, Message, None
<1>2. Drawing = {}
  BY DEF Init, Drawing
<1>3. Cardinality(Drawing) = 0
  BY <1>2, FS_EmptySet
<1>4. RingInv
  BY <1>3 DEF Init, RingInv, InUse, Index
<1>5. Bypass
  BY DistanceIs, <1>1 DEF Init, Bypass, TypeOK
<1>. QED
  BY <1>1, <1>4, <1>5 DEF Init, QueueInv, HeadsStay, SeenInTurn

LEMMA QueueInvHolds == Spec => []QueueInv
<1>1. QueueInv /\ [Next]_vars => QueueInv'
  BY TypeOKStep, RingInvStep, HeadsStayStep, SeenInTurnStep, BypassStep DEF QueueInv
<1>. QED
  BY QueueInvInit, <1>1, PTL DEF Spec

-----------------------------------------------------------------------------
(***************************************************************************)
(* What the scan by id knows                                               *)
(***************************************************************************)

\* As long as the counter has not come round, ids are in the order in which
\* they were drawn.
LEMMA IdInvStep ==
    ASSUME TypeOK, TypeOK', RingInv, IdInv, [Next]_vars
    PROVE  IdInv'
<1> USE DEF IdInv, WithinIds, IdOf, ringVars, writerVars
<1>1. ASSUME NEW w \in Writer, EnqueueFull(w) \/ EnqueueBegin(w) \/ Publish(w)
      PROVE  IdInv'
  BY <1>1 DEF EnqueueFull, EnqueueBegin, Publish, TypeOK
<1>2. ASSUME NEW w \in Writer, DrawId(w) PROVE IdInv'
  <2>1. issued \in Nat /\ issued' = issued + 1 /\ UNCHANGED <<ids, data>>
    BY <1>2, MaxCallsAssumption DEF DrawId, TypeOK
  <2>2. FaaAdds => id_cnt % (MAXID + 1) = issued \/ ~WithinIds'
    BY <2>1, IdFits, MaxIdAssumption
  <2>3. /\ enqMsg'[w] = issued + 1 /\ (FaaAdds => id_cnt' = issued')
        /\ \A x \in Writer : x # w => enqMsg'[x] = enqMsg[x] /\ enqId'[x] = enqId[x]
                                      /\ enq'[x] = enq[x]
    BY <1>2 DEF DrawId, TypeOK
  <2>4. WithinIds' => enqId'[w] = IdOf(enqMsg'[w])
    BY <1>2, <2>1, <2>2, <2>3 DEF DrawId, TypeOK
  <2>5. ASSUME NEW x \in Writer
        PROVE  /\ enqMsg'[x] <= issued'
               /\ WithinIds' /\ enq'[x] \in {"fill", "publish"} =>
                      enqId'[x] = IdOf(enqMsg'[x])
    <3>1. CASE x = w
      BY <2>1, <2>3, <2>4, <3>1
    <3>2. CASE x # w
      <4>1. enqMsg'[x] = enqMsg[x] /\ enqMsg[x] \in Nat /\ enqMsg[x] <= issued
        BY <2>3, <3>2, MaxCallsAssumption DEF TypeOK, Message, None
      <4>2. WithinIds' => WithinIds
        BY <2>1, MaxIdAssumption
      <4>. QED
        BY <2>1, <2>3, <3>2, <4>1, <4>2
    <3>. QED
      BY <3>1, <3>2
  <2>6. ASSUME NEW x \in Writer, NEW s \in Index
        PROVE  /\ data'[x][s] <= issued'
               /\ WithinIds' /\ data'[x][s] # None => ids'[x][s] = IdOf(data'[x][s])
    BY <2>1, MaxIdAssumption DEF TypeOK, Message, None
  <2>. QED
    BY <2>3, <2>5, <2>6
<1>3. ASSUME NEW w \in Writer, Fill(w) PROVE IdInv'
  <2>1. ASSUME NEW x \in Writer, NEW s \in Index
        PROVE  /\ data'[x][s] <= issued
               /\ WithinIds /\ data'[x][s] # None => ids'[x][s] = IdOf(data'[x][s])
    <3>1. CASE x = w /\ s = qtail[w]
      BY <1>3, <3>1 DEF Fill, TypeOK
    <3>2. CASE ~(x = w /\ s = qtail[w])
      BY <1>3, <3>2 DEF Fill, TypeOK
    <3>. QED
      BY <3>1, <3>2
  <2>. QED
    BY <1>3, <2>1 DEF Fill, TypeOK
<1>4. CASE Dequeue
  <2>1. UNCHANGED <<id_cnt, ids, data, writerVars>>
    BY <1>4 DEF Dequeue, DequeueBegin, ScanById, ScanInTurn, DequeueEmpty,
                DequeueCopy, DequeueAdvance
  <2>. QED
    BY <2>1
<1>5. CASE UNCHANGED vars
  BY <1>5 DEF vars
<1>. QED
  BY <1>1, <1>2, <1>3, <1>4, <1>5 DEF Next, Enqueue

\* What is selected stays at the head of its ring until it is taken.
LEMMA SelectedStep ==
    ASSUME TypeOK, RingInv, Selected, [Next]_vars
    PROVE  Selected'
<1> USE DEF Selected
<1>1. ASSUME NEW w \in Writer, Enqueue(w) PROVE Selected'
  <2>1. UNCHANGED <<qhead, readerVars>>
    BY <1>1, WriterLeaves
  <2>2. ~DequeueAdvance
    BY <2>1 DEF DequeueAdvance, readerVars
  <2>3. \A x \in Writer : ~Empty(x) => ids'[x][qhead[x]] = ids[x][qhead[x]]
    BY <2>2, HeadKept
  <2>4. deq # "idle" /\ queue_id # -1 => queue_id \in Writer /\ ~Empty(queue_id)
    BY DEF RingInv, TypeOK
  <2>. QED
    BY <2>1, <2>3, <2>4 DEF readerVars
<1>2. CASE DequeueBegin
  BY <1>2 DEF DequeueBegin
<1>3. CASE ScanById \/ ScanInTurn
  BY <1>3 DEF ScanById, ScanInTurn, ringVars
<1>4. CASE DequeueCopy
  BY <1>4 DEF DequeueCopy, ScanOver, ringVars
<1>5. CASE DequeueEmpty \/ DequeueAdvance
  BY <1>5 DEF DequeueEmpty, DequeueAdvance
<1>6. CASE UNCHANGED vars
  BY <1>6 DEF vars, ringVars, readerVars
<1>. QED
  BY <1>1, <1>2, <1>3, <1>4, <1>5, <1>6 DEF Next, Dequeue

\* The id of a message at the head of a ring, and that it is one the scan by id
\* does not take for none.
LEMMA HeadIdIs ==
    ASSUME TypeOK, RingInv, IdInv, WithinIds, NEW w \in Writer, ~Empty(w)
    PROVE  /\ data[w][qhead[w]] \in Message
           /\ ids[w][qhead[w]] = IdOf(data[w][qhead[w]])
           /\ ids[w][qhead[w]] \in Nat /\ ids[w][qhead[w]] < MAXID
<1>1. qhead[w] \in Index /\ data[w][qhead[w]] \in Message
  BY InUseIs DEF RingInv
<1>2. ids[w][qhead[w]] = IdOf(data[w][qhead[w]]) /\ data[w][qhead[w]] <= issued
  BY <1>1 DEF IdInv, Message, None
<1>3. issued <= MAXID /\ issued \in Nat
  BY MaxCallsAssumption DEF WithinIds, TypeOK
<1>4. MAXID \in Nat /\ MAXID > 0
  BY MaxIdAssumption
<1>. QED
  BY <1>1, <1>2, <1>3, <1>4, MaxCallsAssumption DEF IdOf, Message

\* The scan by id misses no message that was at the head of a ring, and none
\* has an id that it does not take for one.
LEMMA SeenByIdStep ==
    ASSUME TypeOK, TypeOK', RingInv, HeadsStay, IdInv, SeenById, [Next]_vars
    PROVE  SeenById'
<1> SUFFICES ASSUME WithinIds' PROVE SeenById'
  BY DEF SeenById
<1> USE DEF SeenById
<1>0. WithinIds
  <2>1. issued' = issued \/ issued' = issued + 1
    BY DEF Next, Enqueue, Dequeue, EnqueueFull, EnqueueBegin, DrawId, Fill, Publish,
           DequeueBegin, ScanById, ScanInTurn, DequeueEmpty, DequeueCopy,
           DequeueAdvance, vars, writerVars
  <2>. QED
    BY <2>1, MaxIdAssumption, MaxCallsAssumption DEF WithinIds, TypeOK
<1>1. ASSUME NEW w \in Writer, Enqueue(w) PROVE SeenById'
  <2>1. UNCHANGED <<readerVars, historyVars>>
    BY <1>1, WriterLeaves
  <2>. QED
    BY <1>0, <2>1 DEF readerVars, historyVars, IdOf
<1>2. CASE DequeueBegin
  BY <1>2 DEF DequeueBegin, Writer
<1>3. CASE ScanById
  <2>1. /\ i \in Writer /\ i' = i + 1 /\ deq = "scan" /\ deq' = "scan"
        /\ UNCHANGED atStart
    BY <1>3, NumWriterAssumption DEF ScanById, TypeOK, Writer, historyVars
  <2>2. \A w \in Writer : w < i' => w < i \/ w = i
    BY <2>1, NumWriterAssumption DEF Writer
  <2>0. /\ dqstrat = "IDABSOLUTE" /\ dqstrat' = dqstrat
        /\ \A w \in Writer : atStart[w] # None /\ w < i =>
                               queue_id # -1 /\ min_id <= IdOf(atStart[w])
        /\ queue_id = -1 => min_id = MAXID
    BY <1>0, <1>3, <2>1 DEF ScanById
  <2>3. \A w \in Writer : atStart[w] # None =>
            ~Empty(w) /\ data[w][qhead[w]] = atStart[w]
    BY <2>1 DEF HeadsStay
  <2>4. min_id \in Nat /\ MAXID \in Nat
    BY MaxIdAssumption DEF TypeOK
  <2>5. CASE Better(i)
    <3>1. /\ min_id' = ids[i][qhead[i]] /\ queue_id' = i
          /\ min_id' = IdOf(data[i][qhead[i]]) /\ min_id' < min_id /\ min_id' \in Nat
      BY <1>0, <1>3, <2>1, <2>5, HeadIdIs DEF ScanById, Better
    <3>2. ASSUME NEW w \in Writer, atStart[w] # None, w < i'
          PROVE  min_id' <= IdOf(atStart[w])
      <4>1. IdOf(atStart[w]) \in Nat
        BY <1>0, <2>3, <3>2, HeadIdIs
      <4>2. CASE w = i
        BY <2>3, <3>1, <3>2, <4>1, <4>2
      <4>3. CASE w < i
        BY <2>0, <2>4, <3>1, <3>2, <4>1, <4>3
      <4>. QED
        BY <2>2, <3>2, <4>2, <4>3
    <3>3. i # -1
      BY <2>1, NumWriterAssumption DEF Writer
    <3>. QED
      BY <2>0, <2>1, <3>1, <3>2, <3>3 DEF IdOf
  <2>6. CASE ~Better(i)
    <3>1. UNCHANGED <<min_id, queue_id>>
      BY <1>3, <2>6 DEF ScanById
    <3>2. atStart[i] # None => queue_id # -1 /\ min_id <= IdOf(atStart[i])
      <4> SUFFICES ASSUME atStart[i] # None
                   PROVE  queue_id # -1 /\ min_id <= IdOf(atStart[i])
        OBVIOUS
      <4>1. ~Empty(i) /\ data[i][qhead[i]] = atStart[i]
        BY <2>1, <2>3
      <4>2. /\ ids[i][qhead[i]] = IdOf(atStart[i])
            /\ ids[i][qhead[i]] < MAXID /\ ids[i][qhead[i]] \in Nat
        BY <1>0, <2>1, <4>1, HeadIdIs
      <4>3. ~(ids[i][qhead[i]] < min_id)
        BY <2>6, <4>1 DEF Better
      <4>. QED
        BY <2>0, <2>4, <4>2, <4>3
    <3>. QED
      BY <2>0, <2>1, <2>2, <3>1, <3>2 DEF IdOf
  <2>. QED
    BY <2>5, <2>6
<1>4. CASE ScanInTurn
  BY <1>4 DEF ScanInTurn
<1>5. CASE DequeueEmpty \/ DequeueAdvance
  BY <1>5 DEF DequeueEmpty, DequeueAdvance
<1>6. CASE DequeueCopy
  BY <1>0, <1>6, NumWriterAssumption
     DEF DequeueCopy, ScanOver, historyVars, Writer, TypeOK, IdOf
<1>7. CASE UNCHANGED vars
  BY <1>0, <1>7 DEF vars, readerVars, historyVars, IdOf
<1>. QED
  BY <1>1, <1>2, <1>3, <1>4, <1>5, <1>6, <1>7 DEF Next, Dequeue

LEMMA IdOrderHolds == Spec => []IdOrder
<1>1. Init => IdOrder
  BY DEF Init, IdOrder, IdInv, Selected, SeenById, None, Writer, Index
<1>2. QueueInv /\ QueueInv' /\ IdOrder /\ [Next]_vars => IdOrder'
  BY IdInvStep, SelectedStep, SeenByIdStep DEF QueueInv, IdOrder
<1>. QED
  BY <1>1, <1>2, QueueInvHolds, PTL DEF Spec

-----------------------------------------------------------------------------
(***************************************************************************)
(* Results about the consumer                                              *)
(***************************************************************************)

\* Every variable keeps its range, for every number of writers and slots: the
\* indices of the rings and of the scan, the ids, the counts.
THEOREM TypeCorrect == Spec => []TypeOK
<1>1. QueueInv => TypeOK
  BY DEF QueueInv
<1>. QED
  BY <1>1, QueueInvHolds, PTL

\* The scan by id takes the oldest of the messages that were at the head of a
\* ring when the dequeue began, within the ids the header allows, wherever
\* atomic_faa64u adds.
THEOREM OldestIsTaken ==
    ASSUME FaaAdds
    PROVE  Spec => []LowestAtStart
<1>1. QueueInv /\ IdOrder => LowestAtStart
  <2> SUFFICES ASSUME QueueInv, IdOrder, deq = "copy", dqstrat = "IDABSOLUTE",
                      WithinIds, NEW w \in Writer, atStart[w] # None
               PROVE  buf <= atStart[w]
    BY DEF LowestAtStart
  <2>1. /\ queue_id \in Writer /\ buf = data[queue_id][qhead[queue_id]]
        /\ ~Empty(queue_id)
    BY DEF QueueInv, RingInv, TypeOK
  <2>2. min_id = ids[queue_id][qhead[queue_id]] /\ min_id <= atStart[w] - 1
    BY <2>1 DEF IdOrder, Selected, SeenById, IdOf, QueueInv, TypeOK, Writer
  <2>3. buf \in Message /\ min_id = buf - 1
    BY <2>1, <2>2, HeadIdIs DEF QueueInv, IdOrder, IdOf
  <2>4. atStart[w] \in Message
    BY DEF QueueInv, TypeOK
  <2>. QED
    BY <2>2, <2>3, <2>4 DEF Message
<1>. QED
  BY <1>1, IdOrderHolds, QueueInvHolds, PTL

\* A dequeue that returns -1 without a message has looked at every ring, and
\* all were empty when it began; one that returns -1 with a message has taken
\* the id MAXID, in turn.
THEOREM EmptyWhenRefused == Spec => RefusedIfEmpty
<1> DEFINE Allowed == dqstrat = "IDABSOLUTE" => WithinIds
           Outcome == IF qhead' = qhead
                      THEN \A w \in Writer : atStart[w] = None
                      ELSE /\ dqstrat = "ROUNDROBIN"
                           /\ ids[queue_id][qhead[queue_id]] = MAXID
<1>1. ASSUME QueueInv, IdOrder, Allowed, DequeueEmpty PROVE Outcome
  <2>1. deq = "scan" /\ i = NumWriter /\ queue_id = -1 /\ qhead' = qhead
    BY <1>1 DEF DequeueEmpty, ScanOver, ringVars
  <2>2. ASSUME NEW w \in Writer, atStart[w] # None PROVE FALSE
    <3>1. CASE dqstrat = "IDABSOLUTE"
      BY <1>1, <2>1, <2>2, <3>1, NumWriterAssumption DEF IdOrder, SeenById, Writer
    <3>2. CASE dqstrat = "ROUNDROBIN"
      <4>1. Distance(w) <= NumWriter - i
        BY <1>1, <2>1, <2>2, <3>2 DEF QueueInv, SeenInTurn
      <4>2. Distance(w) \in 1 .. NumWriter
        BY <1>1, DistanceIs DEF QueueInv, TypeOK
      <4>. QED
        BY <2>1, <4>1, <4>2, NumWriterAssumption
    <3>. QED
      BY <1>1, <3>1, <3>2 DEF QueueInv, TypeOK
  <2>. QED
    BY <2>1, <2>2
<1>2. ASSUME QueueInv, IdOrder, Allowed, DequeueAdvance, deqRet' = -1 PROVE Outcome
  <2>1. /\ queue_id \in Writer /\ ~Empty(queue_id)
        /\ min_id = ids[queue_id][qhead[queue_id]]
    BY <1>2 DEF DequeueAdvance, QueueInv, RingInv, TypeOK, IdOrder, Selected
  <2>2. min_id = MAXID
    BY <1>2, ToIntIs DEF DequeueAdvance, QueueInv, TypeOK
  <2>3. qhead' # qhead
    <3>1. qhead'[queue_id] = NextIndex(qhead[queue_id])
      BY <1>2, <2>1 DEF DequeueAdvance, QueueInv, TypeOK
    <3>2. qhead[queue_id] \in Index /\ qtail[queue_id] \in Index
      BY <1>2, <2>1 DEF QueueInv, TypeOK
    <3>. QED
      BY <2>1, <3>1, <3>2, NextIndexIs, NumSlotsAssumption DEF Empty, Index
  <2>4. dqstrat # "IDABSOLUTE"
    <3>1. WithinIds => min_id < MAXID
      BY <1>2, <2>1, HeadIdIs DEF QueueInv, IdOrder
    <3>. QED
      BY <1>2, <2>2, <3>1, MaxIdAssumption
  <2>. QED
    BY <1>2, <2>1, <2>2, <2>3, <2>4 DEF QueueInv, TypeOK
<1>3. ASSUME QueueInv, [Next]_vars, Refuses PROVE DequeueEmpty \/ DequeueAdvance
  <2>1. ASSUME NEW w \in Writer, Enqueue(w) PROVE FALSE
    BY <1>3, <2>1, WriterLeaves DEF Refuses, readerVars
  <2>. QED
    BY <1>3, <2>1
       DEF Refuses, Next, Dequeue, DequeueBegin, ScanById, ScanInTurn, DequeueCopy,
           vars, readerVars
<1>4. QueueInv /\ IdOrder /\ [Next]_vars => (Refuses /\ Allowed => Outcome)
  <2> HIDE DEF Allowed, Outcome
  <2>. QED
    BY <1>1, <1>2, <1>3 DEF Refuses
<1>5. QueueInv /\ IdOrder /\ [Next]_vars =>
         [Refuses /\ (dqstrat = "IDABSOLUTE" => WithinIds) =>
             IF qhead' = qhead
             THEN \A w \in Writer : atStart[w] = None
             ELSE dqstrat = "ROUNDROBIN" /\ ids[queue_id][qhead[queue_id]] = MAXID]_vars
  BY <1>4
<1>. QED
  BY <1>5, IdOrderHolds, QueueInvHolds, PTL DEF Spec, RefusedIfEmpty

\* In turn, a ring with a message is passed over once for each other ring at
\* most, whatever the writers do; ids play no part in it.
THEOREM BypassIsBounded == Spec => []BoundedBypass
<1>1. QueueInv => BoundedBypass
  <2> SUFFICES ASSUME QueueInv, dqstrat = "ROUNDROBIN", NEW w \in Writer
               PROVE  passed[w] <= NumWriter - 1
    BY DEF BoundedBypass
  <2>1. Distance(w) \in 1 .. NumWriter /\ passed[w] \in Nat
    BY DistanceIs DEF QueueInv, TypeOK
  <2>. QED
    BY <2>1, NumWriterAssumption DEF QueueInv, Bypass
<1>. QED
  BY <1>1, QueueInvHolds, PTL

-----------------------------------------------------------------------------
(***************************************************************************)
(* Each ring implements the bounded FIFO                                   *)
(***************************************************************************)

RingOf(h, t, slots) ==
    [k \in 1 .. (t - h) % NumSlots |-> slots[(h + k - 1) % NumSlots]]

Slots == [Index -> Message \cup {None}]

RingLen(h, t) == IF h <= t THEN t - h ELSE t - h + NumSlots

\* The slot n - 1 places after h.
RingSlot(h, n) == IF h + n - 1 < NumSlots THEN h + n - 1 ELSE (h + n - 1) - NumSlots

\* The messages of a ring, without remainders.
LEMMA RingOfIs ==
    ASSUME NEW h \in Index, NEW t \in Index, NEW slots \in Slots
    PROVE  /\ RingLen(h, t) \in 0 .. NumSlots - 1
           /\ RingOf(h, t, slots) \in Seq(Message \cup {None})
           /\ Len(RingOf(h, t, slots)) = RingLen(h, t)
           /\ \A k \in 1 .. RingLen(h, t) :
                 /\ RingSlot(h, k) \in Index /\ RingSlot(h, k) # t
                 /\ RingOf(h, t, slots)[k] = slots[RingSlot(h, k)]
<1>1. RingLen(h, t) \in 0 .. NumSlots - 1
  BY NumSlotsAssumption DEF RingLen, Index
<1>2. (t - h) % NumSlots = RingLen(h, t)
  <2> DEFINE x == t - h
  <2>1. x \in Int /\ -NumSlots < x /\ x < NumSlots
    BY NumSlotsAssumption DEF Index
  <2>2. RingLen(h, t) = IF 0 <= x THEN x ELSE x + NumSlots
    BY DEF RingLen, Index
  <2> HIDE DEF x
  <2>3. x % NumSlots = IF 0 <= x THEN x ELSE x + NumSlots
    BY <2>1, NumSlotsAssumption
  <2>. QED
    BY <2>2, <2>3 DEF x
<1>3. ASSUME NEW k \in 1 .. RingLen(h, t)
      PROVE  /\ (h + k - 1) % NumSlots = RingSlot(h, k)
             /\ RingSlot(h, k) \in Index /\ RingSlot(h, k) # t
  <2>1. ASSUME NEW x \in 0 .. 2 * NumSlots - 1
        PROVE  x % NumSlots = IF x < NumSlots THEN x ELSE x - NumSlots
    BY NumSlotsAssumption
  <2>2. h + k - 1 \in 0 .. 2 * NumSlots - 1
    BY <1>1, <1>3, NumSlotsAssumption DEF Index
  <2>3. RingSlot(h, k) \in Index /\ RingSlot(h, k) # t
    BY <1>1, <1>3, NumSlotsAssumption DEF RingSlot, RingLen, Index
  <2>. QED
    BY <2>1, <2>2, <2>3 DEF RingSlot
<1>4. RingOf(h, t, slots) = [k \in 1 .. RingLen(h, t) |-> slots[RingSlot(h, k)]]
  BY <1>2, <1>3 DEF RingOf
<1>5. RingOf(h, t, slots) \in Seq(Message \cup {None}) /\ Len(RingOf(h, t, slots)) = RingLen(h, t)
  BY <1>1, <1>3, <1>4 DEF Slots
<1>. QED
  BY <1>1, <1>3, <1>4, <1>5

\* Publishing the slot at the tail appends its message.
LEMMA RingAppend ==
    ASSUME NEW h \in Index, NEW t \in Index, NEW slots \in Slots,
           NextIndex(t) # h
    PROVE  /\ RingOf(h, NextIndex(t), slots) = Append(RingOf(h, t, slots), slots[t])
           /\ Len(RingOf(h, t, slots)) < NumSlots - 1
<1> DEFINE n == RingLen(h, t)
           q == RingOf(h, t, slots)
           u == NextIndex(t)
<1>1. u \in Index /\ u = IF t + 1 = NumSlots THEN 0 ELSE t + 1
  BY NextIndexIs
<1>2. n \in Nat /\ n < NumSlots - 1 /\ RingLen(h, u) = n + 1
  BY <1>1, NumSlotsAssumption DEF RingLen, Index
<1>3. RingSlot(h, n + 1) = t
  BY <1>2, NumSlotsAssumption DEF RingSlot, RingLen, Index
<1> HIDE DEF n, u
<1>4. /\ q \in Seq(Message \cup {None}) /\ Len(q) = n
      /\ \A k \in 1 .. n : q[k] = slots[RingSlot(h, k)]
  BY RingOfIs DEF n
<1>5. /\ RingOf(h, u, slots) \in Seq(Message \cup {None}) /\ Len(RingOf(h, u, slots)) = n + 1
      /\ \A k \in 1 .. n + 1 : RingOf(h, u, slots)[k] = slots[RingSlot(h, k)]
  <2>1. ASSUME NEW v \in Index
        PROVE  /\ RingOf(h, v, slots) \in Seq(Message \cup {None})
               /\ Len(RingOf(h, v, slots)) = RingLen(h, v)
               /\ \A k \in 1 .. RingLen(h, v) :
                     RingOf(h, v, slots)[k] = slots[RingSlot(h, k)]
    <3>1. RingOf(h, v, slots) \in Seq(Message \cup {None})
      BY RingOfIs
    <3>2. Len(RingOf(h, v, slots)) = RingLen(h, v)
      BY RingOfIs
    <3>3. ASSUME NEW k \in 1 .. RingLen(h, v)
          PROVE  RingOf(h, v, slots)[k] = slots[RingSlot(h, k)]
      BY RingOfIs
    <3>. QED
      BY <3>1, <3>2, <3>3
  <2>. QED
    BY <1>1, <1>2, <2>1
<1> HIDE DEF q
<1>6. Append(q, slots[t]) \in Seq(Message \cup {None}) /\ Len(Append(q, slots[t])) = n + 1
  BY <1>4, AppendProperties DEF Slots
<1>7. \A k \in 1 .. n + 1 : RingOf(h, u, slots)[k] = Append(q, slots[t])[k]
  BY <1>2, <1>3, <1>4, <1>5, AppendProperties
<1>8. RingOf(h, u, slots) = Append(q, slots[t])
  BY <1>5, <1>6, <1>7, SeqEqual
<1>. QED
  BY <1>2, <1>4, <1>8 DEF q, u

\* Advancing the head removes the oldest message.
LEMMA RingTail ==
    ASSUME NEW h \in Index, NEW t \in Index, NEW slots \in Slots,
           h # t
    PROVE  /\ RingOf(h, t, slots) # <<>>
           /\ Head(RingOf(h, t, slots)) = slots[h]
           /\ RingOf(NextIndex(h), t, slots) = Tail(RingOf(h, t, slots))
<1> DEFINE n == RingLen(h, t)
           q == RingOf(h, t, slots)
           g == NextIndex(h)
<1>1. g \in Index /\ g = IF h + 1 = NumSlots THEN 0 ELSE h + 1
  BY NextIndexIs
<1>2. n \in Nat /\ n > 0 /\ n < NumSlots /\ RingLen(g, t) = n - 1
  BY <1>1, NumSlotsAssumption DEF RingLen, Index
<1>3. RingSlot(h, 1) = h /\ \A k \in 1 .. n - 1 : RingSlot(g, k) = RingSlot(h, k + 1)
  BY <1>1, <1>2, NumSlotsAssumption DEF RingSlot, Index
<1> HIDE DEF n, g
<1>4. /\ q \in Seq(Message \cup {None}) /\ Len(q) = n
      /\ \A k \in 1 .. n : q[k] = slots[RingSlot(h, k)]
  BY RingOfIs DEF n
<1>5. /\ RingOf(g, t, slots) \in Seq(Message \cup {None}) /\ Len(RingOf(g, t, slots)) = n - 1
      /\ \A k \in 1 .. n - 1 : RingOf(g, t, slots)[k] = slots[RingSlot(g, k)]
  <2>1. ASSUME NEW v \in Index
        PROVE  /\ RingOf(v, t, slots) \in Seq(Message \cup {None})
               /\ Len(RingOf(v, t, slots)) = RingLen(v, t)
               /\ \A k \in 1 .. RingLen(v, t) :
                     RingOf(v, t, slots)[k] = slots[RingSlot(v, k)]
    <3>1. RingOf(v, t, slots) \in Seq(Message \cup {None})
      BY RingOfIs
    <3>2. Len(RingOf(v, t, slots)) = RingLen(v, t)
      BY RingOfIs
    <3>3. ASSUME NEW k \in 1 .. RingLen(v, t)
          PROVE  RingOf(v, t, slots)[k] = slots[RingSlot(v, k)]
      BY RingOfIs
    <3>. QED
      BY <3>1, <3>2, <3>3
  <2>. QED
    BY <1>1, <1>2, <2>1
<1> HIDE DEF q
<1>6. q # <<>> /\ Head(q) = slots[h]
  BY <1>2, <1>3, <1>4
<1>7. /\ Tail(q) \in Seq(Message \cup {None}) /\ Len(Tail(q)) = n - 1
      /\ \A k \in 1 .. n - 1 : Tail(q)[k] = q[k + 1]
  BY <1>4, <1>6, HeadTailProperties
<1>8. \A k \in 1 .. n - 1 : RingOf(g, t, slots)[k] = Tail(q)[k]
  BY <1>2, <1>3, <1>4, <1>5, <1>7
<1>9. RingOf(g, t, slots) = Tail(q)
  BY <1>5, <1>7, <1>8, SeqEqual
<1>. QED
  BY <1>6, <1>9 DEF q, g

\* The slot at the tail is not part of the ring.
LEMMA RingStable ==
    ASSUME NEW h \in Index, NEW t \in Index, NEW slots \in Slots,
           NEW slots2 \in Slots, \A s \in Index : s # t => slots2[s] = slots[s]
    PROVE  RingOf(h, t, slots2) = RingOf(h, t, slots)
<1>1. ASSUME NEW k \in 1 .. RingLen(h, t)
      PROVE  RingOf(h, t, slots2)[k] = RingOf(h, t, slots)[k]
  <2>1. /\ RingSlot(h, k) \in Index /\ RingSlot(h, k) # t
        /\ RingOf(h, t, slots)[k] = slots[RingSlot(h, k)]
    BY SMTT(30), RingOfIs
  <2>2. \A ss \in Slots :
          \A kk \in 1 .. RingLen(h, t) : RingOf(h, t, ss)[kk] = ss[RingSlot(h, kk)]
    BY RingOfIs
  <2>. QED
    BY <2>1, <2>2
<1>2. /\ RingOf(h, t, slots) \in Seq(Message \cup {None}) /\ RingOf(h, t, slots2) \in Seq(Message \cup {None})
      /\ Len(RingOf(h, t, slots)) = RingLen(h, t)
      /\ Len(RingOf(h, t, slots2)) = RingLen(h, t)
  BY RingOfIs
<1>. QED
  BY <1>1, <1>2, SeqEqual

\* NextIndex of the tail is the head exactly when NumSlots - 1 slots are in use.
LEMMA RingFull ==
    ASSUME NEW h \in Index, NEW t \in Index, NEW slots \in Slots,
           NextIndex(t) = h
    PROVE  Len(RingOf(h, t, slots)) = NumSlots - 1
<1>1. h = IF t + 1 = NumSlots THEN 0 ELSE t + 1
  BY NextIndexIs
<1>2. RingLen(h, t) = NumSlots - 1
  BY <1>1, NumSlotsAssumption DEF RingLen, Index
<1>. QED
  BY <1>2, RingOfIs

\* What a step does to the ring of one writer.
LEMMA RingStep ==
    ASSUME QueueInv, QueueInv', [Next]_vars, NEW w \in Writer
    PROVE  [WriterFifo(w)!Next]_(WriterFifo(w)!vars)
<1> DEFINE q == RingOf(qhead[w], qtail[w], data[w])
<1>0. /\ TypeOK /\ RingInv
      /\ qhead[w] \in Index /\ qtail[w] \in Index /\ data[w] \in Slots
      /\ data'[w] \in Slots
      /\ Contents(w) = q
      /\ Contents(w)' = RingOf(qhead'[w], qtail'[w], data'[w])
  BY DEF QueueInv, TypeOK, Slots, Contents, RingOf
<1> USE DEF TypeOK, ringVars, writerVars, readerVars, historyVars
<1>1. CASE UNCHANGED <<qhead[w], qtail[w], data[w], enqRet[w], last[w]>>
  <2>1. Contents(w)' = Contents(w)
    BY <1>0, <1>1
  <2>. QED
    BY <1>1, <2>1 DEF WriterFifo!vars
<1>2. CASE EnqueueFull(w)
  <2>1. Len(q) = NumSlots - 1
    BY <1>0, <1>2, RingFull DEF EnqueueFull, Full
  <2>2. WriterFifo(w)!PutRefused
    BY <1>0, <1>2, <2>1 DEF WriterFifo!PutRefused, EnqueueFull
  <2>. QED
    BY <2>2 DEF WriterFifo!Next
<1>3. CASE Fill(w)
  <2>1. /\ \A s \in Index : s # qtail[w] => data'[w][s] = data[w][s]
        /\ UNCHANGED <<qhead, qtail, enqRet, last>>
    BY <1>3 DEF Fill
  <2>2. RingOf(qhead[w], qtail[w], data'[w]) = q
    BY ZenonT(40), <1>0, <2>1, RingStable
  <2>3. Contents(w)' = Contents(w)
    BY <1>0, <2>1, <2>2
  <2>. QED
    BY <2>1, <2>3 DEF WriterFifo!vars
<1>4. CASE Publish(w)
  <2>1. /\ data[w][qtail[w]] = enqMsg[w] /\ enqMsg[w] \in Message
        /\ NextIndex(qtail[w]) # qhead[w]
    BY <1>0, <1>4 DEF RingInv, Publish, Full
  <2>2. /\ qhead' = qhead /\ data' = data /\ last' = last
        /\ qtail'[w] = NextIndex(qtail[w]) /\ enqRet'[w] = 0
    BY <1>0, <1>4 DEF Publish
  <2>3. /\ RingOf(qhead[w], NextIndex(qtail[w]), data[w]) = Append(q, data[w][qtail[w]])
        /\ Len(q) < NumSlots - 1
    BY <1>0, <2>1, RingAppend
  <2>4. Contents(w)' = Append(Contents(w), enqMsg[w])
    BY <1>0, <2>1, <2>2, <2>3
  <2>5. WriterFifo(w)!Put(enqMsg[w])
    BY <1>0, <2>2, <2>3, <2>4 DEF WriterFifo!Put
  <2>. QED
    BY <2>1, <2>5 DEF WriterFifo!Next
<1>5. CASE DequeueAdvance /\ queue_id = w
  <2>1. buf = data[w][qhead[w]] /\ qhead[w] # qtail[w]
    BY <1>0, <1>5 DEF RingInv, DequeueAdvance, Empty
  <2>2. /\ qtail' = qtail /\ data' = data /\ enqRet' = enqRet
        /\ qhead'[w] = NextIndex(qhead[w]) /\ last'[w] = buf
    BY <1>0, <1>5 DEF DequeueAdvance
  <2>3. /\ q # <<>> /\ Head(q) = data[w][qhead[w]]
        /\ RingOf(NextIndex(qhead[w]), qtail[w], data[w]) = Tail(q)
    BY <1>0, <2>1, RingTail
  <2>4. WriterFifo(w)!Take
    BY <1>0, <2>1, <2>2, <2>3 DEF WriterFifo!Take
  <2>. QED
    BY <2>4 DEF WriterFifo!Next
\* Every other step leaves the ring alone.
<1>6. ASSUME ~EnqueueFull(w), ~Fill(w), ~Publish(w), ~(DequeueAdvance /\ queue_id = w)
      PROVE  UNCHANGED <<qhead[w], qtail[w], data[w], enqRet[w], last[w]>>
  <2>1. ASSUME NEW x \in Writer, Enqueue(x)
        PROVE  UNCHANGED <<qhead[w], qtail[w], data[w], enqRet[w], last[w]>>
    BY <1>0, <1>6, <2>1
       DEF Enqueue, EnqueueFull, EnqueueBegin, DrawId, Fill, Publish
  <2>2. CASE Dequeue
    BY <1>0, <1>6, <2>2
       DEF Dequeue, DequeueBegin, ScanById, ScanInTurn, DequeueEmpty,
           DequeueCopy, DequeueAdvance
  <2>3. CASE UNCHANGED vars
    BY <2>3 DEF vars
  <2>. QED
    BY <2>1, <2>2, <2>3 DEF Next
<1>. QED
  BY <1>1, <1>2, <1>3, <1>4, <1>5, <1>6

\* Whatever the consumer picks and however its scan interleaves with the
\* writers, the messages of each writer arrive whole, once, in the order of its
\* calls, and a writer is refused only while its own ring holds NumSlots - 1:
\* wfmpscq_enqueue and wfmpscq_dequeue make of each ring a bounded FIFO.
THEOREM WritersKeepOrder == Spec => WritersAreFifo
<1>1. Init => \A w \in Writer : WriterFifo(w)!Init
  <2> SUFFICES ASSUME Init, NEW w \in Writer PROVE WriterFifo(w)!Init
    OBVIOUS
  <2>1. 0 \in Index /\ data[w] \in Slots /\ qhead[w] = 0 /\ qtail[w] = 0
    BY NumSlotsAssumption DEF Init, Slots, Index
  <2>2. Contents(w) = RingOf(0, 0, data[w])
    BY <2>1 DEF Contents, RingOf
  <2>3. Len(Contents(w)) = 0 /\ Contents(w) \in Seq(Message \cup {None})
    BY <2>1, <2>2, RingOfIs DEF RingLen
  <2>4. Contents(w) = <<>>
    BY <2>3
  <2>. QED
    BY <2>4 DEF Init, WriterFifo!Init
<1>2. QueueInv /\ QueueInv' /\ [Next]_vars =>
          \A w \in Writer : [WriterFifo(w)!Next]_(WriterFifo(w)!vars)
  BY RingStep
<1>. QED
  BY <1>1, <1>2, QueueInvHolds, PTL DEF Spec, WritersAreFifo
=============================================================================
