------------------------- MODULE SensorbufferProofs -------------------------
(***************************************************************************)
(* Proofs about Sensorbuffer for every number of buffers, every sample     *)
(* size and every depth of the reader's store buffer: type correctness and *)
(* the three safety invariants.                                            *)
(*                                                                         *)
(* The argument.  A buffer whose v is 1 is whole: the writer clears v      *)
(* before the first word it writes and sets it after the last one.  The    *)
(* reader finds v = 1 after its r = 1 is in memory.  From then on the      *)
(* writer cannot write a word of that buffer without clearing r first, and *)
(* nobody but the reader sets r again, so r = 1 after the copy means that  *)
(* the buffer has not changed since v was loaded.                          *)
(*                                                                         *)
(* What is written is never older than what is published, so no word of    *)
(* the buffer the reader has chosen falls behind what was published when   *)
(* the call began.                                                         *)
(***************************************************************************)
EXTENDS Sensorbuffer, SequenceTheorems, TLAPS

Whole(sample) == \A w \in Words : sample[w] = sample[1]

\* What the writer has made of its buffer.
WriterInv ==
    /\ wpc # "idle" => wcur = NextBuffer
    /\ wpc \in {"clearR", "copy"} => v[wcur] = 0
    /\ wpc = "clearR" => wdone = 0
    /\ wpc = "copy" => \A w \in 1 .. wdone : data[wcur][w] = updates
    /\ wpc = "publish" =>
          v[wcur] = 1 /\ \A w \in Words : data[wcur][w] = updates
    /\ \A b \in Buffer : v[b] = 1 => Whole(data[b])

\* As long as r is 1 the reader's copy is that of a buffer at rest.
CopyInv ==
    rpc = "copy" /\ ~late =>
        /\ pending = <<>>
        /\ r[rcur] = 1 =>
              /\ Whole(data[rcur])
              /\ \A w \in 1 .. rdone : rbuf[w] = data[rcur][w]
              /\ ~(wpc = "copy" /\ wcur = rcur)

ReturnInv == rpc = "idle" /\ rret = 0 /\ ~late => Whole(rbuf)

\* published only grows; no word of the buffer last_written names, or of the one
\* the reader has chosen, is older than it has to be.
FreshInv ==
    /\ since <= published
    /\ published <= updates
    /\ IF last_written = -1 THEN published = 0
       ELSE \A w \in Words : data[last_written][w] >= published
    /\ rpc \in {"setR", "checkV", "copy"} =>
          \A w \in Words : data[rcur][w] >= since
    /\ rpc = "copy" => \A w \in 1 .. rdone : rbuf[w] >= since

SensorInv ==
    /\ TypeOK
    /\ WriterInv
    /\ LatestIsValid
    /\ CopyInv
    /\ ReturnInv
    /\ FreshInv
    /\ FreshAtCall

-----------------------------------------------------------------------------
\* The buffer after last_written is one, and another one if there are two.
LEMMA NextBufferIs ==
    ASSUME last_written \in Buffer \cup {-1}
    PROVE  /\ NextBuffer \in Buffer
           /\ NumBuffer > 1 => NextBuffer # last_written
<1> DEFINE x == last_written + 1
<1>1. x \in 0 .. NumBuffer
  BY NumBufferAssumption DEF Buffer
<1> HIDE DEF x
<1>2. x % NumBuffer = IF x < NumBuffer THEN x ELSE x - NumBuffer
  BY <1>1, NumBufferAssumption
<1>3. NextBuffer = x % NumBuffer
  BY DEF NextBuffer, x
<1>. QED
  BY <1>1, <1>2, <1>3, NumBufferAssumption DEF x, Buffer

\* A new segment, which is zero.
LEMMA SensorInvInit == Init => SensorInv
<1> SUFFICES ASSUME Init PROVE SensorInv
  OBVIOUS
<1>1. pending \in Seq(Buffer) /\ Len(pending) = 0
  BY DEF Init
<1>2. TypeOK
  BY SMTT(30), <1>1, NumBufferAssumption, SlotWordsAssumption, StoreDepthAssumption,
     MaxUpdatesAssumption
     DEF Init, TypeOK, Buffer, Words, Sample
<1>. QED
  BY <1>2, SlotWordsAssumption
     DEF Init, SensorInv, WriterInv, LatestIsValid, CopyInv, ReturnInv, FreshInv,
         FreshAtCall, Whole, Words, Buffer

\* No step makes a variable leave its range.
LEMMA TypeOKStep == TypeOK /\ [Next]_vars => TypeOK'
<1> SUFFICES ASSUME TypeOK, [Next]_vars PROVE TypeOK'
  OBVIOUS
<1> USE SlotWordsAssumption, StoreDepthAssumption, MaxUpdatesAssumption
    DEF TypeOK, sharedVars, writerVars, readerVars
<1>1. CASE UpdateClearV
  BY <1>1, NextBufferIs DEF UpdateClearV, Sample
<1>2. CASE UpdateClearR
  BY <1>2 DEF UpdateClearR
<1>3. CASE UpdateCopy
  <2>1. wdone + 1 \in Words /\ wdone + 1 \in 0 .. SlotWords
    BY <1>3 DEF UpdateCopy, Words
  <2>. QED
    BY <1>3, <2>1 DEF UpdateCopy
<1>4. CASE UpdateSetV
  BY <1>4 DEF UpdateSetV
<1>5. CASE UpdatePublish
  BY <1>5 DEF UpdatePublish
<1>6. CASE WriterRestart
  BY <1>6 DEF WriterRestart
<1>7. CASE ReadCall
  BY <1>7 DEF ReadCall
<1>8. CASE ReadIndex
  BY <1>8 DEF ReadIndex
<1>9. CASE ReadSetR
  <2>1. CASE StoreDepth = 0
    BY <1>9, <2>1 DEF ReadSetR
  <2>2. CASE StoreDepth # 0
    <3>1. pending' = Append(pending, rcur) /\ Len(pending) < StoreDepth
      BY <1>9, <2>2 DEF ReadSetR
    <3>2. pending' \in Seq(Buffer) /\ Len(pending') = Len(pending) + 1
      BY <3>1, AppendProperties
    <3>3. Len(pending') <= StoreDepth
      BY <3>1, <3>2
    <3>. QED
      BY <1>9, <2>2, <3>2, <3>3 DEF ReadSetR
  <2>. QED
    BY <2>1, <2>2
<1>10. CASE Drain
  <2>1. Head(pending) \in Buffer /\ Tail(pending) \in Seq(Buffer)
        /\ Len(Tail(pending)) <= StoreDepth
    BY <1>10, HeadTailProperties DEF Drain
  <2>. QED
    BY <1>10, <2>1 DEF Drain
<1>11. CASE ReadCheckV
  <2>1. late' = (pending # <<>>)
    BY <1>11 DEF ReadCheckV
  <2>2. (pending # <<>>) \in BOOLEAN
    OBVIOUS
  <2>3. late' \in BOOLEAN
    BY <2>1, <2>2, Zenon
  <2>. QED
    BY <1>11, <2>3 DEF ReadCheckV
<1>12. CASE ReadCopy
  <2>1. rdone + 1 \in Words /\ rdone + 1 \in 0 .. SlotWords
    BY <1>12 DEF ReadCopy, Words
  <2>. QED
    BY <1>12, <2>1 DEF ReadCopy
<1>13. CASE ReadCheckR
  BY <1>13 DEF ReadCheckR
<1>14. CASE UNCHANGED vars
  BY <1>14 DEF vars
<1>. QED
  BY <1>1, <1>2, <1>3, <1>4, <1>5, <1>6, <1>7, <1>8, <1>9, <1>10, <1>11, <1>12,
     <1>13, <1>14 DEF Next, Writer, Reading

\* What no step of the reader changes.
LEMMA ReaderLeaves ==
    ASSUME ReadCall \/ Reading \/ Drain
    PROVE  UNCHANGED <<last_written, v, data, writerVars>>
BY DEF ReadCall, Reading, ReadIndex, ReadSetR, ReadCheckV, ReadCopy, ReadCheckR,
       Drain, sharedVars

\* The writer keeps v = 0 for as long as its buffer is torn.
LEMMA WriterInvStep ==
    ASSUME TypeOK, TypeOK', WriterInv, LatestIsValid, [Next]_vars
    PROVE  WriterInv' /\ LatestIsValid'
<1> USE SlotWordsAssumption
    DEF TypeOK, WriterInv, LatestIsValid, Whole, Words, NextBuffer, sharedVars
<1>0. NextBuffer \in Buffer /\ (NumBuffer > 1 => NextBuffer # last_written)
  BY NextBufferIs
<1>1. CASE UpdateClearV
  BY <1>0, <1>1 DEF UpdateClearV
<1>2. CASE UpdateClearR
  BY <1>2 DEF UpdateClearR
<1>3. CASE UpdateCopy
  <2>1. \A b \in Buffer : v[b] = 1 => data'[b] = data[b]
    BY <1>3 DEF UpdateCopy
  <2>2. \A w \in 1 .. wdone' : data'[wcur][w] = updates
    BY <1>3 DEF UpdateCopy
  <2>. QED
    BY <1>3, <2>1, <2>2 DEF UpdateCopy
<1>4. CASE UpdateSetV
  BY <1>0, <1>4 DEF UpdateSetV
<1>5. CASE UpdatePublish
  BY <1>5 DEF UpdatePublish
<1>6. CASE WriterRestart
  BY <1>6 DEF WriterRestart
<1>7. CASE ReadCall \/ Reading \/ Drain
  BY <1>7, ReaderLeaves DEF writerVars
<1>8. CASE UNCHANGED vars
  BY <1>8 DEF vars, writerVars
<1>. QED
  BY <1>1, <1>2, <1>3, <1>4, <1>5, <1>6, <1>7, <1>8 DEF Next, Writer

\* The reader's copy: only the writer disturbs it, and then r is 0.
LEMMA CopyInvStep ==
    ASSUME TypeOK, TypeOK', WriterInv, CopyInv, ReturnInv, [Next]_vars
    PROVE  CopyInv' /\ ReturnInv'
<1> USE SlotWordsAssumption
    DEF TypeOK, CopyInv, ReturnInv, Whole, Words, sharedVars, writerVars, readerVars
<1>1. CASE UpdateClearV
  BY <1>1 DEF UpdateClearV
<1>2. CASE UpdateClearR
  BY <1>2 DEF UpdateClearR
<1>3. CASE UpdateCopy
  <2>1. rcur # wcur => data'[rcur] = data[rcur]
    BY <1>3 DEF UpdateCopy
  <2>. QED
    BY <1>3, <2>1 DEF UpdateCopy
<1>4. CASE UpdateSetV
  BY <1>4 DEF UpdateSetV
<1>5. CASE UpdatePublish
  BY <1>5 DEF UpdatePublish
<1>6. CASE WriterRestart
  BY <1>6 DEF WriterRestart
<1>7. CASE ReadCall
  BY <1>7 DEF ReadCall
<1>8. CASE ReadIndex
  BY <1>8 DEF ReadIndex
<1>9. CASE ReadSetR
  BY <1>9 DEF ReadSetR
<1>10. CASE Drain
  BY <1>10 DEF Drain
<1>11. CASE ReadCheckV
  <2>1. ASSUME v[rcur] = 1, ~late' PROVE CopyInv'
    <3>1. pending = <<>>
      BY <1>11, <2>1 DEF ReadCheckV
    <3>2. Whole(data[rcur])
      BY <2>1, rcur \in Buffer DEF WriterInv
    <3>3. ~(wpc = "copy" /\ wcur = rcur)
      BY <2>1 DEF WriterInv
    <3>. QED
      BY <1>11, <3>1, <3>2, <3>3 DEF ReadCheckV
  <2>. QED
    BY <1>11, <2>1 DEF ReadCheckV
<1>12. CASE ReadCopy
  BY <1>12 DEF ReadCopy
<1>13. CASE ReadCheckR
  <2>1. ASSUME ~late, RSeen(rcur) = 1 PROVE Whole(rbuf)
    <3>1. pending = <<>> /\ r[rcur] = 1
      BY <1>13, <2>1 DEF ReadCheckR, RSeen
    <3>. QED
      BY <1>13, <2>1, <3>1 DEF ReadCheckR
  <2>. QED
    BY <1>13, <2>1 DEF ReadCheckR
<1>14. CASE UNCHANGED vars
  BY <1>14 DEF vars
<1>. QED
  BY <1>1, <1>2, <1>3, <1>4, <1>5, <1>6, <1>7, <1>8, <1>9, <1>10, <1>11, <1>12,
     <1>13, <1>14 DEF Next, Writer, Reading

\* Time only runs forward: what is published grows, and what is written is
\* newer than what is published.
LEMMA FreshInvStep ==
    ASSUME TypeOK, TypeOK', WriterInv, FreshInv, FreshAtCall, [Next]_vars
    PROVE  FreshInv' /\ FreshAtCall'
<1> USE SlotWordsAssumption
    DEF TypeOK, FreshInv, FreshAtCall, Words, Sample, sharedVars, writerVars,
        readerVars
<1>1. CASE UpdateClearV
  BY <1>1 DEF UpdateClearV
<1>2. CASE UpdateClearR
  BY <1>2 DEF UpdateClearR
<1>3. CASE UpdateCopy
  <2>1. \A b \in Buffer, w \in Words :
           data'[b][w] = data[b][w] \/ data'[b][w] = updates
    BY <1>3 DEF UpdateCopy
  <2>2. since <= updates
    OBVIOUS
  <2>. QED
    BY ZenonT(40), <1>3, <2>1, <2>2 DEF UpdateCopy
<1>4. CASE UpdateSetV
  BY <1>4 DEF UpdateSetV
<1>5. CASE UpdatePublish
  BY <1>5, SMTT(30) DEF UpdatePublish, WriterInv, Buffer
<1>6. CASE WriterRestart
  BY <1>6 DEF WriterRestart
<1>7. CASE ReadCall
  BY <1>7 DEF ReadCall
<1>8. CASE ReadIndex
  <2>1. CASE last_written = -1
    BY <1>8, <2>1 DEF ReadIndex
  <2>2. CASE last_written # -1
    <3>1. ASSUME NEW w \in Words PROVE data[last_written][w] >= since
      <4>1. data[last_written][w] \in 0 .. MaxUpdates
        <5>1. last_written \in Buffer /\ data \in [Buffer -> [Words -> 0 .. MaxUpdates]]
          BY <2>2
        <5> HIDE DEF TypeOK, FreshInv
        <5>. QED
          BY <3>1, <5>1
      <4>2. data[last_written][w] >= published /\ published >= since
        BY <2>2, <3>1
      <4>3. published \in 0 .. MaxUpdates /\ since \in 0 .. MaxUpdates
        OBVIOUS
      <4> HIDE DEF TypeOK, FreshInv
      <4>. QED
        BY <4>1, <4>2, <4>3, MaxUpdatesAssumption
    <3>. QED
      BY <1>8, <2>2, <3>1 DEF ReadIndex
  <2>. QED
    BY <2>1, <2>2
<1>9. CASE ReadSetR
  BY <1>9 DEF ReadSetR
<1>10. CASE Drain
  BY <1>10 DEF Drain
<1>11. CASE ReadCheckV
  BY <1>11 DEF ReadCheckV
<1>12. CASE ReadCopy
  BY <1>12, SMTT(30) DEF ReadCopy
<1>13. CASE ReadCheckR
  BY <1>13 DEF ReadCheckR
<1>14. CASE UNCHANGED vars
  BY <1>14 DEF vars
<1>. QED
  BY <1>1, <1>2, <1>3, <1>4, <1>5, <1>6, <1>7, <1>8, <1>9, <1>10, <1>11, <1>12,
     <1>13, <1>14 DEF Next, Writer, Reading

LEMMA SensorInvHolds == Spec => []SensorInv
<1>1. SensorInv /\ [Next]_vars => SensorInv'
  BY TypeOKStep, WriterInvStep, CopyInvStep, FreshInvStep DEF SensorInv
<1>. QED
  BY SensorInvInit, <1>1, PTL DEF Spec

-----------------------------------------------------------------------------
(***************************************************************************)
(* Results                                                                 *)
(***************************************************************************)

\* Indices, flags, samples and the store buffer stay in range, for every number
\* of buffers, sample size and depth of the store buffer.
THEOREM TypeCorrect == Spec => []TypeOK
<1>1. SensorInv => TypeOK
  BY DEF SensorInv
<1>. QED
  BY <1>1, SensorInvHolds, PTL

\* sensorbuffer_read returns a whole sample, unless it loaded v while its own
\* store of r was still on its way to memory.
THEOREM ReadsAreWhole == Spec => []WholeIfOrdered
<1>1. SensorInv => WholeIfOrdered
  BY DEF SensorInv, ReturnInv, WholeIfOrdered, HasRead, Whole
<1>. QED
  BY <1>1, SensorInvHolds, PTL

\* On a sequentially consistent machine the reader's store never waits, so that
\* every read that returns 0 returns a whole sample.
THEOREM ReadsAreWholeInOrder ==
    ASSUME StoreDepth = 0
    PROVE  Spec => [](HasRead => Whole(rbuf))
<1> DEFINE NeverLate == ~late
<1>1. Init => NeverLate
  BY DEF Init
<1>2. TypeOK /\ NeverLate /\ [Next]_vars => NeverLate'
  <2> SUFFICES ASSUME TypeOK, NeverLate, [Next]_vars
               PROVE  NeverLate'
    OBVIOUS
  <2>1. pending = <<>>
    <3>1. pending \in Seq(Buffer) /\ Len(pending) <= 0
      BY DEF TypeOK
    <3>. QED
      BY <3>1, EmptySeq
  <2>2. CASE ReadCheckV
    BY <2>1, <2>2 DEF ReadCheckV
  <2>3. CASE ~ReadCheckV
    BY <2>3 DEF Next, Writer, UpdateClearV, UpdateClearR, UpdateCopy, UpdateSetV,
                UpdatePublish, WriterRestart, ReadCall, Reading, ReadIndex, ReadSetR,
                ReadCopy, ReadCheckR, Drain, readerVars, vars
  <2>. QED
    BY <2>2, <2>3
<1>3. SensorInv /\ NeverLate => (HasRead => Whole(rbuf))
  BY DEF SensorInv, ReturnInv, HasRead
<1>4. SensorInv => TypeOK
  BY DEF SensorInv
<1>. QED
  BY <1>1, <1>2, <1>3, <1>4, SensorInvHolds, PTL DEF Spec

\* No read returns a sample older than the one current when it began, also
\* those that may be torn; -1 means that there was none.
THEOREM ReadsAreFresh == Spec => []FreshAtCall
<1>1. SensorInv => FreshAtCall
  BY DEF SensorInv
<1>. QED
  BY <1>1, SensorInvHolds, PTL

\* The buffer last_written names stays valid during every later update, however
\* it ends.
THEOREM LastWrittenIsValid == Spec => []LatestIsValid
<1>1. SensorInv => LatestIsValid
  BY DEF SensorInv
<1>. QED
  BY <1>1, SensorInvHolds, PTL
=============================================================================
