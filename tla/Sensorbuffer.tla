---------------------------- MODULE Sensorbuffer ----------------------------
(***************************************************************************)
(* The sensor buffer of src/sensorbuffer.c: one writer overwrites NumBuffer*)
(* buffers in turn, one reader copies the buffer written last and detects  *)
(* by the flags r and v that the writer has caught up with it.             *)
(*                                                                         *)
(* A step is one access to shared memory; the memcpys move one word a      *)
(* step.  A sample is the number of the update that wrote it, so a buffer  *)
(* whose words differ is torn.  MaxUpdates bounds the updates.             *)
(*                                                                         *)
(* StoreDepth is the number of the reader's stores that may wait in the    *)
(* store buffer of its processor: 0 is a sequentially consistent machine,  *)
(* more is x86 (sensorbuffer_read has no fence between its store of r and  *)
(* its load of v).  The writer only stores, and x86 keeps stores in order, *)
(* so a store buffer of its own would only make it later.                  *)
(*                                                                         *)
(* InPlace and the like are faulty variants of the definition that follows *)
(* them; no action uses them.                                              *)
(***************************************************************************)
EXTENDS Integers, Sequences

CONSTANTS
    NumBuffer,  \* bfd->numBuffer
    SlotWords,  \* the words hwfunctions_memcpy copies (bfd->bufferDataSize)
    StoreDepth,
    MaxUpdates

ASSUME NumBufferAssumption  == NumBuffer \in Nat \ {0}
ASSUME SlotWordsAssumption  == SlotWords \in Nat \ {0}
ASSUME StoreDepthAssumption == StoreDepth \in Nat
ASSUME MaxUpdatesAssumption == MaxUpdates \in Nat

VARIABLES
    last_written,   \* bfd->mem->last_written
    r,              \* b->r of each buffer
    v,              \* b->v of each buffer
    data,           \* the words of each buffer
    wpc,            \* the writer: "idle", or about to do what its label says
    wcur,           \* current of the writer's update
    wdone,          \* words its memcpy has written
    updates,        \* updates begun (history)
    published,      \* the update last_written was set for (history)
    rpc,            \* the reader: "idle", or about to do what its label says
    rcur,           \* current of the reader's call
    rdone,          \* words its memcpy has read
    rbuf,           \* the buffer the call fills
    rret,           \* return value of the latest finished call
    since,          \* published when the current or latest call began (history)
    late,           \* v was loaded while r = 1 still waited (history)
    pending         \* buffers whose r = 1 waits in the reader's store buffer

sharedVars == <<last_written, r, v, data>>
writerVars == <<wpc, wcur, wdone, updates, published>>
readerVars == <<rpc, rcur, rdone, rbuf, rret, since, late, pending>>
vars       == <<sharedVars, writerVars, readerVars>>

Buffer == 0 .. NumBuffer - 1
Words  == 1 .. SlotWords
Sample == 0 .. MaxUpdates

(***************************************************************************)
(* sensorbuffer_get in a new segment, which is zero.                       *)
(***************************************************************************)
Init ==
    /\ last_written = -1
    /\ r = [b \in Buffer |-> 0]
    /\ v = [b \in Buffer |-> 0]
    /\ data = [b \in Buffer |-> [w \in Words |-> 0]]
    /\ wpc = "idle" /\ wcur = 0 /\ wdone = 0 /\ updates = 0 /\ published = 0
    /\ rpc = "idle" /\ rcur = 0 /\ rdone = 0 /\ rret = 0
    /\ since = 0 /\ late = FALSE
    /\ rbuf = [w \in Words |-> 0]
    /\ pending = <<>>

-----------------------------------------------------------------------------
(***************************************************************************)
(* sensorbuffer_update                                                     *)
(***************************************************************************)

NextBufferUnwrapped == last_written + 1
NextBufferInPlace == IF last_written = -1 THEN 0 ELSE last_written
NextBuffer == (last_written + 1) % NumBuffer

\* current = the buffer after last_written, and b->v = 0.
UpdateClearV ==
    /\ wpc = "idle"
    /\ updates < MaxUpdates
    /\ updates' = updates + 1
    /\ wcur' = NextBuffer
    /\ v' = [v EXCEPT ![NextBuffer] = 0]
    /\ wpc' = "clearR"
    /\ wdone' = 0
    /\ UNCHANGED <<last_written, r, data, published, readerVars>>

UpdateKeepsR ==
    /\ wpc = "clearR"
    /\ wpc' = "copy"
    /\ UNCHANGED <<sharedVars, wcur, wdone, updates, published, readerVars>>

UpdateClearR ==
    /\ wpc = "clearR"
    /\ r' = [r EXCEPT ![wcur] = 0]
    /\ wpc' = "copy"
    /\ UNCHANGED <<last_written, v, data, wcur, wdone, updates, published,
                   readerVars>>

UpdateCopy ==
    /\ wpc = "copy"
    /\ wdone < SlotWords
    /\ data' = [data EXCEPT ![wcur][wdone + 1] = updates]
    /\ wdone' = wdone + 1
    /\ UNCHANGED <<last_written, r, v, wpc, wcur, updates, published, readerVars>>

UpdateSetV ==
    /\ wpc = "copy"
    /\ wdone = SlotWords
    /\ v' = [v EXCEPT ![wcur] = 1]
    /\ wpc' = "publish"
    /\ UNCHANGED <<last_written, r, data, wcur, wdone, updates, published,
                   readerVars>>

PublishForgotten ==
    /\ wpc = "publish"
    /\ published' = updates
    /\ wpc' = "idle"
    /\ UNCHANGED <<last_written, r, v, data, wcur, wdone, updates, readerVars>>

UpdatePublish ==
    /\ wpc = "publish"
    /\ last_written' = wcur
    /\ published' = updates
    /\ wpc' = "idle"
    /\ UNCHANGED <<r, v, data, wcur, wdone, updates, readerVars>>

\* The writer dies in the middle of an update and is started again: the
\* segment keeps what it wrote, and sensorbuffer_get finds it initialised.
WriterRestart ==
    /\ wpc # "idle"
    /\ wpc' = "idle"
    /\ UNCHANGED <<sharedVars, wcur, wdone, updates, published, readerVars>>

-----------------------------------------------------------------------------
(***************************************************************************)
(* sensorbuffer_read                                                       *)
(***************************************************************************)

ReadCall ==
    /\ rpc = "idle"
    /\ rpc' = "index"
    /\ since' = published
    /\ UNCHANGED <<sharedVars, writerVars, rcur, rdone, rbuf, rret, late,
                   pending>>

\* current = last_written; nothing was written yet: return -1.
ReadIndex ==
    /\ rpc = "index"
    /\ IF last_written = -1
       THEN /\ rpc' = "idle"
            /\ rret' = -1
            /\ UNCHANGED rcur
       ELSE /\ rpc' = "setR"
            /\ rcur' = last_written
            /\ UNCHANGED rret
    /\ UNCHANGED <<sharedVars, writerVars, rdone, rbuf, since, late,
                   pending>>

\* b->r = 1, at once or by way of the store buffer.
ReadSetR ==
    /\ rpc = "setR"
    /\ IF StoreDepth = 0
       THEN /\ r' = [r EXCEPT ![rcur] = 1]
            /\ UNCHANGED pending
       ELSE /\ Len(pending) < StoreDepth
            /\ pending' = Append(pending, rcur)
            /\ UNCHANGED r
    /\ rpc' = "checkV"
    /\ UNCHANGED <<last_written, v, data, writerVars, rcur, rdone, rbuf, rret,
                   since, late>>

\* The oldest store leaves the store buffer.
Drain ==
    /\ pending # <<>>
    /\ r' = [r EXCEPT ![Head(pending)] = 1]
    /\ pending' = Tail(pending)
    /\ UNCHANGED <<last_written, v, data, writerVars, rpc, rcur, rdone, rbuf,
                   rret, since, late>>

\* v != 1: start over.
ReadCheckV ==
    /\ rpc = "checkV"
    /\ rpc' = IF v[rcur] # 1 THEN "index" ELSE "copy"
    /\ rdone' = 0
    /\ late' = (pending # <<>>)
    /\ UNCHANGED <<sharedVars, writerVars, rcur, rbuf, rret, since, pending>>

ReadCopy ==
    /\ rpc = "copy"
    /\ rdone < SlotWords
    /\ rbuf' = [rbuf EXCEPT ![rdone + 1] = data[rcur][rdone + 1]]
    /\ rdone' = rdone + 1
    /\ UNCHANGED <<sharedVars, writerVars, rpc, rcur, rret, since, late,
                   pending>>

\* What the reader's load of r returns: its own waiting store, if there is one.
RSeen(b) == IF \E i \in DOMAIN pending : pending[i] = b THEN 1 ELSE r[b]

\* r != 1: start over; otherwise return 0.
ReadCheckR ==
    /\ rpc = "copy"
    /\ rdone = SlotWords
    /\ IF RSeen(rcur) # 1
       THEN rpc' = "index" /\ UNCHANGED rret
       ELSE rpc' = "idle" /\ rret' = 0
    /\ UNCHANGED <<sharedVars, writerVars, rcur, rdone, rbuf, since, late,
                   pending>>

-----------------------------------------------------------------------------
Writer ==
    \/ UpdateClearV
    \/ UpdateClearR
    \/ UpdateCopy
    \/ UpdateSetV
    \/ UpdatePublish
    \/ WriterRestart

Reading ==
    \/ ReadIndex
    \/ ReadSetR
    \/ ReadCheckV
    \/ ReadCopy
    \/ ReadCheckR

Next == Writer \/ ReadCall \/ Reading \/ Drain

Spec == Init /\ [][Next]_vars

\* Only the reader is sure to run; the writer may stop at any point for ever.
FairSpec == Spec /\ WF_vars(Reading) /\ WF_vars(Drain)

-----------------------------------------------------------------------------
(***************************************************************************)
(* Properties                                                              *)
(***************************************************************************)

\* Every variable keeps the range its C declaration and its uses give it.
TypeOK ==
    /\ last_written \in Buffer \cup {-1}
    /\ r \in [Buffer -> {0, 1}]
    /\ v \in [Buffer -> {0, 1}]
    /\ data \in [Buffer -> [Words -> Sample]]
    /\ wpc \in {"idle", "clearR", "copy", "publish"}
    /\ wcur \in Buffer
    /\ wdone \in 0 .. SlotWords
    /\ updates \in Sample
    /\ published \in Sample
    /\ rpc \in {"idle", "index", "setR", "checkV", "copy"}
    /\ rcur \in Buffer
    /\ rdone \in 0 .. SlotWords
    /\ rbuf \in [Words -> Sample]
    /\ rret \in {0, -1}
    /\ since \in Sample
    /\ late \in BOOLEAN
    /\ pending \in Seq(Buffer) /\ Len(pending) <= StoreDepth

\* The reader holds a sample that sensorbuffer_read returned with 0.
HasRead == rpc = "idle" /\ rret = 0 /\ rbuf[1] # 0

\* A read that succeeds returns one sample whole, however far the writer ran
\* ahead during the copy and wherever it died: a buffer that changed meanwhile
\* is given away by r or v.  This holds of the reads whose r = 1 was in memory
\* when they loaded v, as all are on a sequentially consistent machine.  Of the
\* others sensorbuffer_read itself says nothing: a load of r that its own waiting
\* store answers passes a torn sample.
WholeIfOrdered == HasRead /\ ~late => \A w \in Words : rbuf[w] = rbuf[1]

\* The sample is at least as recent as the one that was current when the call
\* began, and -1 is returned only if there was none then: retries and a buffer
\* that is reused never take the reader into the past.
FreshAtCall ==
    rpc = "idle" =>
        /\ rret = 0 => rbuf[1] >= since
        /\ rret = -1 => since = 0

\* With two buffers or more the buffer last_written names is valid at all
\* times, also while an update runs or after it died.
LatestIsValid ==
    NumBuffer > 1 /\ last_written # -1 => v[last_written] = 1

\* With two buffers or more a read returns although the writer stops for ever
\* in the middle of an update: the reader does not depend on it.
ReadReturns == NumBuffer > 1 => (rpc # "idle" ~> rpc = "idle")
=============================================================================
