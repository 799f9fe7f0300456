----------------------------- MODULE LinkedFifo -----------------------------
(***************************************************************************)
(* What a queue made of linked slots promises its producers and consumers. *)
(* An enqueue that will return 0 puts its message at the end of the queue  *)
(* at one instant of the call; a dequeue takes the oldest message, and     *)
(* says that there is none only at an instant when there is none.  An      *)
(* enqueue may be refused: the queue has no fixed capacity.                *)
(***************************************************************************)
EXTENDS Integers, Sequences

CONSTANTS
    Producer,
    Consumer,
    Message,
    NoMessage

VARIABLES
    queue,      \* the messages inside the queue, oldest first
    calling,    \* the message each producer is enqueueing, or NoMessage
    isPut,      \* whether that message is in the queue already
    taken,      \* the message each consumer received last
    takeRet     \* the outcome of its latest dequeue

vars == <<queue, calling, isPut, taken, takeRet>>

Init ==
    /\ queue = <<>>
    /\ calling = [p \in Producer |-> NoMessage]
    /\ isPut = [p \in Producer |-> FALSE]
    /\ taken = [c \in Consumer |-> NoMessage]
    /\ takeRet = [c \in Consumer |-> 0]

Call(p) ==
    /\ calling[p] = NoMessage
    /\ \E m \in Message : calling' = [calling EXCEPT ![p] = m]
    /\ UNCHANGED <<queue, isPut, taken, takeRet>>

Put(p) ==
    /\ calling[p] # NoMessage
    /\ ~isPut[p]
    /\ queue' = Append(queue, calling[p])
    /\ isPut' = [isPut EXCEPT ![p] = TRUE]
    /\ UNCHANGED <<calling, taken, takeRet>>

\* Return 0 if the message was put, -1 if the call was refused.
Return(p) ==
    /\ calling[p] # NoMessage
    /\ calling' = [calling EXCEPT ![p] = NoMessage]
    /\ isPut' = [isPut EXCEPT ![p] = FALSE]
    /\ UNCHANGED <<queue, taken, takeRet>>

Take(c) ==
    /\ queue # <<>>
    /\ taken' = [taken EXCEPT ![c] = Head(queue)]
    /\ queue' = Tail(queue)
    /\ takeRet' = [takeRet EXCEPT ![c] = 0]
    /\ UNCHANGED <<calling, isPut>>

TakeRefused(c) ==
    /\ queue = <<>>
    /\ takeRet' = [takeRet EXCEPT ![c] = -1]
    /\ UNCHANGED <<queue, calling, isPut, taken>>

Next ==
    \/ \E p \in Producer : Call(p) \/ Put(p) \/ Return(p)
    \/ \E c \in Consumer : Take(c) \/ TakeRefused(c)

Spec == Init /\ [][Next]_vars
=============================================================================
