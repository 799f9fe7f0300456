---------------------------- MODULE BoundedFifo ----------------------------
(***************************************************************************)
(* What a bounded single-producer single-consumer queue promises its two   *)
(* callers: messages come out in the order they went in, each of them      *)
(* once and whole; an enqueue is refused only at a moment when the queue   *)
(* holds Capacity messages, a dequeue only at a moment when it holds none. *)
(***************************************************************************)
EXTENDS Integers, Sequences

CONSTANTS
    Message,    \* what a caller may enqueue
    Capacity,   \* the number of messages the queue can hold
    Blank       \* what the consumer's buffer holds before its first message

VARIABLES
    queue,      \* the messages inside the queue, oldest first
    putRet,     \* return value of the producer's latest finished call
    takeRet,    \* return value of the consumer's latest finished call
    taken       \* the message the consumer received last

vars == <<queue, putRet, takeRet, taken>>

Init ==
    /\ queue = <<>>
    /\ putRet = 0
    /\ takeRet = 0
    /\ taken = Blank

(***************************************************************************)
(* The producer's two outcomes.                                            *)
(***************************************************************************)
Put(m) ==
    /\ Len(queue) < Capacity
    /\ queue' = Append(queue, m)
    /\ putRet' = 0
    /\ UNCHANGED <<takeRet, taken>>

PutRefused ==
    /\ Len(queue) = Capacity
    /\ putRet' = -1
    /\ UNCHANGED <<queue, takeRet, taken>>

(***************************************************************************)
(* The consumer's two outcomes.                                            *)
(***************************************************************************)
Take ==
    /\ queue # <<>>
    /\ queue' = Tail(queue)
    /\ taken' = Head(queue)
    /\ takeRet' = 0
    /\ UNCHANGED putRet

TakeRefused ==
    /\ queue = <<>>
    /\ takeRet' = -1
    /\ UNCHANGED <<queue, putRet, taken>>

Next ==
    \/ \E m \in Message : Put(m)
    \/ PutRefused
    \/ Take
    \/ TakeRefused

Spec == Init /\ [][Next]_vars
=============================================================================
