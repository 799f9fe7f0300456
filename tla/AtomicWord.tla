----------------------------- MODULE AtomicWord -----------------------------
(***************************************************************************)
(* What include/atomic.h promises: each call reads a word and writes it in *)
(* one indivisible step between its begin and its return.                  *)
(***************************************************************************)
EXTENDS Integers

CONSTANTS Proc, Call, NoCall

VARIABLES
    word,
    size,       \* the word has size values and wraps around
    calling,    \* the call each process is in, or NoCall
    returned    \* return value of each process's latest finished call

vars == <<word, size, calling, returned>>

Init ==
    /\ word \in 0 .. size - 1
    /\ calling = [p \in Proc |-> NoCall]
    /\ returned = [p \in Proc |-> 0]

Begin(p, c) ==
    /\ calling[p] = NoCall
    /\ calling' = [calling EXCEPT ![p] = c]
    /\ returned' = [returned EXCEPT ![p] = 0]
    /\ UNCHANGED <<word, size>>

Return(p, value) ==
    /\ calling' = [calling EXCEPT ![p] = NoCall]
    /\ returned' = [returned EXCEPT ![p] = value]
    /\ UNCHANGED size

Exchange(p) ==
    /\ calling[p].f = "cas"
    /\ calling[p].old = word
    /\ word' = calling[p].new
    /\ Return(p, 1)

ExchangeFails(p) ==
    /\ calling[p].f = "cas"
    /\ calling[p].old # word
    /\ UNCHANGED word
    /\ Return(p, 0)

FetchAndAdd(p) ==
    /\ calling[p].f = "faa"
    /\ word' = (word + calling[p].new) % size
    /\ Return(p, word)

Assign(p) ==
    /\ calling[p].f = "store"
    /\ word' = calling[p].new
    /\ Return(p, 0)

Perform(p) ==
    /\ calling[p] # NoCall
    /\ Exchange(p) \/ ExchangeFails(p) \/ FetchAndAdd(p) \/ Assign(p)

Next == \E p \in Proc : Perform(p) \/ \E c \in Call : Begin(p, c)

Spec == Init /\ [][Next]_vars
=============================================================================
