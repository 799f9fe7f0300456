------------------------------ MODULE Atomics ------------------------------
(***************************************************************************)
(* The atomic operations of arch/arm/src/atomic.c and of                   *)
(* arch/x86/src/atomic.c on one word of memory.  The ARM ones are loops of *)
(* an exclusive load and an exclusive store, which fails if the processor  *)
(* has lost its reservation of the word; the x86 ones are one locked       *)
(* instruction.  A step is one access to the word.  Values are those in    *)
(* memory: a negative number is its two's complement.                      *)
(*                                                                         *)
(* StoreWithout and the like are faulty variants of the definition that    *)
(* follows them; no action uses them.                                      *)
(***************************************************************************)
EXTENDS Integers

CONSTANTS
    Proc,       \* processes, each on a processor of its own
    Build,      \* of "arm_zeros" and "arm_sign", by what the compiler fills a
                \* register with above a negative byte or half word, "x86", and
                \* "x86_AMD64", where __AMD64__ is defined
    Register,   \* the number of values of a 32 bit register
    Narrow,     \* the number of values of a byte or of a half word
    Arg,        \* for each type of word the arguments its callers use
    MaxLost     \* bound on the reservations lost for no reason

ASSUME BuildAssumption    == Build \subseteq
                              {"arm_zeros", "arm_sign", "x86", "x86_AMD64"}
ASSUME NarrowAssumption   == Narrow \in Nat /\ Narrow > 0 /\ Narrow % 2 = 0
ASSUME RegisterAssumption == Register \in Nat /\ Register > 0 /\ Register % Narrow = 0
ASSUME MaxLostAssumption  == MaxLost \in Nat

VARIABLES
    build,      \* the build, the same for all processes
    type,       \* the word: "signed" or "unsigned" for the 8 and 16 bit types,
                \* "register" for int and unsigned int, "double" for 64 bits
    word,       \* the memory
    call,       \* the call each process is in
    pc,         \* "idle", or about to do the access the label names
    tmp,        \* the register the exclusive load filled
    exclusive,  \* the processes whose processor holds a reservation
    lost,       \* reservations lost for no reason
    ret         \* return value of each process's latest call

callVars == <<call, pc, tmp, ret>>
vars     == <<build, type, word, exclusive, lost, callVars>>

Type == {"signed", "unsigned", "register", "double"}
Size(t) == CASE t \in {"signed", "unsigned"} -> Narrow
             [] t = "register"               -> Register
             [] t = "double"                 -> Register * Register

ASSUME ArgAssumption ==
    DOMAIN Arg = Type /\ \A t \in Type : Arg[t] \subseteq 0 .. Size(t) - 1

Arm == build \in {"arm_zeros", "arm_sign"}

Hi(x) == x \div Register
Lo(x) == x % Register
Join(hi, lo) == Register * hi + lo

\* A call has the fields old (of a compare-and-swap) and new, the value to
\* store or to add.
NoCall == [f |-> "none", old |-> 0, new |-> 0]
CallOf(t) ==
    [f : {"cas"}, old : Arg[t], new : Arg[t]] \cup
    [f : {"faa"}, old : {0}, new : Arg[t]] \cup
    [f : IF t = "register" THEN {"store"} ELSE {}, old : {0}, new : {0}]

Init ==
    /\ build \in Build
    /\ type \in Type
    /\ word = 0
    /\ call = [p \in Proc |-> NoCall]
    /\ pc = [p \in Proc |-> "idle"]
    /\ tmp = [p \in Proc |-> 0]
    /\ exclusive = {}
    /\ lost = 0
    /\ ret = [p \in Proc |-> 0]

Goto(p, from, to) == pc[p] = from /\ pc' = [pc EXCEPT ![p] = to]

\* A store to the word takes away every reservation of it.
Write(value) == word' = value /\ exclusive' = {}

\* The call ends; its locals are dropped.
Return(p, from, value) ==
    /\ Goto(p, from, "idle")
    /\ call' = [call EXCEPT ![p] = NoCall]
    /\ tmp' = [tmp EXCEPT ![p] = 0]
    /\ ret' = [ret EXCEPT ![p] = value]
    /\ UNCHANGED <<build, type, lost>>

Begin(p, c) ==
    /\ Goto(p, "idle", IF c.f = "store" THEN "store"
                       ELSE IF Arm THEN "ldrex" ELSE "locked")
    /\ call' = [call EXCEPT ![p] = c]
    /\ ret' = [ret EXCEPT ![p] = 0]
    /\ UNCHANGED <<build, type, word, tmp, exclusive, lost>>

\* An object's plain store to a word it exchanges elsewhere: an unlock.
Store(p) ==
    /\ Write(call[p].new)
    /\ Return(p, "store", 0)

-----------------------------------------------------------------------------
(***************************************************************************)
(* ARMv7                                                                   *)
(***************************************************************************)
\* The register with an argument.  That with the byte or half word ldrexb or
\* ldrexh loads is filled with zeros.
InRegister(x) ==
    IF build = "arm_sign" /\ type = "signed" /\ 2 * x >= Narrow
    THEN x + Register - Narrow ELSE x

\* teq: the result of an 8 to 32 bit compare-and-swap hangs on it.
Equal(c, value) == InRegister(c.old) = value

\* The 64 bit one compares both halves and stores the upper half of newval
\* with the lower half of oldval.
Cas64Stores(c) == Join(Hi(c.new), Lo(c.old))

\* add; strexb and strexh drop what does not fit.
FaaStores(c, value) == (value + c.new) % Size(type)

\* The lower halves are added with add, which leaves the carry flag alone, the
\* upper with adc: carry is what the flag was before.
Faa64Stores(c, value, carry) ==
    Join((Hi(value) + Hi(c.new) + carry) % Register,
         (Lo(value) + Lo(c.new)) % Register)

Stored(c, value) ==
    CASE c.f = "cas" /\ type # "double" -> {c.new}
      [] c.f = "cas" /\ type = "double" -> {Cas64Stores(c)}
      [] c.f = "faa" /\ type # "double" -> {FaaStores(c, value)}
      [] c.f = "faa" /\ type = "double" ->
            {Faa64Stores(c, value, carry) : carry \in {0, 1}}

\* ldrex; a compare-and-swap that finds another value returns 0 and keeps the
\* reservation.
LoadExclusive(p) ==
    /\ exclusive' = exclusive \cup {p}
    /\ IF call[p].f = "cas" /\ ~Equal(call[p], word)
       THEN Return(p, "ldrex", 0)
       ELSE /\ Goto(p, "ldrex", "strex")
            /\ tmp' = [tmp EXCEPT ![p] = word]
            /\ UNCHANGED <<build, type, call, lost, ret>>
    /\ UNCHANGED word

StoreWithout(p) ==
    /\ Return(p, "strex", IF call[p].f = "cas" THEN 1 ELSE tmp[p])
    /\ \E value \in Stored(call[p], tmp[p]) : Write(value)

\* strex succeeds.
StoreExclusive(p) ==
    /\ p \in exclusive
    /\ Return(p, "strex", IF call[p].f = "cas" THEN 1 ELSE tmp[p])
    /\ \E value \in Stored(call[p], tmp[p]) : Write(value)

RetryStore(p) ==
    /\ p \notin exclusive
    /\ Goto(p, "strex", "strex")
    /\ UNCHANGED <<build, type, word, call, tmp, exclusive, lost, ret>>

\* strex fails: beq 1b.
StoreFails(p) ==
    /\ p \notin exclusive
    /\ Goto(p, "strex", "ldrex")
    /\ tmp' = [tmp EXCEPT ![p] = 0]
    /\ UNCHANGED <<build, type, word, call, exclusive, lost, ret>>

\* An interrupt or the cache takes a reservation away.
LoseReservation(p) ==
    /\ p \in exclusive
    /\ lost < MaxLost
    /\ lost' = lost + 1
    /\ exclusive' = exclusive \ {p}
    /\ UNCHANGED <<build, type, word, callVars>>

-----------------------------------------------------------------------------
(***************************************************************************)
(* x86                                                                     *)
(***************************************************************************)
\* lock cmpxchg, lock cmpxchg8b
LockedCas(p) ==
    /\ call[p].f = "cas"
    /\ Write(IF word = call[p].old THEN call[p].new ELSE word)
    /\ Return(p, "locked", IF word = call[p].old THEN 1 ELSE 0)

\* lock xadd
LockedFaa(p) ==
    /\ call[p].f = "faa"
    /\ type # "double" \/ build = "x86_AMD64"
    /\ Write((word + call[p].new) % Size(type))
    /\ Return(p, "locked", word)

\* atomic_faa64 and atomic_faa64u without __AMD64__: return 0
NoFaa64(p) ==
    /\ call[p].f = "faa"
    /\ type = "double" /\ build = "x86"
    /\ Return(p, "locked", 0)
    /\ UNCHANGED <<word, exclusive>>

-----------------------------------------------------------------------------
Access(p) ==
    \/ Store(p)
    \/ LoadExclusive(p)
    \/ StoreExclusive(p)
    \/ StoreFails(p)
    \/ LockedCas(p)
    \/ LockedFaa(p)
    \/ NoFaa64(p)

Next ==
    \E p \in Proc :
        \/ \E c \in CallOf(type) : Begin(p, c)
        \/ Access(p)
        \/ LoseReservation(p)

Spec == Init /\ [][Next]_vars

\* Of the processes inside a call at least one runs.
LockFreeSpec == Spec /\ WF_vars(\E p \in Proc : Access(p))

-----------------------------------------------------------------------------
(***************************************************************************)
(* Properties                                                              *)
(***************************************************************************)

\* The operations that are not what atomic.h says: on ARM the 64 bit ones, and
\* a compare-and-swap of a negative 8 or 16 bit number, which is never found
\* equal if the register has its sign; on x86 the 64 bit addition without
\* __AMD64__.
Inexact(c) ==
    \/ Arm /\ type = "double"
    \/ build = "arm_sign" /\ type = "signed" /\ c.f = "cas" /\ 2 * c.old >= Narrow
    \/ build = "x86" /\ type = "double" /\ c.f = "faa"

\* The word and the return value these leave, one step all the same: on ARM
\* atomic_faa64u still counts in its lower half, all that wfmpscq_enqueue keeps
\* of it, and atomic_cas64 exchanges the upper half if the whole is equal.
Left(c, value) ==
    IF type # "double" \/ build = "x86" \/ (c.f = "cas" /\ value # c.old)
    THEN {<<value, 0>>}
    ELSE IF c.f = "cas" THEN {<<Join(Hi(c.new), Lo(value)), 1>>}
    ELSE {<<Join(hi, (Lo(value) + Lo(c.new)) % Register), value>> :
             hi \in 0 .. Register - 1}

Word == INSTANCE AtomicWord
          WITH size <- Size(type), calling <- call, returned <- ret,
               Call <- UNION {CallOf(t) : t \in Type}

InexactStep ==
    \E p \in Proc :
        /\ call[p] # NoCall
        /\ Inexact(call[p])
        /\ <<word', ret'[p]>> \in Left(call[p], word)
        /\ Word!Return(p, ret'[p])

\* Between its begin and its return every call takes effect once, undisturbed
\* by the calls of others: no update is lost between an exclusive load and the
\* exclusive store, and a failed compare-and-swap found another value.
ImplementsAtomic == Word!Init /\ [][Word!Next \/ InexactStep]_(Word!vars)

\* Lock-freedom of the retry loops: a reservation is lost to another call that
\* returns, so that while some call goes on, calls return.
CallsReturn ==
    []<>(\E p \in Proc : pc[p] # "idle") =>
        []<><<\E p \in Proc : pc[p] # "idle" /\ pc'[p] = "idle">>_vars
=============================================================================
