--------------------------- MODULE AtomicsProofs ---------------------------
(***************************************************************************)
(* Proofs about Atomics for every set of processes, every size of the      *)
(* types and every set of arguments: on each build a call takes effect in  *)
(* one indivisible step, as AtomicWord says, the operations Inexact names  *)
(* excepted, which take effect in one step as well.                        *)
(*                                                                         *)
(* The argument.  Every store to the word takes all reservations of it     *)
(* away, so the register of a process that still has its own holds what    *)
(* is in memory (ReservationInv): the exclusive store is the whole call.   *)
(***************************************************************************)
EXTENDS Atomics, TLAPS

Types ==
    /\ build \in Build /\ type \in Type
    /\ word \in 0 .. Size(type) - 1
    /\ call \in [Proc -> {NoCall} \cup CallOf(type)]
    /\ pc \in [Proc -> {"idle", "store", "ldrex", "strex", "locked"}]
    /\ tmp \in [Proc -> 0 .. Size(type) - 1]
    /\ exclusive \subseteq Proc
    /\ lost \in Nat
    /\ ret \in [Proc -> Nat]

\* A process is about to do what its call and the build ask for.
CallInv ==
    \A p \in Proc :
        /\ pc[p] = "idle" <=> call[p] = NoCall
        /\ pc[p] = "store" <=> call[p].f = "store"
        /\ pc[p] \in {"ldrex", "strex"} => Arm
        /\ pc[p] = "locked" => ~Arm

\* The register of a process with a reservation holds the word, which a
\* compare-and-swap has found equal to the old value.
ReservationInv ==
    \A p \in Proc : pc[p] = "strex" =>
        /\ p \in exclusive => tmp[p] = word
        /\ call[p].f = "cas" => Equal(call[p], tmp[p])

Inv == Types /\ CallInv /\ ReservationInv

-----------------------------------------------------------------------------
(***************************************************************************)
(* The sizes of the types                                                  *)
(***************************************************************************)

\* A register holds a byte or half word, or twice as much and more.
LEMMA Sizes ==
    /\ Narrow \in Nat \ {0} /\ Register \in Nat \ {0}
    /\ Register = Narrow \/ Register >= 2 * Narrow
<1>1. /\ Narrow \in Nat \ {0} /\ Register \in Nat \ {0} /\ Register % Narrow = 0
  BY NarrowAssumption, RegisterAssumption
<1>2. Register < Narrow => Register % Narrow = Register
  BY <1>1
<1>3. Register >= Narrow /\ Register < 2 * Narrow => Register % Narrow = Register - Narrow
  BY <1>1
<1>. QED
  BY <1>1, <1>2, <1>3

LEMMA SizeIs ==
    ASSUME NEW t \in Type
    PROVE  Size(t) \in Nat \ {0}
<1>1. Register * Register \in Nat \ {0}
  BY Sizes
<1>. QED
  BY <1>1, Sizes DEF Size, Type

LEMMA HiLo ==
    ASSUME NEW x \in 0 .. Size("double") - 1
    PROVE  Hi(x) \in 0 .. Register - 1 /\ Lo(x) \in 0 .. Register - 1
<1>1. x \in Nat /\ x < Register * Register
  BY SizeIs DEF Size, Type
<1>2. Lo(x) \in 0 .. Register - 1
  BY <1>1, Sizes DEF Lo
<1>3. Hi(x) \in Int /\ Register * Hi(x) <= x /\ x < Register * Hi(x) + Register
  BY <1>1, Sizes DEF Hi
<1>. PICK h : h = Hi(x)
  OBVIOUS
<1>4. h >= 0
  <2>1. h + 1 <= 0 => Register * (h + 1) <= 0
    BY <1>3, Sizes
  <2>. QED
    BY <1>1, <1>3, <2>1, Sizes
<1>5. h < Register
  <2>1. h >= Register => Register * h >= Register * Register
    BY <1>3, Sizes
  <2>. QED
    BY <1>1, <1>3, <2>1, Sizes
<1>. QED
  BY <1>2, <1>3, <1>4, <1>5, Sizes

LEMMA JoinIs ==
    ASSUME NEW hi \in 0 .. Register - 1, NEW lo \in 0 .. Register - 1
    PROVE  Join(hi, lo) \in 0 .. Size("double") - 1
<1>1. Register * hi \in Nat /\ Register * hi <= Register * (Register - 1)
  BY Sizes
<1>2. Register * (Register - 1) = Register * Register - Register
  BY Sizes
<1>. QED
  BY <1>1, <1>2, Sizes DEF Join, Size

-----------------------------------------------------------------------------
(***************************************************************************)
(* The calls                                                               *)
(***************************************************************************)

LEMMA CallIs ==
    ASSUME NEW t \in Type, NEW c \in CallOf(t)
    PROVE  /\ c # NoCall
           /\ c.f \in {"cas", "faa"} \/ (c.f = "store" /\ t = "register")
           /\ c.old \in 0 .. Size(t) - 1 /\ c.new \in 0 .. Size(t) - 1
<1>1. Arg[t] \subseteq 0 .. Size(t) - 1 /\ 0 \in 0 .. Size(t) - 1
  BY ArgAssumption, SizeIs
<1>. QED
  BY <1>1 DEF CallOf, NoCall

\* A process inside a call has one of those.
LEMMA InCall ==
    ASSUME Inv, NEW p \in Proc, pc[p] # "idle"
    PROVE  /\ call[p] \in CallOf(type) /\ call[p] # NoCall
           /\ call[p].f \in {"cas", "faa", "store"}
           /\ call[p].old \in 0 .. Size(type) - 1 /\ call[p].new \in 0 .. Size(type) - 1
           /\ word \in 0 .. Size(type) - 1 /\ Size(type) \in Nat \ {0}
<1>1. call[p] \in CallOf(type) /\ type \in Type /\ word \in 0 .. Size(type) - 1
  BY DEF Inv, Types, CallInv
<1>. QED
  BY <1>1, CallIs, SizeIs

\* What a call may store is a value of the type, whatever it loaded.
LEMMA StoredIs ==
    ASSUME Inv, NEW p \in Proc, pc[p] = "strex", NEW x \in 0 .. Size(type) - 1,
           NEW value \in Stored(call[p], x)
    PROVE  value \in 0 .. Size(type) - 1
<1>. PICK c : c = call[p]
  OBVIOUS
<1>1. /\ c.old \in 0 .. Size(type) - 1 /\ c.new \in 0 .. Size(type) - 1
      /\ Size(type) \in Nat \ {0} /\ value \in Stored(c, x)
      /\ c.f \in {"cas", "faa"}
  BY InCall DEF Inv, CallInv
<1>2. CASE c.f = "cas" /\ type # "double"
  BY <1>1, <1>2 DEF Stored
<1>3. CASE c.f = "cas" /\ type = "double"
  <2>1. Hi(c.new) \in 0 .. Register - 1 /\ Lo(c.old) \in 0 .. Register - 1
    BY <1>1, <1>3, HiLo
  <2>2. value = Join(Hi(c.new), Lo(c.old))
    BY <1>1, <1>3 DEF Stored, Cas64Stores
  <2>. QED
    BY <1>3, <2>1, <2>2, JoinIs
<1>4. CASE c.f = "faa" /\ type # "double"
  BY <1>1, <1>4 DEF Stored, FaaStores
<1>5. CASE c.f = "faa" /\ type = "double"
  <2>1. PICK carry \in {0, 1} : value = Faa64Stores(c, x, carry)
    BY <1>1, <1>5 DEF Stored
  <2>2. /\ (Hi(x) + Hi(c.new) + carry) % Register \in 0 .. Register - 1
        /\ (Lo(x) + Lo(c.new)) % Register \in 0 .. Register - 1
    BY <1>1, <1>5, HiLo, Sizes
  <2>. QED
    BY <1>5, <2>1, <2>2, JoinIs DEF Faa64Stores
<1>. QED
  BY <1>1, <1>2, <1>3, <1>4, <1>5

-----------------------------------------------------------------------------
(***************************************************************************)
(* The invariant                                                           *)
(***************************************************************************)

LEMMA InvInit == Init => Inv
<1> SUFFICES ASSUME Init PROVE Inv
  OBVIOUS
<1>1. Size(type) \in Nat \ {0}
  BY SizeIs DEF Init
<1>. QED
  BY <1>1, MaxLostAssumption DEF Init, Inv, Types, CallInv, ReservationInv, NoCall

\* A step of a process leaves the calls of the others alone.
LEMMA OthersStay ==
    ASSUME Inv, NEW p \in Proc,
           (\E c \in CallOf(type) : Begin(p, c)) \/ Access(p) \/ LoseReservation(p)
    PROVE  /\ build' = build /\ type' = type
           /\ \A q \in Proc : q # p =>
                 call'[q] = call[q] /\ pc'[q] = pc[q] /\ tmp'[q] = tmp[q] /\ ret'[q] = ret[q]
<1> USE DEF Inv, Types, Goto, Return
<1>1. CASE \E c \in CallOf(type) : Begin(p, c)
  BY <1>1 DEF Begin
<1>2. CASE Store(p) \/ LockedCas(p) \/ LockedFaa(p) \/ NoFaa64(p)
  BY <1>2 DEF Store, LockedCas, LockedFaa, NoFaa64
<1>3. CASE LoadExclusive(p)
  BY <1>3 DEF LoadExclusive
<1>4. CASE StoreExclusive(p) \/ StoreFails(p)
  BY <1>4 DEF StoreExclusive, StoreFails
<1>5. CASE LoseReservation(p)
  BY <1>5 DEF LoseReservation, callVars
<1>. QED
  BY <1>1, <1>2, <1>3, <1>4, <1>5 DEF Access

\* A call that returns leaves the process idle.
LEMMA ReturnIs ==
    ASSUME Inv, NEW p \in Proc, NEW from, NEW value \in Nat, Return(p, from, value)
    PROVE  /\ call' \in [Proc -> {NoCall} \cup CallOf(type)]
           /\ pc' \in [Proc -> {"idle", "store", "ldrex", "strex", "locked"}]
           /\ tmp' \in [Proc -> 0 .. Size(type) - 1] /\ ret' \in [Proc -> Nat]
           /\ pc[p] = from /\ pc'[p] = "idle" /\ call'[p] = NoCall
           /\ UNCHANGED <<build, type, lost>>
<1>1. 0 \in 0 .. Size(type) - 1
  BY SizeIs DEF Inv, Types
<1>. QED
  BY <1>1 DEF Inv, Types, Return, Goto

LEMMA TypesStep ==
    ASSUME Inv, NEW p \in Proc,
           (\E c \in CallOf(type) : Begin(p, c)) \/ Access(p) \/ LoseReservation(p)
    PROVE  Types'
<1>0. Types /\ word \in 0 .. Size(type) - 1 /\ Size(type) \in Nat \ {0} /\ word \in Nat
  BY SizeIs DEF Inv, Types
<1>1. CASE \E c \in CallOf(type) : Begin(p, c)
  BY <1>0, <1>1 DEF Begin, Goto, Types
<1>2. CASE Store(p)
  <2>1. pc[p] = "store" /\ Return(p, "store", 0) /\ word' = call[p].new /\ exclusive' = {}
    BY <1>2 DEF Store, Return, Goto, Write
  <2>2. word' \in 0 .. Size(type) - 1
    BY <2>1, InCall
  <2>. QED
    BY <1>0, <2>1, <2>2, ReturnIs DEF Types
<1>3. CASE LoadExclusive(p)
  <2>1. word' = word /\ exclusive' = exclusive \cup {p}
    BY <1>3 DEF LoadExclusive
  <2>2. CASE Return(p, "ldrex", 0)
    BY <1>0, <2>1, <2>2, ReturnIs DEF Types
  <2>3. CASE /\ Goto(p, "ldrex", "strex") /\ tmp' = [tmp EXCEPT ![p] = word]
             /\ UNCHANGED <<build, type, call, lost, ret>>
    BY <1>0, <2>1, <2>3 DEF Goto, Types
  <2>. QED
    BY <1>3, <2>2, <2>3 DEF LoadExclusive
<1>4. CASE StoreExclusive(p)
  <2>1. PICK value \in Stored(call[p], tmp[p]) : word' = value /\ exclusive' = {}
    BY <1>4 DEF StoreExclusive, Write
  <2>2. /\ pc[p] = "strex" /\ Return(p, "strex", IF call[p].f = "cas" THEN 1 ELSE tmp[p])
        /\ tmp[p] \in 0 .. Size(type) - 1
    BY <1>0, <1>4 DEF StoreExclusive, Return, Goto, Types
  <2>3. word' \in 0 .. Size(type) - 1
    BY <2>1, <2>2, StoredIs
  <2>4. (IF call[p].f = "cas" THEN 1 ELSE tmp[p]) \in Nat
    BY <2>2
  <2>. QED
    BY <1>0, <2>1, <2>2, <2>3, <2>4, ReturnIs DEF Types
<1>5. CASE StoreFails(p)
  BY <1>0, <1>5 DEF StoreFails, Goto, Types
<1>6. CASE LockedCas(p)
  <2>1. /\ pc[p] = "locked" /\ exclusive' = {}
        /\ word' = IF word = call[p].old THEN call[p].new ELSE word
        /\ Return(p, "locked", IF word = call[p].old THEN 1 ELSE 0)
    BY <1>6 DEF LockedCas, Return, Goto, Write
  <2>2. word' \in 0 .. Size(type) - 1
    BY <1>0, <2>1, InCall
  <2>. QED
    BY <1>0, <2>1, <2>2, ReturnIs DEF Types
<1>7. CASE LockedFaa(p)
  <2>1. /\ pc[p] = "locked" /\ exclusive' = {}
        /\ word' = (word + call[p].new) % Size(type)
        /\ Return(p, "locked", word)
    BY <1>7 DEF LockedFaa, Return, Goto, Write
  <2>2. word' \in 0 .. Size(type) - 1
    BY <1>0, <2>1, InCall
  <2>. QED
    BY <1>0, <2>1, <2>2, ReturnIs DEF Types
<1>8. CASE NoFaa64(p)
  BY <1>0, <1>8, ReturnIs DEF NoFaa64, Types
<1>9. CASE LoseReservation(p)
  BY <1>0, <1>9, MaxLostAssumption DEF LoseReservation, callVars, Types
<1>. QED
  BY <1>1, <1>2, <1>3, <1>4, <1>5, <1>6, <1>7, <1>8, <1>9 DEF Access

LEMMA CallInvStep ==
    ASSUME Inv, NEW p \in Proc,
           (\E c \in CallOf(type) : Begin(p, c)) \/ Access(p) \/ LoseReservation(p)
    PROVE  CallInv'
<1>0. Types /\ CallInv /\ (Arm' <=> Arm)
  BY OthersStay DEF Inv, Arm
<1>1. \A q \in Proc : q # p => call'[q] = call[q] /\ pc'[q] = pc[q]
  BY OthersStay
<1>2. /\ pc'[p] = "idle" <=> call'[p] = NoCall
      /\ pc'[p] = "store" <=> call'[p].f = "store"
      /\ pc'[p] \in {"ldrex", "strex"} => Arm
      /\ pc'[p] = "locked" => ~Arm
  <2>1. CASE pc'[p] = "idle" /\ call'[p] = NoCall
    BY <2>1 DEF NoCall
  <2>2. CASE \E c \in CallOf(type) : Begin(p, c)
    <3>1. PICK c \in CallOf(type) : Begin(p, c)
      BY <2>2
    <3>2. c # NoCall /\ c.f \in {"cas", "faa", "store"}
      BY <1>0, CallIs DEF Types
    <3>. QED
      BY <1>0, <3>1, <3>2 DEF Begin, Goto, Types
  <2>3. CASE /\ pc[p] = "ldrex" /\ pc'[p] = "strex" /\ call' = call
    BY <1>0, <2>3 DEF CallInv
  <2>4. CASE StoreFails(p)
    BY <1>0, <2>4 DEF CallInv, StoreFails, Goto, Types
  <2>5. CASE LoseReservation(p)
    BY <1>0, <2>5 DEF CallInv, LoseReservation, callVars
  <2>. QED
    BY <1>0, <2>1, <2>2, <2>3, <2>4, <2>5
       DEF Access, Store, LoadExclusive, StoreExclusive, LockedCas, LockedFaa, NoFaa64,
           Return, Goto, Types
<1>. QED
  BY <1>0, <1>1, <1>2 DEF CallInv

LEMMA ReservationInvStep ==
    ASSUME Inv, NEW p \in Proc,
           (\E c \in CallOf(type) : Begin(p, c)) \/ Access(p) \/ LoseReservation(p)
    PROVE  ReservationInv'
<1>0. Types /\ ReservationInv /\ build' = build /\ type' = type
  BY OthersStay DEF Inv
<1>1. \A q \in Proc : q # p =>
         call'[q] = call[q] /\ pc'[q] = pc[q] /\ tmp'[q] = tmp[q]
  BY OthersStay
<1>2. /\ exclusive' = {} \/ (word' = word /\ exclusive' \subseteq exclusive \cup {p})
      /\ pc'[p] = "strex" =>
            \/ /\ tmp'[p] = word' /\ word' = word /\ call' = call
               /\ call[p].f = "cas" => Equal(call[p], word)
            \/ pc[p] = "strex" /\ tmp' = tmp /\ word' = word /\ call' = call
               /\ exclusive' \subseteq exclusive
  <2> USE DEF Goto, Return, Write, Types
  <2>1. CASE \E c \in CallOf(type) : Begin(p, c)
    BY <1>0, <2>1 DEF Begin
  <2>2. CASE Store(p) \/ LockedCas(p) \/ LockedFaa(p) \/ NoFaa64(p)
    BY <1>0, <2>2 DEF Store, LockedCas, LockedFaa, NoFaa64
  <2>3. CASE LoadExclusive(p)
    BY <1>0, <2>3 DEF LoadExclusive
  <2>4. CASE StoreExclusive(p) \/ StoreFails(p)
    BY <1>0, <2>4 DEF StoreExclusive, StoreFails
  <2>5. CASE LoseReservation(p)
    BY <1>0, <2>5 DEF LoseReservation, callVars
  <2>. QED
    BY <2>1, <2>2, <2>3, <2>4, <2>5 DEF Access
<1>3. ASSUME NEW q \in Proc, pc'[q] = "strex"
      PROVE  /\ q \in exclusive' => tmp'[q] = word'
             /\ call'[q].f = "cas" => Equal(call'[q], tmp'[q])
  <2>1. CASE q # p
    BY <1>0, <1>1, <1>2, <1>3, <2>1 DEF ReservationInv
  <2>2. CASE q = p /\ pc[p] = "strex" /\ tmp' = tmp /\ word' = word /\ call' = call
                   /\ exclusive' \subseteq exclusive
    BY <1>0, <2>2 DEF ReservationInv
  <2>3. CASE q = p /\ tmp'[p] = word' /\ call' = call
                   /\ (call[p].f = "cas" => Equal(call[p], word)) /\ word' = word
    BY <2>3
  <2>. QED
    BY <1>2, <1>3, <2>1, <2>2, <2>3
<1>4. \A c, value : InRegister(c.old)' = InRegister(c.old)
  BY <1>0 DEF InRegister
<1>. QED
  BY <1>0, <1>3, <1>4 DEF ReservationInv, Equal

LEMMA InvStep == Inv /\ [Next]_vars => Inv'
<1> SUFFICES ASSUME Inv, [Next]_vars PROVE Inv'
  OBVIOUS
<1>1. CASE Next
  BY <1>1, TypesStep, CallInvStep, ReservationInvStep DEF Next, Inv
<1>2. CASE UNCHANGED vars
  BY <1>2 DEF vars, callVars, Inv, Types, CallInv, ReservationInv, Arm, Equal, InRegister
<1>. QED
  BY <1>1, <1>2

LEMMA InvHolds == Spec => []Inv
BY InvInit, InvStep, PTL DEF Spec
-----------------------------------------------------------------------------
(***************************************************************************)
(* The word as AtomicWord has it                                           *)
(***************************************************************************)

\* What is found equal in the registers is equal in memory.
LEMMA EqualIs ==
    ASSUME Inv, NEW p \in Proc, pc[p] # "idle", call[p].f = "cas",
           Equal(call[p], word)
    PROVE  call[p].old = word
<1>1. /\ call[p].old \in 0 .. Size(type) - 1 /\ word \in 0 .. Size(type) - 1
      /\ type = "signed" => Size(type) = Narrow
  BY InCall DEF Size
<1>2. CASE build = "arm_sign" /\ type = "signed" /\ 2 * call[p].old >= Narrow
  BY <1>1, <1>2, Sizes DEF Equal, InRegister
<1>3. CASE ~(build = "arm_sign" /\ type = "signed" /\ 2 * call[p].old >= Narrow)
  BY <1>3 DEF Equal, InRegister
<1>. QED
  BY <1>2, <1>3

\* The end of a call is that of the abstract one.
LEMMA ReturnMaps ==
    ASSUME Inv, NEW p \in Proc, NEW from, NEW value \in Nat, Return(p, from, value)
    PROVE  /\ Word!Return(p, value)
           /\ ret'[p] = value
BY DEF Return, Word!Return, Size, Inv, Types

\* A reservation that is still there makes the exclusive store the whole call.
LEMMA StoreExclusiveMaps ==
    ASSUME Inv, NEW p \in Proc, StoreExclusive(p)
    PROVE  Word!Next \/ InexactStep
<1>1. /\ pc[p] = "strex" /\ p \in exclusive /\ Arm
      /\ Return(p, "strex", IF call[p].f = "cas" THEN 1 ELSE tmp[p])
  BY DEF StoreExclusive, Return, Goto, Inv, CallInv
<1>2. /\ call[p].f \in {"cas", "faa"} /\ call[p] # NoCall
      /\ tmp[p] = word /\ word \in 0 .. Size(type) - 1 /\ Size(type) \in Nat \ {0}
  BY <1>1, InCall DEF Inv, CallInv, ReservationInv
<1>3. PICK value \in Stored(call[p], word) : word' = value
  BY <1>2 DEF StoreExclusive, Write
<1>4. CASE call[p].f = "cas"
  <2>1. call[p].old = word
    BY <1>1, <1>2, <1>4, EqualIs DEF Inv, ReservationInv
  <2>2. Word!Return(p, 1) /\ ret'[p] = 1
    BY <1>1, <1>4, ReturnMaps
  <2>3. CASE type # "double"
    <3>1. word' = call[p].new
      BY <1>3, <1>4, <2>3 DEF Stored
    <3>. QED
      BY <1>2, <1>4, <2>1, <2>2, <3>1 DEF Word!Next, Word!Perform, Word!Exchange
  <2>4. CASE type = "double"
    <3>1. word' = Join(Hi(call[p].new), Lo(word))
      BY <1>3, <1>4, <2>1, <2>4 DEF Stored, Cas64Stores
    <3>2. <<word', ret'[p]>> \in Left(call[p], word)
      BY <1>1, <1>4, <2>1, <2>2, <2>4, <3>1 DEF Left, Arm
    <3>. QED
      BY <1>1, <1>2, <2>2, <2>4, <3>2 DEF InexactStep, Inexact
  <2>. QED
    BY <2>3, <2>4
<1>5. CASE call[p].f = "faa"
  <2>1. Word!Return(p, word) /\ ret'[p] = word
    BY <1>1, <1>2, <1>5, ReturnMaps
  <2>2. CASE type # "double"
    <3>1. word' = (word + call[p].new) % Size(type)
      BY <1>3, <1>5, <2>2 DEF Stored, FaaStores
    <3>. QED
      BY <1>2, <1>5, <2>1, <3>1 DEF Word!Next, Word!Perform, Word!FetchAndAdd
  <2>3. CASE type = "double"
    <3>1. PICK carry \in {0, 1} : word' = Faa64Stores(call[p], word, carry)
      BY <1>3, <1>5, <2>3 DEF Stored
    <3>2. (Hi(word) + Hi(call[p].new) + carry) % Register \in 0 .. Register - 1
      <4>1. Hi(word) \in Int /\ Hi(call[p].new) \in Int
        BY <1>1, <1>2, <2>3, InCall, HiLo
      <4>. QED
        BY <4>1, Sizes
    <3>3. <<word', ret'[p]>> \in Left(call[p], word)
      BY <1>1, <1>5, <2>1, <2>3, <3>1, <3>2 DEF Left, Arm, Faa64Stores
    <3>. QED
      BY <1>1, <1>2, <2>1, <2>3, <3>3 DEF InexactStep, Inexact
  <2>. QED
    BY <2>2, <2>3
<1>. QED
  BY <1>2, <1>4, <1>5

\* Each access ends a call as AtomicWord does, or leaves the call as it is.
LEMMA AccessMaps ==
    ASSUME Inv, NEW p \in Proc, Access(p)
    PROVE  Word!Next \/ InexactStep \/ UNCHANGED Word!vars
<1>0. /\ word \in Nat /\ Size(type) \in Nat
      /\ pc[p] # "idle" => call[p] # NoCall
      /\ pc[p] = "store" <=> call[p].f = "store"
  BY SizeIs DEF Inv, Types, CallInv
<1>1. CASE Store(p)
  <2>1. call[p].f = "store" /\ call[p] # NoCall /\ word' = call[p].new
    BY <1>0, <1>1 DEF Store, Return, Goto, Write
  <2>2. Word!Return(p, 0)
    BY <1>1, ReturnMaps DEF Store
  <2>. QED
    BY <2>1, <2>2 DEF Word!Next, Word!Perform, Word!Assign
<1>2. CASE LoadExclusive(p)
  <2>1. CASE Return(p, "ldrex", 0) /\ call[p].f = "cas" /\ ~Equal(call[p], word)
    <3>1. /\ call[p] # NoCall /\ word' = word /\ pc[p] = "ldrex"
          /\ Word!Return(p, 0) /\ ret'[p] = 0
      BY <1>0, <1>2, <2>1, ReturnMaps DEF LoadExclusive, Return, Goto
    <3>2. CASE build = "arm_sign" /\ type = "signed" /\ 2 * call[p].old >= Narrow
      BY <2>1, <3>1, <3>2 DEF InexactStep, Inexact, Left
    <3>3. CASE ~(build = "arm_sign" /\ type = "signed" /\ 2 * call[p].old >= Narrow)
      <4>1. call[p].old # word
        BY <2>1, <3>3 DEF Equal, InRegister
      <4>. QED
        BY <2>1, <3>1, <4>1 DEF Word!Next, Word!Perform, Word!ExchangeFails
    <3>. QED
      BY <3>2, <3>3
  <2>2. CASE UNCHANGED <<build, type, word, call, ret>>
    BY <2>2 DEF Word!vars, Size
  <2>. QED
    BY <1>2, <2>1, <2>2 DEF LoadExclusive
<1>3. CASE StoreExclusive(p)
  BY <1>3, StoreExclusiveMaps
<1>4. CASE StoreFails(p)
  BY <1>4 DEF StoreFails, Word!vars, Size
<1>5. CASE LockedCas(p)
  <2>1. call[p].f = "cas" /\ call[p] # NoCall
    BY <1>0, <1>5 DEF LockedCas, Return, Goto
  <2>2. CASE word = call[p].old
    BY <1>5, <2>1, <2>2, ReturnMaps
       DEF LockedCas, Write, Word!Next, Word!Perform, Word!Exchange
  <2>3. CASE word # call[p].old
    BY <1>5, <2>1, <2>3, ReturnMaps
       DEF LockedCas, Write, Word!Next, Word!Perform, Word!ExchangeFails
  <2>. QED
    BY <2>2, <2>3
<1>6. CASE LockedFaa(p)
  <2>1. /\ call[p].f = "faa" /\ call[p] # NoCall
        /\ word' = (word + call[p].new) % Size(type)
    BY <1>0, <1>6 DEF LockedFaa, Return, Goto, Write
  <2>2. Word!Return(p, word)
    BY <1>0, <1>6, ReturnMaps DEF LockedFaa
  <2>. QED
    BY <2>1, <2>2 DEF Word!Next, Word!Perform, Word!FetchAndAdd
<1>7. CASE NoFaa64(p)
  <2>1. /\ call[p].f = "faa" /\ call[p] # NoCall /\ word' = word
        /\ type = "double" /\ build = "x86"
    BY <1>0, <1>7 DEF NoFaa64, Return, Goto
  <2>2. Word!Return(p, 0) /\ ret'[p] = 0
    BY <1>7, ReturnMaps DEF NoFaa64
  <2>. QED
    BY <2>1, <2>2 DEF InexactStep, Inexact, Left
<1>. QED
  BY <1>1, <1>2, <1>3, <1>4, <1>5, <1>6, <1>7 DEF Access

LEMMA StepMaps ==
    Inv /\ [Next]_vars => [Word!Next \/ InexactStep]_(Word!vars)
<1> SUFFICES ASSUME Inv, [Next]_vars
             PROVE  Word!Next \/ InexactStep \/ UNCHANGED Word!vars
  OBVIOUS
<1>1. CASE \E p \in Proc, c \in CallOf(type) : Begin(p, c)
  <2>1. PICK p \in Proc, c \in CallOf(type) : Begin(p, c)
    BY <1>1
  <2>2. c \in UNION {CallOf(t) : t \in Type} /\ call[p] = NoCall
    BY <2>1 DEF Begin, Goto, Inv, Types, CallInv
  <2>. QED
    BY <2>1, <2>2 DEF Begin, Word!Next, Word!Begin, Size
<1>2. CASE \E p \in Proc : Access(p)
  BY <1>2, AccessMaps
<1>3. CASE \E p \in Proc : LoseReservation(p)
  BY <1>3 DEF LoseReservation, callVars, Word!vars, Size
<1>4. CASE UNCHANGED vars
  BY <1>4 DEF vars, callVars, Word!vars, Size
<1>. QED
  BY <1>1, <1>2, <1>3, <1>4 DEF Next

\* atomic.c implements atomic.h: every call reads and writes the word in one
\* step between its begin and its return, so that no addition is lost between
\* an exclusive load and the exclusive store and a compare-and-swap that fails
\* found another value. The calls Inexact names take effect in one step too,
\* with what Left says they leave.
THEOREM CallsAreAtomic == Spec => ImplementsAtomic
<1>1. Init => Word!Init
  BY SizeIs DEF Init, Word!Init
<1>. QED
  BY <1>1, InvHolds, StepMaps, PTL DEF Spec, ImplementsAtomic
=============================================================================
