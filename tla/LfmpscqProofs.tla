--------------------------- MODULE LfmpscqProofs ---------------------------
(***************************************************************************)
(* Proofs about Lfmpscq for every number of users and of slots, and        *)
(* whatever the producers enqueue: type correctness, one owner for each    *)
(* slot, what the hazard pointers promise, and that the linked list        *)
(* implements the FIFO, the last two until a dequeue overtakes the tail.   *)
(*                                                                         *)
(* The argument.  A step takes, fills, links, retires, resets or frees one *)
(* slot, or changes neither links nor owners (EffectIs).  List is the only *)
(* sequence that begins at head and follows next to a node without a       *)
(* successor (WalkIs), so a step changes it at one end only (ListAfter).   *)
(*                                                                         *)
(* Once a dequeue has overtaken the tail, a producer may link its node to  *)
(* one that left the list long ago, and the nodes so linked are a second   *)
(* list that a later link may join to the first.  No node is linked twice  *)
(* (LinkInv), so that second list ends and has no node in common with the  *)
(* first (PathEnds, ListsAreApart): the slots keep one owner each, and the *)
(* retire lists, whose nodes are different slots and not the dummy, stay   *)
(* within their arrays.  These are the parts of Inv that always hold.      *)
(*                                                                         *)
(* Until then tail is in the list (TailInv), so a producer that protects   *)
(* tail and finds it unchanged has a node in use that RetireNode has not   *)
(* compared with its shared index yet, and will not pass (Kept, PassedAfter*)
(* and KeptStays).  A protected node without a successor is therefore the  *)
(* last of the list (KeptIsLast), and Link appends to the list.  These are *)
(* the parts of Orderly.                                                   *)
(***************************************************************************)
EXTENDS Lfmpscq, FiniteSetTheorems, SequenceTheorems, WellFoundedInduction, TLAPS

\* L is what a walk along nx finds that begins at h.
IsList(L, h, nx) ==
    /\ L \in Seq(Slot) /\ L # <<>>
    /\ L[1] = h
    /\ \A i \in 1 .. Len(L) - 1 : nx[L[i]] = L[i + 1]
    /\ nx[L[Len(L)]] = UNDEFINED_NODE
    /\ \A i, j \in 1 .. Len(L) : L[i] = L[j] => i = j

Distinct(nodes) == \A i, j \in 1 .. Len(nodes) : nodes[i] = nodes[j] => i = j

EnqLabel == {"idle", "scan", "fill", "readTail", "protect", "recheck",
             "readNext", "help", "link", "swing"}

\* Where a producer has a node it has not linked; where its t is a node, is named
\* by its shared index, and is protected.
HasNode == {"fill", "readTail", "protect", "recheck", "readNext", "help", "link"}
HasTail == {"protect", "recheck", "readNext", "help", "link", "swing"}
Named   == HasTail \ {"protect"}
Safe    == Named \ {"recheck"}

EnqLocals == [pc : EnqLabel, cnt : 0 .. NumSlots - 1, node : Node,
              msg : Message \cup {NoMessage}, t : Node, t_next : Node]
DeqLocals == [pc : {"idle", "take", "retire", "free"}, h_idx : Node, h_next : Node,
              TmpList : Seq(Slot), i : Nat \ {0}, k : 0 .. MaxUser]

Types ==
    /\ head \in Slot /\ tail \in Slot
    /\ used \in [Slot -> {0, 1}]
    /\ next \in [Slot -> Node]
    /\ data \in [Slot -> Message \cup {NoMessage}]
    /\ sharedIdxs \in [User -> Node]
    /\ enq \in [Producer -> EnqLocals]
    /\ scan \in [Producer -> Slot]
    /\ calls \in Nat
    /\ deq \in DeqLocals
    /\ RList \in Seq(Slot)
    /\ deqRet \in {0, -1}
    /\ got \in Message \cup {NoMessage}
    /\ overtaken \in BOOLEAN

\* The locals a label needs are there.
EnqOk(l) ==
    /\ l.pc \in HasNode \cup {"swing"} => l.node \in Slot
    /\ l.pc \in HasTail => l.t \in Slot
    /\ l.pc = "help" => l.t_next \in Slot
    /\ l.msg \in Message <=> l.pc # "idle"

\* The nodes the scan of the retire list has not come to the end of.
Left == {deq.TmpList[i] : i \in deq.i .. Len(deq.TmpList)}

DeqOk ==
    /\ deq.pc \in {"idle", "take"} => deq.TmpList = <<>> /\ deq.i = 1 /\ deq.k = 0
    /\ deq.pc = "take" =>
          deq.h_idx = head /\ deq.h_next = next[head] /\ deq.h_next \in Slot
    /\ deq.i <= Len(deq.TmpList) + 1
    /\ deq.pc = "free" => deq.i <= Len(deq.TmpList)

LocalInv == (\A p \in Producer : EnqOk(enq[p])) /\ DeqOk

\* The nodes from head on are a list that ends.
ListInv == IsList(List, head, next)

\* A slot has one owner, which has it marked as used.
Apart ==
    /\ \A p, q \in Producer : \A s \in Held(p) : s \in Held(q) => p = q
    /\ \A p \in Producer : \A s \in Held(p) :
          s \notin InList /\ s \notin Retired /\ used[s] = 1
    /\ \A s \in InList : s \notin Retired /\ used[s] = 1
    /\ \A s \in Retired : used[s] = 1

\* A node is on its retire lists once, and names a successor until it is reset.
RetireInv ==
    /\ Distinct(RList) /\ Distinct(deq.TmpList)
    /\ head \notin Range(deq.TmpList)
    /\ Range(RList) \cap Left = {}
    /\ \A s \in Retired :
          (deq.pc = "free" /\ s = Retiring) \/ next[s] # UNDEFINED_NODE

\* The node a producer has taken and not yet reset.
Filling(p) == IF enq[p].pc = "fill" THEN {enq[p].node} ELSE {}

\* A slot whose next those who follow the links may come to read.
Filled(s) == used[s] = 1 /\ s \notin Retired /\ \A p \in Producer : s \notin Filling(p)

\* A slot that has been linked, to whatever node.
Linked(s) == used[s] = 1 /\ s \notin Retired /\ \A p \in Producer : s \notin Held(p)

\* No node is linked twice, and none that is not a new one.
LinkInv ==
    \A s \in Slot : Filled(s) /\ next[s] # UNDEFINED_NODE =>
        /\ Linked(next[s]) /\ next[s] # head
        /\ \A r \in Slot : Filled(r) /\ next[r] = next[s] => r = s

DataInv ==
    \A p \in Producer : enq[p].pc \in HasNode \ {"fill"} =>
        data[enq[p].node] = enq[p].msg

\* RetireNode has compared the node with the shared index.
Passed(s, p) ==
    /\ deq.pc = "free" \/ (deq.pc = "retire" /\ deq.i <= Len(deq.TmpList) /\ deq.k > p)
    /\ s = Retiring

\* The node will not be given back nor filled while the producer's index names it.
Kept(s, p) ==
    used[s] = 1 /\ ~Passed(s, p) /\ \A q \in Producer : s \notin Held(q)

NamedInv == \A p \in Producer : enq[p].pc \in Named => sharedIdxs[p] = enq[p].t

\* What holds until a dequeue overtakes tail.
TailInv ==
    /\ tail \in InList
    /\ deq.pc = "take" => tail # head
NoneLost ==
    \A s \in Slot : used[s] = 1 =>
        s \in InList \/ s \in Retired \/ \E p \in Producer : s \in Held(p)
NewInv ==
    \A p \in Producer : enq[p].pc \in HasNode \ {"fill"} =>
        next[enq[p].node] = UNDEFINED_NODE
HazardOk(p) ==
    /\ enq[p].pc \in Safe => Kept(enq[p].t, p)
    /\ enq[p].pc = "help" => next[enq[p].t] = enq[p].t_next
    /\ enq[p].pc = "swing" => next[enq[p].t] = enq[p].node
HazardInv == \A p \in Producer : HazardOk(p)

Orderly == TailInv /\ NoneLost /\ NewInv /\ HazardInv

Inv ==
    /\ Types /\ LocalInv /\ ListInv /\ Apart /\ RetireInv /\ LinkInv
    /\ DataInv /\ NamedInv
    /\ ~overtaken => Orderly

-----------------------------------------------------------------------------
\* FirstNodes, of any head and any next.
OneMore(nodes, nx) ==
    IF nx[nodes[Len(nodes)]] = UNDEFINED_NODE THEN nodes
    ELSE Append(nodes, nx[nodes[Len(nodes)]])

IsWalk(g, h, nx) ==
    g = [k \in 0 .. NumSlots |-> IF k = 0 THEN <<h>> ELSE OneMore(g[k - 1], nx)]

Walk(h, nx) == CHOOSE g : IsWalk(g, h, nx)

\* The list of Lfmpscq is a walk.
LEMMA ListIsWalk ==
    /\ List = Walk(head, next)[NumSlots]
    /\ List' = Walk(head', next')[NumSlots]
BY DEF List, FirstNodes, Walk, IsWalk, OneMore

\* A set of natural numbers that is not empty has a least element.
LEMMA Least ==
    ASSUME NEW T \in SUBSET Nat, T # {}
    PROVE  \E m \in T : \A n \in T : m <= n
<1> DEFINE R == OpToRel(<, Nat)
<1>1. IsWellFoundedOn(R, Nat)
  BY NatLessThanWellFounded
<1>2. \A m, n \in Nat : m < n => <<m, n>> \in R
  BY DEF OpToRel
<1> HIDE DEF R
<1>3. PICK m \in T : \A n \in T : <<n, m>> \notin R
  BY <1>1, WFMin
<1>4. \A n \in T : ~(n < m)
  BY <1>2, <1>3
<1>. QED
  BY <1>4

\* No node is met twice, so the list is no longer than there are slots.
LEMMA ListIsShort ==
    ASSUME NEW L \in Seq(Slot), \A i, j \in 1 .. Len(L) : L[i] = L[j] => i = j
    PROVE  Len(L) <= NumSlots
<1>0. Len(L) \in Nat /\ NumSlots - 1 \in Int
  BY NumSlotsAssumption
<1>1. \A a, b \in Int : /\ IsFiniteSet(a .. b)
                         /\ Cardinality(a .. b) = IF a > b THEN 0 ELSE b - a + 1
  BY FS_Interval
<1>3. /\ IsFiniteSet(0 .. NumSlots - 1) /\ Cardinality(0 .. NumSlots - 1) = NumSlots
  BY SMTT(30), <1>0, <1>1, NumSlotsAssumption
<1>5. Len(L) \in Int /\ 1 \in Int
  BY <1>0
<1>6. /\ IsFiniteSet(1 .. Len(L))
      /\ Cardinality(1 .. Len(L)) = IF 1 > Len(L) THEN 0 ELSE Len(L) - 1 + 1
  BY <1>1, <1>5, Zenon
<1>4. IsFiniteSet(1 .. Len(L)) /\ Cardinality(1 .. Len(L)) = Len(L)
  BY <1>0, <1>6
<1>2. L \in [1 .. Len(L) -> Slot]
  BY LenProperties
<1>. QED
  <2> SUFFICES ASSUME NumSlots < Len(L) PROVE FALSE
    BY <1>0, NumSlotsAssumption
  <2>1. Cardinality(Slot) < Cardinality(1 .. Len(L)) /\ IsFiniteSet(Slot)
    BY <1>3, <1>4 DEF Slot
  <2>2. \E i, j \in 1 .. Len(L) : i # j /\ L[i] = L[j]
    BY <1>2, <1>4, <2>1, FS_PigeonHole
  <2>. QED
    BY <2>2

\* The walk finds the list.
LEMMA WalkIs ==
    ASSUME NEW L, NEW h, NEW nx, IsList(L, h, nx)
    PROVE  Walk(h, nx)[NumSlots] = L
<1>0. L \in Seq(Slot) /\ Len(L) \in Nat \ {0} /\ Len(L) <= NumSlots
  BY ListIsShort, EmptySeq DEF IsList
<1> DEFINE Prefix(k) == SubSeq(L, 1, IF k < Len(L) THEN k + 1 ELSE Len(L))
           g == [k \in 0 .. NumSlots |-> Prefix(k)]
<1>1. \A k \in 0 .. NumSlots :
         /\ Prefix(k) \in Seq(Slot)
         /\ Len(Prefix(k)) = (IF k < Len(L) THEN k + 1 ELSE Len(L))
         /\ \A i \in 1 .. Len(Prefix(k)) : Prefix(k)[i] = L[i]
  <2> SUFFICES ASSUME NEW k \in 0 .. NumSlots
               PROVE  /\ Prefix(k) \in Seq(Slot)
                      /\ Len(Prefix(k)) = (IF k < Len(L) THEN k + 1 ELSE Len(L))
                      /\ \A i \in 1 .. Len(Prefix(k)) : Prefix(k)[i] = L[i]
    OBVIOUS
  <2> DEFINE n == IF k < Len(L) THEN k + 1 ELSE Len(L)
  <2>1. n \in 1 .. Len(L)
    BY <1>0, NumSlotsAssumption
  <2> HIDE DEF n
  <2>2. \A i \in 1 .. n : L[i] \in Slot
    BY <1>0, <2>1
  <2>3. /\ SubSeq(L, 1, n) \in Seq(Slot) /\ Len(SubSeq(L, 1, n)) = n
        /\ \A i \in 1 .. n : SubSeq(L, 1, n)[i] = L[i]
    BY <1>0, <2>1, <2>2
  <2>. QED
    BY <2>3 DEF n
<1>2. Prefix(0) = <<h>>
  <2> PICK s : s = Prefix(0)
    OBVIOUS
  <2>1. Len(s) = 1 /\ s[1] = h /\ s \in Seq(Slot)
    BY <1>0, <1>1, NumSlotsAssumption DEF IsList
  <2>2. <<h>> \in Seq(Slot) /\ Len(<<h>>) = 1 /\ <<h>>[1] = h
    BY <2>1
  <2>3. h \in Slot
    BY <2>1
  <2>4. <<h>> \in Seq(Slot)
    BY <2>3
  <2>5. \A i \in 1 .. Len(s) : s[i] = <<h>>[i]
    BY <2>1, <2>2
  <2>6. s = <<h>>
    BY <2>1, <2>2, <2>4, <2>5, SeqEqual
  <2>. QED
    BY <2>6
<1>3. \A k \in 1 .. NumSlots : Prefix(k) = OneMore(Prefix(k - 1), nx)
  <2> SUFFICES ASSUME NEW k \in 1 .. NumSlots PROVE Prefix(k) = OneMore(Prefix(k - 1), nx)
    OBVIOUS
  <2> PICK s, t : s = Prefix(k - 1) /\ t = Prefix(k)
    OBVIOUS
  <2>1. /\ s \in Seq(Slot) /\ Len(s) = (IF k - 1 < Len(L) THEN k ELSE Len(L))
        /\ \A i \in 1 .. Len(s) : s[i] = L[i]
    BY <1>1, NumSlotsAssumption
  <2>2. /\ t \in Seq(Slot) /\ Len(t) = (IF k < Len(L) THEN k + 1 ELSE Len(L))
        /\ \A i \in 1 .. Len(t) : t[i] = L[i]
    BY <1>1, NumSlotsAssumption
  <2>3. CASE k < Len(L)
    <3>1. nx[s[Len(s)]] = L[k + 1] /\ L[k + 1] \in Slot /\ L[k + 1] # UNDEFINED_NODE
      BY SMTT(30), <1>0, <2>1, <2>3, NumSlotsAssumption DEF IsList, Slot, UNDEFINED_NODE
    <3>2. t = Append(s, L[k + 1])
      <4>1. Append(s, L[k + 1]) \in Seq(Slot) /\ Len(Append(s, L[k + 1])) = k + 1
        BY <1>0, <2>1, <2>3, <3>1
      <4>2. \A i \in 1 .. k + 1 : Append(s, L[k + 1])[i] = L[i]
        BY <1>0, <2>1, <2>3, <3>1
      <4>. QED
        BY <2>2, <2>3, <4>1, <4>2, SeqEqual
    <3>. QED
      BY <3>1, <3>2 DEF OneMore
  <2>4. CASE k >= Len(L)
    <3>1. Len(s) = Len(L) /\ nx[s[Len(s)]] = UNDEFINED_NODE
      BY <1>0, <2>1, <2>4, NumSlotsAssumption DEF IsList
    <3>2. s = t
      BY <1>0, <2>1, <2>2, <2>4, <3>1, SeqEqual, NumSlotsAssumption
    <3>. QED
      BY <3>1, <3>2 DEF OneMore
  <2>. QED
    BY <1>0, <2>3, <2>4
<1> HIDE DEF Prefix
<1>4. IsWalk(g, h, nx)
  <2>1. \A k \in 0 .. NumSlots : g[k] = IF k = 0 THEN <<h>> ELSE OneMore(g[k - 1], nx)
    BY <1>2, <1>3, NumSlotsAssumption
  <2>. QED
    BY <2>1 DEF IsWalk
<1>5. IsWalk(Walk(h, nx), h, nx)
  BY <1>4 DEF Walk
<1>6. \A k \in 0 .. NumSlots : Walk(h, nx)[k] = g[k]
  <2> DEFINE w == Walk(h, nx)
             T == {k \in 0 .. NumSlots : w[k] # g[k]}
  <2> SUFFICES ASSUME T # {} PROVE FALSE
    OBVIOUS
  <2>1. PICK k \in T : \A n \in T : k <= n
    <3>1. T \in SUBSET Nat
      BY NumSlotsAssumption
    <3> HIDE DEF T
    <3>. QED
      BY <3>1, Least
  <2>2. \A n \in 0 .. NumSlots : /\ w[n] = IF n = 0 THEN <<h>> ELSE OneMore(w[n - 1], nx)
                                 /\ g[n] = IF n = 0 THEN <<h>> ELSE OneMore(g[n - 1], nx)
    <3>1. \A f : IsWalk(f, h, nx) => \A n \in 0 .. NumSlots :
             f[n] = IF n = 0 THEN <<h>> ELSE OneMore(f[n - 1], nx)
      BY DEF IsWalk
    <3>. QED
      BY <1>4, <1>5, <3>1
  <2> HIDE DEF w, g
  <2>3. k # 0 => w[k - 1] = g[k - 1]
    BY <2>1, NumSlotsAssumption
  <2>. QED
    BY <2>1, <2>2, <2>3
<1>. QED
  <2>1. g[NumSlots] = Prefix(NumSlots)
    BY NumSlotsAssumption
  <2>2. Prefix(NumSlots) = L
    BY <1>0, <1>1, SeqEqual, NumSlotsAssumption
  <2>. QED
    BY <1>6, <2>1, <2>2, NumSlotsAssumption
-----------------------------------------------------------------------------
\* A retire list with one node more.
LEMMA RangeOfAppend ==
    ASSUME NEW nodes \in Seq(Slot), NEW s \in Slot
    PROVE  /\ Range(Append(nodes, s)) = Range(nodes) \cup {s}
           /\ Distinct(nodes) /\ s \notin Range(nodes) => Distinct(Append(nodes, s))
<1> PICK t : t = Append(nodes, s)
  OBVIOUS
<1>1. /\ t \in Seq(Slot) /\ Len(t) = Len(nodes) + 1 /\ Len(nodes) \in Nat
      /\ \A i \in 1 .. Len(nodes) : t[i] = nodes[i]
      /\ t[Len(nodes) + 1] = s
  BY AppendProperties, LenProperties
<1>2. DOMAIN t = 1 .. Len(nodes) + 1 /\ DOMAIN nodes = 1 .. Len(nodes)
  BY <1>1, LenProperties
<1>3. \A i \in 1 .. Len(nodes) + 1 : i \in 1 .. Len(nodes) \/ i = Len(nodes) + 1
  BY <1>1
<1>4. /\ Len(nodes) + 1 \in 1 .. Len(nodes) + 1
      /\ \A i \in 1 .. Len(nodes) : i \in 1 .. Len(nodes) + 1
  BY <1>1
<1>5. Range(t) = Range(nodes) \cup {s}
  BY <1>1, <1>2, <1>3, <1>4, Zenon DEF Range
<1>6. ASSUME Distinct(nodes), s \notin Range(nodes) PROVE Distinct(t)
  <2>1. \A i \in 1 .. Len(nodes) : nodes[i] # s
    BY <1>2, <1>6 DEF Range
  <2>. QED
    BY <1>1, <1>3, <1>6, <2>1 DEF Distinct
<1>. QED
  BY <1>5, <1>6

\* A retire list without its first node.
LEMMA RangeOfTail ==
    ASSUME NEW nodes \in Seq(Slot), nodes # <<>>
    PROVE  /\ Range(nodes) = {Head(nodes)} \cup Range(Tail(nodes))
           /\ Distinct(nodes) => /\ Distinct(Tail(nodes))
                                 /\ Head(nodes) \notin Range(Tail(nodes))
<1> PICK t : t = Tail(nodes)
  OBVIOUS
<1>1. /\ t \in Seq(Slot) /\ Len(t) = Len(nodes) - 1
      /\ Len(nodes) \in Nat /\ Len(t) \in Nat
      /\ \A i \in 1 .. Len(t) : t[i] = nodes[i + 1]
      /\ Head(nodes) = nodes[1]
  BY HeadTailProperties, LenProperties
<1>2. DOMAIN t = 1 .. Len(t) /\ DOMAIN nodes = 1 .. Len(nodes)
  BY <1>1, LenProperties
<1>3. /\ \A i \in 1 .. Len(nodes) :
            i = 1 \/ (i - 1 \in 1 .. Len(t) /\ t[i - 1] = nodes[i])
      /\ \A i \in 1 .. Len(t) : i + 1 \in 1 .. Len(nodes)
      /\ 1 \in 1 .. Len(nodes)
  BY <1>1
<1>4. Range(nodes) = {nodes[1]} \cup Range(t)
  <2>1. \A i \in 1 .. Len(nodes) : nodes[i] \in {nodes[1]} \cup Range(t)
    BY <1>2, <1>3 DEF Range
  <2>2. \A i \in 1 .. Len(t) : t[i] \in Range(nodes)
    BY <1>1, <1>2, <1>3 DEF Range
  <2>3. nodes[1] \in Range(nodes)
    BY <1>2, <1>3 DEF Range
  <2>4. /\ \A s \in Range(nodes) : s \in {nodes[1]} \cup Range(t)
        /\ \A s \in Range(t) : s \in Range(nodes)
    BY <1>2, <2>1, <2>2 DEF Range
  <2>. QED
    BY <2>3, <2>4, Zenon
<1>5. ASSUME Distinct(nodes) PROVE Distinct(t) /\ nodes[1] \notin Range(t)
  <2>1. \A i \in 1 .. Len(t) : i + 1 # 1 /\ t[i] # nodes[1]
    BY <1>1, <1>3, <1>5 DEF Distinct
  <2>2. nodes[1] \notin Range(t)
    BY <1>2, <2>1 DEF Range
  <2>3. Distinct(t)
    BY <1>1, <1>3, <1>5 DEF Distinct
  <2>. QED
    BY <2>2, <2>3
<1>. QED
  BY <1>1, <1>4, <1>5

\* What is on a list, and what follows what.
LEMMA ListIs ==
    ASSUME NEW L, NEW h, NEW nx, IsList(L, h, nx)
    PROVE  /\ Range(L) \subseteq Slot /\ h \in Range(L)
           /\ Len(L) \in Nat \ {0} /\ L[Len(L)] \in Range(L)
           /\ \A s \in Range(L) : nx[s] = UNDEFINED_NODE => s = L[Len(L)]
           /\ \A s \in Range(L) : nx[s] # UNDEFINED_NODE =>
                 nx[s] \in Range(L) /\ nx[s] # h
<1>1. Len(L) \in Nat \ {0} /\ DOMAIN L = 1 .. Len(L) /\ L[1] = h
  BY LenProperties, EmptySeq DEF IsList
<1>2. \A i \in 1 .. Len(L) : L[i] \in Slot
  BY <1>1 DEF IsList
<1>3. \A s : s \in Range(L) <=> \E i \in 1 .. Len(L) : s = L[i]
  BY <1>1 DEF Range
<1>4. ASSUME NEW i \in 1 .. Len(L) - 1
      PROVE  nx[L[i]] = L[i + 1] /\ L[i + 1] # UNDEFINED_NODE /\ i + 1 \in 1 .. Len(L)
             /\ L[i + 1] # h
  BY <1>1, <1>2, <1>4 DEF IsList, Slot, UNDEFINED_NODE
<1>5. PICK n : n = Len(L)
  OBVIOUS
<1>6. /\ \A i \in 1 .. Len(L) : i = Len(L) \/ i \in 1 .. Len(L) - 1
      /\ 1 \in 1 .. Len(L) /\ Len(L) \in 1 .. Len(L)
  <2>1. n \in Nat \ {0}
    BY <1>1, <1>5, Zenon
  <2>2. /\ \A i \in 1 .. n : i = n \/ i \in 1 .. n - 1
        /\ 1 \in 1 .. n /\ n \in 1 .. n
    BY <2>1
  <2>. QED
    BY <1>5, <2>2
<1>7. nx[L[Len(L)]] = UNDEFINED_NODE
  BY DEF IsList
<1>8. \A s \in Range(L) : /\ nx[s] = UNDEFINED_NODE => s = L[Len(L)]
                          /\ nx[s] # UNDEFINED_NODE => nx[s] \in Range(L) /\ nx[s] # h
  <2> SUFFICES ASSUME NEW i \in 1 .. Len(L)
               PROVE  /\ nx[L[i]] = UNDEFINED_NODE => L[i] = L[Len(L)]
                      /\ nx[L[i]] # UNDEFINED_NODE =>
                            nx[L[i]] \in Range(L) /\ nx[L[i]] # h
    BY <1>3
  <2>1. CASE i = Len(L)
    BY <1>7, <2>1
  <2>2. CASE i \in 1 .. Len(L) - 1
    BY SMTT(30), <1>3, <1>4, <2>2
  <2>. QED
    BY <1>6, <2>1, <2>2
<1>9. Range(L) \subseteq Slot /\ h \in Range(L) /\ L[Len(L)] \in Range(L)
  BY <1>1, <1>2, <1>3, <1>6
<1>. QED
  BY <1>1, <1>8, <1>9

\* Only the next of the nodes on it matter to a list.
LEMMA ListStays ==
    ASSUME NEW L, NEW h, NEW nx, NEW ny, IsList(L, h, nx),
           \A s \in Range(L) : ny[s] = nx[s]
    PROVE  IsList(L, h, ny)
<1>1. Len(L) \in Nat \ {0} /\ DOMAIN L = 1 .. Len(L)
  BY LenProperties, EmptySeq DEF IsList
<1>2. \A i \in 1 .. Len(L) : ny[L[i]] = nx[L[i]]
  BY <1>1 DEF Range
<1>3. Len(L) \in 1 .. Len(L) /\ \A i \in 1 .. Len(L) - 1 : i \in 1 .. Len(L)
  BY <1>1
<1>. QED
  BY <1>2, <1>3 DEF IsList

\* Moving the head to its successor.
LEMMA ListShrinks ==
    ASSUME NEW L, NEW h, NEW nx, IsList(L, h, nx), nx[h] # UNDEFINED_NODE
    PROVE  /\ IsList(Tail(L), nx[h], nx)
           /\ Range(Tail(L)) = Range(L) \ {h}
           /\ Len(L) > 1 /\ L[2] = nx[h]
<1> PICK M : M = Tail(L)
  OBVIOUS
<1>1. L \in Seq(Slot) /\ L # <<>> /\ Len(L) \in Nat \ {0} /\ L[1] = h /\ Distinct(L)
  BY LenProperties, EmptySeq DEF IsList, Distinct
<1>2. Len(L) > 1 /\ L[2] = nx[h]
  BY <1>1 DEF IsList
<1>3. /\ M \in Seq(Slot) /\ Len(M) = Len(L) - 1 /\ Head(L) = L[1]
      /\ \A i \in 1 .. Len(M) : M[i] = L[i + 1]
  BY <1>1, HeadTailProperties
<1>4. Distinct(M) /\ Range(M) = Range(L) \ {h}
  BY <1>1, <1>3, RangeOfTail
<1>5. \A i \in 1 .. Len(M) - 1 : nx[M[i]] = M[i + 1]
  BY <1>1, <1>2, <1>3 DEF IsList
<1>6. nx[M[Len(M)]] = UNDEFINED_NODE /\ M[1] = nx[h] /\ M # <<>>
  <2>1. /\ Len(M) \in 1 .. Len(M) /\ Len(M) + 1 = Len(L) /\ 1 \in 1 .. Len(M)
        /\ Len(M) # 0
    BY <1>1, <1>2, <1>3
  <2>2. M[Len(M)] = L[Len(L)] /\ M[1] = L[2]
    BY <1>3, <2>1
  <2>3. M # <<>>
    BY <1>3, <2>1
  <2>. QED
    BY <1>2, <2>2, <2>3 DEF IsList
<1>. QED
  BY <1>2, <1>3, <1>4, <1>5, <1>6 DEF IsList, Distinct

\* A walk along links that never come together again ends.
LEMMA PathEnds ==
    ASSUME NEW nx \in [Slot -> Node], NEW n \in Slot, NEW S \in SUBSET Slot, n \in S,
           \A s \in S : nx[s] # UNDEFINED_NODE => nx[s] \in S /\ nx[s] # n,
           \A r, s \in S : nx[r] = nx[s] /\ nx[s] # UNDEFINED_NODE => r = s
    PROVE  \E P : IsList(P, n, nx) /\ Range(P) \subseteq S
<1> DEFINE IsPath(P) ==
             /\ P \in Seq(Slot) /\ P # <<>> /\ P[1] = n
             /\ \A i \in 1 .. Len(P) - 1 : nx[P[i]] = P[i + 1]
             /\ \A i, j \in 1 .. Len(P) : P[i] = P[j] => i = j
             /\ \A i \in 1 .. Len(P) : P[i] \in S
           T == {k \in Nat : \E P : IsPath(P) /\ k = NumSlots - Len(P)}
<1>1. \A P : IsPath(P) => Len(P) \in Nat \ {0} /\ NumSlots - Len(P) \in T
  <2> SUFFICES ASSUME NEW P, IsPath(P)
               PROVE  Len(P) \in Nat \ {0} /\ NumSlots - Len(P) \in T
    OBVIOUS
  <2>1. Len(P) \in Nat \ {0}
    BY LenProperties, EmptySeq
  <2>2. Len(P) <= NumSlots
    BY ListIsShort
  <2>. QED
    BY <2>1, <2>2, NumSlotsAssumption
<1>2. IsPath(<<n>>)
  BY DEF Slot
<1>3. PICK m \in T : \A k \in T : m <= k
  <2>1. T \in SUBSET Nat /\ T # {}
    BY <1>1, <1>2
  <2> HIDE DEF T
  <2>. QED
    BY <2>1, Least
<1>4. PICK P : IsPath(P) /\ m = NumSlots - Len(P)
  BY <1>3
<1>5. Len(P) \in Nat \ {0} /\ DOMAIN P = 1 .. Len(P) /\ Len(P) \in 1 .. Len(P)
  BY <1>1, <1>4, LenProperties
<1>6. CASE nx[P[Len(P)]] = UNDEFINED_NODE
  <2>1. IsList(P, n, nx)
    BY <1>4, <1>6 DEF IsList
  <2>2. Range(P) \subseteq S
    BY <1>4, <1>5 DEF Range
  <2>. QED
    BY <2>1, <2>2
<1>7. CASE nx[P[Len(P)]] # UNDEFINED_NODE
  <2> PICK y, Q : y = nx[P[Len(P)]] /\ Q = Append(P, y)
    OBVIOUS
  <2>1. P[Len(P)] \in S /\ y \in S /\ y # n /\ y \in Slot
    BY <1>4, <1>5, <1>7
  <2>2. ASSUME NEW i \in 1 .. Len(P), P[i] = y PROVE FALSE
    <3>1. i # 1
      BY <1>4, <2>1, <2>2
    <3>2. i - 1 \in 1 .. Len(P) - 1 /\ i - 1 \in 1 .. Len(P) /\ i - 1 + 1 = i
          /\ i - 1 # Len(P)
      BY <1>5, <3>1
    <3>3. nx[P[i - 1]] = y /\ P[i - 1] \in S
      BY <1>4, <2>2, <3>2
    <3>4. P[i - 1] = P[Len(P)]
      BY <1>7, <2>1, <3>3
    <3>. QED
      BY <1>4, <1>5, <3>2, <3>4
  <2>3. /\ Q \in Seq(Slot) /\ Len(Q) = Len(P) + 1 /\ Q[Len(P) + 1] = y
        /\ \A i \in 1 .. Len(P) : Q[i] = P[i]
    BY <1>4, <2>1, AppendProperties
  <2>4. \A i \in 1 .. Len(Q) : i \in 1 .. Len(P) \/ i = Len(P) + 1
    BY <1>5, <2>3
  <2>5. Q # <<>> /\ Q[1] = n
    <3>1. 1 \in 1 .. Len(P) /\ Len(Q) # 0
      BY <1>5, <2>3
    <3>. QED
      BY <1>4, <2>3, <3>1
  <2>6. ASSUME NEW i \in 1 .. Len(Q) - 1 PROVE nx[Q[i]] = Q[i + 1]
    <3>0. Len(P) \in Nat \ {0} /\ Len(Q) = Len(P) + 1
      BY <1>5, <2>3
    <3>1. /\ i \in 1 .. Len(P)
          /\ i = Len(P) \/ (i \in 1 .. Len(P) - 1 /\ i + 1 \in 1 .. Len(P))
      BY <3>0
    <3>. QED
      BY <1>4, <2>3, <3>1
  <2>7. \A i, j \in 1 .. Len(Q) : Q[i] = Q[j] => i = j
    BY <1>4, <2>2, <2>3, <2>4
  <2>8. \A i \in 1 .. Len(Q) : Q[i] \in S
    BY <1>4, <2>1, <2>3, <2>4
  <2>9. IsPath(Q)
    BY <2>3, <2>5, <2>6, <2>7, <2>8
  <2> HIDE DEF T, IsPath
  <2>10. NumSlots - Len(Q) \in T
    BY <1>1, <2>9
  <2>11. m <= NumSlots - Len(Q)
    BY <1>3, <2>10
  <2>. QED
    BY <1>4, <1>5, <2>3, <2>11, NumSlotsAssumption
<1>. QED
  BY <1>6, <1>7

\* Two lists along such links, neither of which leads to the beginning of the
\* other, have nothing in common.
LEMMA ListsAreApart ==
    ASSUME NEW nx, NEW h, NEW n, NEW L, NEW P,
           IsList(L, h, nx), IsList(P, n, nx), n \notin Range(L),
           \A s \in Range(P) : nx[s] # h,
           \A r \in Range(L), s \in Range(P) :
              nx[r] = nx[s] /\ nx[s] # UNDEFINED_NODE => r = s
    PROVE  Range(L) \cap Range(P) = {}
<1>1. /\ Len(L) \in Nat \ {0} /\ DOMAIN L = 1 .. Len(L)
      /\ Len(P) \in Nat \ {0} /\ DOMAIN P = 1 .. Len(P)
      /\ L[1] = h /\ P[1] = n
  BY LenProperties, EmptySeq DEF IsList
<1> DEFINE T == {i \in 1 .. Len(P) : P[i] \in Range(L)}
<1> SUFFICES ASSUME T # {} PROVE FALSE
  BY <1>1 DEF Range
<1>2. PICK i \in T : \A k \in T : i <= k
  <2>1. T \in SUBSET Nat
    BY <1>1
  <2> HIDE DEF T
  <2>. QED
    BY <2>1, Least
<1>3. i \in 1 .. Len(P) /\ P[i] \in Range(L) /\ i # 1
  BY <1>1, <1>2
<1>4. i - 1 \in 1 .. Len(P) - 1 /\ i - 1 \in 1 .. Len(P) /\ i - 1 + 1 = i
  BY <1>1, <1>3
<1>5. nx[P[i - 1]] = P[i] /\ P[i - 1] \in Range(P)
  <2>1. \A k \in 1 .. Len(P) - 1 : nx[P[k]] = P[k + 1]
    BY DEF IsList
  <2>. QED
    BY <1>1, <1>4, <2>1 DEF Range
<1>6. PICK j \in 1 .. Len(L) : L[j] = P[i]
  BY <1>1, <1>3 DEF Range
<1>7. j # 1
  BY <1>1, <1>5, <1>6
<1>8. j - 1 \in 1 .. Len(L) - 1 /\ j - 1 \in 1 .. Len(L) /\ j - 1 + 1 = j
  BY <1>1, <1>7
<1>9. nx[L[j - 1]] = L[j] /\ L[j - 1] \in Range(L)
  <2>1. \A k \in 1 .. Len(L) - 1 : nx[L[k]] = L[k + 1]
    BY DEF IsList
  <2>. QED
    BY <1>1, <1>8, <2>1 DEF Range
<1>10. L[j] # UNDEFINED_NODE
  <2>1. L \in Seq(Slot)
    BY DEF IsList
  <2>2. L[j] \in Slot
    BY <1>1, <1>6, <2>1
  <2>. QED
    BY <2>2 DEF Slot, UNDEFINED_NODE
<1>11. P[i - 1] = L[j - 1]
  BY <1>5, <1>6, <1>9, <1>10
<1>12. i - 1 \in T
  BY <1>4, <1>9, <1>11
<1> HIDE DEF T
<1>. QED
  BY <1>2, <1>3, <1>4, <1>12

\* Linking the first node of a list to the last one of another.
LEMMA ListGrows ==
    ASSUME NEW L, NEW P, NEW h, NEW n, NEW nx \in [Slot -> Node],
           IsList(L, h, nx), IsList(P, n, nx), Range(L) \cap Range(P) = {}
    PROVE  /\ IsList(L \o P, h, [nx EXCEPT ![L[Len(L)]] = n])
           /\ Range(L \o P) = Range(L) \cup Range(P)
<1> PICK M, ny : M = L \o P /\ ny = [nx EXCEPT ![L[Len(L)]] = n]
  OBVIOUS
<1>1. /\ L \in Seq(Slot) /\ Len(L) \in Nat \ {0} /\ DOMAIN L = 1 .. Len(L) /\ L[1] = h
      /\ P \in Seq(Slot) /\ Len(P) \in Nat \ {0} /\ DOMAIN P = 1 .. Len(P) /\ P[1] = n
  BY LenProperties, EmptySeq DEF IsList
<1>2. /\ M \in Seq(Slot) /\ Len(M) = Len(L) + Len(P)
      /\ \A i \in 1 .. Len(M) : M[i] = IF i <= Len(L) THEN L[i] ELSE P[i - Len(L)]
  BY <1>1, ConcatProperties
<1>3. /\ \A i \in 1 .. Len(M) : \/ i \in 1 .. Len(L) /\ M[i] = L[i]
                                \/ /\ i - Len(L) \in 1 .. Len(P)
                                   /\ M[i] = P[i - Len(L)] /\ ~(i <= Len(L))
      /\ \A i \in 1 .. Len(L) : i \in 1 .. Len(M) /\ M[i] = L[i]
      /\ \A i \in 1 .. Len(P) : i + Len(L) \in 1 .. Len(M) /\ M[i + Len(L)] = P[i]
  BY <1>1, <1>2
<1>4. \A i \in 1 .. Len(L), j \in 1 .. Len(P) : L[i] # P[j]
  BY <1>1 DEF Range
<1>5. ASSUME NEW i \in 1 .. Len(M), NEW j \in 1 .. Len(M), M[i] = M[j] PROVE i = j
  BY <1>1, <1>3, <1>4, <1>5 DEF IsList
<1>6. DOMAIN M = 1 .. Len(M)
  BY <1>2, LenProperties
<1>7. Range(M) = Range(L) \cup Range(P)
  <2>1. \A i \in 1 .. Len(M) : M[i] \in Range(L) \cup Range(P)
    BY <1>1, <1>3 DEF Range
  <2>2. \A i \in 1 .. Len(L) : L[i] \in Range(M)
    BY <1>3, <1>6 DEF Range
  <2>3. \A i \in 1 .. Len(P) : P[i] \in Range(M)
    BY <1>3, <1>6 DEF Range
  <2>4. /\ \A s \in Range(M) : s \in Range(L) \cup Range(P)
        /\ \A s \in Range(L) : s \in Range(M)
        /\ \A s \in Range(P) : s \in Range(M)
    BY ZenonT(40), <1>1, <1>6, <2>1, <2>2, <2>3 DEF Range
  <2>. QED
    BY <2>4, Zenon
<1>8. Len(L) \in 1 .. Len(L) /\ Len(P) \in 1 .. Len(P) /\ 1 \in 1 .. Len(P)
      /\ 1 \in 1 .. Len(L) /\ Len(P) + Len(L) = Len(M) /\ 1 + Len(L) = Len(L) + 1
  BY <1>1, <1>2
<1>9. ASSUME NEW i \in 1 .. Len(M) - 1 PROVE ny[M[i]] = M[i + 1]
  <2>0. i \in 1 .. Len(M) /\ i + 1 \in 1 .. Len(M)
    BY <1>1, <1>2
  <2>1. CASE i = Len(L)
    <3>1. M[i] = L[Len(L)] /\ M[i + 1] = n
      BY <1>1, <1>3, <1>8, <2>1
    <3>2. L[Len(L)] \in Slot
      BY <1>1
    <3>. QED
      BY <3>1, <3>2
  <2>2. CASE i # Len(L)
    <3>1. M[i] # M[Len(L)]
      BY <1>3, <1>5, <1>8, <2>0, <2>2
    <3>2. ny[M[i]] = nx[M[i]]
      BY <1>2, <1>3, <1>8, <2>0, <3>1
    <3>3. CASE i \in 1 .. Len(L) - 1
      <4>1. i \in 1 .. Len(L) /\ i + 1 \in 1 .. Len(L)
        BY <1>1, <3>3
      <4>2. nx[L[i]] = L[i + 1]
        BY <3>3 DEF IsList
      <4>. QED
        BY <1>3, <3>2, <4>1, <4>2
    <3>4. CASE i > Len(L)
      <4>1. /\ i - Len(L) \in 1 .. Len(P) - 1 /\ i - Len(L) \in 1 .. Len(P)
            /\ i - Len(L) + 1 \in 1 .. Len(P)
            /\ i - Len(L) + Len(L) = i /\ i - Len(L) + 1 + Len(L) = i + 1
        BY <1>1, <1>2, <3>4
      <4>2. nx[P[i - Len(L)]] = P[i - Len(L) + 1]
        BY <4>1 DEF IsList
      <4>3. M[i] = P[i - Len(L)] /\ M[i + 1] = P[i - Len(L) + 1]
        BY <1>3, <4>1
      <4>. QED
        BY <3>2, <4>2, <4>3
    <3>5. Len(L) \in Int /\ i \in Int /\ i >= 1
      BY <1>1, <2>0
    <3>6. i \in 1 .. Len(L) - 1 \/ i > Len(L)
      BY <2>2, <3>5
    <3>. QED
      BY <3>3, <3>4, <3>6
  <2>. QED
    BY <2>1, <2>2
<1>10. ny[M[Len(M)]] = UNDEFINED_NODE
  <2>1. M[Len(M)] = P[Len(P)] /\ P[Len(P)] # L[Len(L)]
    BY <1>3, <1>4, <1>8
  <2>2. P[Len(P)] \in Slot /\ nx[P[Len(P)]] = UNDEFINED_NODE
    BY <1>1, <1>8 DEF IsList
  <2>. QED
    BY <2>1, <2>2
<1>11. M # <<>> /\ M[1] = h
  <2>1. Len(M) # 0
    BY <1>1, <1>2
  <2>. QED
    BY <1>1, <1>3, <1>8, <2>1
<1>. QED
  BY <1>2, <1>5, <1>7, <1>9, <1>10, <1>11 DEF IsList

\* What a producer does next.
Step(p) == Enqueue(p) \/ \E m \in Sends[p] : EnqueueCall(p, m)

\* The locals before and after a call.
LEMMA IdleIs ==
    /\ IdleEnqueue \in EnqLocals /\ IdleEnqueue.pc = "idle"
    /\ IdleEnqueue.msg = NoMessage
    /\ IdleDequeue \in DeqLocals /\ IdleDequeue.pc = "idle"
    /\ IdleDequeue.TmpList = <<>> /\ IdleDequeue.i = 1 /\ IdleDequeue.k = 0
<1>1. UNDEFINED_NODE \in Node /\ 0 \in 0 .. NumSlots - 1 /\ 0 \in 0 .. MaxUser
  BY NumSlotsAssumption, MaxUserAssumption DEF Node
<1>2. NoMessage \in Message \cup {NoMessage} /\ "idle" \in EnqLabel
  BY DEF EnqLabel
<1>3. <<>> \in Seq(Slot) /\ 1 \in Nat \ {0}
  OBVIOUS
<1>. QED
  BY <1>1, <1>2, <1>3, Zenon DEF IdleEnqueue, IdleDequeue, EnqLocals, DeqLocals

\* The fields of the locals.
LEMMA TypedLocals ==
    ASSUME Types
    PROVE  /\ \A p \in Producer :
                 /\ enq[p] \in EnqLocals /\ enq[p].pc \in EnqLabel
                 /\ enq[p].cnt \in 0 .. NumSlots - 1
                 /\ enq[p].node \in Node /\ enq[p].t \in Node /\ enq[p].t_next \in Node
                 /\ enq[p].msg \in Message \cup {NoMessage}
           /\ deq \in DeqLocals /\ deq.pc \in {"idle", "take", "retire", "free"}
           /\ deq.h_idx \in Node /\ deq.h_next \in Node
           /\ deq.TmpList \in Seq(Slot) /\ deq.i \in Nat \ {0} /\ deq.k \in 0 .. MaxUser
<1>1. deq \in DeqLocals /\ \A p \in Producer : enq[p] \in EnqLocals
  BY DEF Types
<1>2. /\ deq.pc \in {"idle", "take", "retire", "free"}
      /\ deq.h_idx \in Node /\ deq.h_next \in Node
      /\ deq.TmpList \in Seq(Slot) /\ deq.i \in Nat \ {0} /\ deq.k \in 0 .. MaxUser
  BY <1>1, Zenon DEF DeqLocals
<1>3. \A p \in Producer :
         /\ enq[p].pc \in EnqLabel /\ enq[p].cnt \in 0 .. NumSlots - 1
         /\ enq[p].node \in Node /\ enq[p].t \in Node /\ enq[p].t_next \in Node
         /\ enq[p].msg \in Message \cup {NoMessage}
  BY <1>1, Zenon DEF EnqLocals
<1>. QED
  BY <1>1, <1>2, <1>3

\* A step that sets a producer's locals.
Sets(p, locals) == enq' = [enq EXCEPT ![p] = locals]

\* A new record for one producer leaves the others' alone.
LEMMA SetIs ==
    ASSUME Types, NEW p \in Producer, NEW locals \in EnqLocals, Sets(p, locals)
    PROVE  /\ enq' \in [Producer -> EnqLocals] /\ enq'[p] = locals
           /\ \A q \in Producer : q # p => enq'[q] = enq[q]
BY DEF Types, Sets

\* A step that only moves on to another label.
LEMMA GotoIs ==
    ASSUME Types, NEW p \in Producer, NEW l \in EnqLabel, enq' = [enq EXCEPT ![p].pc = l]
    PROVE  /\ enq' \in [Producer -> EnqLocals] /\ enq'[p].pc = l
           /\ enq'[p].node = enq[p].node /\ enq'[p].msg = enq[p].msg
           /\ enq'[p].t = enq[p].t /\ enq'[p].t_next = enq[p].t_next
           /\ \A q \in Producer : q # p => enq'[q] = enq[q]
<1> PICK r, s : r = enq[p] /\ s = [r EXCEPT !.pc = l]
  OBVIOUS
<1>1. r \in EnqLocals /\ Sets(p, s)
  BY TypedLocals DEF Sets
<1>2. s \in EnqLocals
  BY <1>1 DEF EnqLocals
<1>3. /\ enq' \in [Producer -> EnqLocals] /\ enq'[p] = s
      /\ \A q \in Producer : q # p => enq'[q] = enq[q]
  BY <1>1, <1>2, SetIs
<1>. QED
  BY <1>1, <1>3 DEF EnqLocals

\* What a producer's step does to its locals.
Goes(p, from, to) ==
    /\ enq[p].pc = from /\ enq'[p].pc \in to
    /\ enq'[p].node = enq[p].node /\ enq'[p].msg = enq[p].msg
    /\ enq'[p].t = enq[p].t

Moves(p) ==
    /\ enq' \in [Producer -> EnqLocals]
    /\ \A q \in Producer : q # p => enq'[q] = enq[q]

\* The steps of an enqueue, one by one.
LEMMA CallIs ==
    ASSUME Types, NEW p \in Producer, NEW m \in Sends[p], EnqueueCall(p, m)
    PROVE  /\ Moves(p) /\ m \in Message /\ enq[p].pc = "idle" /\ enq'[p].pc = "scan"
           /\ enq'[p].msg = m
<1> PICK r, s : r = enq[p] /\ s = [r EXCEPT !.pc = "scan", !.msg = m]
  OBVIOUS
<1>1. m \in Message /\ "scan" \in EnqLabel
  BY SendsAssumption DEF EnqLabel
<1>2. r \in EnqLocals /\ Sets(p, s) /\ r.pc = "idle"
  BY TypedLocals DEF EnqueueCall, Sets, At
<1>3. s \in EnqLocals /\ s.pc = "scan" /\ s.msg = m
  BY <1>1, <1>2 DEF EnqLocals
<1>. QED
  BY <1>1, <1>2, <1>3, SetIs DEF Moves

LEMMA ScanTakesIs ==
    ASSUME Types, NEW p \in Producer, ScanTakes(p)
    PROVE  /\ Moves(p) /\ enq[p].pc = "scan" /\ enq'[p].pc = "fill"
           /\ enq'[p].msg = enq[p].msg /\ enq'[p].node = scan[p]
<1> PICK r, s : r = enq[p] /\ s = [r EXCEPT !.pc = "fill", !.node = scan[p]]
  OBVIOUS
<1>1. scan[p] \in Node /\ "fill" \in EnqLabel
  BY DEF Types, Node, EnqLabel
<1>2. r \in EnqLocals /\ Sets(p, s) /\ r.pc = "scan"
  BY TypedLocals DEF ScanTakes, Sets, At
<1>3. s \in EnqLocals /\ s.pc = "fill" /\ s.msg = r.msg /\ s.node = scan[p]
  BY <1>1, <1>2 DEF EnqLocals
<1>. QED
  BY <1>2, <1>3, SetIs DEF Moves

LEMMA ScanMissesIs ==
    ASSUME Types, NEW p \in Producer, ScanMisses(p)
    PROVE  /\ Moves(p) /\ enq[p].pc = "scan"
           /\ \/ enq'[p].pc = "scan" /\ enq'[p].msg = enq[p].msg
              \/ enq'[p] = IdleEnqueue
<1> PICK r, s : r = enq[p] /\ s = [r EXCEPT !.cnt = r.cnt + 1]
  OBVIOUS
<1>1. r \in EnqLocals /\ r.pc = "scan" /\ r.cnt \in 0 .. NumSlots - 1
  BY TypedLocals DEF ScanMisses, At
<1>2. CASE r.cnt + 1 < NumSlots
  <2>1. Sets(p, s)
    BY <1>2 DEF ScanMisses, Sets
  <2>2. r.cnt + 1 \in 0 .. NumSlots - 1
    BY <1>1, <1>2, NumSlotsAssumption
  <2>3. s \in EnqLocals /\ s.pc = "scan" /\ s.msg = r.msg
    BY <1>1, <2>2 DEF EnqLocals
  <2>. QED
    BY <1>1, <2>1, <2>3, SetIs DEF Moves
<1>3. CASE ~(r.cnt + 1 < NumSlots)
  <2>1. Sets(p, IdleEnqueue)
    BY <1>3 DEF ScanMisses, Sets
  <2>. QED
    BY <1>1, <2>1, SetIs, IdleIs DEF Moves
<1>. QED
  BY <1>2, <1>3

LEMMA FillIs ==
    ASSUME Types, NEW p \in Producer, Fill(p)
    PROVE  Moves(p) /\ Goes(p, "fill", {"readTail"})
BY GotoIs DEF Fill, At, EnqLabel, Moves, Goes

LEMMA ReadTailIs ==
    ASSUME Types, NEW p \in Producer, ReadTail(p)
    PROVE  /\ Moves(p) /\ enq[p].pc = "readTail" /\ enq'[p].pc = "protect"
           /\ enq'[p].node = enq[p].node /\ enq'[p].msg = enq[p].msg
           /\ enq'[p].t = tail
<1> PICK r, s : r = enq[p] /\ s = [r EXCEPT !.pc = "protect", !.t = tail,
                                            !.t_next = UNDEFINED_NODE]
  OBVIOUS
<1>1. tail \in Node /\ UNDEFINED_NODE \in Node /\ "protect" \in EnqLabel
  BY DEF Types, Node, EnqLabel
<1>2. r \in EnqLocals /\ Sets(p, s) /\ r.pc = "readTail"
  BY TypedLocals DEF ReadTail, Sets, At
<1>3. s \in EnqLocals /\ s.pc = "protect" /\ s.msg = r.msg /\ s.node = r.node /\ s.t = tail
  BY <1>1, <1>2 DEF EnqLocals
<1>. QED
  BY <1>2, <1>3, SetIs DEF Moves

LEMMA ProtectIs ==
    ASSUME Types, NEW p \in Producer, Protect(p)
    PROVE  Moves(p) /\ Goes(p, "protect", {"recheck"})
BY GotoIs DEF Protect, At, EnqLabel, Moves, Goes

LEMMA RecheckIs ==
    ASSUME Types, NEW p \in Producer, Recheck(p)
    PROVE  /\ Moves(p) /\ Goes(p, "recheck", {"readTail", "readNext"})
           /\ enq'[p].pc = "readNext" <=> tail = enq[p].t
<1> PICK l : l = IF tail # enq[p].t THEN "readTail" ELSE "readNext"
  OBVIOUS
<1>1. l \in EnqLabel /\ enq' = [enq EXCEPT ![p].pc = l] /\ enq[p].pc = "recheck"
  BY DEF Recheck, At, EnqLabel
<1>. QED
  BY <1>1, GotoIs DEF Moves, Goes

LEMMA ReadNextIs ==
    ASSUME Types, NEW p \in Producer, enq[p].t \in Slot, ReadNext(p)
    PROVE  /\ Moves(p) /\ Goes(p, "readNext", {"help", "link"})
           /\ enq'[p].t_next = next[enq[p].t]
           /\ enq'[p].pc = "link" <=> next[enq[p].t] = UNDEFINED_NODE
<1> PICK r, s, n :
      /\ r = enq[p] /\ n = next[enq[p].t]
      /\ s = [r EXCEPT !.t_next = n,
                       !.pc = IF n # UNDEFINED_NODE THEN "help" ELSE "link"]
  BY ZenonT(40)
<1>1. n \in Node /\ "help" \in EnqLabel /\ "link" \in EnqLabel
  BY DEF Types, EnqLabel
<1>2. r \in EnqLocals /\ Sets(p, s) /\ r.pc = "readNext"
  BY TypedLocals DEF ReadNext, Sets, At
<1>3. /\ s \in EnqLocals /\ s.pc \in {"help", "link"} /\ s.msg = r.msg /\ s.node = r.node
      /\ s.t = r.t /\ s.t_next = n /\ (s.pc = "link" <=> n = UNDEFINED_NODE)
  BY <1>1, <1>2 DEF EnqLocals
<1>. QED
  BY <1>2, <1>3, SetIs DEF Moves, Goes

LEMMA HelpIs ==
    ASSUME Types, NEW p \in Producer, Help(p)
    PROVE  Moves(p) /\ Goes(p, "help", {"readTail"})
BY GotoIs DEF Help, At, EnqLabel, Moves, Goes

LEMMA LinkIs ==
    ASSUME Types, NEW p \in Producer, Link(p)
    PROVE  /\ Moves(p) /\ Goes(p, "link", {"swing", "readTail"})
           /\ enq'[p].pc = "swing" <=> next[enq[p].t] = UNDEFINED_NODE
<1> PICK l : l = IF next[enq[p].t] = UNDEFINED_NODE THEN "swing" ELSE "readTail"
  OBVIOUS
<1>1. l \in EnqLabel /\ enq' = [enq EXCEPT ![p].pc = l] /\ enq[p].pc = "link"
  BY DEF Link, At, EnqLabel
<1>. QED
  BY ZenonT(40), <1>1, GotoIs DEF Moves, Goes

LEMMA SwingIs ==
    ASSUME Types, NEW p \in Producer, Swing(p)
    PROVE  Moves(p) /\ enq[p].pc = "swing" /\ enq'[p] = IdleEnqueue
BY SetIs, IdleIs DEF Swing, At, Moves, Sets

\* What a step of the consumer does to its locals.
LEMMA BeginIs ==
    ASSUME Types, DequeueBegin
    PROVE  /\ deq' \in DeqLocals /\ deq.pc = "idle" /\ deq'.pc = "take"
           /\ deq'.h_idx = head /\ deq'.h_next = next[head] /\ next[head] \in Slot
           /\ deq'.TmpList = <<>> /\ deq'.i = 1 /\ deq'.k = 0
<1> PICK r, s, n :
      r = IdleDequeue /\ n = next[head]
      /\ s = [r EXCEPT !.pc = "take", !.h_idx = head, !.h_next = n]
  OBVIOUS
<1>1. head \in Node /\ n \in Node /\ n \in Slot
  BY DEF Types, Node, DequeueBegin
<1>2. deq' = s /\ deq.pc = "idle"
  BY DEF DequeueBegin
<1>3. /\ s \in DeqLocals /\ s.pc = "take" /\ s.h_idx = head /\ s.h_next = n
      /\ s.TmpList = <<>> /\ s.i = 1 /\ s.k = 0
  BY <1>1, IdleIs DEF DeqLocals
<1>. QED
  BY <1>1, <1>2, <1>3

LEMMA TakeIs ==
    ASSUME Types, deq.h_idx \in Slot, DequeueTake
    PROVE  /\ deq' \in DeqLocals /\ deq.pc = "take" /\ deq'.pc = "retire"
           /\ deq'.TmpList = Append(RList, deq.h_idx)
           /\ deq'.i = deq.i /\ deq'.k = deq.k
<1> PICK r, s, l : r = deq /\ l = Append(RList, deq.h_idx)
                   /\ s = [r EXCEPT !.pc = "retire", !.TmpList = l]
  OBVIOUS
<1>1. l \in Seq(Slot)
  BY AppendProperties DEF Types
<1>2. deq' = s /\ deq.pc = "take" /\ r \in DeqLocals
  BY TypedLocals DEF DequeueTake
<1>3. /\ s \in DeqLocals /\ s.pc = "retire" /\ s.TmpList = l /\ s.i = r.i /\ s.k = r.k
  BY <1>1, <1>2 DEF DeqLocals
<1>. QED
  BY <1>2, <1>3

LEMMA NextRetiredIs ==
    ASSUME Types, deq' = NextRetired
    PROVE  /\ deq' \in DeqLocals /\ deq'.pc = "retire" /\ deq'.TmpList = deq.TmpList
           /\ deq'.i = deq.i + 1 /\ deq'.k = 0
<1> PICK r, s : r = deq /\ s = [r EXCEPT !.pc = "retire", !.i = r.i + 1, !.k = 0]
  OBVIOUS
<1>1. r.i + 1 \in Nat \ {0} /\ 0 \in 0 .. MaxUser /\ r \in DeqLocals
  BY TypedLocals, MaxUserAssumption
<1>2. deq' = s
  BY DEF NextRetired
<1>3. s \in DeqLocals /\ s.pc = "retire" /\ s.TmpList = r.TmpList /\ s.i = r.i + 1 /\ s.k = 0
  BY <1>1 DEF DeqLocals
<1>. QED
  BY <1>2, <1>3

LEMMA RetirePassIs ==
    ASSUME Types, RetirePass
    PROVE  /\ deq' \in DeqLocals /\ deq.pc = "retire" /\ deq'.pc = "retire"
           /\ deq'.TmpList = deq.TmpList /\ deq'.i = deq.i /\ deq'.k = deq.k + 1
<1> PICK r, s : r = deq /\ s = [r EXCEPT !.k = r.k + 1]
  OBVIOUS
<1>1. r.k + 1 \in 0 .. MaxUser /\ r \in DeqLocals
  <2>1. r.k \in 0 .. MaxUser /\ r.k < MaxUser
    BY TypedLocals DEF RetirePass
  <2>. QED
    BY <2>1, TypedLocals, MaxUserAssumption
<1>2. deq' = s /\ r.pc = "retire"
  BY DEF RetirePass
<1>3. /\ s \in DeqLocals /\ s.pc = r.pc /\ s.TmpList = r.TmpList /\ s.i = r.i
      /\ s.k = r.k + 1
  BY <1>1 DEF DeqLocals
<1>. QED
  BY <1>2, <1>3

LEMMA RetireResetIs ==
    ASSUME Types, RetireReset
    PROVE  /\ deq' \in DeqLocals /\ deq.pc = "retire" /\ deq'.pc = "free"
           /\ deq'.TmpList = deq.TmpList /\ deq'.i = deq.i /\ deq'.k = deq.k
<1> PICK r, s : r = deq /\ s = [r EXCEPT !.pc = "free"]
  OBVIOUS
<1>2. deq' = s /\ r.pc = "retire" /\ r \in DeqLocals
  BY TypedLocals DEF RetireReset
<1>3. s \in DeqLocals /\ s.pc = "free" /\ s.TmpList = r.TmpList /\ s.i = r.i /\ s.k = r.k
  BY <1>2 DEF DeqLocals
<1>. QED
  BY <1>2, <1>3

\* What the retire scan is about to deal with.
LEMMA RetiringIs ==
    ASSUME Types, RetireInv, deq.i <= Len(deq.TmpList)
    PROVE  /\ Retiring \in Slot /\ Retiring \in Left /\ Retiring \in Retired
           /\ Retiring \in Range(deq.TmpList) /\ Left \subseteq Range(deq.TmpList)
           /\ {deq.TmpList[j] : j \in deq.i + 1 .. Len(deq.TmpList)} = Left \ {Retiring}
<1> PICK l, i : l = deq.TmpList /\ i = deq.i
  OBVIOUS
<1>1. /\ l \in Seq(Slot) /\ Len(l) \in Nat /\ DOMAIN l = 1 .. Len(l)
      /\ i \in Nat \ {0} /\ i <= Len(l)
  BY TypedLocals, LenProperties
<1>2. /\ i \in 1 .. Len(l) /\ i \in i .. Len(l)
      /\ \A j \in i .. Len(l) : j \in 1 .. Len(l)
      /\ \A j : j \in i .. Len(l) <=> j = i \/ j \in i + 1 .. Len(l)
      /\ i \notin i + 1 .. Len(l)
  BY <1>1
<1>3. Retiring = l[i] /\ Left = {l[j] : j \in i .. Len(l)} /\ Distinct(l)
  BY DEF Retiring, Left, RetireInv
<1>4. Left \subseteq Range(l) /\ l[i] \in Left /\ l[i] \in Slot
  BY <1>1, <1>2, <1>3 DEF Range
<1>5. \A j \in i + 1 .. Len(l) : l[j] # l[i]
  BY <1>2, <1>3 DEF Distinct
<1>6. {l[j] : j \in i + 1 .. Len(l)} = Left \ {l[i]}
  BY <1>2, <1>3, <1>5, Zenon
<1>7. Left \subseteq Retired
  BY DEF Retired, Left
<1>8. Retiring = l[i] /\ l = deq.TmpList /\ i = deq.i
  BY <1>3
<1>9. /\ Retiring \in Slot /\ Retiring \in Left /\ Retiring \in Retired
      /\ Retiring \in Range(l) /\ Left \subseteq Range(l)
  BY <1>4, <1>7, <1>8
<1>10. {l[j] : j \in i + 1 .. Len(l)} = Left \ {Retiring}
  BY <1>6, <1>8
<1>. QED
  BY <1>8, <1>9, <1>10

\* The retired slots are the ones on the lists.
LEMMA RetiredIs ==
    /\ Retired = Range(RList) \cup Left
    /\ deq.TmpList = <<>> /\ deq.i = 1 => Left = {}
    /\ Types => Retired \subseteq Slot
<1>1. Retired = Range(RList) \cup Left
  BY DEF Retired, Left
<1>2. deq.TmpList = <<>> /\ deq.i = 1 => Left = {}
  BY EmptySeq DEF Left
<1>3. ASSUME Types PROVE Retired \subseteq Slot
  <2>1. /\ RList \in Seq(Slot) /\ deq.TmpList \in Seq(Slot) /\ deq.i \in Nat \ {0}
    BY <1>3, TypedLocals DEF Types
  <2>2. DOMAIN RList = 1 .. Len(RList) /\ Len(RList) \in Nat /\ Len(deq.TmpList) \in Nat
    BY <2>1, LenProperties
  <2>3. Range(RList) \subseteq Slot
    BY <2>1, <2>2 DEF Range
  <2>4. \A j \in deq.i .. Len(deq.TmpList) : deq.TmpList[j] \in Slot
    BY <2>1, <2>2
  <2>5. Left \subseteq Slot
    BY <2>4 DEF Left
  <2>. QED
    BY <1>1, <2>3, <2>5
<1>. QED
  BY <1>1, <1>2, <1>3

\* The same of the next state.
LEMMA RetiredIsAfter ==
    /\ Retired' = Range(RList') \cup Left'
    /\ deq'.TmpList = <<>> /\ deq'.i = 1 => Left' = {}
    /\ Left' = {deq'.TmpList[j] : j \in deq'.i .. Len(deq'.TmpList)}
<1>1. Left' = {deq'.TmpList[j] : j \in deq'.i .. Len(deq'.TmpList)}
  BY DEF Left
<1>. QED
  BY <1>1, EmptySeq DEF Retired, Left

\* A step leaves the locals of the others as they are.
LEMMA OthersStay ==
    ASSUME Inv, NEW p \in Producer, Step(p)
    PROVE  /\ Moves(p) /\ head' = head
           /\ deq' = deq /\ RList' = RList /\ overtaken' = overtaken
           /\ deqRet' = deqRet /\ got' = got /\ Left' = Left /\ Retired' = Retired
<1>0. Types /\ (enq[p].pc = "readNext" => enq[p].t \in Slot)
  BY DEF Inv, LocalInv, EnqOk, HasTail
<1>1. Moves(p)
  BY <1>0, CallIs, ScanTakesIs, ScanMissesIs, FillIs, ReadTailIs, ProtectIs, RecheckIs,
     ReadNextIs, HelpIs, LinkIs, SwingIs DEF Step, Enqueue, ReadNext, At
<1>2. /\ head' = head
      /\ deq' = deq /\ RList' = RList /\ overtaken' = overtaken
      /\ deqRet' = deqRet /\ got' = got
  BY DEF Step, Enqueue, EnqueueCall, ScanTakes, ScanMisses, Fill, ReadTail, Protect,
     Recheck, ReadNext, Help, Link, Swing, listVars, prodVars, consVars
<1>3. Left' = Left /\ Retired' = Retired
  BY <1>2 DEF Left, Retired
<1>. QED
  BY <1>1, <1>2, <1>3

\* Types is kept by the steps of a producer.
LEMMA TypesOfStep ==
    ASSUME Inv, NEW p \in Producer, Step(p)
    PROVE  Types'
<1>0. /\ Types /\ enq[p].pc \in EnqLabel /\ p \in User
      /\ enq[p].pc \in HasNode \cup {"swing"} => enq[p].node \in Slot
      /\ enq[p].pc \in HasTail => enq[p].t \in Slot
      /\ enq[p].pc = "help" => enq[p].t_next \in Slot
      /\ enq[p].msg \in Message \cup {NoMessage}
      /\ UNDEFINED_NODE \in Node /\ \A s \in Slot : s \in Node
  BY TypedLocals, ProducerAssumption DEF Inv, LocalInv, EnqOk, User, Node
<1>1. /\ enq' \in [Producer -> EnqLocals] /\ head' \in Slot /\ deq' \in DeqLocals
      /\ RList' \in Seq(Slot) /\ overtaken' \in BOOLEAN
      /\ deqRet' \in {0, -1} /\ got' \in Message \cup {NoMessage}
  BY <1>0, OthersStay DEF Moves, Types
<1>2. /\ tail' \in Slot
      /\ used' \in [Slot -> {0, 1}]
      /\ next' \in [Slot -> Node]
      /\ data' \in [Slot -> Message \cup {NoMessage}]
      /\ sharedIdxs' \in [User -> Node]
      /\ scan' \in [Producer -> Slot]
      /\ calls' \in Nat
  <2>0. /\ tail \in Slot /\ used \in [Slot -> {0, 1}] /\ next \in [Slot -> Node]
        /\ data \in [Slot -> Message \cup {NoMessage}]
        /\ sharedIdxs \in [User -> Node] /\ scan \in [Producer -> Slot] /\ calls \in Nat
    BY <1>0 DEF Types
  <2>1. CASE \E m \in Sends[p] : EnqueueCall(p, m)
    BY <2>0, <2>1, MaxCallsAssumption DEF EnqueueCall, listVars
  <2>2. CASE ScanTakes(p)
    BY <2>0, <2>2 DEF ScanTakes
  <2>3. CASE ScanMisses(p)
    <3>1. \A i \in Slot : ScanNext(i) \in Slot
      BY NumSlotsAssumption DEF ScanNext, Slot
    <3>2. scan' = [scan EXCEPT ![p] = ScanNext(scan[p])] /\ UNCHANGED <<listVars, calls>>
      BY <2>3 DEF ScanMisses
    <3>. QED
      BY <2>0, <3>1, <3>2 DEF listVars
  <2>4. CASE Fill(p)
    <3>1. enq[p].node \in Slot
      BY <1>0, <2>4 DEF Fill, At, HasNode
    <3>. QED
      BY <1>0, <2>0, <2>4, <3>1 DEF Fill
  <2>5. CASE ReadTail(p) \/ Recheck(p) \/ ReadNext(p)
    BY <2>0, <2>5 DEF ReadTail, Recheck, ReadNext, listVars
  <2>6. CASE Protect(p)
    <3>1. enq[p].t \in Node
      BY <1>0, <2>6 DEF Protect, At, HasTail
    <3>. QED
      BY <1>0, <2>0, <2>6, <3>1 DEF Protect
  <2>7. CASE Help(p)
    BY <1>0, <2>0, <2>7 DEF Help, At
  <2>8. CASE Link(p)
    <3>1. enq[p].node \in Node
      BY <1>0, <2>8 DEF Link, At, HasNode
    <3>. QED
      BY <2>0, <2>8, <3>1 DEF Link
  <2>9. CASE Swing(p)
    BY <1>0, <2>0, <2>9 DEF Swing, At
  <2>. QED
    BY <2>1, <2>2, <2>3, <2>4, <2>5, <2>6, <2>7, <2>8, <2>9 DEF Step, Enqueue
<1>. QED
  BY <1>1, <1>2 DEF Types

\* A step of the consumer leaves the producers as they are.
LEMMA ProducersStay ==
    ASSUME Dequeue
    PROVE  /\ enq' = enq /\ scan' = scan /\ calls' = calls
           /\ tail' = tail /\ data' = data /\ sharedIdxs' = sharedIdxs
           /\ \A p \in Producer : Held(p)' = Held(p) /\ Filling(p)' = Filling(p)
<1>1. /\ enq' = enq /\ scan' = scan /\ calls' = calls
      /\ tail' = tail /\ data' = data /\ sharedIdxs' = sharedIdxs
  BY DEF Dequeue, DequeueEmpty, DequeueBegin, DequeueTake, RetireKeep, RetirePass,
     RetireReset, RetireFree, DequeueReturn, listVars, prodVars
<1>. QED
  BY <1>1 DEF Held, Filling

\* Types is kept by the steps of the consumer.
LEMMA TypesOfDequeue ==
    ASSUME Inv, Dequeue
    PROVE  Types'
<1>0. /\ Types /\ RetireInv /\ DeqOk
      /\ head \in Slot /\ used \in [Slot -> {0, 1}] /\ next \in [Slot -> Node]
      /\ data \in [Slot -> Message \cup {NoMessage}]
      /\ deq \in DeqLocals /\ RList \in Seq(Slot) /\ overtaken \in BOOLEAN
      /\ deqRet \in {0, -1} /\ got \in Message \cup {NoMessage}
      /\ UNDEFINED_NODE \in Node
  BY DEF Inv, Types, LocalInv, Node
<1>1. SUFFICES /\ head' \in Slot /\ used' \in [Slot -> {0, 1}]
               /\ next' \in [Slot -> Node]
               /\ deq' \in DeqLocals /\ RList' \in Seq(Slot) /\ overtaken' \in BOOLEAN
               /\ deqRet' \in {0, -1} /\ got' \in Message \cup {NoMessage}
  BY <1>0, ProducersStay DEF Types
<1>2. CASE DequeueEmpty
  BY <1>0, <1>2 DEF DequeueEmpty, listVars
<1>3. CASE DequeueBegin
  BY <1>0, <1>3, BeginIs DEF DequeueBegin, listVars
<1>4. CASE DequeueTake
  <2>1. deq.h_idx \in Slot /\ deq.h_next \in Slot
    BY <1>0, <1>4 DEF DequeueTake, DeqOk
  <2>2. deq' \in DeqLocals /\ <<>> \in Seq(Slot)
    BY <1>0, <1>4, <2>1, TakeIs
  <2>. QED
    BY <1>0, <1>4, <2>1, <2>2 DEF DequeueTake
<1>5. CASE RetireKeep
  <2>1. Retiring \in Slot /\ deq' \in DeqLocals
    BY <1>0, <1>5, RetiringIs, NextRetiredIs DEF RetireKeep
  <2>2. Append(RList, Retiring) \in Seq(Slot)
    BY <1>0, <2>1, AppendProperties
  <2>. QED
    BY <1>0, <1>5, <2>1, <2>2 DEF RetireKeep, listVars
<1>6. CASE RetirePass
  BY <1>0, <1>6, RetirePassIs DEF RetirePass, listVars
<1>7. CASE RetireReset
  BY <1>0, <1>7, RetireResetIs, RetiringIs DEF RetireReset
<1>8. CASE RetireFree
  <2>1. Retiring \in Slot /\ deq' \in DeqLocals
    BY <1>0, <1>8, RetiringIs, NextRetiredIs DEF RetireFree, DeqOk
  <2>. QED
    BY <1>0, <1>8, <2>1 DEF RetireFree
<1>9. CASE DequeueReturn
  BY <1>0, <1>9, IdleIs DEF DequeueReturn, listVars
<1>. QED
  BY <1>2, <1>3, <1>4, <1>5, <1>6, <1>7, <1>8, <1>9 DEF Dequeue

\* The steps that change owners or links.  All others are quiet.
NoneOf   == \A q \in Producer : Held(q)' = Held(q) /\ Filling(q)' = Filling(q)
OnlyOf(p) ==
    \A q \in Producer : q # p => Held(q)' = Held(q) /\ Filling(q)' = Filling(q)

Quiet == used' = used /\ next' = next /\ head' = head /\ Retired' = Retired /\ NoneOf

ToTake(p) ==
    /\ scan[p] \in Slot /\ used[scan[p]] = 0 /\ used' = [used EXCEPT ![scan[p]] = 1]
    /\ next' = next /\ head' = head /\ Retired' = Retired
    /\ OnlyOf(p) /\ Held(p) = {} /\ Held(p)' = {scan[p]} /\ Filling(p)' = {scan[p]}

ToFill(p) ==
    /\ enq[p].node \in Slot /\ next' = [next EXCEPT ![enq[p].node] = UNDEFINED_NODE]
    /\ used' = used /\ head' = head /\ Retired' = Retired
    /\ OnlyOf(p) /\ Held(p) = {enq[p].node} /\ Held(p)' = {enq[p].node}
    /\ Filling(p) = {enq[p].node} /\ Filling(p)' = {}

ToLink(p) ==
    /\ enq[p].node \in Slot /\ enq[p].t \in Slot
    /\ next[enq[p].t] = UNDEFINED_NODE
    /\ next' = [next EXCEPT ![enq[p].t] = enq[p].node]
    /\ used' = used /\ head' = head /\ Retired' = Retired
    /\ OnlyOf(p) /\ Held(p) = {enq[p].node} /\ Held(p)' = {}
    /\ Filling(p) = {} /\ Filling(p)' = {}

ToRetire ==
    /\ next[head] \in Slot /\ head' = next[head]
    /\ used' = used /\ next' = next /\ Retired' = Retired \cup {head} /\ NoneOf

ToReset ==
    /\ Retiring \in Slot /\ Retiring \in Retired
    /\ next' = [next EXCEPT ![Retiring] = UNDEFINED_NODE]
    /\ used' = used /\ head' = head /\ Retired' = Retired /\ NoneOf

ToFree ==
    /\ Retiring \in Slot /\ Retiring \in Retired
    /\ used' = [used EXCEPT ![Retiring] = 0]
    /\ next' = next /\ head' = head /\ Retired' = Retired \ {Retiring} /\ NoneOf

Linking(p) == Link(p) /\ next[enq[p].t] = UNDEFINED_NODE

ProducerEffect(p) ==
    \/ Quiet /\ ~ScanTakes(p) /\ ~Fill(p) /\ ~Linking(p)
    \/ ScanTakes(p) /\ ToTake(p)
    \/ Fill(p) /\ ToFill(p)
    \/ Linking(p) /\ ToLink(p)

ConsumerEffect ==
    \/ Quiet /\ ~DequeueTake /\ ~RetireReset /\ ~RetireFree
    \/ DequeueTake /\ ToRetire
    \/ RetireReset /\ ToReset
    \/ RetireFree /\ ToFree

Effect ==
    \/ Quiet \/ \E p \in Producer : ToTake(p) \/ ToFill(p) \/ ToLink(p)
    \/ ToRetire \/ ToReset \/ ToFree

\* Held and Filling, by the labels.
LEMMA HeldIs ==
    ASSUME NEW p \in Producer, enq[p].pc \in EnqLabel, enq'[p].pc \in EnqLabel
    PROVE  /\ Held(p) = IF enq[p].pc \in HasNode THEN {enq[p].node} ELSE {}
           /\ Held(p)' = IF enq'[p].pc \in HasNode THEN {enq'[p].node} ELSE {}
           /\ Filling(p) = IF enq[p].pc = "fill" THEN {enq[p].node} ELSE {}
           /\ Filling(p)' = IF enq'[p].pc = "fill" THEN {enq'[p].node} ELSE {}
BY DEF Held, Filling, HasNode, EnqLabel

\* Every step of a producer takes, fills or links its node, or is quiet.
LEMMA ProducerEffectIs ==
    ASSUME Inv, NEW p \in Producer, Step(p)
    PROVE  ProducerEffect(p)
<1>0. /\ Types /\ enq[p].pc \in EnqLabel /\ enq'[p].pc \in EnqLabel
      /\ enq[p].pc \in HasNode \cup {"swing"} => enq[p].node \in Slot
      /\ enq[p].pc \in HasTail => enq[p].t \in Slot
      /\ scan[p] \in Slot
  <2>1. Types' /\ Types
    BY TypesOfStep DEF Inv
  <2>2. enq'[p].pc \in EnqLabel
    <3>1. enq'[p] \in EnqLocals
      BY <2>1 DEF Types
    <3>. QED
      BY <3>1, Zenon DEF EnqLocals
  <2>. QED
    BY <2>1, <2>2, TypedLocals DEF Inv, LocalInv, EnqOk, Types
<1>1. /\ head' = head /\ Retired' = Retired
      /\ OnlyOf(p)
  <2>1. head' = head /\ Retired' = Retired /\ \A q \in Producer : q # p => enq'[q] = enq[q]
    BY OthersStay DEF Moves
  <2>. QED
    BY <2>1 DEF OnlyOf, Held, Filling
<1>2. /\ Held(p) = IF enq[p].pc \in HasNode THEN {enq[p].node} ELSE {}
      /\ Held(p)' = IF enq'[p].pc \in HasNode THEN {enq'[p].node} ELSE {}
      /\ Filling(p) = IF enq[p].pc = "fill" THEN {enq[p].node} ELSE {}
      /\ Filling(p)' = IF enq'[p].pc = "fill" THEN {enq'[p].node} ELSE {}
  BY <1>0, HeldIs
<1>3. ASSUME Held(p)' = Held(p), Filling(p)' = Filling(p), used' = used, next' = next
      PROVE  Quiet
  BY <1>1, <1>3 DEF Quiet, NoneOf, OnlyOf
<1>4. /\ ScanTakes(p) => enq[p].pc = "scan"
      /\ Fill(p) => enq[p].pc = "fill"
      /\ Linking(p) => enq[p].pc = "link" /\ Link(p)
  BY DEF ScanTakes, Fill, Linking, Link, At
<1>5. CASE ScanTakes(p)
  <2>1. /\ enq[p].pc = "scan" /\ enq'[p].pc = "fill" /\ enq'[p].node = scan[p]
    BY <1>0, <1>5, ScanTakesIs
  <2>2. Held(p) = {} /\ Held(p)' = {scan[p]} /\ Filling(p)' = {scan[p]}
    BY <1>2, <2>1 DEF HasNode
  <2>3. used[scan[p]] = 0 /\ used' = [used EXCEPT ![scan[p]] = 1] /\ next' = next
    BY <1>5 DEF ScanTakes
  <2>. QED
    BY <1>0, <1>1, <1>5, <2>2, <2>3 DEF ProducerEffect, ToTake
<1>6. CASE Fill(p)
  <2>1. enq[p].pc = "fill" /\ enq'[p].pc = "readTail" /\ enq'[p].node = enq[p].node
    BY <1>0, <1>6, FillIs DEF Goes
  <2>2. /\ Held(p) = {enq[p].node} /\ Held(p)' = {enq[p].node}
        /\ Filling(p) = {enq[p].node} /\ Filling(p)' = {} /\ enq[p].node \in Slot
    BY <1>0, <1>2, <2>1 DEF HasNode
  <2>3. used' = used /\ next' = [next EXCEPT ![enq[p].node] = UNDEFINED_NODE]
    BY <1>6 DEF Fill
  <2>. QED
    BY <1>0, <1>1, <1>6, <2>2, <2>3 DEF ProducerEffect, ToFill
<1>7. CASE Linking(p)
  <2>1. /\ enq[p].pc = "link" /\ enq'[p].pc = "swing" /\ next[enq[p].t] = UNDEFINED_NODE
    BY <1>0, <1>7, LinkIs DEF Goes, Linking
  <2>2. /\ Held(p) = {enq[p].node} /\ Held(p)' = {}
        /\ Filling(p) = {} /\ Filling(p)' = {}
        /\ enq[p].node \in Slot /\ enq[p].t \in Slot
    BY <1>0, <1>2, <2>1 DEF HasNode, HasTail
  <2>3. used' = used /\ next' = [next EXCEPT ![enq[p].t] = enq[p].node]
    BY <1>7, <2>1 DEF Linking, Link
  <2>. QED
    BY <1>0, <1>1, <1>7, <2>1, <2>2, <2>3 DEF ProducerEffect, ToLink
<1>8. ASSUME ~ScanTakes(p), ~Fill(p), ~Linking(p)
      PROVE  used' = used /\ next' = next /\ Held(p)' = Held(p) /\ Filling(p)' = Filling(p)
  <2>1. CASE \E m \in Sends[p] : EnqueueCall(p, m)
    <3>1. used' = used /\ next' = next
      BY <2>1 DEF EnqueueCall, listVars
    <3>2. enq[p].pc = "idle" /\ enq'[p].pc = "scan"
      BY <1>0, <2>1, CallIs
    <3>. QED
      BY <1>2, <3>1, <3>2 DEF HasNode
  <2>2. CASE ScanMisses(p)
    <3>1. used' = used /\ next' = next
      BY <2>2 DEF ScanMisses, listVars
    <3>2. enq[p].pc = "scan" /\ enq'[p].pc \in {"scan", "idle"}
      BY <1>0, <2>2, ScanMissesIs, IdleIs
    <3>. QED
      BY <1>2, <3>1, <3>2 DEF HasNode
  <2>3. CASE Swing(p)
    <3>1. used' = used /\ next' = next
      BY <2>3 DEF Swing
    <3>2. enq[p].pc = "swing" /\ enq'[p].pc = "idle"
      BY <1>0, <2>3, SwingIs, IdleIs
    <3>. QED
      BY <1>2, <3>1, <3>2 DEF HasNode
  <2>4. CASE ReadTail(p) \/ Protect(p) \/ Recheck(p) \/ ReadNext(p) \/ Help(p) \/ Link(p)
    <3>1. used' = used /\ next' = next
      BY <1>8, <2>4 DEF ReadTail, Protect, Recheck, ReadNext, Help, Link, Linking, listVars
    <3>2. ReadNext(p) => enq[p].t \in Slot
      BY <1>0 DEF ReadNext, At, HasTail
    <3>3. /\ enq[p].pc \in HasNode /\ enq'[p].pc \in HasNode
          /\ enq[p].pc # "fill" /\ enq'[p].pc # "fill" /\ enq'[p].node = enq[p].node
      <4>1. CASE ReadTail(p)
        BY <1>0, <4>1, ReadTailIs DEF HasNode
      <4>2. CASE Protect(p)
        BY <1>0, <4>2, ProtectIs DEF HasNode, Goes
      <4>3. CASE Recheck(p)
        BY <1>0, <4>3, RecheckIs DEF HasNode, Goes
      <4>4. CASE ReadNext(p)
        BY <1>0, <3>2, <4>4, ReadNextIs DEF HasNode, Goes
      <4>5. CASE Help(p)
        BY <1>0, <4>5, HelpIs DEF HasNode, Goes
      <4>6. CASE Link(p)
        <5>1. next[enq[p].t] # UNDEFINED_NODE
          BY <1>8, <4>6 DEF Linking
        <5>. QED
          BY <1>0, <4>6, <5>1, LinkIs DEF HasNode, Goes
      <4>. QED
        BY <2>4, <4>1, <4>2, <4>3, <4>4, <4>5, <4>6
    <3>. QED
      BY <1>2, <3>1, <3>3
  <2>. QED
    BY <1>8, <2>1, <2>2, <2>3, <2>4 DEF Step, Enqueue
<1>. QED
  BY <1>3, <1>5, <1>6, <1>7, <1>8 DEF ProducerEffect

\* Every step of the consumer retires, resets or frees a node, or is quiet.
LEMMA ConsumerEffectIs ==
    ASSUME Inv, Dequeue
    PROVE  ConsumerEffect
<1>0. /\ Types /\ RetireInv /\ DeqOk /\ deq.i \in Nat \ {0}
      /\ RList \in Seq(Slot)
  BY TypedLocals DEF Inv, LocalInv, Types
<1>1. NoneOf
  BY ProducersStay DEF NoneOf
<1>2. /\ DequeueTake => deq.pc = "take"
      /\ RetireReset => deq.pc = "retire" /\ deq.i <= Len(deq.TmpList) /\ deq.k = MaxUser
      /\ RetireFree => deq.pc = "free"
  BY DEF DequeueTake, RetireReset, RetireFree
<1>3. CASE DequeueTake
  <2>1. /\ deq.h_idx = head /\ deq.h_next = next[head] /\ next[head] \in Slot
        /\ deq.TmpList = <<>> /\ deq.i = 1 /\ head \in Slot
    BY <1>0, <1>2, <1>3 DEF DeqOk, Types
  <2>2. /\ deq'.TmpList = Append(RList, head) /\ RList' = <<>> /\ deq'.i = 1
        /\ head' = next[head] /\ used' = used /\ next' = next
    BY <1>0, <1>3, <2>1, TakeIs DEF DequeueTake
  <2>3. Left = {} /\ Retired = Range(RList)
    BY <2>1, RetiredIs
  <2> PICK l : l = Append(RList, head)
    OBVIOUS
  <2>4. l \in Seq(Slot) /\ Len(l) \in Nat /\ DOMAIN l = 1 .. Len(l)
        /\ Range(l) = Range(RList) \cup {head}
    BY <1>0, <2>1, RangeOfAppend, AppendProperties, LenProperties
  <2>5. Left' = {l[j] : j \in 1 .. Len(l)}
    BY <2>2, RetiredIsAfter
  <2>6. Left' = Range(l)
    BY <2>4, <2>5 DEF Range
  <2>7. Range(RList') = {}
    BY <2>2, EmptySeq DEF Range
  <2>8. Retired' = Retired \cup {head}
    BY <2>3, <2>4, <2>6, <2>7, RetiredIsAfter
  <2>. QED
    BY <1>1, <1>3, <2>1, <2>2, <2>8 DEF ConsumerEffect, ToRetire
<1>4. CASE RetireReset
  <2>1. Retiring \in Slot /\ Retiring \in Retired
    BY <1>0, <1>2, <1>4, RetiringIs
  <2>2. deq'.TmpList = deq.TmpList /\ deq'.i = deq.i /\ RList' = RList
    BY <1>0, <1>4, RetireResetIs DEF RetireReset
  <2>3. Retired' = Retired
    BY <2>2 DEF Retired
  <2>. QED
    BY <1>1, <1>4, <2>1, <2>3 DEF ConsumerEffect, ToReset, RetireReset
<1>5. ASSUME deq' = NextRetired, deq.i <= Len(deq.TmpList) PROVE Left' = Left \ {Retiring}
  <2>1. deq'.TmpList = deq.TmpList /\ deq'.i = deq.i + 1
    BY <1>0, <1>5, NextRetiredIs
  <2>2. Left' = {deq.TmpList[j] : j \in deq.i + 1 .. Len(deq.TmpList)}
    BY <2>1, RetiredIsAfter
  <2>. QED
    BY <1>0, <1>5, <2>2, RetiringIs
<1>6. CASE RetireFree
  <2>1. deq.i <= Len(deq.TmpList)
    BY <1>0, <1>2, <1>6 DEF DeqOk
  <2>2. /\ Retiring \in Slot /\ Retiring \in Retired /\ Retiring \in Left
        /\ Range(RList) \cap Left = {}
    BY <1>0, <2>1, RetiringIs DEF RetireInv
  <2>3. /\ Left' = Left \ {Retiring} /\ RList' = RList /\ next' = next /\ head' = head
        /\ used' = [used EXCEPT ![Retiring] = 0]
    BY <1>5, <1>6, <2>1 DEF RetireFree
  <2>4. Retired' = Retired \ {Retiring}
    BY <2>2, <2>3, RetiredIs, RetiredIsAfter
  <2>. QED
    BY <1>1, <1>6, <2>2, <2>3, <2>4 DEF ConsumerEffect, ToFree
<1>7. ASSUME ~DequeueTake, ~RetireReset, ~RetireFree PROVE Quiet
  <2>1. used' = used /\ next' = next /\ head' = head
    BY <1>7 DEF Dequeue, DequeueEmpty, DequeueBegin, RetireKeep, RetirePass,
       DequeueReturn, listVars
  <2> SUFFICES Retired' = Retired
    BY <1>1, <2>1 DEF Quiet
  <2>2. CASE DequeueEmpty
    BY <2>2 DEF DequeueEmpty, Retired
  <2>3. CASE DequeueBegin
    <3>1. deq'.TmpList = <<>> /\ deq'.i = 1 /\ RList' = RList
          /\ deq.TmpList = <<>> /\ deq.i = 1
      BY <1>0, <2>3, BeginIs DEF DequeueBegin, DeqOk
    <3>. QED
      BY <3>1 DEF Retired
  <2>4. CASE RetireKeep
    <3>1. deq.i <= Len(deq.TmpList)
      BY <2>4 DEF RetireKeep
    <3>2. Left' = Left \ {Retiring} /\ RList' = Append(RList, Retiring)
      BY <1>5, <2>4, <3>1 DEF RetireKeep
    <3>3. Retiring \in Slot /\ Retiring \in Left
      BY <1>0, <3>1, RetiringIs
    <3>4. Range(RList') = Range(RList) \cup {Retiring}
      BY <1>0, <3>2, <3>3, RangeOfAppend
    <3>. QED
      BY <3>2, <3>3, <3>4, RetiredIs, RetiredIsAfter
  <2>5. CASE RetirePass
    BY <1>0, <2>5, RetirePassIs DEF RetirePass, Retired
  <2>6. CASE DequeueReturn
    <3>1. deq'.TmpList = <<>> /\ deq'.i = 1 /\ RList' = RList /\ deq.i > Len(deq.TmpList)
      BY <2>6, IdleIs DEF DequeueReturn
    <3>2. Len(deq.TmpList) \in Nat
      BY <1>0, TypedLocals, LenProperties
    <3>3. Left = {}
      BY <1>0, <3>1, <3>2 DEF Left
    <3>. QED
      BY <3>1, <3>3, RetiredIs, RetiredIsAfter
  <2>. QED
    BY <1>7, <2>2, <2>3, <2>4, <2>5, <2>6 DEF Dequeue
<1>. QED
  BY <1>3, <1>4, <1>6, <1>7 DEF ConsumerEffect

\* Every step changes links and owners in one of the six ways, or not at all.
LEMMA EffectIs ==
    ASSUME Inv, Next
    PROVE  Effect
<1>1. (\E p \in Producer : Step(p)) \/ Dequeue
  BY DEF Next, Step
<1>. QED
  BY <1>1, ProducerEffectIs, ConsumerEffectIs DEF Effect, ProducerEffect, ConsumerEffect

\* A slot of the list, a new one and a retired one: what Apart says of each.
LEMMA OwnersAre ==
    ASSUME Inv
    PROVE  /\ \A s \in InList : Linked(s)
           /\ \A s : Linked(s) => Filled(s)
           /\ \A p \in Producer : \A s \in Held(p) : ~Linked(s) /\ used[s] = 1
           /\ \A s \in Retired : ~Filled(s) /\ ~Linked(s)
           /\ InList \subseteq Slot /\ head \in InList /\ Retired \subseteq Slot
           /\ \A p \in Producer : Filling(p) \subseteq Held(p)
<1>1. \A p \in Producer : Filling(p) \subseteq Held(p)
  BY DEF Filling, Held
<1>2. InList \subseteq Slot /\ head \in InList
  BY ListIs DEF Inv, ListInv, InList
<1>3. Retired \subseteq Slot
  BY RetiredIs DEF Inv
<1>. QED
  BY <1>1, <1>2, <1>3 DEF Inv, Apart, Linked, Filled

\* The list that begins at a new node.
LEMMA NewEnds ==
    ASSUME Inv, NEW p \in Producer, NEW n \in Slot, Held(p) = {n}, Filling(p) = {}
    PROVE  \E P : /\ IsList(P, n, next) /\ InList \cap Range(P) = {}
                  /\ \A s \in Range(P) : s = n \/ Linked(s)
<1> PICK S \in SUBSET Slot : \A s \in Slot : s \in S <=> s = n \/ Linked(s)
  <2>1. {s \in Slot : s = n \/ Linked(s)} \in SUBSET Slot
    OBVIOUS
  <2>. QED
    BY <2>1
<1>1. next \in [Slot -> Node] /\ n \in S /\ S \in SUBSET Slot
  BY DEF Inv, Types
<1>2. used[n] = 1 /\ n \notin Retired /\ ~Linked(n) /\ n \notin InList
  BY OwnersAre DEF Inv, Apart
<1>3. Filled(n)
  BY <1>2, OwnersAre DEF Filled, Inv, Apart
<1>4. \A s \in S : Filled(s)
  BY <1>3, OwnersAre
<1>5. \A s \in S : next[s] # UNDEFINED_NODE =>
         /\ next[s] \in S /\ next[s] # n /\ next[s] # head
         /\ \A r \in S : next[r] = next[s] => r = s
  <2> SUFFICES ASSUME NEW s \in S, next[s] # UNDEFINED_NODE
               PROVE  /\ next[s] \in S /\ next[s] # n /\ next[s] # head
                      /\ \A r \in S : next[r] = next[s] => r = s
    OBVIOUS
  <2>1. /\ Linked(next[s]) /\ next[s] # head
        /\ \A r \in Slot : Filled(r) /\ next[r] = next[s] => r = s
    BY <1>1, <1>4 DEF Inv, LinkInv
  <2>2. next[s] \in Slot
    BY <1>1 DEF Node
  <2>. QED
    BY <1>1, <1>2, <1>4, <2>1, <2>2
<1>6. \A s \in S : next[s] # head
  <2>1. head # UNDEFINED_NODE
    BY DEF Inv, Types, Slot, UNDEFINED_NODE
  <2>. QED
    BY <1>5, <2>1
<1>7. PICK P : IsList(P, n, next) /\ Range(P) \subseteq S
  BY <1>1, <1>5, PathEnds
<1>8. IsList(List, head, next) /\ Range(List) \subseteq S /\ n \notin Range(List)
  BY <1>2, OwnersAre DEF Inv, ListInv, InList
<1>9. Range(List) \cap Range(P) = {}
  <2>1. \A s \in Range(P) : next[s] # head
    BY <1>6, <1>7
  <2>2. \A r \in Range(List), s \in Range(P) :
           next[r] = next[s] /\ next[s] # UNDEFINED_NODE => r = s
    BY <1>5, <1>7, <1>8
  <2>. QED
    BY <1>7, <1>8, <2>1, <2>2, ListsAreApart
<1>. QED
  BY <1>7, <1>9 DEF InList

\* The list after a step.
LEMMA ListAfter ==
    ASSUME Inv, Effect
    PROVE  /\ ListInv'
           /\ Quiet \/ ToReset \/ ToFree => List' = List
           /\ \A p \in Producer : ToTake(p) \/ ToFill(p) => List' = List
           /\ ToRetire => /\ List' = Tail(List) /\ InList' = InList \ {head}
                          /\ Len(List) > 1 /\ List[2] = next[head]
           /\ \A p \in Producer : ToLink(p) =>
                 IF enq[p].t \in InList
                 THEN \E P : /\ IsList(P, enq[p].node, next) /\ InList \cap Range(P) = {}
                             /\ \A s \in Range(P) : s = enq[p].node \/ Linked(s)
                             /\ enq[p].t = List[Len(List)]
                             /\ List' = List \o P /\ InList' = InList \cup Range(P)
                 ELSE List' = List
<1>0. /\ IsList(List, head, next) /\ InList \subseteq Slot /\ Retired \subseteq Slot
      /\ next \in [Slot -> Node] /\ head \in Slot
  BY OwnersAre DEF Inv, ListInv, Types
<1>1. \A L : IsList(L, head', next') => List' = L /\ ListInv'
  <2> SUFFICES ASSUME NEW L, IsList(L, head', next') PROVE List' = L /\ ListInv'
    OBVIOUS
  <2>1. List' = L
    BY WalkIs, ListIsWalk
  <2>. QED
    BY <2>1 DEF ListInv, IsList
<1>2. ASSUME head' = head, \A s \in InList : next'[s] = next[s]
      PROVE  List' = List /\ ListInv'
  <2>1. IsList(List, head', next')
    BY <1>0, <1>2, ListStays DEF InList
  <2>. QED
    BY <1>1, <2>1
<1>3. ASSUME Quiet \/ ToFree \/ \E p \in Producer : ToTake(p)
      PROVE  List' = List /\ ListInv'
  BY <1>2, <1>3 DEF Quiet, ToFree, ToTake
<1>4. ASSUME NEW p \in Producer, ToFill(p) PROVE List' = List /\ ListInv'
  <2>1. enq[p].node \notin InList
    BY <1>4, OwnersAre DEF ToFill
  <2>. QED
    BY <1>0, <1>2, <1>4, <2>1 DEF ToFill
<1>5. ASSUME ToReset PROVE List' = List /\ ListInv'
  <2>1. Retiring \notin InList
    BY <1>5, OwnersAre DEF ToReset
  <2>. QED
    BY <1>0, <1>2, <1>5, <2>1 DEF ToReset
<1>6. ASSUME ToRetire
      PROVE  /\ List' = Tail(List) /\ InList' = InList \ {head} /\ ListInv'
             /\ Len(List) > 1 /\ List[2] = next[head]
  <2>1. next[head] # UNDEFINED_NODE /\ head' = next[head] /\ next' = next
    BY <1>6 DEF ToRetire, Slot, UNDEFINED_NODE
  <2>2. /\ IsList(Tail(List), head', next') /\ Range(Tail(List)) = InList \ {head}
        /\ Len(List) > 1 /\ List[2] = next[head]
    BY <1>0, <2>1, ListShrinks DEF InList
  <2>3. List' = Tail(List) /\ ListInv'
    BY <1>1, <2>2
  <2>. QED
    BY <2>2, <2>3 DEF InList
<1>7. ASSUME NEW p \in Producer, ToLink(p), enq[p].t \notin InList
      PROVE  List' = List /\ ListInv'
  BY <1>0, <1>2, <1>7 DEF ToLink
<1>8. ASSUME NEW p \in Producer, ToLink(p), enq[p].t \in InList
      PROVE  \E P : /\ IsList(P, enq[p].node, next) /\ InList \cap Range(P) = {}
                    /\ \A s \in Range(P) : s = enq[p].node \/ Linked(s)
                    /\ enq[p].t = List[Len(List)]
                    /\ List' = List \o P /\ InList' = InList \cup Range(P) /\ ListInv'
  <2> PICK n : n = enq[p].node
    OBVIOUS
  <2>1. /\ n \in Slot /\ Held(p) = {n} /\ Filling(p) = {} /\ head' = head
        /\ next[enq[p].t] = UNDEFINED_NODE /\ next' = [next EXCEPT ![enq[p].t] = n]
    BY <1>8 DEF ToLink
  <2>2. PICK P : /\ IsList(P, n, next) /\ InList \cap Range(P) = {}
                 /\ \A s \in Range(P) : s = n \/ Linked(s)
    BY <2>1, NewEnds
  <2>3. enq[p].t = List[Len(List)]
    BY <1>0, <1>8, <2>1, ListIs DEF InList
  <2>4. /\ IsList(List \o P, head, [next EXCEPT ![List[Len(List)]] = n])
        /\ Range(List \o P) = InList \cup Range(P)
    BY <1>0, <2>2, ListGrows DEF InList
  <2>5. IsList(List \o P, head', next')
    BY <2>1, <2>3, <2>4
  <2>6. List' = List \o P /\ ListInv'
    BY <1>1, <2>5
  <2>7. InList' = InList \cup Range(P)
    BY <2>4, <2>6 DEF InList
  <2>. QED
    BY <2>2, <2>3, <2>6, <2>7
<1>9. ListInv'
  BY <1>3, <1>4, <1>5, <1>6, <1>7, <1>8 DEF Effect
<1>. QED
  BY <1>3, <1>4, <1>5, <1>6, <1>7, <1>8, <1>9

\* Apart, of any owners.
LEMMA ApartIsAfter ==
    Apart' <=>
      /\ \A p, q \in Producer : \A s \in Held(p)' : s \in Held(q)' => p = q
      /\ \A p \in Producer : \A s \in Held(p)' :
            s \notin InList' /\ s \notin Retired' /\ used'[s] = 1
      /\ \A s \in InList' : s \notin Retired' /\ used'[s] = 1
      /\ \A s \in Retired' : used'[s] = 1
BY DEF Apart

\* A slot keeps one owner.
LEMMA ApartStep ==
    ASSUME Inv, Effect
    PROVE  Apart'
<1> PICK H, H2, M, M2, R, R2 :
      /\ H = [p \in Producer |-> Held(p)] /\ H2 = [p \in Producer |-> Held(p)']
      /\ M = InList /\ M2 = InList' /\ R = Retired /\ R2 = Retired'
  OBVIOUS
<1>1. /\ \A p, q \in Producer : \A s \in H[p] : s \in H[q] => p = q
      /\ \A p \in Producer : \A s \in H[p] : s \notin M /\ s \notin R /\ used[s] = 1
      /\ \A s \in M : s \notin R /\ used[s] = 1
      /\ \A s \in R : used[s] = 1
      /\ used \in [Slot -> {0, 1}] /\ head \in M
  BY OwnersAre DEF Inv, Apart, Types
<1>2. SUFFICES
        /\ \A p, q \in Producer : \A s \in H2[p] : s \in H2[q] => p = q
        /\ \A p \in Producer : \A s \in H2[p] : s \notin M2 /\ s \notin R2 /\ used'[s] = 1
        /\ \A s \in M2 : s \notin R2 /\ used'[s] = 1
        /\ \A s \in R2 : used'[s] = 1
  BY ApartIsAfter
<1>3. NoneOf => H2 = H
  BY DEF NoneOf
<1>4. \A p \in Producer : /\ H[p] = Held(p) /\ H2[p] = Held(p)'
                          /\ OnlyOf(p) => \A q \in Producer : q # p => H2[q] = H[q]
  BY DEF OnlyOf
<1>5. CASE Quiet
  <2>1. M2 = M /\ R2 = R /\ H2 = H /\ used' = used
    BY <1>3, <1>5, ListAfter DEF Quiet, InList
  <2>. QED
    BY <1>1, <2>1
<1>6. ASSUME NEW p \in Producer, ToTake(p)
      PROVE  /\ \A o, q \in Producer : \A s \in H2[o] : s \in H2[q] => o = q
             /\ \A q \in Producer : \A s \in H2[q] : s \notin M2 /\ s \notin R2 /\ used'[s] = 1
             /\ \A s \in M2 : s \notin R2 /\ used'[s] = 1
             /\ \A s \in R2 : used'[s] = 1
  <2>1. /\ M2 = M /\ R2 = R /\ H[p] = {} /\ H2[p] = {scan[p]}
        /\ \A q \in Producer : q # p => H2[q] = H[q]
        /\ used' = [used EXCEPT ![scan[p]] = 1] /\ used[scan[p]] = 0 /\ scan[p] \in Slot
    BY <1>4, <1>6, ListAfter DEF ToTake, InList
  <2>. QED
    BY <1>1, <2>1
<1>7. ASSUME NEW p \in Producer, ToFill(p)
      PROVE  M2 = M /\ R2 = R /\ H2 = H /\ used' = used
  BY <1>4, <1>7, ListAfter DEF ToFill, InList
<1>8. ASSUME NEW p \in Producer, ToLink(p)
      PROVE  /\ \A o, q \in Producer : \A s \in H2[o] : s \in H2[q] => o = q
             /\ \A q \in Producer : \A s \in H2[q] : s \notin M2 /\ s \notin R2 /\ used'[s] = 1
             /\ \A s \in M2 : s \notin R2 /\ used'[s] = 1
             /\ \A s \in R2 : used'[s] = 1
  <2> PICK n : n = enq[p].node
    OBVIOUS
  <2>1. /\ R2 = R /\ H[p] = {n} /\ H2[p] = {}
        /\ \A q \in Producer : q # p => H2[q] = H[q]
        /\ used' = used
    BY <1>4, <1>8 DEF ToLink
  <2>2. \A s \in M2 : s \in M \/ s = n \/ Linked(s)
    <3>1. CASE enq[p].t \in InList
      BY <1>8, <3>1, ListAfter
    <3>2. CASE enq[p].t \notin InList
      BY <1>8, <3>2, ListAfter DEF InList
    <3>. QED
      BY <3>1, <3>2
  <2>3. \A s : Linked(s) => /\ s \notin R /\ used[s] = 1
                            /\ \A q \in Producer : s \notin H[q]
    BY <1>4 DEF Linked
  <2>. QED
    BY <1>1, <1>8, <2>1, <2>2, <2>3
<1>9. CASE ToRetire
  <2>1. M2 = M \ {head} /\ R2 = R \cup {head} /\ H2 = H /\ used' = used
    BY <1>3, <1>9, ListAfter DEF ToRetire
  <2>. QED
    BY <1>1, <2>1
<1>10. CASE ToReset
  <2>1. M2 = M /\ R2 = R /\ H2 = H /\ used' = used
    BY <1>3, <1>10, ListAfter DEF ToReset, InList
  <2>. QED
    BY <1>1, <2>1
<1>11. CASE ToFree
  <2>1. /\ M2 = M /\ R2 = R \ {Retiring} /\ H2 = H /\ Retiring \in R
        /\ used' = [used EXCEPT ![Retiring] = 0]
    BY <1>3, <1>11, ListAfter DEF ToFree, InList
  <2>. QED
    BY <1>1, <2>1
<1>12. CASE \E p \in Producer : ToFill(p)
  BY <1>1, <1>7, <1>12
<1>. QED
  BY <1>5, <1>6, <1>8, <1>9, <1>10, <1>11, <1>12 DEF Effect

\* Filled and Linked in the next state.
LEMMA FilledIsAfter ==
    \A s : /\ Filled(s)' <=> /\ used'[s] = 1 /\ s \notin Retired'
                             /\ \A p \in Producer : s \notin Filling(p)'
           /\ Linked(s)' <=> /\ used'[s] = 1 /\ s \notin Retired'
                             /\ \A p \in Producer : s \notin Held(p)'
BY DEF Filled, Linked

\* What a step does to the links of the nodes that others may be reading.
LEMMA LinkInvStep ==
    ASSUME Inv, Effect
    PROVE  LinkInv'
<1>0. /\ next \in [Slot -> Node] /\ used \in [Slot -> {0, 1}] /\ head \in Slot
      /\ \A s \in Slot : s # UNDEFINED_NODE
  BY DEF Inv, Types, Slot, UNDEFINED_NODE
<1>1. \A s \in Slot : Filled(s) /\ next[s] # UNDEFINED_NODE =>
         /\ Linked(next[s]) /\ next[s] # head
         /\ \A r \in Slot : Filled(r) /\ next[r] = next[s] => r = s
  BY DEF Inv, LinkInv
<1>2. SUFFICES ASSUME NEW s \in Slot, NEW n, Filled(s)', next'[s] = n, n # UNDEFINED_NODE
               PROVE  /\ Linked(n)' /\ n # head'
                      /\ \A r \in Slot : Filled(r)' /\ next'[r] = n => r = s
  BY DEF LinkInv, Filled, Linked
<1>3. NoneOf => \A q \in Producer : Held(q)' = Held(q) /\ Filling(q)' = Filling(q)
  BY DEF NoneOf
<1>4. CASE Quiet
  <2>1. \A r : (Filled(r)' <=> Filled(r)) /\ (Linked(r)' <=> Linked(r))
    BY <1>3, <1>4, FilledIsAfter DEF Quiet, Filled, Linked
  <2>. QED
    BY <1>1, <1>2, <1>4, <2>1 DEF Quiet
<1>5. ASSUME NEW p \in Producer, ToTake(p)
      PROVE  /\ Linked(n)' /\ n # head'
             /\ \A r \in Slot : Filled(r)' /\ next'[r] = n => r = s
  <2> PICK c : c = scan[p]
    OBVIOUS
  <2>1. /\ used[c] = 0 /\ used' = [used EXCEPT ![c] = 1] /\ Retired' = Retired
        /\ next' = next /\ head' = head /\ c \in Slot
        /\ Filling(p)' = {c} /\ Held(p)' = {c} /\ Held(p) = {}
        /\ \A q \in Producer : q # p => Held(q)' = Held(q) /\ Filling(q)' = Filling(q)
    BY <1>5 DEF ToTake, OnlyOf
  <2>2. Filling(p) = {}
    BY <2>1, OwnersAre
  <2>3. \A r \in Slot : Filled(r)' => Filled(r)
    BY <1>0, <2>1, <2>2, FilledIsAfter DEF Filled
  <2>4. \A r \in Slot : Linked(r) => Linked(r)'
    BY <1>0, <2>1, FilledIsAfter DEF Linked
  <2>5. next[s] \in Slot
    BY <1>0, <1>2, <2>1 DEF Node
  <2>. QED
    BY <1>1, <1>2, <2>1, <2>3, <2>4, <2>5
<1>6. ASSUME NEW p \in Producer, ToFill(p)
      PROVE  /\ Linked(n)' /\ n # head'
             /\ \A r \in Slot : Filled(r)' /\ next'[r] = n => r = s
  <2> PICK m : m = enq[p].node
    OBVIOUS
  <2>1. /\ used' = used /\ Retired' = Retired /\ head' = head
        /\ m \in Slot /\ next' = [next EXCEPT ![m] = UNDEFINED_NODE]
        /\ Filling(p) = {m} /\ Filling(p)' = {} /\ Held(p)' = Held(p)
        /\ \A q \in Producer : q # p => Held(q)' = Held(q) /\ Filling(q)' = Filling(q)
    BY <1>6 DEF ToFill, OnlyOf
  <2>2. \A r \in Slot : Filled(r)' /\ r # m => Filled(r)
    BY <2>1, FilledIsAfter DEF Filled
  <2>3. \A r : Linked(r) => Linked(r)'
    BY <2>1, FilledIsAfter DEF Linked
  <2>4. s # m /\ \A r \in Slot : r # m => next'[r] = next[r]
    BY <1>0, <1>2, <2>1
  <2>5. next'[m] = UNDEFINED_NODE
    BY <1>0, <2>1
  <2>. QED
    BY <1>1, <1>2, <2>1, <2>2, <2>3, <2>4, <2>5
<1>7. ASSUME NEW p \in Producer, ToLink(p)
      PROVE  /\ Linked(n)' /\ n # head'
             /\ \A r \in Slot : Filled(r)' /\ next'[r] = n => r = s
  <2> PICK m, t : m = enq[p].node /\ t = enq[p].t
    OBVIOUS
  <2>1. /\ used' = used /\ Retired' = Retired /\ head' = head
        /\ m \in Slot /\ t \in Slot /\ next' = [next EXCEPT ![t] = m]
        /\ Filling(p)' = Filling(p) /\ Held(p) = {m} /\ Held(p)' = {}
        /\ \A q \in Producer : q # p => Held(q)' = Held(q) /\ Filling(q)' = Filling(q)
    BY <1>7 DEF ToLink, OnlyOf
  <2>2. \A r : Filled(r)' <=> Filled(r)
    <3>1. \A q \in Producer : Filling(q)' = Filling(q)
      BY <2>1
    <3>. QED
      BY <2>1, <3>1, FilledIsAfter DEF Filled
  <2>3. ~Linked(m) /\ m # head /\ Linked(m)'
    <3>1. /\ ~Linked(m) /\ m # head /\ used[m] = 1 /\ m \notin Retired
          /\ \A q \in Producer : q # p => m \notin Held(q)
      BY <2>1, OwnersAre DEF Inv, Apart
    <3>. QED
      BY <2>1, <3>1, FilledIsAfter
  <2>4. \A r : Linked(r) => Linked(r)'
    BY <2>1, FilledIsAfter DEF Linked
  <2>5. next'[t] = m /\ \A r \in Slot : r # t => next'[r] = next[r]
    BY <1>0, <2>1
  <2>6. \A r \in Slot : Filled(r) => next[r] # m
    BY <1>0, <1>1, <2>1, <2>3
  <2>7. CASE s = t
    BY <1>2, <2>1, <2>2, <2>3, <2>5, <2>6, <2>7
  <2>8. CASE s # t
    BY <1>1, <1>2, <2>1, <2>2, <2>4, <2>5, <2>6, <2>8
  <2>. QED
    BY <2>7, <2>8
<1>8. CASE ToRetire
  <2>1. /\ used' = used /\ Retired' = Retired \cup {head} /\ next' = next
        /\ head' = next[head] /\ next[head] \in Slot
    BY <1>8 DEF ToRetire
  <2>2. \A r : (Filled(r)' <=> Filled(r) /\ r # head) /\ (Linked(r)' <=> Linked(r) /\ r # head)
    BY <1>3, <1>8, <2>1, FilledIsAfter DEF ToRetire, Filled, Linked
  <2>3. Filled(head) /\ next[head] # UNDEFINED_NODE
    BY <1>0, <2>1, OwnersAre
  <2>. QED
    BY <1>0, <1>1, <1>2, <2>1, <2>2, <2>3
<1>9. CASE ToReset
  <2>1. \A r : (Filled(r)' <=> Filled(r)) /\ (Linked(r)' <=> Linked(r))
    BY <1>3, <1>9, FilledIsAfter DEF ToReset, Filled, Linked
  <2>2. ~Filled(Retiring) /\ head' = head /\ \A r \in Slot : r # Retiring => next'[r] = next[r]
    BY <1>0, <1>9, OwnersAre DEF ToReset
  <2>. QED
    BY <1>1, <1>2, <2>1, <2>2
<1>10. CASE ToFree
  <2> PICK r0 : r0 = Retiring
    OBVIOUS
  <2>1. /\ r0 \in Slot /\ r0 \in Retired /\ used' = [used EXCEPT ![r0] = 0]
        /\ Retired' = Retired \ {r0} /\ next' = next /\ head' = head
        /\ \A q \in Producer : Held(q)' = Held(q) /\ Filling(q)' = Filling(q)
    BY <1>3, <1>10 DEF ToFree
  <2>2. \A r \in Slot : (Filled(r)' <=> Filled(r)) /\ (Linked(r)' <=> Linked(r))
    BY <1>0, <2>1, FilledIsAfter DEF Filled, Linked
  <2>3. next[s] \in Slot
    BY <1>0, <1>2, <2>1 DEF Node
  <2>. QED
    BY <1>1, <1>2, <2>1, <2>2, <2>3
<1>. QED
  BY <1>4, <1>5, <1>6, <1>7, <1>8, <1>9, <1>10 DEF Effect

\* A node a producer still has to link holds its message.
LEMMA DataInvStep ==
    ASSUME Inv, Next
    PROVE  DataInv'
<1>0. /\ Types /\ data \in [Slot -> Message \cup {NoMessage}]
      /\ \A p \in Producer : enq[p].pc \in HasNode =>
            enq[p].node \in Slot /\ enq[p].node \in Held(p)
  BY TypedLocals, HeldIs DEF Inv, Types, LocalInv, EnqOk, Held, HasNode
<1>1. CASE Dequeue
  BY <1>1, ProducersStay DEF Inv, DataInv
<1>2. ASSUME NEW p \in Producer, Step(p) PROVE DataInv'
  <2>0. Moves(p) /\ (ReadNext(p) => enq[p].t \in Slot)
    BY <1>2, OthersStay DEF Inv, LocalInv, EnqOk, ReadNext, At, HasTail
  <2>1. CASE Fill(p)
    <3>1. /\ enq[p].node \in Slot /\ Held(p) = {enq[p].node}
          /\ data' = [data EXCEPT ![enq[p].node] = enq[p].msg]
          /\ enq'[p].node = enq[p].node /\ enq'[p].msg = enq[p].msg
      BY <1>0, <2>1, FillIs DEF Fill, At, Held, HasNode, Goes
    <3>2. ASSUME NEW q \in Producer, q # p, enq'[q].pc \in HasNode \ {"fill"}
          PROVE  data'[enq'[q].node] = enq'[q].msg
      <4>1. enq'[q] = enq[q] /\ enq[q].node \in Slot /\ enq[q].node # enq[p].node
        BY <1>0, <2>0, <3>1, <3>2 DEF Moves, Inv, Apart
      <4>2. data[enq[q].node] = enq[q].msg
        BY <3>2, <4>1 DEF Inv, DataInv
      <4>. QED
        BY <1>0, <3>1, <4>1, <4>2
    <3>3. data'[enq'[p].node] = enq'[p].msg
      BY <1>0, <3>1
    <3>. QED
      BY <3>2, <3>3 DEF DataInv
  <2>2. CASE ~Fill(p)
    <3>1. data' = data
      BY <1>2, <2>2 DEF Step, Enqueue, EnqueueCall, ScanTakes, ScanMisses, ReadTail,
         Protect, Recheck, ReadNext, Help, Link, Swing, listVars
    <3>2. enq'[p].pc \in HasNode \ {"fill"} =>
             /\ enq[p].pc \in HasNode \ {"fill"}
             /\ enq'[p].node = enq[p].node /\ enq'[p].msg = enq[p].msg
      <4>1. CASE \E m \in Sends[p] : EnqueueCall(p, m)
        BY <1>0, <4>1, CallIs DEF HasNode
      <4>2. CASE ScanTakes(p) \/ ScanMisses(p)
        BY <1>0, <4>2, ScanTakesIs, ScanMissesIs, IdleIs DEF HasNode
      <4>3. CASE ReadTail(p) \/ Protect(p)
        BY <1>0, <4>3, ReadTailIs, ProtectIs DEF HasNode, Goes
      <4>4. CASE Recheck(p)
        BY <1>0, <4>4, RecheckIs DEF HasNode, Goes
      <4>5. CASE ReadNext(p)
        BY <1>0, <2>0, <4>5, ReadNextIs DEF HasNode, Goes
      <4>6. CASE Help(p) \/ Swing(p)
        BY <1>0, <4>6, HelpIs, SwingIs, IdleIs DEF HasNode, Goes
      <4>7. CASE Link(p)
        BY <1>0, <4>7, LinkIs DEF HasNode, Goes
      <4>. QED
        BY <1>2, <2>2, <4>1, <4>2, <4>3, <4>4, <4>5, <4>6, <4>7 DEF Step, Enqueue
    <3>. QED
      BY <2>0, <3>1, <3>2 DEF Moves, Inv, DataInv
  <2>. QED
    BY <2>1, <2>2
<1>. QED
  BY <1>1, <1>2 DEF Next, Step

\* A producer's index names its t once it is protected.
LEMMA NamedInvStep ==
    ASSUME Inv, Next
    PROVE  NamedInv'
<1>0. /\ Types /\ sharedIdxs \in [User -> Node] /\ \A p \in Producer : p \in User
  BY ProducerAssumption DEF Inv, Types, User
<1>1. CASE Dequeue
  BY <1>1, ProducersStay DEF Inv, NamedInv
<1>2. ASSUME NEW p \in Producer, Step(p) PROVE NamedInv'
  <2>0. Moves(p) /\ (ReadNext(p) => enq[p].t \in Slot)
    BY <1>2, OthersStay DEF Inv, LocalInv, EnqOk, ReadNext, At, HasTail
  <2>1. \A q \in Producer : q # p => sharedIdxs'[q] = sharedIdxs[q]
    BY <1>0, <1>2 DEF Step, Enqueue, EnqueueCall, ScanTakes, ScanMisses, Fill, ReadTail,
       Protect, Recheck, ReadNext, Help, Link, Swing, listVars
  <2>2. ~Protect(p) => sharedIdxs' = sharedIdxs
    BY <1>2 DEF Step, Enqueue, EnqueueCall, ScanTakes, ScanMisses, Fill, ReadTail,
       Recheck, ReadNext, Help, Link, Swing, listVars
  <2>3. enq'[p].pc \in Named => sharedIdxs'[p] = enq'[p].t
    <3>1. CASE \E m \in Sends[p] : EnqueueCall(p, m)
      BY <1>0, <3>1, CallIs DEF Named, HasTail
    <3>2. CASE ScanTakes(p) \/ ScanMisses(p)
      BY <1>0, <3>2, ScanTakesIs, ScanMissesIs, IdleIs DEF Named, HasTail
    <3>3. CASE Fill(p) \/ ReadTail(p) \/ Help(p) \/ Swing(p)
      BY <1>0, <3>3, FillIs, ReadTailIs, HelpIs, SwingIs, IdleIs DEF Named, HasTail, Goes
    <3>4. CASE Protect(p)
      BY <1>0, <3>4, ProtectIs DEF Protect, Goes
    <3>5. CASE Recheck(p)
      <4>1. enq[p].pc = "recheck" /\ enq'[p].t = enq[p].t /\ sharedIdxs' = sharedIdxs
        BY <1>0, <3>5, RecheckIs DEF Goes, Recheck, listVars
      <4>. QED
        BY <4>1 DEF Named, HasTail, Inv, NamedInv
    <3>6. CASE ReadNext(p)
      <4>1. enq[p].pc = "readNext" /\ enq'[p].t = enq[p].t /\ sharedIdxs' = sharedIdxs
        BY <1>0, <2>0, <3>6, ReadNextIs DEF Goes, ReadNext, listVars
      <4>. QED
        BY <4>1 DEF Named, HasTail, Inv, NamedInv
    <3>7. CASE Link(p)
      <4>1. enq[p].pc = "link" /\ enq'[p].t = enq[p].t /\ sharedIdxs' = sharedIdxs
        BY <1>0, <3>7, LinkIs DEF Goes, Link
      <4>. QED
        BY <4>1 DEF Named, HasTail, Inv, NamedInv
    <3>. QED
      BY <1>2, <3>1, <3>2, <3>3, <3>4, <3>5, <3>6, <3>7 DEF Step, Enqueue
  <2>. QED
    BY <2>0, <2>1, <2>3 DEF Moves, Inv, NamedInv
<1>. QED
  BY <1>1, <1>2 DEF Next, Step

\* Which next a step changes.
LEMMA NextAfter ==
    ASSUME Inv
    PROVE  /\ \A p \in Producer : Step(p) => \A s \in Slot :
                 \/ next'[s] = next[s]
                 \/ Fill(p) /\ Held(p) = {s}
                 \/ Linking(p) /\ s = enq[p].t /\ next[s] = UNDEFINED_NODE
           /\ Dequeue => \A s \in Slot :
                 next'[s] = next[s] \/ (RetireReset /\ s = Retiring)
<1>0. next \in [Slot -> Node]
  BY DEF Inv, Types
<1>1. ASSUME NEW p \in Producer, Step(p), NEW s \in Slot
      PROVE  \/ next'[s] = next[s]
             \/ Fill(p) /\ Held(p) = {s}
             \/ Linking(p) /\ s = enq[p].t /\ next[s] = UNDEFINED_NODE
  BY <1>0, <1>1, ProducerEffectIs DEF ProducerEffect, Quiet, ToTake, ToFill, ToLink
<1>2. ASSUME Dequeue, NEW s \in Slot
      PROVE  next'[s] = next[s] \/ (RetireReset /\ s = Retiring)
  BY <1>0, <1>2, ConsumerEffectIs DEF ConsumerEffect, Quiet, ToRetire, ToReset, ToFree
<1>. QED
  BY <1>1, <1>2

\* The locals a producer needs at its new label are there.
LEMMA EnqOkStep ==
    ASSUME Inv, NEW p \in Producer, Step(p)
    PROVE  EnqOk(enq'[p])
<1>0. /\ Types /\ tail \in Slot /\ scan[p] \in Slot /\ next \in [Slot -> Node]
      /\ enq[p].pc \in HasNode \cup {"swing"} => enq[p].node \in Slot
      /\ enq[p].pc \in HasTail => enq[p].t \in Slot
      /\ enq[p].msg \in Message <=> enq[p].pc # "idle"
      /\ NoMessage \notin Message
  BY MessageAssumption DEF Inv, LocalInv, EnqOk, Types
<1>1. CASE \E m \in Sends[p] : EnqueueCall(p, m)
  BY <1>0, <1>1, CallIs DEF EnqOk, HasNode, HasTail
<1>2. CASE ScanTakes(p)
  BY <1>0, <1>2, ScanTakesIs DEF EnqOk, HasNode, HasTail
<1>3. CASE ScanMisses(p)
  BY <1>0, <1>3, ScanMissesIs, IdleIs DEF EnqOk, HasNode, HasTail
<1>4. CASE Fill(p)
  BY <1>0, <1>4, FillIs DEF EnqOk, HasNode, HasTail, Goes
<1>5. CASE ReadTail(p)
  BY <1>0, <1>5, ReadTailIs DEF EnqOk, HasNode, HasTail
<1>6. CASE Protect(p)
  BY <1>0, <1>6, ProtectIs DEF EnqOk, HasNode, HasTail, Goes
<1>7. CASE Recheck(p)
  BY <1>0, <1>7, RecheckIs DEF EnqOk, HasNode, HasTail, Goes
<1>8. CASE ReadNext(p)
  <2>1. enq[p].t \in Slot
    BY <1>0, <1>8 DEF ReadNext, At, HasTail
  <2>2. enq'[p].pc = "help" => enq'[p].t_next \in Slot
    BY <1>0, <1>8, <2>1, ReadNextIs DEF Node
  <2>. QED
    BY <1>0, <1>8, <2>1, <2>2, ReadNextIs DEF EnqOk, HasNode, HasTail, Goes
<1>9. CASE Help(p)
  BY <1>0, <1>9, HelpIs DEF EnqOk, HasNode, HasTail, Goes
<1>10. CASE Link(p)
  BY <1>0, <1>10, LinkIs DEF EnqOk, HasNode, HasTail, Goes
<1>11. CASE Swing(p)
  BY <1>0, <1>11, SwingIs, IdleIs DEF EnqOk, HasNode, HasTail
<1>. QED
  BY <1>1, <1>2, <1>3, <1>4, <1>5, <1>6, <1>7, <1>8, <1>9, <1>10, <1>11
     DEF Step, Enqueue

\* The same of every producer and of the consumer.
LEMMA LocalInvStep ==
    ASSUME Inv, Next
    PROVE  LocalInv'
<1>0. /\ Types /\ DeqOk /\ Effect /\ RetireInv
      /\ deq.i \in Nat \ {0} /\ Len(deq.TmpList) \in Nat
      /\ \A p \in Producer : EnqOk(enq[p])
  BY EffectIs, TypedLocals, LenProperties DEF Inv, LocalInv
<1>1. ASSUME NEW p \in Producer, Step(p) PROVE LocalInv'
  <2>1. /\ deq' = deq /\ head' = head /\ Moves(p) /\ ProducerEffect(p)
    BY <1>1, OthersStay, ProducerEffectIs
  <2>2. deq.pc = "take" => next'[head] = next[head]
    <3> SUFFICES ASSUME deq.pc = "take" PROVE next'[head] = next[head]
      OBVIOUS
    <3>1. next[head] # UNDEFINED_NODE /\ head \in InList /\ head \in Slot
      BY <1>0, OwnersAre DEF DeqOk, Slot, UNDEFINED_NODE
    <3>2. \A q \in Producer : head \notin Held(q)
      BY <3>1 DEF Inv, Apart
    <3>3. next \in [Slot -> Node]
      BY <1>0 DEF Types
    <3>. QED
      BY <2>1, <3>1, <3>2, <3>3 DEF ProducerEffect, Quiet, ToTake, ToFill, ToLink
  <2>3. DeqOk'
    BY <1>0, <2>1, <2>2 DEF DeqOk
  <2>4. \A q \in Producer : EnqOk(enq'[q])
    BY <1>0, <1>1, <2>1, EnqOkStep DEF Moves
  <2>. QED
    BY <2>3, <2>4 DEF LocalInv, EnqOk
<1>2. CASE Dequeue
  <2> SUFFICES DeqOk'
    BY <1>0, <1>2, ProducersStay DEF LocalInv, EnqOk
  <2>1. CASE DequeueEmpty
    BY <1>0, <2>1 DEF DequeueEmpty, DeqOk, listVars
  <2>2. CASE DequeueBegin
    <3>1. Len(<<>>) = 0
      OBVIOUS
    <3>. QED
      BY <1>0, <2>2, <3>1, BeginIs DEF DequeueBegin, DeqOk, listVars
  <2>3. CASE DequeueTake
    <3>1. deq.h_idx \in Slot /\ deq.i = 1
      BY <1>0, <2>3 DEF DequeueTake, DeqOk, Types
    <3>2. deq'.pc = "retire" /\ deq'.i = 1 /\ deq'.TmpList = Append(RList, deq.h_idx)
      BY <1>0, <2>3, <3>1, TakeIs
    <3>3. Len(deq'.TmpList) \in Nat
      BY <1>0, <3>1, <3>2, AppendProperties, LenProperties DEF Types
    <3>. QED
      BY <3>2, <3>3 DEF DeqOk
  <2>4. CASE RetireKeep \/ RetireFree
    <3>1. deq.i <= Len(deq.TmpList) /\ deq' = NextRetired
      BY <1>0, <2>4 DEF RetireKeep, RetireFree, DeqOk
    <3>2. deq'.pc = "retire" /\ deq'.i = deq.i + 1 /\ deq'.TmpList = deq.TmpList
      BY <1>0, <3>1, NextRetiredIs
    <3>. QED
      BY <1>0, <3>1, <3>2 DEF DeqOk
  <2>5. CASE RetirePass
    BY <1>0, <2>5, RetirePassIs DEF DeqOk
  <2>6. CASE RetireReset
    <3>1. deq.i <= Len(deq.TmpList)
      BY <2>6 DEF RetireReset
    <3>. QED
      BY <1>0, <2>6, <3>1, RetireResetIs DEF DeqOk
  <2>7. CASE DequeueReturn
    <3>1. Len(<<>>) = 0
      OBVIOUS
    <3>. QED
      BY <1>0, <2>7, <3>1, IdleIs DEF DequeueReturn, DeqOk
  <2>. QED
    BY <1>2, <2>1, <2>2, <2>3, <2>4, <2>5, <2>6, <2>7 DEF Dequeue
<1>. QED
  BY <1>1, <1>2 DEF Next, Step

\* Where the consumer is at the steps that are not quiet.
LEMMA ConsumerAt ==
    /\ DequeueTake => deq.pc = "take"
    /\ RetireReset => deq.pc = "retire" /\ deq.i <= Len(deq.TmpList) /\ deq.k = MaxUser
    /\ RetireFree => deq.pc = "free"
    /\ DequeueBegin => deq.pc = "idle"
    /\ DequeueReturn => deq.pc = "retire" /\ deq.i > Len(deq.TmpList)
BY DEF DequeueTake, RetireReset, RetireFree, DequeueBegin, DequeueReturn

\* The retire lists.
LEMMA RetireInvStep ==
    ASSUME Inv, Next
    PROVE  RetireInv'
<1>0. /\ Types /\ DeqOk /\ Effect /\ RetireInv /\ RList \in Seq(Slot)
      /\ deq.TmpList \in Seq(Slot) /\ head \in Slot
      /\ Distinct(RList) /\ Distinct(deq.TmpList) /\ head \notin Range(deq.TmpList)
      /\ Range(RList) \cap Left = {}
      /\ Range(RList) \subseteq Retired
      /\ Retired \subseteq Slot /\ head \notin Retired
      /\ \A s \in Retired :
            (deq.pc = "free" /\ s = Retiring) \/ next[s] # UNDEFINED_NODE
  BY EffectIs, TypedLocals, RetiredIs, OwnersAre DEF Inv, LocalInv, Types, RetireInv, Apart
<1>1. Distinct(<<>>) /\ Range(<<>>) = {}
  BY DEF Distinct, Range
<1>2. CASE \E p \in Producer : Step(p)
  <2> PICK p \in Producer : Step(p)
    BY <1>2
  <2>1. /\ deq' = deq /\ RList' = RList /\ head' = head /\ Left' = Left
        /\ Retired' = Retired /\ ProducerEffect(p)
    BY OthersStay, ProducerEffectIs
  <2>2. \A s \in Retired : next[s] # UNDEFINED_NODE => next'[s] # UNDEFINED_NODE
    <3>1. next \in [Slot -> Node] /\ \A s \in Retired : s \notin Held(p)
      BY <1>0 DEF Types, Inv, Apart
    <3>2. \A s \in Slot : s # UNDEFINED_NODE
      BY DEF Slot, UNDEFINED_NODE
    <3>. QED
      BY <1>0, <2>1, <3>1, <3>2 DEF ProducerEffect, Quiet, ToTake, ToFill, ToLink
  <2>3. Retiring' = Retiring
    BY <2>1 DEF Retiring
  <2>. QED
    BY <1>0, <2>1, <2>2, <2>3 DEF RetireInv
<1>3. CASE DequeueEmpty
  BY <1>0, <1>3 DEF DequeueEmpty, listVars, RetireInv, Left, Retired, Retiring
<1>4. CASE DequeueBegin \/ DequeueReturn
  <2>1. /\ deq'.TmpList = <<>> /\ deq'.i = 1 /\ RList' = RList /\ next' = next
        /\ Retired' = Retired /\ deq.pc # "free"
    <3>1. /\ deq'.TmpList = <<>> /\ deq'.i = 1 /\ RList' = RList /\ next' = next
          /\ deq.pc \in {"idle", "retire"}
      BY <1>0, <1>4, BeginIs, IdleIs DEF DequeueBegin, DequeueReturn, listVars
    <3>2. ConsumerEffect
      BY <1>4, ConsumerEffectIs DEF Dequeue
    <3>3. ~DequeueTake /\ ~RetireFree /\ (RetireReset => ~DequeueReturn /\ ~DequeueBegin)
      <4>1. Len(deq.TmpList) \in Nat /\ deq.i \in Nat
        BY <1>0, TypedLocals, LenProperties
      <4>. QED
        BY <1>4, <4>1, ConsumerAt
    <3>. QED
      BY <1>4, <3>1, <3>2, <3>3 DEF ConsumerEffect, Quiet
  <2>2. Left' = {}
    BY <2>1, RetiredIsAfter
  <2>. QED
    BY <1>0, <1>1, <2>1, <2>2 DEF RetireInv
<1>5. CASE DequeueTake
  <2>1. deq.pc = "take" /\ deq.h_idx = head /\ next[head] \in Slot /\ ToRetire
    <3>1. ConsumerEffect
      BY <1>5, ConsumerEffectIs DEF Dequeue
    <3>2. deq.pc = "take"
      BY <1>5 DEF DequeueTake
    <3>3. ~RetireReset /\ ~RetireFree
      BY <3>2, ConsumerAt
    <3>. QED
      BY <1>0, <1>5, <3>1, <3>2, <3>3 DEF ConsumerEffect, DeqOk
  <2>2. RList' = <<>> /\ deq'.TmpList = Append(RList, head) /\ deq'.pc = "retire"
    BY <1>0, <1>5, <2>1, TakeIs DEF DequeueTake
  <2>3. /\ Distinct(deq'.TmpList) /\ Range(deq'.TmpList) = Range(RList) \cup {head}
    BY <1>0, <2>2, RangeOfAppend
  <2>4. head' \in InList /\ head' # head
    <3>1. next[head] # UNDEFINED_NODE
      BY <2>1 DEF Slot, UNDEFINED_NODE
    <3>2. IsList(List, head, next) /\ head \in Range(List)
      BY OwnersAre DEF Inv, ListInv, InList
    <3>. QED
      BY <2>1, <3>1, <3>2, ListIs DEF InList, ToRetire
  <2>5. head' \notin Range(deq'.TmpList)
    BY <1>0, <2>3, <2>4 DEF Inv, Apart
  <2>6. \A s \in Retired' : next'[s] # UNDEFINED_NODE
    BY <1>0, <2>1 DEF ToRetire, Slot, UNDEFINED_NODE
  <2>. QED
    BY <1>1, <2>2, <2>3, <2>5, <2>6 DEF RetireInv
<1>6. ASSUME deq' = NextRetired, deq.i <= Len(deq.TmpList)
      PROVE  /\ Left' = Left \ {Retiring} /\ deq'.pc = "retire" /\ deq'.TmpList = deq.TmpList
             /\ Retiring \in Slot /\ Retiring \in Left
  <2>1. deq'.TmpList = deq.TmpList /\ deq'.i = deq.i + 1 /\ deq'.pc = "retire"
    BY <1>0, <1>6, NextRetiredIs
  <2>2. Left' = {deq.TmpList[j] : j \in deq.i + 1 .. Len(deq.TmpList)}
    BY <2>1, RetiredIsAfter
  <2>. QED
    BY <1>0, <1>6, <2>1, <2>2, RetiringIs
<1>7. CASE RetireKeep
  <2>1. /\ deq.i <= Len(deq.TmpList) /\ deq' = NextRetired /\ deq.pc = "retire"
        /\ RList' = Append(RList, Retiring) /\ next' = next /\ head' = head
    BY <1>7 DEF RetireKeep, listVars
  <2>2. /\ Distinct(RList') /\ Range(RList') = Range(RList) \cup {Retiring}
    BY <1>0, <1>6, <2>1, RangeOfAppend
  <2>3. Retired' \subseteq Retired
    BY <1>6, <2>1, <2>2, RetiredIs, RetiredIsAfter
  <2>. QED
    BY <1>0, <1>6, <2>1, <2>2, <2>3 DEF RetireInv
<1>8. CASE RetirePass
  <2>1. /\ deq'.pc = "retire" /\ deq.pc = "retire"
        /\ deq'.TmpList = deq.TmpList /\ deq'.i = deq.i
        /\ RList' = RList /\ next' = next /\ head' = head
    BY <1>0, <1>8, RetirePassIs DEF RetirePass, listVars
  <2>2. Left' = Left /\ Retired' = Retired
    BY <2>1 DEF Left, Retired
  <2>. QED
    BY <1>0, <2>1, <2>2 DEF RetireInv
<1>9. CASE RetireReset
  <2>1. /\ deq'.pc = "free" /\ deq.pc = "retire"
        /\ deq'.TmpList = deq.TmpList /\ deq'.i = deq.i
        /\ RList' = RList /\ head' = head
        /\ next' = [next EXCEPT ![Retiring] = UNDEFINED_NODE]
    BY <1>0, <1>9, RetireResetIs DEF RetireReset
  <2>2. Left' = Left /\ Retired' = Retired /\ Retiring' = Retiring
    BY <2>1 DEF Left, Retired, Retiring
  <2>3. \A s \in Retired : s = Retiring \/ next'[s] # UNDEFINED_NODE
    BY <1>0, <2>1 DEF Types
  <2>. QED
    BY <1>0, <2>1, <2>2, <2>3 DEF RetireInv
<1>10. CASE RetireFree
  <2>1. /\ deq.i <= Len(deq.TmpList) /\ deq' = NextRetired /\ deq.pc = "free"
        /\ RList' = RList /\ next' = next /\ head' = head
    BY <1>0, <1>10 DEF RetireFree, DeqOk
  <2>2. Retired' = Retired \ {Retiring}
    BY <1>0, <1>6, <2>1, RetiredIs, RetiredIsAfter
  <2>. QED
    BY <1>0, <1>6, <2>1, <2>2 DEF RetireInv
<1>. QED
  BY <1>2, <1>3, <1>4, <1>5, <1>7, <1>8, <1>9, <1>10 DEF Next, Dequeue, Step

\* A node that is named, not past the scan, and last, is in the list.
LEMMA KeptIsLast ==
    ASSUME Inv, Orderly, NEW p \in Producer, NEW s \in Slot, Kept(s, p),
           next[s] = UNDEFINED_NODE
    PROVE  s \in InList
<1>1. /\ used[s] = 1 /\ ~Passed(s, p) /\ \A q \in Producer : s \notin Held(q)
  BY DEF Kept
<1>2. s \notin Retired
  BY <1>1 DEF Inv, RetireInv, Passed
<1>. QED
  BY <1>1, <1>2 DEF Orderly, NoneLost

\* What a producer protects while it works on the node of tail.
LEMMA SafeIs ==
    ASSUME Inv, Orderly, NEW p \in Producer, enq[p].pc \in Safe
    PROVE  /\ enq[p].t \in Slot /\ Kept(enq[p].t, p) /\ sharedIdxs[p] = enq[p].t
           /\ \A q \in Producer : enq[p].t \notin Held(q)
BY DEF Inv, LocalInv, EnqOk, HasTail, Named, Safe, Orderly, HazardInv, NamedInv, Kept, HazardOk

\* The compare-and-swap that links a node finds the last node of the list, and the
\* new node has no successor.
LEMMA LinkIsLast ==
    ASSUME Inv, Orderly, NEW p \in Producer, Linking(p), ToLink(p)
    PROVE  /\ enq[p].t \in InList
           /\ next[enq[p].node] = UNDEFINED_NODE
           /\ data[enq[p].node] = enq[p].msg
           /\ List' = Append(List, enq[p].node)
           /\ InList' = InList \cup {enq[p].node}
<1> PICK n : n = enq[p].node
  OBVIOUS
<1>1. enq[p].pc = "link" /\ n \in Slot /\ next[enq[p].t] = UNDEFINED_NODE
  BY DEF Linking, Link, At, ToLink
<1>2. enq[p].t \in InList
  BY <1>1, SafeIs, KeptIsLast DEF Safe, Named, HasTail
<1>3. next[n] = UNDEFINED_NODE /\ data[n] = enq[p].msg
  BY <1>1 DEF Orderly, NewInv, Inv, DataInv, HasNode
<1>4. PICK P : IsList(P, n, next) /\ List' = List \o P /\ InList' = InList \cup Range(P)
  BY <1>2, ListAfter DEF Effect
<1>5. IsList(<<n>>, n, next)
  BY <1>1, <1>3 DEF IsList
<1>6. P = <<n>>
  BY <1>4, <1>5, WalkIs
<1>7. Range(<<n>>) = {n}
  BY DEF Range
<1>8. List \o <<n>> = Append(List, n)
  <2>1. List \in Seq(Slot)
    BY DEF Inv, ListInv, IsList
  <2>. QED
    BY <1>1, <2>1
<1>. QED
  BY <1>2, <1>3, <1>4, <1>6, <1>7, <1>8

\* The list only grows at its end and shrinks at its head.
LEMMA InListAfter ==
    ASSUME Inv, Orderly, Next
    PROVE  /\ \A p \in Producer : Step(p) =>
                 InList' = IF Linking(p) THEN InList \cup {enq[p].node} ELSE InList
           /\ Dequeue => InList' = IF DequeueTake THEN InList \ {head} ELSE InList
           /\ DequeueTake => ToRetire
<1>1. ASSUME NEW p \in Producer, Step(p)
      PROVE  InList' = IF Linking(p) THEN InList \cup {enq[p].node} ELSE InList
  <2>1. ProducerEffect(p) /\ Effect
    BY <1>1, ProducerEffectIs, EffectIs
  <2>2. CASE Linking(p)
    <3>1. ToLink(p)
      <4>1. enq[p].pc = "link"
        BY <2>2 DEF Linking, Link, At
      <4>2. ~ScanTakes(p) /\ ~Fill(p)
        BY <4>1 DEF ScanTakes, Fill, At
      <4>. QED
        BY <2>1, <2>2, <4>2 DEF ProducerEffect
    <3>. QED
      BY <2>2, <3>1, LinkIsLast
  <2>3. CASE ~Linking(p)
    BY <2>1, <2>3, ListAfter DEF ProducerEffect, InList
  <2>. QED
    BY <2>2, <2>3
<1>2. ASSUME Dequeue
      PROVE  /\ InList' = IF DequeueTake THEN InList \ {head} ELSE InList
             /\ DequeueTake => ToRetire
  <2>1. ConsumerEffect /\ Effect
    BY <1>2, ConsumerEffectIs, EffectIs
  <2>2. DequeueTake => ~RetireReset /\ ~RetireFree
    BY ConsumerAt
  <2>3. CASE DequeueTake
    BY <2>1, <2>2, <2>3, ListAfter DEF ConsumerEffect
  <2>4. CASE ~DequeueTake
    BY <2>1, <2>4, ListAfter DEF ConsumerEffect, InList
  <2>. QED
    BY <2>3, <2>4
<1>. QED
  BY <1>1, <1>2 DEF Dequeue

\* Until a dequeue overtakes it, tail stays in the list and off a node that is taken.
LEMMA TailInvStep ==
    ASSUME Inv, Next, Orderly, ~overtaken'
    PROVE  TailInv'
<1>0. /\ tail \in InList /\ (deq.pc = "take" => tail # head)
      /\ IsList(List, head, next) /\ Types
  BY DEF Orderly, TailInv, Inv, ListInv
<1>1. ASSUME NEW p \in Producer, Step(p) PROVE TailInv'
  <2>1. deq' = deq /\ head' = head /\ InList \subseteq InList'
    BY <1>1, OthersStay, InListAfter
  <2>2. tail' = tail \/ (tail' = next[tail] /\ next[tail] # UNDEFINED_NODE)
    <3>1. CASE Help(p)
      <4>1. enq[p].pc = "help" /\ (tail' = tail \/ (tail = enq[p].t /\ tail' = enq[p].t_next))
        BY <3>1 DEF Help, At
      <4>2. next[enq[p].t] = enq[p].t_next /\ enq[p].t_next \in Slot
        BY <4>1 DEF Orderly, HazardInv, HazardOk, Inv, LocalInv, EnqOk
      <4>. QED
        BY <4>1, <4>2 DEF Slot, UNDEFINED_NODE
    <3>2. CASE Swing(p)
      <4>1. enq[p].pc = "swing" /\ (tail' = tail \/ (tail = enq[p].t /\ tail' = enq[p].node))
        BY <3>2 DEF Swing, At
      <4>2. next[enq[p].t] = enq[p].node /\ enq[p].node \in Slot
        BY <4>1 DEF Orderly, HazardInv, HazardOk, Inv, LocalInv, EnqOk
      <4>. QED
        BY <4>1, <4>2 DEF Slot, UNDEFINED_NODE
    <3>3. CASE ~Help(p) /\ ~Swing(p)
      BY <1>1, <3>3 DEF Step, Enqueue, EnqueueCall, ScanTakes, ScanMisses, Fill, ReadTail,
         Protect, Recheck, ReadNext, Link, listVars
    <3>. QED
      BY <3>1, <3>2, <3>3
  <2>3. tail' \in InList /\ (tail # head => tail' # head)
    BY <1>0, <2>2, ListIs DEF InList
  <2>. QED
    BY <1>0, <2>1, <2>3 DEF TailInv
<1>2. CASE Dequeue
  <2>0. tail' = tail
    BY <1>2, ProducersStay
  <2>1. CASE DequeueTake
    <3>1. deq.pc = "take" /\ deq.h_idx \in Slot
      BY <1>0, <2>1 DEF DequeueTake, Inv, LocalInv, DeqOk, Types
    <3>2. InList' = InList \ {head} /\ deq'.pc = "retire"
      BY <1>0, <1>2, <2>1, <3>1, InListAfter, TakeIs
    <3>. QED
      BY <1>0, <2>0, <3>1, <3>2 DEF TailInv
  <2>2. CASE DequeueBegin
    <3>1. ~DequeueTake /\ head' = head /\ tail # head
      BY <2>2 DEF DequeueBegin, DequeueTake, listVars
    <3>. QED
      BY <1>0, <1>2, <2>0, <3>1, InListAfter DEF TailInv
  <2>3. CASE ~DequeueTake /\ ~DequeueBegin
    <3>1. InList' = InList /\ head' = head
      BY <1>2, <2>3, InListAfter
         DEF Dequeue, DequeueEmpty, RetireKeep, RetirePass, RetireReset, RetireFree,
             DequeueReturn, listVars
    <3>2. deq'.pc # "take" \/ deq' = deq
      BY <1>0, <1>2, <2>3, NextRetiredIs, RetirePassIs, RetireResetIs, IdleIs
         DEF Dequeue, DequeueEmpty, RetireKeep, RetireFree, DequeueReturn
    <3>. QED
      BY <1>0, <2>0, <3>1, <3>2 DEF TailInv
  <2>. QED
    BY <2>1, <2>2, <2>3
<1>. QED
  BY <1>1, <1>2 DEF Next, Step

\* No slot in use is without an owner.
LEMMA NoneLostStep ==
    ASSUME Inv, Next, Orderly
    PROVE  NoneLost'
<1>0. /\ used \in [Slot -> {0, 1}]
      /\ \A s \in Slot : used[s] = 1 =>
            s \in InList \/ s \in Retired \/ \E p \in Producer : s \in Held(p)
  BY DEF Inv, Types, Orderly, NoneLost
<1>1. SUFFICES ASSUME NEW s \in Slot, used'[s] = 1
               PROVE  s \in InList' \/ s \in Retired' \/ \E p \in Producer : s \in Held(p)'
  BY DEF NoneLost
<1>2. ASSUME NEW p \in Producer, Step(p)
      PROVE  s \in InList' \/ s \in Retired' \/ \E q \in Producer : s \in Held(q)'
  <2>1. /\ ProducerEffect(p) /\ Retired' = Retired
        /\ InList' = IF Linking(p) THEN InList \cup {enq[p].node} ELSE InList
    BY <1>2, ProducerEffectIs, OthersStay, InListAfter
  <2>2. CASE Quiet /\ ~Linking(p)
    BY <1>0, <1>1, <2>1, <2>2 DEF Quiet, NoneOf
  <2>3. CASE ToTake(p) /\ ScanTakes(p)
    <3>1. ~Linking(p)
      BY <2>3 DEF ScanTakes, Linking, Link, At
    <3>. QED
      BY <1>0, <1>1, <2>1, <2>3, <3>1 DEF ToTake, OnlyOf
  <2>4. CASE ToFill(p) /\ Fill(p)
    <3>1. ~Linking(p)
      BY <2>4 DEF Fill, Linking, Link, At
    <3>. QED
      BY <1>0, <1>1, <2>1, <2>4, <3>1 DEF ToFill, OnlyOf
  <2>5. CASE ToLink(p) /\ Linking(p)
    BY <1>0, <1>1, <2>1, <2>5 DEF ToLink, OnlyOf
  <2>. QED
    BY <2>1, <2>2, <2>3, <2>4, <2>5 DEF ProducerEffect
<1>3. CASE Dequeue
  <2>1. /\ ConsumerEffect /\ \A q \in Producer : Held(q)' = Held(q)
        /\ InList' = IF DequeueTake THEN InList \ {head} ELSE InList
    BY <1>3, ConsumerEffectIs, ProducersStay, InListAfter
  <2>2. RetireReset \/ RetireFree => ~DequeueTake
    BY ConsumerAt
  <2>3. CASE ~DequeueTake
    BY <1>0, <1>1, <2>1, <2>3 DEF ConsumerEffect, Quiet, ToReset, ToFree
  <2>4. CASE DequeueTake
    BY <1>0, <1>1, <2>1, <2>2, <2>4 DEF ConsumerEffect, ToRetire
  <2>. QED
    BY <2>3, <2>4
<1>. QED
  BY <1>2, <1>3 DEF Next, Step

\* A new node has no successor until it is linked.
LEMMA NewInvStep ==
    ASSUME Inv, Next, Orderly
    PROVE  NewInv'
<1>0. /\ Types /\ next \in [Slot -> Node]
      /\ \A p \in Producer : enq[p].pc \in HasNode =>
            /\ enq[p].node \in Slot /\ enq[p].node \in Held(p)
            /\ enq[p].node \notin Retired /\ enq[p].node \notin InList
      /\ \A p \in Producer : enq[p].pc \in HasNode \ {"fill"} =>
            next[enq[p].node] = UNDEFINED_NODE
  <2>1. \A p \in Producer : enq[p].pc \in HasNode => enq[p].node \in Held(p)
    BY DEF Held, HasNode
  <2>. QED
    BY <2>1 DEF Inv, Types, LocalInv, EnqOk, Apart, Orderly, NewInv
<1>1. CASE Dequeue
  <2>1. RetireReset => Retiring \in Retired
    BY <1>0, ConsumerAt, RetiringIs DEF Inv
  <2>. QED
    BY <1>0, <1>1, <2>1, NextAfter, ProducersStay DEF NewInv
<1>2. ASSUME NEW p \in Producer, Step(p) PROVE NewInv'
  <2>1. Moves(p) /\ ProducerEffect(p)
    BY <1>2, OthersStay, ProducerEffectIs
  <2>2. Linking(p) => enq[p].t \in InList /\ enq[p].pc = "link"
    <3> SUFFICES ASSUME Linking(p) PROVE enq[p].t \in InList /\ enq[p].pc = "link"
      OBVIOUS
    <3>1. enq[p].pc = "link" /\ next[enq[p].t] = UNDEFINED_NODE
      BY DEF Linking, Link, At
    <3>. QED
      BY <3>1, SafeIs, KeptIsLast DEF Safe, Named, HasTail
  <2>3. ASSUME NEW q \in Producer, q # p, enq'[q].pc \in HasNode \ {"fill"}
        PROVE  next'[enq'[q].node] = UNDEFINED_NODE
    <3>1. enq'[q] = enq[q] /\ enq[q].node \notin Held(p)
      BY <1>0, <2>1, <2>3 DEF Moves, Inv, Apart
    <3>2. enq[q].node \in Slot /\ enq[q].node \notin InList
      BY <1>0, <2>3, <3>1
    <3>. QED
      BY <1>0, <1>2, <2>2, <2>3, <3>1, <3>2, NextAfter
  <2>4. ASSUME enq'[p].pc \in HasNode \ {"fill"}
        PROVE  next'[enq'[p].node] = UNDEFINED_NODE
    <3>1. CASE Fill(p)
      <4>1. enq'[p].node = enq[p].node /\ enq[p].node \in Slot
        BY <1>0, <3>1, FillIs DEF Goes, HasNode
      <4>. QED
        BY <1>0, <3>1, <4>1 DEF Fill
    <3>2. CASE ~Fill(p)
      <4>1. /\ enq[p].pc \in HasNode \ {"fill"} /\ enq'[p].node = enq[p].node
            /\ ~Linking(p)
        <5>0. ReadNext(p) => enq[p].t \in Slot
          BY DEF Inv, LocalInv, EnqOk, ReadNext, At, HasTail
        <5>1. CASE \E m \in Sends[p] : EnqueueCall(p, m)
          BY <1>0, <2>4, <5>1, CallIs DEF HasNode
        <5>2. CASE ScanTakes(p) \/ ScanMisses(p) \/ Swing(p)
          BY <1>0, <2>4, <5>2, ScanTakesIs, ScanMissesIs, SwingIs, IdleIs DEF HasNode
        <5>3. CASE ReadTail(p) \/ Protect(p) \/ Recheck(p)
          BY <1>0, <5>3, ReadTailIs, ProtectIs, RecheckIs
             DEF HasNode, Goes, Linking, Link, At
        <5>4. CASE ReadNext(p) \/ Help(p)
          BY <1>0, <5>0, <5>4, ReadNextIs, HelpIs DEF HasNode, Goes, Linking, Link, At
        <5>5. CASE Link(p)
          BY <1>0, <2>4, <5>5, LinkIs DEF HasNode, Goes, Linking
        <5>. QED
          BY <1>2, <3>2, <5>1, <5>2, <5>3, <5>4, <5>5 DEF Step, Enqueue
      <4>2. next'[enq[p].node] = next[enq[p].node]
        BY <1>0, <1>2, <3>2, <4>1, NextAfter
      <4>. QED
        BY <1>0, <4>1, <4>2
    <3>. QED
      BY <3>1, <3>2
  <2>. QED
    BY <2>3, <2>4 DEF NewInv
<1>. QED
  BY <1>1, <1>2 DEF Next, Step

\* The scan does not pass an index that names the node it is at.
LEMMA PassedAfter ==
    ASSUME Inv, Next, NEW p \in Producer, NEW s \in Slot, sharedIdxs[p] = s, ~Passed(s, p)
    PROVE  ~Passed(s, p)'
<1>0. /\ Types /\ p \in 0 .. MaxUser - 1 /\ deq.k \in 0 .. MaxUser /\ DeqOk
      /\ deq.i \in Nat /\ Len(deq.TmpList) \in Nat
  BY ProducerAssumption, TypedLocals, LenProperties DEF Inv, LocalInv
<1>1. ASSUME deq' = deq PROVE ~Passed(s, p)'
  BY <1>1 DEF Passed, Retiring
<1>2. CASE \E q \in Producer : Step(q)
  BY <1>1, <1>2, OthersStay
<1>3. CASE DequeueEmpty
  BY <1>1, <1>3 DEF DequeueEmpty
<1>4. CASE DequeueBegin
  BY <1>0, <1>4, BeginIs DEF Passed
<1>5. CASE DequeueTake
  <2>1. deq.h_idx \in Slot /\ deq.k = 0
    BY <1>0, <1>5 DEF DequeueTake, DeqOk, Types
  <2>2. deq'.pc = "retire" /\ deq'.k = 0
    BY <1>0, <1>5, <2>1, TakeIs
  <2>. QED
    BY <1>0, <2>2 DEF Passed
<1>6. CASE RetireKeep \/ RetireFree
  <2>1. deq'.pc = "retire" /\ deq'.k = 0
    BY <1>0, <1>6, NextRetiredIs DEF RetireKeep, RetireFree
  <2>. QED
    BY <1>0, <2>1 DEF Passed
<1>7. CASE RetirePass
  <2>1. /\ deq.pc = "retire" /\ deq'.pc = "retire" /\ deq'.k = deq.k + 1
        /\ deq'.TmpList = deq.TmpList /\ deq'.i = deq.i
    BY <1>0, <1>7, RetirePassIs
  <2>2. Retiring' = Retiring /\ sharedIdxs[deq.k] # Retiring /\ deq.i <= Len(deq.TmpList)
    BY <1>7, <2>1 DEF Retiring, RetirePass
  <2>. QED
    BY <1>0, <2>1, <2>2 DEF Passed
<1>8. CASE RetireReset
  <2>1. /\ deq.pc = "retire" /\ deq.i <= Len(deq.TmpList) /\ deq.k = MaxUser
        /\ deq'.TmpList = deq.TmpList /\ deq'.i = deq.i
    BY <1>0, <1>8, RetireResetIs DEF RetireReset
  <2>2. Retiring' = Retiring
    BY <2>1 DEF Retiring
  <2>. QED
    BY <1>0, <2>1, <2>2 DEF Passed
<1>9. CASE DequeueReturn
  BY <1>9, IdleIs DEF DequeueReturn, Passed
<1>. QED
  BY <1>2, <1>3, <1>4, <1>5, <1>6, <1>7, <1>8, <1>9 DEF Next, Dequeue, Step

\* A node stays as long as the index of a producer names it.
LEMMA KeptStays ==
    ASSUME Inv, Next, NEW p \in Producer, NEW s \in Slot, sharedIdxs[p] = s, Kept(s, p)
    PROVE  Kept(s, p)'
<1>0. /\ used[s] = 1 /\ ~Passed(s, p) /\ \A q \in Producer : s \notin Held(q)
      /\ used \in [Slot -> {0, 1}]
  BY DEF Kept, Inv, Types
<1>1. ~Passed(s, p)'
  BY <1>0, PassedAfter
<1>2. used'[s] = 1 /\ \A q \in Producer : s \notin Held(q)'
  <2>1. ASSUME NEW q \in Producer, Step(q)
        PROVE  used'[s] = 1 /\ \A o \in Producer : s \notin Held(o)'
    BY <1>0, <2>1, ProducerEffectIs
       DEF ProducerEffect, Quiet, NoneOf, ToTake, ToFill, ToLink, OnlyOf
  <2>2. ASSUME Dequeue PROVE used'[s] = 1 /\ \A o \in Producer : s \notin Held(o)'
    <3>1. RetireFree => s # Retiring
      BY <1>0, ConsumerAt DEF Passed
    <3>. QED
      BY <1>0, <2>2, <3>1, ConsumerEffectIs
         DEF ConsumerEffect, Quiet, NoneOf, ToRetire, ToReset, ToFree
  <2>. QED
    BY <2>1, <2>2 DEF Next, Step
<1>. QED
  BY <1>1, <1>2 DEF Kept

\* The next of a node that is kept changes only from nothing to something.
LEMMA KeptNextStays ==
    ASSUME Inv, Next, NEW p \in Producer, NEW s \in Slot, sharedIdxs[p] = s, Kept(s, p),
           next[s] # UNDEFINED_NODE
    PROVE  next'[s] = next[s]
<1>0. ~Passed(s, p) /\ \A q \in Producer : s \notin Held(q)
  BY DEF Kept
<1>1. RetireReset => s # Retiring
  <2>1. MaxUser > p
    BY ProducerAssumption, MaxUserAssumption
  <2>. QED
    BY <1>0, <2>1, ConsumerAt DEF Passed
<1>. QED
  BY <1>0, <1>1, NextAfter DEF Next, Step

\* HazardOk after a step, from its parts.
LEMMA HazardOkIs ==
    ASSUME NEW p \in Producer, NEW t, enq'[p].t = t,
           enq'[p].pc \in Safe => Kept(t, p)',
           enq'[p].pc = "help" => next'[t] = enq'[p].t_next,
           enq'[p].pc = "swing" => next'[t] = enq'[p].node
    PROVE  HazardOk(p)'
BY DEF HazardOk, Kept, Passed

\* What a producer has protected and found to be the tail is kept.
LEMMA HazardInvStep ==
    ASSUME Inv, Next, Orderly
    PROVE  HazardInv'
<1>0. /\ Types /\ next \in [Slot -> Node]
      /\ \A p \in Producer : enq[p].pc \in HasNode \cup {"swing"} => enq[p].node \in Slot
      /\ \A p \in Producer : enq[p].pc \in HasTail => enq[p].t \in Slot
      /\ \A p \in Producer : enq[p].pc = "help" => enq[p].t_next \in Slot
      /\ \A s \in Slot : s # UNDEFINED_NODE
  BY DEF Inv, Types, LocalInv, EnqOk, Slot, UNDEFINED_NODE
<1>1. \A p \in Producer : HazardOk(p)
  BY DEF Orderly, HazardInv
<1>2. ASSUME NEW p \in Producer, enq[p].pc \in Safe
      PROVE  \E t \in Slot :
                /\ t = enq[p].t /\ Kept(t, p)'
                /\ next[t] # UNDEFINED_NODE => next'[t] = next[t]
  BY <1>2, SafeIs, KeptStays, KeptNextStays
\* The locals of the producer stay.
<1>3. ASSUME NEW p \in Producer, enq'[p] = enq[p] PROVE HazardOk(p)'
  <2>1. CASE enq[p].pc \in Safe
    <3>1. PICK t \in Slot : /\ t = enq[p].t /\ Kept(t, p)'
                            /\ next[t] # UNDEFINED_NODE => next'[t] = next[t]
      BY <1>2, <2>1
    <3>2. enq'[p].pc = "help" => next'[t] = enq'[p].t_next
      BY <1>0, <1>1, <1>3, <3>1 DEF HazardOk
    <3>3. enq'[p].pc = "swing" => next'[t] = enq'[p].node
      BY <1>0, <1>1, <1>3, <3>1 DEF HazardOk
    <3>. QED
      BY <1>3, <3>1, <3>2, <3>3, HazardOkIs
  <2>2. CASE enq[p].pc \notin Safe
    BY <1>3, <2>2 DEF HazardOk, Safe, Named, HasTail
  <2>. QED
    BY <2>1, <2>2
<1>4. ASSUME NEW p \in Producer, Step(p) PROVE HazardOk(p)'
  <2>1. CASE Recheck(p)
    <3>1. /\ enq[p].pc = "recheck" /\ enq'[p].t = enq[p].t /\ enq[p].t \in Slot
          /\ enq'[p].pc \in {"readTail", "readNext"}
          /\ enq'[p].pc = "readNext" => tail = enq[p].t
      BY <1>0, <2>1, RecheckIs DEF Goes, HasTail
    <3>2. enq'[p].pc = "readNext" => Kept(enq[p].t, p)
      <4> SUFFICES ASSUME enq'[p].pc = "readNext" PROVE Kept(enq[p].t, p)
        OBVIOUS
      <4>1. enq[p].t \in InList
        BY <3>1 DEF Orderly, TailInv
      <4>2. /\ used[enq[p].t] = 1 /\ enq[p].t \notin Retired
            /\ \A q \in Producer : enq[p].t \notin Held(q)
        BY <4>1 DEF Inv, Apart
      <4>3. ~Passed(enq[p].t, p)
        <5>1. deq.pc = "free" => deq.i <= Len(deq.TmpList)
          BY DEF Inv, LocalInv, DeqOk
        <5>. QED
          BY <1>0, <4>2, <5>1, RetiringIs DEF Passed, Inv
      <4>. QED
        BY <4>2, <4>3 DEF Kept
    <3>3. sharedIdxs[p] = enq[p].t
      BY <3>1 DEF Inv, NamedInv, Named, HasTail
    <3> PICK t : t = enq[p].t
      OBVIOUS
    <3>4. enq'[p].pc = "readNext" => Kept(t, p)'
      BY <3>1, <3>2, <3>3, KeptStays
    <3>5. enq'[p].pc \in Safe => enq'[p].pc = "readNext"
      BY <3>1 DEF Safe, Named, HasTail
    <3>. QED
      BY <3>1, <3>4, <3>5, HazardOkIs
  <2>2. CASE ReadNext(p)
    <3>1. enq[p].pc = "readNext" /\ enq[p].t \in Slot
      BY <1>0, <2>2 DEF ReadNext, At, HasTail
    <3>2. /\ enq'[p].t = enq[p].t /\ enq'[p].t_next = next[enq[p].t]
          /\ enq'[p].pc \in {"help", "link"}
          /\ enq'[p].pc = "link" <=> next[enq[p].t] = UNDEFINED_NODE
      BY <1>0, <2>2, <3>1, ReadNextIs DEF Goes
    <3>3. PICK t \in Slot : /\ t = enq[p].t /\ Kept(t, p)'
                            /\ next[t] # UNDEFINED_NODE => next'[t] = next[t]
      BY <1>2, <3>1 DEF Safe, Named, HasTail
    <3>. QED
      BY <3>2, <3>3, HazardOkIs
  <2>3. CASE Link(p)
    <3>1. /\ enq[p].pc = "link" /\ enq[p].t \in Slot /\ enq[p].node \in Slot
          /\ enq'[p].t = enq[p].t /\ enq'[p].node = enq[p].node
          /\ enq'[p].pc \in {"swing", "readTail"}
          /\ enq'[p].pc = "swing" => next[enq[p].t] = UNDEFINED_NODE
      BY <1>0, <2>3, LinkIs DEF Goes, HasTail, HasNode
    <3>2. PICK t \in Slot : t = enq[p].t /\ Kept(t, p)'
      BY <1>2, <3>1 DEF Safe, Named, HasTail
    <3>3. enq'[p].pc = "swing" => next'[t] = enq'[p].node
      BY <1>0, <2>3, <3>1, <3>2 DEF Link
    <3>. QED
      BY <3>1, <3>2, <3>3, HazardOkIs
  <2>4. ASSUME ~Recheck(p), ~ReadNext(p), ~Link(p) PROVE enq'[p].pc \notin Safe
    <3>1. CASE \E m \in Sends[p] : EnqueueCall(p, m)
      BY <1>0, <3>1, CallIs DEF Safe, Named, HasTail
    <3>2. CASE ScanTakes(p) \/ ScanMisses(p)
      BY <1>0, <3>2, ScanTakesIs, ScanMissesIs, IdleIs DEF Safe, Named, HasTail
    <3>3. CASE Fill(p) \/ ReadTail(p) \/ Protect(p)
      BY <1>0, <3>3, FillIs, ReadTailIs, ProtectIs DEF Safe, Named, HasTail, Goes
    <3>4. CASE Help(p) \/ Swing(p)
      BY <1>0, <3>4, HelpIs, SwingIs, IdleIs DEF Safe, Named, HasTail, Goes
    <3>. QED
      BY <1>4, <2>4, <3>1, <3>2, <3>3, <3>4 DEF Step, Enqueue
  <2>5. enq'[p].pc \notin Safe => HazardOk(p)'
    BY DEF HazardOk, Safe, Named, HasTail
  <2>. QED
    BY <2>1, <2>2, <2>3, <2>4, <2>5
<1>5. ASSUME NEW p \in Producer PROVE HazardOk(p)'
  <2>1. CASE Dequeue
    BY <1>3, <2>1, ProducersStay
  <2>2. CASE \E q \in Producer : Step(q)
    <3>1. PICK q \in Producer : Step(q)
      BY <2>2
    <3>2. q # p => enq'[p] = enq[p]
      BY <3>1, OthersStay DEF Moves
    <3>. QED
      BY <1>3, <1>4, <3>1, <3>2
  <2>. QED
    BY <2>1, <2>2 DEF Next, Step
<1>. QED
  BY <1>5 DEF HazardInv

\* The first user's lfmpscq_get.
LEMMA InitInv == Init => Inv
<1> SUFFICES ASSUME Init PROVE Inv
  OBVIOUS
<1>0. /\ 0 \in Slot /\ UNDEFINED_NODE \in Node /\ 0 \in {0, 1}
      /\ NoMessage \in Message \cup {NoMessage} /\ <<>> \in Seq(Slot)
  BY NumSlotsAssumption DEF Slot, Node
<1>1. Types
  <2>1. enq \in [Producer -> EnqLocals] /\ deq \in DeqLocals
    BY IdleIs DEF Init
  <2>2. /\ head \in Slot /\ tail \in Slot /\ used \in [Slot -> {0, 1}]
        /\ next \in [Slot -> Node] /\ data \in [Slot -> Message \cup {NoMessage}]
        /\ sharedIdxs \in [User -> Node] /\ scan \in [Producer -> Slot]
        /\ calls \in Nat /\ RList \in Seq(Slot) /\ deqRet \in {0, -1}
        /\ got \in Message \cup {NoMessage} /\ overtaken \in BOOLEAN
    BY <1>0 DEF Init
  <2>. QED
    BY <2>1, <2>2 DEF Types
<1>2. /\ deq.pc = "idle" /\ deq.TmpList = <<>> /\ deq.i = 1 /\ deq.k = 0 /\ RList = <<>>
      /\ \A p \in Producer : enq[p].pc = "idle" /\ enq[p].msg = NoMessage
      /\ \A p \in Producer : Held(p) = {}
  BY IdleIs DEF Init, Held
<1>3. Len(<<>>) = 0 /\ Range(<<>>) = {} /\ Distinct(<<>>)
  BY DEF Range, Distinct
<1>4. Left = {} /\ Retired = {}
  BY <1>2, <1>3, RetiredIs
<1>5. IsList(<<0>>, head, next)
  BY <1>0 DEF Init, IsList
<1>6. List = <<0>> /\ InList = {0}
  <2>1. List = <<0>>
    BY <1>5, WalkIs, ListIsWalk
  <2>2. Range(<<0>>) = {0}
    BY DEF Range
  <2>. QED
    BY <2>1, <2>2 DEF InList
<1>7. ListInv
  BY <1>5, <1>6 DEF ListInv
<1>8. LocalInv
  BY <1>2, <1>3, MessageAssumption DEF LocalInv, EnqOk, DeqOk, HasNode, HasTail
<1>9. Apart
  BY <1>0, <1>2, <1>4, <1>6 DEF Apart, Init
<1>10. RetireInv
  BY <1>2, <1>3, <1>4 DEF RetireInv
<1>11. LinkInv
  BY DEF LinkInv, Init
<1>12. DataInv /\ NamedInv
  BY <1>2 DEF DataInv, NamedInv, HasNode, Named, HasTail
<1>13. Orderly
  <2>1. TailInv
    BY <1>2, <1>6 DEF TailInv, Init
  <2>2. NoneLost
    BY <1>6 DEF NoneLost, Init
  <2>3. NewInv /\ HazardInv
    BY SMTT(30), <1>2 DEF NewInv, HazardInv, HazardOk, HasNode, Safe, Named, HasTail
  <2>. QED
    BY <2>1, <2>2, <2>3 DEF Orderly
<1>. QED
  BY <1>1, <1>7, <1>8, <1>9, <1>10, <1>11, <1>12, <1>13 DEF Inv

\* A step does not undo that a dequeue has overtaken the tail.
LEMMA OvertakenStays ==
    ASSUME Next, ~overtaken' PROVE ~overtaken
BY ZenonT(40) DEF Next, Enqueue, EnqueueCall, ScanTakes, ScanMisses, Fill, ReadTail,
   Protect, Recheck, ReadNext, Help, Link, Swing, Dequeue, DequeueEmpty, DequeueBegin,
   DequeueTake, RetireKeep, RetirePass, RetireReset, RetireFree, DequeueReturn, consVars

\* Every step keeps the invariant.
LEMMA NextInv == Inv /\ [Next]_vars => Inv'
<1> SUFFICES ASSUME Inv, [Next]_vars PROVE Inv'
  OBVIOUS
<1>1. CASE Next
  <2>1. Types'
    BY <1>1, TypesOfStep, TypesOfDequeue DEF Next, Step
  <2>2. Effect
    BY <1>1, EffectIs
  <2>3. LocalInv' /\ RetireInv' /\ DataInv' /\ NamedInv'
    BY <1>1, LocalInvStep, RetireInvStep, DataInvStep, NamedInvStep
  <2>4. ListInv' /\ Apart' /\ LinkInv'
    BY <2>2, ListAfter, ApartStep, LinkInvStep
  <2>5. ASSUME ~overtaken' PROVE Orderly'
    <3>1. Orderly
      BY <1>1, <2>5, OvertakenStays DEF Inv
    <3>. QED
      BY <1>1, <2>5, <3>1, TailInvStep, NoneLostStep, NewInvStep, HazardInvStep DEF Orderly
  <2>. QED
    BY <2>1, <2>3, <2>4, <2>5 DEF Inv
<1>2. CASE UNCHANGED vars
  <2>1. /\ head' = head /\ tail' = tail /\ used' = used /\ next' = next /\ data' = data
        /\ sharedIdxs' = sharedIdxs /\ enq' = enq /\ scan' = scan /\ calls' = calls
        /\ deq' = deq /\ RList' = RList /\ deqRet' = deqRet /\ got' = got
        /\ overtaken' = overtaken
    BY <1>2 DEF vars, listVars, prodVars, consVars
  <2>2. /\ List' = List /\ InList' = InList /\ Retired' = Retired /\ Left' = Left
        /\ Retiring' = Retiring
        /\ \A p : Held(p)' = Held(p) /\ Filling(p)' = Filling(p)
    <3>1. List' = List
      BY <2>1, ListIsWalk
    <3>. QED
      BY <2>1, <3>1 DEF InList, Retired, Left, Retiring, Held, Filling
  <2>3. Types' /\ LocalInv'
    BY <2>1 DEF Inv, Types, LocalInv, EnqOk, DeqOk
  <2>4. ListInv' /\ Apart' /\ RetireInv'
    BY <2>1, <2>2 DEF Inv, ListInv, Apart, RetireInv
  <2>5. LinkInv'
    BY <2>1, <2>2 DEF Inv, LinkInv, Linked, Filled
  <2>6. DataInv' /\ NamedInv'
    BY <2>1 DEF Inv, DataInv, NamedInv
  <2>7. Orderly => Orderly'
    <3>1. TailInv => TailInv'
      BY <2>1, <2>2 DEF TailInv
    <3>2. NoneLost => NoneLost'
      BY <2>1, <2>2 DEF NoneLost
    <3>3. NewInv => NewInv'
      BY <2>1 DEF NewInv
    <3>4. HazardInv => HazardInv'
      BY <2>1, <2>2 DEF HazardInv, HazardOk, Kept, Passed
    <3>. QED
      BY <3>1, <3>2, <3>3, <3>4 DEF Orderly
  <2>. QED
    BY <2>1, <2>3, <2>4, <2>5, <2>6, <2>7 DEF Inv
<1>. QED
  BY <1>1, <1>2

\* Inv is an invariant of Lfmpscq.
LEMMA SpecInv == Spec => []Inv
BY InitInv, NextInv, PTL DEF Spec

\* Every variable keeps its range, and neither of the two lists of retired nodes
\* outgrows the array it is in: the nodes on one are different slots, and none of them
\* is the dummy.
THEOREM TypeCorrect == Spec => []TypeOK
<1>1. Inv => TypeOK
  <2> SUFFICES ASSUME Inv PROVE TypeOK
    OBVIOUS
  <2>1. ASSUME NEW l \in Seq(Slot), Distinct(l), head \notin Range(l)
        PROVE  Len(l) < NumSlots
    <3> PICK m : m = Append(l, head)
      OBVIOUS
    <3>1. head \in Slot
      BY DEF Inv, Types
    <3>2. m \in Seq(Slot) /\ Len(m) = Len(l) + 1 /\ Distinct(m) /\ Len(l) \in Nat
      BY <2>1, <3>1, RangeOfAppend, AppendProperties, LenProperties
    <3>3. Len(m) <= NumSlots
      BY <3>2, ListIsShort DEF Distinct
    <3>. QED
      BY <3>2, <3>3, NumSlotsAssumption
  <2>2. Len(RList) < NumSlots /\ Len(deq.TmpList) < NumSlots
    <3>1. RList \in Seq(Slot) /\ deq.TmpList \in Seq(Slot)
      BY TypedLocals DEF Inv, Types
    <3>2. head \notin Range(RList)
      BY OwnersAre, RetiredIs DEF Inv, Apart
    <3>. QED
      BY <2>1, <3>1, <3>2 DEF Inv, RetireInv
  <2>. QED
    BY <2>2, TypedLocals, Zenon DEF Inv, Types, TypeOK, EnqLabel
<1>. QED
  BY <1>1, SpecInv, PTL

\* Apart and NoneLost, in the words of the invariant.
LEMMA OneOwnerIs == Apart /\ (~overtaken => NoneLost) => OneOwner
<1> SUFFICES ASSUME Apart, ~overtaken => NoneLost PROVE OneOwner
  OBVIOUS
<1> PICK owned : owned = UNION {Held(p) : p \in Producer}
  OBVIOUS
<1>0. \A s : s \in owned <=> \E p \in Producer : s \in Held(p)
  OBVIOUS
<1>1. \A p, q \in Producer : p # q => Held(p) \cap Held(q) = {}
  BY DEF Apart
<1>2. owned \cap (InList \cup Retired) = {} /\ InList \cap Retired = {}
  BY <1>0 DEF Apart
<1>3. overtaken \/ {s \in Slot : used[s] = 1} \subseteq owned \cup InList \cup Retired
  BY <1>0 DEF NoneLost
<1>. QED
  BY <1>1, <1>2, <1>3 DEF OneOwner

\* No two producers fill the same slot, none fills one that is in the list or not yet
\* given back, and unless a dequeue has overtaken the tail no slot is lost.
THEOREM SlotsHaveOneOwner == Spec => []OneOwner
<1>1. Inv => OneOwner
  BY OneOwnerIs DEF Inv, Orderly
<1>. QED
  BY <1>1, SpecInv, PTL

\* Unless a dequeue has overtaken the tail, the node a producer has protected and found
\* to be the tail is not given back before the producer is done with it.
THEOREM HazardPointersProtect == Spec => []ProtectedNotReused
<1>1. Inv => ProtectedNotReused
  BY SafeIs DEF Inv, ProtectedNotReused, Kept, Safe, Named, HasTail
<1>. QED
  BY <1>1, SpecInv, PTL

-----------------------------------------------------------------------------
(***************************************************************************)
(* The list implements the FIFO until a dequeue overtakes the tail         *)
(***************************************************************************)

\* The contents, by their places in the list.
ContentsInv ==
    /\ Contents \in Seq(Message \cup {NoMessage})
    /\ Len(Contents) = Len(List) - 1 /\ Len(List) \in Nat \ {0}
    /\ \A k \in 1 .. Len(List) - 1 : Contents[k] = data[List[k + 1]]
    /\ \A k \in 1 .. Len(List) : List[k] \in Slot /\ List[k] \in InList

\* Every place of the list but the first holds a message.
LEMMA ContentsIs ==
    Inv => ContentsInv
<1> SUFFICES ASSUME Inv PROVE ContentsInv
  OBVIOUS
<1>1. Len(List) \in Nat \ {0} /\ List \in Seq(Slot) /\ DOMAIN List = 1 .. Len(List)
  BY ListIs, LenProperties DEF Inv, ListInv, IsList
<1>2. \A k \in 1 .. Len(List) : List[k] \in Slot /\ List[k] \in InList
  BY <1>1 DEF InList, Range
<1>3. Contents = [k \in 1 .. Len(List) - 1 |-> data[List[k + 1]]]
  BY DEF Contents
<1>4. \A k \in 1 .. Len(List) - 1 : data[List[k + 1]] \in Message \cup {NoMessage}
  BY <1>1, <1>2 DEF Inv, Types
<1>. QED
  BY <1>1, <1>2, <1>3, <1>4 DEF ContentsInv

\* The same list with the same data has the same contents.
LEMMA ContentsStay ==
    ASSUME Inv, Inv', List' = List, \A s \in InList : data'[s] = data[s]
    PROVE  Contents' = Contents
<1> PICK C, D, L : C = Contents /\ D = Contents' /\ L = List
  OBVIOUS
<1>1. /\ C \in Seq(Message \cup {NoMessage})
      /\ Len(C) = Len(L) - 1 /\ Len(L) \in Nat \ {0}
      /\ \A k \in 1 .. Len(L) - 1 : C[k] = data[L[k + 1]]
      /\ \A k \in 1 .. Len(L) : L[k] \in InList
  BY ContentsIs DEF ContentsInv
<1>2. /\ D \in Seq(Message \cup {NoMessage})
      /\ Len(D) = Len(L) - 1
      /\ \A k \in 1 .. Len(L) - 1 : D[k] = data'[L[k + 1]]
  <2>1. ContentsInv'
    BY ContentsIs, PTL
  <2>. QED
    BY <2>1 DEF ContentsInv
<1>3. \A k \in 1 .. Len(C) : k \in 1 .. Len(L) - 1 /\ k + 1 \in 1 .. Len(L)
  BY <1>1
<1>4. \A k \in 1 .. Len(C) : D[k] = C[k]
  BY <1>1, <1>2, <1>3
<1>. QED
  BY <1>1, <1>2, <1>4, SeqEqual

\* What the compare-and-swap that links a node does to the contents.
LEMMA ContentsGrow ==
    ASSUME Inv, Inv', Orderly, NEW p \in Producer, Linking(p), ToLink(p)
    PROVE  Contents' = Append(Contents, enq[p].msg)
<1> PICK C, D, L, M, n, m :
       /\ C = Contents /\ D = Contents' /\ L = List /\ M = List'
       /\ n = enq[p].node /\ m = enq[p].msg
  OBVIOUS
<1> PICK E : E = Append(C, m)
  OBVIOUS
<1>1. /\ C \in Seq(Message \cup {NoMessage})
      /\ Len(C) = Len(L) - 1 /\ Len(L) \in Nat \ {0} /\ Len(C) \in Nat
      /\ \A k \in 1 .. Len(L) - 1 : C[k] = data[L[k + 1]]
  BY ContentsIs, LenProperties DEF ContentsInv
<1>2. /\ D \in Seq(Message \cup {NoMessage})
      /\ Len(D) = Len(M) - 1
      /\ \A k \in 1 .. Len(M) - 1 : D[k] = data'[M[k + 1]]
  <2>1. ContentsInv'
    BY ContentsIs, PTL
  <2>. QED
    BY <2>1 DEF ContentsInv
<1>3. M = Append(L, n) /\ L \in Seq(Slot) /\ n \in Slot /\ data' = data /\ data[n] = m
      /\ m \in Message \cup {NoMessage}
  <2>1. M = Append(L, n) /\ data[n] = m
    BY LinkIsLast
  <2>2. L \in Seq(Slot) /\ n \in Slot /\ data' = data
    BY DEF Inv, ListInv, IsList, ToLink, Linking, Link
  <2>. QED
    BY <2>1, <2>2, TypedLocals DEF Inv
<1>4. /\ Len(M) = Len(L) + 1 /\ M[Len(L) + 1] = n /\ \A k \in 1 .. Len(L) : M[k] = L[k]
  BY <1>3, AppendProperties
<1>5. /\ E \in Seq(Message \cup {NoMessage}) /\ Len(E) = Len(C) + 1
      /\ E[Len(C) + 1] = m /\ \A k \in 1 .. Len(C) : E[k] = C[k]
  BY <1>1, <1>3, AppendProperties
<1>6. ASSUME NEW k \in 1 .. Len(D) PROVE D[k] = E[k]
  <2>1. CASE k = Len(L)
    BY <1>1, <1>2, <1>3, <1>4, <1>5, <2>1
  <2>2. CASE k # Len(L)
    <3>1. k \in 1 .. Len(C) /\ k \in 1 .. Len(L) - 1 /\ k + 1 \in 1 .. Len(L)
          /\ k \in 1 .. Len(M) - 1
      BY <1>1, <1>2, <1>4, <2>2
    <3>2. D[k] = data[L[k + 1]] /\ E[k] = data[L[k + 1]]
      BY <1>1, <1>2, <1>3, <1>4, <1>5, <3>1
    <3>. QED
      BY <3>2
  <2>. QED
    BY <2>1, <2>2
<1>. QED
  BY <1>1, <1>2, <1>4, <1>5, <1>6, SeqEqual

\* What the dequeue that moves the head does to the contents.
LEMMA ContentsShrink ==
    ASSUME Inv, Inv', ToRetire, data' = data
    PROVE  /\ Contents # <<>> /\ Contents' = Tail(Contents)
           /\ Head(Contents) = data[next[head]]
<1> PICK C, D, L, M : C = Contents /\ D = Contents' /\ L = List /\ M = List'
  OBVIOUS
<1> PICK E : E = Tail(C)
  OBVIOUS
<1>1. /\ C \in Seq(Message \cup {NoMessage})
      /\ Len(C) = Len(L) - 1 /\ Len(L) \in Nat \ {0}
      /\ \A k \in 1 .. Len(L) - 1 : C[k] = data[L[k + 1]]
  BY ContentsIs DEF ContentsInv
<1>2. /\ D \in Seq(Message \cup {NoMessage})
      /\ Len(D) = Len(M) - 1
      /\ \A k \in 1 .. Len(M) - 1 : D[k] = data'[M[k + 1]]
  <2>1. ContentsInv'
    BY ContentsIs, PTL
  <2>. QED
    BY <2>1 DEF ContentsInv
<1>3. M = Tail(L) /\ Len(L) > 1 /\ next[head] = L[2] /\ L \in Seq(Slot) /\ L # <<>>
  BY ListAfter DEF Effect, Inv, ListInv, IsList
<1>4. Len(M) = Len(L) - 1 /\ \A k \in 1 .. Len(M) : M[k] = L[k + 1]
  BY <1>3, HeadTailProperties
<1>5. Len(C) > 0 /\ 1 \in 1 .. Len(L) - 1
  BY <1>1, <1>3
<1>6. C # <<>> /\ Head(C) = C[1] /\ C[1] = data[L[2]]
  BY <1>1, <1>5
<1>7. /\ E \in Seq(Message \cup {NoMessage}) /\ Len(E) = Len(C) - 1
      /\ \A k \in 1 .. Len(E) : E[k] = C[k + 1]
  BY <1>1, <1>6, HeadTailProperties
<1>8. ASSUME NEW k \in 1 .. Len(D) PROVE D[k] = E[k]
  <2>1. /\ k \in 1 .. Len(E) /\ k + 1 \in 1 .. Len(L) - 1 /\ k + 2 \in 1 .. Len(L)
        /\ k + 1 \in 1 .. Len(M) /\ k \in 1 .. Len(M) - 1 /\ k + 1 + 1 = k + 2
    BY <1>1, <1>2, <1>3, <1>4, <1>7
  <2>2. D[k] = data'[L[k + 2]] /\ E[k] = data[L[k + 2]]
    BY <1>1, <1>2, <1>4, <1>7, <2>1
  <2>. QED
    BY <2>2
<1>9. Len(D) = Len(E)
  BY <1>1, <1>2, <1>4, <1>7
<1>10. D = E
  BY <1>2, <1>7, <1>8, <1>9, SeqEqual
<1>. QED
  BY <1>3, <1>6, <1>10

\* The list is empty when the dummy has no successor.
LEMMA EmptyIs ==
    ASSUME Inv, next[head] = UNDEFINED_NODE
    PROVE  Contents = <<>>
<1>1. head = List[Len(List)] /\ Len(List) \in Nat \ {0} /\ head = List[1]
  BY ZenonT(40), ListIs DEF Inv, ListInv, IsList
<1>2. 1 \in 1 .. Len(List) /\ Len(List) \in 1 .. Len(List)
  BY <1>1
<1>3. Len(List) = 1
  BY <1>1, <1>2 DEF Inv, ListInv, IsList
<1>. QED
  BY <1>3, ContentsIs, EmptySeq DEF ContentsInv


\* What a producer's step does to the message it is enqueueing.
CallingAfter(p) ==
    IF Linking(p)
    THEN /\ enq[p].msg # NoMessage /\ enq'[p].msg = enq[p].msg
         /\ enq[p].pc # "swing" /\ enq'[p].pc = "swing"
    ELSE \/ /\ enq[p].msg = NoMessage /\ enq'[p].msg \in Message
            /\ enq[p].pc # "swing" /\ enq'[p].pc # "swing"
         \/ /\ enq[p].msg # NoMessage /\ enq'[p].msg = NoMessage
            /\ enq'[p].pc # "swing"
         \/ /\ enq'[p].msg = enq[p].msg
            /\ enq[p].pc # "swing" /\ enq'[p].pc # "swing"

\* A producer's message comes with the call and goes with its return.
LEMMA CallingIs ==
    ASSUME Inv, NEW p \in Producer, Step(p)
    PROVE  CallingAfter(p)
<1>0. /\ Types /\ enq[p].msg \in Message \cup {NoMessage}
      /\ enq[p].msg \in Message <=> enq[p].pc # "idle"
      /\ NoMessage \notin Message
      /\ enq[p].pc \in HasTail => enq[p].t \in Slot
  BY TypedLocals, MessageAssumption DEF Inv, LocalInv, EnqOk
<1>1. enq[p].pc # "link" => ~Linking(p)
  BY DEF Linking, Link, At
<1> USE DEF CallingAfter
<1>2. CASE \E m \in Sends[p] : EnqueueCall(p, m)
  BY <1>0, <1>1, <1>2, CallIs
<1>3. CASE ScanTakes(p)
  BY <1>0, <1>1, <1>3, ScanTakesIs
<1>4. CASE ScanMisses(p)
  BY <1>0, <1>1, <1>4, ScanMissesIs, IdleIs
<1>5. CASE Fill(p)
  BY <1>0, <1>1, <1>5, FillIs DEF Goes
<1>6. CASE ReadTail(p)
  BY <1>0, <1>1, <1>6, ReadTailIs
<1>7. CASE Protect(p)
  BY <1>0, <1>1, <1>7, ProtectIs DEF Goes
<1>8. CASE Recheck(p)
  BY <1>0, <1>1, <1>8, RecheckIs DEF Goes
<1>9. CASE ReadNext(p)
  BY <1>0, <1>1, <1>9, ReadNextIs DEF Goes, ReadNext, At, HasTail
<1>10. CASE Help(p)
  BY <1>0, <1>1, <1>10, HelpIs DEF Goes
<1>11. CASE Link(p)
  BY <1>0, <1>11, LinkIs DEF Goes, Linking
<1>12. CASE Swing(p)
  BY <1>0, <1>1, <1>12, SwingIs, IdleIs
<1>. QED
  BY <1>2, <1>3, <1>4, <1>5, <1>6, <1>7, <1>8, <1>9, <1>10, <1>11, <1>12 DEF Step, Enqueue

\* Only the compare-and-swap that links a node changes the contents.
LEMMA ContentsAfterStep ==
    ASSUME Inv, Inv', NEW p \in Producer, Step(p)
    PROVE  /\ ~Linking(p) => Contents' = Contents
           /\ Linking(p) /\ Orderly => Contents' = Append(Contents, enq[p].msg)
<1>1. ProducerEffect(p) /\ Effect
  <2>1. ProducerEffect(p)
    BY ProducerEffectIs
  <2>. QED
    BY <2>1 DEF ProducerEffect, Effect
<1>2. ASSUME ~Linking(p) PROVE Contents' = Contents
  <2>1. Quiet \/ ToTake(p) \/ ToFill(p)
    BY <1>1, <1>2 DEF ProducerEffect
  <2>2. List' = List
    BY <1>1, <2>1, ListAfter
  <2>3. ASSUME NEW s \in InList PROVE data'[s] = data[s]
    <3>1. CASE Fill(p)
      <4>1. Held(p) = {enq[p].node} /\ data' = [data EXCEPT ![enq[p].node] = enq[p].msg]
        BY <3>1 DEF Fill, At, Held
      <4>2. s # enq[p].node
        BY <4>1, <2>3, OwnersAre
      <4>3. s \in Slot /\ data \in [Slot -> Message \cup {NoMessage}]
        BY <2>3, OwnersAre DEF Inv, Types
      <4>. QED
        BY <4>1, <4>2, <4>3
    <3>2. CASE ~Fill(p)
      BY <3>2 DEF Step, Enqueue, EnqueueCall, ScanTakes, ScanMisses, ReadTail, Protect,
         Recheck, ReadNext, Help, Link, Swing, listVars
    <3>. QED
      BY <3>1, <3>2
  <2>. QED
    BY <2>2, <2>3, ContentsStay
<1>3. ASSUME Linking(p), Orderly PROVE Contents' = Append(Contents, enq[p].msg)
  <2>1. ToLink(p)
    BY <1>1, <1>3 DEF ProducerEffect, Quiet, Fill, ScanTakes, Linking, Link, At
  <2>. QED
    BY <1>3, <2>1, ContentsGrow
<1>. QED
  BY <1>2, <1>3

\* What the consumer's step does to the contents and to what it returns.
TakeRet == IF deq.pc \in {"retire", "free"} THEN 0 ELSE deqRet

\* A step of the consumer takes the oldest message, finds none, or does neither.
LEMMA TakenIs ==
    ASSUME Inv, Inv', Dequeue
    PROVE  \/ /\ Contents # <<>> /\ Contents' = Tail(Contents)
              /\ got' = Head(Contents) /\ TakeRet' = 0
           \/ /\ Contents = <<>> /\ Contents' = <<>>
              /\ got' = got /\ TakeRet' = -1
           \/ Contents' = Contents /\ got' = got /\ TakeRet' = TakeRet
<1>0. Types /\ DeqOk
  BY DEF Inv, LocalInv
<1>1. data' = data
  BY DEF Dequeue, DequeueEmpty, DequeueBegin, DequeueTake, RetireKeep, RetirePass,
     RetireReset, RetireFree, DequeueReturn, listVars
<1>2. ConsumerEffect /\ Effect
  <2>1. ConsumerEffect
    BY ConsumerEffectIs
  <2>. QED
    BY <2>1 DEF ConsumerEffect, Effect
<1>3. ASSUME ~DequeueTake PROVE Contents' = Contents /\ got' = got
  <2>1. Quiet \/ ToReset \/ ToFree
    BY <1>2, <1>3 DEF ConsumerEffect
  <2>2. List' = List
    BY <1>2, <2>1, ListAfter
  <2>3. Contents' = Contents
    BY <1>1, <2>2, ContentsStay
  <2>. QED
    BY <1>3, <2>3 DEF Dequeue, DequeueEmpty, DequeueBegin, RetireKeep, RetirePass,
       RetireReset, RetireFree, DequeueReturn
<1>4. CASE DequeueTake
  <2>1. ToRetire
    BY <1>2, <1>4, ConsumerAt DEF ConsumerEffect
  <2>2. deq.pc = "take" /\ deq.h_idx = head /\ deq.h_next = next[head] /\ head \in Slot
    BY <1>0, <1>4, ConsumerAt DEF DeqOk, Types
  <2>3. got' = data[next[head]] /\ TakeRet' = 0
    BY <1>0, <1>4, <2>2, TakeIs DEF DequeueTake, TakeRet
  <2>. QED
    BY <1>1, <2>1, <2>3, ContentsShrink
<1>5. CASE DequeueEmpty
  <2>1. Contents = <<>>
    BY <1>5, EmptyIs DEF DequeueEmpty
  <2>2. deq' = deq /\ deq.pc = "idle" /\ deqRet' = -1
    BY <1>5 DEF DequeueEmpty
  <2>3. ~DequeueTake
    BY <2>2, ConsumerAt
  <2>. QED
    BY <1>3, <2>1, <2>2, <2>3 DEF TakeRet
<1>6. CASE DequeueBegin \/ RetireKeep \/ RetirePass \/ RetireReset \/ RetireFree
           \/ DequeueReturn
  <2>1. ~DequeueTake
    BY <1>6 DEF DequeueTake, DequeueBegin, RetireKeep, RetirePass, RetireReset, RetireFree,
       DequeueReturn
  <2>2. CASE DequeueBegin
    <3>1. deq.pc = "idle" /\ deq'.pc = "take" /\ deqRet' = deqRet
      BY <1>0, <2>2, BeginIs DEF DequeueBegin
    <3>. QED
      BY <1>3, <2>1, <3>1 DEF TakeRet
  <2>3. CASE RetireKeep \/ RetireFree
    <3>1. deq.pc \in {"retire", "free"} /\ deq'.pc = "retire"
      BY <1>0, <2>3, NextRetiredIs DEF RetireKeep, RetireFree
    <3>. QED
      BY <1>3, <2>1, <3>1 DEF TakeRet
  <2>4. CASE RetirePass \/ RetireReset
    <3>1. deq.pc = "retire" /\ deq'.pc \in {"retire", "free"}
      BY <1>0, <2>4, RetirePassIs, RetireResetIs
    <3>. QED
      BY <1>3, <2>1, <3>1 DEF TakeRet
  <2>5. CASE DequeueReturn
    <3>1. deq.pc = "retire" /\ deq'.pc = "idle" /\ deqRet' = 0
      BY <2>5, IdleIs DEF DequeueReturn
    <3>. QED
      BY <1>3, <2>1, <3>1 DEF TakeRet
  <2>. QED
    BY <1>6, <2>2, <2>3, <2>4, <2>5
<1>. QED
  BY <1>4, <1>5, <1>6 DEF Dequeue

\* The variables of the FIFO.
LEMMA FifoVars ==
    /\ Fifo!vars = <<Contents, [p \in Producer |-> enq[p].msg],
                     [p \in Producer |-> enq[p].pc = "swing"],
                     [c \in {0} |-> got], [c \in {0} |-> TakeRet]>>
    /\ Fifo!vars' = <<Contents', [p \in Producer |-> enq'[p].msg],
                      [p \in Producer |-> enq'[p].pc = "swing"],
                      [c \in {0} |-> got'], [c \in {0} |-> TakeRet']>>
BY DEF Fifo!vars, TakeRet

\* Every step of a producer is one of the FIFO, or changes nothing there.
LEMMA ProducerFifoStep ==
    ASSUME Inv, Inv', Orderly, NEW p \in Producer, Step(p)
    PROVE  [Fifo!Next]_(Fifo!vars)
<1> PICK c, c2, b, b2, g, t :
         /\ c = [q \in Producer |-> enq[q].msg] /\ c2 = [q \in Producer |-> enq'[q].msg]
         /\ b = [q \in Producer |-> enq[q].pc = "swing"]
         /\ b2 = [q \in Producer |-> enq'[q].pc = "swing"]
         /\ g = [u \in {0} |-> got] /\ t = [u \in {0} |-> TakeRet]
  OBVIOUS
<1>1. \A q \in Producer : q # p => c2[q] = c[q] /\ b2[q] = b[q]
  BY OthersStay DEF Moves
<1>2. /\ c[p] = enq[p].msg /\ c2[p] = enq'[p].msg
      /\ b[p] = (enq[p].pc = "swing") /\ b2[p] = (enq'[p].pc = "swing")
  OBVIOUS
<1>3. (c2[p] = c[p] => c2 = c) /\ (b2[p] = b[p] => b2 = b)
  BY <1>1
<1>4. got' = got /\ TakeRet' = TakeRet
  BY OthersStay DEF TakeRet
<1>5. /\ Fifo!vars = <<Contents, c, b, g, t>>
      /\ Fifo!vars' = <<Contents', c2, b2, g, t>>
  BY <1>4, FifoVars
<1>6. CASE Linking(p)
  <2>1. enq[p].msg # NoMessage /\ c2 = c /\ ~b[p] /\ b2[p]
    BY <1>2, <1>3, <1>6, CallingIs DEF CallingAfter
  <2>2. Contents' = Append(Contents, c[p])
    BY <1>2, <1>6, ContentsAfterStep
  <2>3. b2 = [b EXCEPT ![p] = TRUE]
    BY ZenonT(40), <1>1, <2>1
  <2>4. Fifo!Put(p)
    BY <1>2, <1>4, <2>1, <2>2, <2>3 DEF Fifo!Put, TakeRet
  <2>. QED
    BY <2>4 DEF Fifo!Next
<1>7. CASE ~Linking(p)
  <2>1. Contents' = Contents
    BY <1>7, ContentsAfterStep
  <2>2. CASE /\ enq[p].msg = NoMessage /\ enq'[p].msg \in Message
             /\ enq[p].pc # "swing" /\ enq'[p].pc # "swing"
    <3>1. b2 = b /\ c[p] = NoMessage
      BY <1>2, <1>3, <2>2
    <3>2. PICK m \in Message : c2[p] = m
      BY <1>2, <2>2
    <3>3. c2 = [c EXCEPT ![p] = m]
      BY <1>1, <3>2
    <3>4. Fifo!Call(p)
      BY <1>4, <2>1, <3>1, <3>3 DEF Fifo!Call, TakeRet
    <3>. QED
      BY <3>4 DEF Fifo!Next
  <2>3. CASE /\ enq[p].msg # NoMessage /\ enq'[p].msg = NoMessage
             /\ enq'[p].pc # "swing"
    <3>1. c[p] # NoMessage /\ c2 = [c EXCEPT ![p] = NoMessage]
      BY <1>1, <1>2, <2>3
    <3>2. b2 = [b EXCEPT ![p] = FALSE]
      <4>1. b2[p] = FALSE
        BY <1>2, <2>3
      <4>. QED
        BY ZenonT(40), <1>1, <4>1
    <3>3. Fifo!Return(p)
      BY <1>4, <2>1, <3>1, <3>2 DEF Fifo!Return, TakeRet
    <3>. QED
      BY <3>3 DEF Fifo!Next
  <2>4. CASE /\ enq'[p].msg = enq[p].msg
             /\ enq[p].pc # "swing" /\ enq'[p].pc # "swing"
    <3>1. c2 = c /\ b2 = b
      BY <1>2, <1>3, <2>4
    <3>. QED
      BY <1>5, <2>1, <3>1
  <2>. QED
    BY <1>7, <2>2, <2>3, <2>4, CallingIs DEF CallingAfter
<1>. QED
  BY <1>6, <1>7

\* Every step of the consumer is one of the FIFO, or changes nothing there.
LEMMA ConsumerFifoStep ==
    ASSUME Inv, Inv', Dequeue
    PROVE  [Fifo!Next]_(Fifo!vars)
<1> PICK g, g2, t, t2 :
         /\ g = [u \in {0} |-> got] /\ g2 = [u \in {0} |-> got']
         /\ t = [u \in {0} |-> TakeRet] /\ t2 = [u \in {0} |-> TakeRet']
  OBVIOUS
<1>1. enq' = enq
  BY DEF Dequeue, DequeueEmpty, DequeueBegin, DequeueTake, RetireKeep, RetirePass,
     RetireReset, RetireFree, DequeueReturn, prodVars
<1>2. /\ g2 = [g EXCEPT ![0] = got'] /\ t2 = [t EXCEPT ![0] = TakeRet']
  OBVIOUS
<1>3. CASE /\ Contents # <<>> /\ Contents' = Tail(Contents)
           /\ got' = Head(Contents) /\ TakeRet' = 0
  <2>1. Fifo!Take(0)
    BY <1>1, <1>2, <1>3 DEF Fifo!Take, TakeRet
  <2>. QED
    BY <2>1 DEF Fifo!Next
<1>4. CASE /\ Contents = <<>> /\ Contents' = <<>>
           /\ got' = got /\ TakeRet' = -1
  <2>1. Fifo!TakeRefused(0)
    BY <1>1, <1>2, <1>4 DEF Fifo!TakeRefused, TakeRet
  <2>. QED
    BY <2>1 DEF Fifo!Next
<1>5. CASE Contents' = Contents /\ got' = got /\ TakeRet' = TakeRet
  BY <1>1, <1>5, FifoVars
<1>. QED
  BY <1>3, <1>4, <1>5, TakenIs

\* Unless a dequeue has overtaken the tail, the list implements the FIFO: messages are
\* taken in the order in which their nodes were linked, none twice, and the consumer is
\* told that there is none only when there is none.
THEOREM QueueIsFifoUnlessOvertaken == Spec => FifoUnlessOvertaken
<1>1. Init => Fifo!Init
  <2> SUFFICES ASSUME Init PROVE Fifo!Init
    OBVIOUS
  <2>1. /\ \A p \in Producer : enq[p].msg = NoMessage /\ enq[p].pc = "idle"
        /\ got = NoMessage /\ TakeRet = 0
    BY IdleIs DEF Init, TakeRet
  <2>2. Contents = <<>>
    <3>1. Inv /\ next[head] = UNDEFINED_NODE
      BY InitInv, NumSlotsAssumption DEF Init, Slot
    <3>. QED
      BY <3>1, EmptyIs
  <2>3. [p \in Producer |-> enq[p].msg] = [p \in Producer |-> NoMessage]
    BY <2>1
  <2>4. [p \in Producer |-> enq[p].pc = "swing"] = [p \in Producer |-> FALSE]
    <3>1. \A p \in Producer : (enq[p].pc = "swing") = FALSE
      BY <2>1
    <3>. QED
      BY <3>1, Zenon
  <2>. QED
    BY <2>1, <2>2, <2>3, <2>4 DEF Fifo!Init, TakeRet
<1>2. Inv /\ Inv' /\ [Next]_vars => [Fifo!Next \/ overtaken']_(Fifo!vars)
  <2> SUFFICES ASSUME Inv, Inv', [Next]_vars, ~overtaken'
               PROVE  [Fifo!Next]_(Fifo!vars)
    OBVIOUS
  <2>1. CASE Next
    <3>1. Orderly
      BY <2>1, OvertakenStays DEF Inv
    <3>. QED
      BY <2>1, <3>1, ProducerFifoStep, ConsumerFifoStep DEF Next, Step
  <2>2. CASE UNCHANGED vars
    <3>1. /\ head' = head /\ next' = next /\ data' = data /\ enq' = enq /\ deq' = deq
          /\ got' = got /\ deqRet' = deqRet
      BY <2>2 DEF vars, listVars, prodVars, consVars
    <3>2. Contents' = Contents
      BY <3>1, ListIsWalk DEF Contents
    <3>3. TakeRet' = TakeRet
      BY <3>1 DEF TakeRet
    <3>. QED
      BY <3>1, <3>2, <3>3, FifoVars
  <2>. QED
    BY <2>1, <2>2
<1>. QED
  BY <1>1, <1>2, SpecInv, PTL DEF Spec, FifoUnlessOvertaken
=============================================================================
