---------------------------- MODULE MpmcqProofs ----------------------------
(***************************************************************************)
(* Proofs about Mpmcq for every number of users and of slots, and whatever *)
(* the users enqueue: type correctness, one owner for each slot, what the  *)
(* hazard pointers promise, and that the linked list implements the FIFO.  *)
(*                                                                         *)
(* The argument.  A step takes, fills, links, takes out, resets or frees   *)
(* one slot, or moves tail to the next node, or changes neither list nor   *)
(* owners (EffectIs).  List is the only sequence that begins at head and   *)
(* follows next to a node without a successor (WalkIs), so a step changes  *)
(* it at one end only (ListAfter).  A user that has found the node it      *)
(* protects in the list keeps it from being freed or filled (Kept):        *)
(* TryRetire passes a shared index only while it names another node, so no *)
(* TryRetire that frees the node can have gone by (PassedAfter, KeptStays).*)
(*                                                                         *)
(* That the compare-and-swaps work follows.  A node that is retired names  *)
(* a successor until it is reset, so a node that is safe and has none is   *)
(* the last of the list (KeptIsLast), and Link appends to the list.  The   *)
(* first of a dequeue is out of the list for good once it is not the head  *)
(* (FromHead in ReadInv), so head can be moved past it once, and tail does *)
(* not come back to it.  Inv is the conjunction of these facts.            *)
(***************************************************************************)
EXTENDS Mpmcq, FiniteSetTheorems, SequenceTheorems, WellFoundedInduction, TLAPS

\* L is what a walk along nx finds that begins at h.
IsList(L, h, nx) ==
    /\ L \in Seq(Slot) /\ L # <<>>
    /\ L[1] = h
    /\ \A i \in 1 .. Len(L) - 1 : nx[L[i]] = L[i + 1]
    /\ nx[L[Len(L)]] = UNDEFINED_NODE
    /\ \A i, j \in 1 .. Len(L) : L[i] = L[j] => i = j

Label == {"idle", "compare", "free", "scan", "fill", "tail", "protectTail",
          "checkTail", "tailNext", "helpTail", "link", "swing", "head",
          "protectHead", "checkHead", "headTail", "headNext", "protectNext",
          "recheckHead", "helpHead", "move", "copy"}

\* Where a user goes through its retire list; where it has a node that is not
\* linked yet; where its first and its second are protected; where its shared
\* indices name them.
Retiring  == {"compare", "free"}
HasNode   == {"fill", "tail", "protectTail", "checkTail", "tailNext", "helpTail", "link"}
FromHead  == {"headTail", "headNext", "protectNext", "recheckHead", "helpHead", "move"}
Safe0     == FromHead \cup {"tailNext", "helpTail", "link", "swing", "copy"}
Safe1     == {"helpHead", "move", "copy"}
Named0    == Safe0 \cup {"checkTail", "checkHead"}
Named1    == Safe1 \cup {"recheckHead"}

Local == [pc : Label, msg : Message \cup {NoMessage}, node : Node,
          cnt : 0 .. NumSlots - 1, first : Node, second : Node, last : Node,
          todo : Seq(Slot), k : 0 .. 2 * MaxUser, then : {"idle", "scan", "head"},
          wasEmpty : BOOLEAN]

Types ==
    /\ head \in Slot /\ tail \in Slot
    /\ used \in [Slot -> {0, 1}]
    /\ next \in [Slot -> Node]
    /\ data \in [Slot -> Message \cup {NoMessage}]
    /\ sharedIdxs \in [SharedIdx -> Node]
    /\ scan \in [User -> Slot]
    /\ RList \in [User -> Seq(Slot)]
    /\ loc \in [User -> Local]
    /\ calls \in Nat
    /\ got \in [User -> Message \cup {NoMessage}]

\* The locals a label needs are there.
LocalOk(l) ==
    /\ l.pc \in Retiring <=> l.todo # <<>>
    /\ l.pc \in HasNode \cup {"swing"} => l.node \in Slot
    /\ l.pc \in Named0 \cup {"protectTail", "protectHead"} => l.first \in Slot
    /\ l.pc \in Safe1 \cup {"helpTail"} => l.second \in Slot
    /\ l.msg \in Message <=> \/ l.pc \in HasNode \cup {"scan", "swing"}
                             \/ l.pc \in Retiring /\ l.then = "scan"

LocalInv == \A u \in User : LocalOk(loc[u])

\* The nodes from head on are a list that ends; tail is one of them.
ListInv == IsList(List, head, next) /\ tail \in InList

Distinct(nodes) == \A i, j \in 1 .. Len(nodes) : nodes[i] = nodes[j] => i = j

\* The node is about to be given back.
Freed(u, s) == At(u, "free") /\ s = RetiredNode(u)

\* A node has one owner, and is on its retire lists once; one that waits there
\* still names its successor.
OwnerInv ==
    /\ OneOwner
    /\ \A s \in InList : used[s] = 1
    /\ \A u \in User : \A s \in Held(u) \cup Retired(u) : used[s] = 1

RetireInv ==
    \A u \in User :
        /\ Distinct(RList[u]) /\ Distinct(loc[u].todo)
        /\ Range(RList[u]) \cap Range(loc[u].todo) = {}
        /\ At(u, "copy") => loc[u].first \notin Range(RList[u])
        /\ \A s \in Retired(u) : Freed(u, s) \/ next[s] # UNDEFINED_NODE

\* A node that is not linked yet has no successor and its enqueue's message.
NodeInv ==
    \A u \in User : loc[u].pc \in HasNode \ {"fill"} =>
        next[loc[u].node] = UNDEFINED_NODE /\ data[loc[u].node] = loc[u].msg

\* TryRetire has compared the node with the shared index.
Passed(u, s, k) ==
    /\ At(u, "free") \/ (At(u, "compare") /\ loc[u].k > k)
    /\ s = RetiredNode(u)

\* No user will give back or fill the node while the shared index names it.
Kept(s, k) == used[s] = 1 /\ \A w \in User : s \notin Held(w) /\ ~Passed(w, s, k)

HazardInv ==
    \A u \in User :
        /\ loc[u].pc \in Named0 => sharedIdxs[Index0(u)] = loc[u].first
        /\ loc[u].pc \in Named1 => sharedIdxs[Index1(u)] = loc[u].second
        /\ loc[u].pc \in Safe0 => Kept(loc[u].first, Index0(u))
        /\ loc[u].pc \in Safe1 => Kept(loc[u].second, Index1(u))

\* What a user has read of the nodes it protects is still so.
ReadInv ==
    \A u \in User : LET l == loc[u] IN
        /\ l.pc \in Safe1 \cup {"helpTail"} => next[l.first] = l.second
        /\ l.pc = "swing" => next[l.first] = l.node
        /\ l.pc \in {"protectNext", "recheckHead"} =>
              IF l.second = UNDEFINED_NODE THEN l.wasEmpty ELSE next[l.first] = l.second
        /\ l.pc \in FromHead /\ l.first \in InList => l.first = head
        /\ l.pc \in {"headNext", "protectNext", "recheckHead"} /\ tail = l.first =>
              l.last = tail
        /\ l.pc = "move" => tail # l.first

Inv ==
    /\ Types /\ LocalInv /\ ListInv /\ OwnerInv
    /\ RetireInv /\ NodeInv /\ HazardInv /\ ReadInv

\* FirstNodes, of any head and any next.
OneMore(nodes, nx) ==
    IF nx[nodes[Len(nodes)]] = UNDEFINED_NODE THEN nodes
    ELSE Append(nodes, nx[nodes[Len(nodes)]])

IsWalk(g, h, nx) ==
    g = [k \in 0 .. NumSlots |-> IF k = 0 THEN <<h>> ELSE OneMore(g[k - 1], nx)]

Walk(h, nx) == CHOOSE g : IsWalk(g, h, nx)

\* The list of Mpmcq is a walk.
LEMMA ListIsWalk ==
    /\ List = Walk(head, next)[NumSlots]
    /\ List' = Walk(head', next')[NumSlots]
BY DEF List, FirstNodes, Walk, IsWalk, OneMore

\* A set of natural numbers that is not empty has a least element.
LEMMA Least ==
    ASSUME NEW T \in SUBSET Nat, T # {}
    PROVE  \E m \in T : \A n \in T : m <= n
<1> DEFINE R == OpToRel(<, Nat)
<1>1. IsWellFoundedOn(R, Nat)
  BY NatLessThanWellFounded
<1>2. \A m, n \in Nat : m < n => <<m, n>> \in R
  BY DEF OpToRel
<1> HIDE DEF R
<1>3. PICK m \in T : \A n \in T : <<n, m>> \notin R
  BY <1>1, WFMin
<1>4. \A n \in T : ~(n < m)
  BY <1>2, <1>3
<1>. QED
  BY <1>4

\* No node is met twice, so the list is no longer than there are slots.
LEMMA ListIsShort ==
    ASSUME NEW L \in Seq(Slot), \A i, j \in 1 .. Len(L) : L[i] = L[j] => i = j
    PROVE  Len(L) <= NumSlots
<1>0. Len(L) \in Nat /\ NumSlots - 1 \in Int
  BY NumSlotsAssumption
<1>1. \A a, b \in Int : /\ IsFiniteSet(a .. b)
                         /\ Cardinality(a .. b) = IF a > b THEN 0 ELSE b - a + 1
  BY FS_Interval
<1>3. /\ IsFiniteSet(0 .. NumSlots - 1) /\ Cardinality(0 .. NumSlots - 1) = NumSlots
  BY <1>0, <1>1, NumSlotsAssumption
<1>5. Len(L) \in Int /\ 1 \in Int
  BY <1>0
<1>6. /\ IsFiniteSet(1 .. Len(L))
      /\ Cardinality(1 .. Len(L)) = IF 1 > Len(L) THEN 0 ELSE Len(L) - 1 + 1
  BY <1>1, <1>5, Zenon
<1>4. IsFiniteSet(1 .. Len(L)) /\ Cardinality(1 .. Len(L)) = Len(L)
  BY <1>0, <1>6
<1>2. L \in [1 .. Len(L) -> Slot]
  BY LenProperties
<1>. QED
  <2> SUFFICES ASSUME NumSlots < Len(L) PROVE FALSE
    BY <1>0, NumSlotsAssumption
  <2>1. Cardinality(Slot) < Cardinality(1 .. Len(L)) /\ IsFiniteSet(Slot)
    BY <1>3, <1>4 DEF Slot
  <2>2. \E i, j \in 1 .. Len(L) : i # j /\ L[i] = L[j]
    BY <1>2, <1>4, <2>1, FS_PigeonHole
  <2>. QED
    BY <2>2

\* The walk finds the list.
LEMMA WalkIs ==
    ASSUME NEW L, NEW h, NEW nx, IsList(L, h, nx)
    PROVE  Walk(h, nx)[NumSlots] = L
<1>0. L \in Seq(Slot) /\ Len(L) \in Nat \ {0} /\ Len(L) <= NumSlots
  BY ListIsShort, EmptySeq DEF IsList
<1> DEFINE Prefix(k) == SubSeq(L, 1, IF k < Len(L) THEN k + 1 ELSE Len(L))
           g == [k \in 0 .. NumSlots |-> Prefix(k)]
<1>1. \A k \in 0 .. NumSlots :
         /\ Prefix(k) \in Seq(Slot)
         /\ Len(Prefix(k)) = (IF k < Len(L) THEN k + 1 ELSE Len(L))
         /\ \A i \in 1 .. Len(Prefix(k)) : Prefix(k)[i] = L[i]
  <2> SUFFICES ASSUME NEW k \in 0 .. NumSlots
               PROVE  /\ Prefix(k) \in Seq(Slot)
                      /\ Len(Prefix(k)) = (IF k < Len(L) THEN k + 1 ELSE Len(L))
                      /\ \A i \in 1 .. Len(Prefix(k)) : Prefix(k)[i] = L[i]
    OBVIOUS
  <2> DEFINE n == IF k < Len(L) THEN k + 1 ELSE Len(L)
  <2>1. n \in 1 .. Len(L)
    BY <1>0, NumSlotsAssumption
  <2> HIDE DEF n
  <2>2. \A i \in 1 .. n : L[i] \in Slot
    BY <1>0, <2>1
  <2>3. /\ SubSeq(L, 1, n) \in Seq(Slot) /\ Len(SubSeq(L, 1, n)) = n
        /\ \A i \in 1 .. n : SubSeq(L, 1, n)[i] = L[i]
    BY <1>0, <2>1, <2>2
  <2>. QED
    BY <2>3 DEF n
<1>2. Prefix(0) = <<h>>
  <2> PICK s : s = Prefix(0)
    OBVIOUS
  <2>1. Len(s) = 1 /\ s[1] = h /\ s \in Seq(Slot)
    BY <1>0, <1>1, NumSlotsAssumption DEF IsList
  <2>2. <<h>> \in Seq(Slot) /\ Len(<<h>>) = 1 /\ <<h>>[1] = h
    BY <2>1
  <2>3. h \in Slot
    BY <2>1
  <2>4. <<h>> \in Seq(Slot)
    BY <2>3
  <2>5. \A i \in 1 .. Len(s) : s[i] = <<h>>[i]
    BY <2>1, <2>2
  <2>6. s = <<h>>
    BY <2>1, <2>2, <2>4, <2>5, SeqEqual
  <2>. QED
    BY <2>6
<1>3. \A k \in 1 .. NumSlots : Prefix(k) = OneMore(Prefix(k - 1), nx)
  <2> SUFFICES ASSUME NEW k \in 1 .. NumSlots PROVE Prefix(k) = OneMore(Prefix(k - 1), nx)
    OBVIOUS
  <2> PICK s, t : s = Prefix(k - 1) /\ t = Prefix(k)
    OBVIOUS
  <2>1. /\ s \in Seq(Slot) /\ Len(s) = (IF k - 1 < Len(L) THEN k ELSE Len(L))
        /\ \A i \in 1 .. Len(s) : s[i] = L[i]
    BY <1>1, NumSlotsAssumption
  <2>2. /\ t \in Seq(Slot) /\ Len(t) = (IF k < Len(L) THEN k + 1 ELSE Len(L))
        /\ \A i \in 1 .. Len(t) : t[i] = L[i]
    BY <1>1, NumSlotsAssumption
  <2>3. CASE k < Len(L)
    <3>1. nx[s[Len(s)]] = L[k + 1] /\ L[k + 1] \in Slot /\ L[k + 1] # UNDEFINED_NODE
      BY SMTT(30), <1>0, <2>1, <2>3, NumSlotsAssumption DEF IsList, Slot, UNDEFINED_NODE
    <3>2. t = Append(s, L[k + 1])
      <4>1. Append(s, L[k + 1]) \in Seq(Slot) /\ Len(Append(s, L[k + 1])) = k + 1
        BY <1>0, <2>1, <2>3, <3>1
      <4>2. \A i \in 1 .. k + 1 : Append(s, L[k + 1])[i] = L[i]
        BY <1>0, <2>1, <2>3, <3>1
      <4>. QED
        BY <2>2, <2>3, <4>1, <4>2, SeqEqual
    <3>. QED
      BY <3>1, <3>2 DEF OneMore
  <2>4. CASE k >= Len(L)
    <3>1. Len(s) = Len(L) /\ nx[s[Len(s)]] = UNDEFINED_NODE
      BY <1>0, <2>1, <2>4, NumSlotsAssumption DEF IsList
    <3>2. s = t
      BY <1>0, <2>1, <2>2, <2>4, <3>1, SeqEqual, NumSlotsAssumption
    <3>. QED
      BY <3>1, <3>2 DEF OneMore
  <2>. QED
    BY <1>0, <2>3, <2>4
<1> HIDE DEF Prefix
<1>4. IsWalk(g, h, nx)
  <2>1. \A k \in 0 .. NumSlots : g[k] = IF k = 0 THEN <<h>> ELSE OneMore(g[k - 1], nx)
    BY <1>2, <1>3, NumSlotsAssumption
  <2>. QED
    BY <2>1 DEF IsWalk
<1>5. IsWalk(Walk(h, nx), h, nx)
  BY <1>4 DEF Walk
<1>6. \A k \in 0 .. NumSlots : Walk(h, nx)[k] = g[k]
  <2> DEFINE w == Walk(h, nx)
             T == {k \in 0 .. NumSlots : w[k] # g[k]}
  <2> SUFFICES ASSUME T # {} PROVE FALSE
    OBVIOUS
  <2>1. PICK k \in T : \A n \in T : k <= n
    <3>1. T \in SUBSET Nat
      BY NumSlotsAssumption
    <3> HIDE DEF T
    <3>. QED
      BY <3>1, Least
  <2>2. \A n \in 0 .. NumSlots : /\ w[n] = IF n = 0 THEN <<h>> ELSE OneMore(w[n - 1], nx)
                                 /\ g[n] = IF n = 0 THEN <<h>> ELSE OneMore(g[n - 1], nx)
    <3>1. \A f : IsWalk(f, h, nx) => \A n \in 0 .. NumSlots :
             f[n] = IF n = 0 THEN <<h>> ELSE OneMore(f[n - 1], nx)
      BY DEF IsWalk
    <3>. QED
      BY <1>4, <1>5, <3>1
  <2> HIDE DEF w, g
  <2>3. k # 0 => w[k - 1] = g[k - 1]
    BY <2>1, NumSlotsAssumption
  <2>. QED
    BY <2>1, <2>2, <2>3
<1>. QED
  <2>1. g[NumSlots] = Prefix(NumSlots)
    BY NumSlotsAssumption
  <2>2. Prefix(NumSlots) = L
    BY <1>0, <1>1, SeqEqual, NumSlotsAssumption
  <2>. QED
    BY <1>6, <2>1, <2>2, NumSlotsAssumption
-----------------------------------------------------------------------------
(***************************************************************************)
(* Types                                                                   *)
(***************************************************************************)

\* The locals of a user that is in no call.
LEMMA IdleIs ==
    /\ Idle \in Local
    /\ Idle.pc = "idle" /\ Idle.msg = NoMessage /\ Idle.todo = <<>>
BY NumSlotsAssumption, MaxUserAssumption DEF Idle, Local, Label, Node

\* The locals after a node of the retire list, or at its beginning.
LEMMA RetireIs ==
    ASSUME NEW locals \in Local, NEW nodes \in Seq(Slot)
    PROVE  /\ Retire(locals, nodes) \in Local
           /\ Retire(locals, nodes).todo = nodes
           /\ nodes # <<>> => /\ Retire(locals, nodes).pc = "compare"
                              /\ Retire(locals, nodes).k = 0
                              /\ Retire(locals, nodes).then = locals.then
                              /\ Retire(locals, nodes).msg = locals.msg
           /\ nodes = <<>> => /\ Retire(locals, nodes).pc = locals.then
                              /\ Retire(locals, nodes).msg =
                                    IF locals.then = "idle" THEN NoMessage ELSE locals.msg
<1>1. CASE nodes # <<>>
  <2>1. Retire(locals, nodes) = [locals EXCEPT !.pc = "compare", !.todo = nodes, !.k = 0]
    BY <1>1 DEF Retire
  <2>2. 0 \in 0 .. 2 * MaxUser
    BY MaxUserAssumption
  <2> HIDE DEF Local
  <2>3. [locals EXCEPT !.pc = "compare", !.todo = nodes, !.k = 0] \in Local
    BY <2>2 DEF Local, Label
  <2>. QED
    BY <1>1, <2>1, <2>3 DEF Local
<1>2. CASE nodes = <<>> /\ locals.then = "idle"
  BY <1>2, IdleIs DEF Retire
<1>3. CASE nodes = <<>> /\ locals.then # "idle"
  BY ZenonT(40), <1>3, IdleIs DEF Retire, Local, Label
<1>. QED
  BY <1>1, <1>2, <1>3

\* A step of a user changes its own locals only.
LEMMA OthersStay ==
    ASSUME Types, NEW p \in User, Call(p) \/ Step(p)
    PROVE  \A u \in User : u # p =>
              loc'[u] = loc[u] /\ RList'[u] = RList[u] /\ got'[u] = got[u]
<1>1. CASE Call(p)
  BY <1>1 DEF Call, Enqueue, Dequeue, TryRetire, Set, Types
<1>2. CASE RetireKeep(p) \/ RetirePass(p) \/ RetireReset(p) \/ RetireFree(p)
  BY <1>2 DEF RetireKeep, RetirePass, RetireReset, RetireFree, Done, Goto, Set, Types
<1>3. CASE ScanTakes(p) \/ ScanMisses(p) \/ Fill(p) \/ ReadTail(p)
  BY <1>3 DEF ScanTakes, ScanMisses, Fill, ReadTail, Goto, Set, Types
<1>4. CASE ProtectTail(p) \/ CheckTail(p) \/ ReadTailNext(p) \/ HelpTail(p)
  BY <1>4 DEF ProtectTail, CheckTail, ReadTailNext, HelpTail, Restart, Goto, Set, Types
<1>5. CASE Link(p) \/ Swing(p) \/ ReadHead(p) \/ ProtectHead(p) \/ CheckHead(p)
  BY <1>5 DEF Link, Swing, ReadHead, ProtectHead, CheckHead, Restart, Goto, Set, Types
<1>6. CASE ReadHeadTail(p) \/ ReadHeadNext(p) \/ ProtectNext(p) \/ DequeueEmpty(p)
  BY <1>6 DEF ReadHeadTail, ReadHeadNext, ProtectNext, DequeueEmpty, Goto, Set, Types
<1>7. CASE RecheckHead(p) \/ HelpHead(p) \/ Move(p)
  BY <1>7 DEF RecheckHead, HelpHead, Move, Restart, Goto, Set, Types
<1>8. CASE Copy(p)
  BY <1>8 DEF Copy, TryRetire, Set, Types
<1>. QED
  BY <1>1, <1>2, <1>3, <1>4, <1>5, <1>6, <1>7, <1>8 DEF Step

\* The values the locals take.
LEMMA TypedValues ==
    ASSUME Types, NEW p \in User
    PROVE  /\ loc \in [User -> Local] /\ loc[p] \in Local
           /\ head \in Node /\ tail \in Node /\ scan[p] \in Node
           /\ loc[p].first \in Slot => next[loc[p].first] \in Node
           /\ NoMessage \in Message \cup {NoMessage}
BY DEF Types, Node

\* A step that sets all locals.
LEMMA SetIs ==
    ASSUME Types, NEW p \in User, NEW locals \in Local, Set(p, locals)
    PROVE  loc' \in [User -> Local] /\ loc'[p] = locals
BY DEF Types, Set

\* A step that only moves on to another label.
LEMMA GotoIs ==
    ASSUME Types, NEW p \in User, NEW l \in Label, Goto(p, l)
    PROVE  /\ loc' \in [User -> Local]
           /\ loc'[p].pc = l
           /\ loc'[p].msg = loc[p].msg /\ loc'[p].node = loc[p].node
           /\ loc'[p].first = loc[p].first /\ loc'[p].second = loc[p].second
           /\ loc'[p].last = loc[p].last /\ loc'[p].wasEmpty = loc[p].wasEmpty
           /\ loc'[p].todo = loc[p].todo /\ loc'[p].k = loc[p].k
           /\ loc'[p].then = loc[p].then
<1> PICK r, s : r = loc[p] /\ s = [r EXCEPT !.pc = l]
  OBVIOUS
<1>1. r \in Local /\ Set(p, s)
  BY TypedValues DEF Goto, Set
<1>2. s \in Local
  BY <1>1 DEF Local
<1>3. loc' \in [User -> Local] /\ loc'[p] = s
  BY <1>1, <1>2, SetIs
<1>. QED
  BY <1>1, <1>3 DEF Local

\* A step that starts the loop over.
LEMMA RestartIs ==
    ASSUME Types, NEW p \in User, NEW l \in Label, Restart(p, l)
    PROVE  /\ loc' \in [User -> Local]
           /\ loc'[p].pc = l
           /\ loc'[p].msg = loc[p].msg /\ loc'[p].node = loc[p].node
           /\ loc'[p].todo = <<>>
<1> PICK r, s : r = loc[p] /\ s = [Idle EXCEPT !.pc = l, !.msg = r.msg, !.node = r.node]
  OBVIOUS
<1>1. r \in Local /\ Set(p, s)
  BY TypedValues DEF Restart
<1>2. s \in Local /\ s.pc = l /\ s.msg = r.msg /\ s.node = r.node /\ s.todo = <<>>
  BY <1>1, IdleIs DEF Local
<1>3. loc' \in [User -> Local] /\ loc'[p] = s
  BY <1>1, <1>2, SetIs
<1>. QED
  BY <1>2, <1>3

\* The locals of the user after RetirePass.
LEMMA RetirePassIs ==
    ASSUME Types, NEW p \in User, RetirePass(p)
    PROVE  /\ loc' \in [User -> Local]
           /\ loc[p].pc = "compare" /\ loc'[p].pc = "compare"
           /\ loc'[p].msg = loc[p].msg /\ loc'[p].todo = loc[p].todo
           /\ loc'[p].then = loc[p].then
           /\ loc'[p].k = loc[p].k + 1
<1> PICK r, s : r = loc[p] /\ s = [r EXCEPT !.k = r.k + 1]
  OBVIOUS
<1>0. loc[p].k + 1 \in 0 .. 2 * MaxUser
  BY SMTT(30), TypedValues, MaxUserAssumption DEF RetirePass, SharedIdx, Types, Local
<1>1. r \in Local /\ Set(p, s)
  BY TypedValues DEF RetirePass, Set
<1>2. s \in Local
  BY ZenonT(60), <1>0, <1>1 DEF Local, Label
<1>3. loc' \in [User -> Local] /\ loc'[p] = s
  BY <1>1, <1>2, SetIs
<1>. QED
  BY <1>1, <1>3, IdleIs DEF Local, RetirePass, At

\* The locals of the user after RetireReset.
LEMMA RetireResetIs ==
    ASSUME Types, NEW p \in User, RetireReset(p)
    PROVE  /\ loc' \in [User -> Local]
           /\ loc[p].pc = "compare" /\ loc'[p].pc = "free"
           /\ loc'[p].msg = loc[p].msg /\ loc'[p].todo = loc[p].todo
           /\ loc'[p].then = loc[p].then /\ loc'[p].k = loc[p].k
BY GotoIs DEF RetireReset, At, Label

\* The locals of the user after ScanTakes.
LEMMA ScanTakesIs ==
    ASSUME Types, NEW p \in User, ScanTakes(p)
    PROVE  /\ loc' \in [User -> Local]
           /\ loc[p].pc = "scan" /\ loc'[p].pc = "fill" /\ loc'[p].msg = loc[p].msg
           /\ loc'[p].todo = loc[p].todo
           /\ loc'[p].node = scan[p]
<1> PICK r, s : r = loc[p] /\ s = [r EXCEPT !.pc = "fill", !.node = scan[p], !.cnt = 0]
  OBVIOUS
<1>0. scan[p] \in Node /\ 0 \in 0 .. NumSlots - 1
  BY TypedValues, NumSlotsAssumption
<1>1. r \in Local /\ Set(p, s)
  BY TypedValues DEF ScanTakes, Set
<1>2. s \in Local
  BY ZenonT(60), <1>0, <1>1 DEF Local, Label
<1>3. loc' \in [User -> Local] /\ loc'[p] = s
  BY <1>1, <1>2, SetIs
<1>. QED
  BY <1>1, <1>3, IdleIs DEF Local, ScanTakes, At

\* The locals of the user after Fill.
LEMMA FillIs ==
    ASSUME Types, NEW p \in User, Fill(p)
    PROVE  /\ loc' \in [User -> Local]
           /\ loc[p].pc = "fill" /\ loc'[p].pc = "tail" /\ loc'[p].msg = loc[p].msg
           /\ loc'[p].todo = loc[p].todo /\ loc'[p].node = loc[p].node
BY GotoIs DEF Fill, At, Label

\* The locals of the user after ReadTail.
LEMMA ReadTailIs ==
    ASSUME Types, NEW p \in User, ReadTail(p)
    PROVE  /\ loc' \in [User -> Local]
           /\ loc[p].pc = "tail" /\ loc'[p].pc = "protectTail"
           /\ loc'[p].msg = loc[p].msg /\ loc'[p].todo = loc[p].todo
           /\ loc'[p].node = loc[p].node
           /\ loc'[p].first = tail
<1> PICK r, s : r = loc[p] /\ s = [r EXCEPT !.pc = "protectTail", !.first = tail]
  OBVIOUS
<1>0. tail \in Node
  BY TypedValues
<1>1. r \in Local /\ Set(p, s)
  BY TypedValues DEF ReadTail, Set
<1>2. s \in Local
  BY ZenonT(60), <1>0, <1>1 DEF Local, Label
<1>3. loc' \in [User -> Local] /\ loc'[p] = s
  BY <1>1, <1>2, SetIs
<1>. QED
  BY <1>1, <1>3, IdleIs DEF Local, ReadTail, At

\* The locals of the user after ProtectTail.
LEMMA ProtectTailIs ==
    ASSUME Types, NEW p \in User, ProtectTail(p)
    PROVE  /\ loc' \in [User -> Local]
           /\ loc[p].pc = "protectTail" /\ loc'[p].pc = "checkTail"
           /\ loc'[p].msg = loc[p].msg /\ loc'[p].todo = loc[p].todo
           /\ loc'[p].node = loc[p].node /\ loc'[p].first = loc[p].first
BY GotoIs DEF ProtectTail, At, Label

\* The locals of the user after CheckTail.
LEMMA CheckTailIs ==
    ASSUME Types, NEW p \in User, CheckTail(p)
    PROVE  /\ loc' \in [User -> Local]
           /\ loc[p].pc = "checkTail" /\ loc'[p].pc \in {"tailNext", "tail"}
           /\ loc'[p].msg = loc[p].msg /\ loc'[p].node = loc[p].node
           /\ loc[p].todo = <<>> => loc'[p].todo = <<>>
           /\ loc'[p].pc = "tailNext" =>
                 loc'[p].first = loc[p].first /\ tail = loc[p].first
BY SMTT(30), GotoIs, RestartIs DEF CheckTail, At, Label

\* The locals of the user after ReadTailNext.
LEMMA ReadTailNextIs ==
    ASSUME Types, NEW p \in User, loc[p].first \in Slot, ReadTailNext(p)
    PROVE  /\ loc' \in [User -> Local]
           /\ loc[p].pc = "tailNext" /\ loc'[p].pc \in {"link", "helpTail"}
           /\ loc'[p].msg = loc[p].msg /\ loc'[p].todo = loc[p].todo
           /\ loc'[p].node = loc[p].node /\ loc'[p].first = loc[p].first
           /\ loc'[p].second = next[loc[p].first]
           /\ loc'[p].pc = "link" <=> next[loc[p].first] = UNDEFINED_NODE
<1> PICK r, s :
      /\ r = loc[p]
      /\ s = [r EXCEPT !.second = next[loc[p].first],
                       !.pc = IF next[loc[p].first] = UNDEFINED_NODE
                              THEN "link" ELSE "helpTail"]
  OBVIOUS
<1>0. next[loc[p].first] \in Node
  BY TypedValues
<1>1. r \in Local /\ Set(p, s)
  BY TypedValues DEF ReadTailNext, Set
<1>2. s \in Local
  BY ZenonT(60), <1>0, <1>1 DEF Local, Label
<1>3. loc' \in [User -> Local] /\ loc'[p] = s
  BY <1>1, <1>2, SetIs
<1>. QED
  BY <1>1, <1>3, IdleIs DEF Local, ReadTailNext, At

\* The locals of the user after HelpTail.
LEMMA HelpTailIs ==
    ASSUME Types, NEW p \in User, HelpTail(p)
    PROVE  /\ loc' \in [User -> Local]
           /\ loc[p].pc = "helpTail" /\ loc'[p].pc = "tail"
           /\ loc'[p].msg = loc[p].msg /\ loc'[p].node = loc[p].node
           /\ loc'[p].todo = <<>>
BY RestartIs DEF HelpTail, At, Label

\* The locals of the user after Link.
LEMMA LinkIs ==
    ASSUME Types, NEW p \in User, Link(p)
    PROVE  /\ loc' \in [User -> Local]
           /\ loc[p].pc = "link" /\ loc'[p].pc \in {"swing", "tail"}
           /\ loc'[p].msg = loc[p].msg /\ loc'[p].node = loc[p].node
           /\ loc[p].todo = <<>> => loc'[p].todo = <<>>
           /\ loc'[p].pc = "swing" <=> next[loc[p].first] = UNDEFINED_NODE
           /\ loc'[p].pc = "swing" => loc'[p].first = loc[p].first
BY GotoIs, RestartIs DEF Link, At, Label

\* The locals of the user after Swing.
LEMMA SwingIs ==
    ASSUME Types, NEW p \in User, Swing(p)
    PROVE  /\ loc' \in [User -> Local]
           /\ loc[p].pc = "swing" /\ loc'[p] = Idle
BY SetIs, IdleIs DEF Swing, At

\* The locals of the user after ReadHead.
LEMMA ReadHeadIs ==
    ASSUME Types, NEW p \in User, ReadHead(p)
    PROVE  /\ loc' \in [User -> Local]
           /\ loc[p].pc = "head" /\ loc'[p].pc = "protectHead"
           /\ loc'[p].first = head
           /\ loc'[p].msg = NoMessage /\ loc'[p].todo = <<>>
<1> PICK r, s : r = loc[p] /\ s = [Idle EXCEPT !.pc = "protectHead", !.first = head]
  OBVIOUS
<1>0. head \in Node
  BY TypedValues
<1>1. r \in Local /\ Set(p, s)
  BY TypedValues DEF ReadHead, Set
<1>2. s \in Local
  BY ZenonT(60), <1>0, IdleIs DEF Local, Label
<1>3. loc' \in [User -> Local] /\ loc'[p] = s
  BY <1>1, <1>2, SetIs
<1>. QED
  BY <1>1, <1>3, IdleIs DEF Local, ReadHead, At

\* The locals of the user after ProtectHead.
LEMMA ProtectHeadIs ==
    ASSUME Types, NEW p \in User, ProtectHead(p)
    PROVE  /\ loc' \in [User -> Local]
           /\ loc[p].pc = "protectHead" /\ loc'[p].pc = "checkHead"
           /\ loc'[p].msg = loc[p].msg /\ loc'[p].todo = loc[p].todo
           /\ loc'[p].first = loc[p].first
BY GotoIs DEF ProtectHead, At, Label

\* The locals of the user after CheckHead.
LEMMA CheckHeadIs ==
    ASSUME Types, NEW p \in User, CheckHead(p)
    PROVE  /\ loc' \in [User -> Local]
           /\ loc[p].pc = "checkHead" /\ loc'[p].pc \in {"headTail", "head"}
           /\ loc'[p].msg = loc[p].msg
           /\ loc[p].todo = <<>> => loc'[p].todo = <<>>
           /\ loc'[p].pc = "headTail" =>
                 loc'[p].first = loc[p].first /\ head = loc[p].first
BY GotoIs, RestartIs DEF CheckHead, At, Label

\* The locals of the user after ReadHeadTail.
LEMMA ReadHeadTailIs ==
    ASSUME Types, NEW p \in User, ReadHeadTail(p)
    PROVE  /\ loc' \in [User -> Local]
           /\ loc[p].pc = "headTail" /\ loc'[p].pc = "headNext"
           /\ loc'[p].msg = loc[p].msg /\ loc'[p].todo = loc[p].todo
           /\ loc'[p].first = loc[p].first
           /\ loc'[p].last = tail
<1> PICK r, s : r = loc[p] /\ s = [r EXCEPT !.pc = "headNext", !.last = tail]
  OBVIOUS
<1>0. tail \in Node
  BY TypedValues
<1>1. r \in Local /\ Set(p, s)
  BY TypedValues DEF ReadHeadTail, Set
<1>2. s \in Local
  BY ZenonT(60), <1>0, <1>1 DEF Local, Label
<1>3. loc' \in [User -> Local] /\ loc'[p] = s
  BY SMTT(30), <1>1, <1>2, SetIs
<1>. QED
  BY <1>1, <1>3, IdleIs DEF Local, ReadHeadTail, At

\* The locals of the user after ReadHeadNext.
LEMMA ReadHeadNextIs ==
    ASSUME Types, NEW p \in User, loc[p].first \in Slot, ReadHeadNext(p)
    PROVE  /\ loc' \in [User -> Local]
           /\ loc[p].pc = "headNext" /\ loc'[p].pc = "protectNext"
           /\ loc'[p].msg = loc[p].msg /\ loc'[p].todo = loc[p].todo
           /\ loc'[p].first = loc[p].first /\ loc'[p].last = loc[p].last
           /\ loc'[p].second = next[loc[p].first]
           /\ loc'[p].wasEmpty = (next[head] = UNDEFINED_NODE)
<1> PICK r, s :
      /\ r = loc[p]
      /\ s = [r EXCEPT !.pc = "protectNext", !.second = next[loc[p].first],
                       !.wasEmpty = (next[head] = UNDEFINED_NODE)]
  OBVIOUS
<1>0. next[loc[p].first] \in Node
  BY TypedValues
<1>1. r \in Local /\ Set(p, s)
  BY TypedValues DEF ReadHeadNext, Set
<1>2. s \in Local
  BY ZenonT(60), <1>0, <1>1 DEF Local, Label
<1>3. loc' \in [User -> Local] /\ loc'[p] = s
  BY <1>1, <1>2, SetIs
<1>. QED
  BY <1>1, <1>3, IdleIs DEF Local, ReadHeadNext, At

\* The locals of the user after ProtectNext.
LEMMA ProtectNextIs ==
    ASSUME Types, NEW p \in User, ProtectNext(p)
    PROVE  /\ loc' \in [User -> Local]
           /\ loc[p].pc = "protectNext" /\ loc'[p].pc = "recheckHead"
           /\ loc'[p].msg = loc[p].msg /\ loc'[p].todo = loc[p].todo
           /\ loc'[p].first = loc[p].first /\ loc'[p].second = loc[p].second
           /\ loc'[p].last = loc[p].last /\ loc'[p].wasEmpty = loc[p].wasEmpty
BY GotoIs DEF ProtectNext, At, Label

\* The locals of the user after DequeueEmpty.
LEMMA DequeueEmptyIs ==
    ASSUME Types, NEW p \in User, DequeueEmpty(p)
    PROVE  /\ loc' \in [User -> Local]
           /\ loc[p].pc = "recheckHead" /\ loc'[p] = Idle
           /\ loc[p].second = UNDEFINED_NODE
BY SetIs, IdleIs DEF DequeueEmpty, At, Empty

\* The locals of the user after RecheckHead.
LEMMA RecheckHeadIs ==
    ASSUME Types, NEW p \in User, RecheckHead(p)
    PROVE  /\ loc' \in [User -> Local]
           /\ loc[p].pc = "recheckHead"
           /\ loc'[p].pc \in {"head", "helpHead", "move"}
           /\ loc'[p].msg = loc[p].msg
           /\ loc[p].todo = <<>> => loc'[p].todo = <<>>
           /\ loc'[p].pc # "head" => loc'[p].first = loc[p].first /\ head = loc[p].first
           /\ loc'[p].pc # "head" =>
                 loc'[p].second = loc[p].second /\ loc[p].second # UNDEFINED_NODE
           /\ loc'[p].pc = "move" => loc[p].last # loc[p].first
<1> PICK r, s, l : /\ r = loc[p]
                   /\ l = IF r.first = r.last THEN "helpHead" ELSE "move"
                   /\ s = [r EXCEPT !.last = UNDEFINED_NODE, !.wasEmpty = FALSE, !.pc = l]
  OBVIOUS
<1>1. r \in Local /\ r.pc = "recheckHead"
  BY TypedValues DEF RecheckHead, At
<1>0. l \in Label /\ UNDEFINED_NODE \in Node
  BY DEF Label, Node
<1>2. s \in Local
  BY <1>0, <1>1 DEF Local
<1>3. CASE head # r.first
  BY <1>1, <1>3, RestartIs DEF RecheckHead, Label
<1>4. CASE head = r.first
  <2>1. Set(p, s) /\ r.second # UNDEFINED_NODE
    BY <1>4 DEF RecheckHead, Set, Empty
  <2>2. loc' \in [User -> Local] /\ loc'[p] = s
    BY <1>2, <2>1, SetIs
  <2>. QED
    BY <1>1, <1>4, <2>1, <2>2 DEF Local
<1>. QED
  BY <1>3, <1>4

\* The locals of the user after HelpHead.
LEMMA HelpHeadIs ==
    ASSUME Types, NEW p \in User, HelpHead(p)
    PROVE  /\ loc' \in [User -> Local]
           /\ loc[p].pc = "helpHead" /\ loc'[p].pc = "head"
           /\ loc'[p].msg = loc[p].msg
           /\ loc'[p].todo = <<>>
BY RestartIs DEF HelpHead, At, Label

\* The locals of the user after Move.
LEMMA MoveIs ==
    ASSUME Types, NEW p \in User, Move(p)
    PROVE  /\ loc' \in [User -> Local]
           /\ loc[p].pc = "move" /\ loc'[p].pc \in {"copy", "head"}
           /\ loc'[p].msg = loc[p].msg
           /\ loc[p].todo = <<>> => loc'[p].todo = <<>>
           /\ loc'[p].pc = "copy" <=> head = loc[p].first
           /\ loc'[p].pc = "copy" =>
                 loc'[p].first = loc[p].first /\ loc'[p].second = loc[p].second
BY GotoIs, RestartIs DEF Move, At, Label

\* TryRetire goes to the first node of the list, or to what follows it.
LEMMA RetiresIs ==
    ASSUME Types, NEW p \in User, NEW locals \in Local, NEW nodes \in Seq(Slot),
           Set(p, Retire(locals, nodes))
    PROVE  /\ loc' \in [User -> Local]
           /\ loc'[p].todo = nodes
           /\ nodes # <<>> => /\ loc'[p].pc = "compare" /\ loc'[p].k = 0
                              /\ loc'[p].then = locals.then /\ loc'[p].msg = locals.msg
           /\ nodes = <<>> => /\ loc'[p].pc = locals.then
                              /\ loc'[p].msg = IF locals.then = "idle" THEN NoMessage
                                                                       ELSE locals.msg
<1> PICK s : s = Retire(locals, nodes)
  OBVIOUS
<1>1. s \in Local
  BY RetireIs
<1>2. loc' \in [User -> Local] /\ loc'[p] = s
  BY <1>1, SetIs
<1>. QED
  BY <1>2, RetireIs

\* The locals of the user after Done.
LEMMA DoneIs ==
    ASSUME Types, NEW p \in User, loc[p].todo # <<>>, Done(p)
    PROVE  /\ loc' \in [User -> Local]
           /\ loc[p].todo \in Seq(Slot) /\ Tail(loc[p].todo) \in Seq(Slot)
           /\ RetiredNode(p) \in Slot
           /\ loc'[p].todo = Tail(loc[p].todo)
           /\ loc'[p].todo # <<>> =>
                 /\ loc'[p].pc = "compare" /\ loc'[p].k = 0
                 /\ loc'[p].then = loc[p].then /\ loc'[p].msg = loc[p].msg
           /\ loc'[p].todo = <<>> =>
                 /\ loc'[p].pc = loc[p].then
                 /\ loc'[p].msg = IF loc[p].then = "idle" THEN NoMessage ELSE loc[p].msg
<1>1. loc[p] \in Local
  BY TypedValues
<1>2. /\ loc[p].todo \in Seq(Slot) /\ Tail(loc[p].todo) \in Seq(Slot)
      /\ RetiredNode(p) \in Slot
  BY <1>1, HeadTailProperties DEF Local, RetiredNode
<1>. QED
  BY ZenonT(40), <1>1, <1>2, RetiresIs DEF Done

\* The locals of the user after Enqueue.
LEMMA EnqueueIs ==
    ASSUME Types, NEW p \in User, NEW m \in Message, Enqueue(p, m)
    PROVE  /\ loc' \in [User -> Local]
           /\ RList[p] \in Seq(Slot) /\ RList' = [RList EXCEPT ![p] = <<>>]
           /\ loc[p].pc = "idle" /\ loc'[p].msg = m /\ loc'[p].todo = RList[p]
           /\ RList[p] # <<>> =>
                 loc'[p].pc = "compare" /\ loc'[p].k = 0 /\ loc'[p].then = "scan"
           /\ RList[p] = <<>> => loc'[p].pc = "scan"
<1> PICK s : s = [Idle EXCEPT !.msg = m, !.then = "scan"]
  OBVIOUS
<1>1. s \in Local /\ s.msg = m /\ s.then = "scan"
  BY IdleIs DEF Local
<1>2. RList[p] \in Seq(Slot)
  BY DEF Types
<1>3. Set(p, Retire(s, RList[p])) /\ RList' = [RList EXCEPT ![p] = <<>>]
  BY DEF Enqueue, TryRetire
<1>. QED
  BY ZenonT(40), <1>1, <1>2, <1>3, RetiresIs DEF Enqueue, At

\* The locals of the user after Dequeue.
LEMMA DequeueIs ==
    ASSUME Types, NEW p \in User, Dequeue(p)
    PROVE  /\ loc' \in [User -> Local]
           /\ RList[p] \in Seq(Slot) /\ RList' = [RList EXCEPT ![p] = <<>>]
           /\ loc[p].pc = "idle" /\ loc'[p].msg = NoMessage /\ loc'[p].todo = RList[p]
           /\ RList[p] # <<>> =>
                 loc'[p].pc = "compare" /\ loc'[p].k = 0 /\ loc'[p].then = "head"
           /\ RList[p] = <<>> => loc'[p].pc = "head"
<1> PICK s : s = [Idle EXCEPT !.then = "head"]
  OBVIOUS
<1>1. s \in Local /\ s.msg = NoMessage /\ s.then = "head"
  BY IdleIs DEF Local
<1>2. RList[p] \in Seq(Slot)
  BY DEF Types
<1>3. Set(p, Retire(s, RList[p])) /\ RList' = [RList EXCEPT ![p] = <<>>]
  BY DEF Dequeue, TryRetire
<1>. QED
  BY ZenonT(40), <1>1, <1>2, <1>3, RetiresIs DEF Dequeue, At

\* The locals of the user after Copy.
LEMMA CopyIs ==
    ASSUME Types, NEW p \in User, loc[p].first \in Slot, Copy(p)
    PROVE  /\ loc' \in [User -> Local]
           /\ RList[p] \in Seq(Slot) /\ RList' = [RList EXCEPT ![p] = <<>>]
           /\ loc[p].pc = "copy" /\ loc'[p].pc = "compare" /\ loc'[p].k = 0
           /\ loc'[p].todo = Append(RList[p], loc[p].first) /\ loc'[p].todo # <<>>
           /\ loc'[p].then = "idle" /\ loc'[p].msg = NoMessage
<1> PICK s, nodes : /\ s = [Idle EXCEPT !.then = "idle"]
                    /\ nodes = Append(RList[p], loc[p].first)
  OBVIOUS
<1>1. s \in Local /\ s.msg = NoMessage /\ s.then = "idle"
  BY IdleIs DEF Local
<1>2. RList[p] \in Seq(Slot)
  BY DEF Types
<1>3. nodes \in Seq(Slot) /\ nodes # <<>>
  BY <1>2, AppendProperties
<1>4. Set(p, Retire(s, nodes)) /\ RList' = [RList EXCEPT ![p] = <<>>]
  BY DEF Copy, TryRetire
<1>5. /\ loc' \in [User -> Local] /\ loc'[p].todo = nodes
      /\ loc'[p].pc = "compare" /\ loc'[p].k = 0
      /\ loc'[p].then = "idle" /\ loc'[p].msg = NoMessage
  BY ZenonT(40), <1>1, <1>3, <1>4, RetiresIs
<1>. QED
  BY <1>2, <1>3, <1>4, <1>5 DEF Copy, At

\* The locals of the user after ScanMisses.
LEMMA ScanMissesIs ==
    ASSUME Types, NEW p \in User, ScanMisses(p)
    PROVE  /\ loc' \in [User -> Local]
           /\ loc[p].pc = "scan"
           /\ \/ loc'[p].pc = "scan" /\ loc'[p].msg = loc[p].msg
                                     /\ loc'[p].todo = loc[p].todo
              \/ loc'[p] = Idle
<1>1. CASE loc[p].cnt + 1 < NumSlots
  <2> PICK r, s : r = loc[p] /\ s = [r EXCEPT !.cnt = r.cnt + 1]
    OBVIOUS
  <2>1. r \in Local
    BY TypedValues
  <2>2. r.cnt + 1 \in 0 .. NumSlots - 1
    BY <1>1, <2>1, NumSlotsAssumption DEF Local
  <2>3. s \in Local
    BY <2>1, <2>2 DEF Local
  <2>4. Set(p, s)
    BY <1>1 DEF ScanMisses, Set
  <2>5. loc' \in [User -> Local] /\ loc'[p] = s
    BY <2>3, <2>4, SetIs
  <2>. QED
    BY <2>1, <2>5 DEF Local, ScanMisses, At
<1>2. CASE ~(loc[p].cnt + 1 < NumSlots)
  <2>1. Set(p, Idle)
    BY <1>2 DEF ScanMisses
  <2>. QED
    BY <2>1, SetIs, IdleIs DEF ScanMisses, At
<1>. QED
  BY <1>1, <1>2

\* scan stays an index.
LEMMA ScanNextIs ==
    ASSUME NEW i \in Slot
    PROVE  ScanNext(i) \in Slot
<1>1. i + 1 \in Nat
  BY NumSlotsAssumption DEF Slot
<1>. QED
  BY <1>1, NumSlotsAssumption DEF Slot, ScanNext

\* Every step keeps the types.
LEMMA TypesStep ==
    ASSUME Inv, NEW p \in User, Call(p) \/ Step(p)
    PROVE  Types'
<1>0. /\ Types /\ loc[p] \in Local
      /\ loc[p].pc \in Named0 \cup {"protectTail", "protectHead"} => loc[p].first \in Slot
      /\ loc[p].pc \in Safe1 \cup {"helpTail"} => loc[p].second \in Slot
      /\ loc[p].pc \in HasNode \cup {"swing"} =>
            loc[p].node \in Slot /\ loc[p].msg \in Message
      /\ loc[p].pc \in Retiring => loc[p].todo # <<>>
      /\ loc[p].second \in Node
      /\ Index0(p) \in SharedIdx /\ Index1(p) \in SharedIdx
      /\ UNDEFINED_NODE \in Node /\ \A s \in Slot : s \in Node
  <2>1. Types /\ loc[p] \in Local /\ loc[p].second \in Node
    BY DEF Inv, Types, Local
  <2>2. Index0(p) \in SharedIdx /\ Index1(p) \in SharedIdx
    BY MaxUserAssumption DEF Index0, Index1, SharedIdx, User
  <2>3. UNDEFINED_NODE \in Node /\ \A s \in Slot : s \in Node
    BY DEF Node
  <2>. QED
    BY <2>1, <2>2, <2>3 DEF Inv, LocalInv, LocalOk
<1> USE DEF Types
<1>1. CASE \E m \in Sends[p] : Enqueue(p, m)
  <2>1. PICK m \in Message : Enqueue(p, m)
    BY <1>1, SendsAssumption DEF User
  <2>2. calls' \in Nat
    BY <1>0, <2>1, MaxCallsAssumption DEF Enqueue
  <2>3. <<>> \in Seq(Slot)
    OBVIOUS
  <2>4. RList' \in [User -> Seq(Slot)] /\ loc' \in [User -> Local]
    <3>1. RList' = [RList EXCEPT ![p] = <<>>] /\ loc' \in [User -> Local]
      BY <1>0, <2>1, EnqueueIs
    <3>2. RList \in [User -> Seq(Slot)]
      BY <1>0
    <3>. QED
      BY <2>3, <3>1, <3>2
  <2>. QED
    BY <1>0, <2>1, <2>2, <2>4 DEF Enqueue, listVars
<1>2. CASE Dequeue(p)
  <2>3. <<>> \in Seq(Slot)
    OBVIOUS
  <2>4. RList' \in [User -> Seq(Slot)] /\ loc' \in [User -> Local]
    <3>1. RList' = [RList EXCEPT ![p] = <<>>] /\ loc' \in [User -> Local]
      BY <1>0, <1>2, DequeueIs
    <3>2. RList \in [User -> Seq(Slot)]
      BY <1>0
    <3>. QED
      BY <2>3, <3>1, <3>2
  <2>. QED
    BY <1>0, <1>2, <2>4 DEF Dequeue, listVars
<1>3. CASE Copy(p)
  <2>1. <<>> \in Seq(Slot) /\ loc[p].pc = "copy"
    BY <1>3 DEF Copy, At
  <2>2. got' \in [User -> Message \cup {NoMessage}]
    BY <1>0, <1>3, <2>1 DEF Copy, Safe1
  <2>. QED
    BY ZenonT(40), <1>0, <1>3, <2>1, <2>2, CopyIs DEF Copy, listVars, Named0, Safe0
<1>4. CASE RetireKeep(p)
  <2>1. loc[p].todo # <<>>
    BY <1>0, <1>4 DEF RetireKeep, At, Retiring
  <2>2. RList[p] \in Seq(Slot) /\ RetiredNode(p) \in Slot /\ loc' \in [User -> Local]
    BY <1>0, <1>4, <2>1, DoneIs DEF RetireKeep
  <2>3. Append(RList[p], RetiredNode(p)) \in Seq(Slot)
    BY <2>2, AppendProperties
  <2>. QED
    BY <1>0, <1>4, <2>2, <2>3 DEF RetireKeep, listVars
<1>5. CASE RetirePass(p)
  BY <1>0, <1>5, RetirePassIs DEF RetirePass, listVars
<1>6. CASE RetireReset(p)
  <2>1. loc[p].todo # <<>>
    BY <1>0, <1>6 DEF RetireReset, At, Retiring
  <2>. QED
    BY <1>0, <1>6, <2>1, RetireResetIs DEF RetireReset
<1>7. CASE RetireFree(p)
  <2>1. loc[p].todo # <<>>
    BY <1>0, <1>7 DEF RetireFree, At, Retiring
  <2>. QED
    BY <1>0, <1>7, <2>1, DoneIs DEF RetireFree
<1>8. CASE ScanTakes(p)
  BY <1>0, <1>8, ScanTakesIs DEF ScanTakes
<1>9. CASE ScanMisses(p)
  BY <1>0, <1>9, ScanMissesIs, ScanNextIs DEF ScanMisses, listVars
<1>10. CASE Fill(p)
  BY <1>0, <1>10, FillIs DEF Fill, HasNode
<1>11. CASE ReadTail(p)
  BY <1>0, <1>11, ReadTailIs DEF ReadTail, listVars
<1>12. CASE ProtectTail(p)
  BY <1>0, <1>12, ProtectTailIs DEF ProtectTail, listVars
<1>13. CASE CheckTail(p)
  BY <1>0, <1>13, CheckTailIs DEF CheckTail, listVars
<1>14. CASE ReadTailNext(p)
  BY <1>0, <1>14, ReadTailNextIs DEF ReadTailNext, listVars, At, Named0, Safe0
<1>15. CASE HelpTail(p)
  BY <1>0, <1>15, HelpTailIs DEF HelpTail, CasTail
<1>16. CASE Link(p)
  BY <1>0, <1>16, LinkIs DEF Link, HasNode
<1>17. CASE Swing(p)
  BY <1>0, <1>17, SwingIs DEF Swing, CasTail
<1>18. CASE ReadHead(p)
  BY <1>0, <1>18, ReadHeadIs DEF ReadHead, listVars
<1>19. CASE ProtectHead(p)
  BY <1>0, <1>19, ProtectHeadIs DEF ProtectHead, listVars
<1>20. CASE CheckHead(p)
  BY <1>0, <1>20, CheckHeadIs DEF CheckHead, listVars
<1>21. CASE ReadHeadTail(p)
  BY <1>0, <1>21, ReadHeadTailIs DEF ReadHeadTail, listVars
<1>22. CASE ReadHeadNext(p)
  BY <1>0, <1>22, ReadHeadNextIs DEF ReadHeadNext, listVars, At, Named0, Safe0, FromHead
<1>23. CASE ProtectNext(p)
  BY <1>0, <1>23, ProtectNextIs DEF ProtectNext, listVars
<1>24. CASE DequeueEmpty(p)
  BY <1>0, <1>24, DequeueEmptyIs DEF DequeueEmpty, listVars
<1>25. CASE RecheckHead(p)
  BY <1>0, <1>25, RecheckHeadIs DEF RecheckHead, listVars
<1>26. CASE HelpHead(p)
  BY <1>0, <1>26, HelpHeadIs DEF HelpHead, CasTail, Safe1, At
<1>27. CASE Move(p)
  BY SMTT(30), <1>0, <1>27, MoveIs DEF Move, Safe1
<1>. QED
  BY <1>1, <1>2, <1>3, <1>4, <1>5, <1>6, <1>7, <1>8, <1>9, <1>10, <1>11, <1>12, <1>13,
     <1>14, <1>15, <1>16, <1>17, <1>18, <1>19, <1>20, <1>21, <1>22, <1>23, <1>24, <1>25,
     <1>26, <1>27 DEF Call, Step

-----------------------------------------------------------------------------
(***************************************************************************)
(* Locals                                                                  *)
(***************************************************************************)

\* Every step leaves the locals its label needs.
LEMMA LocalInvStep ==
    ASSUME Inv, NEW p \in User, Call(p) \/ Step(p)
    PROVE  LocalInv'
<1>0. /\ Types /\ LocalOk(loc[p]) /\ loc[p] \in Local
      /\ loc[p].then \in {"idle", "scan", "head"}
      /\ loc[p].second \in Node
  BY TypedValues DEF Inv, LocalInv, Local
<1> SUFFICES LocalOk(loc'[p])
  BY <1>0, OthersStay DEF Inv, LocalInv
<1> USE MessageAssumption DEF LocalOk, Retiring, HasNode, Named0, Safe0, FromHead, Safe1
<1>1. CASE \E m \in Sends[p] : Enqueue(p, m)
  <2>1. PICK m \in Message : Enqueue(p, m)
    BY <1>1, SendsAssumption DEF User
  <2>. QED
    BY <1>0, <2>1, EnqueueIs
<1>2. CASE Dequeue(p)
  BY <1>0, <1>2, DequeueIs
<1>3. CASE RetireKeep(p)
  BY <1>0, <1>3, DoneIs DEF RetireKeep, At
<1>4. CASE RetirePass(p)
  BY <1>0, <1>4, RetirePassIs
<1>5. CASE RetireReset(p)
  BY <1>0, <1>5, RetireResetIs
<1>6. CASE RetireFree(p)
  BY <1>0, <1>6, DoneIs DEF RetireFree, At
<1>7. CASE ScanTakes(p)
  BY <1>0, <1>7, ScanTakesIs DEF Types
<1>8. CASE ScanMisses(p)
  BY <1>0, <1>8, ScanMissesIs, IdleIs
<1>9. CASE Fill(p)
  BY <1>0, <1>9, FillIs
<1>10. CASE ReadTail(p)
  BY <1>0, <1>10, ReadTailIs DEF Types
<1>11. CASE ProtectTail(p)
  BY <1>0, <1>11, ProtectTailIs
<1>12. CASE CheckTail(p)
  BY <1>0, <1>12, CheckTailIs
<1>13. CASE ReadTailNext(p)
  <2>1. loc[p].first \in Slot /\ next[loc[p].first] \in Node
    BY <1>0, <1>13, TypedValues DEF ReadTailNext, At
  <2>. QED
    BY <1>0, <1>13, <2>1, ReadTailNextIs DEF Node
<1>14. CASE HelpTail(p)
  BY <1>0, <1>14, HelpTailIs
<1>15. CASE Link(p)
  BY <1>0, <1>15, LinkIs
<1>16. CASE Swing(p)
  BY <1>0, <1>16, SwingIs, IdleIs
<1>17. CASE ReadHead(p)
  BY <1>0, <1>17, ReadHeadIs DEF Types
<1>18. CASE ProtectHead(p)
  BY <1>0, <1>18, ProtectHeadIs
<1>19. CASE CheckHead(p)
  BY <1>0, <1>19, CheckHeadIs
<1>20. CASE ReadHeadTail(p)
  BY <1>0, <1>20, ReadHeadTailIs
<1>21. CASE ReadHeadNext(p)
  BY <1>0, <1>21, ReadHeadNextIs DEF ReadHeadNext, At
<1>22. CASE ProtectNext(p)
  BY <1>0, <1>22, ProtectNextIs
<1>23. CASE DequeueEmpty(p)
  BY <1>0, <1>23, DequeueEmptyIs, IdleIs
<1>24. CASE RecheckHead(p)
  <2>1. loc[p].second # UNDEFINED_NODE => loc[p].second \in Slot
    BY <1>0 DEF Node
  <2>2. loc[p].pc = "recheckHead" /\ loc[p].first \in Slot
    BY <1>0, <1>24 DEF RecheckHead, At
  <2>. QED
    BY <1>0, <1>24, <2>1, <2>2, RecheckHeadIs
<1>25. CASE HelpHead(p)
  BY <1>0, <1>25, HelpHeadIs
<1>26. CASE Move(p)
  BY <1>0, <1>26, MoveIs
<1>27. CASE Copy(p)
  BY <1>0, <1>27, CopyIs DEF Copy, At
<1>. QED
  BY <1>1, <1>2, <1>3, <1>4, <1>5, <1>6, <1>7, <1>8, <1>9, <1>10, <1>11, <1>12, <1>13,
     <1>14, <1>15, <1>16, <1>17, <1>18, <1>19, <1>20, <1>21, <1>22, <1>23, <1>24,
     <1>25, <1>26, <1>27 DEF Call, Step


-----------------------------------------------------------------------------
(***************************************************************************)
(* Lists                                                                   *)
(***************************************************************************)

\* A retire list with one node more.
LEMMA RangeOfAppend ==
    ASSUME NEW nodes \in Seq(Slot), NEW s \in Slot
    PROVE  /\ Range(Append(nodes, s)) = Range(nodes) \cup {s}
           /\ Distinct(nodes) /\ s \notin Range(nodes) => Distinct(Append(nodes, s))
<1> PICK t : t = Append(nodes, s)
  OBVIOUS
<1>1. /\ t \in Seq(Slot) /\ Len(t) = Len(nodes) + 1 /\ Len(nodes) \in Nat
      /\ \A i \in 1 .. Len(nodes) : t[i] = nodes[i]
      /\ t[Len(nodes) + 1] = s
  BY AppendProperties, LenProperties
<1>2. DOMAIN t = 1 .. Len(nodes) + 1 /\ DOMAIN nodes = 1 .. Len(nodes)
  BY <1>1, LenProperties
<1>3. \A i \in 1 .. Len(nodes) + 1 : i \in 1 .. Len(nodes) \/ i = Len(nodes) + 1
  BY <1>1
<1>4. /\ Len(nodes) + 1 \in 1 .. Len(nodes) + 1
      /\ \A i \in 1 .. Len(nodes) : i \in 1 .. Len(nodes) + 1
  BY <1>1
<1>5. Range(t) = Range(nodes) \cup {s}
  BY <1>1, <1>2, <1>3, <1>4, Zenon DEF Range
<1>6. ASSUME Distinct(nodes), s \notin Range(nodes) PROVE Distinct(t)
  <2>1. \A i \in 1 .. Len(nodes) : nodes[i] # s
    BY <1>2, <1>6 DEF Range
  <2>. QED
    BY <1>1, <1>3, <1>6, <2>1 DEF Distinct
<1>. QED
  BY <1>5, <1>6

\* A retire list without its first node.
LEMMA RangeOfTail ==
    ASSUME NEW nodes \in Seq(Slot), nodes # <<>>
    PROVE  /\ Range(nodes) = {Head(nodes)} \cup Range(Tail(nodes))
           /\ Distinct(nodes) => /\ Distinct(Tail(nodes))
                                 /\ Head(nodes) \notin Range(Tail(nodes))
<1> PICK t : t = Tail(nodes)
  OBVIOUS
<1>1. /\ t \in Seq(Slot) /\ Len(t) = Len(nodes) - 1
      /\ Len(nodes) \in Nat /\ Len(t) \in Nat
      /\ \A i \in 1 .. Len(t) : t[i] = nodes[i + 1]
      /\ Head(nodes) = nodes[1]
  BY HeadTailProperties, LenProperties
<1>2. DOMAIN t = 1 .. Len(t) /\ DOMAIN nodes = 1 .. Len(nodes)
  BY <1>1, LenProperties
<1>3. /\ \A i \in 1 .. Len(nodes) :
            i = 1 \/ (i - 1 \in 1 .. Len(t) /\ t[i - 1] = nodes[i])
      /\ \A i \in 1 .. Len(t) : i + 1 \in 1 .. Len(nodes)
      /\ 1 \in 1 .. Len(nodes)
  BY <1>1
<1>4. Range(nodes) = {nodes[1]} \cup Range(t)
  <2>1. \A i \in 1 .. Len(nodes) : nodes[i] \in {nodes[1]} \cup Range(t)
    BY <1>2, <1>3 DEF Range
  <2>2. \A i \in 1 .. Len(t) : t[i] \in Range(nodes)
    BY <1>1, <1>2, <1>3 DEF Range
  <2>3. nodes[1] \in Range(nodes)
    BY <1>2, <1>3 DEF Range
  <2>4. /\ \A s \in Range(nodes) : s \in {nodes[1]} \cup Range(t)
        /\ \A s \in Range(t) : s \in Range(nodes)
    BY <1>2, <2>1, <2>2 DEF Range
  <2>. QED
    BY <2>3, <2>4, Zenon
<1>5. ASSUME Distinct(nodes) PROVE Distinct(t) /\ nodes[1] \notin Range(t)
  <2>1. \A i \in 1 .. Len(t) : i + 1 # 1 /\ t[i] # nodes[1]
    BY <1>1, <1>3, <1>5 DEF Distinct
  <2>2. nodes[1] \notin Range(t)
    BY <1>2, <2>1 DEF Range
  <2>3. Distinct(t)
    BY <1>1, <1>3, <1>5 DEF Distinct
  <2>. QED
    BY <2>2, <2>3
<1>. QED
  BY <1>1, <1>4, <1>5

\* A retire list without nodes.
LEMMA RangeOfNone == Range(<<>>) = {} /\ Distinct(<<>>)
BY DEF Range, Distinct

\* What is on a list, and what follows what.
LEMMA ListIs ==
    ASSUME NEW L, NEW h, NEW nx, IsList(L, h, nx)
    PROVE  /\ Range(L) \subseteq Slot /\ h \in Range(L)
           /\ Len(L) \in Nat \ {0} /\ L[Len(L)] \in Range(L)
           /\ \A s \in Range(L) : nx[s] = UNDEFINED_NODE => s = L[Len(L)]
           /\ \A s \in Range(L) : nx[s] # UNDEFINED_NODE =>
                 nx[s] \in Range(L) /\ nx[s] # h
<1>1. Len(L) \in Nat \ {0} /\ DOMAIN L = 1 .. Len(L) /\ L[1] = h
  BY LenProperties, EmptySeq DEF IsList
<1>2. \A i \in 1 .. Len(L) : L[i] \in Slot
  BY <1>1 DEF IsList
<1>3. \A s : s \in Range(L) <=> \E i \in 1 .. Len(L) : s = L[i]
  BY <1>1 DEF Range
<1>4. ASSUME NEW i \in 1 .. Len(L) - 1
      PROVE  nx[L[i]] = L[i + 1] /\ L[i + 1] # UNDEFINED_NODE /\ i + 1 \in 1 .. Len(L)
             /\ L[i + 1] # h
  BY <1>1, <1>2, <1>4 DEF IsList, Slot, UNDEFINED_NODE
<1>5. PICK n : n = Len(L)
  OBVIOUS
<1>6. /\ \A i \in 1 .. Len(L) : i = Len(L) \/ i \in 1 .. Len(L) - 1
      /\ 1 \in 1 .. Len(L) /\ Len(L) \in 1 .. Len(L)
  <2>1. n \in Nat \ {0}
    BY <1>1, <1>5, Zenon
  <2>2. /\ \A i \in 1 .. n : i = n \/ i \in 1 .. n - 1
        /\ 1 \in 1 .. n /\ n \in 1 .. n
    BY <2>1
  <2>. QED
    BY <1>5, <2>2
<1>7. nx[L[Len(L)]] = UNDEFINED_NODE
  BY DEF IsList
<1>8. \A s \in Range(L) : /\ nx[s] = UNDEFINED_NODE => s = L[Len(L)]
                          /\ nx[s] # UNDEFINED_NODE => nx[s] \in Range(L) /\ nx[s] # h
  <2> SUFFICES ASSUME NEW i \in 1 .. Len(L)
               PROVE  /\ nx[L[i]] = UNDEFINED_NODE => L[i] = L[Len(L)]
                      /\ nx[L[i]] # UNDEFINED_NODE =>
                            nx[L[i]] \in Range(L) /\ nx[L[i]] # h
    BY <1>3
  <2>1. CASE i = Len(L)
    BY <1>7, <2>1
  <2>2. CASE i \in 1 .. Len(L) - 1
    BY SMTT(30), <1>3, <1>4, <2>2
  <2>. QED
    BY <1>6, <2>1, <2>2
<1>9. Range(L) \subseteq Slot /\ h \in Range(L) /\ L[Len(L)] \in Range(L)
  BY <1>1, <1>2, <1>3, <1>6
<1>. QED
  BY <1>1, <1>8, <1>9

\* Only the next of the nodes on it matter to a list.
LEMMA ListStays ==
    ASSUME NEW L, NEW h, NEW nx, NEW ny, IsList(L, h, nx),
           \A s \in Range(L) : ny[s] = nx[s]
    PROVE  IsList(L, h, ny)
<1>1. Len(L) \in Nat \ {0} /\ DOMAIN L = 1 .. Len(L)
  BY LenProperties, EmptySeq DEF IsList
<1>2. \A i \in 1 .. Len(L) : ny[L[i]] = nx[L[i]]
  BY <1>1 DEF Range
<1>3. Len(L) \in 1 .. Len(L) /\ \A i \in 1 .. Len(L) - 1 : i \in 1 .. Len(L)
  BY <1>1
<1>. QED
  BY <1>2, <1>3 DEF IsList

\* Linking a node that has no successor to the last one.
LEMMA ListGrows ==
    ASSUME NEW L, NEW h, NEW nx \in [Slot -> Node], IsList(L, h, nx),
           NEW n \in Slot, n \notin Range(L), nx[n] = UNDEFINED_NODE
    PROVE  IsList(Append(L, n), h, [nx EXCEPT ![L[Len(L)]] = n])
<1> PICK M, ny : M = Append(L, n) /\ ny = [nx EXCEPT ![L[Len(L)]] = n]
  OBVIOUS
<1>1. L \in Seq(Slot) /\ Len(L) \in Nat \ {0} /\ DOMAIN L = 1 .. Len(L) /\ L[1] = h
  BY LenProperties, EmptySeq DEF IsList
<1>2. /\ M \in Seq(Slot) /\ Len(M) = Len(L) + 1
      /\ \A i \in 1 .. Len(L) : M[i] = L[i]
      /\ M[Len(L) + 1] = n
  BY <1>1, AppendProperties
<1>3. \A i \in 1 .. Len(L) : L[i] \in Slot /\ L[i] # n
  BY <1>1 DEF Range
<1>4. Distinct(M)
  BY <1>1, <1>3, RangeOfAppend DEF IsList, Distinct
<1>5. ny[n] = UNDEFINED_NODE
  BY <1>1, <1>3
<1>6. ASSUME NEW i \in 1 .. Len(M) - 1 PROVE ny[M[i]] = M[i + 1]
  <2>1. CASE i = Len(L)
    BY <1>1, <1>2, <1>3, <2>1
  <2>2. CASE i # Len(L)
    <3>1. i \in 1 .. Len(L) - 1 /\ i \in 1 .. Len(L) /\ i + 1 \in 1 .. Len(L)
      BY <1>1, <1>2, <2>2
    <3>2. L[i] # L[Len(L)]
      <4>1. Len(L) \in 1 .. Len(L)
        BY <1>1
      <4>. QED
        BY <2>2, <3>1, <4>1 DEF IsList
    <3>3. ny[L[i]] = nx[L[i]] /\ nx[L[i]] = L[i + 1]
      BY <1>3, <3>1, <3>2 DEF IsList
    <3>. QED
      BY <1>2, <3>1, <3>3
  <2>. QED
    BY <2>1, <2>2
<1>7. M # <<>> /\ M[1] = h
  <2>1. 1 \in 1 .. Len(L) /\ Len(M) # 0
    BY <1>1, <1>2
  <2>. QED
    BY <1>1, <1>2, <2>1
<1>. QED
  BY <1>1, <1>2, <1>4, <1>5, <1>6, <1>7 DEF IsList, Distinct

\* Moving the head to its successor.
LEMMA ListShrinks ==
    ASSUME NEW L, NEW h, NEW nx, IsList(L, h, nx), nx[h] # UNDEFINED_NODE
    PROVE  /\ IsList(Tail(L), nx[h], nx)
           /\ Range(Tail(L)) = Range(L) \ {h}
           /\ Len(L) > 1 /\ L[2] = nx[h]
<1> PICK M : M = Tail(L)
  OBVIOUS
<1>1. L \in Seq(Slot) /\ L # <<>> /\ Len(L) \in Nat \ {0} /\ L[1] = h /\ Distinct(L)
  BY LenProperties, EmptySeq DEF IsList, Distinct
<1>2. Len(L) > 1 /\ L[2] = nx[h]
  BY <1>1 DEF IsList
<1>3. /\ M \in Seq(Slot) /\ Len(M) = Len(L) - 1 /\ Head(L) = L[1]
      /\ \A i \in 1 .. Len(M) : M[i] = L[i + 1]
  BY <1>1, HeadTailProperties
<1>4. Distinct(M) /\ Range(M) = Range(L) \ {h}
  BY <1>1, <1>3, RangeOfTail
<1>5. \A i \in 1 .. Len(M) - 1 : nx[M[i]] = M[i + 1]
  BY <1>1, <1>2, <1>3 DEF IsList
<1>6. nx[M[Len(M)]] = UNDEFINED_NODE /\ M[1] = nx[h] /\ M # <<>>
  <2>1. /\ Len(M) \in 1 .. Len(M) /\ Len(M) + 1 = Len(L) /\ 1 \in 1 .. Len(M)
        /\ Len(M) # 0
    BY <1>1, <1>2, <1>3
  <2>2. M[Len(M)] = L[Len(L)] /\ M[1] = L[2]
    BY <1>3, <2>1
  <2>3. M # <<>>
    BY <1>3, <2>1
  <2>. QED
    BY <1>2, <2>2, <2>3 DEF IsList
<1>. QED
  BY <1>2, <1>3, <1>4, <1>5, <1>6 DEF IsList, Distinct

-----------------------------------------------------------------------------
(***************************************************************************)
(* What a step does to the slots and their owners                          *)
(***************************************************************************)

\* The compare-and-swaps that succeed.
Linking(p) == Link(p) /\ next[loc[p].first] = UNDEFINED_NODE
Moving(p)  == Move(p) /\ head = loc[p].first

\* Nothing happens to a slot, but tail may move on to the next node.
Quiet(p) ==
    /\ UNCHANGED <<head, used, next, data>>
    /\ Held(p)' = Held(p) /\ Retired(p)' = Retired(p)
    /\ tail' = tail \/ (tail' = next[tail] /\ next[tail] # UNDEFINED_NODE)

\* The steps after which a slot is different or has another owner.
Active(p) ==
    \/ ScanTakes(p) \/ Fill(p) \/ Linking(p) \/ Moving(p)
    \/ RetireReset(p) \/ RetireFree(p)

Effect(p) ==
    \/ Quiet(p) /\ ~Active(p)
    \/ /\ ScanTakes(p)
       /\ Held(p) = {} /\ Held(p)' = {scan[p]} /\ Retired(p)' = Retired(p)
    \/ /\ Fill(p)
       /\ Held(p) = {loc[p].node} /\ Held(p)' = Held(p) /\ Retired(p)' = Retired(p)
    \/ /\ Linking(p)
       /\ Held(p) = {loc[p].node} /\ Held(p)' = {} /\ Retired(p)' = Retired(p)
    \/ /\ Moving(p)
       /\ Held(p)' = Held(p) /\ Retired(p)' = Retired(p) \cup {loc[p].first}
    \/ /\ RetireReset(p)
       /\ RetiredNode(p) \in Retired(p)
       /\ Held(p)' = Held(p) /\ Retired(p)' = Retired(p)
    \/ /\ RetireFree(p)
       /\ RetiredNode(p) \in Retired(p)
       /\ Held(p)' = Held(p) /\ Retired(p)' = Retired(p) \ {RetiredNode(p)}

\* Where the active steps are taken.
LEMMA ActiveAt ==
    ASSUME NEW p \in User
    PROVE  Active(p) => \/ loc[p].pc = "scan" /\ ScanTakes(p)
                        \/ loc[p].pc = "fill" /\ Fill(p)
                        \/ loc[p].pc = "link" /\ Linking(p)
                        \/ loc[p].pc = "move" /\ Moving(p)
                        \/ loc[p].pc = "compare" /\ RetireReset(p)
                        \/ loc[p].pc = "free" /\ RetireFree(p)
BY DEF Active, ScanTakes, Fill, Linking, Moving, RetireReset, RetireFree, Link, Move, At

\* Held, by the labels.
LEMMA HeldIs ==
    ASSUME NEW p \in User
    PROVE  /\ Held(p) = IF loc[p].pc \in HasNode THEN {loc[p].node} ELSE {}
           /\ Held(p)' = IF loc'[p].pc \in HasNode THEN {loc'[p].node} ELSE {}
BY DEF Held, HasNode

\* Away from the retire list and from the compare-and-swap of a dequeue.
LEMMA RetiredStays ==
    ASSUME NEW p \in User, LocalOk(loc[p]), LocalOk(loc'[p]), RList'[p] = RList[p],
           loc[p].pc \notin Retiring \cup {"copy"},
           loc'[p].pc \notin Retiring \cup {"copy"}
    PROVE  Retired(p)' = Retired(p)
BY DEF Retired, LocalOk, At

\* Where TryRetire takes the list.
LEMMA TryRetireIsQuiet ==
    ASSUME Inv, NEW p \in User, Call(p) \/ Copy(p)
    PROVE  Quiet(p) /\ ~Active(p)
<1>0. Types /\ LocalOk(loc[p]) /\ RList \in [User -> Seq(Slot)]
  BY DEF Inv, LocalInv, Types
<1>1. CASE Copy(p)
  <2>1. loc[p].pc = "copy" /\ loc[p].first \in Slot /\ loc[p].todo = <<>>
    BY <1>0, <1>1 DEF Copy, At, LocalOk, Named0, Safe0, Retiring
  <2>2. /\ RList[p] \in Seq(Slot) /\ RList'[p] = <<>>
        /\ loc'[p].pc = "compare" /\ loc'[p].todo = Append(RList[p], loc[p].first)
    BY <1>0, <1>1, <2>1, CopyIs
  <2>3. Range(loc'[p].todo) = Range(RList[p]) \cup {loc[p].first}
    BY <2>1, <2>2, RangeOfAppend
  <2>4. Retired(p)' = Retired(p)
    BY <2>1, <2>2, <2>3, RangeOfNone DEF Retired, At
  <2>5. Held(p)' = Held(p)
    BY <2>1, <2>2, HeldIs DEF HasNode
  <2>. QED
    BY <1>1, <2>1, <2>4, <2>5, ActiveAt DEF Copy, Quiet, listVars
<1>2. ASSUME Call(p) PROVE Quiet(p) /\ ~Active(p)
  <2>1. /\ RList'[p] = <<>> /\ loc[p].pc = "idle"
        /\ loc'[p].pc \in {"compare", "head", "scan"} /\ loc'[p].todo = RList[p]
    <3>1. CASE Dequeue(p)
      BY <1>0, <3>1, DequeueIs
    <3>2. CASE \E m \in Sends[p] : Enqueue(p, m)
      <4>1. PICK m \in Message : Enqueue(p, m)
        BY <3>2, SendsAssumption DEF User
      <4>. QED
        BY <1>0, <4>1, EnqueueIs
    <3>. QED
      BY <1>2, <3>1, <3>2 DEF Call
  <2>2. loc[p].todo = <<>>
    BY <1>0, <2>1 DEF LocalOk, Retiring
  <2>3. Retired(p)' = Retired(p)
    BY <2>1, <2>2, RangeOfNone DEF Retired, At
  <2>4. Held(p)' = Held(p)
    BY <2>1, HeldIs DEF HasNode
  <2>. QED
    BY <1>2, <2>1, <2>3, <2>4, ActiveAt DEF Call, Enqueue, Dequeue, Quiet, listVars
<1>. QED
  BY <1>1, <1>2

\* Where a user goes through its retire list.
LEMMA RetireEffect ==
    ASSUME Inv, NEW p \in User,
           RetireKeep(p) \/ RetirePass(p) \/ RetireReset(p) \/ RetireFree(p)
    PROVE  Effect(p)
<1>0. /\ Types /\ LocalOk(loc[p]) /\ RList \in [User -> Seq(Slot)]
      /\ loc[p].then \in {"idle", "head", "scan"} /\ loc[p].pc \in Retiring
      /\ loc[p].todo \in Seq(Slot) /\ loc[p].todo # <<>>
  <2>1. Types /\ LocalOk(loc[p]) /\ RList \in [User -> Seq(Slot)] /\ loc[p] \in Local
    BY DEF Inv, LocalInv, Types
  <2>2. loc[p].pc \in Retiring
    BY DEF RetireKeep, RetirePass, RetireReset, RetireFree, At, Retiring
  <2>. QED
    BY <2>1, <2>2 DEF LocalOk, Local
<1>1. /\ Range(loc[p].todo) = {RetiredNode(p)} \cup Range(Tail(loc[p].todo))
      /\ RetiredNode(p) \notin Range(Tail(loc[p].todo))
      /\ RetiredNode(p) \notin Range(RList[p])
      /\ Retired(p) = Range(RList[p]) \cup Range(loc[p].todo)
      /\ RetiredNode(p) \in Slot
  <2>1. Distinct(loc[p].todo) /\ Range(RList[p]) \cap Range(loc[p].todo) = {}
    BY DEF Inv, RetireInv
  <2>2. Retired(p) = Range(RList[p]) \cup Range(loc[p].todo)
    BY <1>0 DEF Retired, At, Retiring
  <2>3. RetiredNode(p) \in Slot
    BY <1>0, HeadTailProperties DEF RetiredNode
  <2>. QED
    BY <1>0, <2>1, <2>2, <2>3, RangeOfTail DEF RetiredNode
<1>2. CASE RetireKeep(p)
  <2>1. /\ loc'[p].todo = Tail(loc[p].todo)
        /\ loc'[p].pc \in {"idle", "head", "scan", "compare"}
    BY <1>0, <1>2, DoneIs DEF RetireKeep
  <2>2. RList[p] \in Seq(Slot) /\ RList'[p] = Append(RList[p], RetiredNode(p))
    BY <1>0, <1>2 DEF RetireKeep
  <2>3. Range(RList'[p]) = Range(RList[p]) \cup {RetiredNode(p)}
    BY <1>1, <2>2, RangeOfAppend
  <2>4. Retired(p)' = Retired(p)
    BY <1>1, <2>1, <2>3 DEF Retired, At
  <2>5. Held(p)' = Held(p)
    BY <1>0, <2>1, HeldIs DEF HasNode, Retiring
  <2>. QED
    BY <1>2, <2>4, <2>5, ActiveAt DEF RetireKeep, RetireReset, At, Effect, Quiet,
       listVars
<1>3. CASE RetirePass(p)
  <2>1. /\ loc'[p].todo = loc[p].todo /\ loc[p].pc = "compare" /\ loc'[p].pc = "compare"
        /\ RList' = RList
    BY <1>0, <1>3, RetirePassIs DEF RetirePass
  <2>. QED
    <3>1. Held(p)' = Held(p) /\ Retired(p)' = Retired(p)
      BY <2>1, HeldIs DEF Retired, At, HasNode
    <3>. QED
      BY <1>3, <2>1, <3>1, ActiveAt DEF RetirePass, RetireReset, Effect, Quiet, listVars
<1>4. CASE RetireReset(p)
  <2>1. /\ loc'[p].todo = loc[p].todo /\ loc[p].pc = "compare" /\ loc'[p].pc = "free"
        /\ RList' = RList
    BY <1>0, <1>4, RetireResetIs DEF RetireReset
  <2>2. Held(p)' = Held(p) /\ Retired(p)' = Retired(p)
    BY <2>1, HeldIs DEF Retired, At, HasNode
  <2>. QED
    BY <1>1, <1>4, <2>2 DEF Effect
<1>5. CASE RetireFree(p)
  <2>1. /\ loc'[p].todo = Tail(loc[p].todo) /\ RList' = RList
        /\ loc'[p].pc \in {"idle", "head", "scan", "compare"}
    BY <1>0, <1>5, DoneIs DEF RetireFree
  <2>2. Retired(p)' = Retired(p) \ {RetiredNode(p)}
    BY <1>1, <2>1 DEF Retired, At
  <2>3. Held(p)' = Held(p)
    BY <1>0, <2>1, HeldIs DEF HasNode, Retiring
  <2>. QED
    BY <1>1, <1>5, <2>2, <2>3 DEF Effect
<1>. QED
  BY <1>2, <1>3, <1>4, <1>5

\* Moving on within a call.
LEMMA OwnersStay ==
    ASSUME NEW p \in User, LocalOk(loc[p]), LocalOk(loc'[p]), RList' = RList,
           loc[p].pc \notin Retiring \cup {"copy"},
           loc'[p].pc \notin Retiring \cup {"copy"},
           loc[p].pc \in HasNode <=> loc'[p].pc \in HasNode,
           loc'[p].pc \in HasNode => loc'[p].node = loc[p].node
    PROVE  Held(p)' = Held(p) /\ Retired(p)' = Retired(p)
BY RetiredStays, HeldIs

\* Every step has one of the effects.
LEMMA EffectIs ==
    ASSUME Inv, NEW p \in User, Call(p) \/ Step(p)
    PROVE  Effect(p)
<1>0. /\ Types /\ LocalOk(loc[p]) /\ LocalOk(loc'[p])
      /\ loc[p].pc \in {"tailNext", "headNext"} => loc[p].first \in Slot
      /\ loc[p].second \in Node
  BY LocalInvStep, TypedValues DEF Inv, LocalInv, LocalOk, Local,
     Named0, Safe0, FromHead
<1>1. CASE Call(p) \/ Copy(p)
  BY <1>1, TryRetireIsQuiet DEF Effect
<1>2. CASE RetireKeep(p) \/ RetirePass(p) \/ RetireReset(p) \/ RetireFree(p)
  BY SMTT(30), <1>2, RetireEffect
<1> USE DEF HasNode, Retiring
<1>3. CASE ScanMisses(p)
  <2>2. Held(p)' = Held(p) /\ Retired(p)' = Retired(p)
    BY <1>0, <1>3, ScanMissesIs, OwnersStay, IdleIs DEF ScanMisses
  <2>. QED
    BY <1>3, <2>2, ActiveAt DEF ScanMisses, Effect, Quiet, listVars, At, ScanTakes
<1>4. CASE ReadTail(p)
  <2>2. Held(p)' = Held(p) /\ Retired(p)' = Retired(p)
    BY <1>0, <1>4, ReadTailIs, OwnersStay DEF ReadTail
  <2>. QED
    BY <1>4, <2>2, ActiveAt DEF ReadTail, Effect, Quiet, listVars, At
<1>5. CASE ProtectTail(p)
  <2>2. Held(p)' = Held(p) /\ Retired(p)' = Retired(p)
    BY <1>0, <1>5, ProtectTailIs, OwnersStay DEF ProtectTail
  <2>. QED
    BY <1>5, <2>2, ActiveAt DEF ProtectTail, Effect, Quiet, listVars, At
<1>6. CASE CheckTail(p)
  <2>2. Held(p)' = Held(p) /\ Retired(p)' = Retired(p)
    BY <1>0, <1>6, CheckTailIs, OwnersStay DEF CheckTail
  <2>. QED
    BY <1>6, <2>2, ActiveAt DEF CheckTail, Effect, Quiet, listVars, At
<1>7. CASE ReadTailNext(p)
  <2>1. loc[p].first \in Slot
    BY SMTT(30), <1>0, <1>7 DEF ReadTailNext, At
  <2>2. Held(p)' = Held(p) /\ Retired(p)' = Retired(p)
    BY <1>0, <1>7, <2>1, ReadTailNextIs, OwnersStay DEF ReadTailNext
  <2>. QED
    BY <1>7, <2>2, ActiveAt DEF ReadTailNext, Effect, Quiet, listVars, At
<1>8. CASE ReadHead(p)
  <2>2. Held(p)' = Held(p) /\ Retired(p)' = Retired(p)
    BY <1>0, <1>8, ReadHeadIs, OwnersStay DEF ReadHead
  <2>. QED
    BY <1>8, <2>2, ActiveAt DEF ReadHead, Effect, Quiet, listVars, At
<1>9. CASE ProtectHead(p)
  <2>2. Held(p)' = Held(p) /\ Retired(p)' = Retired(p)
    BY <1>0, <1>9, ProtectHeadIs, OwnersStay DEF ProtectHead
  <2>. QED
    BY <1>9, <2>2, ActiveAt DEF ProtectHead, Effect, Quiet, listVars, At
<1>10. CASE CheckHead(p)
  <2>2. Held(p)' = Held(p) /\ Retired(p)' = Retired(p)
    BY <1>0, <1>10, CheckHeadIs, OwnersStay DEF CheckHead
  <2>. QED
    BY <1>10, <2>2, ActiveAt DEF CheckHead, Effect, Quiet, listVars, At
<1>11. CASE ReadHeadTail(p)
  <2>2. Held(p)' = Held(p) /\ Retired(p)' = Retired(p)
    BY <1>0, <1>11, ReadHeadTailIs, OwnersStay DEF ReadHeadTail
  <2>. QED
    BY <1>11, <2>2, ActiveAt DEF ReadHeadTail, Effect, Quiet, listVars, At
<1>12. CASE ReadHeadNext(p)
  <2>1. loc[p].first \in Slot
    BY SMTT(30), <1>0, <1>12 DEF ReadHeadNext, At
  <2>2. Held(p)' = Held(p) /\ Retired(p)' = Retired(p)
    BY <1>0, <1>12, <2>1, ReadHeadNextIs, OwnersStay DEF ReadHeadNext
  <2>. QED
    BY <1>12, <2>2, ActiveAt DEF ReadHeadNext, Effect, Quiet, listVars, At
<1>13. CASE ProtectNext(p)
  <2>2. Held(p)' = Held(p) /\ Retired(p)' = Retired(p)
    BY <1>0, <1>13, ProtectNextIs, OwnersStay DEF ProtectNext
  <2>. QED
    BY <1>13, <2>2, ActiveAt DEF ProtectNext, Effect, Quiet, listVars, At
<1>14. CASE DequeueEmpty(p)
  <2>2. Held(p)' = Held(p) /\ Retired(p)' = Retired(p)
    BY <1>0, <1>14, DequeueEmptyIs, OwnersStay, IdleIs DEF DequeueEmpty
  <2>. QED
    BY <1>14, <2>2, ActiveAt DEF DequeueEmpty, Effect, Quiet, listVars, At
<1>15. CASE RecheckHead(p)
  <2>2. Held(p)' = Held(p) /\ Retired(p)' = Retired(p)
    BY <1>0, <1>15, RecheckHeadIs, OwnersStay DEF RecheckHead
  <2>. QED
    BY SMTT(30), <1>15, <2>2, ActiveAt DEF RecheckHead, Effect, Quiet, listVars, At
<1>16. CASE HelpTail(p)
  <2>1. /\ next[loc[p].first] = loc[p].second /\ loc[p].second # UNDEFINED_NODE
        /\ tail' = IF tail = loc[p].first THEN loc[p].second ELSE tail
    BY <1>0, <1>16 DEF HelpTail, CasTail, At, Inv, ReadInv, LocalOk, Safe1, Slot,
       UNDEFINED_NODE
  <2>2. Held(p)' = Held(p) /\ Retired(p)' = Retired(p)
    BY <1>0, <1>16, HelpTailIs, OwnersStay DEF HelpTail
  <2>. QED
    BY <1>16, <2>1, <2>2, ActiveAt DEF HelpTail, Effect, Quiet, At
<1>17. CASE Swing(p)
  <2>1. /\ next[loc[p].first] = loc[p].node /\ loc[p].node # UNDEFINED_NODE
        /\ tail' = IF tail = loc[p].first THEN loc[p].node ELSE tail
    BY <1>0, <1>17 DEF Swing, CasTail, At, Inv, ReadInv, LocalOk, Safe1, Slot,
       UNDEFINED_NODE
  <2>2. Held(p)' = Held(p) /\ Retired(p)' = Retired(p)
    BY <1>0, <1>17, SwingIs, OwnersStay, IdleIs DEF Swing
  <2>. QED
    BY <1>17, <2>1, <2>2, ActiveAt DEF Swing, Effect, Quiet, At
<1>18. CASE HelpHead(p)
  <2>1. /\ next[loc[p].first] = loc[p].second /\ loc[p].second # UNDEFINED_NODE
        /\ tail' = IF tail = loc[p].first THEN loc[p].second ELSE tail
    BY <1>0, <1>18 DEF HelpHead, CasTail, At, Inv, ReadInv, LocalOk, Safe1, Slot,
       UNDEFINED_NODE
  <2>2. Held(p)' = Held(p) /\ Retired(p)' = Retired(p)
    BY <1>0, <1>18, HelpHeadIs, OwnersStay DEF HelpHead
  <2>. QED
    BY <1>18, <2>1, <2>2, ActiveAt DEF HelpHead, Effect, Quiet, At
<1>19. CASE Link(p)
  <2>1. /\ loc[p].pc = "link" /\ Held(p) = {loc[p].node}
        /\ loc'[p].pc \in {"swing", "tail"} /\ loc'[p].node = loc[p].node
        /\ loc'[p].pc = "swing" <=> next[loc[p].first] = UNDEFINED_NODE
        /\ RList' = RList
    BY <1>0, <1>19, LinkIs, HeldIs DEF Link
  <2>2. Retired(p)' = Retired(p)
    BY <1>0, <2>1, RetiredStays
  <2>3. CASE next[loc[p].first] = UNDEFINED_NODE
    BY <1>19, <2>1, <2>2, <2>3, HeldIs DEF Effect, Linking
  <2>4. CASE next[loc[p].first] # UNDEFINED_NODE
    <3>1. Held(p)' = Held(p)
      BY <2>1, <2>4, HeldIs
    <3>. QED
      BY <1>19, <2>1, <2>2, <2>4, <3>1, ActiveAt
         DEF Link, Effect, Quiet, Linking
  <2>. QED
    BY <2>3, <2>4
<1>20. CASE Move(p)
  <2>1. /\ loc[p].pc = "move" /\ loc'[p].pc \in {"copy", "head"}
        /\ loc'[p].pc = "copy" <=> head = loc[p].first
        /\ loc'[p].pc = "copy" => loc'[p].first = loc[p].first
        /\ loc[p].todo = <<>> /\ loc'[p].todo = <<>> /\ RList' = RList
    BY <1>0, <1>20, MoveIs DEF Move, LocalOk
  <2>2. Held(p)' = Held(p)
    BY <2>1, HeldIs
  <2>3. CASE head = loc[p].first
    <3>1. Retired(p)' = Retired(p) \cup {loc[p].first}
      BY <2>1, <2>3, RangeOfNone DEF Retired, At
    <3>. QED
      BY <1>20, <2>2, <2>3, <3>1 DEF Effect, Moving
  <2>4. CASE head # loc[p].first
    <3>1. Retired(p)' = Retired(p)
      BY <1>0, <2>1, <2>4, RetiredStays
    <3>. QED
      BY <1>20, <2>1, <2>2, <2>4, <3>1, ActiveAt
         DEF Move, Effect, Quiet, Moving
  <2>. QED
    BY <2>3, <2>4
<1>21. CASE ScanTakes(p)
  <2>1. /\ loc[p].pc = "scan" /\ loc'[p].pc = "fill" /\ loc'[p].node = scan[p]
        /\ RList' = RList
    BY <1>0, <1>21, ScanTakesIs DEF ScanTakes
  <2>2. Retired(p)' = Retired(p)
    BY <1>0, <2>1, RetiredStays
  <2>3. Held(p) = {} /\ Held(p)' = {scan[p]}
    BY <2>1, HeldIs
  <2>. QED
    BY <1>21, <2>2, <2>3 DEF Effect
<1>22. CASE Fill(p)
  <2>1. /\ loc[p].pc = "fill" /\ loc'[p].pc = "tail" /\ loc'[p].node = loc[p].node
        /\ RList' = RList
    BY <1>0, <1>22, FillIs DEF Fill
  <2>2. Retired(p)' = Retired(p)
    BY <1>0, <2>1, RetiredStays
  <2>3. Held(p) = {loc[p].node} /\ Held(p)' = Held(p)
    BY <2>1, HeldIs
  <2>. QED
    BY <1>22, <2>2, <2>3 DEF Effect
<1>. QED
  BY <1>1, <1>2, <1>3, <1>4, <1>5, <1>6, <1>7, <1>8, <1>9, <1>10, <1>11, <1>12,
     <1>13, <1>14, <1>15, <1>16, <1>17, <1>18, <1>19, <1>20, <1>21, <1>22 DEF Step

\* The other users keep what they own.
LEMMA OthersKeep ==
    ASSUME Types, NEW p \in User, Call(p) \/ Step(p), NEW u \in User, u # p
    PROVE  Held(u)' = Held(u) /\ Retired(u)' = Retired(u)
<1>1. loc'[u] = loc[u] /\ RList'[u] = RList[u]
  BY OthersStay
<1>. QED
  BY <1>1, HeldIs DEF Retired, At

\* OneOwner, one slot at a time.
Apart ==
    /\ \A u \in User : \A s \in Held(u) \cup Retired(u) : s \notin InList
    /\ \A u, w \in User : \A s \in Held(u) : s \notin Retired(w)
    /\ \A u, w \in User : u # w => \A s \in Held(u) : s \notin Held(w)
    /\ \A u, w \in User : u # w => \A s \in Retired(u) : s \notin Retired(w)
    /\ \A s \in Slot : used[s] = 1 =>
          s \in InList \/ \E u \in User : s \in Held(u) \cup Retired(u)

\* The two ways to say it.
LEMMA OneOwnerIsApart == /\ OneOwner <=> Apart
                         /\ OneOwner' <=> Apart'
<1>1. OneOwner <=> Apart
  <2> PICK owned : owned = UNION {Held(u) \cup Retired(u) : u \in User}
    OBVIOUS
  <2>0. \A s : s \in owned <=> \E u \in User : s \in Held(u) \cup Retired(u)
    OBVIOUS
  <2>1. owned \cap InList = {} <=>
           \A u \in User : \A s \in Held(u) \cup Retired(u) : s \notin InList
    BY <2>0, Zenon
  <2>2. {s \in Slot : used[s] = 1} \subseteq InList \cup owned <=>
           \A s \in Slot : used[s] = 1 =>
              s \in InList \/ \E u \in User : s \in Held(u) \cup Retired(u)
    BY <2>0, Zenon
  <2>3. \A u, w : /\ Held(u) \cap Retired(w) = {} <=>
                        \A s \in Held(u) : s \notin Retired(w)
                  /\ Held(u) \cap Held(w) = {} <=>
                        \A s \in Held(u) : s \notin Held(w)
                  /\ Retired(u) \cap Retired(w) = {} <=>
                        \A s \in Retired(u) : s \notin Retired(w)
    BY Zenon
  <2>4. OneOwner <=>
           /\ owned \cap InList = {}
           /\ \A u, w \in User : Held(u) \cap Retired(w) = {}
           /\ \A u, w \in User : u # w => /\ Held(u) \cap Held(w) = {}
                                         /\ Retired(u) \cap Retired(w) = {}
           /\ {s \in Slot : used[s] = 1} \subseteq InList \cup owned
    BY DEF OneOwner
  <2>. QED
    BY <2>1, <2>2, <2>3, <2>4, Zenon DEF Apart
<1>2. OneOwner' <=> Apart'
  BY <1>1, PTL
<1>. QED
  BY <1>1, <1>2

\* A node in the queue is safe.
LEMMA InListIsKept ==
    ASSUME Inv, NEW s \in InList, NEW k
    PROVE  Kept(s, k)
<1>1. used[s] = 1 /\ \A w \in User : s \notin Held(w) /\ s \notin Retired(w)
  BY OneOwnerIsApart DEF Inv, OwnerInv, Apart
<1>2. ASSUME NEW w \in User, Passed(w, s, k) PROVE FALSE
  <2>1. loc[w].todo \in Seq(Slot) /\ loc[w].todo # <<>>
    BY <1>2 DEF Passed, At, Inv, LocalInv, LocalOk, Retiring, Types, Local
  <2>2. RetiredNode(w) \in Range(loc[w].todo)
    BY <2>1, RangeOfTail DEF RetiredNode
  <2>. QED
    BY <1>1, <1>2, <2>2 DEF Passed, Retired
<1>. QED
  BY <1>1, <1>2 DEF Kept

\* A node that is safe and has no successor is the last one of the queue.
LEMMA KeptIsLast ==
    ASSUME Inv, NEW s \in Slot, NEW k, Kept(s, k), next[s] = UNDEFINED_NODE
    PROVE  s \in InList /\ s = List[Len(List)]
<1>1. used[s] = 1 /\ \A w \in User : s \notin Held(w)
  BY DEF Kept
<1>2. ASSUME NEW w \in User, s \in Retired(w) PROVE FALSE
  <2>1. Freed(w, s)
    BY <1>2 DEF Inv, RetireInv
  <2>. QED
    BY <2>1 DEF Freed, Kept, Passed
<1>3. s \in InList
  BY <1>1, <1>2, OneOwnerIsApart DEF Inv, OwnerInv, Apart
<1>. QED
  BY <1>3, ListIs DEF Inv, ListInv, InList

\* What a step does to the list.
LEMMA ListAfter ==
    ASSUME Inv, NEW p \in User, Call(p) \/ Step(p)
    PROVE  /\ ListInv'
           /\ \/ /\ List' = List /\ head' = head
                 /\ ~Linking(p) /\ ~Moving(p)
              \/ /\ Linking(p)
                 /\ loc[p].first = List[Len(List)] /\ loc[p].first \in InList
                 /\ List' = Append(List, loc[p].node)
                 /\ InList' = InList \cup {loc[p].node}
              \/ /\ Moving(p) /\ loc[p].second = next[head] /\ loc[p].second = List[2]
                 /\ List' = Tail(List) /\ Len(List) > 1
                 /\ InList' = InList \ {loc[p].first}
<1>0. /\ Types /\ IsList(List, head, next) /\ tail \in InList /\ LocalOk(loc[p])
      /\ next \in [Slot -> Node] /\ List \in Seq(Slot) /\ InList \subseteq Slot
      /\ head \in InList
  BY ListIs DEF Inv, ListInv, LocalInv, Types, IsList, InList
<1>1. \A L : IsList(L, head', next') => List' = L /\ IsList(List, head, next)'
  <2> SUFFICES ASSUME NEW L, IsList(L, head', next')
               PROVE  List' = L /\ IsList(List, head, next)'
    OBVIOUS
  <2>1. List' = L
    BY WalkIs, ListIsWalk
  <2>. QED
    BY <2>1 DEF IsList
<1>2. \A s \in InList : next[s] # UNDEFINED_NODE => next[s] \in InList
  BY <1>0, ListIs DEF InList
<1>3. \A w \in User : \A s \in Held(w) \cup Retired(w) : s \notin InList
  BY OneOwnerIsApart DEF Inv, OwnerInv, Apart
<1>4. ASSUME head' = head, \A s \in InList : next'[s] = next[s],
             tail' = tail \/ (tail' = next[tail] /\ next[tail] # UNDEFINED_NODE)
      PROVE  ListInv' /\ List' = List
  <2>1. IsList(List, head', next')
    BY <1>0, <1>4, ListStays DEF InList
  <2>2. List' = List /\ IsList(List, head, next)'
    BY <1>1, <2>1
  <2>3. InList' = InList /\ tail' \in InList
    BY <1>0, <1>2, <1>4, <2>2 DEF InList
  <2>. QED
    BY <2>2, <2>3 DEF ListInv
<1>5. CASE Quiet(p) /\ ~Linking(p) /\ ~Moving(p)
  BY <1>4, <1>5 DEF Quiet
<1>6. CASE ScanTakes(p)
  BY <1>4, <1>6 DEF ScanTakes, Linking, Moving, Link, Move, At
<1>7. CASE Fill(p) /\ Held(p) = {loc[p].node}
  <2>1. \A s \in InList : s # loc[p].node
    BY <1>3, <1>7
  <2>. QED
    BY <1>0, <1>4, <1>7, <2>1 DEF Fill, Linking, Moving, Link, Move, At
<1>8. CASE RetireReset(p) /\ RetiredNode(p) \in Retired(p)
  <2>1. \A s \in InList : s # RetiredNode(p)
    BY <1>3, <1>8
  <2>. QED
    BY <1>0, <1>4, <1>8, <2>1 DEF RetireReset, Linking, Moving, Link, Move, At
<1>9. CASE RetireFree(p)
  BY <1>4, <1>9 DEF RetireFree, Linking, Moving, Link, Move, At
<1>10. CASE Linking(p) /\ Held(p) = {loc[p].node}
  <2>1. /\ loc[p].pc = "link" /\ loc[p].node \in Slot /\ loc[p].first \in Slot
        /\ next' = [next EXCEPT ![loc[p].first] = loc[p].node]
        /\ head' = head /\ tail' = tail
    BY <1>0, <1>10 DEF Linking, Link, At, LocalOk, HasNode, Named0, Safe0
  <2>2. loc[p].first \in InList /\ loc[p].first = List[Len(List)]
    BY <1>10, <2>1, KeptIsLast DEF Linking, Inv, HazardInv, Safe0
  <2>3. next[loc[p].node] = UNDEFINED_NODE /\ loc[p].node \notin InList
    BY <1>3, <1>10, <2>1 DEF Inv, NodeInv, HasNode
  <2>4. IsList(Append(List, loc[p].node), head, next')
    BY <1>0, <2>1, <2>2, <2>3, ListGrows DEF InList
  <2>5. List' = Append(List, loc[p].node) /\ IsList(List, head, next)'
    BY <1>1, <2>1, <2>4
  <2>6. InList' = InList \cup {loc[p].node}
    BY <1>0, <2>1, <2>5, RangeOfAppend DEF InList
  <2>. QED
    BY <1>0, <1>10, <2>1, <2>2, <2>5, <2>6 DEF ListInv
<1>11. CASE Moving(p)
  <2>1. /\ loc[p].pc = "move" /\ head = loc[p].first /\ head' = loc[p].second
        /\ loc[p].second \in Slot /\ next[head] = loc[p].second /\ tail # head
        /\ next' = next /\ tail' = tail
    BY <1>0, <1>11 DEF Moving, Move, At, LocalOk, Safe1, Inv, ReadInv
  <2>2. next[head] # UNDEFINED_NODE
    BY <2>1 DEF Slot, UNDEFINED_NODE
  <2>3. /\ IsList(Tail(List), head', next') /\ Range(Tail(List)) = InList \ {head}
        /\ Len(List) > 1 /\ List[2] = loc[p].second
    BY <1>0, <2>1, <2>2, ListShrinks DEF InList
  <2>4. List' = Tail(List) /\ IsList(List, head, next)'
    BY <1>1, <2>3
  <2>5. InList' = InList \ {head}
    BY <2>3, <2>4 DEF InList
  <2>. QED
    BY <1>0, <1>11, <2>1, <2>3, <2>4, <2>5 DEF ListInv
<1>12. Effect(p)
  BY EffectIs
<1>. QED
  BY <1>5, <1>6, <1>7, <1>8, <1>9, <1>10, <1>11, <1>12 DEF Effect, Active

\* A slot has one owner at a time.
LEMMA OwnerInvStep ==
    ASSUME Inv, NEW p \in User, Call(p) \/ Step(p)
    PROVE  OwnerInv'
<1> PICK H, R, H2, R2 :
      /\ H = [u \in User |-> Held(u)] /\ H2 = [u \in User |-> Held(u)']
      /\ R = [u \in User |-> Retired(u)] /\ R2 = [u \in User |-> Retired(u)']
  OBVIOUS
<1> PICK M, M2 : M = InList /\ M2 = InList'
  OBVIOUS
<1>1. /\ \A u \in User : \A s \in H[u] \cup R[u] : s \notin M /\ used[s] = 1
      /\ \A u, w \in User : \A s \in H[u] : s \notin R[w]
      /\ \A u, w \in User : u # w => \A s \in H[u] : s \notin H[w]
      /\ \A u, w \in User : u # w => \A s \in R[u] : s \notin R[w]
      /\ \A s \in Slot : used[s] = 1 => s \in M \/ \E u \in User : s \in H[u] \cup R[u]
      /\ \A s \in M : used[s] = 1
  BY OneOwnerIsApart DEF Inv, OwnerInv, Apart
<1>2. SUFFICES /\ \A u \in User : \A s \in H2[u] \cup R2[u] : s \notin M2 /\ used'[s] = 1
               /\ \A u, w \in User : \A s \in H2[u] : s \notin R2[w]
               /\ \A u, w \in User : u # w => \A s \in H2[u] : s \notin H2[w]
               /\ \A u, w \in User : u # w => \A s \in R2[u] : s \notin R2[w]
               /\ \A s \in Slot : used'[s] = 1 =>
                     s \in M2 \/ \E u \in User : s \in H2[u] \cup R2[u]
               /\ \A s \in M2 : used'[s] = 1
  BY OneOwnerIsApart DEF OwnerInv, Apart
<1>3. \A u \in User : u # p => H2[u] = H[u] /\ R2[u] = R[u]
  BY OthersKeep DEF Inv
<1>4. /\ H[p] = Held(p) /\ H2[p] = Held(p)' /\ R[p] = Retired(p) /\ R2[p] = Retired(p)'
  OBVIOUS
<1>5. /\ used \in [Slot -> {0, 1}] /\ scan[p] \in Slot
      /\ head \in M
  BY ListIs DEF Inv, Types, ListInv, InList
<1>6. CASE Quiet(p) /\ ~Active(p)
  <2>1. used' = used /\ M2 = M /\ H2[p] = H[p] /\ R2[p] = R[p]
    BY <1>4, <1>6, ListAfter DEF Quiet, Active, InList
  <2>2. \A u \in User : H2[u] = H[u] /\ R2[u] = R[u]
    BY <1>3, <2>1
  <2>. QED
    BY <1>1, <2>1, <2>2
<1>7. CASE (Fill(p) \/ RetireReset(p)) /\ Held(p)' = Held(p) /\ Retired(p)' = Retired(p)
  <2>1. used' = used /\ H2[p] = H[p] /\ R2[p] = R[p]
    BY <1>4, <1>7 DEF Fill, RetireReset
  <2>2. M2 = M
    BY <1>7, ListAfter DEF Fill, RetireReset, Linking, Moving, Link, Move, At, InList
  <2>3. \A u \in User : H2[u] = H[u] /\ R2[u] = R[u]
    BY <1>3, <2>1
  <2>. QED
    BY <1>1, <2>1, <2>2, <2>3
<1>8. CASE /\ Linking(p) /\ Held(p) = {loc[p].node} /\ Held(p)' = {}
           /\ Retired(p)' = Retired(p)
  <2>1. /\ loc[p].node \in H[p] /\ H2[p] = H[p] \ {loc[p].node} /\ R2[p] = R[p]
        /\ used' = used
    BY <1>4, <1>8 DEF Linking, Link
  <2>2. M2 = M \cup {loc[p].node}
    BY <1>8, ListAfter DEF Linking, Moving, Link, Move, At
  <2>. QED
    BY <1>1, <1>3, <2>1, <2>2
<1>9. CASE Moving(p) /\ Held(p)' = Held(p) /\ Retired(p)' = Retired(p) \cup {loc[p].first}
  <2>1. loc[p].first = head /\ H2[p] = H[p] /\ R2[p] = R[p] \cup {head} /\ used' = used
    BY <1>4, <1>9 DEF Moving, Move
  <2>2. M2 = M \ {head}
    BY <1>9, <2>1, ListAfter DEF Linking, Moving, Link, Move, At
  <2>. QED
    BY <1>1, <1>3, <1>5, <2>1, <2>2
<1>10. CASE /\ ScanTakes(p) /\ Held(p) = {} /\ Held(p)' = {scan[p]}
            /\ Retired(p)' = Retired(p)
  <2>1. /\ used' = [used EXCEPT ![scan[p]] = 1] /\ used[scan[p]] = 0
        /\ H[p] = {} /\ H2[p] = {scan[p]} /\ R2[p] = R[p]
    BY <1>4, <1>10 DEF ScanTakes
  <2>2. M2 = M
    BY <1>10, ListAfter DEF ScanTakes, Linking, Moving, Link, Move, At, InList
  <2>. QED
    BY <1>1, <1>3, <1>5, <2>1, <2>2
<1>11. CASE /\ RetireFree(p) /\ RetiredNode(p) \in Retired(p) /\ Held(p)' = Held(p)
            /\ Retired(p)' = Retired(p) \ {RetiredNode(p)}
  <2>1. /\ used' = [used EXCEPT ![RetiredNode(p)] = 0] /\ RetiredNode(p) \in R[p]
        /\ R2[p] = R[p] \ {RetiredNode(p)} /\ H2[p] = H[p]
    BY <1>4, <1>11 DEF RetireFree
  <2>2. M2 = M
    BY SMTT(30), <1>11, ListAfter DEF RetireFree, Linking, Moving, Link, Move, At, InList
  <2>. QED
    BY <1>1, <1>3, <1>5, <2>1, <2>2
<1>. QED
  BY <1>6, <1>7, <1>8, <1>9, <1>10, <1>11, EffectIs DEF Effect

\* The steps of TryRetire.
InRetire(p) == RetireKeep(p) \/ RetirePass(p) \/ RetireReset(p) \/ RetireFree(p)

\* The steps of a call that have nothing to do with retired nodes: what they
\* leave alone, and where the locals they keep come from.
Plain(p) ==
    /\ RList' = RList
    /\ loc[p].pc \notin Retiring \cup {"copy"} /\ loc'[p].pc \notin Retiring
    /\ loc'[p].pc = "copy" => Moving(p)
    /\ loc'[p].pc \in HasNode \ {"fill"} =>
          /\ loc[p].pc \in HasNode /\ (loc[p].pc = "fill" => Fill(p))
          /\ loc'[p].node = loc[p].node /\ loc'[p].msg = loc[p].msg
    /\ loc'[p].pc \in Named0 =>
          /\ loc[p].pc \in Named0 \/ ProtectTail(p) \/ ProtectHead(p)
          /\ loc'[p].first = loc[p].first
    /\ loc'[p].pc \in Named1 =>
          (loc[p].pc \in Named1 \/ ProtectNext(p)) /\ loc'[p].second = loc[p].second
    /\ loc'[p].pc \in Safe0 =>
          \/ loc[p].pc \in Safe0
          \/ loc[p].pc \in Named0 /\ loc[p].first \in {tail, head}
    /\ loc'[p].pc \in Safe1 =>
          \/ loc[p].pc \in Safe1
          \/ /\ loc[p].pc = "recheckHead"
             /\ head = loc[p].first /\ loc[p].second # UNDEFINED_NODE

\* All these steps are plain.
LEMMA Elsewhere ==
    ASSUME Inv, NEW p \in User, Step(p), ~Copy(p), ~InRetire(p)
    PROVE  Plain(p)
<1>0. Types /\ (loc[p].pc \in {"tailNext", "headNext"} => loc[p].first \in Slot)
  BY DEF Inv, LocalInv, LocalOk, Named0, Safe0, FromHead
<1> USE DEF Plain, Retiring, HasNode, Named0, Named1, Safe0, Safe1, FromHead
<1>1. CASE ScanTakes(p)
  BY <1>0, <1>1, ScanTakesIs DEF ScanTakes
<1>2. CASE ScanMisses(p)
  BY <1>0, <1>2, ScanMissesIs, IdleIs DEF ScanMisses
<1>3. CASE Fill(p)
  BY <1>0, <1>3, FillIs DEF Fill
<1>4. CASE ReadTail(p)
  BY <1>0, <1>4, ReadTailIs DEF ReadTail
<1>5. CASE ProtectTail(p)
  BY <1>0, <1>5, ProtectTailIs DEF ProtectTail
<1>6. CASE CheckTail(p)
  BY <1>0, <1>6, CheckTailIs DEF CheckTail
<1>7. CASE ReadTailNext(p)
  <2>1. loc[p].first \in Slot
    BY <1>0, <1>7 DEF ReadTailNext, At
  <2>. QED
    BY <1>0, <1>7, <2>1, ReadTailNextIs DEF ReadTailNext
<1>8. CASE HelpTail(p)
  BY <1>0, <1>8, HelpTailIs DEF HelpTail
<1>9. CASE Link(p)
  BY <1>0, <1>9, LinkIs DEF Link, Linking
<1>10. CASE Swing(p)
  BY <1>0, <1>10, SwingIs, IdleIs DEF Swing
<1>11. CASE ReadHead(p)
  BY <1>0, <1>11, ReadHeadIs DEF ReadHead
<1>12. CASE ProtectHead(p)
  BY <1>0, <1>12, ProtectHeadIs DEF ProtectHead
<1>13. CASE CheckHead(p)
  BY <1>0, <1>13, CheckHeadIs DEF CheckHead
<1>14. CASE ReadHeadTail(p)
  BY <1>0, <1>14, ReadHeadTailIs DEF ReadHeadTail
<1>15. CASE ReadHeadNext(p)
  <2>1. loc[p].first \in Slot
    BY <1>0, <1>15 DEF ReadHeadNext, At
  <2>. QED
    BY <1>0, <1>15, <2>1, ReadHeadNextIs DEF ReadHeadNext
<1>16. CASE ProtectNext(p)
  BY <1>0, <1>16, ProtectNextIs DEF ProtectNext
<1>17. CASE DequeueEmpty(p)
  BY <1>0, <1>17, DequeueEmptyIs, IdleIs DEF DequeueEmpty
<1>18. CASE RecheckHead(p)
  BY <1>0, <1>18, RecheckHeadIs DEF RecheckHead
<1>19. CASE HelpHead(p)
  BY <1>0, <1>19, HelpHeadIs DEF HelpHead
<1>20. CASE Move(p)
  BY <1>0, <1>20, MoveIs DEF Move, Moving
<1>. QED
  BY <1>1, <1>2, <1>3, <1>4, <1>5, <1>6, <1>7, <1>8, <1>9, <1>10, <1>11, <1>12,
     <1>13, <1>14, <1>15, <1>16, <1>17, <1>18, <1>19, <1>20 DEF Step, InRetire

\* The other steps end where nothing is protected and no node is at hand.
LEMMA RetireEnds ==
    ASSUME Inv, NEW p \in User, Call(p) \/ Copy(p) \/ InRetire(p)
    PROVE  loc'[p].pc \in {"idle", "scan", "head", "compare", "free"}
<1>0. /\ Types /\ LocalOk(loc[p]) /\ loc[p].then \in {"idle", "scan", "head"}
  BY DEF Inv, LocalInv, Types, Local
<1>1. CASE Copy(p)
  <2>1. loc[p].first \in Slot
    BY <1>0, <1>1 DEF Copy, At, LocalOk, Named0, Safe0
  <2>. QED
    BY <1>0, <1>1, <2>1, CopyIs
<1>2. CASE Dequeue(p)
  BY <1>0, <1>2, DequeueIs
<1>3. CASE \E m \in Sends[p] : Enqueue(p, m)
  <2>1. PICK m \in Message : Enqueue(p, m)
    BY <1>3, SendsAssumption DEF User
  <2>. QED
    BY <1>0, <2>1, EnqueueIs
<1>4. CASE RetireKeep(p) \/ RetireFree(p)
  <2>1. loc[p].todo # <<>>
    BY <1>0, <1>4 DEF RetireKeep, RetireFree, At, LocalOk, Retiring
  <2>. QED
    BY <1>0, <1>4, <2>1, DoneIs DEF RetireKeep, RetireFree
<1>5. CASE RetirePass(p) \/ RetireReset(p)
  BY <1>0, <1>5, RetirePassIs, RetireResetIs
<1>. QED
  BY <1>1, <1>2, <1>3, <1>4, <1>5 DEF Call, InRetire

\* Who changes the next of a node.
LEMMA NextAfter ==
    ASSUME Inv, NEW p \in User, Call(p) \/ Step(p), NEW s \in Slot
    PROVE  \/ next'[s] = next[s]
           \/ Fill(p) /\ s \in Held(p)
           \/ RetireReset(p) /\ s = RetiredNode(p) /\ s \in Retired(p)
           \/ /\ Linking(p) /\ s = loc[p].first /\ s \in InList
              /\ next[s] = UNDEFINED_NODE /\ next'[s] = loc[p].node
<1>0. next \in [Slot -> Node] /\ Effect(p)
  BY EffectIs DEF Inv, Types
<1>1. CASE Quiet(p)
  BY <1>1 DEF Quiet
<1>2. CASE ScanTakes(p) \/ Moving(p) \/ RetireFree(p)
  BY <1>2 DEF ScanTakes, Moving, Move, RetireFree
<1>3. CASE Fill(p) /\ Held(p) = {loc[p].node}
  BY <1>0, <1>3 DEF Fill
<1>4. CASE RetireReset(p) /\ RetiredNode(p) \in Retired(p)
  BY <1>0, <1>4 DEF RetireReset
<1>5. CASE Linking(p)
  <2>1. loc[p].first \in InList
    BY <1>5, ListAfter DEF Linking, Moving, Link, Move, At
  <2>. QED
    BY <1>0, <1>5, <2>1 DEF Linking, Link
<1>. QED
  BY <1>0, <1>1, <1>2, <1>3, <1>4, <1>5 DEF Effect

\* The retire lists: no node is on one twice.
LEMMA ListsStayDistinct ==
    ASSUME Inv, NEW p \in User, Call(p) \/ Step(p)
    PROVE  /\ Distinct(RList'[p]) /\ Distinct(loc'[p].todo)
           /\ Range(RList'[p]) \cap Range(loc'[p].todo) = {}
           /\ At(p, "copy")' => loc'[p].first \notin Range(RList'[p])
<1>0. /\ Types /\ LocalOk(loc[p]) /\ LocalOk(loc'[p])
      /\ RList[p] \in Seq(Slot) /\ loc[p].todo \in Seq(Slot)
      /\ RList \in [User -> Seq(Slot)] /\ loc[p].then \in {"idle", "head", "scan"}
  BY LocalInvStep DEF Inv, LocalInv, Types, Local
<1>1. /\ Distinct(RList[p]) /\ Distinct(loc[p].todo)
      /\ Range(RList[p]) \cap Range(loc[p].todo) = {}
      /\ At(p, "copy") => loc[p].first \notin Range(RList[p])
  BY DEF Inv, RetireInv
<1>2. CASE Copy(p)
  <2>1. loc[p].pc = "copy" /\ loc[p].first \in Slot
    BY <1>0, <1>2 DEF Copy, At, LocalOk, Named0, Safe0
  <2>2. /\ RList'[p] = <<>> /\ loc'[p].pc = "compare"
        /\ loc'[p].todo = Append(RList[p], loc[p].first)
    BY <1>0, <1>2, <2>1, CopyIs
  <2>3. Distinct(loc'[p].todo)
    BY <1>0, <1>1, <2>1, <2>2, RangeOfAppend DEF At
  <2>. QED
    BY <2>2, <2>3, RangeOfNone DEF At
<1>3. CASE Call(p)
  <2>1. /\ RList'[p] = <<>> /\ loc'[p].todo = RList[p]
        /\ loc'[p].pc \in {"compare", "head", "scan"}
    <3>1. CASE Dequeue(p)
      BY <1>0, <3>1, DequeueIs
    <3>2. CASE \E m \in Sends[p] : Enqueue(p, m)
      <4>1. PICK m \in Message : Enqueue(p, m)
        BY <3>2, SendsAssumption DEF User
      <4>. QED
        BY <1>0, <4>1, EnqueueIs
    <3>. QED
      BY <1>3, <3>1, <3>2 DEF Call
  <2>. QED
    BY <1>1, <2>1, RangeOfNone DEF At
<1>4. CASE RetireKeep(p) \/ RetireFree(p)
  <2>1. loc[p].pc \in Retiring /\ loc[p].todo # <<>>
    BY <1>0, <1>4 DEF RetireKeep, RetireFree, At, Retiring, LocalOk
  <2>2. /\ loc'[p].todo = Tail(loc[p].todo) /\ RetiredNode(p) \in Slot
        /\ loc'[p].pc \in {"compare", "idle", "head", "scan"}
    BY <1>0, <1>4, <2>1, DoneIs DEF RetireKeep, RetireFree
  <2>3. /\ Range(loc[p].todo) = {RetiredNode(p)} \cup Range(Tail(loc[p].todo))
        /\ Distinct(Tail(loc[p].todo))
        /\ RetiredNode(p) \notin Range(Tail(loc[p].todo))
    BY <1>0, <1>1, <2>1, RangeOfTail DEF RetiredNode
  <2>4. CASE RetireKeep(p)
    <3>1. RList'[p] = Append(RList[p], RetiredNode(p))
      BY <1>0, <2>4 DEF RetireKeep
    <3>2. Distinct(RList'[p]) /\ Range(RList'[p]) = Range(RList[p]) \cup {RetiredNode(p)}
      BY <1>0, <1>1, <2>2, <2>3, <3>1, RangeOfAppend
    <3>. QED
      BY <1>1, <2>2, <2>3, <3>2 DEF At
  <2>5. CASE RetireFree(p)
    BY <1>1, <2>2, <2>3, <2>5 DEF RetireFree, At
  <2>. QED
    BY <1>4, <2>4, <2>5
<1>5. CASE RetirePass(p) \/ RetireReset(p)
  BY <1>0, <1>1, <1>5, RetirePassIs, RetireResetIs DEF RetirePass, RetireReset, At
<1>6. CASE Moving(p)
  <2>1. /\ loc[p].pc = "move" /\ loc'[p].pc = "copy" /\ loc'[p].first = loc[p].first
        /\ RList' = RList /\ loc[p].first = head
    BY <1>0, <1>6, MoveIs DEF Moving, Move
  <2>2. loc[p].todo = <<>> /\ loc'[p].todo = <<>>
    BY <1>0, <2>1 DEF LocalOk, Retiring
  <2>3. head \in InList
    BY ListIs DEF Inv, ListInv, InList
  <2>4. head \notin Range(RList[p])
    BY <2>3, OneOwnerIsApart DEF Inv, OwnerInv, Apart, Retired
  <2>. QED
    BY <1>1, <2>1, <2>2, <2>4, RangeOfNone
<1>7. ASSUME RList' = RList, loc[p].pc \notin Retiring,
             loc'[p].pc \notin Retiring \cup {"copy"}
      PROVE  /\ Distinct(RList'[p]) /\ Distinct(loc'[p].todo)
             /\ Range(RList'[p]) \cap Range(loc'[p].todo) = {}
             /\ At(p, "copy")' => loc'[p].first \notin Range(RList'[p])
  BY <1>0, <1>1, <1>7 DEF LocalOk, At
<1>8. CASE ~Call(p) /\ ~Copy(p) /\ ~InRetire(p) /\ ~Moving(p)
  BY <1>7, <1>8, Elsewhere DEF Plain
<1>. QED
  BY <1>2, <1>3, <1>4, <1>5, <1>6, <1>8 DEF InRetire

\* RetireReset is always followed by RetireFree.
LEMMA AtFree ==
    ASSUME NEW p \in User, At(p, "free"), Call(p) \/ Step(p)
    PROVE  RetireFree(p)
<1>1. /\ Call(p) => At(p, "idle")
      /\ RetireKeep(p) \/ RetirePass(p) \/ RetireReset(p) => At(p, "compare")
      /\ ScanTakes(p) \/ ScanMisses(p) => At(p, "scan")
      /\ Fill(p) => At(p, "fill")
      /\ ReadTail(p) => At(p, "tail")
      /\ ProtectTail(p) => At(p, "protectTail")
      /\ CheckTail(p) => At(p, "checkTail")
      /\ ReadTailNext(p) => At(p, "tailNext")
      /\ HelpTail(p) => At(p, "helpTail")
      /\ Link(p) => At(p, "link")
      /\ Swing(p) => At(p, "swing")
  BY DEF Call, Enqueue, Dequeue, RetireKeep, RetirePass, RetireReset, ScanTakes,
     ScanMisses, Fill, ReadTail, ProtectTail, CheckTail, ReadTailNext, HelpTail,
     Link, Swing
<1>2. /\ ReadHead(p) => At(p, "head")
      /\ ProtectHead(p) => At(p, "protectHead")
      /\ CheckHead(p) => At(p, "checkHead")
      /\ ReadHeadTail(p) => At(p, "headTail")
      /\ ReadHeadNext(p) => At(p, "headNext")
      /\ ProtectNext(p) => At(p, "protectNext")
      /\ DequeueEmpty(p) \/ RecheckHead(p) => At(p, "recheckHead")
      /\ HelpHead(p) => At(p, "helpHead")
      /\ Move(p) => At(p, "move")
      /\ Copy(p) => At(p, "copy")
  BY DEF ReadHead, ProtectHead, CheckHead, ReadHeadTail, ReadHeadNext, ProtectNext,
     DequeueEmpty, RecheckHead, HelpHead, Move, Copy
<1>. QED
  BY SMTT(30), <1>1, <1>2 DEF Step, At

\* A retired node keeps its successor until it is reset, and is on one list once.
LEMMA RetireInvStep ==
    ASSUME Inv, NEW p \in User, Call(p) \/ Step(p)
    PROVE  RetireInv'
<1>0. Types /\ Effect(p) /\ next \in [Slot -> Node]
  BY EffectIs DEF Inv, Types
<1>1. Apart
  BY OneOwnerIsApart DEF Inv, OwnerInv
<1>2. ASSUME NEW u \in User PROVE Retired(u) \subseteq Slot
  <2>1. RList[u] \in Seq(Slot) /\ loc[u].todo \in Seq(Slot) /\ LocalOk(loc[u])
    BY DEF Inv, Types, Local, LocalInv
  <2>2. Range(RList[u]) \subseteq Slot /\ Range(loc[u].todo) \subseteq Slot
    BY <2>1 DEF Range
  <2>. QED
    BY <2>1, <2>2 DEF Retired, At, LocalOk, Named0, Safe0
\* Only its owner changes the next of a retired node.
<1>3. ASSUME NEW u \in User, NEW s \in Retired(u),
             ~(RetireReset(p) /\ u = p /\ s = RetiredNode(p))
      PROVE  next'[s] = next[s]
  BY <1>1, <1>2, <1>3, NextAfter DEF Apart
<1>4. ASSUME NEW u \in User, u # p, NEW s \in Retired(u)'
      PROVE  Freed(u, s)' \/ next'[s] # UNDEFINED_NODE
  <2>1. s \in Retired(u) /\ loc'[u] = loc[u]
    BY <1>0, <1>4, OthersKeep, OthersStay
  <2>2. next'[s] = next[s]
    BY <1>3, <1>4, <2>1
  <2>. QED
    BY <2>1, <2>2 DEF Inv, RetireInv, Freed, At, RetiredNode
<1>5. ASSUME NEW s \in Retired(p)'
      PROVE  Freed(p, s)' \/ next'[s] # UNDEFINED_NODE
  <2>1. \A t \in Retired(p) : Freed(p, t) \/ next[t] # UNDEFINED_NODE
    BY DEF Inv, RetireInv
  <2>2. CASE RetireFree(p) /\ Retired(p)' = Retired(p) \ {RetiredNode(p)}
    BY <1>5, <2>1, <2>2 DEF RetireFree, Freed
  <2>3. CASE RetireReset(p) /\ Retired(p)' = Retired(p)
    <3>1. CASE s = RetiredNode(p)
      BY <1>0, <2>3, <3>1, RetireResetIs DEF Freed, At, RetiredNode
    <3>2. CASE s # RetiredNode(p)
      BY <1>3, <1>5, <2>1, <2>3, <3>2 DEF RetireReset, At, Freed
    <3>. QED
      BY <3>1, <3>2
  <2>4. CASE Moving(p) /\ Retired(p)' = Retired(p) \cup {loc[p].first}
    <3>1. next[loc[p].first] # UNDEFINED_NODE /\ next' = next /\ ~At(p, "free")
      BY <2>4 DEF Moving, Move, At, Inv, ReadInv, LocalInv, LocalOk, Safe1, Slot,
         UNDEFINED_NODE
    <3>. QED
      BY <1>5, <2>1, <2>4, <3>1 DEF Freed
  <2>5. CASE Retired(p)' = Retired(p) /\ (ScanTakes(p) \/ Fill(p) \/ Linking(p))
    BY <1>3, <1>5, <2>1, <2>5
       DEF ScanTakes, Fill, Linking, Link, At, Freed, RetireReset
  <2>6. CASE Quiet(p) /\ ~Active(p)
    <3>1. ~At(p, "free")
      BY <2>6, AtFree DEF Active
    <3>. QED
      BY <1>5, <2>1, <2>6, <3>1 DEF Quiet, Freed
  <2>. QED
    BY <1>0, <2>2, <2>3, <2>4, <2>5, <2>6 DEF Effect
<1>6. ASSUME NEW u \in User
      PROVE  /\ Distinct(RList'[u]) /\ Distinct(loc'[u].todo)
             /\ Range(RList'[u]) \cap Range(loc'[u].todo) = {}
             /\ At(u, "copy")' => loc'[u].first \notin Range(RList'[u])
  <2>1. CASE u = p
    BY <2>1, ListsStayDistinct
  <2>2. CASE u # p
    BY <1>0, <2>2, OthersStay DEF Inv, RetireInv, At
  <2>. QED
    BY <2>1, <2>2
<1>. QED
  BY <1>4, <1>5, <1>6 DEF RetireInv

\* A node that is not linked yet keeps its message.
LEMMA NodeInvStep ==
    ASSUME Inv, NEW p \in User, Call(p) \/ Step(p)
    PROVE  NodeInv'
<1>0. /\ Types /\ LocalInv /\ NodeInv /\ Apart
      /\ next \in [Slot -> Node] /\ data \in [Slot -> Message \cup {NoMessage}]
  BY OneOwnerIsApart DEF Inv, Types, OwnerInv
<1>1. ASSUME NEW u \in User, loc[u].pc \in HasNode, ~(u = p /\ Fill(p))
      PROVE  next[loc[u].node] = UNDEFINED_NODE => \/ next'[loc[u].node] = UNDEFINED_NODE
                                                   \/ u = p /\ Linking(p)
  <2>1. loc[u].node \in Slot /\ loc[u].node \in Held(u)
    BY <1>0, <1>1, HeldIs DEF LocalInv, LocalOk
  <2>2. /\ ~(Fill(p) /\ loc[u].node \in Held(p))
        /\ loc[u].node \notin Retired(p) /\ loc[u].node \notin InList
    BY <1>0, <1>1, <2>1 DEF Apart
  <2>. QED
    BY <2>1, <2>2, NextAfter
<1>2. ASSUME NEW u \in User, loc[u].pc \in HasNode, ~(u = p /\ Fill(p))
      PROVE  data'[loc[u].node] = data[loc[u].node]
  <2>1. loc[u].node \in Slot /\ loc[u].node \in Held(u)
    BY <1>0, <1>2, HeldIs DEF LocalInv, LocalOk
  <2>2. CASE Fill(p) /\ Held(p) = {loc[p].node}
    BY SMTT(30), <1>0, <1>2, <2>1, <2>2 DEF Apart, Fill
  <2>3. CASE ~Fill(p)
    BY <2>3, EffectIs DEF Effect, Quiet, ScanTakes, Linking, Link, Moving, Move,
       RetireReset, RetireFree
  <2>. QED
    BY <2>2, <2>3, HeldIs DEF Fill, At, HasNode
<1>3. ASSUME NEW u \in User, u # p, loc'[u].pc \in HasNode \ {"fill"}
      PROVE  next'[loc'[u].node] = UNDEFINED_NODE /\ data'[loc'[u].node] = loc'[u].msg
  <2>1. loc'[u] = loc[u]
    BY <1>0, <1>3, OthersStay
  <2>. QED
    BY <1>0, <1>1, <1>2, <1>3, <2>1 DEF NodeInv
<1>4. ASSUME loc'[p].pc \in HasNode \ {"fill"}
      PROVE  next'[loc'[p].node] = UNDEFINED_NODE /\ data'[loc'[p].node] = loc'[p].msg
  <2>1. /\ loc[p].pc \in HasNode /\ (loc[p].pc = "fill" => Fill(p))
        /\ loc'[p].node = loc[p].node /\ loc'[p].msg = loc[p].msg
    BY <1>4, RetireEnds, Elsewhere DEF Plain, HasNode
  <2>2. CASE Fill(p)
    <3>1. loc[p].node \in Slot
      BY <1>0, <2>1 DEF LocalInv, LocalOk
    <3>. QED
      BY <1>0, <2>1, <2>2, <3>1 DEF Fill
  <2>3. CASE ~Fill(p)
    <3>1. ~Linking(p)
      BY <1>0, <1>4, LinkIs DEF Linking, HasNode
    <3>. QED
      BY <1>0, <1>1, <1>2, <2>1, <2>3, <3>1 DEF NodeInv
  <2>. QED
    BY <2>2, <2>3
<1>. QED
  BY <1>3, <1>4 DEF NodeInv

-----------------------------------------------------------------------------
(***************************************************************************)
(* The hazard pointers                                                     *)
(***************************************************************************)

\* A user passes a shared index only while it names another node.
LEMMA PassedAfter ==
    ASSUME Inv, NEW p \in User, Call(p) \/ Step(p), NEW s, NEW k \in SharedIdx,
           Passed(p, s, k)'
    PROVE  Passed(p, s, k) \/ sharedIdxs[k] # s
<1>0. Types /\ LocalOk(loc[p]) /\ k \in Nat /\ loc[p].k \in 0 .. 2 * MaxUser
  BY DEF Inv, LocalInv, SharedIdx, Types, Local
<1>1. loc'[p].pc = "free" \/ (loc'[p].pc = "compare" /\ loc'[p].k > k)
  BY DEF Passed, At
<1>2. s = Head(loc'[p].todo)
  BY DEF Passed, RetiredNode
<1>3. CASE RetirePass(p)
  <2>1. /\ loc[p].pc = "compare" /\ loc'[p].pc = "compare"
        /\ loc'[p].todo = loc[p].todo /\ loc'[p].k = loc[p].k + 1
    BY <1>0, <1>3, RetirePassIs
  <2>2. s = RetiredNode(p)
    BY <1>2, <2>1 DEF RetiredNode
  <2>3. CASE loc[p].k > k
    BY <2>1, <2>2, <2>3 DEF Passed, At
  <2>4. CASE loc[p].k = k
    BY <1>3, <2>2, <2>4 DEF RetirePass
  <2>. QED
    BY <1>0, <1>1, <2>1, <2>3, <2>4
<1>4. CASE RetireReset(p)
  <2>1. loc[p].pc = "compare" /\ loc'[p].todo = loc[p].todo
    BY <1>0, <1>4, RetireResetIs
  <2>2. loc[p].k > k
    BY <1>0, <1>4, MaxUserAssumption DEF RetireReset, SharedIdx
  <2>. QED
    BY <1>2, <2>1, <2>2 DEF Passed, At, RetiredNode
<1>5. CASE RetireKeep(p) \/ RetireFree(p)
  <2>1. loc[p].todo # <<>>
    BY <1>0, <1>5 DEF RetireKeep, RetireFree, At, LocalOk, Retiring
  <2>2. /\ loc'[p].pc = "free" => FALSE
        /\ loc'[p].pc = "compare" => loc'[p].k = 0
    BY <1>0, <1>5, <2>1, DoneIs DEF RetireKeep, RetireFree, Types, Local
  <2>. QED
    BY <1>0, <1>1, <2>2
<1>6. CASE Copy(p)
  <2>1. loc[p].first \in Slot
    BY <1>0, <1>6 DEF Copy, At, LocalOk, Named0, Safe0
  <2>. QED
    BY <1>0, <1>1, <1>6, <2>1, CopyIs
<1>7. CASE Call(p)
  <2>1. CASE Dequeue(p)
    BY <1>0, <1>1, <2>1, DequeueIs
  <2>2. CASE \E m \in Sends[p] : Enqueue(p, m)
    <3>1. PICK m \in Message : Enqueue(p, m)
      BY <2>2, SendsAssumption DEF User
    <3>. QED
      BY <1>0, <1>1, <3>1, EnqueueIs
  <2>. QED
    BY <1>7, <2>1, <2>2 DEF Call
<1>8. CASE Step(p) /\ ~Copy(p) /\ ~InRetire(p)
  BY <1>1, <1>8, Elsewhere DEF Plain, Retiring
<1>. QED
  BY <1>3, <1>4, <1>5, <1>6, <1>7, <1>8 DEF InRetire

\* A node stays safe while the shared index names it.
LEMMA KeptStays ==
    ASSUME Inv, NEW p \in User, Call(p) \/ Step(p),
           NEW s \in Slot, NEW k \in SharedIdx, Kept(s, k), sharedIdxs[k] = s
    PROVE  Kept(s, k)'
<1>0. /\ Types /\ Effect(p) /\ used \in [Slot -> {0, 1}] /\ scan[p] \in Slot
      /\ used[s] = 1 /\ \A w \in User : s \notin Held(w) /\ ~Passed(w, s, k)
  BY EffectIs DEF Inv, Types, Kept
<1>1. used'[s] = 1
  <2>1. CASE RetireFree(p)
    <3>1. s # RetiredNode(p)
      BY <1>0, <2>1 DEF RetireFree, Passed
    <3>. QED
      BY <1>0, <2>1, <3>1 DEF RetireFree
  <2>2. CASE ScanTakes(p)
    BY <1>0, <2>2 DEF ScanTakes
  <2>3. CASE ~RetireFree(p) /\ ~ScanTakes(p)
    BY <1>0, <2>3 DEF Effect, Quiet, Fill, Linking, Link, Moving, Move, RetireReset
  <2>. QED
    BY <2>1, <2>2, <2>3
<1>2. s \notin Held(p)'
  <2>1. CASE ScanTakes(p)
    <3>1. used[scan[p]] = 0 /\ loc'[p].pc = "fill" /\ loc'[p].node = scan[p]
      BY <1>0, <2>1, ScanTakesIs DEF ScanTakes
    <3>2. Held(p)' = {scan[p]}
      BY <3>1, HeldIs DEF HasNode
    <3>. QED
      BY <1>0, <3>1, <3>2
  <2>2. CASE ~ScanTakes(p)
    BY <1>0, <2>2 DEF Effect, Quiet
  <2>. QED
    BY <2>1, <2>2
<1>3. ~Passed(p, s, k)'
  BY <1>0, PassedAfter
<1>4. ASSUME NEW w \in User, w # p PROVE s \notin Held(w)' /\ ~Passed(w, s, k)'
  <2>1. loc'[w] = loc[w]
    BY <1>0, <1>4, OthersStay
  <2>. QED
    BY <1>0, <1>4, <2>1, OthersKeep DEF Passed, At, RetiredNode
<1>. QED
  BY <1>1, <1>2, <1>3, <1>4 DEF Kept

\* The first shared index of a user and its second are no one else's.
LEMMA IndexIs ==
    ASSUME NEW u \in User, NEW p \in User
    PROVE  /\ Index0(u) \in SharedIdx /\ Index1(u) \in SharedIdx
           /\ Index0(u) # Index1(p)
           /\ u # p => Index0(u) # Index0(p) /\ Index1(u) # Index1(p)
<1>1. u \in Int /\ p \in Int /\ 0 <= u /\ u <= MaxUser - 1
  BY MaxUserAssumption DEF User
<1>. QED
  BY <1>1, MaxUserAssumption DEF Index0, Index1, SharedIdx

\* Who writes the shared indices.
LEMMA SharedAfter ==
    ASSUME Inv, NEW p \in User, Call(p) \/ Step(p)
    PROVE  /\ \A u \in User : u # p =>
                 /\ sharedIdxs'[Index0(u)] = sharedIdxs[Index0(u)]
                 /\ sharedIdxs'[Index1(u)] = sharedIdxs[Index1(u)]
           /\ IF ProtectTail(p) \/ ProtectHead(p)
              THEN sharedIdxs'[Index0(p)] = loc[p].first
              ELSE sharedIdxs'[Index0(p)] = sharedIdxs[Index0(p)]
           /\ IF ProtectNext(p)
              THEN sharedIdxs'[Index1(p)] = loc[p].second
              ELSE sharedIdxs'[Index1(p)] = sharedIdxs[Index1(p)]
<1>0. sharedIdxs \in [SharedIdx -> Node]
  BY DEF Inv, Types
<1>1. CASE ProtectTail(p) \/ ProtectHead(p)
  BY <1>0, <1>1, IndexIs DEF ProtectTail, ProtectHead, ProtectNext, At
<1>2. CASE ProtectNext(p)
  BY <1>0, <1>2, IndexIs DEF ProtectTail, ProtectHead, ProtectNext, At
<1>3. CASE ~ProtectTail(p) /\ ~ProtectHead(p) /\ ~ProtectNext(p)
  <2>1. sharedIdxs' = sharedIdxs
    BY <1>3 DEF Step, Call, Enqueue, Dequeue, RetireKeep, RetirePass, RetireReset,
       RetireFree, ScanTakes, ScanMisses, Fill, ReadTail, CheckTail, ReadTailNext,
       HelpTail, Link, Swing, ReadHead, CheckHead, ReadHeadTail, ReadHeadNext,
       DequeueEmpty, RecheckHead, HelpHead, Move, Copy
  <2>. QED
    BY SMTT(30), <1>3, <2>1
<1>. QED
  BY <1>1, <1>2, <1>3

\* The successor of the head is in the queue.
LEMMA NextInList ==
    ASSUME Inv, NEW s \in InList, next[s] # UNDEFINED_NODE
    PROVE  next[s] \in InList /\ next[s] # head
BY ListIs DEF Inv, ListInv, InList

\* A user that has found its node in the queue keeps it safe.
LEMMA HazardInvStep ==
    ASSUME Inv, NEW p \in User, Call(p) \/ Step(p)
    PROVE  HazardInv'
<1>0. Types /\ LocalInv /\ HazardInv /\ ReadInv /\ tail \in InList /\ head \in InList
  BY ListIs DEF Inv, ListInv, InList
<1>1. ASSUME NEW u \in User, u # p
      PROVE  /\ loc'[u].pc \in Named0 => sharedIdxs'[Index0(u)] = loc'[u].first
             /\ loc'[u].pc \in Named1 => sharedIdxs'[Index1(u)] = loc'[u].second
             /\ loc'[u].pc \in Safe0 => Kept(loc[u].first, Index0(u))'
             /\ loc'[u].pc \in Safe1 => Kept(loc[u].second, Index1(u))'
  <2>1. loc'[u] = loc[u]
    BY <1>0, <1>1, OthersStay
  <2>2. loc[u].pc \in Named0 => sharedIdxs[Index0(u)] = loc[u].first
    BY <1>0 DEF HazardInv
  <2>3. loc[u].pc \in Named1 => sharedIdxs[Index1(u)] = loc[u].second
    BY <1>0 DEF HazardInv
  <2>4. ASSUME loc[u].pc \in Safe0 PROVE Kept(loc[u].first, Index0(u))'
    <3> PICK s, k : s = loc[u].first /\ k = Index0(u)
      OBVIOUS
    <3>1. s \in Slot /\ k \in SharedIdx /\ Kept(s, k) /\ sharedIdxs[k] = s
      BY <1>0, <2>2, <2>4, IndexIs DEF LocalInv, LocalOk, Named0, HazardInv
    <3>2. Kept(s, k)'
      BY <3>1, KeptStays
    <3>. QED
      BY <2>1, <3>2 DEF Kept, Passed
  <2>5. ASSUME loc[u].pc \in Safe1 PROVE Kept(loc[u].second, Index1(u))'
    <3> PICK s, k : s = loc[u].second /\ k = Index1(u)
      OBVIOUS
    <3>1. s \in Slot /\ k \in SharedIdx /\ Kept(s, k) /\ sharedIdxs[k] = s
      BY <1>0, <2>3, <2>5, IndexIs DEF LocalInv, LocalOk, Named1, HazardInv
    <3>2. Kept(s, k)'
      BY <3>1, KeptStays
    <3>. QED
      BY <2>1, <3>2 DEF Kept, Passed
  <2>. QED
    BY <1>1, <2>1, <2>2, <2>3, <2>4, <2>5, SharedAfter
<1>2. ASSUME Step(p), ~Copy(p), ~InRetire(p)
      PROVE  /\ loc'[p].pc \in Named0 => sharedIdxs'[Index0(p)] = loc'[p].first
             /\ loc'[p].pc \in Named1 => sharedIdxs'[Index1(p)] = loc'[p].second
             /\ loc'[p].pc \in Safe0 => Kept(loc[p].first, Index0(p))'
             /\ loc'[p].pc \in Safe1 => Kept(loc[p].second, Index1(p))'
  <2>0. Plain(p)
    BY <1>2, Elsewhere
  <2>1. loc'[p].pc \in Named0 => sharedIdxs'[Index0(p)] = loc'[p].first
    BY <1>0, <2>0, SharedAfter DEF Plain, HazardInv
  <2>2. loc'[p].pc \in Named1 => sharedIdxs'[Index1(p)] = loc'[p].second
    BY <1>0, <2>0, SharedAfter DEF Plain, HazardInv
  <2>3. ASSUME loc'[p].pc \in Safe0 PROVE Kept(loc[p].first, Index0(p))'
    <3> PICK s, k : s = loc[p].first /\ k = Index0(p)
      OBVIOUS
    <3>1. loc'[p].first = s /\ k \in SharedIdx /\ k = Index0(p)'
      BY <2>0, <2>3, IndexIs DEF Plain, Named0, Index0
    <3>2. Kept(s, k) /\ s \in Slot /\ sharedIdxs[k] = s
      <4>1. loc[p].pc \in Named0
        BY <2>0, <2>3 DEF Plain, Named0
      <4>2. s \in Slot /\ sharedIdxs[k] = s
        BY <1>0, <4>1 DEF LocalInv, LocalOk, HazardInv
      <4>3. CASE loc[p].pc \in Safe0
        BY <1>0, <4>2, <4>3 DEF HazardInv
      <4>4. CASE s \in {tail, head}
        BY <1>0, <4>2, <4>4, InListIsKept
      <4>. QED
        BY <2>0, <2>3, <4>2, <4>3, <4>4 DEF Plain
    <3>3. Kept(s, k)'
      BY <3>1, <3>2, KeptStays
    <3>. QED
      BY <3>1, <3>3 DEF Kept, Passed
  <2>4. ASSUME loc'[p].pc \in Safe1 PROVE Kept(loc[p].second, Index1(p))'
    <3> PICK s, k : s = loc[p].second /\ k = Index1(p)
      OBVIOUS
    <3>1. loc'[p].second = s /\ k \in SharedIdx /\ k = Index1(p)'
      BY <2>0, <2>4, IndexIs DEF Plain, Named1, Index1
    <3>2. Kept(s, k) /\ s \in Slot /\ sharedIdxs[k] = s
      <4>1. CASE loc[p].pc \in Safe1
        BY <1>0, <4>1 DEF HazardInv, LocalInv, LocalOk, Named1
      <4>2. CASE loc[p].pc = "recheckHead" /\ head = loc[p].first /\ s # UNDEFINED_NODE
        <5>1. sharedIdxs[k] = s /\ next[head] = s
          BY <1>0, <4>2 DEF HazardInv, Named1, ReadInv
        <5>2. s \in InList
          BY <1>0, <4>2, <5>1, NextInList
        <5>3. InList \subseteq Slot
          BY ListIs DEF Inv, ListInv, InList
        <5>. QED
          BY <5>1, <5>2, <5>3, InListIsKept
      <4>. QED
        BY <2>0, <2>4, <4>1, <4>2 DEF Plain
    <3>3. Kept(s, k)'
      BY <3>1, <3>2, KeptStays
    <3>. QED
      BY <3>1, <3>3 DEF Kept, Passed
  <2>. QED
    BY <2>1, <2>2, <2>3, <2>4
<1>3. ASSUME Call(p) \/ Copy(p) \/ InRetire(p)
      PROVE  loc'[p].pc \notin Named0 /\ loc'[p].pc \notin Named1
             /\ loc'[p].pc \notin Safe0 /\ loc'[p].pc \notin Safe1
  BY <1>3, RetireEnds DEF Named0, Named1, Safe0, Safe1, FromHead
<1>4. /\ loc'[p].pc \in Named0 => sharedIdxs'[Index0(p)] = loc'[p].first
      /\ loc'[p].pc \in Named1 => sharedIdxs'[Index1(p)] = loc'[p].second
      /\ loc'[p].pc \in Safe0 => Kept(loc[p].first, Index0(p))'
      /\ loc'[p].pc \in Safe1 => Kept(loc[p].second, Index1(p))'
  BY <1>2, <1>3
<1>. QED
  BY <1>1, <1>4 DEF HazardInv, Index0, Index1

\* The next of a node that is safe stays once it is set.
LEMMA KeptNextStays ==
    ASSUME Inv, NEW p \in User, Call(p) \/ Step(p),
           NEW s \in Slot, NEW k \in SharedIdx, Kept(s, k), next[s] # UNDEFINED_NODE
    PROVE  next'[s] = next[s]
<1>1. /\ \A w \in User : s \notin Held(w) /\ ~Passed(w, s, k)
      /\ loc[p].k \in 0 .. 2 * MaxUser
  BY DEF Kept, Inv, Types, Local
<1>2. ASSUME RetireReset(p), s = RetiredNode(p) PROVE FALSE
  <2>1. At(p, "compare") /\ loc[p].k > k
    BY <1>1, <1>2, MaxUserAssumption DEF RetireReset, SharedIdx
  <2>. QED
    BY <1>1, <1>2, <2>1 DEF Passed
<1>. QED
  BY <1>1, <1>2, NextAfter

\* Where tail goes.
LEMMA TailAfter ==
    ASSUME Inv, NEW p \in User, Call(p) \/ Step(p), tail' # tail
    PROVE  tail' \in InList /\ tail' # head /\ InList' = InList /\ head' = head
<1>1. Quiet(p) /\ ~Active(p)
  BY EffectIs DEF Effect, ScanTakes, Fill, Linking, Link, Moving, Move, RetireReset,
     RetireFree
<1>2. tail' = next[tail] /\ next[tail] # UNDEFINED_NODE /\ tail \in InList
  BY <1>1 DEF Quiet, Inv, ListInv
<1>3. List' = List /\ head' = head
  BY <1>1, ListAfter DEF Active
<1>. QED
  BY SMTT(30), <1>2, <1>3, NextInList DEF InList

\* What another user has read.
LEMMA ReadStays ==
    ASSUME Inv, NEW p \in User, Call(p) \/ Step(p), NEW u \in User, u # p
    PROVE  LET l == loc'[u] IN
           /\ l.pc \in Safe1 \cup {"helpTail"} => next'[l.first] = l.second
           /\ l.pc = "swing" => next'[l.first] = l.node
           /\ l.pc \in {"protectNext", "recheckHead"} =>
                 IF l.second = UNDEFINED_NODE THEN l.wasEmpty
                                              ELSE next'[l.first] = l.second
           /\ l.pc \in FromHead /\ l.first \in InList' => l.first = head'
           /\ l.pc \in {"headNext", "protectNext", "recheckHead"} /\ tail' = l.first =>
                 l.last = tail'
           /\ l.pc = "move" => tail' # l.first
<1> PICK l : l = loc[u]
  OBVIOUS
<1>0. /\ loc'[u] = l /\ LocalOk(l) /\ Types /\ Apart
      /\ l.pc \in Safe0 => l.first \in Slot /\ Kept(l.first, Index0(u))
      /\ Index0(u) \in SharedIdx
  BY OthersStay, OneOwnerIsApart, IndexIs DEF Inv, LocalInv, LocalOk, Named0,
     HazardInv, OwnerInv
<1>1. /\ l.pc \in Safe1 \cup {"helpTail"} => next[l.first] = l.second
      /\ l.pc = "swing" => next[l.first] = l.node
      /\ l.pc \in {"protectNext", "recheckHead"} =>
            IF l.second = UNDEFINED_NODE THEN l.wasEmpty ELSE next[l.first] = l.second
      /\ l.pc \in FromHead /\ l.first \in InList => l.first = head
      /\ l.pc \in {"headNext", "protectNext", "recheckHead"} /\ tail = l.first =>
            l.last = tail
      /\ l.pc = "move" => tail # l.first
  BY DEF Inv, ReadInv
<1>2. l.pc \in Safe0 /\ next[l.first] # UNDEFINED_NODE => next'[l.first] = next[l.first]
  BY <1>0, KeptNextStays
<1>3. l.pc \in Safe1 \cup {"helpTail"} => next'[l.first] = l.second
  BY <1>0, <1>1, <1>2 DEF LocalOk, Safe0, Safe1, FromHead, Slot, UNDEFINED_NODE
<1>4. l.pc = "swing" => next'[l.first] = l.node
  BY <1>0, <1>1, <1>2 DEF LocalOk, Safe0, Slot, UNDEFINED_NODE
<1>5. l.pc \in {"protectNext", "recheckHead"} =>
         IF l.second = UNDEFINED_NODE THEN l.wasEmpty ELSE next'[l.first] = l.second
  BY <1>1, <1>2 DEF Safe0, FromHead
<1>6. ASSUME l.pc \in FromHead, l.first \in InList' PROVE l.first = head'
  <2>1. \A w \in User : l.first \notin Held(w)
    BY <1>0, <1>6 DEF Safe0, Kept
  <2>2. CASE List' = List /\ head' = head
    BY <1>1, <1>6, <2>2 DEF InList
  <2>3. CASE Linking(p) /\ InList' = InList \cup {loc[p].node}
    <3>1. loc[p].node \in Held(p)
      BY <2>3, HeldIs DEF Linking, Link, At, HasNode
    <3>. QED
      BY <1>1, <1>6, <2>1, <2>3, <3>1 DEF Linking, Link
  <2>4. CASE Moving(p) /\ InList' = InList \ {loc[p].first}
    BY <1>1, <1>6, <2>4 DEF Moving
  <2>. QED
    BY <2>2, <2>3, <2>4, ListAfter
<1>7. ASSUME l.pc \in FromHead, tail' = l.first PROVE tail' = tail
  BY <1>1, <1>7, TailAfter
<1>. QED
  BY <1>0, <1>1, <1>3, <1>4, <1>5, <1>6, <1>7 DEF FromHead

\* What a user has read is still so when it acts on it.
LEMMA ReadInvStep ==
    ASSUME Inv, NEW p \in User, Call(p) \/ Step(p)
    PROVE  ReadInv'
<1>0. Types /\ LocalOk(loc[p]) /\ LocalInv' /\ ReadInv
  BY LocalInvStep DEF Inv, LocalInv
<1> DEFINE Read(l) ==
           /\ l.pc \in Safe1 \cup {"helpTail"} => next'[l.first] = l.second
           /\ l.pc = "swing" => next'[l.first] = l.node
           /\ l.pc \in {"protectNext", "recheckHead"} =>
                 IF l.second = UNDEFINED_NODE THEN l.wasEmpty
                                              ELSE next'[l.first] = l.second
           /\ l.pc \in FromHead /\ l.first \in InList' => l.first = head'
           /\ l.pc \in {"headNext", "protectNext", "recheckHead"} /\ tail' = l.first =>
                 l.last = tail'
           /\ l.pc = "move" => tail' # l.first
<1>1. SUFFICES Read(loc'[p])
  BY <1>0, ReadStays DEF ReadInv
<1> USE DEF Safe1, FromHead
<1>2. ASSUME loc'[p].pc \notin Safe1 \cup FromHead \cup {"helpTail", "swing"}
      PROVE  Read(loc'[p])
  BY <1>2
<1>3. CASE Call(p) \/ Copy(p) \/ InRetire(p)
  BY <1>2, <1>3, RetireEnds
<1>4. CASE ScanTakes(p)
  BY <1>0, <1>2, <1>4, ScanTakesIs
<1>5. CASE ScanMisses(p)
  BY <1>0, <1>2, <1>5, ScanMissesIs, IdleIs
<1>6. CASE Fill(p)
  BY <1>0, <1>2, <1>6, FillIs
<1>7. CASE ReadTail(p)
  BY <1>0, <1>2, <1>7, ReadTailIs
<1>8. CASE ProtectTail(p)
  BY <1>0, <1>2, <1>8, ProtectTailIs
<1>9. CASE CheckTail(p)
  BY <1>0, <1>2, <1>9, CheckTailIs
<1>10. CASE HelpTail(p)
  BY <1>0, <1>2, <1>10, HelpTailIs
<1>11. CASE Swing(p)
  BY <1>0, <1>2, <1>11, SwingIs, IdleIs
<1>12. CASE ReadHead(p)
  BY <1>0, <1>2, <1>12, ReadHeadIs
<1>13. CASE ProtectHead(p)
  BY <1>0, <1>2, <1>13, ProtectHeadIs
<1>14. CASE DequeueEmpty(p)
  BY <1>0, <1>2, <1>14, DequeueEmptyIs, IdleIs
<1>15. CASE HelpHead(p)
  BY <1>0, <1>2, <1>15, HelpHeadIs
<1> DEFINE Same == next' = next /\ head' = head /\ tail' = tail /\ InList' = InList
<1>16. ASSUME UNCHANGED listVars PROVE Same
  <2>1. List' = List
    BY <1>16, ListIsWalk DEF listVars
  <2>. QED
    BY <1>16, <2>1 DEF listVars, InList
<1>17. CASE ReadTailNext(p)
  <2>1. loc[p].first \in Slot /\ Same
    BY <1>0, <1>16, <1>17 DEF ReadTailNext, At, LocalOk, Named0, Safe0
  <2>. QED
    BY <1>0, <1>17, <2>1, ReadTailNextIs
<1>18. CASE Link(p)
  <2>1. CASE Linking(p)
    <3>1. /\ loc[p].first \in Slot /\ loc'[p].pc = "swing"
          /\ loc'[p].first = loc[p].first /\ loc'[p].node = loc[p].node
          /\ next' = [next EXCEPT ![loc[p].first] = loc[p].node]
          /\ next \in [Slot -> Node]
      BY <1>0, <1>18, <2>1, LinkIs DEF Linking, Link, At, LocalOk, Named0, Safe0, Types
    <3>. QED
      BY <3>1
  <2>2. CASE ~Linking(p)
    BY <1>0, <1>2, <1>18, <2>2, LinkIs DEF Linking
  <2>. QED
    BY <2>1, <2>2
<1>19. CASE CheckHead(p)
  <2>1. Same
    BY <1>16, <1>19 DEF CheckHead
  <2>. QED
    BY <1>0, <1>19, <2>1, CheckHeadIs DEF ReadInv
<1>20. CASE ReadHeadTail(p)
  <2>1. Same
    BY <1>16, <1>20 DEF ReadHeadTail
  <2>. QED
    BY <1>0, <1>20, <2>1, ReadHeadTailIs DEF ReadInv
<1>21. CASE ReadHeadNext(p)
  <2>1. loc[p].first \in Slot /\ Same
    BY <1>0, <1>16, <1>21 DEF ReadHeadNext, At, LocalOk, Named0, Safe0
  <2>2. next[loc[p].first] = UNDEFINED_NODE => loc[p].first = head
    <3>1. loc[p].pc = "headNext"
      BY <1>21 DEF ReadHeadNext, At
    <3>2. Kept(loc[p].first, Index0(p))
      BY <3>1 DEF Inv, HazardInv, Safe0
    <3>3. next[loc[p].first] = UNDEFINED_NODE => loc[p].first \in InList
      BY <2>1, <3>2, KeptIsLast
    <3>. QED
      BY <1>0, <3>1, <3>3 DEF ReadInv
  <2>3. CASE next[loc[p].first] = UNDEFINED_NODE
    BY ZenonT(40), <1>0, <1>21, <2>1, <2>2, <2>3, ReadHeadNextIs DEF ReadInv
  <2>4. CASE next[loc[p].first] # UNDEFINED_NODE
    BY <1>0, <1>21, <2>1, <2>4, ReadHeadNextIs DEF ReadInv
  <2>. QED
    BY <2>3, <2>4
<1>22. CASE ProtectNext(p)
  <2>1. Same
    BY <1>16, <1>22, ListIsWalk DEF ProtectNext, listVars, InList
  <2>. QED
    BY <1>0, <1>22, <2>1, ProtectNextIs DEF ReadInv
<1>23. CASE RecheckHead(p)
  <2>1. Same
    BY <1>16, <1>23, ListIsWalk DEF RecheckHead, listVars, InList
  <2>. QED
    BY <1>0, <1>23, <2>1, RecheckHeadIs DEF ReadInv
<1>24. CASE Move(p)
  BY <1>0, <1>24, MoveIs DEF ReadInv, Move
<1>. QED
  BY <1>3, <1>4, <1>5, <1>6, <1>7, <1>8, <1>9, <1>10, <1>11, <1>12, <1>13, <1>14,
     <1>15, <1>17, <1>18, <1>19, <1>20, <1>21, <1>22, <1>23, <1>24 DEF Step,
     InRetire

-----------------------------------------------------------------------------
(***************************************************************************)
(* The theorems                                                            *)
(***************************************************************************)

\* The invariant holds at the start.
LEMMA InitInv == Init => Inv
<1> SUFFICES ASSUME Init PROVE Inv
  OBVIOUS
<1>0. 0 \in Slot /\ Slot \subseteq Node /\ UNDEFINED_NODE \in Node
  BY NumSlotsAssumption DEF Slot, Node
<1>1. Types
  BY <1>0, IdleIs DEF Init, Types
<1>2. \A u \in User : loc[u] = Idle /\ RList[u] = <<>>
  BY DEF Init
<1>3. LocalInv
  BY <1>2, IdleIs, MessageAssumption DEF LocalInv, LocalOk, Retiring, HasNode,
     Named0, Safe0, FromHead, Safe1
<1>4. IsList(<<0>>, head, next)
  BY <1>0 DEF Init, IsList
<1>5. List = <<0>>
  BY <1>4, WalkIs, ListIsWalk
<1>6. InList = {0}
  BY <1>5 DEF InList, Range
<1>7. ListInv
  BY <1>4, <1>5, <1>6 DEF ListInv, Init
<1>8. \A u \in User : Held(u) = {} /\ Retired(u) = {}
  BY <1>2, IdleIs, RangeOfNone DEF Held, Retired, At
<1>9. Apart
  BY <1>6, <1>8 DEF Apart, Init
<1>10. OwnerInv
  BY <1>0, <1>6, <1>8, <1>9, OneOwnerIsApart DEF OwnerInv, Init
<1>11. RetireInv
  BY <1>2, <1>8, IdleIs, RangeOfNone DEF RetireInv, At
<1>12. NodeInv
  BY <1>2, IdleIs DEF NodeInv, HasNode
<1>13. HazardInv
  BY <1>2, IdleIs DEF HazardInv, Named0, Safe0, FromHead, Named1, Safe1
<1>14. ReadInv
  BY <1>2, IdleIs DEF ReadInv, FromHead, Safe1
<1>. QED
  BY <1>1, <1>3, <1>7, <1>10, <1>11, <1>12, <1>13, <1>14 DEF Inv

\* Every step keeps it.
LEMMA NextInv == Inv /\ [Next]_vars => Inv'
<1> SUFFICES ASSUME Inv, [Next]_vars PROVE Inv'
  OBVIOUS
<1>1. CASE UNCHANGED vars
  <2>1. /\ head' = head /\ tail' = tail /\ used' = used /\ next' = next /\ data' = data
        /\ sharedIdxs' = sharedIdxs /\ scan' = scan /\ RList' = RList /\ loc' = loc
        /\ calls' = calls /\ got' = got
    BY <1>1 DEF vars, listVars
  <2>2. List' = List
    BY <2>1, ListIsWalk
  <2>3. /\ \A u \in User : Held(u)' = Held(u) /\ Retired(u)' = Retired(u)
        /\ \A u \in User : \A s : Freed(u, s)' = Freed(u, s)
        /\ \A u \in User : \A s, k : Passed(u, s, k)' = Passed(u, s, k)
        /\ InList' = InList
    BY <2>1, <2>2, HeldIs DEF Retired, Freed, Passed, At, RetiredNode, InList
  <2>4. Types' /\ LocalInv' /\ NodeInv'
    BY <2>1 DEF Inv, Types, LocalInv, NodeInv
  <2>5. ListInv'
    BY <2>1, <2>2, <2>3 DEF Inv, ListInv
  <2>6. OwnerInv'
    BY <2>1, <2>3, OneOwnerIsApart DEF Inv, OwnerInv, Apart
  <2>7. RetireInv'
    BY <2>1, <2>3 DEF Inv, RetireInv, At
  <2>8. HazardInv'
    BY <2>1, <2>3 DEF Inv, HazardInv, Kept
  <2>9. ReadInv'
    BY <2>1, <2>3 DEF Inv, ReadInv
  <2>. QED
    BY <2>4, <2>5, <2>6, <2>7, <2>8, <2>9 DEF Inv
<1>2. CASE Next
  BY <1>2, TypesStep, LocalInvStep, ListAfter, OwnerInvStep, RetireInvStep, NodeInvStep,
     HazardInvStep, ReadInvStep DEF Next, Inv
<1>. QED
  BY <1>1, <1>2

\* It always holds.
LEMMA SpecInv == Spec => []Inv
BY InitInv, NextInv, PTL DEF Spec

\* Every variable keeps its range, whatever the users do.
THEOREM TypeCorrect == Spec => []TypeOK
<1>1. Inv => TypeOK
  <2> SUFFICES ASSUME Inv PROVE TypeOK
    OBVIOUS
  <2>1. Types
    BY DEF Inv
  <2>2. ASSUME NEW u \in User PROVE Len(RList[u]) <= NumSlots
    BY <2>1, ListIsShort DEF Types, Inv, RetireInv, Distinct
  <2>. QED
    BY <2>1, <2>2 DEF Types, TypeOK, Local
<1>. QED
  BY <1>1, SpecInv, PTL

\* A slot has one owner and none is lost.
THEOREM SlotsHaveOneOwner == Spec => []OneOwner
<1>1. Inv => OneOwner
  BY DEF Inv, OwnerInv
<1>. QED
  BY <1>1, SpecInv, PTL

\* The hazard pointers protect.
THEOREM HazardPointersProtect == Spec => []ProtectedNotReused
<1>1. Inv => ProtectedNotReused
  <2> SUFFICES ASSUME Inv, NEW u \in User, NEW w \in User, NEW s \in InHand(u)
               PROVE  used[s] = 1 /\ s \notin Held(w)
    BY DEF ProtectedNotReused
  <2>1. CASE loc[u].pc \in Safe0 /\ s = loc[u].first
    BY <2>1 DEF Inv, HazardInv, Kept
  <2>2. CASE loc[u].pc \in Safe1 /\ s = loc[u].second
    BY <2>2 DEF Inv, HazardInv, Kept
  <2>. QED
    BY <2>1, <2>2 DEF InHand, Safe0, Safe1, FromHead
<1>. QED
  BY <1>1, SpecInv, PTL

\* A dequeue that returns -1 has seen the queue empty.
THEOREM EmptyWasSeen == Spec => EmptyWasEmpty
<1>1. Inv /\ [Next]_vars => [\A u \in User : DequeueEmpty(u) => loc[u].wasEmpty]_vars
  BY DEF Inv, ReadInv, DequeueEmpty, At, Empty
<1>. QED
  BY <1>1, SpecInv, PTL DEF Spec, EmptyWasEmpty

-----------------------------------------------------------------------------
(***************************************************************************)
(* The list implements the FIFO                                            *)
(***************************************************************************)

\* The data of a node changes while its enqueue fills it.
LEMMA DataAfter ==
    ASSUME Inv, NEW p \in User, Call(p) \/ Step(p), NEW s \in Slot, s \notin Held(p)
    PROVE  data'[s] = data[s]
<1>1. Effect(p) /\ data \in [Slot -> Message \cup {NoMessage}]
  BY EffectIs DEF Inv, Types
<1>2. CASE Fill(p)
  <2>1. Held(p) = {loc[p].node}
    BY <1>2, HeldIs DEF Fill, At, HasNode
  <2>. QED
    BY <1>1, <1>2, <2>1 DEF Fill
<1>3. CASE ~Fill(p)
  BY <1>1, <1>3 DEF Effect, Quiet, ScanTakes, Linking, Link, Moving, Move,
     RetireReset, RetireFree
<1>. QED
  BY <1>2, <1>3

\* The contents, by their places in the list.
ContentsInv ==
    /\ Contents \in Seq(Message \cup {NoMessage})
    /\ Len(Contents) = Len(List) - 1 /\ Len(List) \in Nat \ {0}
    /\ \A k \in 1 .. Len(List) - 1 : Contents[k] = data[List[k + 1]]
    /\ \A k \in 1 .. Len(List) : List[k] \in Slot /\ List[k] \in InList

\* Every place of the list but the first holds a message.
LEMMA ContentsIs ==
    Inv => ContentsInv
<1> SUFFICES ASSUME Inv PROVE ContentsInv
  OBVIOUS
<1>1. Len(List) \in Nat \ {0} /\ List \in Seq(Slot) /\ DOMAIN List = 1 .. Len(List)
  BY ListIs, LenProperties DEF Inv, ListInv, IsList
<1>2. \A k \in 1 .. Len(List) : List[k] \in Slot /\ List[k] \in InList
  BY <1>1 DEF InList, Range
<1>3. Contents = [k \in 1 .. Len(List) - 1 |-> data[List[k + 1]]]
  BY DEF Contents
<1>4. \A k \in 1 .. Len(List) - 1 : data[List[k + 1]] \in Message \cup {NoMessage}
  BY <1>1, <1>2 DEF Inv, Types
<1>. QED
  BY <1>1, <1>2, <1>3, <1>4 DEF ContentsInv

\* What a step does to the messages in the queue.
LEMMA ContentsAfter ==
    ASSUME Inv, Inv', NEW p \in User, Call(p) \/ Step(p)
    PROVE  /\ ~Linking(p) /\ ~Moving(p) => Contents' = Contents
           /\ Linking(p) => Contents' = Append(Contents, loc[p].msg)
           /\ Moving(p) => /\ Contents # <<>> /\ Contents' = Tail(Contents)
                           /\ Head(Contents) = data[loc[p].second]
<1> PICK C, D, L, M : /\ C = Contents /\ D = Contents' /\ L = List /\ M = List'
  OBVIOUS
<1>1. /\ C \in Seq(Message \cup {NoMessage})
      /\ Len(C) = Len(L) - 1 /\ Len(L) \in Nat \ {0}
      /\ \A k \in 1 .. Len(L) - 1 : C[k] = data[L[k + 1]]
      /\ \A k \in 1 .. Len(L) : L[k] \in Slot /\ L[k] \in InList
  BY ContentsIs DEF ContentsInv
<1>2. /\ D \in Seq(Message \cup {NoMessage})
      /\ Len(D) = Len(M) - 1 /\ Len(M) \in Nat \ {0}
      /\ \A k \in 1 .. Len(M) - 1 : D[k] = data'[M[k + 1]]
  <2>1. ContentsInv'
    BY ContentsIs, PTL
  <2>. QED
    BY <2>1 DEF ContentsInv
<1>3. \A s \in InList : s \in Slot => data'[s] = data[s]
  BY DataAfter, OneOwnerIsApart DEF Inv, OwnerInv, Apart
<1>4. ASSUME ~Linking(p), ~Moving(p) PROVE D = C
  <2>1. M = L
    BY <1>4, ListAfter
  <2>2. \A k \in 1 .. Len(L) - 1 : k + 1 \in 1 .. Len(L)
    BY <1>1
  <2>3. \A k \in 1 .. Len(C) : D[k] = C[k]
    BY <1>1, <1>2, <1>3, <2>1, <2>2
  <2>. QED
    BY <1>1, <1>2, <2>1, <2>3, SeqEqual
<1>5. ASSUME Linking(p) PROVE D = Append(C, loc[p].msg)
  <2>1. M = Append(L, loc[p].node) /\ L \in Seq(Slot) /\ loc[p].node \in Slot
    BY <1>5, ListAfter DEF Linking, Moving, Link, Move, At, Inv, ListInv, IsList,
       LocalInv, LocalOk, HasNode
  <2>2. data'[loc[p].node] = loc[p].msg /\ loc[p].msg \in Message \cup {NoMessage}
    BY <1>5 DEF Linking, Link, At, Inv, NodeInv, HasNode, Types, Local
  <2>3. /\ Len(M) = Len(L) + 1 /\ M[Len(L) + 1] = loc[p].node
        /\ \A k \in 1 .. Len(L) : M[k] = L[k]
    BY <2>1, AppendProperties
  <2> PICK E : E = Append(C, loc[p].msg)
    OBVIOUS
  <2>4. /\ E \in Seq(Message \cup {NoMessage}) /\ Len(E) = Len(C) + 1
        /\ E[Len(C) + 1] = loc[p].msg
        /\ \A k \in 1 .. Len(C) : E[k] = C[k]
    BY <1>1, <2>2, AppendProperties
  <2>5. \A k \in 1 .. Len(D) : D[k] = E[k]
    <3> SUFFICES ASSUME NEW k \in 1 .. Len(D) PROVE D[k] = E[k]
      OBVIOUS
    <3>1. CASE k = Len(L)
      BY <1>1, <1>2, <2>2, <2>3, <2>4, <3>1
    <3>2. CASE k # Len(L)
      <4>1. k \in 1 .. Len(C) /\ k \in 1 .. Len(L) - 1 /\ k + 1 \in 1 .. Len(L)
            /\ k \in 1 .. Len(M) - 1
        BY <1>1, <1>2, <2>3, <3>2
      <4>2. D[k] = data'[L[k + 1]] /\ E[k] = data[L[k + 1]]
        BY <1>1, <1>2, <2>3, <2>4, <4>1
      <4>. QED
        BY <1>1, <1>3, <4>1, <4>2
    <3>. QED
      BY <3>1, <3>2
  <2>. QED
    BY <1>1, <1>2, <2>3, <2>4, <2>5, SeqEqual
<1>6. ASSUME Moving(p) PROVE C # <<>> /\ D = Tail(C) /\ Head(C) = data[loc[p].second]
  <2>1. M = Tail(L) /\ Len(L) > 1 /\ loc[p].second = L[2] /\ L \in Seq(Slot) /\ L # <<>>
    BY <1>6, ListAfter DEF Linking, Moving, Link, Move, At, Inv, ListInv, IsList
  <2>2. Len(M) = Len(L) - 1 /\ \A k \in 1 .. Len(M) : M[k] = L[k + 1]
    BY <2>1, HeadTailProperties
  <2>3. Len(C) > 0 /\ 1 \in 1 .. Len(L) - 1
    BY <1>1, <2>1
  <2>4. C # <<>> /\ Head(C) = C[1] /\ C[1] = data[L[2]]
    BY <1>1, <2>3
  <2> PICK E : E = Tail(C)
    OBVIOUS
  <2>5. /\ E \in Seq(Message \cup {NoMessage}) /\ Len(E) = Len(C) - 1
        /\ \A k \in 1 .. Len(E) : E[k] = C[k + 1]
    BY <1>1, <2>4, HeadTailProperties
  <2>6. \A k \in 1 .. Len(D) : D[k] = E[k]
    <3> SUFFICES ASSUME NEW k \in 1 .. Len(D) PROVE D[k] = E[k]
      OBVIOUS
    <3>1. /\ k \in 1 .. Len(E) /\ k + 1 \in 1 .. Len(L) - 1 /\ k + 2 \in 1 .. Len(L)
          /\ k + 1 \in 1 .. Len(M) /\ k \in 1 .. Len(M) - 1 /\ k + 1 + 1 = k + 2
      BY <1>1, <1>2, <2>1, <2>2, <2>5
    <3>2. D[k] = data'[L[k + 2]] /\ E[k] = data[L[k + 2]]
      BY <1>1, <1>2, <2>2, <2>5, <3>1
    <3>. QED
      BY <1>1, <1>3, <3>1, <3>2
  <2>. QED
    BY ZenonT(40), <1>1, <1>2, <2>1, <2>2, <2>4, <2>5, <2>6, SeqEqual
<1>. QED
  BY <1>4, <1>5, <1>6

\* What a step does to the message of its caller.
CallingAfter(p) ==
    \/ /\ \E m \in Message : Enqueue(p, m) /\ loc'[p].msg = m
       /\ loc[p].msg = NoMessage /\ ~At(p, "swing") /\ ~At(p, "swing")'
    \/ /\ Swing(p) \/ ScanMisses(p)
       /\ loc[p].msg # NoMessage /\ loc'[p].msg = NoMessage /\ ~At(p, "swing")'
    \/ /\ loc'[p].msg = loc[p].msg
       /\ ~At(p, "swing") /\ (At(p, "swing")' <=> Linking(p))

\* The message of a call stays until it returns.
LEMMA CallingIs ==
    ASSUME Inv, NEW p \in User, Call(p) \/ Step(p)
    PROVE  CallingAfter(p)
<1>0. /\ Types /\ LocalOk(loc[p]) /\ loc[p].msg \in Message \cup {NoMessage}
      /\ loc[p].msg \in Message <=> \/ loc[p].pc \in HasNode \cup {"scan", "swing"}
                                    \/ loc[p].pc \in Retiring /\ loc[p].then = "scan"
      /\ NoMessage \notin Message /\ loc[p].then \in {"idle", "scan", "head"}
      /\ loc[p].pc \in {"tailNext", "headNext", "copy"} => loc[p].first \in Slot
      /\ loc[p].pc \in Retiring <=> loc[p].todo # <<>>
  <2>1. Types /\ LocalOk(loc[p]) /\ loc[p] \in Local
    BY DEF Inv, LocalInv, Types
  <2>2. /\ loc[p].msg \in Message \cup {NoMessage}
        /\ loc[p].then \in {"idle", "scan", "head"}
    BY <2>1 DEF Local
  <2>. QED
    BY <2>1, <2>2, MessageAssumption DEF LocalOk, Named0, Safe0, FromHead
<1>1. loc[p].pc # "link" => ~Linking(p)
  BY DEF Linking, Link, At
<1> USE DEF CallingAfter, At, HasNode, Retiring
<1>2. CASE \E m \in Sends[p] : Enqueue(p, m)
  <2>1. PICK m \in Message : Enqueue(p, m)
    BY <1>2, SendsAssumption DEF User
  <2>. QED
    BY <1>0, <2>1, EnqueueIs
<1>3. CASE Dequeue(p)
  BY <1>0, <1>1, <1>3, DequeueIs
<1>4. CASE Copy(p)
  BY <1>0, <1>1, <1>4, CopyIs DEF Copy
<1>5. CASE RetireKeep(p) \/ RetireFree(p)
  <2>1. loc[p].todo # <<>> /\ Done(p) /\ loc[p].pc \in {"compare", "free"}
    BY <1>0, <1>5 DEF RetireKeep, RetireFree
  <2>. QED
    BY <1>0, <1>1, <2>1, DoneIs
<1>6. CASE RetirePass(p)
  BY <1>0, <1>1, <1>6, RetirePassIs
<1>7. CASE RetireReset(p)
  BY <1>0, <1>1, <1>7, RetireResetIs
<1>8. CASE ScanMisses(p)
  BY <1>0, <1>1, <1>8, ScanMissesIs, IdleIs
<1>9. CASE Swing(p)
  BY <1>0, <1>9, SwingIs, IdleIs
<1>10. CASE ScanTakes(p)
  BY <1>0, <1>1, <1>10, ScanTakesIs
<1>11. CASE Fill(p)
  BY <1>0, <1>1, <1>11, FillIs
<1>12. CASE ReadTail(p)
  BY <1>0, <1>1, <1>12, ReadTailIs
<1>13. CASE ProtectTail(p)
  BY <1>0, <1>1, <1>13, ProtectTailIs
<1>14. CASE CheckTail(p)
  BY <1>0, <1>1, <1>14, CheckTailIs
<1>15. CASE ReadTailNext(p)
  BY <1>0, <1>1, <1>15, ReadTailNextIs DEF ReadTailNext
<1>16. CASE HelpTail(p)
  BY <1>0, <1>1, <1>16, HelpTailIs
<1>17. CASE Link(p)
  BY <1>0, <1>1, <1>17, LinkIs DEF Linking
<1>18. CASE ReadHead(p)
  BY <1>0, <1>1, <1>18, ReadHeadIs
<1>19. CASE ProtectHead(p)
  BY <1>0, <1>1, <1>19, ProtectHeadIs
<1>20. CASE CheckHead(p)
  BY <1>0, <1>1, <1>20, CheckHeadIs
<1>21. CASE ReadHeadTail(p)
  BY <1>0, <1>1, <1>21, ReadHeadTailIs
<1>22. CASE ReadHeadNext(p)
  BY <1>0, <1>1, <1>22, ReadHeadNextIs DEF ReadHeadNext
<1>23. CASE ProtectNext(p)
  BY <1>0, <1>1, <1>23, ProtectNextIs
<1>24. CASE DequeueEmpty(p)
  BY <1>0, <1>1, <1>24, DequeueEmptyIs, IdleIs
<1>25. CASE RecheckHead(p)
  BY <1>0, <1>1, <1>25, RecheckHeadIs
<1>26. CASE HelpHead(p)
  BY <1>0, <1>1, <1>26, HelpHeadIs
<1>27. CASE Move(p)
  BY <1>0, <1>1, <1>27, MoveIs
<1>. QED
  BY <1>2, <1>3, <1>4, <1>5, <1>6, <1>7, <1>8, <1>9, <1>10, <1>11, <1>12, <1>13,
     <1>14, <1>15, <1>16, <1>17, <1>18, <1>19, <1>20, <1>21, <1>22, <1>23, <1>24,
     <1>25, <1>26, <1>27 DEF Call, Step

\* What each user has received.
Taken(u) == IF At(u, "copy") THEN data[loc[u].second] ELSE got[u]

\* A message is received by the compare-and-swap of the head.
LEMMA TakenIs ==
    ASSUME Inv, NEW p \in User, Call(p) \/ Step(p)
    PROVE  /\ \A u \in User : u # p => Taken(u)' = Taken(u)
           /\ Taken(p)' = IF Moving(p) THEN data[loc[p].second] ELSE Taken(p)
<1>0. Types /\ got \in [User -> Message \cup {NoMessage}] /\ LocalInv
  BY DEF Inv, Types
<1>1. ASSUME NEW u \in User, u # p PROVE Taken(u)' = Taken(u)
  <2>1. loc'[u] = loc[u] /\ got'[u] = got[u]
    BY <1>0, <1>1, OthersStay
  <2>2. CASE At(u, "copy")
    <3>1. loc[u].second \in Slot /\ loc[u].second \notin Held(p)
      BY <1>0, <2>2 DEF At, LocalInv, LocalOk, Safe1, Inv, HazardInv, Kept
    <3>2. data'[loc[u].second] = data[loc[u].second]
      BY <3>1, DataAfter
    <3>. QED
      BY <2>1, <2>2, <3>2 DEF Taken, At
  <2>. QED
    BY <2>1, <2>2 DEF Taken, At
<1>2. CASE Copy(p)
  <2>1. loc[p].pc = "copy" /\ got'[p] = data[loc[p].second] /\ loc'[p].pc # "copy"
    BY <1>0, <1>2, RetireEnds DEF Copy, At
  <2>. QED
    BY <1>1, <1>2, <2>1 DEF Taken, At, Moving, Move
<1>3. CASE Moving(p)
  <2>1. loc'[p].pc = "copy" /\ loc'[p].second = loc[p].second /\ data' = data
    BY <1>0, <1>3, MoveIs DEF Moving, Move
  <2>. QED
    BY <1>1, <1>3, <2>1 DEF Taken, At
<1>4. ASSUME ~Copy(p), ~Moving(p) PROVE Taken(p)' = Taken(p)
  <2>1. loc'[p].pc # "copy"
    BY <1>4, RetireEnds, Elsewhere DEF Plain
  <2>2. loc[p].pc # "copy"
    <3>1. CASE Step(p) /\ ~InRetire(p)
      BY <1>4, <3>1, Elsewhere DEF Plain
    <3>2. CASE Call(p) \/ InRetire(p)
      BY ZenonT(40), <3>2 DEF Call, Enqueue, Dequeue, InRetire, RetireKeep, RetirePass, RetireReset,
         RetireFree, At
    <3>. QED
      BY <3>1, <3>2
  <2>3. got' = got
    BY <1>4 DEF Step, Call, Enqueue, Dequeue, RetireKeep, RetirePass, RetireReset,
       RetireFree, ScanTakes, ScanMisses, Fill, ReadTail, ProtectTail, CheckTail,
       ReadTailNext, HelpTail, Link, Swing, ReadHead, ProtectHead, CheckHead,
       ReadHeadTail, ReadHeadNext, ProtectNext, DequeueEmpty, RecheckHead, HelpHead,
       Move
  <2>. QED
    BY <2>1, <2>2, <2>3 DEF Taken, At
<1>. QED
  BY <1>1, <1>2, <1>3, <1>4

\* Every step is one of the FIFO, or changes nothing there.
LEMMA FifoStep ==
    ASSUME Inv, Inv', NEW p \in User, Call(p) \/ Step(p)
    PROVE  [Fifo!Next]_(Fifo!vars)
<1> PICK c, c2, b, b2, t, t2 :
         /\ c = [u \in User |-> loc[u].msg] /\ c2 = [u \in User |-> loc'[u].msg]
         /\ b = [u \in User |-> At(u, "swing")] /\ b2 = [u \in User |-> At(u, "swing")']
         /\ t = [u \in User |-> Taken(u)] /\ t2 = [u \in User |-> Taken(u)']
  OBVIOUS
<1>0. Types /\ loc[p].msg \in Message \cup {NoMessage}
  BY DEF Inv, Types, Local
<1>1. \A u \in User : u # p => c2[u] = c[u] /\ b2[u] = b[u] /\ t2[u] = t[u]
  BY <1>0, OthersStay, TakenIs DEF At
<1>2. /\ c[p] = loc[p].msg /\ c2[p] = loc'[p].msg
      /\ b[p] = At(p, "swing") /\ b2[p] = At(p, "swing")'
      /\ t[p] = Taken(p) /\ t2[p] = Taken(p)'
  OBVIOUS
<1>3. /\ c2[p] = c[p] => c2 = c
      /\ b2[p] = b[p] => b2 = b
      /\ t2[p] = t[p] => t2 = t
  BY <1>1
<1>4. /\ Fifo!vars = <<Contents, c, b, t, [u \in User |-> 0]>>
      /\ Fifo!vars' = <<Contents', c2, b2, t2, [u \in User |-> 0]>>
  BY DEF Fifo!vars, Taken
<1>5. CASE ~Linking(p) /\ ~Moving(p) /\ loc'[p].msg = loc[p].msg
           /\ ~At(p, "swing") /\ ~At(p, "swing")'
  <2>1. Contents' = Contents /\ c2 = c /\ b2 = b /\ t2 = t
    BY <1>2, <1>3, <1>5, ContentsAfter, TakenIs DEF At
  <2>. QED
    BY <1>4, <2>1
<1>6. CASE \E m \in Message : Enqueue(p, m) /\ loc'[p].msg = m
           /\ loc[p].msg = NoMessage /\ ~At(p, "swing") /\ ~At(p, "swing")'
  <2>1. PICK m \in Message : Enqueue(p, m) /\ loc'[p].msg = m
    BY <1>6
  <2>2. ~Linking(p) /\ ~Moving(p)
    BY <2>1 DEF Enqueue, Linking, Moving, Link, Move, At
  <2>3. Contents' = Contents /\ b2 = b /\ t2 = t /\ c[p] = NoMessage
    BY <1>2, <1>3, <1>6, <2>2, ContentsAfter, TakenIs DEF At
  <2>4. c2 = [c EXCEPT ![p] = m]
    BY <1>1, <1>2, <2>1
  <2>5. Fifo!Call(p)
    BY <2>3, <2>4 DEF Fifo!Call, Taken
  <2>. QED
    BY <2>5 DEF Fifo!Next
<1>7. CASE (Swing(p) \/ ScanMisses(p)) /\ loc[p].msg # NoMessage
           /\ loc'[p].msg = NoMessage /\ ~At(p, "swing")'
  <2>2. ~Linking(p) /\ ~Moving(p)
    BY <1>7 DEF Swing, ScanMisses, Linking, Moving, Link, Move, At
  <2>3. Contents' = Contents /\ t2 = t /\ c[p] # NoMessage
    BY <1>2, <1>3, <1>7, <2>2, ContentsAfter, TakenIs
  <2>4. c2 = [c EXCEPT ![p] = NoMessage] /\ b2 = [b EXCEPT ![p] = FALSE]
    BY ZenonT(40), <1>1, <1>2, <1>7 DEF At
  <2>5. Fifo!Return(p)
    BY <2>3, <2>4 DEF Fifo!Return, Taken
  <2>. QED
    BY <2>5 DEF Fifo!Next
<1>8. CASE Linking(p) /\ loc'[p].msg = loc[p].msg
           /\ ~At(p, "swing") /\ At(p, "swing")'
  <2>1. loc[p].msg # NoMessage
    BY <1>8, MessageAssumption DEF Linking, Link, At, Inv, LocalInv, LocalOk, HasNode
  <2>2. ~Moving(p)
    BY <1>8 DEF Linking, Moving, Link, Move, At
  <2>3. /\ Contents' = Append(Contents, c[p]) /\ t2 = t /\ c2 = c
        /\ c[p] # NoMessage /\ ~b[p]
    BY <1>2, <1>3, <1>8, <2>1, <2>2, ContentsAfter, TakenIs DEF At
  <2>4. b2 = [b EXCEPT ![p] = TRUE]
    BY <1>1, <1>2, <1>8 DEF At
  <2>5. Fifo!Put(p)
    BY <2>3, <2>4 DEF Fifo!Put, Taken
  <2>. QED
    BY <2>5 DEF Fifo!Next
<1>9. CASE Moving(p) /\ loc'[p].msg = loc[p].msg /\ ~At(p, "swing") /\ ~At(p, "swing")'
  <2>1. ~Linking(p)
    BY <1>9 DEF Linking, Moving, Link, Move, At
  <2>2. /\ Contents # <<>> /\ Contents' = Tail(Contents) /\ c2 = c /\ b2 = b
        /\ t2[p] = Head(Contents)
    BY <1>2, <1>3, <1>9, ContentsAfter, TakenIs DEF At
  <2>3. t2 = [t EXCEPT ![p] = Head(Contents)]
    BY <1>1, <2>2
  <2>4. [u \in User |-> 0] = [[u \in User |-> 0] EXCEPT ![p] = 0]
    OBVIOUS
  <2>5. Fifo!Take(p)
    BY <2>2, <2>3, <2>4 DEF Fifo!Take, Taken
  <2>. QED
    BY <2>5 DEF Fifo!Next
<1>. QED
  BY <1>5, <1>6, <1>7, <1>8, <1>9, CallingIs DEF CallingAfter

\* The list implements the FIFO.
THEOREM QueueImplementsFifo == Spec => ImplementsFifo
<1>1. Init => Fifo!Init
  <2> SUFFICES ASSUME Init PROVE Fifo!Init
    OBVIOUS
  <2>1. \A u \in User : loc[u] = Idle /\ got[u] = NoMessage
    BY DEF Init
  <2>2. Contents = <<>>
    <3>1. 0 \in Slot /\ IsList(<<0>>, head, next)
      BY NumSlotsAssumption DEF Init, IsList, Slot, UNDEFINED_NODE
    <3>2. List = <<0>>
      BY <3>1, WalkIs, ListIsWalk
    <3>3. ContentsInv
      BY InitInv, ContentsIs
    <3>. QED
      BY <3>2, <3>3 DEF ContentsInv
  <2>3. \A u \in User : loc[u].msg = NoMessage /\ ~At(u, "swing") /\ Taken(u) = NoMessage
    BY <2>1, IdleIs DEF At, Taken
  <2>4. [u \in User |-> loc[u].msg] = [u \in User |-> NoMessage]
    BY <2>3
  <2>5. [u \in User |-> At(u, "swing")] = [u \in User |-> FALSE]
    <3>1. \A u \in User : At(u, "swing") = FALSE
      BY <2>3
    <3>. QED
      BY <3>1, Zenon
  <2>6. [u \in User |-> Taken(u)] = [u \in User |-> NoMessage]
    BY <2>3
  <2>. QED
    BY <2>2, <2>4, <2>5, <2>6 DEF Fifo!Init, Taken
<1>2. Inv /\ Inv' /\ [Next]_vars => [Fifo!Next]_(Fifo!vars)
  <2> SUFFICES ASSUME Inv, Inv', [Next]_vars PROVE [Fifo!Next]_(Fifo!vars)
    OBVIOUS
  <2>1. CASE Next
    BY <2>1, FifoStep DEF Next
  <2>2. CASE UNCHANGED vars
    <3>1. loc' = loc /\ got' = got /\ data' = data /\ head' = head /\ next' = next
      BY <2>2 DEF vars, listVars
    <3>2. Contents' = Contents
      BY <3>1, ListIsWalk DEF Contents
    <3>. QED
      BY <3>1, <3>2 DEF Fifo!vars, At
  <2>. QED
    BY <2>1, <2>2
<1>. QED
  BY <1>1, <1>2, SpecInv, PTL DEF Spec, ImplementsFifo, Fifo!Spec
=============================================================================
