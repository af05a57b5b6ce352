--------------------------- MODULE SuperbufProofs ---------------------------
(***************************************************************************)
(* Proofs about SuperbufQueue, for a queue of either priority: the buffers *)
(* in it (BufInv), then the order of the list and its counter (Inv).       *)
(*                                                                         *)
(* MatchedFirst alone is not inductive: a frame that completes releases    *)
(* the nodes from the first older unmatched one up to its own, and only    *)
(* because the unmatched nodes are sorted are these exactly the unmatched  *)
(* nodes before it.  With low priority they are not: a node that waits     *)
(* with metadata of a later frame may take an earlier one.  But a node     *)
(* that is out of order then lacks a frame that its stream has passed, so  *)
(* it never completes (Dead).  Shape joins the two; Inv adds the bound on  *)
(* unmatched nodes and that a queue of one stream has none.                *)
(***************************************************************************)
EXTENDS SuperbufQueue, FiniteSetTheorems, WellFoundedInduction, TLAPS

-----------------------------------------------------------------------------
(* The list operators.                                                     *)

\* The least item of a set of numbers exists.
LEMMA FirstOfNat ==
  ASSUME NEW S, S \subseteq Nat, S # {}
  PROVE  FirstOf(S) \in S /\ \A j \in S : FirstOf(S) <= j
<1> DEFINE R == {ss \in Nat \X Nat : ss[1] < ss[2]}
<1>0. OpToRel(<, Nat) = R
  BY DEF OpToRel
<1>1. IsWellFoundedOn(R, Nat)
  BY <1>0, NatLessThanWellFounded
<1> HIDE DEF R
<1>2. PICK x \in S : \A y \in S : ~(<<y, x>> \in R)
  BY <1>1, WFMin
<1>3. \A y \in S : x <= y
  <2>1. SUFFICES ASSUME NEW y \in S PROVE x <= y
    OBVIOUS
  <2>2. x \in Nat /\ y \in Nat
    OBVIOUS
  <2>3. <<y, x>> \in R <=> y < x
    BY <2>2 DEF R
  <2> QED
    BY <1>2, <2>2, <2>3
<1> QED
  BY <1>3 DEF FirstOf

\* Cut returns a list without the given stretch.
LEMMA CutIs ==
  ASSUME NEW S, NEW s \in Seq(S), NEW a \in 1 .. Len(s) + 1, NEW b \in a .. Len(s) + 1
  PROVE  /\ Cut(s, a, b) \in Seq(S)
         /\ Len(Cut(s, a, b)) = Len(s) - (b - a)
         /\ \A i \in 1 .. Len(s) - (b - a) :
              Cut(s, a, b)[i] = IF i < a THEN s[i] ELSE s[i + (b - a)]
<1>1. Len(s) - (b - a) \in Nat
  OBVIOUS
<1>2. \A i \in 1 .. Len(s) - (b - a) :
        (IF i < a THEN s[i] ELSE s[i + (b - a)]) \in S
  <2>1. SUFFICES ASSUME NEW i \in 1 .. Len(s) - (b - a)
                 PROVE  (IF i < a THEN s[i] ELSE s[i + (b - a)]) \in S
    OBVIOUS
  <2>2. CASE i < a
    BY <2>2
  <2>3. CASE ~(i < a)
    <3>1. i + (b - a) \in 1 .. Len(s)
      OBVIOUS
    <3> QED
      BY <2>3, <3>1
  <2> QED
    BY <2>2, <2>3
<1> QED
  BY <1>1, <1>2 DEF Cut

\* InsertAt returns a list with one more item.
LEMMA InsertAtIs ==
  ASSUME NEW S, NEW s \in Seq(S), NEW p \in 1 .. Len(s) + 1, NEW x \in S
  PROVE  /\ InsertAt(s, p, x) \in Seq(S)
         /\ Len(InsertAt(s, p, x)) = Len(s) + 1
         /\ \A i \in 1 .. Len(s) + 1 :
              InsertAt(s, p, x)[i] =
                IF i < p THEN s[i] ELSE IF i = p THEN x ELSE s[i - 1]
<1>1. \A i \in 1 .. Len(s) + 1 :
        (IF i < p THEN s[i] ELSE IF i = p THEN x ELSE s[i - 1]) \in S
  <2>1. SUFFICES ASSUME NEW i \in 1 .. Len(s) + 1
                 PROVE  (IF i < p THEN s[i] ELSE IF i = p THEN x ELSE s[i - 1]) \in S
    OBVIOUS
  <2>2. i < p => i \in 1 .. Len(s)
    OBVIOUS
  <2>3. i > p => i - 1 \in 1 .. Len(s)
    OBVIOUS
  <2> QED
    BY <2>2, <2>3
<1> QED
  BY <1>1 DEF InsertAt

-----------------------------------------------------------------------------
(* The buffers, for a queue of either priority with at most one metadata   *)
(* stream.  A buffer that arrives is younger than all of its stream, so    *)
(* the slot that takes it is free and no other node has it; what a cut     *)
(* takes out of the list is in no node that stays.                         *)

OneMeta == \A s, t \in Meta : s = t

\* What the slots of a node hold; one that waits with metadata only has no other, and
\* with low priority every other node has a frame.
NodeOK(n) ==
  /\ \A s \in Streams :
       /\ n.slot[s] # 0 => n.slot[s] = n.idx \/ (low /\ s \in Meta /\ n.slot[s] > n.idx)
       /\ n.slot[s] <= last[s]
       /\ n.meta > 0 =>
            IF s \in Meta THEN n.slot[s] = n.idx ELSE n.slot[s] = 0
  /\ n.meta > 0 => low /\ n.meta = n.idx
  /\ low /\ n.meta = 0 => \E s \in Streams \ Meta : n.slot[s] # 0
  /\ n.idx > 0

\* The buffers in the places P of the list ns; no two nodes have one in common.
BufsIn(ns, P) == {b \in Buffers : \E i \in P : ns[i].slot[b.stream] = b.idx}
Distinct(ns) ==
  \A i, j \in 1 .. Len(ns) : i # j => BufsOf(ns[i]) \cap BufsOf(ns[j]) = {}

BufInv ==
  /\ low \in BOOLEAN /\ nodes \in Seq(Node) /\ last \in [Streams -> Nat]
  /\ held \subseteq Buffers /\ given \subseteq Buffers
  /\ \A i \in 1 .. Len(nodes) : NodeOK(nodes[i])
  /\ \A b \in given : b.idx <= last[b.stream]
  /\ held = BufsIn(nodes, 1 .. Len(nodes)) \cup given
  /\ BufsIn(nodes, 1 .. Len(nodes)) \cap given = {}
  /\ Distinct(nodes)

\* The streams and frames of buffers.
LEMMA BufferFacts ==
  \A b \in Buffers : b.stream \in Streams /\ b.idx \in Nat /\ b.idx > 0
  BY SuperbufAssumption DEF Buffers, Frames

\* A cut divides what the list holds.
LEMMA CutBufs ==
  ASSUME NEW ns \in Seq(Node), Distinct(ns), NEW a \in 1 .. Len(ns) + 1, NEW b \in a .. Len(ns) + 1
  PROVE  LET c == Cut(ns, a, b) IN
         /\ c \in Seq(Node) /\ Distinct(c)
         /\ \A k \in 1 .. Len(c) : \E i \in 1 .. Len(ns) : c[k] = ns[i]
         /\ BufsIn(c, 1 .. Len(c)) = BufsIn(ns, 1 .. Len(ns)) \ BufsIn(ns, a .. b - 1)
<1>0. PICK c : c = Cut(ns, a, b)
  OBVIOUS
<1> DEFINE d == b - a
           at(k) == IF k < a THEN k ELSE k + d
           to(i) == IF i < a THEN i ELSE i - d
<1>1. /\ c \in Seq(Node) /\ Len(c) = Len(ns) - d
      /\ \A k \in 1 .. Len(ns) - d : c[k] = IF k < a THEN ns[k] ELSE ns[k + d]
  BY <1>0, CutIs
<1>2. \A k \in 1 .. Len(c) : c[k] = ns[at(k)]
  BY <1>1
<1>3. \A k \in 1 .. Len(c) : at(k) \in (1 .. Len(ns)) \ (a .. b - 1)
  BY <1>1
<1>4. \A k, l \in 1 .. Len(c) : k # l => at(k) # at(l)
  BY <1>1
<1>5. \A i \in (1 .. Len(ns)) \ (a .. b - 1) : to(i) \in 1 .. Len(c) /\ at(to(i)) = i
  BY <1>1
<1>6. a .. b - 1 \subseteq 1 .. Len(ns)
  OBVIOUS
<1> HIDE DEF at, to, d
<1>7. Distinct(c)
  <2> SUFFICES ASSUME NEW k \in 1 .. Len(c), NEW l \in 1 .. Len(c), k # l
               PROVE  BufsOf(c[k]) \cap BufsOf(c[l]) = {}
    BY DEF Distinct
  <2>1. at(k) \in 1 .. Len(ns) /\ at(l) \in 1 .. Len(ns) /\ at(k) # at(l)
    BY <1>3, <1>4
  <2> QED
    BY <1>2, <2>1 DEF Distinct
<1>8. \A k \in 1 .. Len(c) : \E i \in 1 .. Len(ns) : c[k] = ns[i]
  BY <1>2, <1>3
<1>9. BufsIn(c, 1 .. Len(c)) \subseteq BufsIn(ns, 1 .. Len(ns)) \ BufsIn(ns, a .. b - 1)
  <2> SUFFICES ASSUME NEW x \in BufsIn(c, 1 .. Len(c))
               PROVE  x \in BufsIn(ns, 1 .. Len(ns)) /\ x \notin BufsIn(ns, a .. b - 1)
    OBVIOUS
  <2>1. PICK k \in 1 .. Len(c) : x \in Buffers /\ c[k].slot[x.stream] = x.idx
    BY DEF BufsIn
  <2>2. ns[at(k)].slot[x.stream] = x.idx /\ at(k) \in (1 .. Len(ns)) \ (a .. b - 1)
    BY <1>2, <1>3, <2>1
  <2>3. ASSUME NEW j \in a .. b - 1, ns[j].slot[x.stream] = x.idx
        PROVE  FALSE
    <3>1. x \in BufsOf(ns[j]) \cap BufsOf(ns[at(k)])
      BY <2>1, <2>2, <2>3 DEF BufsOf
    <3>2. j # at(k) /\ j \in 1 .. Len(ns)
      BY <1>6, <2>2
    <3> QED
      BY <2>2, <3>1, <3>2 DEF Distinct
  <2> QED
    BY <2>1, <2>2, <2>3 DEF BufsIn
<1>10. BufsIn(ns, 1 .. Len(ns)) \ BufsIn(ns, a .. b - 1) \subseteq BufsIn(c, 1 .. Len(c))
  <2> SUFFICES ASSUME NEW x \in BufsIn(ns, 1 .. Len(ns)), x \notin BufsIn(ns, a .. b - 1)
               PROVE  x \in BufsIn(c, 1 .. Len(c))
    OBVIOUS
  <2>1. PICK i \in 1 .. Len(ns) : x \in Buffers /\ ns[i].slot[x.stream] = x.idx
    BY DEF BufsIn
  <2>2. i \notin a .. b - 1
    BY <2>1 DEF BufsIn
  <2>3. to(i) \in 1 .. Len(c) /\ c[to(i)] = ns[i]
    BY <1>2, <1>5, <2>2
  <2> QED
    BY <2>1, <2>3 DEF BufsIn
<1> QED
  BY <1>0, <1>1, <1>7, <1>8, <1>9, <1>10

\* The list holds what it held and what the new node holds.
LEMMA InsertBufs ==
  ASSUME NEW ns \in Seq(Node), Distinct(ns), NEW p \in 1 .. Len(ns) + 1, NEW x \in Node,
         BufsOf(x) \cap BufsIn(ns, 1 .. Len(ns)) = {}
  PROVE  LET c == InsertAt(ns, p, x) IN
         /\ c \in Seq(Node) /\ Distinct(c)
         /\ \A k \in 1 .. Len(c) : c[k] = x \/ \E i \in 1 .. Len(ns) : c[k] = ns[i]
         /\ BufsIn(c, 1 .. Len(c)) = BufsIn(ns, 1 .. Len(ns)) \cup BufsOf(x)
<1>0. PICK c : c = InsertAt(ns, p, x)
  OBVIOUS
<1> DEFINE to(i) == IF i < p THEN i ELSE i + 1
           at(k) == IF k < p THEN k ELSE k - 1
<1>1. /\ c \in Seq(Node) /\ Len(c) = Len(ns) + 1
      /\ \A k \in 1 .. Len(ns) + 1 : c[k] = IF k < p THEN ns[k] ELSE IF k = p THEN x ELSE ns[k - 1]
  <2>1. ns \in Seq(Node) /\ p \in 1 .. Len(ns) + 1 /\ x \in Node
    OBVIOUS
  <2>2. /\ InsertAt(ns, p, x) \in Seq(Node) /\ Len(InsertAt(ns, p, x)) = Len(ns) + 1
        /\ \A k \in 1 .. Len(ns) + 1 :
             InsertAt(ns, p, x)[k] = IF k < p THEN ns[k] ELSE IF k = p THEN x ELSE ns[k - 1]
    BY ONLY <2>1, InsertAtIs
  <2> QED
    BY <1>0, <2>2
<1>2. p \in 1 .. Len(c) /\ c[p] = x
  BY <1>1
<1>3. \A k \in (1 .. Len(c)) \ {p} : at(k) \in 1 .. Len(ns) /\ c[k] = ns[at(k)]
  BY <1>1
<1>4. \A k, l \in (1 .. Len(c)) \ {p} : k # l => at(k) # at(l)
  BY <1>1
<1>5. \A i \in 1 .. Len(ns) : to(i) \in 1 .. Len(c) /\ c[to(i)] = ns[i]
  BY <1>1
<1> HIDE DEF at, to
<1>6. \A i \in 1 .. Len(ns) : BufsOf(ns[i]) \subseteq BufsIn(ns, 1 .. Len(ns))
  BY DEF BufsOf, BufsIn
<1>7. Distinct(c)
  <2> SUFFICES ASSUME NEW k \in 1 .. Len(c), NEW l \in 1 .. Len(c), k # l
               PROVE  BufsOf(c[k]) \cap BufsOf(c[l]) = {}
    BY DEF Distinct
  <2>1. CASE k # p /\ l # p
    BY <1>3, <1>4, <2>1 DEF Distinct
  <2>2. CASE k = p
    BY <1>2, <1>3, <1>6, <2>2
  <2>3. CASE l = p
    BY <1>2, <1>3, <1>6, <2>3
  <2> QED
    BY <2>1, <2>2, <2>3
<1>8. BufsIn(c, 1 .. Len(c)) \subseteq BufsIn(ns, 1 .. Len(ns)) \cup BufsOf(x)
  BY <1>2, <1>3 DEF BufsIn, BufsOf
<1>9. BufsIn(ns, 1 .. Len(ns)) \subseteq BufsIn(c, 1 .. Len(c)) /\ BufsOf(x) \subseteq BufsIn(c, 1 .. Len(c))
  <2>1. ASSUME NEW y \in BufsIn(ns, 1 .. Len(ns))
        PROVE  y \in BufsIn(c, 1 .. Len(c))
    <3>1. PICK i \in 1 .. Len(ns) : y \in Buffers /\ ns[i].slot[y.stream] = y.idx
      BY DEF BufsIn
    <3> QED
      BY <1>5, <3>1 DEF BufsIn
  <2>2. BufsOf(x) \subseteq BufsIn(c, 1 .. Len(c))
    BY <1>2 DEF BufsIn, BufsOf
  <2> QED
    BY <2>1, <2>2
<1> QED
  BY <1>0, <1>1, <1>2, <1>3, <1>7, <1>8, <1>9

\* A node takes a buffer: the list holds that one more.
LEMMA ReplaceBufs ==
  ASSUME NEW ns \in Seq(Node), Distinct(ns), NEW p \in 1 .. Len(ns), NEW x \in Node, NEW b \in Buffers,
         BufsOf(x) = BufsOf(ns[p]) \cup {b}, b \notin BufsIn(ns, 1 .. Len(ns)),
         NEW c \in Seq(Node), Len(c) = Len(ns), \A k \in 1 .. Len(ns) : c[k] = IF k = p THEN x ELSE ns[k]
  PROVE  Distinct(c) /\ BufsIn(c, 1 .. Len(c)) = BufsIn(ns, 1 .. Len(ns)) \cup {b}
<1>1. \A i \in 1 .. Len(ns) : BufsOf(ns[i]) \subseteq BufsIn(ns, 1 .. Len(ns))
  BY DEF BufsOf, BufsIn
<1>2. Distinct(c)
  <2> SUFFICES ASSUME NEW k \in 1 .. Len(ns), NEW l \in 1 .. Len(ns), k # l
               PROVE  BufsOf(c[k]) \cap BufsOf(c[l]) = {}
    BY DEF Distinct
  <2>1. BufsOf(ns[k]) \cap BufsOf(ns[l]) = {}
    BY DEF Distinct
  <2>2. BufsOf(ns[k]) \subseteq BufsIn(ns, 1 .. Len(ns)) /\ BufsOf(ns[l]) \subseteq BufsIn(ns, 1 .. Len(ns))
    BY <1>1
  <2>3. CASE k = p
    <3>1. c[k] = x /\ c[l] = ns[l]
      BY <2>3
    <3> QED
      BY <2>1, <2>2, <2>3, <3>1
  <2>4. CASE l = p
    <3>1. c[l] = x /\ c[k] = ns[k]
      BY <2>4
    <3> QED
      BY <2>1, <2>2, <2>4, <3>1
  <2>5. CASE k # p /\ l # p
    <3>1. c[l] = ns[l] /\ c[k] = ns[k]
      BY <2>5
    <3> QED
      BY <2>1, <3>1
  <2> QED
    BY <2>3, <2>4, <2>5
<1>3. BufsIn(c, 1 .. Len(c)) \subseteq BufsIn(ns, 1 .. Len(ns)) \cup {b}
  BY DEF BufsIn, BufsOf
<1>4. BufsIn(ns, 1 .. Len(ns)) \cup {b} \subseteq BufsIn(c, 1 .. Len(c))
  <2>1. b \in BufsOf(c[p]) /\ p \in 1 .. Len(c)
    OBVIOUS
  <2>2. \A i \in 1 .. Len(ns) : BufsOf(ns[i]) \subseteq BufsOf(c[i])
    OBVIOUS
  <2> QED
    BY <2>1, <2>2 DEF BufsIn, BufsOf
<1> QED
  BY <1>2, <1>3, <1>4

\* What arrives is younger than every buffer of its stream.
LEMMA Younger ==
  ASSUME BufInv, NEW b \in Buffers, Arrives(b)
  PROVE  /\ b \notin BufsIn(nodes, 1 .. Len(nodes)) /\ b \notin given
         /\ last' \in [Streams -> Nat] /\ last'[b.stream] = b.idx
         /\ \A s \in Streams : last[s] <= last'[s]
         /\ last[b.stream] < b.idx
<1>1. b.stream \in Streams /\ b.idx \in Nat /\ b.idx > 0
  BY BufferFacts
<1>2. /\ last' \in [Streams -> Nat] /\ last'[b.stream] = b.idx /\ last[b.stream] < b.idx
      /\ \A s \in Streams : last[s] <= last'[s]
  BY <1>1 DEF Arrives, BufInv
<1>3. b \notin given
  BY <1>1, <1>2 DEF BufInv
<1>4. ASSUME NEW i \in 1 .. Len(nodes), nodes[i].slot[b.stream] = b.idx
      PROVE  FALSE
  <2>1. nodes[i].slot[b.stream] <= last[b.stream]
    BY <1>1 DEF BufInv, NodeOK
  <2> QED
    BY <1>1, <1>2, <1>4, <2>1 DEF BufInv
<1> QED
  BY <1>2, <1>3, <1>4 DEF BufsIn

\* A node stays as it should be while its streams go on.
LEMMA NodeOKKept ==
  ASSUME NEW n \in Node, NodeOK(n), low' = low, last \in [Streams -> Nat],
         last' \in [Streams -> Nat], \A s \in Streams : last[s] <= last'[s]
  PROVE  NodeOK(n)'
<1>1. \A s \in Streams : n.slot[s] \in Nat
  BY DEF Node
<1> QED
  BY <1>1 DEF NodeOK

\* The node that takes a buffer holds it besides what it held, and stays as it should be.
LEMMA FilledBufs ==
  ASSUME OneMeta, BufInv, low' = low, NEW b \in Buffers, Arrives(b), Takers(b) # {},
         NEW x \in Node, x.slot = FilledBy(b).slot, x.idx = FilledBy(b).idx, x.meta = FilledBy(b).meta
  PROVE  /\ Pos(b) \in 1 .. Len(nodes)
         /\ NodeOK(x)'
         /\ BufsOf(x) = BufsOf(nodes[Pos(b)]) \cup {b}
<1>1. b.stream \in Streams /\ b.idx \in Nat /\ b.idx > 0
  BY BufferFacts
<1>2. PICK p : p = Pos(b)
  OBVIOUS
<1>3. p \in 1 .. Len(nodes) /\ Takes(p, b)
  <2>1. Takers(b) \subseteq Nat
    BY DEF Takers, Places
  <2> QED
    BY <1>2, <2>1, FirstOfNat DEF Pos, Takers, Places
<1>4. PICK n \in Node : n = nodes[p]
  BY <1>3 DEF BufInv
<1>5. NodeOK(n) /\ low \in BOOLEAN
  BY <1>3, <1>4 DEF BufInv
<1>6. /\ n.slot \in [Streams -> Nat] /\ n.idx \in Nat /\ n.meta \in Nat
  BY DEF Node
<1>7. \/ n.idx = b.idx
      \/ /\ low /\ n.slot[b.stream] = 0
         /\ IF b.stream \in Meta THEN n.idx < b.idx ELSE n.meta > b.idx
  BY <1>3, <1>4 DEF Takes
<1>8. /\ last[b.stream] < b.idx /\ last'[b.stream] = b.idx /\ last \in [Streams -> Nat]
      /\ last' \in [Streams -> Nat] /\ \A s \in Streams : last[s] <= last'[s]
  BY Younger DEF BufInv
<1>9. n.slot[b.stream] = 0
  <2>1. CASE n.slot[b.stream] # 0
    <3>1. n.idx <= n.slot[b.stream] /\ n.slot[b.stream] < b.idx
      BY <1>1, <1>5, <1>6, <1>8, <2>1 DEF NodeOK
    <3> QED
      BY <1>1, <1>6, <1>7, <2>1, <3>1
  <2> QED
    BY <2>1
<1>10. /\ x.slot = [n.slot EXCEPT ![b.stream] = b.idx]
       /\ x.idx = IF n.meta > 0 THEN b.idx ELSE n.idx
       /\ x.meta = 0
  BY <1>2, <1>4, <1>6 DEF FilledBy, Refit, Node
<1>11. BufsOf(x) = BufsOf(n) \cup {b}
  <2>1. \A y \in Buffers : y.stream = b.stream /\ y.idx = b.idx => y = b
    BY DEF Buffers
  <2>2. \A y \in Buffers : y.stream \in Streams /\ y.idx # 0
    BY BufferFacts
  <2> QED
    BY <1>1, <1>6, <1>9, <1>10, <2>1, <2>2 DEF BufsOf
<1>12. ASSUME NEW s \in Streams
       PROVE  /\ x.slot[s] # 0 => x.slot[s] = x.idx \/ (low /\ s \in Meta /\ x.slot[s] > x.idx)
              /\ x.slot[s] <= last'[s]
  <2>1. CASE s = b.stream
    <3>1. x.slot[s] = b.idx
      BY <1>6, <1>10, <2>1
    <3>2. n.meta > 0 \/ n.idx = b.idx \/ (low /\ s \in Meta /\ n.idx < b.idx)
      BY <1>1, <1>6, <1>7, <2>1
    <3> QED
      BY <1>1, <1>6, <1>8, <1>10, <2>1, <3>1, <3>2
  <2>2. CASE s # b.stream
    <3>1. x.slot[s] = n.slot[s]
      BY <1>6, <1>10, <2>2
    <3>2. x.slot[s] <= last'[s]
      BY <1>5, <1>6, <1>8, <3>1 DEF NodeOK
    <3>3. CASE n.meta > 0 /\ s \in Meta
      <4>1. low /\ n.meta = n.idx /\ n.slot[s] = n.idx /\ x.idx = b.idx
        BY <1>5, <1>10, <3>3 DEF NodeOK
      <4>2. b.stream \notin Meta
        BY <2>2, <3>3 DEF OneMeta
      <4> QED
        BY <1>1, <1>6, <1>7, <3>1, <3>2, <3>3, <4>1, <4>2
    <3>4. CASE n.meta > 0 /\ s \notin Meta
      BY <1>5, <3>1, <3>2, <3>4 DEF NodeOK
    <3>5. CASE ~(n.meta > 0)
      BY <1>5, <1>10, <3>1, <3>2, <3>5 DEF NodeOK
    <3> QED
      BY <3>3, <3>4, <3>5
  <2> QED
    BY <2>1, <2>2
<1>13. x.idx > 0
  BY <1>1, <1>5, <1>10 DEF NodeOK
<1>14. low /\ x.meta = 0 => \E s \in Streams \ Meta : x.slot[s] # 0
  <2>1. CASE n.meta > 0 /\ low
    <3>1. b.stream \notin Meta
      <4>1. CASE b.stream \in Meta
        <5>1. n.slot[b.stream] = n.idx /\ n.idx > 0
          BY <1>1, <1>5, <2>1, <4>1 DEF NodeOK
        <5> QED
          BY <1>6, <1>9, <5>1
      <4> QED
        BY <4>1
    <3>2. x.slot[b.stream] # 0
      BY <1>1, <1>6, <1>10
    <3> QED
      BY <1>1, <3>1, <3>2
  <2>2. CASE ~(n.meta > 0) /\ low
    <3>1. PICK s \in Streams \ Meta : n.slot[s] # 0
      BY <1>5, <1>6, <2>2 DEF NodeOK
    <3>2. x.slot[s] # 0
      BY <1>1, <1>6, <1>10, <3>1
    <3> QED
      BY <3>2
  <2> QED
    BY <2>1, <2>2
<1> QED
  BY <1>2, <1>3, <1>4, <1>10, <1>11, <1>12, <1>13, <1>14 DEF NodeOK

\* A buffer that some node takes is taken by a node of the list.
LEMMA FilledType ==
  ASSUME BufInv, NEW b \in Buffers, Takers(b) # {}
  PROVE  FilledBy(b) \in Node /\ Pos(b) \in 1 .. Len(nodes)
<1>1. PICK p : p = Pos(b)
  OBVIOUS
<1>2. p \in 1 .. Len(nodes)
  <2>1. Takers(b) \subseteq Nat
    BY DEF Takers, Places
  <2> QED
    BY <1>1, <2>1, FirstOfNat DEF Pos, Takers, Places
<1>3. PICK n \in Node : n = nodes[p]
  BY <1>2 DEF BufInv
<1>4. b.stream \in Streams /\ b.idx \in Nat
  BY BufferFacts
<1>5. Refit(n, b) \in Node
  BY <1>4 DEF Refit, Node
<1>6. PICK r \in Node : r = Refit(n, b)
  BY <1>5
<1>7. [r EXCEPT !.slot[b.stream] = b.idx] \in Node
  <2>1. [r.slot EXCEPT ![b.stream] = b.idx] \in [Streams -> Nat]
    BY <1>4 DEF Node
  <2> QED
    BY <2>1 DEF Node
<1> QED
  BY <1>1, <1>2, <1>3, <1>6, <1>7 DEF FilledBy

\* What is left of the invariant once the list is known.
LEMMA BufInvFrom ==
  ASSUME BufInv, low' = low, nodes' \in Seq(Node), Distinct(nodes'),
         last' \in [Streams -> Nat], \A s \in Streams : last[s] <= last'[s],
         given' \subseteq Buffers, \A b \in given' : b.idx <= last'[b.stream],
         \A k \in 1 .. Len(nodes') :
           \E n \in Node : n = nodes'[k] /\ (NodeOK(n)' \/ \E i \in 1 .. Len(nodes) : n = nodes[i]),
         held' = BufsIn(nodes', 1 .. Len(nodes')) \cup given',
         BufsIn(nodes', 1 .. Len(nodes')) \cap given' = {}
  PROVE  BufInv'
<1>1. ASSUME NEW k \in 1 .. Len(nodes')
      PROVE  NodeOK(nodes[k])'
  <2>1. PICK n \in Node : n = nodes'[k] /\ (NodeOK(n)' \/ \E i \in 1 .. Len(nodes) : n = nodes[i])
    OBVIOUS
  <2>2. CASE NodeOK(n)'
    BY <2>1, <2>2 DEF NodeOK
  <2>3. CASE \E i \in 1 .. Len(nodes) : n = nodes[i]
    <3>1. NodeOK(n)
      BY <2>3 DEF BufInv
    <3>2. NodeOK(n)'
      BY <3>1, NodeOKKept DEF BufInv
    <3> QED
      BY <2>1, <3>2 DEF NodeOK
  <2> QED
    BY <2>1, <2>2, <2>3
<1>2. held' \subseteq Buffers
  BY DEF BufsIn
<1>3. Distinct(nodes)'
  BY DEF Distinct, BufsOf
<1>4. BufsIn(nodes, 1 .. Len(nodes))' = BufsIn(nodes', 1 .. Len(nodes'))
  BY DEF BufsIn
<1> QED
  BY <1>1, <1>2, <1>3, <1>4 DEF BufInv

\* Nodes go and what they held goes to the kernel or to the HAL.
LEMMA CutBufInv ==
  ASSUME BufInv, low' = low, NEW a \in 1 .. Len(nodes) + 1, NEW b \in a .. Len(nodes) + 1,
         nodes' = Cut(nodes, a, b), last' = last,
         \/ held' = held \ BufsAt(a .. b - 1) /\ given' = given
         \/ held' = held /\ given' = given \cup BufsAt(a .. b - 1)
  PROVE  BufInv'
<1> DEFINE B == BufsIn(nodes, 1 .. Len(nodes))
           R == BufsIn(nodes, a .. b - 1)
           B1 == BufsIn(nodes', 1 .. Len(nodes'))
<1>1. /\ nodes' \in Seq(Node) /\ Distinct(nodes')
      /\ \A k \in 1 .. Len(nodes') : \E i \in 1 .. Len(nodes) : nodes'[k] = nodes[i]
      /\ B1 = B \ R
  BY CutBufs DEF BufInv
<1>2. R = BufsAt(a .. b - 1) /\ R \subseteq B
  <2>1. a .. b - 1 \subseteq 1 .. Len(nodes)
    BY DEF BufInv
  <2> QED
    BY <2>1 DEF BufsAt, BufsIn
<1>3. held = B \cup given /\ B \cap given = {} /\ given \subseteq Buffers
  BY DEF BufInv
<1>4. \A x \in B : x \in Buffers /\ x.idx <= last[x.stream]
  <2> SUFFICES ASSUME NEW x \in B PROVE x \in Buffers /\ x.idx <= last[x.stream]
    OBVIOUS
  <2>1. PICK i \in 1 .. Len(nodes) : x \in Buffers /\ nodes[i].slot[x.stream] = x.idx
    BY DEF BufsIn
  <2>2. x.stream \in Streams
    BY <2>1, BufferFacts
  <2> QED
    BY <2>1, <2>2 DEF BufInv, NodeOK
<1>5. \A k \in 1 .. Len(nodes') : \E n \in Node : n = nodes'[k] /\ \E i \in 1 .. Len(nodes) : n = nodes[i]
  BY <1>1
<1> HIDE DEF B, R, B1
<1>6. given' \subseteq Buffers /\ \A x \in given' : x.idx <= last'[x.stream]
  BY <1>2, <1>3, <1>4 DEF BufInv
<1>7. held' = B1 \cup given' /\ B1 \cap given' = {}
  BY <1>1, <1>2, <1>3
<1>8. last' \in [Streams -> Nat] /\ \A s \in Streams : last[s] <= last'[s]
  BY DEF BufInv
<1> QED
  BY <1>1, <1>5, <1>6, <1>7, <1>8, BufInvFrom DEF B1

\* A node takes a buffer and is still incomplete.
LEMMA FillBufInv ==
  ASSUME OneMeta, BufInv, low' = low, NEW b \in Buffers, Fill(b)
  PROVE  BufInv'
<1>1. Arrives(b) /\ Takers(b) # {} /\ given' = given /\ held' = held \cup {b}
  BY DEF Fill
<1>2. PICK p : p = Pos(b)
  OBVIOUS
<1>3. PICK x : x = [FilledBy(b) EXCEPT !.expected_frame = @ \/ target.diverted_frame_id = b.idx]
  OBVIOUS
<1>4. x \in Node /\ x.slot = FilledBy(b).slot /\ x.idx = FilledBy(b).idx /\ x.meta = FilledBy(b).meta
  <2>1. FilledBy(b) \in Node
    BY <1>1, FilledType
  <2> QED
    BY <1>3, <2>1 DEF Node
<1>5. p \in 1 .. Len(nodes) /\ NodeOK(x)' /\ BufsOf(x) = BufsOf(nodes[p]) \cup {b}
  BY <1>1, <1>2, <1>4, FilledBufs
<1>6. nodes' = [nodes EXCEPT ![p] = x]
  BY <1>2, <1>3 DEF Fill
<1>7. /\ b \notin BufsIn(nodes, 1 .. Len(nodes)) /\ b \notin given
      /\ last' \in [Streams -> Nat] /\ \A s \in Streams : last[s] <= last'[s]
  BY <1>1, Younger
<1>8. /\ nodes' \in Seq(Node) /\ Distinct(nodes') /\ Len(nodes') = Len(nodes)
      /\ \A k \in 1 .. Len(nodes') : nodes'[k] = IF k = p THEN x ELSE nodes[k]
      /\ BufsIn(nodes', 1 .. Len(nodes')) = BufsIn(nodes, 1 .. Len(nodes)) \cup {b}
  <2>1. nodes \in Seq(Node) /\ Distinct(nodes) /\ b \in Buffers /\ x \in Node
    BY <1>4 DEF BufInv
  <2>2. /\ nodes' \in Seq(Node) /\ Len(nodes') = Len(nodes)
        /\ \A k \in 1 .. Len(nodes) : nodes'[k] = IF k = p THEN x ELSE nodes[k]
    BY <1>5, <1>6, <2>1
  <2> QED
    BY <1>5, <1>7, <2>1, <2>2, ReplaceBufs
<1>9. \A k \in 1 .. Len(nodes') :
        \E n \in Node : n = nodes'[k] /\ (NodeOK(n)' \/ \E i \in 1 .. Len(nodes) : n = nodes[i])
  BY <1>4, <1>5, <1>8 DEF BufInv
<1>10. given' \subseteq Buffers /\ \A y \in given' : y.idx <= last'[y.stream]
  BY <1>1, <1>7, BufferFacts DEF BufInv
<1>11. /\ held' = BufsIn(nodes', 1 .. Len(nodes')) \cup given'
       /\ BufsIn(nodes', 1 .. Len(nodes')) \cap given' = {}
  BY <1>1, <1>7, <1>8 DEF BufInv
<1> QED
  BY <1>7, <1>8, <1>9, <1>10, <1>11, BufInvFrom

\* The frame is complete: what the older nodes held goes back to the kernel.
LEMMA MatchBufInv ==
  ASSUME OneMeta, BufInv, low' = low, NEW b \in Buffers, Match(b)
  PROVE  BufInv'
<1>1. Arrives(b) /\ Takers(b) # {} /\ given' = given
  BY DEF Match
<1>2. PICK p : p = Pos(b)
  OBVIOUS
<1>3. PICK x : x = [FilledBy(b) EXCEPT !.matched = TRUE, !.expected_frame = FALSE]
  OBVIOUS
<1>4. x \in Node /\ x.slot = FilledBy(b).slot /\ x.idx = FilledBy(b).idx /\ x.meta = FilledBy(b).meta
  <2>1. FilledBy(b) \in Node
    BY <1>1, FilledType
  <2> QED
    BY <1>3, <2>1 DEF Node
<1>5. p \in 1 .. Len(nodes) /\ NodeOK(x)' /\ BufsOf(x) = BufsOf(nodes[p]) \cup {b}
  BY <1>1, <1>2, <1>4, FilledBufs
<1>6. PICK from : from = IF \E i \in Older(b) : i < p THEN FirstOf(Older(b)) ELSE p
  OBVIOUS
<1>7. from \in 1 .. p
  <2>1. CASE \E i \in Older(b) : i < p
    <3>1. Older(b) \subseteq 1 .. Len(nodes) /\ Older(b) # {}
      BY <2>1 DEF Older, Unmatched, Places
    <3>2. FirstOf(Older(b)) \in Older(b) /\ \A j \in Older(b) : FirstOf(Older(b)) <= j
      BY <3>1, FirstOfNat
    <3> QED
      BY <1>5, <1>6, <2>1, <3>1, <3>2
  <2>2. CASE ~\E i \in Older(b) : i < p
    BY <1>5, <1>6, <2>2
  <2> QED
    BY <2>1, <2>2
<1>8. PICK f : f = [nodes EXCEPT ![p] = x]
  OBVIOUS
<1>9. nodes' = Cut(f, from, p) /\ held' = (held \cup {b}) \ BufsAt(from .. p - 1)
  BY <1>2, <1>3, <1>6, <1>8 DEF Match
<1>10. /\ b \notin BufsIn(nodes, 1 .. Len(nodes)) /\ b \notin given
       /\ last' \in [Streams -> Nat] /\ \A s \in Streams : last[s] <= last'[s]
  BY <1>1, Younger
<1>11. /\ f \in Seq(Node) /\ Distinct(f) /\ Len(f) = Len(nodes)
       /\ \A k \in 1 .. Len(f) : f[k] = IF k = p THEN x ELSE nodes[k]
       /\ BufsIn(f, 1 .. Len(f)) = BufsIn(nodes, 1 .. Len(nodes)) \cup {b}
  <2>1. nodes \in Seq(Node) /\ Distinct(nodes) /\ b \in Buffers /\ x \in Node
    BY <1>4 DEF BufInv
  <2>2. /\ f \in Seq(Node) /\ Len(f) = Len(nodes)
        /\ \A k \in 1 .. Len(nodes) : f[k] = IF k = p THEN x ELSE nodes[k]
    BY <1>5, <1>8, <2>1
  <2> QED
    BY <1>5, <1>10, <2>1, <2>2, ReplaceBufs
<1>12. PICK R : R = BufsIn(f, from .. p - 1)
  OBVIOUS
<1>13. BufsAt(from .. p - 1) = R
  <2>1. \A i \in from .. p - 1 : i \in 1 .. Len(nodes) /\ i # p
    BY <1>5, <1>7 DEF BufInv
  <2>2. \A i \in from .. p - 1 : f[i] = nodes[i]
    BY <1>11, <2>1
  <2> QED
    BY <1>12, <2>2 DEF BufsAt, BufsIn
<1>14. /\ nodes' \in Seq(Node) /\ Distinct(nodes')
       /\ \A k \in 1 .. Len(nodes') : \E i \in 1 .. Len(f) : nodes'[k] = f[i]
       /\ BufsIn(nodes', 1 .. Len(nodes')) = BufsIn(f, 1 .. Len(f)) \ R
  <2>1. from \in 1 .. Len(f) + 1 /\ p \in from .. Len(f) + 1
    BY <1>5, <1>7, <1>11
  <2> QED
    <3>1. f \in Seq(Node) /\ Distinct(f) /\ nodes' = Cut(f, from, p)
      BY <1>9, <1>11
    <3> QED
      BY ONLY <1>12, <2>1, <3>1, CutBufs
<1>15. \A k \in 1 .. Len(nodes') :
         \E n \in Node : n = nodes'[k] /\ (NodeOK(n)' \/ \E i \in 1 .. Len(nodes) : n = nodes[i])
  BY <1>4, <1>5, <1>11, <1>14 DEF BufInv
<1>16. given' \subseteq Buffers /\ \A y \in given' : y.idx <= last'[y.stream]
  BY <1>1, <1>10, BufferFacts DEF BufInv
<1>17. R \subseteq BufsIn(nodes, 1 .. Len(nodes))
  BY <1>5, <1>7, <1>13 DEF BufsAt, BufsIn, BufInv
<1>18. /\ held' = BufsIn(nodes', 1 .. Len(nodes')) \cup given'
       /\ BufsIn(nodes', 1 .. Len(nodes')) \cap given' = {}
  BY <1>1, <1>9, <1>10, <1>11, <1>13, <1>14, <1>17 DEF BufInv
<1> QED
  BY <1>10, <1>14, <1>15, <1>16, <1>18, BufInvFrom

\* A new node holds the buffer it is made for.
LEMMA NewNodeOK ==
  ASSUME OneMeta, BufInv, low' = low, NEW b \in Buffers, Arrives(b), NEW x, x = NewNode(b)
  PROVE  x \in Node /\ NodeOK(x)' /\ BufsOf(x) = {b}
<1>1. b.stream \in Streams /\ b.idx \in Nat /\ b.idx > 0
  BY BufferFacts
<1>2. /\ last'[b.stream] = b.idx /\ last' \in [Streams -> Nat]
  BY Younger
<1>3. x \in Node
  <2>1. [s \in Streams |-> IF s = b.stream THEN b.idx ELSE 0] \in [Streams -> Nat]
    BY <1>1
  <2> QED
    BY <1>1, <2>1 DEF NewNode, Node
<1>4. /\ x.idx = b.idx /\ \A s \in Streams : x.slot[s] = IF s = b.stream THEN b.idx ELSE 0
      /\ x.meta = IF low /\ b.stream \in Meta THEN b.idx ELSE 0
  BY <1>1 DEF NewNode
<1>5. NodeOK(x)'
  <2>1. low /\ x.meta = 0 => \E s \in Streams \ Meta : x.slot[s] # 0
    <3>1. low /\ x.meta = 0 => b.stream \in Streams \ Meta
      BY <1>1, <1>4
    <3>2. x.slot[b.stream] # 0
      BY <1>1, <1>4
    <3> QED
      BY <3>1, <3>2
  <2>2. ASSUME NEW s \in Streams
        PROVE  /\ x.slot[s] # 0 => x.slot[s] = x.idx
               /\ x.slot[s] <= last'[s]
               /\ x.meta > 0 => IF s \in Meta THEN x.slot[s] = x.idx ELSE x.slot[s] = 0
    BY <1>1, <1>2, <1>4 DEF OneMeta
  <2>3. (x.meta > 0 => low /\ x.meta = x.idx) /\ x.idx > 0
    BY <1>1, <1>4
  <2> QED
    BY <2>1, <2>2, <2>3 DEF NodeOK
<1>6. BufsOf(x) = {b}
  <2>1. \A y \in Buffers : y.stream = b.stream /\ y.idx = b.idx => y = b
    BY DEF Buffers
  <2>2. \A y \in Buffers : y.stream \in Streams /\ y.idx # 0
    BY BufferFacts
  <2> QED
    BY <1>1, <1>4, <2>1, <2>2 DEF BufsOf
<1> QED
  BY <1>3, <1>5, <1>6

\* A new node and the one that makes room for it are at places of the list.
LEMMA InsertPlaces ==
  ASSUME BufInv, NEW b \in Buffers
  PROVE  /\ InsertPlace(b) \in 1 .. Len(nodes) + 1
         /\ Older(b) # {} => Victim(b) \in 1 .. Len(nodes)
<1>1. nodes \in Seq(Node) /\ Len(nodes) \in Nat
  BY DEF BufInv
<1>2. InsertPlace(b) \in 1 .. Len(nodes) + 1
  <2>1. Newer(b) \subseteq 1 .. Len(nodes) /\ Newer(b) \subseteq Nat
    BY DEF Newer, Unmatched, Places
  <2>2. CASE Newer(b) = {}
    BY <1>1, <2>2 DEF InsertPlace
  <2>3. CASE Newer(b) # {}
    <3>1. FirstOf(Newer(b)) \in Newer(b)
      BY <2>1, <2>3, FirstOfNat
    <3> QED
      BY <1>1, <2>1, <2>3, <3>1 DEF InsertPlace
  <2> QED
    BY <2>2, <2>3
<1>3. ASSUME Older(b) # {}
      PROVE  Victim(b) \in 1 .. Len(nodes)
  <2>1. Older(b) \subseteq 1 .. Len(nodes) /\ Older(b) \subseteq Nat
    BY DEF Older, Unmatched, Places
  <2>2. FirstOf(Older(b)) \in 1 .. Len(nodes)
    BY <1>3, <2>1, FirstOfNat
  <2>3. Victims(b) \subseteq 1 .. Len(nodes) /\ Victims(b) \subseteq Nat
    BY <1>1, <2>2 DEF Victims
  <2>4. CASE Victims(b) = {}
    BY <2>2, <2>4 DEF Victim
  <2>5. CASE Victims(b) # {}
    <3>1. FirstOf(Victims(b)) \in Victims(b)
      BY <2>3, <2>5, FirstOfNat
    <3> QED
      BY <2>3, <2>5, <3>1 DEF Victim
  <2> QED
    BY <2>4, <2>5
<1> QED
  BY <1>2, <1>3

\* A frame the queue does not know; in a full queue a node makes room for it.
LEMMA InsertBufInv ==
  ASSUME OneMeta, BufInv, low' = low, NEW b \in Buffers, Insert(b)
  PROVE  BufInv'
<1>1. Arrives(b) /\ given' = given
  BY DEF Insert
<1>2. PICK x : x = NewNode(b)
  OBVIOUS
<1>3. x \in Node /\ NodeOK(x)' /\ BufsOf(x) = {b}
  BY <1>1, <1>2, NewNodeOK
<1>4. PICK p, v : p = InsertPlace(b) /\ v = Victim(b)
  OBVIOUS
<1>5. p \in 1 .. Len(nodes) + 1 /\ (Older(b) # {} => v \in 1 .. Len(nodes))
  BY <1>4, InsertPlaces
<1>6. /\ b \notin BufsIn(nodes, 1 .. Len(nodes)) /\ b \notin given
      /\ last' \in [Streams -> Nat] /\ \A s \in Streams : last[s] <= last'[s]
  BY <1>1, Younger
<1>7. \/ nodes' = InsertAt(nodes, p, x) /\ held' = held \cup {b}
      \/ /\ v \in 1 .. Len(nodes)
         /\ nodes' = InsertAt(Cut(nodes, v, v + 1), IF v < p THEN p - 1 ELSE p, x)
         /\ held' = (held \cup {b}) \ BufsAt({v})
  <2>1. CASE MaxUnmatched < Cardinality(Unmatched)
    BY <1>2, <1>4, <1>5, <2>1 DEF Insert
  <2>2. CASE ~(MaxUnmatched < Cardinality(Unmatched))
    <3>1. nodes' = InsertAt(nodes, p, x)
      BY <1>2, <1>4, <2>2 DEF Insert
    <3>2. held' = (held \cup {b}) \ {}
      BY <2>2 DEF Insert
    <3> QED
      BY <3>1, <3>2
  <2> QED
    BY <2>1, <2>2
<1>8. nodes \in Seq(Node) /\ Distinct(nodes)
  BY DEF BufInv
<1>9. given' \subseteq Buffers /\ \A y \in given' : y.idx <= last'[y.stream]
  BY <1>1, <1>6, BufferFacts DEF BufInv
<1>10. CASE nodes' = InsertAt(nodes, p, x) /\ held' = held \cup {b}
  <2>1. BufsOf(x) \cap BufsIn(nodes, 1 .. Len(nodes)) = {}
    BY <1>3, <1>6
  <2>2. /\ nodes' \in Seq(Node) /\ Distinct(nodes')
        /\ \A k \in 1 .. Len(nodes') : nodes'[k] = x \/ \E i \in 1 .. Len(nodes) : nodes'[k] = nodes[i]
        /\ BufsIn(nodes', 1 .. Len(nodes')) = BufsIn(nodes, 1 .. Len(nodes)) \cup BufsOf(x)
    BY <1>3, <1>5, <1>8, <1>10, <2>1, InsertBufs
  <2>3. \A k \in 1 .. Len(nodes') :
          \E n \in Node : n = nodes'[k] /\ (NodeOK(n)' \/ \E i \in 1 .. Len(nodes) : n = nodes[i])
    BY <1>3, <1>8, <2>2
  <2>4. /\ held' = BufsIn(nodes', 1 .. Len(nodes')) \cup given'
        /\ BufsIn(nodes', 1 .. Len(nodes')) \cap given' = {}
    BY <1>1, <1>3, <1>6, <1>10, <2>2 DEF BufInv
  <2> QED
    BY <1>6, <1>9, <2>2, <2>3, <2>4, BufInvFrom
<1>11. CASE /\ v \in 1 .. Len(nodes)
            /\ nodes' = InsertAt(Cut(nodes, v, v + 1), IF v < p THEN p - 1 ELSE p, x)
            /\ held' = (held \cup {b}) \ BufsAt({v})
  <2>w. PICK w : w = v + 1
    OBVIOUS
  <2>1. PICK c : c = Cut(nodes, v, w)
    OBVIOUS
  <2>2. PICK q : q = IF v < p THEN p - 1 ELSE p
    OBVIOUS
  <2>3. PICK R : R = BufsIn(nodes, v .. w - 1)
    OBVIOUS
  <2>4. v \in 1 .. Len(nodes) + 1 /\ w \in v .. Len(nodes) + 1
    BY <1>8, <1>11, <2>w
  <2>5. /\ c \in Seq(Node) /\ Distinct(c)
        /\ \A k \in 1 .. Len(c) : \E i \in 1 .. Len(nodes) : c[k] = nodes[i]
        /\ BufsIn(c, 1 .. Len(c)) = BufsIn(nodes, 1 .. Len(nodes)) \ R
    BY <1>8, <2>1, <2>3, <2>4, CutBufs
  <2>6. Len(c) = Len(nodes) - 1
    <3>1. Len(c) = Len(nodes) - (w - v)
      BY <1>8, <2>1, <2>4, CutIs
    <3> QED
      BY <1>8, <1>11, <2>w, <3>1
  <2>7. q \in 1 .. Len(c) + 1
    BY <1>5, <1>8, <1>11, <2>2, <2>6
  <2>8. R = BufsAt({v})
    <3>1. v .. w - 1 = {v}
      BY <1>8, <1>11, <2>w
    <3> QED
      BY <2>3, <3>1 DEF BufsAt, BufsIn
  <2>9. R \subseteq BufsIn(nodes, 1 .. Len(nodes))
    BY <1>11, <2>8 DEF BufsAt, BufsIn
  <2>10. BufsOf(x) \cap BufsIn(c, 1 .. Len(c)) = {}
    BY <1>3, <1>6, <2>5
  <2>11. nodes' = InsertAt(c, q, x)
    BY <1>11, <2>w, <2>1, <2>2
  <2>12. /\ nodes' \in Seq(Node) /\ Distinct(nodes')
         /\ \A k \in 1 .. Len(nodes') : nodes'[k] = x \/ \E i \in 1 .. Len(c) : nodes'[k] = c[i]
         /\ BufsIn(nodes', 1 .. Len(nodes')) = BufsIn(c, 1 .. Len(c)) \cup BufsOf(x)
    BY <1>3, <2>5, <2>7, <2>10, <2>11, InsertBufs
  <2>13. \A k \in 1 .. Len(nodes') :
           \E n \in Node : n = nodes'[k] /\ (NodeOK(n)' \/ \E i \in 1 .. Len(nodes) : n = nodes[i])
    <3> SUFFICES ASSUME NEW k \in 1 .. Len(nodes')
                 PROVE  \E n \in Node : n = nodes'[k] /\ (NodeOK(n)' \/ \E i \in 1 .. Len(nodes) : n = nodes[i])
      OBVIOUS
    <3>1. CASE nodes'[k] = x
      BY <1>3, <3>1
    <3>2. CASE \E i \in 1 .. Len(c) : nodes'[k] = c[i]
      <4>1. PICK i \in 1 .. Len(c) : nodes'[k] = c[i]
        BY <3>2
      <4>2. PICK j \in 1 .. Len(nodes) : c[i] = nodes[j]
        BY <2>5
      <4>3. nodes[j] \in Node
        BY <1>8
      <4> QED
        BY <4>1, <4>2, <4>3
    <3> QED
      BY <2>12, <3>1, <3>2
  <2>14. /\ held' = BufsIn(nodes', 1 .. Len(nodes')) \cup given'
         /\ BufsIn(nodes', 1 .. Len(nodes')) \cap given' = {}
    <3>1. BufsIn(nodes', 1 .. Len(nodes')) = (BufsIn(nodes, 1 .. Len(nodes)) \ R) \cup {b}
      BY <1>3, <2>5, <2>12
    <3>2. held' = (held \cup {b}) \ R /\ given' = given
      BY <1>1, <1>11, <2>8
    <3>3. /\ held = BufsIn(nodes, 1 .. Len(nodes)) \cup given
          /\ BufsIn(nodes, 1 .. Len(nodes)) \cap given = {}
      BY DEF BufInv
    <3> QED
      BY <1>6, <2>9, <3>1, <3>2, <3>3
  <2> QED
    BY <1>6, <1>9, <2>12, <2>13, <2>14, BufInvFrom
<1> QED
  BY <1>7, <1>10, <1>11

\* A flush takes the whole list.
LEMMA FlushBufInv ==
  ASSUME BufInv, low' = low, Flush
  PROVE  BufInv'
<1>1. nodes' = << >> /\ last' = last /\ given' = given /\ held' = held \ BufsAt(1 .. Len(nodes))
  BY DEF Flush, Places
<1>2. nodes' \in Seq(Node) /\ Len(nodes') = 0
  BY <1>1
<1>3. BufsIn(nodes', 1 .. Len(nodes')) = {}
  BY <1>2 DEF BufsIn
<1>4. Distinct(nodes')
  BY <1>2 DEF Distinct
<1>5. held' = given'
  BY <1>1 DEF BufInv, BufsAt, BufsIn
<1>6. /\ last' \in [Streams -> Nat] /\ \A s \in Streams : last[s] <= last'[s]
      /\ given' \subseteq Buffers /\ \A b \in given' : b.idx <= last'[b.stream]
  BY <1>1 DEF BufInv
<1>7. \A k \in 1 .. Len(nodes') :
        \E n \in Node : n = nodes'[k] /\ (NodeOK(n)' \/ \E i \in 1 .. Len(nodes) : n = nodes[i])
  BY <1>2
<1> QED
  BY <1>2, <1>3, <1>4, <1>5, <1>6, <1>7, BufInvFrom

\* The nodes before the first unmatched one go.
LEMMA FlushMatchedBufInv ==
  ASSUME BufInv, low' = low, FlushMatched
  PROVE  BufInv'
<1>1. PICK first : first = IF Unmatched = {} THEN Len(nodes) + 1 ELSE FirstOf(Unmatched)
  OBVIOUS
<1>2. /\ nodes' = Cut(nodes, 1, first) /\ last' = last /\ given' = given
      /\ held' = held \ BufsAt(1 .. first - 1)
  BY <1>1 DEF FlushMatched
<1>3. first \in 1 .. Len(nodes) + 1
  <2>1. Unmatched \subseteq 1 .. Len(nodes) /\ Unmatched \subseteq Nat /\ Len(nodes) \in Nat
    BY DEF Unmatched, Places, BufInv
  <2>2. CASE Unmatched = {}
    BY <1>1, <2>1, <2>2
  <2>3. CASE Unmatched # {}
    <3>1. FirstOf(Unmatched) \in Unmatched
      BY <2>1, <2>3, FirstOfNat
    <3> QED
      BY <1>1, <2>1, <2>3, <3>1
  <2> QED
    BY <2>2, <2>3
<1>4. 1 \in 1 .. Len(nodes) + 1 /\ first \in 1 .. Len(nodes) + 1
  BY <1>3 DEF BufInv
<1> QED
  BY <1>2, <1>4, CutBufInv

\* The list stays.
LEMMA SameNodesBufInv ==
  ASSUME BufInv, low' = low, nodes' = nodes, last' \in [Streams -> Nat],
         \A s \in Streams : last[s] <= last'[s],
         \/ held' = held /\ given' = given
         \/ \E b \in given : held' = held \ {b} /\ given' = given \ {b}
  PROVE  BufInv'
<1>1. /\ nodes' \in Seq(Node) /\ Distinct(nodes')
      /\ \A k \in 1 .. Len(nodes') : \E n \in Node : n = nodes'[k] /\ \E i \in 1 .. Len(nodes) : n = nodes[i]
  BY DEF BufInv
<1>2. given' \subseteq Buffers /\ \A b \in given' : b.idx <= last'[b.stream]
  BY BufferFacts DEF BufInv
<1>3. /\ held' = BufsIn(nodes', 1 .. Len(nodes')) \cup given'
      /\ BufsIn(nodes', 1 .. Len(nodes')) \cap given' = {}
  BY DEF BufInv
<1> QED
  BY <1>1, <1>2, <1>3, BufInvFrom

\* One place is the cut of one node.
LEMMA OnePlace ==
  ASSUME BufInv, NEW i \in 1 .. Len(nodes), NEW j, j = i + 1
  PROVE  /\ i \in 1 .. Len(nodes) + 1 /\ j \in i .. Len(nodes) + 1
         /\ BufsAt(i .. j - 1) = BufsAt({i})
<1>1. Len(nodes) \in Nat
  BY DEF BufInv
<1>2. i .. j - 1 = {i}
  OBVIOUS
<1> QED
  BY <1>1, <1>2

\* An empty queue holds nothing.
LEMMA BufInvInit == Init => BufInv
<1> SUFFICES ASSUME Init PROVE BufInv
  OBVIOUS
<1>1. nodes \in Seq(Node) /\ Len(nodes) = 0 /\ held = {} /\ given = {}
  BY DEF Init
<1>2. low \in BOOLEAN /\ last \in [Streams -> Nat]
  BY SuperbufAssumption DEF Init
<1>3. BufsIn(nodes, 1 .. Len(nodes)) = {}
  BY <1>1 DEF BufsIn
<1>4. Distinct(nodes)
  BY <1>1 DEF Distinct
<1> QED
  BY <1>1, <1>2, <1>3, <1>4 DEF BufInv

\* Every step keeps BufInv.
LEMMA BufInvNext == OneMeta /\ BufInv /\ [Next]_vars => BufInv'
<1> SUFFICES ASSUME OneMeta, BufInv, [Next]_vars PROVE BufInv'
  OBVIOUS
<1>0. low' = low
  BY DEF Next, vars
<1>1. ASSUME NEW b \in Buffers, DropOld(b) \/ DropUnplaced(b)
      PROVE  BufInv'
  <2>1. Arrives(b) /\ nodes' = nodes /\ held' = held /\ given' = given
    BY <1>1 DEF DropOld, DropUnplaced
  <2>2. last' \in [Streams -> Nat] /\ \A s \in Streams : last[s] <= last'[s]
    BY <2>1, Younger
  <2> QED
    BY <1>0, <2>1, <2>2, SameNodesBufInv
<1>2. ASSUME NEW b \in Buffers, Fill(b)
      PROVE  BufInv'
  BY <1>0, <1>2, FillBufInv
<1>3. ASSUME NEW b \in Buffers, Match(b)
      PROVE  BufInv'
  BY <1>0, <1>3, MatchBufInv
<1>4. ASSUME NEW b \in Buffers, Insert(b)
      PROVE  BufInv'
  BY <1>0, <1>4, InsertBufInv
<1>5. last \in [Streams -> Nat] /\ \A s \in Streams : last[s] <= last[s]
  BY DEF BufInv
<1>6. ASSUME NEW b \in Buffers, BufDone(b)
      PROVE  BufInv'
  BY <1>0, <1>5, <1>6, SameNodesBufInv DEF BufDone
<1>7. ASSUME NEW i \in 1 .. Len(nodes), nodes' = Cut(nodes, i, i + 1), last' = last,
             \/ held' = held /\ given' = given \cup BufsAt({i})
             \/ held' = held \ BufsAt({i}) /\ given' = given
      PROVE  BufInv'
  <2>1. PICK j : j = i + 1
    OBVIOUS
  <2>2. /\ i \in 1 .. Len(nodes) + 1 /\ j \in i .. Len(nodes) + 1
        /\ BufsAt(i .. j - 1) = BufsAt({i})
    BY <2>1, OnePlace
  <2>3. nodes' = Cut(nodes, i, j)
    BY <1>7, <2>1
  <2> QED
    BY <1>0, <1>7, <2>2, <2>3, CutBufInv
<1>8. ASSUME HeadMatched
      PROVE  1 \in 1 .. Len(nodes)
  BY <1>8 DEF HeadMatched, BufInv
<1>9. CASE Dequeue
  <2>1. /\ HeadMatched /\ nodes' = Cut(nodes, 1, 1 + 1) /\ last' = last
        /\ held' = held /\ given' = given \cup BufsAt({1})
    BY <1>9 DEF Dequeue
  <2> QED
    BY <1>7, <1>8, <2>1
<1>10. ASSUME NEW f \in Frames, DequeueFrame(f)
       PROVE  BufInv'
  <2>1. PICK i \in 1 .. Len(nodes) : /\ nodes' = Cut(nodes, i, i + 1) /\ last' = last
                                     /\ held' = held /\ given' = given \cup BufsAt({i})
    BY <1>10 DEF DequeueFrame, Places
  <2> QED
    BY <1>7, <2>1
<1>11. ASSUME NEW limit \in Limits, DropExcess(limit)
       PROVE  BufInv'
  <2>1. /\ HeadMatched /\ nodes' = Cut(nodes, 1, 1 + 1) /\ last' = last
        /\ held' = held \ BufsAt({1}) /\ given' = given
    BY <1>11 DEF DropExcess
  <2> QED
    BY <1>7, <1>8, <2>1
<1>12. CASE Settle \/ UNCHANGED vars
  <2>1. nodes' = nodes /\ last' = last /\ held' = held /\ given' = given
    BY <1>12 DEF Settle, vars
  <2> QED
    BY <1>0, <1>5, <2>1, SameNodesBufInv
<1>13. CASE Flush
  BY <1>0, <1>13, FlushBufInv
<1>14. CASE FlushMatched
  BY <1>0, <1>14, FlushMatchedBufInv
<1> QED
  BY <1>1, <1>2, <1>3, <1>4, <1>6, <1>9, <1>10, <1>11, <1>12, <1>13, <1>14 DEF Next, CompAndEnqueue

\* BufInv implies the two properties of the buffers.
LEMMA BufInvGives == BufInv => OneFrame /\ BuffersAccounted
<1> SUFFICES ASSUME BufInv PROVE OneFrame /\ BuffersAccounted
  OBVIOUS
<1>1. OneFrame
  BY DEF OneFrame, Places, BufInv, NodeOK
<1>2. BufsAt(Places) = BufsIn(nodes, 1 .. Len(nodes))
  BY DEF BufsAt, BufsIn, Places
<1>3. BuffersAccounted
  BY <1>2 DEF BuffersAccounted, BufInv, Distinct, Places
<1> QED
  BY <1>1, <1>3

\* BufInv holds in every state.
LEMMA AlwaysBufInv == OneMeta /\ Spec => []BufInv
<1>1. ASSUME OneMeta
      PROVE  Spec => []BufInv
  <2>1. BufInv /\ [Next]_vars => BufInv'
    BY <1>1, BufInvNext
  <2> QED
    BY <2>1, BufInvInit, PTL DEF Spec
<1> QED
  BY <1>1

\* A superbuf never mixes the buffers of two frames, but for younger metadata
\* with low priority: for a queue of either priority, with any number of
\* streams of which at most one is metadata.
THEOREM OneFrameAlways == OneMeta /\ Spec => []OneFrame
<1>1. BufInv => OneFrame
  BY BufInvGives
<1> QED
  BY <1>1, AlwaysBufInv, PTL

\* Every buffer taken from the kernel is in one slot of one node or with the
\* HAL, for the same queues: none is lost, and none is given back while a node
\* or the HAL has it.
THEOREM BuffersKept == OneMeta /\ Spec => []BuffersAccounted
<1>1. BufInv => BuffersAccounted
  BY BufInvGives
<1> QED
  BY <1>1, AlwaysBufInv, PTL

-----------------------------------------------------------------------------
(* The order.                                                              *)

\* The list ns has m matched nodes, then unmatched ones in the order of frames, but
\* for those in D.
Shape(ns, m, D) ==
  /\ ns \in Seq(Node)
  /\ m \in 0 .. Len(ns)
  /\ \A i \in 1 .. Len(ns) : ns[i].matched <=> i <= m
  /\ \A i, j \in m + 1 .. Len(ns) : i < j => ns[i].idx < ns[j].idx \/ ns[j] \in D

\* The nodes of a low priority queue that will never be complete.
Dead ==
  {n \in Node : low /\ \E s \in Streams \ Meta : n.slot[s] = 0 /\ last[s] > n.idx}

Inv ==
  /\ QueueTypeOK
  /\ Shape(nodes, match_cnt, Dead)
  /\ Len(nodes) - match_cnt <= MaxUnmatched + 1
  /\ \A s \in Streams : Streams = {s} => match_cnt = Len(nodes)

\* What the order rests on with low priority.
Sound == low => BufInv

-----------------------------------------------------------------------------
(* What keeps the shape.                                                   *)

\* Taking matched nodes away.
LEMMA CutMatched ==
  ASSUME NEW ns, NEW m, NEW D, Shape(ns, m, D), NEW a \in 1 .. m + 1, NEW b \in a .. m + 1
  PROVE  /\ Shape(Cut(ns, a, b), m - (b - a), D)
         /\ Len(Cut(ns, a, b)) = Len(ns) - (b - a)
<1> DEFINE c == Cut(ns, a, b)
           d == b - a
<1>1. /\ ns \in Seq(Node) /\ m \in 0 .. Len(ns) /\ d \in 0 .. m
      /\ a \in 1 .. Len(ns) + 1 /\ b \in a .. Len(ns) + 1
  BY DEF Shape
<1>2. /\ c \in Seq(Node) /\ Len(c) = Len(ns) - d
      /\ \A i \in 1 .. Len(ns) - d : c[i] = IF i < a THEN ns[i] ELSE ns[i + d]
  BY <1>1, CutIs
<1> HIDE DEF c
<1>3. ASSUME NEW i \in 1 .. Len(c) PROVE c[i].matched <=> i <= m - d
  <2>1. CASE i < a
    <3>1. i \in 1 .. Len(ns) /\ i <= m /\ i <= m - d /\ c[i] = ns[i]
      BY <1>1, <1>2, <2>1
    <3> QED
      BY <3>1 DEF Shape
  <2>2. CASE i >= a
    <3>1. i + d \in 1 .. Len(ns) /\ c[i] = ns[i + d]
      BY <1>1, <1>2, <2>2
    <3>2. (i + d <= m) <=> (i <= m - d)
      BY <1>1
    <3> QED
      BY <3>1, <3>2 DEF Shape
  <2> QED
    BY <1>1, <2>1, <2>2
<1>4. ASSUME NEW i \in m - d + 1 .. Len(c), NEW j \in m - d + 1 .. Len(c), i < j
      PROVE  c[i].idx < c[j].idx \/ c[j] \in D
  <2>1. /\ i \in Int /\ j \in Int /\ i + d < j + d
        /\ i + d \in m + 1 .. Len(ns) /\ j + d \in m + 1 .. Len(ns)
        /\ i \in 1 .. Len(c) /\ j \in 1 .. Len(c) /\ ~(i < a) /\ ~(j < a)
    BY ONLY <1>1, <1>2, <1>4, a \in 1 .. m + 1, b \in a .. m + 1, i \in m - d + 1 .. Len(c), j \in m - d + 1 .. Len(c)
  <2>3. c[i] = ns[i + d] /\ c[j] = ns[j + d]
    BY <1>2, <2>1
  <2>2. \A k, l \in m + 1 .. Len(ns) : k < l => ns[k].idx < ns[l].idx \/ ns[l] \in D
    BY DEF Shape
  <2> QED
    BY <2>1, <2>2, <2>3
<1>5. m - d \in 0 .. Len(c)
  BY <1>1, <1>2
<1> QED
  BY <1>2, <1>3, <1>4, <1>5 DEF Shape, c

\* Taking unmatched nodes away.
LEMMA CutUnmatched ==
  ASSUME NEW ns, NEW m, NEW D, Shape(ns, m, D),
         NEW a \in m + 1 .. Len(ns) + 1, NEW b \in a .. Len(ns) + 1
  PROVE  /\ Shape(Cut(ns, a, b), m, D)
         /\ Len(Cut(ns, a, b)) = Len(ns) - (b - a)
<1> DEFINE c == Cut(ns, a, b)
           d == b - a
<1>1. /\ ns \in Seq(Node) /\ m \in 0 .. Len(ns) /\ d \in Nat
      /\ a \in 1 .. Len(ns) + 1 /\ b \in a .. Len(ns) + 1
  BY DEF Shape
<1>2. /\ c \in Seq(Node) /\ Len(c) = Len(ns) - d
      /\ \A i \in 1 .. Len(ns) - d : c[i] = IF i < a THEN ns[i] ELSE ns[i + d]
  BY <1>1, CutIs
<1> HIDE DEF c
<1>3. ASSUME NEW i \in 1 .. Len(c) PROVE c[i].matched <=> i <= m
  <2>1. CASE i < a
    <3>1. i \in 1 .. Len(ns) /\ c[i] = ns[i]
      BY <1>1, <1>2, <2>1
    <3> QED
      BY <3>1 DEF Shape
  <2>2. CASE i >= a
    <3>1. i + d \in 1 .. Len(ns) /\ c[i] = ns[i + d] /\ ~(i + d <= m) /\ ~(i <= m)
      BY <1>1, <1>2, <2>2
    <3> QED
      BY <3>1 DEF Shape
  <2> QED
    BY <1>1, <2>1, <2>2
<1>4. ASSUME NEW i \in m + 1 .. Len(c), NEW j \in m + 1 .. Len(c), i < j
      PROVE  c[i].idx < c[j].idx \/ c[j] \in D
  <2> DEFINE at(k) == IF k < a THEN k ELSE k + d
  <2>0. \A k \in m + 1 .. Len(c) : k \in 1 .. Len(ns) - d /\ at(k) \in m + 1 .. Len(ns)
    <3>1. Len(ns) \in Nat /\ Len(c) = Len(ns) - d
      BY <1>1, <1>2
    <3>2. m \in 0 .. Len(ns) /\ d \in Nat /\ a \in m + 1 .. Len(ns) + 1
      BY <1>1
    <3> QED
      BY ONLY <3>1, <3>2
  <2>1. \A k \in m + 1 .. Len(c) : c[k] = ns[at(k)] /\ at(k) \in m + 1 .. Len(ns)
    BY <1>2, <2>0
  <2>2. at(i) < at(j)
    BY <1>1, <1>4
  <2> QED
    BY <2>1, <2>2 DEF Shape
<1>5. m \in 0 .. Len(c)
  BY <1>1, <1>2
<1> QED
  BY <1>2, <1>3, <1>4, <1>5 DEF Shape, c

\* Adding an unmatched node where its frame belongs.
LEMMA InsertUnmatched ==
  ASSUME NEW ns, NEW m, NEW D, Shape(ns, m, D), NEW p \in m + 1 .. Len(ns) + 1,
         NEW x \in Node, ~x.matched,
         \A i \in m + 1 .. p - 1 : ns[i].idx < x.idx,
         \A i \in p .. Len(ns) : x.idx < ns[i].idx \/ ns[i] \in D
  PROVE  /\ Shape(InsertAt(ns, p, x), m, D)
         /\ Len(InsertAt(ns, p, x)) = Len(ns) + 1
<1> DEFINE c == InsertAt(ns, p, x)
<1>1. ns \in Seq(Node) /\ m \in 0 .. Len(ns) /\ p \in 1 .. Len(ns) + 1
  BY DEF Shape
<1>2. /\ c \in Seq(Node) /\ Len(c) = Len(ns) + 1
      /\ \A i \in 1 .. Len(ns) + 1 :
           c[i] = IF i < p THEN ns[i] ELSE IF i = p THEN x ELSE ns[i - 1]
  <2>1. x \in Node
    OBVIOUS
  <2> QED
    BY ONLY <1>1, <2>1, InsertAtIs
<1> HIDE DEF c
<1>3. ASSUME NEW i \in 1 .. Len(c) PROVE c[i].matched <=> i <= m
  <2>1. CASE i < p
    <3>1. i \in 1 .. Len(ns) /\ c[i] = ns[i]
      BY <1>1, <1>2, <2>1
    <3> QED
      BY <3>1 DEF Shape
  <2>2. CASE i = p
    <3>1. c[i] = x /\ ~(i <= m)
      BY <1>1, <1>2, <2>2
    <3> QED
      BY <3>1
  <2>3. CASE i > p
    <3>1. i - 1 \in 1 .. Len(ns) /\ c[i] = ns[i - 1] /\ ~(i - 1 <= m) /\ ~(i <= m)
      BY <1>1, <1>2, <2>3
    <3> QED
      BY <3>1 DEF Shape
  <2> QED
    BY <1>1, <2>1, <2>2, <2>3
<1>4. ASSUME NEW i \in m + 1 .. Len(c), NEW j \in m + 1 .. Len(c), i < j
      PROVE  c[i].idx < c[j].idx \/ c[j] \in D
  <2>1. CASE j < p
    <3>1. c[i] = ns[i] /\ c[j] = ns[j] /\ i \in m + 1 .. Len(ns) /\ j \in m + 1 .. Len(ns)
      BY <1>1, <1>2, <1>4, <2>1
    <3> QED
      BY <3>1, <1>4 DEF Shape
  <2>2. CASE j = p
    <3>1. c[i] = ns[i] /\ c[j] = x /\ i \in m + 1 .. p - 1
      BY <1>1, <1>2, <1>4, <2>2
    <3> QED
      BY <3>1
  <2>3. CASE j > p
    <3>1. c[j] = ns[j - 1] /\ j - 1 \in p .. Len(ns) /\ j - 1 \in m + 1 .. Len(ns)
      BY <1>1, <1>2, <2>3
    <3>2. CASE i < p
      <4>1. c[i] = ns[i] /\ i \in m + 1 .. Len(ns) /\ i < j - 1
        <5>1. i \in m + 1 .. Len(ns) /\ i < j - 1 /\ i \in 1 .. Len(ns) + 1
          BY ONLY <1>1, <1>2, <3>2, <2>3, i \in m + 1 .. Len(c), j \in m + 1 .. Len(c)
        <5> QED
          BY <1>2, <3>2, <5>1
      <4>2. \A k, l \in m + 1 .. Len(ns) : k < l => ns[k].idx < ns[l].idx \/ ns[l] \in D
        BY DEF Shape
      <4> QED
        BY <3>1, <4>1, <4>2
    <3>3. CASE i = p
      <4>1. c[i] = x
        BY <1>1, <1>2, <3>3
      <4> QED
        BY <3>1, <4>1
    <3>4. CASE i > p
      <4>1. c[i] = ns[i - 1] /\ i - 1 \in m + 1 .. Len(ns) /\ i - 1 < j - 1
        BY <1>1, <1>2, <1>4, <3>4
      <4> QED
        BY <3>1, <4>1 DEF Shape
    <3> QED
      BY <1>1, <3>2, <3>3, <3>4
  <2> QED
    BY <1>1, <2>1, <2>2, <2>3
<1>5. m \in 0 .. Len(c)
  BY <1>1, <1>2
<1> QED
  BY <1>2, <1>3, <1>4, <1>5 DEF Shape, c

\* Filling a slot of an unmatched node.
LEMMA ReplaceUnmatched ==
  ASSUME NEW ns, NEW m, NEW D, Shape(ns, m, D), NEW p \in m + 1 .. Len(ns),
         NEW x \in Node, ~x.matched,
         \A i \in m + 1 .. p - 1 : ns[i].idx < x.idx \/ x \in D,
         \A j \in p + 1 .. Len(ns) : x.idx < ns[j].idx \/ ns[j] \in D
  PROVE  /\ Shape([ns EXCEPT ![p] = x], m, D)
         /\ Len([ns EXCEPT ![p] = x]) = Len(ns)
<1> DEFINE c == [ns EXCEPT ![p] = x]
<1>1. ns \in Seq(Node) /\ m \in 0 .. Len(ns) /\ p \in 1 .. Len(ns)
  BY DEF Shape
<1>2. c \in Seq(Node) /\ Len(c) = Len(ns)
  BY <1>1
<1>3. \A i \in 1 .. Len(ns) : c[i] = IF i = p THEN x ELSE ns[i]
  BY <1>1
<1> HIDE DEF c
<1>4. \A i \in 1 .. Len(ns) : c[i].matched <=> ns[i].matched
  <2>1. ~(p <= m)
    BY <1>1
  <2> QED
    BY <1>1, <1>3, <2>1 DEF Shape
<1>5. \A i \in 1 .. Len(c) : c[i].matched <=> i <= m
  BY <1>2, <1>4 DEF Shape
<1>6. ASSUME NEW i \in m + 1 .. Len(c), NEW j \in m + 1 .. Len(c), i < j
      PROVE  c[i].idx < c[j].idx \/ c[j] \in D
  <2>1. i \in 1 .. Len(ns) /\ j \in 1 .. Len(ns)
    BY <1>1, <1>2
  <2>2. CASE j = p
    BY <1>1, <1>3, <1>6, <2>1, <2>2
  <2>3. CASE i = p
    BY <1>1, <1>2, <1>3, <1>6, <2>1, <2>3
  <2>4. CASE i # p /\ j # p
    <3>1. c[i] = ns[i] /\ c[j] = ns[j]
      BY <1>3, <2>1, <2>4
    <3> QED
      BY <1>2, <1>6, <3>1 DEF Shape
  <2> QED
    BY <2>2, <2>3, <2>4
<1> QED
  BY <1>1, <1>2, <1>5, <1>6 DEF Shape, c

\* More nodes may be out of order.
LEMMA ShapeGrows ==
  ASSUME NEW ns, NEW m, NEW D, NEW E, Shape(ns, m, D), D \subseteq E
  PROVE  Shape(ns, m, E)
BY DEF Shape

\* Completing a frame: its node follows the matched ones, the older ones go.
LEMMA Promote ==
  ASSUME NEW ns, NEW m, NEW D, Shape(ns, m, D), NEW p \in m + 1 .. Len(ns),
         NEW x \in Node, x.matched
  PROVE  /\ Shape(Cut([ns EXCEPT ![p] = x], m + 1, p), m + 1, D)
         /\ Len(Cut([ns EXCEPT ![p] = x], m + 1, p)) <= Len(ns)
<1> DEFINE e == [ns EXCEPT ![p] = x]
           c == Cut(e, m + 1, p)
           d == p - (m + 1)
<1>1. ns \in Seq(Node) /\ m \in 0 .. Len(ns) /\ p \in 1 .. Len(ns) /\ d \in Nat
  BY DEF Shape
<1>2. e \in Seq(Node) /\ Len(e) = Len(ns)
  BY <1>1
<1>3. \A i \in 1 .. Len(ns) : e[i] = IF i = p THEN x ELSE ns[i]
  BY <1>1
<1> HIDE DEF e
<1>4. /\ m + 1 \in 1 .. Len(e) + 1 /\ p \in m + 1 .. Len(e) + 1
  BY <1>1, <1>2
<1>5. /\ c \in Seq(Node) /\ Len(c) = Len(ns) - d
      /\ \A i \in 1 .. Len(ns) - d : c[i] = IF i < m + 1 THEN e[i] ELSE e[i + d]
  BY <1>2, <1>4, CutIs
<1> HIDE DEF c
<1>6. ASSUME NEW i \in 1 .. Len(c) PROVE c[i].matched <=> i <= m + 1
  <2>1. CASE i < m + 1
    <3>1. i \in 1 .. Len(ns) /\ c[i] = ns[i] /\ i <= m /\ i <= m + 1
      BY <1>1, <1>3, <1>5, <2>1
    <3> QED
      BY <3>1 DEF Shape
  <2>2. CASE i = m + 1
    <3>1. c[i] = x
      BY <1>1, <1>3, <1>5, <2>2
    <3> QED
      BY <3>1, <2>2
  <2>3. CASE i > m + 1
    <3>1. /\ i + d \in 1 .. Len(ns) /\ c[i] = ns[i + d] /\ ~(i + d <= m) /\ ~(i <= m + 1)
      BY <1>1, <1>3, <1>5, <2>3
    <3> QED
      BY <3>1 DEF Shape
  <2> QED
    BY <1>1, <2>1, <2>2, <2>3
<1>7. ASSUME NEW i \in m + 2 .. Len(c), NEW j \in m + 2 .. Len(c), i < j
      PROVE  c[i].idx < c[j].idx \/ c[j] \in D
  <2>1. /\ i + d \in m + 1 .. Len(ns) /\ j + d \in m + 1 .. Len(ns) /\ i + d < j + d
        /\ i \in 1 .. Len(ns) - d /\ j \in 1 .. Len(ns) - d
        /\ ~(i < m + 1) /\ ~(j < m + 1) /\ i + d # p /\ j + d # p
        /\ i + d \in 1 .. Len(ns) /\ j + d \in 1 .. Len(ns)
    BY ONLY <1>1, <1>5, <1>7, i \in m + 2 .. Len(c), j \in m + 2 .. Len(c), d = p - (m + 1)
  <2>3. c[i] = ns[i + d] /\ c[j] = ns[j + d]
    BY <1>3, <1>5, <2>1
  <2>2. \A k, l \in m + 1 .. Len(ns) : k < l => ns[k].idx < ns[l].idx \/ ns[l] \in D
    BY DEF Shape
  <2> QED
    BY <2>1, <2>2, <2>3
<1>8. m + 1 \in 0 .. Len(c) /\ Len(c) <= Len(ns)
  BY <1>1, <1>5
<1>9. Shape(c, m + 1, D)
  <2>1. m + 1 + 1 = m + 2
    BY <1>1
  <2> QED
    BY <1>5, <1>6, <1>7, <1>8, <2>1 DEF Shape
<1> QED
  BY <1>8, <1>9 DEF c, e

-----------------------------------------------------------------------------
(* The scan, in a state of the invariant.                                  *)

\* The unmatched nodes are the rest of the list.
LEMMA UnmatchedAre ==
  ASSUME Inv
  PROVE  /\ Unmatched = match_cnt + 1 .. Len(nodes)
         /\ Cardinality(Unmatched) = Len(nodes) - match_cnt
         /\ Cardinality({i \in Places : nodes[i].matched}) = match_cnt
<1>1. nodes \in Seq(Node) /\ match_cnt \in 0 .. Len(nodes)
  BY DEF Inv, Shape
<1>2. \A i \in 1 .. Len(nodes) : nodes[i].matched <=> i <= match_cnt
  BY DEF Inv, Shape
<1>3. Unmatched = match_cnt + 1 .. Len(nodes)
  BY <1>1, <1>2 DEF Unmatched, Places
<1>4. {i \in Places : nodes[i].matched} = 1 .. match_cnt
  BY <1>1, <1>2 DEF Places
<1>5. /\ Cardinality(match_cnt + 1 .. Len(nodes)) =
            IF match_cnt + 1 > Len(nodes) THEN 0 ELSE Len(nodes) - (match_cnt + 1) + 1
      /\ Cardinality(1 .. match_cnt) =
            IF 1 > match_cnt THEN 0 ELSE match_cnt - 1 + 1
  <2>1. match_cnt \in Int /\ Len(nodes) \in Int /\ match_cnt + 1 \in Int /\ 1 \in Int
    BY <1>1
  <2> QED
    BY <2>1, FS_Interval
<1>6. /\ Cardinality(match_cnt + 1 .. Len(nodes)) = Len(nodes) - match_cnt
      /\ Cardinality(1 .. match_cnt) = match_cnt
  BY <1>1, <1>5
<1> QED
  BY <1>3, <1>4, <1>6

\* A node that will never be complete never will.
LEMMA DeadGrows ==
  ASSUME QueueTypeOK, low' = low, last' \in [Streams -> Nat],
         \A s \in Streams : last[s] <= last'[s]
  PROVE  Dead \subseteq Dead'
<1> SUFFICES ASSUME NEW n \in Dead PROVE n \in Dead'
  OBVIOUS
<1>1. n \in Node /\ low
  BY DEF Dead
<1>2. PICK s \in Streams \ Meta : n.slot[s] = 0 /\ last[s] > n.idx
  BY DEF Dead
<1>3. n.idx \in Nat /\ last[s] \in Nat /\ last'[s] \in Nat
  BY <1>1 DEF Node, QueueTypeOK
<1>4. last'[s] > n.idx
  BY <1>2, <1>3
<1> QED
  BY <1>1, <1>2, <1>4 DEF Dead

\* What a buffer is, and what its arrival changes.
LEMMA ArrivesTypes ==
  ASSUME QueueTypeOK, NEW b \in Buffers, Arrives(b)
  PROVE  /\ last' \in [Streams -> Nat] /\ b.idx \in Nat /\ b.stream \in Streams
         /\ last[b.stream] < b.idx /\ last'[b.stream] = b.idx
         /\ \A s \in Streams : last[s] \in Nat /\ last[s] <= last'[s]
BY DEF Arrives, QueueTypeOK, Buffers, Frames

\* The node that takes a buffer, when it has had a frame: it keeps it.
LEMMA TakesMore ==
  ASSUME Inv, Sound, low' = low, NEW b \in Buffers, Arrives(b),
         NEW n \in Node, NEW x \in Node, n.meta = 0, x.idx = n.idx,
         x.slot = [n.slot EXCEPT ![b.stream] = b.idx],
         \/ n.idx = b.idx
         \/ low /\ IF b.stream \in Meta THEN n.idx < b.idx ELSE n.meta > b.idx
  PROVE  /\ n.idx <= b.idx
         /\ n \in Dead => x \in Dead' /\ ~Complete(x)
<1>1. /\ last' \in [Streams -> Nat] /\ b.idx \in Nat /\ b.stream \in Streams
      /\ last[b.stream] < b.idx
      /\ \A s \in Streams : last[s] \in Nat /\ last[s] <= last'[s]
  BY ArrivesTypes DEF Inv
<1>2. n.idx \in Nat /\ n.slot \in [Streams -> Nat]
  BY DEF Node
<1>3. n.idx = b.idx \/ (b.stream \in Meta /\ n.idx < b.idx)
  BY <1>1
<1>4. ASSUME n \in Dead
      PROVE  x \in Dead' /\ ~Complete(x)
  <2>1. PICK s \in Streams \ Meta : n.slot[s] = 0 /\ last[s] > n.idx
    BY <1>4 DEF Dead
  <2>2. s # b.stream
    BY <1>1, <1>2, <1>3, <2>1
  <2>3. x.slot[s] = 0 /\ last'[s] > x.idx
    BY <1>1, <1>2, <2>1, <2>2
  <2>4. low'
    BY <1>4 DEF Dead
  <2> QED
    BY <2>3, <2>4 DEF Dead, Complete
<1> QED
  BY <1>1, <1>2, <1>3, <1>4

\* The node that takes a buffer, when it waits with metadata: it takes the frame of
\* the buffer, and the older nodes that have not taken it are of earlier frames, or have
\* a later frame of another stream, which will not complete the node.
LEMMA TakesFirst ==
  ASSUME Inv, Sound, low' = low, NEW b \in Buffers, Arrives(b),
         NEW n \in Node, NEW x \in Node, NodeOK(n), low, n.meta > 0,
         \/ n.idx = b.idx
         \/ /\ n.slot[b.stream] = 0
            /\ IF b.stream \in Meta THEN n.idx < b.idx ELSE n.meta > b.idx,
         x.idx = b.idx, x.slot = [n.slot EXCEPT ![b.stream] = b.idx]
  PROVE  /\ b.idx <= n.idx
         /\ \A i \in match_cnt + 1 .. Len(nodes) :
              Takes(i, b) \/ nodes[i].idx < b.idx \/ (x \in Dead' /\ ~Complete(x))
<1>1. /\ last' \in [Streams -> Nat] /\ b.idx \in Nat /\ b.stream \in Streams
      /\ last[b.stream] < b.idx
      /\ \A s \in Streams : last[s] \in Nat /\ last[s] <= last'[s]
  BY ArrivesTypes DEF Inv
<1>2. n.idx \in Nat /\ n.slot \in [Streams -> Nat] /\ n.meta = n.idx
  BY DEF Node, NodeOK
<1>3. b.stream \notin Meta
  <2>1. CASE b.stream \in Meta
    <3>1. /\ n.slot[b.stream] = n.idx /\ n.slot[b.stream] <= last[b.stream]
          /\ n.idx > 0
      BY <1>1, <2>1 DEF NodeOK
    <3>2. n.idx = b.idx \/ n.slot[b.stream] = 0
      OBVIOUS
    <3> QED
      BY <1>1, <1>2, <3>1, <3>2
  <2> QED
    BY <2>1
<1>4. ASSUME NEW i \in match_cnt + 1 .. Len(nodes), ~Takes(i, b), ~(nodes[i].idx < b.idx)
      PROVE  x \in Dead' /\ ~Complete(x)
  <2>1. PICK k \in Node : k = nodes[i] /\ NodeOK(k) /\ ~k.matched
    <3>1. /\ i \in 1 .. Len(nodes) /\ ~(i <= match_cnt)
      BY DEF Inv, Shape
    <3> QED
      BY <3>1 DEF Inv, Shape, Sound, BufInv
  <2>2. /\ k.idx \in Nat /\ k.slot \in [Streams -> Nat] /\ k.meta \in Nat
    BY DEF Node
  <2>3. k.idx > b.idx
    BY <1>1, <1>4, <2>1, <2>2 DEF Takes
  <2>4. k.slot[b.stream] = 0
    <3>1. k.slot[b.stream] # 0 => k.slot[b.stream] = k.idx
      BY <1>1, <1>3, <2>1 DEF NodeOK
    <3>2. k.slot[b.stream] <= last[b.stream]
      BY <1>1, <2>1 DEF NodeOK
    <3> QED
      BY <1>1, <2>2, <2>3, <3>1, <3>2
  <2>5. k.meta = 0
    <3>1. ~(k.meta > b.idx)
      BY <1>3, <1>4, <2>1, <2>4 DEF Takes
    <3> QED
      BY <2>1, <2>2, <2>3, <3>1 DEF NodeOK
  <2>6. PICK s \in Streams \ Meta : k.slot[s] # 0
    BY <2>1, <2>5 DEF NodeOK
  <2>7. k.slot[s] = k.idx /\ k.slot[s] <= last[s] /\ s # b.stream
    BY <2>1, <2>4, <2>6 DEF NodeOK
  <2>8. x.slot[s] = 0
    <3>1. n.slot[s] = 0
      BY <2>6 DEF NodeOK
    <3> QED
      BY <1>2, <2>7, <3>1
  <2>9. last'[s] > x.idx
    BY <1>1, <2>2, <2>3, <2>7
  <2> QED
    BY <2>8, <2>9 DEF Dead, Complete
<1> QED
  BY <1>1, <1>2, <1>3, <1>4

\* The node that takes a buffer keeps its place in the order, or never completes.
LEMMA TakerIs ==
  ASSUME Inv, Sound, low' = low, NEW b \in Buffers, Arrives(b), Takers(b) # {}
  PROVE  /\ Pos(b) \in match_cnt + 1 .. Len(nodes)
         /\ FilledBy(b) \in Node /\ ~FilledBy(b).matched
         /\ \A i \in match_cnt + 1 .. Pos(b) - 1 :
              nodes[i].idx < FilledBy(b).idx \/ FilledBy(b) \in Dead'
         /\ \A j \in Pos(b) + 1 .. Len(nodes) :
              FilledBy(b).idx < nodes[j].idx \/ nodes[j] \in Dead'
         /\ Complete(FilledBy(b)) =>
              \A i \in match_cnt + 1 .. Pos(b) - 1 : nodes[i].idx < b.idx
<1>1. nodes \in Seq(Node) /\ match_cnt \in 0 .. Len(nodes)
  BY DEF Inv, Shape
<1>2. PICK p : p = Pos(b)
  OBVIOUS
<1>3. p \in Places /\ Takes(p, b) /\ \A i \in Takers(b) : p <= i
  <2>1. Takers(b) \subseteq Nat
    BY <1>1 DEF Takers, Places
  <2>2. Pos(b) \in Takers(b) /\ \A i \in Takers(b) : Pos(b) <= i
    BY <2>1, FirstOfNat DEF Pos
  <2> QED
    BY <1>2, <2>2 DEF Takers
<1>4. p \in match_cnt + 1 .. Len(nodes)
  BY <1>3, UnmatchedAre DEF Unmatched, Takes
<1>5. PICK n \in Node : n = nodes[p]
  BY <1>1, <1>3 DEF Places
<1>6. n.idx \in Nat /\ n.slot \in [Streams -> Nat] /\ n.meta \in Nat /\ ~n.matched
  BY <1>3, <1>5 DEF Node, Takes
<1>7. PICK x : x = FilledBy(b)
  OBVIOUS
<1>8. /\ last' \in [Streams -> Nat] /\ b.idx \in Nat /\ b.stream \in Streams
      /\ \A s \in Streams : last[s] \in Nat /\ last[s] <= last'[s]
  BY ArrivesTypes DEF Inv
<1>9. /\ x \in Node /\ ~x.matched /\ x.slot = [n.slot EXCEPT ![b.stream] = b.idx]
      /\ x.idx = IF n.meta > 0 THEN b.idx ELSE n.idx
  <2>1. PICK r : r = Refit(n, b)
    OBVIOUS
  <2>2. /\ r \in Node /\ ~r.matched /\ r.slot = n.slot
        /\ r.idx = IF n.meta > 0 THEN b.idx ELSE n.idx
    BY <1>6, <1>8, <2>1 DEF Refit, Node
  <2>3. x = [r EXCEPT !.slot[b.stream] = b.idx]
    BY <1>2, <1>5, <1>7, <2>1 DEF FilledBy
  <2>4. [r.slot EXCEPT ![b.stream] = b.idx] \in [Streams -> Nat]
    BY <1>8, <2>2 DEF Node
  <2> QED
    BY <2>2, <2>3, <2>4 DEF Node
<1>10. PICK D : D = Dead' /\ Dead \subseteq D
  BY <1>8, DeadGrows DEF Inv
<1>11. /\ \A i \in match_cnt + 1 .. p - 1 : nodes[i].idx < n.idx \/ n \in Dead
       /\ \A j \in p + 1 .. Len(nodes) : n.idx < nodes[j].idx \/ nodes[j] \in D
  BY <1>1, <1>4, <1>5, <1>10 DEF Inv, Shape
<1>12. \A i \in 1 .. Len(nodes) : nodes[i].idx \in Nat
  <2>1. \A k \in Node : k.idx \in Nat
    BY DEF Node
  <2> QED
    BY <1>1, <2>1
<1>13. \/ n.idx = b.idx
       \/ /\ low /\ n.slot[b.stream] = 0
          /\ IF b.stream \in Meta THEN n.idx < b.idx ELSE n.meta > b.idx
  BY <1>3, <1>5 DEF Takes
<1> DEFINE Goal == /\ \A i \in match_cnt + 1 .. p - 1 : nodes[i].idx < x.idx \/ x \in D
                   /\ \A j \in p + 1 .. Len(nodes) : x.idx < nodes[j].idx \/ nodes[j] \in D
                   /\ Complete(x) => \A i \in match_cnt + 1 .. p - 1 : nodes[i].idx < b.idx
<1>14. ASSUME n.meta = 0 PROVE Goal
  <2>1. x.idx = n.idx
    BY <1>9, <1>14
  <2>2. n.idx <= b.idx /\ (n \in Dead => x \in D /\ ~Complete(x))
    BY <1>9, <1>10, <1>13, <1>14, <2>1, TakesMore
  <2>3. \A i \in match_cnt + 1 .. p - 1 : i \in 1 .. Len(nodes)
    BY <1>1, <1>4
  <2> QED
    BY <1>6, <1>8, <1>11, <1>12, <2>1, <2>2, <2>3
<1>15. ASSUME n.meta > 0, low PROVE Goal
  <2>1. x.idx = b.idx
    BY <1>9, <1>15
  <2>2. NodeOK(n)
    BY <1>3, <1>5, <1>15 DEF Sound, BufInv, Places
  <2>3. /\ b.idx <= n.idx
        /\ \A i \in match_cnt + 1 .. Len(nodes) :
             Takes(i, b) \/ nodes[i].idx < b.idx \/ (x \in D /\ ~Complete(x))
    BY <1>9, <1>10, <1>13, <1>15, <2>1, <2>2, TakesFirst
  <2>4. ASSUME NEW i \in match_cnt + 1 .. p - 1
        PROVE  nodes[i].idx < b.idx \/ (x \in D /\ ~Complete(x))
    <3>1. i \in match_cnt + 1 .. Len(nodes) /\ i \in Places /\ ~(p <= i)
      BY <1>1, <1>4 DEF Places
    <3>2. ~Takes(i, b)
      BY <1>3, <3>1 DEF Takers
    <3> QED
      BY <2>3, <3>1, <3>2
  <2>5. ASSUME NEW j \in p + 1 .. Len(nodes)
        PROVE  x.idx < nodes[j].idx \/ nodes[j] \in D
    <3>1. nodes[j].idx \in Nat
      BY <1>1, <1>4, <1>12
    <3> QED
      BY <1>6, <1>8, <1>11, <2>1, <2>3, <3>1
  <2> QED
    BY <2>1, <2>4, <2>5
<1>16. ASSUME n.meta > 0, ~low PROVE Goal
  <2>1. x.idx = n.idx /\ n.idx = b.idx /\ Dead = {}
    BY <1>9, <1>13, <1>16 DEF Dead
  <2> QED
    BY <1>11, <2>1
<1>17. Goal
  <2> HIDE DEF Goal
  <2> QED
    BY <1>6, <1>14, <1>15, <1>16
<1> QED
  BY <1>2, <1>4, <1>7, <1>9, <1>10, <1>17

-----------------------------------------------------------------------------
(* The steps.                                                              *)

\* A node takes a buffer and is still incomplete.
LEMMA FillInv ==
  ASSUME Inv, Sound, low' = low, NEW b \in Buffers, Fill(b)
  PROVE  Inv'
<1>1. Arrives(b) /\ Takers(b) # {}
  BY DEF Fill
<1>2. PICK p, f, D : p = Pos(b) /\ f = FilledBy(b) /\ D = Dead'
  OBVIOUS
<1>3. /\ p \in match_cnt + 1 .. Len(nodes) /\ f \in Node /\ ~f.matched
      /\ \A i \in match_cnt + 1 .. p - 1 : nodes[i].idx < f.idx \/ f \in D
      /\ \A j \in p + 1 .. Len(nodes) : f.idx < nodes[j].idx \/ nodes[j] \in D
  BY <1>1, <1>2, TakerIs
<1>4. PICK x : x = [f EXCEPT !.expected_frame = @ \/ target.diverted_frame_id = b.idx]
  OBVIOUS
<1>5. x \in Node /\ x.idx = f.idx /\ ~x.matched /\ x.slot = f.slot
  BY <1>3, <1>4 DEF Node
<1>6. f \in D => x \in D
  BY <1>2, <1>5 DEF Dead
<1>7. nodes' = [nodes EXCEPT ![p] = x] /\ match_cnt' = match_cnt
  BY <1>2, <1>4 DEF Fill
<1>8. /\ last' \in [Streams -> Nat] /\ b.idx \in Nat /\ Dead \subseteq D
  BY <1>1, <1>2, ArrivesTypes, DeadGrows DEF Inv
<1>9. Shape(nodes, match_cnt, D)
  BY <1>8, ShapeGrows DEF Inv
<1>10. /\ \A i \in match_cnt + 1 .. p - 1 : nodes[i].idx < x.idx \/ x \in D
       /\ \A j \in p + 1 .. Len(nodes) : x.idx < nodes[j].idx \/ nodes[j] \in D
  BY <1>3, <1>5, <1>6
<1>11. Shape(nodes', match_cnt', D) /\ Len(nodes') = Len(nodes)
  <2> DEFINE c == [nodes EXCEPT ![p] = x]
             m == match_cnt
  <2>1. Shape(nodes, m, D) /\ p \in m + 1 .. Len(nodes) /\ x \in Node /\ ~x.matched
    BY <1>3, <1>5, <1>9
  <2>2. /\ \A i \in m + 1 .. p - 1 : nodes[i].idx < x.idx \/ x \in D
        /\ \A j \in p + 1 .. Len(nodes) : x.idx < nodes[j].idx \/ nodes[j] \in D
    BY <1>10
  <2>3. nodes' = c /\ match_cnt' = m
    BY <1>7
  <2> HIDE DEF m
  <2>4. Shape(c, m, D) /\ Len(c) = Len(nodes)
    BY ONLY <2>1, <2>2, ReplaceUnmatched
  <2> HIDE DEF c
  <2> QED
    BY ONLY <2>3, <2>4
<1>12. QueueTypeOK'
  <2>1. target' \in Target
    BY DEF Fill, Inv, QueueTypeOK, Target
  <2>2. held' \subseteq Buffers /\ given' \subseteq Buffers
    BY DEF Fill, Inv, QueueTypeOK
  <2>3. nodes' \in Seq(Node) /\ match_cnt' \in Nat
    BY <1>11 DEF Shape
  <2> QED
    BY <1>8, <2>1, <2>2, <2>3 DEF QueueTypeOK
<1> QED
  BY <1>2, <1>7, <1>11, <1>12 DEF Inv

\* A frame is complete, and the older unmatched nodes go.
LEMMA MatchInv ==
  ASSUME Inv, Sound, low' = low, NEW b \in Buffers, Match(b)
  PROVE  Inv'
<1>1. Arrives(b) /\ Takers(b) # {} /\ Complete(FilledBy(b))
  BY DEF Match
<1>0. PICK D : D = Dead' /\ Dead \subseteq D
  BY <1>1, ArrivesTypes, DeadGrows DEF Inv
<1> DEFINE p == Pos(b)
           x == [FilledBy(b) EXCEPT !.matched = TRUE, !.expected_frame = FALSE]
           from == IF \E i \in Older(b) : i < p THEN FirstOf(Older(b)) ELSE p
<1>2. /\ p \in match_cnt + 1 .. Len(nodes) /\ FilledBy(b) \in Node
      /\ \A i \in match_cnt + 1 .. p - 1 : nodes[i].idx < b.idx
  BY <1>1, TakerIs
<1>3. x \in Node /\ x.matched
  BY <1>2 DEF Node
<1>4. nodes' = Cut([nodes EXCEPT ![p] = x], from, p) /\ match_cnt' = match_cnt + 1
  BY DEF Match
<1>5. Shape(nodes, match_cnt, D) /\ match_cnt \in Nat
  BY <1>0, ShapeGrows DEF Inv, Shape
<1>6. from = match_cnt + 1
  <2>1. Older(b) \subseteq match_cnt + 1 .. Len(nodes)
    BY UnmatchedAre DEF Older
  <2>2. CASE p = match_cnt + 1
    BY <1>5, <2>1, <2>2
  <2>3. CASE p # match_cnt + 1
    <3>1. /\ match_cnt + 1 < p /\ match_cnt + 1 \in match_cnt + 1 .. Len(nodes)
          /\ match_cnt + 1 \in match_cnt + 1 .. p - 1
      BY <1>2, <1>5, <2>3
    <3>2. nodes[match_cnt + 1].idx < b.idx
      BY <1>2, <3>1
    <3>3. match_cnt + 1 \in Older(b)
      BY <3>1, <3>2, UnmatchedAre DEF Older
    <3>4. FirstOf(Older(b)) \in Older(b) /\ FirstOf(Older(b)) <= match_cnt + 1
      <4>1. Older(b) \subseteq Nat
        BY <1>5, <2>1
      <4> QED
        BY <3>3, <4>1, FirstOfNat
    <3> QED
      BY <1>5, <2>1, <3>1, <3>3, <3>4
  <2> QED
    BY <2>2, <2>3
<1> HIDE DEF x, p, from
<1>7. Shape(nodes', match_cnt', D) /\ Len(nodes') <= Len(nodes)
  BY <1>2, <1>3, <1>4, <1>5, <1>6, Promote
<1>8. QueueTypeOK'
  <2>1. last' \in [Streams -> Nat] /\ b.idx \in Nat
    BY <1>1, ArrivesTypes DEF Inv
  <2>2. target' \in Target
    <3>1. target \in Target /\ target' = NextTarget(b) /\ PostFrameSkip \in Nat
      BY SuperbufAssumption DEF Match, Inv, QueueTypeOK
    <3>2. CASE target.isFlashBracketingEnabled
      <4> DEFINE w == target.expected_frame_id_without_led
                 f == b.idx < w
      <4>1. target' = [target EXCEPT !.expected_frame_id = w,
                                     !.isFlashBracketingEnabled = f]
        BY <3>1, <3>2 DEF NextTarget
      <4>2. w \in Nat /\ f \in BOOLEAN
        BY <3>1 DEF Target
      <4> HIDE DEF w, f
      <4> QED
        BY <3>1, <4>1, <4>2 DEF Target
    <3>3. CASE ~target.isFlashBracketingEnabled
      <4>1. b.idx + PostFrameSkip \in Nat
        BY <2>1, <3>1
      <4>2. target' = [target EXCEPT !.expected_frame_id = b.idx + PostFrameSkip]
        BY <3>1, <3>3 DEF NextTarget
      <4> QED
        BY <3>1, <4>1, <4>2 DEF Target
    <3> QED
      BY <3>2, <3>3
  <2>3. held' \subseteq Buffers /\ given' \subseteq Buffers
    BY DEF Match, Inv, QueueTypeOK
  <2>4. nodes' \in Seq(Node) /\ match_cnt' \in Nat
    BY <1>7 DEF Shape
  <2> QED
    BY <2>1, <2>2, <2>3, <2>4 DEF QueueTypeOK
<1>9. Len(nodes') - match_cnt' <= MaxUnmatched + 1
  <2>1. Len(nodes) - match_cnt <= MaxUnmatched + 1 /\ nodes \in Seq(Node)
    BY DEF Inv, QueueTypeOK
  <2>2. nodes' \in Seq(Node)
    BY <1>8 DEF QueueTypeOK
  <2> QED
    BY <1>4, <1>5, <1>7, <2>1, <2>2, SuperbufAssumption
<1>10. \A s \in Streams : Streams # {s}
  BY <1>2, <1>5 DEF Inv
<1> QED
  BY <1>0, <1>7, <1>8, <1>9, <1>10 DEF Inv

\* The place and the room of a new node.
LEMMA PlaceIs ==
  ASSUME Inv, NEW b \in Buffers, Takers(b) = {}
  PROVE  /\ InsertPlace(b) \in match_cnt + 1 .. Len(nodes) + 1
         /\ \A i \in match_cnt + 1 .. InsertPlace(b) - 1 : nodes[i].idx < b.idx
         /\ \A i \in InsertPlace(b) .. Len(nodes) : b.idx < nodes[i].idx \/ nodes[i] \in Dead
         /\ Older(b) # {} =>
              /\ Victim(b) \in match_cnt + 1 .. Len(nodes)
              /\ Victim(b) # InsertPlace(b)
<1> DEFINE p == InsertPlace(b)
<1>1. /\ nodes \in Seq(Node) /\ match_cnt \in 0 .. Len(nodes) /\ b.idx \in Nat
      /\ \A i \in 1 .. Len(nodes) : nodes[i].idx \in Nat
  <2>1. nodes \in Seq(Node) /\ match_cnt \in 0 .. Len(nodes)
    BY DEF Inv, Shape
  <2>2. b.idx \in Nat
    BY DEF Buffers, Frames
  <2>3. \A i \in 1 .. Len(nodes) : nodes[i] \in Node
    BY <2>1
  <2>4. \A n \in Node : n.idx \in Nat
    BY DEF Node
  <2> QED
    BY <2>1, <2>2, <2>3, <2>4
<1>2. Unmatched = match_cnt + 1 .. Len(nodes)
  BY UnmatchedAre
<1>3. \A i \in Unmatched : nodes[i].idx # b.idx
  BY DEF Takers, Takes, Unmatched
<1>4. /\ Older(b) \subseteq Unmatched /\ Newer(b) \subseteq Unmatched
      /\ Older(b) \subseteq Nat /\ Newer(b) \subseteq Nat
  BY <1>1, <1>2 DEF Older, Newer
<1>5. \A i \in Unmatched : i \in Older(b) <=> i \notin Newer(b)
  BY <1>1, <1>2, <1>3 DEF Older, Newer
<1>6. Newer(b) # {} => p \in Newer(b) /\ \A j \in Newer(b) : p <= j
  BY <1>4, FirstOfNat DEF InsertPlace
<1>7. Newer(b) = {} => p = Len(nodes) + 1
  BY DEF InsertPlace
<1> HIDE DEF p
<1>8. p \in match_cnt + 1 .. Len(nodes) + 1
  BY <1>1, <1>2, <1>4, <1>6, <1>7
<1>9. ASSUME NEW i \in match_cnt + 1 .. p - 1 PROVE nodes[i].idx < b.idx
  <2>1. i \in Unmatched /\ ~(p <= i)
    BY <1>1, <1>2, <1>8
  <2>2. i \notin Newer(b)
    BY <1>6, <2>1
  <2> QED
    BY <1>5, <2>1, <2>2 DEF Older
<1>10. ASSUME NEW i \in p .. Len(nodes) PROVE b.idx < nodes[i].idx \/ nodes[i] \in Dead
  <2>1. Newer(b) # {} /\ i \in match_cnt + 1 .. Len(nodes)
    BY <1>1, <1>7, <1>8
  <2>2. p \in match_cnt + 1 .. Len(nodes) /\ nodes[p].idx > b.idx
    BY <1>2, <1>4, <1>6, <2>1 DEF Newer
  <2>3. CASE i = p
    BY <1>1, <2>2, <2>3
  <2>4. CASE i # p
    <3>1. p < i
      BY <1>8, <2>4
    <3>2. nodes[p].idx < nodes[i].idx \/ nodes[i] \in Dead
      BY <2>1, <2>2, <3>1 DEF Inv, Shape
    <3> QED
      BY <1>1, <2>1, <2>2, <3>2
  <2> QED
    BY <2>3, <2>4
<1>11. ASSUME Older(b) # {}
       PROVE  Victim(b) \in match_cnt + 1 .. Len(nodes) /\ Victim(b) # p
  <2> DEFINE o == FirstOf(Older(b))
  <2>1. o \in Older(b)
    BY <1>4, <1>11, FirstOfNat
  <2>2. o \in match_cnt + 1 .. Len(nodes) /\ o # p
    <3>1. o \in Unmatched
      BY <1>4, <2>1
    <3>2. o \notin Newer(b)
      BY <1>5, <2>1, <3>1
    <3>3. o # Len(nodes) + 1
      BY <1>1, <1>2, <3>1
    <3> QED
      BY <1>2, <1>6, <1>7, <3>1, <3>2, <3>3
  <2>3. Victims(b) \subseteq o .. Len(nodes) /\ p \notin Victims(b)
    BY DEF Victims, p
  <2> HIDE DEF o
  <2>4. CASE Victims(b) = {}
    BY <2>2, <2>4 DEF Victim, o
  <2>5. CASE Victims(b) # {}
    <3>1. Victims(b) \subseteq Nat
      BY <1>1, <2>2, <2>3
    <3>2. FirstOf(Victims(b)) \in Victims(b)
      BY <2>5, <3>1, FirstOfNat
    <3>3. Victim(b) \in Victims(b)
      BY <2>5, <3>2 DEF Victim
    <3> QED
      BY <1>1, <2>2, <2>3, <3>3
  <2> QED
    BY <2>4, <2>5
<1> QED
  BY <1>8, <1>9, <1>10, <1>11 DEF p

\* What an insertion changes besides the list.
LEMMA InsertTypes ==
  ASSUME Inv, NEW b \in Buffers, Insert(b)
  PROVE  /\ NewNode(b) \in Node /\ NewNode(b).idx = b.idx
         /\ NewNode(b).matched <=> Streams = {b.stream}
         /\ last' \in [Streams -> Nat] /\ target' \in Target
         /\ held' \subseteq Buffers /\ given' \subseteq Buffers
<1>1. last' \in [Streams -> Nat] /\ b.idx \in Nat /\ b.stream \in Streams
  BY ArrivesTypes DEF Inv, Insert
<1>2. NewNode(b) \in Node
  <2>1. [s \in Streams |-> IF s = b.stream THEN b.idx ELSE 0] \in [Streams -> Nat]
    BY <1>1
  <2>2. (IF low /\ b.stream \in Meta THEN b.idx ELSE 0) \in Nat
    BY <1>1
  <2>3. /\ (Streams = {b.stream}) \in BOOLEAN
        /\ (~(Streams = {b.stream}) /\ b.idx \in {target.diverted_frame_id,
                                                  target.good_frame_id}) \in BOOLEAN
    OBVIOUS
  <2> QED
    BY <1>1, <2>1, <2>2, <2>3 DEF NewNode, Node
<1>3. NewNode(b).idx = b.idx /\ (NewNode(b).matched <=> Streams = {b.stream})
  BY DEF NewNode
<1>4. target' \in Target
  <2>1. target \in Target /\ target' = InsertTarget(b) /\ b.idx + PostFrameSkip \in Nat
    BY <1>1, SuperbufAssumption DEF Insert, Inv, QueueTypeOK
  <2> QED
    BY <2>1 DEF InsertTarget, Target
<1>5. held' \subseteq Buffers /\ given' \subseteq Buffers
  BY DEF Insert, Inv, QueueTypeOK
<1> QED
  BY <1>1, <1>2, <1>3, <1>4, <1>5

\* A new frame in a queue that has room, and in a full one.
LEMMA InsertInv ==
  ASSUME Inv, Sound, low' = low, NEW b \in Buffers, Insert(b)
  PROVE  Inv'
<1> DEFINE m == match_cnt
           x == NewNode(b)
           p == InsertPlace(b)
           v == Victim(b)
           full == MaxUnmatched < Cardinality(Unmatched)
<1>0. PICK D : D = Dead' /\ Dead \subseteq D
  BY ArrivesTypes, DeadGrows DEF Insert, Inv
<1>1. /\ x \in Node /\ x.idx = b.idx /\ (x.matched <=> Streams = {b.stream})
      /\ last' \in [Streams -> Nat] /\ target' \in Target
      /\ held' \subseteq Buffers /\ given' \subseteq Buffers
  BY InsertTypes
<1>2. Takers(b) = {} /\ (full => Older(b) # {})
  BY DEF Insert
<1>3. /\ p \in m + 1 .. Len(nodes) + 1
      /\ \A i \in m + 1 .. p - 1 : nodes[i].idx < x.idx
      /\ \A i \in p .. Len(nodes) : x.idx < nodes[i].idx \/ nodes[i] \in D
      /\ full => v \in m + 1 .. Len(nodes) /\ v # p
  BY <1>0, <1>1, <1>2, PlaceIs
<1>4. /\ Shape(nodes, m, D) /\ nodes \in Seq(Node) /\ m \in 0 .. Len(nodes)
      /\ Len(nodes) - m <= MaxUnmatched + 1
  BY <1>0 DEF Inv, Shape
<1>5. full <=> MaxUnmatched < Len(nodes) - m
  BY UnmatchedAre
<1>6. /\ nodes' = IF full
           THEN InsertAt(Cut(nodes, v, v + 1), IF v < p THEN p - 1 ELSE p, x)
           ELSE InsertAt(nodes, p, x)
      /\ match_cnt' = IF Streams = {b.stream} THEN m + 1 ELSE m
  BY DEF Insert
<1>7. b.stream \in Streams /\ MaxUnmatched \in Nat
  BY SuperbufAssumption DEF Buffers
<1> HIDE DEF x, p, v, full
<1>8. CASE Streams = {b.stream}
  <2>1. m = Len(nodes)
    BY <1>7, <1>8 DEF Inv
  <2>2. ~full /\ p = m + 1 /\ x.matched
    BY <1>1, <1>3, <1>4, <1>5, <1>7, <1>8, <2>1
  <2>3. Shape(nodes', m + 1, D) /\ Len(nodes') = m + 1
    <3>1. /\ nodes' = InsertAt(nodes, p, x)
      BY <1>6, <2>2
    <3>2. /\ nodes' \in Seq(Node) /\ Len(nodes') = Len(nodes) + 1
          /\ \A i \in 1 .. Len(nodes) + 1 :
               nodes'[i] = IF i < p THEN nodes[i] ELSE IF i = p THEN x ELSE nodes[i - 1]
      <4>1. p \in 1 .. Len(nodes) + 1 /\ nodes \in Seq(Node) /\ x \in Node
        BY <1>1, <1>3, <1>4
      <4> DEFINE c == InsertAt(nodes, p, x)
      <4>2. /\ c \in Seq(Node) /\ Len(c) = Len(nodes) + 1
            /\ \A i \in 1 .. Len(nodes) + 1 :
                 c[i] = IF i < p THEN nodes[i] ELSE IF i = p THEN x ELSE nodes[i - 1]
        BY ONLY <4>1, InsertAtIs
      <4> HIDE DEF c
      <4>3. nodes' = c
        BY <3>1 DEF c
      <4> QED
        BY ONLY <4>2, <4>3
    <3>3. \A i \in 1 .. Len(nodes') : nodes'[i].matched <=> i <= m + 1
      <4>1. SUFFICES ASSUME NEW i \in 1 .. Len(nodes')
                     PROVE  nodes'[i].matched
        BY <1>4, <2>1, <3>2
      <4>2. CASE i < p
        <5>1. nodes'[i] = nodes[i] /\ i \in 1 .. Len(nodes) /\ i <= m
          BY <1>4, <2>1, <2>2, <3>2, <4>2
        <5> QED
          BY <5>1, <1>4 DEF Shape
      <4>3. CASE i = p
        BY <2>2, <3>2, <4>3
      <4> QED
        BY <1>4, <2>1, <2>2, <3>2, <4>2, <4>3
    <3>4. \A i, j \in m + 1 + 1 .. Len(nodes') : i < j => nodes'[i].idx < nodes'[j].idx \/ nodes'[j] \in D
      BY <1>4, <2>1, <3>2
    <3> QED
      BY <1>4, <2>1, <3>2, <3>3, <3>4 DEF Shape
  <2>4. match_cnt' = m + 1
    BY <1>6, <1>8
  <2>5. QueueTypeOK'
    BY <1>1, <2>3, <2>4 DEF QueueTypeOK, Shape
  <2> QED
    BY <1>0, <1>4, <1>7, <2>3, <2>4, <2>5 DEF Inv
<1>9. CASE Streams # {b.stream}
  <2>1. match_cnt' = m /\ ~x.matched
    BY <1>1, <1>6, <1>9
  <2>2. ASSUME ~full
        PROVE  Shape(nodes', m, D) /\ Len(nodes') = Len(nodes) + 1
    <3>1. nodes' = InsertAt(nodes, p, x)
      BY <1>6, <2>2
    <3> QED
      BY <1>1, <1>3, <1>4, <2>1, <3>1, InsertUnmatched
  <2>3. ASSUME full
        PROVE  Shape(nodes', m, D) /\ Len(nodes') = Len(nodes)
    <3> DEFINE c == Cut(nodes, v, v + 1)
               q == IF v < p THEN p - 1 ELSE p
    <3>1. /\ v \in m + 1 .. Len(nodes) /\ v # p /\ v \in 1 .. Len(nodes) + 1
          /\ v + 1 \in v .. Len(nodes) + 1 /\ v \in m + 1 .. Len(nodes) + 1
      BY <1>3, <1>4, <2>3
    <3>2. Shape(c, m, D) /\ Len(c) = Len(nodes) - (v + 1 - v)
      BY <1>4, <3>1, CutUnmatched
    <3>3. \A i \in 1 .. Len(nodes) - 1 : c[i] = IF i < v THEN nodes[i] ELSE nodes[i + 1]
      <4> DEFINE e == v + 1
      <4>1. e - v = 1 /\ v \in 1 .. Len(nodes) + 1 /\ e \in v .. Len(nodes) + 1
        BY <1>4, <3>1
      <4>2. c = Cut(nodes, v, e)
        OBVIOUS
      <4> HIDE DEF c, e
      <4>3. \A i \in 1 .. Len(nodes) - (e - v) :
              Cut(nodes, v, e)[i] = IF i < v THEN nodes[i] ELSE nodes[i + (e - v)]
        BY <1>4, <4>1, CutIs
      <4> QED
        BY <4>1, <4>2, <4>3
    <3> HIDE DEF c
    <3>4. Len(c) = Len(nodes) - 1 /\ q \in m + 1 .. Len(c) + 1
      BY <1>3, <1>4, <3>1, <3>2
    <3>5. \A i \in 1 .. Len(nodes) - 1 : c[i] = IF i < v THEN nodes[i] ELSE nodes[i + 1]
      BY <3>3
    <3>6. ASSUME NEW i \in m + 1 .. q - 1 PROVE c[i].idx < x.idx
      <4>1. CASE i < v
        <5>1. i \in m + 1 .. p - 1 /\ i \in 1 .. Len(nodes) - 1
          <6>1. p \in Int /\ v \in m + 1 .. Len(nodes) /\ m \in Int /\ Len(nodes) \in Nat /\ m >= 0
            BY <1>3, <1>4, <3>1
          <6>2. q = IF v < p THEN p - 1 ELSE p
            OBVIOUS
          <6> HIDE DEF q, m
          <6> QED
            BY ONLY <6>1, <6>2, <4>1, i \in m + 1 .. q - 1
        <5>2. c[i] = nodes[i]
          BY <3>5, <4>1, <5>1
        <5> QED
          BY <1>3, <5>1, <5>2
      <4>2. CASE i >= v
        <5>1. c[i] = nodes[i + 1] /\ i + 1 \in m + 1 .. p - 1
          BY <1>3, <1>4, <3>1, <3>4, <3>5, <4>2
        <5> QED
          BY <1>3, <5>1
      <4> QED
        BY <1>4, <3>1, <4>1, <4>2
    <3>7. ASSUME NEW i \in q .. Len(c) PROVE x.idx < c[i].idx \/ c[i] \in D
      <4>1. CASE i < v
        <5>1. c[i] = nodes[i] /\ i \in p .. Len(nodes)
          BY <1>3, <1>4, <3>1, <3>4, <3>5, <4>1
        <5> QED
          BY <1>3, <5>1
      <4>2. CASE i >= v
        <5>1. c[i] = nodes[i + 1] /\ i + 1 \in p .. Len(nodes)
          BY <1>3, <1>4, <3>1, <3>4, <3>5, <4>2
        <5> QED
          BY <1>3, <5>1
      <4> QED
        BY <1>3, <1>4, <3>1, <3>4, <4>1, <4>2
    <3>8. nodes' = InsertAt(c, q, x)
      BY <1>6, <2>3 DEF c
    <3> HIDE DEF q
    <3>9. Shape(nodes', m, D) /\ Len(nodes') = Len(c) + 1
      BY <1>1, <2>1, <3>2, <3>4, <3>6, <3>7, <3>8, InsertUnmatched
    <3> QED
      BY <1>4, <3>4, <3>9
  <2>4. Shape(nodes', m, D) /\ Len(nodes') - m <= MaxUnmatched + 1
    BY <1>4, <1>5, <1>7, <2>2, <2>3
  <2>5. QueueTypeOK'
    BY <1>1, <1>4, <2>1, <2>4 DEF QueueTypeOK, Shape
  <2>6. \A s \in Streams : Streams # {s}
    BY <1>7, <1>9
  <2> QED
    BY <1>0, <2>1, <2>4, <2>5, <2>6 DEF Inv
<1> QED
  BY <1>8, <1>9

\* The first node goes, to the HAL or back to the kernel.
LEMMA DropHeadInv ==
  ASSUME Inv, low' = low, nodes # << >>, nodes[1].matched,
         nodes' = Cut(nodes, 1, 2), match_cnt' = match_cnt - 1,
         UNCHANGED <<target, last>>, held' \subseteq held,
         given' \subseteq Buffers
  PROVE  Inv'
<1>0. PICK D : D = Dead /\ D = Dead'
  BY DEF Dead
<1>1. Shape(nodes, match_cnt, D) /\ nodes \in Seq(Node) /\ match_cnt \in 0 .. Len(nodes)
  BY <1>0 DEF Inv, Shape
<1>2. 1 \in 1 .. Len(nodes)
  BY <1>1
<1>3. match_cnt >= 1
  BY <1>1, <1>2 DEF Shape
<1>4. 1 \in 1 .. match_cnt + 1 /\ 2 \in 1 .. match_cnt + 1 /\ 2 - 1 = 1
  BY <1>1, <1>3
<1>5. /\ Shape(Cut(nodes, 1, 2), match_cnt - (2 - 1), D)
      /\ Len(Cut(nodes, 1, 2)) = Len(nodes) - (2 - 1)
  BY <1>1, <1>4, CutMatched
<1>6. Shape(nodes', match_cnt', D) /\ Len(nodes') = Len(nodes) - 1
  BY <1>4, <1>5
<1>7. QueueTypeOK'
  BY <1>6 DEF Inv, QueueTypeOK, Shape
<1> QED
  BY <1>0, <1>1, <1>6, <1>7 DEF Inv

\* One matched node goes to the HAL.
LEMMA DequeueFrameInv ==
  ASSUME Inv, low' = low, NEW f \in Frames, DequeueFrame(f)
  PROVE  Inv'
<1>0. PICK D : D = Dead /\ D = Dead'
  BY DEF Dead, DequeueFrame
<1>1. Shape(nodes, match_cnt, D) /\ nodes \in Seq(Node) /\ match_cnt \in 0 .. Len(nodes)
  BY <1>0 DEF Inv, Shape
<1>2. PICK i \in Places :
        /\ nodes[i].matched
        /\ nodes' = Cut(nodes, i, i + 1) /\ match_cnt' = match_cnt - 1
        /\ given' = given \cup BufsAt({i})
        /\ UNCHANGED <<target, last, held>>
  BY DEF DequeueFrame
<1>3. i \in 1 .. Len(nodes) /\ i <= match_cnt
  BY <1>1, <1>2 DEF Places, Shape
<1> DEFINE e == i + 1
<1>4. i \in 1 .. match_cnt + 1 /\ e \in i .. match_cnt + 1 /\ e - i = 1
  BY <1>1, <1>3
<1> HIDE DEF e
<1>5. /\ Shape(Cut(nodes, i, e), match_cnt - (e - i), D)
      /\ Len(Cut(nodes, i, e)) = Len(nodes) - (e - i)
  BY <1>1, <1>4, CutMatched
<1>6. Shape(nodes', match_cnt', D) /\ Len(nodes') = Len(nodes) - 1
  BY <1>2, <1>4, <1>5 DEF e
<1>7. QueueTypeOK'
  BY <1>2, <1>6 DEF Inv, QueueTypeOK, Shape, BufsAt
<1> QED
  BY <1>0, <1>1, <1>2, <1>6, <1>7 DEF Inv

\* New targets of the frame filter are targets.
LEMMA RetargetType ==
  ASSUME QueueTypeOK, Retarget \/ UNCHANGED target
  PROVE  target' \in Target
BY RetargetsAssumption DEF Retarget, QueueTypeOK

\* A flush empties the list.
LEMMA FlushInv ==
  ASSUME Inv, Flush
  PROVE  Inv'
<1>1. nodes' = << >> /\ match_cnt' = 0
  <2>1. match_cnt' = match_cnt - match_cnt /\ match_cnt \in Nat
    BY UnmatchedAre DEF Flush, Inv, QueueTypeOK
  <2> QED
    BY <2>1 DEF Flush
<1>2. PICK D : D = Dead'
  OBVIOUS
<1>3. Shape(nodes', match_cnt', D) /\ Len(nodes') = 0
  BY <1>1 DEF Shape
<1>4. QueueTypeOK'
  BY <1>1, RetargetType DEF Inv, QueueTypeOK, Flush
<1> QED
  BY <1>1, <1>2, <1>3, <1>4, SuperbufAssumption DEF Inv

\* The nodes before the first unmatched one go.
LEMMA FlushMatchedInv ==
  ASSUME Inv, low' = low, FlushMatched
  PROVE  Inv'
<1> DEFINE first == IF Unmatched = {} THEN Len(nodes) + 1 ELSE FirstOf(Unmatched)
<1>0. PICK D : D = Dead /\ D = Dead'
  BY DEF Dead, FlushMatched
<1>1. Shape(nodes, match_cnt, D) /\ nodes \in Seq(Node) /\ match_cnt \in 0 .. Len(nodes)
  BY <1>0 DEF Inv, Shape
<1>2. first = match_cnt + 1
  <2>1. Unmatched = match_cnt + 1 .. Len(nodes)
    BY UnmatchedAre
  <2>2. CASE Unmatched = {}
    BY <1>1, <2>1, <2>2
  <2>3. CASE Unmatched # {}
    <3>1. Unmatched \subseteq Nat /\ match_cnt + 1 \in Unmatched
      BY <1>1, <2>1, <2>3
    <3>2. /\ FirstOf(Unmatched) \in Unmatched
          /\ FirstOf(Unmatched) <= match_cnt + 1
      BY <3>1, FirstOfNat
    <3> QED
      BY <1>1, <2>1, <2>3, <3>2
  <2> QED
    BY <2>2, <2>3
<1>3. /\ nodes' = Cut(nodes, 1, first) /\ match_cnt' = match_cnt - (first - 1)
      /\ held' = held \ BufsAt(1 .. first - 1) /\ UNCHANGED <<last, given>>
      /\ target' \in Target
  BY RetargetType DEF FlushMatched, Inv
<1> HIDE DEF first
<1>4. 1 \in 1 .. match_cnt + 1 /\ first \in 1 .. match_cnt + 1
  BY <1>1, <1>2
<1>5. /\ Shape(nodes', match_cnt', D)
      /\ Len(nodes') = Len(nodes) - (first - 1)
  BY <1>1, <1>3, <1>4, CutMatched
<1>6. QueueTypeOK'
  BY <1>3, <1>5 DEF Inv, QueueTypeOK, Shape
<1> QED
  BY <1>0, <1>1, <1>2, <1>3, <1>5, <1>6 DEF Inv

\* The list stays and no stream goes back.
LEMMA NodesUnchangedInv ==
  ASSUME Inv, low' = low, UNCHANGED <<nodes, match_cnt>>, last' \in [Streams -> Nat],
         \A s \in Streams : last[s] <= last'[s],
         target' \in Target, held' \subseteq Buffers, given' \subseteq Buffers
  PROVE  Inv'
<1>1. PICK D : D = Dead' /\ Dead \subseteq D
  BY DeadGrows DEF Inv
<1>2. Shape(nodes', match_cnt', D)
  BY <1>1, ShapeGrows DEF Inv
<1> QED
  BY <1>1, <1>2 DEF Inv, QueueTypeOK

-----------------------------------------------------------------------------
(* The theorems.                                                           *)

\* An empty queue is in order.
LEMMA InvInit == Init => Inv
<1> SUFFICES ASSUME Init PROVE Inv
  OBVIOUS
<1>1. QueueTypeOK
  BY DEF Init, QueueTypeOK, Target
<1>2. Shape(nodes, match_cnt, Dead) /\ Len(nodes) = 0 /\ match_cnt = 0
  BY DEF Init, Shape
<1> QED
  BY <1>1, <1>2, SuperbufAssumption DEF Inv

\* Every step keeps Inv.
LEMMA InvNext == Inv /\ Sound /\ [Next]_vars => Inv'
<1> SUFFICES ASSUME Inv, Sound, [Next]_vars PROVE Inv'
  OBVIOUS
<1>0. /\ last \in [Streams -> Nat] /\ target \in Target
      /\ held \subseteq Buffers /\ given \subseteq Buffers
      /\ \A s \in Streams : last[s] <= last[s]
      /\ low' = low
  BY DEF Inv, QueueTypeOK, Next, vars
<1>1. ASSUME NEW b \in Buffers, DropOld(b) \/ DropUnplaced(b) PROVE Inv'
  <2>1. /\ Arrives(b) /\ UNCHANGED <<nodes, match_cnt>>
        /\ target' \in Target /\ held' \subseteq Buffers /\ given' \subseteq Buffers
    BY <1>0, <1>1 DEF DropOld, DropUnplaced
  <2>2. last' \in [Streams -> Nat] /\ \A s \in Streams : last[s] <= last'[s]
    BY <2>1, ArrivesTypes DEF Inv
  <2> QED
    BY <1>0, <2>1, <2>2, NodesUnchangedInv
<1>2. ASSUME NEW b \in Buffers, Fill(b) PROVE Inv'
  BY <1>0, <1>2, FillInv
<1>3. ASSUME NEW b \in Buffers, Match(b) PROVE Inv'
  BY <1>0, <1>3, MatchInv
<1>4. ASSUME NEW b \in Buffers, Insert(b) PROVE Inv'
  BY <1>0, <1>4, InsertInv
<1>5. ASSUME NEW b \in Buffers, BufDone(b) PROVE Inv'
  BY <1>0, <1>5, NodesUnchangedInv DEF BufDone
<1>6. CASE Dequeue
  <2>1. given' \subseteq Buffers /\ held' \subseteq held
    BY <1>0, <1>6 DEF Dequeue, BufsAt
  <2> QED
    BY <1>0, <1>6, <2>1, DropHeadInv DEF Dequeue, HeadMatched
<1>7. ASSUME NEW f \in Frames, DequeueFrame(f) PROVE Inv'
  BY <1>0, <1>7, DequeueFrameInv
<1>8. ASSUME NEW limit \in Limits, DropExcess(limit) PROVE Inv'
  <2>1. given' \subseteq Buffers /\ held' \subseteq held
    BY <1>0, <1>8 DEF DropExcess
  <2> QED
    BY <1>0, <1>8, <2>1, DropHeadInv DEF DropExcess, HeadMatched
<1>9. CASE Settle
  <2>1. target' \in Target
    BY <1>9, RetargetType DEF Settle, Inv
  <2> QED
    BY <1>0, <1>9, <2>1, NodesUnchangedInv DEF Settle
<1>10. CASE Flush
  BY <1>10, FlushInv
<1>11. CASE FlushMatched
  BY <1>0, <1>11, FlushMatchedInv
<1>12. CASE UNCHANGED vars
  BY <1>0, <1>12, NodesUnchangedInv DEF vars
<1> QED
  BY <1>1, <1>2, <1>3, <1>4, <1>5, <1>6, <1>7, <1>8, <1>9, <1>10, <1>11, <1>12
  DEF Next, CompAndEnqueue

\* The invariant holds in every state of a queue of either priority; a queue of low
\* priority has at most one metadata stream.
THEOREM Invariance == (low => OneMeta) /\ Spec => [](Inv /\ TypeOK)
<1>1. /\ Init => low \in Priorities
      /\ [Next]_vars => UNCHANGED low
  BY DEF Init, Next, vars
<1>2. /\ low \in Priorities /\ UNCHANGED low => (low \in Priorities)'
      /\ ~low /\ UNCHANGED low => (~low)'
  OBVIOUS
<1>3. Inv /\ low \in Priorities => TypeOK
  BY DEF Inv, TypeOK
<1>4. (low => OneMeta) /\ Spec => []Sound
  <2>1. CASE OneMeta
    <3>1. BufInv => Sound
      BY DEF Sound
    <3>2. Spec => []BufInv
      BY <2>1, AlwaysBufInv
    <3> QED
      BY <3>1, <3>2, PTL
  <2>2. CASE ~OneMeta
    <3>1. (low => OneMeta) => ~low
      BY <2>2
    <3>2. ~low => Sound
      BY DEF Sound
    <3> QED
      BY <1>1, <1>2, <3>1, <3>2, PTL DEF Spec
  <2> QED
    BY <2>1, <2>2
<1> QED
  BY <1>1, <1>2, <1>3, <1>4, InvInit, InvNext, PTL DEF Spec

\* The matched nodes are the first match_cnt of the queue, so what is complete
\* never waits behind what is not and the counter the loops of
\* mm_channel_superbuf_bufdone_overflow and mm_channel_superbuf_skip test is exact.
THEOREM MatchedNodesFirst == (low => OneMeta) /\ Spec => []MatchedFirst
<1>1. Inv => MatchedFirst
  BY DEF Inv, Shape, MatchedFirst, Places
<1> QED
  BY <1>1, Invariance, PTL

\* With normal priority the unmatched nodes are in the order of their frames
\* (mm_channel_superbuf_comp_and_enqueue inserts each where it belongs).
THEOREM UnmatchedAreSorted == ~low /\ Spec => []UnmatchedSorted
<1>1. Inv /\ ~low => UnmatchedSorted
  <2> SUFFICES ASSUME Inv, ~low PROVE UnmatchedSorted
    OBVIOUS
  <2>1. Unmatched = match_cnt + 1 .. Len(nodes) /\ Dead = {}
    BY UnmatchedAre DEF Dead
  <2> QED
    BY <2>1 DEF Inv, Shape, UnmatchedSorted
<1>2. ~low /\ [Next]_vars => ~low'
  BY DEF Next, vars
<1>3. ~low => (low => OneMeta)
  OBVIOUS
<1> QED
  BY <1>1, <1>2, <1>3, Invariance, PTL DEF Spec

\* The loops that bound the matched nodes never turn for ever with the queue locked.
THEOREM LoopsEnd == (low => OneMeta) /\ Spec => []NoSpin
<1>1. Inv => NoSpin
  <2> SUFFICES ASSUME Inv, match_cnt > 0 PROVE HeadMatched
    BY DEF NoSpin
  <2>1. nodes \in Seq(Node) /\ match_cnt \in 0 .. Len(nodes)
    BY DEF Inv, Shape
  <2>2. 1 \in 1 .. Len(nodes) /\ 1 <= match_cnt
    BY <2>1
  <2>3. nodes[1].matched
    BY <2>2 DEF Inv, Shape
  <2> QED
    BY <2>1, <2>2, <2>3 DEF HeadMatched
<1> QED
  BY <1>1, Invariance, PTL

\* An insertion removes at most one node to make room, so the removal loop of
\* mm_channel_superbuf_comp_and_enqueue never goes on from a node it has freed.
THEOREM OneRemovalIsEnough == (low => OneMeta) /\ Spec => []UnmatchedBound
<1>1. Inv => UnmatchedBound
  BY UnmatchedAre DEF Inv, UnmatchedBound
<1> QED
  BY <1>1, Invariance, PTL

=============================================================================
