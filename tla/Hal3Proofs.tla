------------------------------ MODULE Hal3Proofs ------------------------------
(***************************************************************************)
(* Proofs about Hal3Requests, for any streams, any worlds and any number of *)
(* requests.                                                                *)
(*                                                                          *)
(* The list of pending requests and the map of the lent buffers are looked  *)
(* at as sets: Elems(pending) and LentBuffers(bufmap).  The lemmas on the   *)
(* two say what each operation of the code does to them; with those, one    *)
(* inductive invariant IInv says where the threads are (ThreadInv), how     *)
(* list, map and camera agree (ListInv) and that the numbers of requests    *)
(* only grow (FreshInv).  It gives TypesHold and BuffersKept.  On top of it *)
(* KindInv gives AnsweredOnceAlways and FlushAnswersAll, DeinitInv gives    *)
(* NothingLeftInDeinit and LiveInv gives LiveCountAlways.                   *)
(***************************************************************************)
EXTENDS Hal3Requests, SequenceTheorems, FiniteSetTheorems, WellFoundedInduction, TLAPS

-----------------------------------------------------------------------------
(* What Without returns.  The library's induction rules take the formula   *)
(* to prove as an operator; here induction is over a set of numbers, which *)
(* needs only that a non-empty one has a least element.                    *)

\* Induction: a set with 0 and, with every number, the next one has all numbers.
LEMMA SetInduction ==
  ASSUME NEW S, 0 \in S, \A n \in Nat : n \in S => n + 1 \in S
  PROVE  Nat \subseteq S
<1> DEFINE R == {ss \in Nat \X Nat : ss[1] < ss[2]}
           T == Nat \ S
<1>1. IsWellFoundedOn(R, Nat)
  <2>1. OpToRel(<, Nat) = R
    BY DEF OpToRel
  <2> QED
    BY <2>1, NatLessThanWellFounded
<1>2. SUFFICES ASSUME T # {} PROVE FALSE
  OBVIOUS
<1> HIDE DEF R
<1>3. PICK x \in T : \A y \in T : <<y, x>> \notin R
  BY <1>1, <1>2, WFMin
<1>4. x \in Nat /\ x # 0 /\ x - 1 \in Nat
  BY <1>3
<1>5. <<x - 1, x>> \in R
  BY <1>4 DEF R
<1>6. x - 1 \in S
  BY <1>3, <1>4, <1>5
<1> QED
  BY <1>3, <1>4, <1>6

\* The recursion of Without: f is the function it defines, up to n.
Keeps(f, s, S, n) ==
  f = [m \in 0 .. n |->
         IF m = 0 THEN << >>
         ELSE IF s[m] \in S THEN f[m - 1] ELSE Append(f[m - 1], s[m])]

\* There is such a function.
LEMMA KeptExists ==
  ASSUME NEW s, NEW S, NEW n \in Nat
  PROVE  \E f : Keeps(f, s, S, n)
<1> DEFINE G == {k \in Nat : \E f : Keeps(f, s, S, k)}
<1>1. 0 \in G
  <2>1. Keeps([m \in 0 .. 0 |-> << >>], s, S, 0)
    BY DEF Keeps
  <2> QED
    BY <2>1
<1>2. ASSUME NEW k \in Nat, k \in G PROVE k + 1 \in G
  <2>1. PICK f : Keeps(f, s, S, k)
    BY <1>2
  <2> DEFINE last == IF s[k + 1] \in S THEN f[k] ELSE Append(f[k], s[k + 1])
             g == [m \in 0 .. k + 1 |-> IF m = k + 1 THEN last ELSE f[m]]
  <2>2. g[k + 1] = last /\ \A m \in 0 .. k : g[m] = f[m]
    OBVIOUS
  <2>3. ASSUME NEW m \in 0 .. k + 1
        PROVE  g[m] = IF m = 0 THEN << >>
                      ELSE IF s[m] \in S THEN g[m - 1] ELSE Append(g[m - 1], s[m])
    <3> HIDE DEF g
    <3>1. CASE m = k + 1
      <4>1. m # 0 /\ m - 1 = k /\ g[k] = f[k]
        BY <3>1, <2>2
      <4> QED
        BY <3>1, <4>1, <2>2
    <3>2. CASE m = 0
      BY <3>2, <2>1, <2>2 DEF Keeps
    <3>3. CASE m \in 1 .. k
      <4>1. m \in 0 .. k /\ m - 1 \in 0 .. k /\ m # 0
        BY <3>3
      <4> QED
        BY <4>1, <2>1, <2>2 DEF Keeps
    <3> QED
      BY <3>1, <3>2, <3>3
  <2>4. Keeps(g, s, S, k + 1)
    BY <2>3 DEF Keeps
  <2> QED
    BY <2>4
<1>3. Nat \subseteq G
  <2> HIDE DEF G
  <2> QED
    BY <1>1, <1>2, SetInduction
<1> QED
  BY <1>3

\* Without is its last value.
LEMMA WithoutIs ==
  ASSUME NEW s, NEW S, Len(s) \in Nat
  PROVE  \E f : Keeps(f, s, S, Len(s)) /\ Without(s, S) = f[Len(s)]
<1>1. Keeps(CHOOSE f : Keeps(f, s, S, Len(s)), s, S, Len(s))
  BY KeptExists
<1>2. Without(s, S) = (CHOOSE f : Keeps(f, s, S, Len(s)))[Len(s)]
  BY DEF Without, Keeps
<1> QED
  BY <1>1, <1>2

\* t is a choice of s: the elements at positions e, in their order, which are
\* those of the first n that are not in S.
Chosen(t, s, S, n, e) ==
  /\ e \in [1 .. Len(t) -> 1 .. n]
  /\ \A k \in 1 .. Len(t) : t[k] = s[e[k]] /\ s[e[k]] \notin S
  /\ \A k, l \in 1 .. Len(t) : k < l => e[k] < e[l]
  /\ \A i \in 1 .. n : s[i] \notin S => \E k \in 1 .. Len(t) : e[k] = i

\* Without(s, S) is a list of elements of s at rising positions, all those not in S.
LEMMA WithoutChooses ==
  ASSUME NEW T, NEW s \in Seq(T), NEW S
  PROVE  /\ Without(s, S) \in Seq(T)
         /\ \E e : Chosen(Without(s, S), s, S, Len(s), e)
<1>1. Len(s) \in Nat
  OBVIOUS
<1>2. PICK f : Keeps(f, s, S, Len(s)) /\ Without(s, S) = f[Len(s)]
  BY <1>1, WithoutIs
<1> DEFINE Good(n) == f[n] \in Seq(T) /\ \E e : Chosen(f[n], s, S, n, e)
           G == {n \in Nat : n <= Len(s) => Good(n)}
<1>3. 0 \in G
  <2>1. f[0] = << >>
    BY <1>1, <1>2 DEF Keeps
  <2>2. Chosen(f[0], s, S, 0, << >>)
    BY <2>1 DEF Chosen
  <2>3. f[0] \in Seq(T)
    BY <2>1
  <2>4. Good(0)
    BY <2>2, <2>3
  <2> QED
    BY <2>4
<1>4. ASSUME NEW n \in Nat, n \in G PROVE n + 1 \in G
  <2> SUFFICES ASSUME n + 1 <= Len(s) PROVE Good(n + 1)
    OBVIOUS
  <2>1. n <= Len(s) /\ n + 1 \in 1 .. Len(s) /\ s[n + 1] \in T
    BY <1>1
  <2>2. f[n] \in Seq(T) /\ \E e : Chosen(f[n], s, S, n, e)
    BY <1>4, <2>1
  <2>3. PICK e : Chosen(f[n], s, S, n, e)
    BY <2>2
  <2>4. f[n + 1] = IF s[n + 1] \in S THEN f[n] ELSE Append(f[n], s[n + 1])
    <3>1. n + 1 \in 0 .. Len(s) /\ n + 1 # 0 /\ (n + 1) - 1 = n
      BY <2>1
    <3> QED
      BY <3>1, <1>2 DEF Keeps
  <2> HIDE DEF G
  <2>5. CASE s[n + 1] \in S
    <3>1. Chosen(f[n], s, S, n + 1, e)
      BY <2>3, <2>5 DEF Chosen
    <3> QED
      BY <3>1, <2>2, <2>4, <2>5
  <2>6. CASE s[n + 1] \notin S
    <3> DEFINE t == f[n]
               u == Append(t, s[n + 1])
               d == [k \in 1 .. Len(t) + 1 |-> IF k = Len(t) + 1 THEN n + 1 ELSE e[k]]
    <3>1. /\ Len(t) \in Nat /\ u \in Seq(T) /\ Len(u) = Len(t) + 1
          /\ \A k \in 1 .. Len(t) : u[k] = t[k]
          /\ u[Len(t) + 1] = s[n + 1]
      BY <2>1, <2>2, AppendProperties
    <3> HIDE DEF t, u
    <3>2. /\ e \in [1 .. Len(t) -> 1 .. n]
          /\ \A k \in 1 .. Len(t) : t[k] = s[e[k]] /\ s[e[k]] \notin S
          /\ \A k, l \in 1 .. Len(t) : k < l => e[k] < e[l]
          /\ \A i \in 1 .. n : s[i] \notin S => \E k \in 1 .. Len(t) : e[k] = i
      BY <2>3 DEF Chosen, t
    <3>3. d[Len(t) + 1] = n + 1 /\ \A k \in 1 .. Len(t) : d[k] = e[k]
      BY <3>1
    <3>4. d \in [1 .. Len(u) -> 1 .. n + 1]
      BY <3>1, <3>2
    <3> HIDE DEF d
    <3>5. \A k \in 1 .. Len(u) : u[k] = s[d[k]] /\ s[d[k]] \notin S
      BY <3>1, <3>2, <3>3, <2>6
    <3>6. ASSUME NEW k \in 1 .. Len(u), NEW l \in 1 .. Len(u), k < l
          PROVE  d[k] < d[l]
      <4>1. k \in 1 .. Len(t) /\ d[k] = e[k] /\ e[k] \in 1 .. n
        <5>1. k \in 1 .. Len(t)
          BY <3>1, <3>6
        <5>2. d[k] = e[k]
          BY <3>3, <5>1
        <5>3. e[k] \in 1 .. n
          BY <3>2, <5>1
        <5> QED
          BY <5>1, <5>2, <5>3
      <4>2. CASE l = Len(t) + 1
        BY <4>1, <4>2, <3>3
      <4>3. CASE l \in 1 .. Len(t)
        BY <4>1, <4>3, <3>2, <3>3, <3>6
      <4> QED
        BY <4>2, <4>3, <3>1
    <3>7. ASSUME NEW i \in 1 .. n + 1, s[i] \notin S
          PROVE  \E k \in 1 .. Len(u) : d[k] = i
      <4>1. CASE i = n + 1
        <5>1. Len(t) + 1 \in 1 .. Len(u)
          BY <3>1
        <5> QED
          BY <4>1, <5>1, <3>3
      <4>2. CASE i \in 1 .. n
        <5>1. PICK k \in 1 .. Len(t) : e[k] = i
          BY <4>2, <3>2, <3>7
        <5>2. k \in 1 .. Len(u) /\ d[k] = i
          BY <5>1, <3>1, <3>3
        <5> QED
          BY <5>2
      <4> QED
        BY <4>1, <4>2
    <3>8. Chosen(u, s, S, n + 1, d)
      BY <3>4, <3>5, <3>6, <3>7 DEF Chosen
    <3>9. f[n + 1] = u
      BY <2>4, <2>6 DEF u, t
    <3> QED
      BY <3>1, <3>8, <3>9
  <2> QED
    BY <2>5, <2>6
<1>5. Nat \subseteq G
  <2> HIDE DEF G
  <2> QED
    BY <1>3, <1>4, SetInduction
<1> QED
  BY <1>1, <1>2, <1>5

\* The elements of Without(s, S) are those of s that are not in S.
LEMMA WithoutElements ==
  ASSUME NEW T, NEW s \in Seq(T), NEW S, NEW t, t = Without(s, S)
  PROVE  /\ t \in Seq(T)
         /\ \A k \in 1 .. Len(t) : t[k] \notin S /\ \E i \in 1 .. Len(s) : t[k] = s[i]
         /\ \A i \in 1 .. Len(s) : s[i] \notin S => \E k \in 1 .. Len(t) : t[k] = s[i]
<1>1. t \in Seq(T)
  BY WithoutChooses
<1>2. PICK e : Chosen(t, s, S, Len(s), e)
  BY WithoutChooses
<1>3. /\ \A k \in 1 .. Len(t) : e[k] \in 1 .. Len(s) /\ t[k] = s[e[k]] /\ s[e[k]] \notin S
      /\ \A k, l \in 1 .. Len(t) : k < l => e[k] < e[l]
      /\ \A i \in 1 .. Len(s) : s[i] \notin S => \E k \in 1 .. Len(t) : e[k] = i
  BY <1>2 DEF Chosen
<1>4. \A i \in 1 .. Len(s) : s[i] \notin S => \E k \in 1 .. Len(t) : t[k] = s[i]
  BY <1>3
<1> QED
  BY <1>1, <1>3, <1>4

\* They keep their order, so no element comes in twice.
LEMMA WithoutOrdered ==
  ASSUME NEW T, NEW s \in Seq(T), NEW S, NEW t, t = Without(s, S)
  PROVE  \A k, l \in 1 .. Len(t) : k < l =>
           \E i, j \in 1 .. Len(s) : i < j /\ t[k] = s[i] /\ t[l] = s[j]
<1>1. PICK e : Chosen(t, s, S, Len(s), e)
  BY WithoutChooses
<1> SUFFICES ASSUME NEW k \in 1 .. Len(t), NEW l \in 1 .. Len(t), k < l
             PROVE  \E i, j \in 1 .. Len(s) : i < j /\ t[k] = s[i] /\ t[l] = s[j]
  OBVIOUS
<1>2. /\ e[k] \in 1 .. Len(s) /\ t[k] = s[e[k]]
      /\ e[l] \in 1 .. Len(s) /\ t[l] = s[e[l]]
      /\ e[k] < e[l]
  BY <1>1 DEF Chosen
<1> QED
  BY <1>2

Elems(s) == {s[i] : i \in DOMAIN s}

\* The list of requests is in the order of their frames.
Sorted(ps) == \A i, j \in DOMAIN ps : i < j => ps[i].frame < ps[j].frame

-----------------------------------------------------------------------------
(* The list.                                                               *)

LEMMA PendingFacts ==
  \A p \in Pending : /\ p.frame \in Frame /\ p.frame \in Nat /\ p.cached \subseteq Streams
                     /\ p.input \in BOOLEAN
  BY Hal3Assumption DEF Pending, Frame

\* In a sorted list each frame is once.
LEMMA SortedFrames ==
  ASSUME NEW ps \in Seq(Pending), Sorted(ps)
  PROVE  \A p, q \in Elems(ps) : p.frame = q.frame => p = q
<1> SUFFICES ASSUME NEW i \in DOMAIN ps, NEW j \in DOMAIN ps, ps[i].frame = ps[j].frame
             PROVE  i = j
  BY DEF Elems
<1>1. i \in 1 .. Len(ps) /\ j \in 1 .. Len(ps) /\ ps[i].frame \in Nat /\ ps[j].frame \in Nat
  BY PendingFacts
<1>2. ~(i < j) /\ ~(j < i)
  BY <1>1 DEF Sorted
<1> QED
  BY <1>1, <1>2

LEMMA ElemsType ==
  ASSUME NEW ps \in Seq(Pending)
  PROVE  Elems(ps) \subseteq Pending
  BY DEF Elems

LEMMA AppendIs ==
  ASSUME NEW ps \in Seq(Pending), Sorted(ps), NEW x \in Pending,
         \A p \in Elems(ps) : p.frame < x.frame
  PROVE  /\ Append(ps, x) \in Seq(Pending) /\ Sorted(Append(ps, x))
         /\ Elems(Append(ps, x)) = Elems(ps) \cup {x}
<1>1. PICK t : t = Append(ps, x)
  OBVIOUS
<1>2. /\ t \in Seq(Pending) /\ Len(t) = Len(ps) + 1 /\ DOMAIN t = 1 .. Len(ps) + 1
      /\ DOMAIN ps = 1 .. Len(ps)
      /\ \A i \in 1 .. Len(ps) : t[i] = ps[i]
      /\ t[Len(ps) + 1] = x
  BY <1>1
<1>3. Elems(t) = Elems(ps) \cup {x}
  BY <1>2 DEF Elems
<1>4. Sorted(t)
  <2> SUFFICES ASSUME NEW i \in 1 .. Len(ps) + 1, NEW j \in 1 .. Len(ps) + 1, i < j
               PROVE  t[i].frame < t[j].frame
    BY <1>2 DEF Sorted
  <2>1. CASE j \in 1 .. Len(ps)
    BY <1>2, <2>1 DEF Sorted
  <2>2. CASE j = Len(ps) + 1
    BY <1>2, <2>2 DEF Elems
  <2> QED
    BY <2>1, <2>2
<1> QED
  BY <1>1, <1>2, <1>3, <1>4

LEMMA WithoutPending ==
  ASSUME NEW ps \in Seq(Pending), Sorted(ps), NEW S
  PROVE  LET t == Without(ps, S) IN
         t \in Seq(Pending) /\ Sorted(t) /\ Elems(t) = Elems(ps) \ S
<1>1. PICK t : t = Without(ps, S)
  OBVIOUS
<1>2. /\ t \in Seq(Pending)
      /\ \A k \in 1 .. Len(t) : t[k] \notin S /\ \E i \in 1 .. Len(ps) : t[k] = ps[i]
      /\ \A i \in 1 .. Len(ps) : ps[i] \notin S => \E k \in 1 .. Len(t) : t[k] = ps[i]
  BY <1>1, WithoutElements
<1>3. DOMAIN t = 1 .. Len(t) /\ DOMAIN ps = 1 .. Len(ps)
  BY <1>2
<1>4. Elems(t) = Elems(ps) \ S
  BY <1>2, <1>3 DEF Elems
<1>5. ASSUME NEW k \in 1 .. Len(t), NEW l \in 1 .. Len(t), k < l
      PROVE  t[k].frame < t[l].frame
  <2>1. PICK i \in 1 .. Len(ps), j \in 1 .. Len(ps) : i < j /\ t[k] = ps[i] /\ t[l] = ps[j]
    BY <1>1, <1>5, WithoutOrdered
  <2> QED
    BY <1>3, <2>1 DEF Sorted
<1> QED
  BY <1>1, <1>2, <1>3, <1>4, <1>5 DEF Sorted

LEMMA CachedRecord ==
  ASSUME NEW p \in Pending, NEW s \in Streams
  PROVE  LET x == [p EXCEPT !.cached = @ \cup {s}]
         IN  /\ x \in Pending
             /\ x.frame = p.frame /\ x.input = p.input /\ x.cached = p.cached \cup {s}
  BY DEF Pending

\* One buffer more is cached.
LEMMA CachedIs ==
  ASSUME NEW ps \in Seq(Pending), Sorted(ps), NEW i \in DOMAIN ps,
         NEW x \in Pending, x.frame = ps[i].frame,
         NEW t \in [DOMAIN ps -> Pending],
         \A j \in DOMAIN ps : t[j] = IF j = i THEN x ELSE ps[j]
  PROVE  /\ t \in Seq(Pending) /\ Sorted(t)
         /\ Elems(t) = (Elems(ps) \ {ps[i]}) \cup {x}
<1>1. t \in Seq(Pending) /\ DOMAIN t = DOMAIN ps
  <2>1. DOMAIN ps = 1 .. Len(ps) /\ Len(ps) \in Nat
    OBVIOUS
  <2> QED
    BY ONLY <2>1, t \in [DOMAIN ps -> Pending]
<1>2. Sorted(t)
  BY <1>1 DEF Sorted
<1>3. \A j \in DOMAIN ps : j # i => ps[j] # ps[i]
  <2> SUFFICES ASSUME NEW j \in DOMAIN ps, j # i PROVE ps[j] # ps[i]
    OBVIOUS
  <2>1. i \in 1 .. Len(ps) /\ j \in 1 .. Len(ps) /\ ps[i].frame \in Nat
    BY PendingFacts
  <2>2. i < j \/ j < i
    BY <2>1
  <2> QED
    BY <2>1, <2>2 DEF Sorted
<1>4. Elems(t) = (Elems(ps) \ {ps[i]}) \cup {x}
  BY <1>1, <1>3 DEF Elems
<1> QED
  BY <1>1, <1>2, <1>4

-----------------------------------------------------------------------------
(* The map.                                                                *)

LEMMA LentFacts ==
  ASSUME NEW e \in Lent
  PROVE  e.frame \in Frame /\ e.streams \subseteq Streams /\ e.streams # {}
  BY DEF Lent

LEMMA LentIs ==
  ASSUME NEW m \in Seq(Lent)
  PROVE  /\ LentBuffers(m) \subseteq Frame \X Streams
         /\ \A f, s : <<f, s>> \in LentBuffers(m) <=>
                        \E i \in DOMAIN m : m[i].frame = f /\ s \in m[i].streams
         /\ \A i \in DOMAIN m : m[i].frame \in Frame /\ \E s \in Streams : <<m[i].frame, s>> \in LentBuffers(m)
<1>1. \A i \in DOMAIN m : m[i].frame \in Frame /\ m[i].streams \subseteq Streams /\ m[i].streams # {}
  BY LentFacts
<1>2. \A f, s : <<f, s>> \in LentBuffers(m) <=>
                  \E i \in DOMAIN m : m[i].frame = f /\ s \in m[i].streams
  BY DEF LentBuffers
<1>3. LentBuffers(m) \subseteq Frame \X Streams
  BY <1>1 DEF LentBuffers
<1>4. ASSUME NEW i \in DOMAIN m
      PROVE  \E s \in Streams : <<m[i].frame, s>> \in LentBuffers(m)
  <2>1. PICK s \in Streams : s \in m[i].streams
    BY <1>1
  <2> QED
    BY <1>2, <2>1
<1> QED
  BY <1>1, <1>2, <1>3, <1>4

LEMMA AppendLent ==
  ASSUME NEW m \in Seq(Lent), NEW f \in Frame, NEW S \in (SUBSET Streams) \ {{}}
  PROVE  LET t == Append(m, [frame |-> f, streams |-> S]) IN
         t \in Seq(Lent) /\ LentBuffers(t) = LentBuffers(m) \cup ({f} \X S)
<1>1. PICK x \in Lent : x = [frame |-> f, streams |-> S]
  BY DEF Lent
<1>2. x.frame = f /\ x.streams = S
  BY <1>1
<1>3. PICK t : t = Append(m, x)
  OBVIOUS
<1>4. /\ t \in Seq(Lent) /\ DOMAIN t = 1 .. Len(m) + 1 /\ DOMAIN m = 1 .. Len(m) /\ Len(m) \in Nat
      /\ \A i \in 1 .. Len(m) : t[i] = m[i]
      /\ t[Len(m) + 1] = x
  BY <1>3
<1>5. ASSUME NEW g, NEW s
      PROVE  <<g, s>> \in LentBuffers(t) <=> <<g, s>> \in LentBuffers(m) \/ (g = f /\ s \in S)
  <2>1. <<g, s>> \in LentBuffers(t) <=> \E i \in DOMAIN t : t[i].frame = g /\ s \in t[i].streams
    BY <1>4, LentIs
  <2>2. <<g, s>> \in LentBuffers(m) <=> \E i \in DOMAIN m : m[i].frame = g /\ s \in m[i].streams
    BY LentIs
  <2> QED
    BY ONLY <1>2, <1>4, <2>1, <2>2
<1>6. LentBuffers(t) \subseteq Frame \X Streams /\ LentBuffers(m) \subseteq Frame \X Streams
  BY <1>4, LentIs
<1> QED
  BY <1>1, <1>3, <1>4, <1>5, <1>6

\* What is left of an entry of the map.
Entry == [frame : Frame, streams : SUBSET Streams]
Empty == [frame : Frame, streams : {{}}]

LEMMA EntryFacts ==
  /\ \A x \in Entry : x \notin Empty => x \in Lent
  /\ \A x \in Empty : x.streams = {}
  /\ \A x \in Lent : x \notin Empty
  BY DEF Entry, Empty, Lent

LEMMA LeftRecord ==
  ASSUME NEW e \in Lent, NEW S \in SUBSET e.streams
  PROVE  LET x == [e EXCEPT !.streams = S]
         IN  x \in Entry /\ x.frame = e.frame /\ x.streams = S
  BY DEF Lent, Entry

LEMMA RemoveBufsIs ==
  ASSUME NEW m \in Seq(Lent), NEW B
  PROVE  RemoveBufs(m, B) \in Seq(Lent) /\ LentBuffers(RemoveBufs(m, B)) = LentBuffers(m) \ B
<1> DEFINE Left(e) == {s \in e.streams : <<e.frame, s>> \notin B}
           rest == [i \in DOMAIN m |-> [m[i] EXCEPT !.streams = Left(m[i])]]
<1>1. \A i \in DOMAIN m : m[i] \in Lent /\ Left(m[i]) \subseteq m[i].streams
  OBVIOUS
<1>2. \A i \in DOMAIN m : rest[i] \in Entry /\ rest[i].frame = m[i].frame /\ rest[i].streams = Left(m[i])
  <2> SUFFICES ASSUME NEW i \in DOMAIN m
               PROVE  rest[i] \in Entry /\ rest[i].frame = m[i].frame /\ rest[i].streams = Left(m[i])
    OBVIOUS
  <2>1. PICK e \in Lent : e = m[i]
    BY <1>1
  <2>2. PICK S \in SUBSET e.streams : S = Left(m[i])
    BY <1>1, <2>1
  <2>3. rest[i] = [e EXCEPT !.streams = S]
    BY <2>1, <2>2
  <2> HIDE DEF rest, Left
  <2> QED
    BY <2>1, <2>2, <2>3, LeftRecord
<1>3. PICK r : r = rest
  OBVIOUS
<1>4. /\ r \in Seq(Entry) /\ DOMAIN r = DOMAIN m /\ Len(r) = Len(m)
      /\ \A i \in DOMAIN m : r[i].frame = m[i].frame /\ r[i].streams = Left(m[i])
  <2>1. DOMAIN m = 1 .. Len(m) /\ Len(m) \in Nat
    OBVIOUS
  <2>2. r \in [1 .. Len(m) -> Entry]
    BY <1>2, <1>3, <2>1
  <2>3. r \in Seq(Entry) /\ Len(r) = Len(m) /\ DOMAIN r = DOMAIN m
    BY ONLY <2>1, <2>2
  <2> QED
    BY <1>2, <1>3, <2>3
<1>5. PICK t : t = Without(r, Empty)
  OBVIOUS
<1>6. /\ t \in Seq(Entry)
      /\ \A k \in 1 .. Len(t) : t[k] \notin Empty /\ \E i \in 1 .. Len(r) : t[k] = r[i]
      /\ \A i \in 1 .. Len(r) : r[i] \notin Empty => \E k \in 1 .. Len(t) : t[k] = r[i]
  <2>1. r \in Seq(Entry)
    BY <1>4
  <2> QED
    BY ONLY <1>5, <2>1, WithoutElements
<1>7. RemoveBufs(m, B) = t
  BY <1>3, <1>5 DEF RemoveBufs, Empty
<1> HIDE DEF rest
<1>8. t \in Seq(Lent)
  <2>1. \A k \in 1 .. Len(t) : t[k] \in Entry /\ t[k] \notin Empty
    BY <1>6
  <2>2. \A k \in 1 .. Len(t) : t[k] \in Lent
    BY <2>1, EntryFacts
  <2> QED
    BY <1>6, <2>2
<1>9. DOMAIN t = 1 .. Len(t) /\ DOMAIN r = 1 .. Len(r) /\ DOMAIN m = DOMAIN r
  BY <1>4, <1>6
<1>10. ASSUME NEW g, NEW s
       PROVE  <<g, s>> \in LentBuffers(t) <=> <<g, s>> \in LentBuffers(m) /\ <<g, s>> \notin B
  <2>1. ASSUME NEW k \in 1 .. Len(t), t[k].frame = g, s \in t[k].streams
        PROVE  <<g, s>> \in LentBuffers(m) /\ <<g, s>> \notin B
    <3>1. PICK i \in 1 .. Len(r) : t[k] = r[i]
      BY <1>6
    <3>2. i \in DOMAIN m /\ m[i].frame = g /\ s \in Left(m[i])
      BY <1>4, <1>9, <2>1, <3>1
    <3> QED
      BY <3>2, LentIs
  <2>2. ASSUME NEW i \in DOMAIN m, m[i].frame = g, s \in m[i].streams, <<g, s>> \notin B
        PROVE  <<g, s>> \in LentBuffers(t)
    <3>1. r[i].frame = g /\ s \in r[i].streams /\ i \in 1 .. Len(r)
      BY <1>4, <1>9, <2>2
    <3>2. r[i] \notin Empty
      BY <3>1, EntryFacts
    <3>3. PICK k \in 1 .. Len(t) : t[k] = r[i]
      BY <1>6, <3>1, <3>2
    <3> QED
      BY <1>8, <1>9, <3>1, <3>3, LentIs
  <2> QED
    BY <1>8, <1>9, <2>1, <2>2, LentIs
<1>11. LentBuffers(t) \subseteq Frame \X Streams /\ LentBuffers(m) \subseteq Frame \X Streams
  BY <1>8, LentIs
<1> QED
  BY <1>7, <1>8, <1>10, <1>11

-----------------------------------------------------------------------------
(* The inductive invariant.                                                *)

Places == {"idle", "restart", "restarted", "relock", "wait", "device", "flush", "stop",
           "clear", "deviceFlush", "deviceStop", "deviceClear", "deinit"}

Restarting  == pc["req"] \in {"restart", "restarted", "relock"}
OnDevice(t) == pc[t] \in {"deviceFlush", "deviceStop", "deviceClear", "deinit"}
Clearing(t) == pc[t] \in {"clear", "deviceClear"}

Idle(c) == c.bufs = {} /\ c.metas = {} /\ c.inputs = {}

\* Where the threads are.  From the stop of the channels to the end of a flush or a
\* restart the camera is given nothing: mFlush is set, or no request can come.
ThreadInv ==
  /\ pc["req"] \notin {"flush", "stop", "clear"}
  /\ pc["flu"] \notin {"restart", "restarted", "relock", "wait"}
  /\ call # << >> <=> Restarting
  /\ OnDevice("req") => Failed
  /\ pc["flu"] \in {"stop", "clear", "deviceStop", "deviceClear"} =>
       mFlush \/ (Failed /\ ~Restarting)
  /\ pc["req"] = "restarted" \/ Clearing("req") \/ Clearing("flu") => Idle(camera)

\* The requests on the list are in order, and each has a buffer on the map that did
\* not come yet or is cached; what is in the channels is on the map.
ListInv ==
  /\ Sorted(pending)
  /\ \A p \in Elems(pending) :
       /\ \E s \in Streams : <<p.frame, s>> \in LentBuffers(bufmap)
       /\ \A s \in p.cached : <<p.frame, s>> \in LentBuffers(bufmap) \ camera.bufs
  /\ camera.bufs \subseteq LentBuffers(bufmap)
  /\ LentBuffers(bufmap) \subseteq AskedBuffers
  /\ BuffersAccounted

\* The frames that no list has seen yet.
Fresh(f) == f >= next \/ (call # << >> /\ f = call.frame)

FreshInv ==
  /\ call # << >> => call.frame < next
  /\ \A f \in Frame : Fresh(f) =>
       /\ asked[f] = {} /\ finals[f] = 0 /\ \A s \in Streams : returned[<<f, s>>] = 0
       /\ \A p \in Elems(pending) : p.frame < f
       /\ \A b \in LentBuffers(bufmap) : b[1] < f

IInv == TypeOK /\ ThreadInv /\ ListInv /\ FreshInv

-----------------------------------------------------------------------------
(* What the actions change.                                                *)

LEMMA NoRequest == \A r \in Request : r # << >>
<1> SUFFICES ASSUME NEW r \in Request, r = << >> PROVE FALSE
  OBVIOUS
<1>1. DOMAIN r = {"frame", "input", "streams"}
  BY DEF Request
<1> QED
  BY <1>1

LEMMA RequestFacts ==
  ASSUME NEW r \in Request
  PROVE  /\ r.frame \in Frame /\ r.frame \in Nat /\ r.input \in BOOLEAN
         /\ r.streams \in (SUBSET Streams) \ {{}}
         /\ [frame |-> r.frame, input |-> r.input, cached |-> {}] \in Pending
  BY Hal3Assumption DEF Request, Frame, Pending

LEMMA RequestsAre ==
  ASSUME NEW r \in Requests, world \in Worlds
  PROVE  /\ r \in Request /\ r.frame = next /\ next \in Frame
         /\ world.kinds \subseteq {"live"} => ~r.input
<1>1. /\ r.frame \in {next} \cap Frame /\ r.input \in {k = "reproc" : k \in world.kinds}
      /\ r.streams \in (SUBSET Streams) \ {{}}
      /\ r = [frame |-> r.frame, input |-> r.input, streams |-> r.streams]
  BY DEF Requests
<1>2. PICK k \in world.kinds : r.input <=> k = "reproc"
  BY <1>1
<1>3. r.input \in BOOLEAN
  BY <1>1
<1>4. r \in Request
  BY <1>1, <1>3 DEF Request
<1> QED
  BY <1>1, <1>2, <1>4

LEMMA CameraFacts ==
  ASSUME NEW c \in Camera
  PROVE  /\ c.stopped \in BOOLEAN /\ c.dead \in BOOLEAN /\ c.metas \subseteq Frame
         /\ c.bufs \subseteq Frame \X Streams /\ c.inputs \subseteq Frame
  BY DEF Camera

LEMMA StoppedIs ==
  ASSUME NEW c \in Camera
  PROVE  LET x == Stopped(c) IN
         /\ x \in Camera /\ x.stopped /\ x.dead = c.dead /\ Idle(x)
  BY DEF Camera, Stopped, Idle

LEMMA OpenIs ==
  ASSUME NEW c \in Camera
  PROVE  LET x == [c EXCEPT !.stopped = FALSE] IN
         /\ x \in Camera /\ ~x.stopped /\ x.dead = c.dead
         /\ x.bufs = c.bufs /\ x.metas = c.metas /\ x.inputs = c.inputs
  BY DEF Camera

LEMMA PassIs ==
  ASSUME camera \in Camera, NEW r \in Request, NEW S \in SUBSET r.streams,
         NEW metas \in SUBSET {r.frame}, Pass(r, S, metas)
  PROVE  /\ camera' \in Camera /\ camera'.stopped = camera.stopped /\ camera'.dead = camera.dead
         /\ camera'.bufs = camera.bufs \cup ({r.frame} \X S)
         /\ camera'.metas = camera.metas \cup metas
         /\ camera'.inputs = IF r.input THEN camera.inputs \cup {r.frame} ELSE camera.inputs
<1>1. /\ r.frame \in Frame /\ r.streams \subseteq Streams /\ r.input \in BOOLEAN
  BY RequestFacts
<1>2. PICK b, i, g : /\ b = camera.bufs \cup ({r.frame} \X S)
                     /\ i = IF r.input THEN camera.inputs \cup {r.frame} ELSE camera.inputs
                     /\ g = camera.metas \cup metas
  OBVIOUS
<1>3. camera' = [camera EXCEPT !.bufs = b, !.inputs = i, !.metas = g]
  BY <1>2 DEF Pass
<1>4. b \subseteq Frame \X Streams /\ i \subseteq Frame /\ g \subseteq Frame
  BY <1>1, <1>2, CameraFacts
<1> QED
  BY <1>2, <1>3, <1>4 DEF Camera

\* What a call that gets to the second half of processCaptureRequest() leaves.
LEMMA SubmitIs ==
  ASSUME TypeOK, NEW r \in Request, NEW n \in 0 .. Word - 1, Submit(r, n)
  PROVE  /\ Record(r)
         /\ camera' \in Camera /\ camera'.stopped = camera.stopped /\ camera'.dead = camera.dead
         /\ camera'.bufs \subseteq camera.bufs \cup ({r.frame} \X r.streams)
         /\ mFlush => camera' = camera
         /\ ~r.input => camera'.inputs = camera.inputs
         /\ live' \in 0 .. Word - 1
         /\ mState' \in {mState, "STARTED"}
         /\ pc' \in {[pc EXCEPT !["req"] = "idle"], [pc EXCEPT !["req"] = "wait"]}
         /\ UNCHANGED <<mFlush, signal, flushes, world>>
<1>1. Word \in Nat /\ live \in Nat /\ camera \in Camera /\ Word > 0
  BY Hal3Assumption DEF TypeOK
<1>2. Record(r) /\ UNCHANGED <<mFlush, signal, flushes, world>>
  BY DEF Submit
<1>3. CASE mFlush /\ live' = n /\ Go("req", "idle") /\ UNCHANGED <<mState, camera>>
  BY <1>1, <1>2, <1>3 DEF Go
<1>4. CASE ~mFlush /\ Sent(r, n)
  <2>1. PICK M \in SUBSET {r.frame} : M = IF r.input THEN {} ELSE {r.frame}
    OBVIOUS
  <2>2. Pass(r, r.streams, M)
    BY <1>4, <2>1 DEF Sent
  <2>3. /\ camera' \in Camera /\ camera'.stopped = camera.stopped /\ camera'.dead = camera.dead
        /\ camera'.bufs = camera.bufs \cup ({r.frame} \X r.streams)
        /\ camera'.inputs = IF r.input THEN camera.inputs \cup {r.frame} ELSE camera.inputs
    BY <1>1, <2>2, PassIs
  <2>4. live' \in 0 .. Word - 1
    BY <1>1, <1>4 DEF Sent
  <2>5. /\ mState' = "STARTED"
        /\ pc' \in {[pc EXCEPT !["req"] = "idle"], [pc EXCEPT !["req"] = "wait"]}
    BY <1>4 DEF Sent, Go
  <2> QED
    BY <1>2, <1>4, <2>3, <2>4, <2>5
<1>5. CASE /\ ~mFlush /\ "refuse" \in world.faults
           /\ \E S \in (SUBSET r.streams) \ {r.streams} : Pass(r, S, {})
           /\ live' = n /\ Go("req", "idle") /\ UNCHANGED mState
  <2>1. PICK S \in SUBSET r.streams : Pass(r, S, {})
    BY <1>5
  <2>2. /\ camera' \in Camera /\ camera'.stopped = camera.stopped /\ camera'.dead = camera.dead
        /\ camera'.bufs = camera.bufs \cup ({r.frame} \X S)
        /\ camera'.inputs = IF r.input THEN camera.inputs \cup {r.frame} ELSE camera.inputs
    BY <1>1, <2>1, PassIs
  <2>3. {r.frame} \X S \subseteq {r.frame} \X r.streams
    OBVIOUS
  <2> QED
    BY <1>2, <1>5, <2>2, <2>3 DEF Go
<1> QED
  BY <1>3, <1>4, <1>5 DEF Submit

LEMMA RecordIs ==
  ASSUME IInv, NEW r \in Request, Fresh(r.frame), Record(r)
  PROVE  /\ pending' \in Seq(Pending) /\ bufmap' \in Seq(Lent)
         /\ asked' \in [Frame -> SUBSET Streams]
         /\ \A f \in Frame : asked'[f] = IF f = r.frame THEN r.streams ELSE asked[f]
         /\ finals' = finals /\ returned' = returned
         /\ Sorted(pending')
         /\ \E x \in Pending : /\ x.frame = r.frame /\ x.input = r.input /\ x.cached = {}
                               /\ Elems(pending') = Elems(pending) \cup {x}
         /\ LentBuffers(bufmap') = LentBuffers(bufmap) \cup ({r.frame} \X r.streams)
<1>1. PICK x \in Pending : x = [frame |-> r.frame, input |-> r.input, cached |-> {}]
  BY RequestFacts
<1>2. x.frame = r.frame /\ x.input = r.input /\ x.cached = {}
  BY <1>1
<1>3. pending \in Seq(Pending) /\ bufmap \in Seq(Lent) /\ asked \in [Frame -> SUBSET Streams]
  BY DEF IInv, TypeOK
<1>4. Sorted(pending) /\ \A p \in Elems(pending) : p.frame < x.frame
  BY <1>2, RequestFacts DEF IInv, ListInv, FreshInv
<1>5. pending' = Append(pending, x)
  BY <1>1 DEF Record
<1>6. /\ pending' \in Seq(Pending) /\ Sorted(pending')
      /\ Elems(pending') = Elems(pending) \cup {x}
  BY <1>3, <1>4, <1>5, AppendIs
<1>7. bufmap' = Append(bufmap, [frame |-> r.frame, streams |-> r.streams])
  BY DEF Record
<1>8. /\ bufmap' \in Seq(Lent)
      /\ LentBuffers(bufmap') = LentBuffers(bufmap) \cup ({r.frame} \X r.streams)
  <2>1. PICK g \in Frame, S \in (SUBSET Streams) \ {{}} : g = r.frame /\ S = r.streams
    BY RequestFacts
  <2>2. bufmap' = Append(bufmap, [frame |-> g, streams |-> S])
    BY <1>7, <2>1
  <2> QED
    BY <1>3, <2>1, <2>2, AppendLent
<1>9. /\ asked' \in [Frame -> SUBSET Streams]
      /\ \A f \in Frame : asked'[f] = IF f = r.frame THEN r.streams ELSE asked[f]
      /\ finals' = finals /\ returned' = returned
  BY <1>3, RequestFacts DEF Record
<1> QED
  BY <1>2, <1>6, <1>8, <1>9

LEMMA AnswerIs ==
  ASSUME finals \in [Frame -> Nat], NEW F, Answer(F)
  PROVE  /\ finals' \in [Frame -> Nat]
         /\ \A f \in Frame : finals'[f] = finals[f] + (IF f \in F THEN 1 ELSE 0)
  BY DEF Answer

LEMMA ReturnIs ==
  ASSUME returned \in [Frame \X Streams -> Nat], NEW B, Return(B)
  PROVE  /\ returned' \in [Frame \X Streams -> Nat]
         /\ \A b \in Frame \X Streams : returned'[b] = returned[b] + (IF b \in B THEN 1 ELSE 0)
  BY DEF Return

\* Every pending request has an entry that is not older, so that all of them go.
LEMMA NotifyAllEmpties ==
  ASSUME IInv, NotifyAll
  PROVE  pending' = << >>
<1>1. /\ pending \in Seq(Pending) /\ bufmap \in Seq(Lent) /\ Sorted(pending)
      /\ \A p \in Elems(pending) : \E s \in Streams : <<p.frame, s>> \in LentBuffers(bufmap)
  BY DEF IInv, TypeOK, ListInv
<1>2. PICK n : n = Len(pending)
  OBVIOUS
<1>3. n \in Nat /\ DOMAIN pending = 1 .. n
  BY <1>1, <1>2
<1>4. CASE n = 0
  <2>1. pending = << >>
    <3>1. pending \in Seq(Pending) /\ Len(pending) = 0
      BY <1>1, <1>2, <1>4
    <3> QED
      BY ONLY <3>1
  <2>2. Unanswered = {}
    BY <2>1 DEF Unanswered
  <2>3. Cardinality(Unanswered) = 0
    BY <2>2, FS_EmptySet
  <2> QED
    BY <2>1, <2>3 DEF NotifyAll
<1>5. CASE n > 0
  <2> DEFINE At(i) == CHOOSE j \in DOMAIN bufmap : bufmap[j].frame = pending[i].frame
             fn == [i \in 1 .. n |-> At(i)]
  <2>1. \A i \in 1 .. n : pending[i] \in Pending /\ pending[i].frame \in Nat /\ pending[i] \in Elems(pending)
    BY <1>1, <1>3, PendingFacts DEF Elems
  <2>2. ASSUME NEW i \in 1 .. n
        PROVE  At(i) \in DOMAIN bufmap /\ bufmap[At(i)].frame = pending[i].frame
    <3>1. \E j \in DOMAIN bufmap : bufmap[j].frame = pending[i].frame
      <4>1. PICK s \in Streams : <<pending[i].frame, s>> \in LentBuffers(bufmap)
        BY <1>1, <2>1
      <4> QED
        BY <1>1, <4>1, LentIs
    <3> QED
      BY <3>1
  <2>3. pending # << >> /\ 1 \in 1 .. n
    BY <1>2, <1>3, <1>5
  <2>4. \A i \in 1 .. n : At(i) \in Unanswered
    <3> SUFFICES ASSUME NEW i \in 1 .. n PROVE At(i) \in Unanswered
      OBVIOUS
    <3>1. i = 1 \/ pending[1].frame < pending[i].frame
      BY <1>1, <1>3, <2>3 DEF Sorted
    <3>2. pending[i].frame >= pending[1].frame
      BY <2>1, <2>3, <3>1
    <3> HIDE DEF At
    <3> QED
      BY <2>2, <2>3, <3>2 DEF Unanswered, NotOlder
  <2>5. \A i, k \in 1 .. n : At(i) = At(k) => i = k
    <3> SUFFICES ASSUME NEW i \in 1 .. n, NEW k \in 1 .. n, At(i) = At(k) PROVE i = k
      OBVIOUS
    <3>1. pending[i].frame = pending[k].frame
      BY <2>2
    <3>2. ~(i < k) /\ ~(k < i)
      BY <1>1, <1>3, <2>1, <3>1 DEF Sorted
    <3> QED
      BY <3>2
  <2> HIDE DEF At
  <2>6. fn \in Injection(1 .. n, Unanswered)
    BY <2>4, <2>5 DEF Injection, IsInjective
  <2>7. IsFiniteSet(Unanswered) /\ Cardinality(Unanswered) \in Nat
    <3>1. Unanswered \subseteq 1 .. Len(bufmap) /\ Len(bufmap) \in Nat
      BY <1>1 DEF Unanswered, NotOlder
    <3>2. IsFiniteSet(1 .. Len(bufmap))
      BY <3>1, FS_Interval
    <3> QED
      BY <3>1, <3>2, FS_Subset, FS_CardinalityType
  <2>8. Cardinality(1 .. n) <= Cardinality(Unanswered) /\ Cardinality(1 .. n) = n
    <3>1. Cardinality(1 .. n) = n
      BY <1>3, FS_Interval
    <3>2. Cardinality(1 .. n) <= Cardinality(Unanswered)
      BY <2>6, <2>7, FS_Injection DEF ExistsInjection
    <3> QED
      BY <3>1, <3>2
  <2>9. PICK c \in Nat : c = Cardinality(Unanswered)
    BY <2>7
  <2>10. pending' = SubSeq(pending, c + 1, n) /\ c >= n
    BY <1>2, <2>8, <2>9 DEF NotifyAll
  <2> QED
    BY <1>1, <1>2, <1>3, <2>10
<1> QED
  BY <1>3, <1>4, <1>5

LEMMA NotifyAllIs ==
  ASSUME IInv, NotifyAll
  PROVE  /\ pending' = << >> /\ bufmap' = << >>
         /\ Elems(pending') = {} /\ LentBuffers(bufmap') = {} /\ Sorted(pending')
         /\ pending' \in Seq(Pending) /\ bufmap' \in Seq(Lent)
         /\ finals' \in [Frame -> Nat] /\ returned' \in [Frame \X Streams -> Nat]
         /\ \A b \in Frame \X Streams :
              returned'[b] = returned[b] + (IF b \in LentBuffers(bufmap) THEN 1 ELSE 0)
         /\ \A f \in Frame :
              finals'[f] = finals[f] + (IF \E i \in Unanswered : bufmap[i].frame = f THEN 1 ELSE 0)
<1>1. pending' = << >> /\ bufmap' = << >>
  BY NotifyAllEmpties DEF NotifyAll
<1>2. Elems(pending') = {} /\ LentBuffers(bufmap') = {} /\ Sorted(pending')
  BY <1>1 DEF Elems, LentBuffers, Sorted
<1>3. finals \in [Frame -> Nat] /\ returned \in [Frame \X Streams -> Nat]
  BY DEF IInv, TypeOK
<1>4. /\ returned' \in [Frame \X Streams -> Nat]
      /\ \A b \in Frame \X Streams :
           returned'[b] = returned[b] + (IF b \in LentBuffers(bufmap) THEN 1 ELSE 0)
  BY <1>3, ReturnIs DEF NotifyAll
<1>5. PICK F : F = {bufmap[i].frame : i \in Unanswered}
  OBVIOUS
<1>6. Answer(F)
  BY <1>5 DEF NotifyAll
<1>7. /\ finals' \in [Frame -> Nat]
      /\ \A f \in Frame : finals'[f] = finals[f] + (IF f \in F THEN 1 ELSE 0)
  BY <1>3, <1>6, AnswerIs
<1>8. \A f : f \in F <=> \E i \in Unanswered : bufmap[i].frame = f
  BY <1>5
<1> QED
  BY <1>1, <1>2, <1>4, <1>7, <1>8

\* The entries of the list that a condition picks, as positions and as elements.
LEMMA FindIs ==
  ASSUME pending \in Seq(Pending), NEW f
  PROVE  /\ {pending[i] : i \in Find(f)} = {p \in Elems(pending) : p.frame = f}
         /\ \A g : g \in {pending[i].frame : i \in Find(f)} <=>
                     g = f /\ \E p \in Elems(pending) : p.frame = f
         /\ \A i \in Find(f) : pending[i] \in Elems(pending) /\ pending[i].frame = f
         /\ \A p \in Elems(pending) : p.frame = f => \E i \in Find(f) : p = pending[i]
  BY DEF Find, Elems

\* The positions of the live requests up to a frame, as in Metadata.
Answered(f) == {i \in DOMAIN pending : pending[i].frame <= f /\ ~pending[i].input}
Done(f)     == {p \in Elems(pending) : p.frame <= f /\ ~p.input}
DoneBufs(f) == {b \in Frame \X Streams : \E p \in Done(f) : b[1] = p.frame /\ b[2] \in p.cached}

LEMMA MetadataIs ==
  ASSUME IInv, NEW f \in Frame, Metadata(f)
  PROVE  /\ pending' \in Seq(Pending) /\ bufmap' \in Seq(Lent)
         /\ Sorted(pending') /\ Elems(pending') = Elems(pending) \ Done(f)
         /\ LentBuffers(bufmap') = LentBuffers(bufmap) \ DoneBufs(f)
         /\ finals' \in [Frame -> Nat] /\ returned' \in [Frame \X Streams -> Nat]
         /\ \A b \in Frame \X Streams :
              returned'[b] = returned[b] + (IF b \in DoneBufs(f) THEN 1 ELSE 0)
         /\ \A g \in Frame :
              finals'[g] = finals[g] + (IF \E p \in Done(f) : p.frame = g THEN 1 ELSE 0)
         /\ live' = (live - Cardinality(Answered(f))) % Word
         /\ IsFiniteSet(Answered(f)) /\ live' \in 0 .. Word - 1
<1>1. /\ pending \in Seq(Pending) /\ Sorted(pending) /\ bufmap \in Seq(Lent)
      /\ finals \in [Frame -> Nat] /\ returned \in [Frame \X Streams -> Nat]
      /\ live \in Nat /\ world \in Worlds
  BY Hal3Assumption DEF IInv, TypeOK, ListInv
<1>2. PICK A : A = Answered(f)
  OBVIOUS
<1>3. PICK B : B = UNION {{pending[i].frame} \X pending[i].cached : i \in A}
  OBVIOUS
<1>4. /\ pending' = Without(pending, {pending[i] : i \in A})
      /\ bufmap' = RemoveBufs(bufmap, B)
      /\ live' = (live - Cardinality(A)) % Word
      /\ Answer({pending[i].frame : i \in A})
      /\ Return(B)
  BY <1>2, <1>3 DEF Metadata, Answered
<1>5. {pending[i] : i \in A} = Done(f)
  BY <1>2 DEF Done, Answered, Elems
<1>6. \A g : g \in {pending[i].frame : i \in A} <=> \E p \in Done(f) : p.frame = g
  BY <1>2 DEF Done, Answered, Elems
<1>7. B = DoneBufs(f)
  <2>1. \A p \in Done(f) : p.frame \in Frame /\ p.cached \subseteq Streams
    BY <1>1, ElemsType, PendingFacts DEF Done
  <2>2. \A i \in A : pending[i] \in Done(f)
    BY <1>5
  <2>3. \A p \in Done(f) : \E i \in A : p = pending[i]
    BY <1>5
  <2>4. B \subseteq DoneBufs(f)
    <3> SUFFICES ASSUME NEW i \in A, NEW s \in pending[i].cached
                 PROVE  <<pending[i].frame, s>> \in DoneBufs(f)
      BY <1>3
    <3> QED
      BY <2>1, <2>2 DEF DoneBufs
  <2>5. DoneBufs(f) \subseteq B
    <3> SUFFICES ASSUME NEW b \in DoneBufs(f) PROVE b \in B
      OBVIOUS
    <3>1. PICK p \in Done(f) : b[1] = p.frame /\ b[2] \in p.cached
      BY DEF DoneBufs
    <3>2. PICK i \in A : p = pending[i]
      BY <2>3
    <3>3. b = <<b[1], b[2]>>
      BY DEF DoneBufs
    <3>4. b \in {pending[i].frame} \X pending[i].cached
      BY <3>1, <3>2, <3>3
    <3> QED
      BY <1>3, <3>4
  <2> QED
    BY <2>4, <2>5
<1>8. /\ pending' \in Seq(Pending) /\ Sorted(pending')
      /\ Elems(pending') = Elems(pending) \ Done(f)
  BY <1>1, <1>4, <1>5, WithoutPending
<1>9. bufmap' \in Seq(Lent) /\ LentBuffers(bufmap') = LentBuffers(bufmap) \ DoneBufs(f)
  BY <1>1, <1>4, <1>7, RemoveBufsIs
<1>10. /\ returned' \in [Frame \X Streams -> Nat]
       /\ \A b \in Frame \X Streams :
            returned'[b] = returned[b] + (IF b \in DoneBufs(f) THEN 1 ELSE 0)
  BY <1>1, <1>4, <1>7, ReturnIs
<1>11. PICK F : F = {pending[i].frame : i \in A}
  OBVIOUS
<1>12. /\ finals' \in [Frame -> Nat]
       /\ \A g \in Frame : finals'[g] = finals[g] + (IF g \in F THEN 1 ELSE 0)
  BY <1>1, <1>4, <1>11, AnswerIs
<1>13. \A g \in Frame :
         finals'[g] = finals[g] + (IF \E p \in Done(f) : p.frame = g THEN 1 ELSE 0)
  BY <1>6, <1>11, <1>12
<1>14. IsFiniteSet(A)
  <2>1. A \subseteq 1 .. Len(pending) /\ Len(pending) \in Nat
    BY <1>1, <1>2 DEF Answered
  <2>2. IsFiniteSet(1 .. Len(pending))
    BY <2>1, FS_Interval
  <2> QED
    BY <2>1, <2>2, FS_Subset
<1>15. live' \in 0 .. Word - 1
  <2>1. PICK c \in Nat : c = Cardinality(A)
    BY <1>14, FS_CardinalityType
  <2>2. Word \in Nat /\ Word > 0
    BY <1>1, Hal3Assumption
  <2>3. live' = (live - c) % Word /\ live - c \in Int
    BY <1>1, <1>4, <2>1
  <2> QED
    BY <2>2, <2>3
<1> QED
  BY <1>2, <1>4, <1>8, <1>9, <1>10, <1>12, <1>13, <1>14, <1>15

\* The metadata is gone from the camera.
LEMMA MetasIs ==
  ASSUME NEW c \in Camera, NEW f \in Frame
  PROVE  LET x == [c EXCEPT !.metas = {g \in @ : g > f}] IN
         /\ x \in Camera /\ x.stopped = c.stopped /\ x.dead = c.dead
         /\ x.bufs = c.bufs /\ x.metas = {g \in c.metas : g > f} /\ x.inputs = c.inputs
  BY DEF Camera

LEMMA InputsIs ==
  ASSUME NEW c \in Camera, NEW f \in Frame
  PROVE  LET x == [c EXCEPT !.inputs = @ \ {f}] IN
         /\ x \in Camera /\ x.stopped = c.stopped /\ x.dead = c.dead
         /\ x.bufs = c.bufs /\ x.metas = c.metas /\ x.inputs = c.inputs \ {f}
  BY DEF Camera

LEMMA DeadIs ==
  ASSUME NEW c \in Camera
  PROVE  LET x == [c EXCEPT !.dead = TRUE] IN
         /\ x \in Camera /\ x.stopped = c.stopped /\ x.dead
         /\ x.bufs = c.bufs /\ x.metas = c.metas /\ x.inputs = c.inputs
  BY DEF Camera

\* The two things that become of a buffer: it waits for its metadata, or it goes.
BufferCached(f, s) ==
  /\ pending' \in Seq(Pending) /\ Sorted(pending')
  /\ \E p \in Elems(pending), x \in Pending :
       /\ p.frame = f /\ ~p.input
       /\ x.frame = f /\ x.input = p.input /\ x.cached = p.cached \cup {s}
       /\ Elems(pending') = (Elems(pending) \ {p}) \cup {x}
  /\ UNCHANGED <<bufmap, finals, returned>>

BufferDone(f, s) ==
  /\ \A p \in Elems(pending) : p.frame = f => p.input
  /\ pending' \in Seq(Pending) /\ bufmap' \in Seq(Lent) /\ Sorted(pending')
  /\ Elems(pending') = Elems(pending) \ {p \in Elems(pending) : p.frame = f}
  /\ LentBuffers(bufmap') = LentBuffers(bufmap) \ {<<f, s>>}
  /\ finals' \in [Frame -> Nat] /\ returned' \in [Frame \X Streams -> Nat]
  /\ \A b \in Frame \X Streams :
       returned'[b] = returned[b] + (IF b = <<f, s>> THEN 1 ELSE 0)
  /\ \A g \in Frame :
       finals'[g] = finals[g]
                  + (IF g = f /\ (\E p \in Elems(pending) : p.frame = f) THEN 1 ELSE 0)

LEMMA BufferIs ==
  ASSUME IInv, NEW f \in Frame, NEW s \in Streams, HandleBuffer(f, s)
  PROVE  /\ camera' \in Camera /\ camera'.stopped = camera.stopped /\ camera'.dead = camera.dead
         /\ camera'.bufs = camera.bufs \ {<<f, s>>} /\ camera'.metas = camera.metas
         /\ camera'.inputs = camera.inputs \ {f}
         /\ <<f, s>> \in camera.bufs
         /\ UNCHANGED lists \/ BufferCached(f, s) \/ BufferDone(f, s)
<1>1. /\ pending \in Seq(Pending) /\ Sorted(pending) /\ bufmap \in Seq(Lent)
      /\ finals \in [Frame -> Nat] /\ returned \in [Frame \X Streams -> Nat]
      /\ camera \in Camera
  BY DEF IInv, TypeOK, ListInv
<1>2. /\ camera' = [camera EXCEPT !.bufs = @ \ {<<f, s>>}, !.inputs = @ \ {f}]
      /\ <<f, s>> \in camera.bufs
  BY DEF HandleBuffer
<1>3. /\ camera' \in Camera /\ camera'.stopped = camera.stopped /\ camera'.dead = camera.dead
      /\ camera'.bufs = camera.bufs \ {<<f, s>>} /\ camera'.metas = camera.metas
      /\ camera'.inputs = camera.inputs \ {f}
  <2>1. PICK b, g : b = camera.bufs \ {<<f, s>>} /\ g = camera.inputs \ {f}
    OBVIOUS
  <2>2. camera' = [camera EXCEPT !.bufs = b, !.inputs = g]
    BY <1>2, <2>1
  <2> QED
    BY <1>1, <2>1, <2>2 DEF Camera
<1>4. CASE Failed /\ UNCHANGED lists
  BY <1>2, <1>3, <1>4
<1>5. CASE /\ \E i \in Find(f) :
                /\ ~pending[i].input
                /\ pending' = [pending EXCEPT ![i].cached = @ \cup {s}]
           /\ UNCHANGED <<bufmap, finals, returned>>
  <2>1. PICK i \in Find(f) : /\ ~pending[i].input
                             /\ pending' = [pending EXCEPT ![i].cached = @ \cup {s}]
    BY <1>5
  <2>2. i \in DOMAIN pending /\ pending[i].frame = f /\ pending[i] \in Elems(pending)
    BY DEF Find, Elems
  <2>3. PICK x : x = [pending[i] EXCEPT !.cached = @ \cup {s}]
    OBVIOUS
  <2>4. /\ pending' \in Seq(Pending) /\ Sorted(pending') /\ x \in Pending
        /\ x.frame = pending[i].frame /\ x.input = pending[i].input
        /\ x.cached = pending[i].cached \cup {s}
        /\ Elems(pending') = (Elems(pending) \ {pending[i]}) \cup {x}
    <3>1. PICK p \in Pending : p = pending[i]
      BY <1>1, <2>2, ElemsType
    <3>2. x = [p EXCEPT !.cached = @ \cup {s}]
      BY <2>3, <3>1
    <3>3. x \in Pending /\ x.frame = p.frame /\ x.input = p.input /\ x.cached = p.cached \cup {s}
      BY <3>2, CachedRecord
    <3>4. /\ pending' \in [DOMAIN pending -> Pending]
          /\ \A j \in DOMAIN pending : pending'[j] = IF j = i THEN x ELSE pending[j]
      <4>1. pending' = [pending EXCEPT ![i] = x]
        BY <2>1, <2>3
      <4>2. pending \in [DOMAIN pending -> Pending]
        BY <1>1
      <4> QED
        BY <2>2, <3>3, <4>1, <4>2
    <3>5. PICK t \in [DOMAIN pending -> Pending] : t = pending'
      BY <3>4
    <3>6. /\ pending \in Seq(Pending) /\ Sorted(pending) /\ i \in DOMAIN pending
          /\ x \in Pending /\ x.frame = pending[i].frame
          /\ \A j \in DOMAIN pending : t[j] = IF j = i THEN x ELSE pending[j]
      BY <1>1, <2>2, <3>1, <3>3, <3>4, <3>5
    <3>7. /\ t \in Seq(Pending) /\ Sorted(t)
          /\ Elems(t) = (Elems(pending) \ {pending[i]}) \cup {x}
      BY ONLY <3>6, t \in [DOMAIN pending -> Pending], CachedIs
    <3> QED
      BY <3>1, <3>3, <3>5, <3>7
  <2>5. PICK p \in Elems(pending) : p = pending[i]
    BY <2>2
  <2>6. /\ p.frame = f /\ ~p.input /\ x.frame = f /\ x.input = p.input
        /\ x.cached = p.cached \cup {s}
        /\ Elems(pending') = (Elems(pending) \ {p}) \cup {x}
    BY <2>1, <2>2, <2>4, <2>5
  <2> QED
    BY <1>2, <1>3, <1>5, <2>4, <2>6 DEF BufferCached
<1>6. CASE /\ \A k \in Find(f) : pending[k].input
           /\ pending' = Without(pending, {pending[i] : i \in Find(f)})
           /\ bufmap' = RemoveBufs(bufmap, {<<f, s>>})
           /\ Answer({pending[i].frame : i \in Find(f)})
           /\ Return({<<f, s>>})
  <2>1. \A p \in Elems(pending) : p.frame = f => p.input
    BY <1>6 DEF Find, Elems
  <2>2. PICK S : S = {p \in Elems(pending) : p.frame = f}
    OBVIOUS
  <2>3. pending' = Without(pending, S)
    BY <1>6, <2>2 DEF Find, Elems
  <2>4. pending' \in Seq(Pending) /\ Sorted(pending') /\ Elems(pending') = Elems(pending) \ S
    BY <1>1, <2>3, WithoutPending
  <2>5. bufmap' \in Seq(Lent) /\ LentBuffers(bufmap') = LentBuffers(bufmap) \ {<<f, s>>}
    BY <1>1, <1>6, RemoveBufsIs
  <2>6. PICK F : F = {pending[i].frame : i \in Find(f)}
    OBVIOUS
  <2>7. /\ finals' \in [Frame -> Nat]
        /\ \A g \in Frame : finals'[g] = finals[g] + (IF g \in F THEN 1 ELSE 0)
    BY <1>1, <1>6, <2>6, AnswerIs
  <2>8. \A g : g \in F <=> g = f /\ \E p \in Elems(pending) : p.frame = f
    BY <1>1, <2>6, FindIs
  <2>9. /\ returned' \in [Frame \X Streams -> Nat]
        /\ \A b \in Frame \X Streams :
             returned'[b] = returned[b] + (IF b \in {<<f, s>>} THEN 1 ELSE 0)
    BY <1>1, <1>6, ReturnIs
  <2> QED
    BY <1>2, <1>3, <2>1, <2>2, <2>4, <2>5, <2>7, <2>8, <2>9 DEF BufferDone
<1> QED
  BY <1>4, <1>5, <1>6 DEF HandleBuffer

LEMMA InputBufferIs ==
  ASSUME IInv, NEW f \in Frame, HandleInputBuffer(f)
  PROVE  /\ camera' \in Camera /\ camera'.stopped = camera.stopped /\ camera'.dead = camera.dead
         /\ camera'.bufs = camera.bufs /\ camera'.metas = camera.metas
         /\ camera'.inputs = camera.inputs \ {f} /\ f \in camera.inputs
         /\ pending' \in Seq(Pending) /\ Sorted(pending')
         /\ Elems(pending') = Elems(pending) \ {p \in Elems(pending) : p.frame = f}
         /\ finals' \in [Frame -> Nat]
         /\ \A g \in Frame :
              finals'[g] = finals[g]
                         + (IF g = f /\ (\E p \in Elems(pending) : p.frame = f) THEN 1 ELSE 0)
<1>1. /\ pending \in Seq(Pending) /\ Sorted(pending)
      /\ finals \in [Frame -> Nat] /\ camera \in Camera
  BY DEF IInv, TypeOK, ListInv
<1>2. camera' = [camera EXCEPT !.inputs = @ \ {f}] /\ f \in camera.inputs
  BY DEF HandleInputBuffer
<1>3. /\ camera' \in Camera /\ camera'.stopped = camera.stopped /\ camera'.dead = camera.dead
      /\ camera'.bufs = camera.bufs /\ camera'.metas = camera.metas
      /\ camera'.inputs = camera.inputs \ {f}
  BY <1>1, <1>2, InputsIs
<1>4. PICK S : S = {p \in Elems(pending) : p.frame = f}
  OBVIOUS
<1>5. pending' = Without(pending, S)
  BY <1>4 DEF HandleInputBuffer, Find, Elems
<1>6. pending' \in Seq(Pending) /\ Sorted(pending') /\ Elems(pending') = Elems(pending) \ S
  BY <1>1, <1>5, WithoutPending
<1>7. PICK F : F = {pending[i].frame : i \in Find(f)}
  OBVIOUS
<1>8. Answer(F)
  BY <1>7 DEF HandleInputBuffer
<1>9. /\ finals' \in [Frame -> Nat]
      /\ \A g \in Frame : finals'[g] = finals[g] + (IF g \in F THEN 1 ELSE 0)
  BY <1>1, <1>8, AnswerIs
<1>10. \A g : g \in F <=> g = f /\ \E p \in Elems(pending) : p.frame = f
  BY <1>1, <1>7, FindIs
<1> QED
  BY <1>2, <1>3, <1>4, <1>6, <1>9, <1>10

-----------------------------------------------------------------------------
(* Types.                                                                  *)

LEMMA TypeFacts ==
  ASSUME TypeOK
  PROVE  /\ world \in Worlds /\ mState \in {"CONFIGURED", "STARTED", "ERROR", "DEINIT"}
         /\ mFlush \in BOOLEAN /\ woken \in BOOLEAN /\ signal \in BOOLEAN
         /\ pending \in Seq(Pending) /\ bufmap \in Seq(Lent)
         /\ live \in 0 .. Word - 1 /\ live \in Nat /\ Word \in Nat /\ Word > 0
         /\ pc \in [Threads -> Places]
         /\ call \in Request \cup {<< >>} /\ camera \in Camera
         /\ next \in 1 .. MaxFrame + 1 /\ next \in Nat /\ MaxFrame \in Nat
         /\ flushes \in 0 .. world.maxFlush /\ flushes \in Nat /\ world.maxFlush \in Nat
         /\ asked \in [Frame -> SUBSET Streams]
         /\ finals \in [Frame -> Nat] /\ returned \in [Frame \X Streams -> Nat]
  BY Hal3Assumption DEF TypeOK, Places

LEMMA GoIs ==
  ASSUME pc \in [Threads -> Places], NEW t \in Threads, NEW w \in Places, Go(t, w)
  PROVE  /\ pc' \in [Threads -> Places] /\ pc'[t] = w
         /\ \A u \in Threads : u # t => pc'[u] = pc[u]
  BY DEF Go

\* The request and the number with which a call gets to its second half.
Submits(r, n) ==
  /\ Submit(r, n)
  /\ \/ /\ r \in Requests /\ ~Failed
        /\ n = live \/ (n = 0 /\ mState = "CONFIGURED")
        /\ pc["req"] = "idle" /\ next' = next + 1 /\ call' = call
     \/ /\ r = call /\ n = live /\ pc["req"] = "relock"
        /\ next' = next /\ call' = << >>

LEMMA SubmitsIs ==
  ASSUME IInv, NEW r, NEW n, Submits(r, n)
  PROVE  /\ r \in Request /\ Fresh(r.frame) /\ Record(r)
         /\ camera' \in Camera /\ camera'.stopped = camera.stopped /\ camera'.dead = camera.dead
         /\ camera'.bufs \subseteq camera.bufs \cup ({r.frame} \X r.streams)
         /\ mFlush => camera' = camera
         /\ ~r.input => camera'.inputs = camera.inputs
         /\ live' \in 0 .. Word - 1
         /\ mState' \in {mState, "STARTED"}
         /\ pc' \in [Threads -> Places] /\ pc'["req"] \in {"idle", "wait"}
         /\ pc'["flu"] = pc["flu"]
         /\ UNCHANGED <<mFlush, signal, flushes, world>>
         /\ next' \in 1 .. MaxFrame + 1 /\ call' \in Request \cup {<< >>}
<1>1. TypeOK /\ ThreadInv
  BY DEF IInv
<1>2. r \in Request /\ Fresh(r.frame) /\ next' \in 1 .. MaxFrame + 1 /\ call' \in Request \cup {<< >>}
  <2>1. CASE r \in Requests /\ next' = next + 1 /\ call' = call
    <3>1. r \in Request /\ r.frame = next /\ next \in Frame
      BY <1>1, <2>1, TypeFacts, RequestsAre
    <3>2. next \in Nat /\ next + 1 \in 1 .. MaxFrame + 1
      BY <1>1, <3>1, TypeFacts DEF Frame
    <3> QED
      BY <1>1, <2>1, <3>1, <3>2, TypeFacts DEF Fresh
  <2>2. CASE r = call /\ pc["req"] = "relock" /\ next' = next /\ call' = << >>
    BY <1>1, <2>2, TypeFacts DEF ThreadInv, Restarting, Fresh
  <2> QED
    BY <2>1, <2>2 DEF Submits
<1>3. n \in 0 .. Word - 1
  BY <1>1, TypeFacts DEF Submits
<1>4. Submit(r, n)
  BY DEF Submits
<1>5. /\ Record(r)
      /\ camera' \in Camera /\ camera'.stopped = camera.stopped /\ camera'.dead = camera.dead
      /\ camera'.bufs \subseteq camera.bufs \cup ({r.frame} \X r.streams)
      /\ mFlush => camera' = camera
      /\ ~r.input => camera'.inputs = camera.inputs
      /\ live' \in 0 .. Word - 1
      /\ mState' \in {mState, "STARTED"}
      /\ pc' \in {[pc EXCEPT !["req"] = "idle"], [pc EXCEPT !["req"] = "wait"]}
      /\ UNCHANGED <<mFlush, signal, flushes, world>>
  BY <1>1, <1>2, <1>3, <1>4, SubmitIs
<1>6. pc \in [Threads -> Places]
  BY <1>1, TypeFacts
<1>7. /\ pc' \in [Threads -> Places] /\ pc'["req"] \in {"idle", "wait"}
      /\ pc'["flu"] = pc["flu"]
  <2>1. CASE Go("req", "idle")
    BY <1>6, <2>1, GoIs DEF Threads, Places
  <2>2. CASE Go("req", "wait")
    BY <1>6, <2>2, GoIs DEF Threads, Places
  <2> QED
    BY <1>5, <2>1, <2>2 DEF Go
<1> QED
  BY <1>2, <1>5, <1>7

\* The first request, a later one, and one that needs the sensor restarted.
LEMMA ProcessCases ==
  ASSUME IInv, NEW r \in Requests, ProcessCaptureRequest(r)
  PROVE  \/ /\ \E n : Submits(r, n)
            /\ woken' \in {FALSE, woken}
         \/ /\ mState = "STARTED" /\ pc["req"] = "idle"
            /\ "restart" \in world.faults
            /\ ~r.input /\ next' = next + 1 /\ call' = r /\ Go("req", "restart")
            /\ UNCHANGED <<mState, mFlush, lists, live, woken, signal, camera, flushes, asked, world>>
  BY DEF ProcessCaptureRequest, Submits, Failed

LEMMA RestartSubmits ==
  ASSUME RestartSubmit
  PROVE  Submits(call, live) /\ woken' = woken
  BY DEF RestartSubmit, Submits

LEMMA TypeStep ==
  ASSUME IInv, Next
  PROVE  TypeOK'
<1>1. TypeOK /\ ThreadInv
  BY DEF IInv
<1>2. ASSUME NEW r, NEW n, Submits(r, n), woken' \in {FALSE, woken}
      PROVE  TypeOK'
  <2>1. /\ r \in Request /\ Fresh(r.frame) /\ Record(r)
        /\ camera' \in Camera
        /\ live' \in 0 .. Word - 1
        /\ mState' \in {mState, "STARTED"}
        /\ pc' \in [Threads -> Places]
        /\ UNCHANGED <<mFlush, signal, flushes, world>>
        /\ next' \in 1 .. MaxFrame + 1 /\ call' \in Request \cup {<< >>}
    BY <1>2, SubmitsIs
  <2>2. /\ pending' \in Seq(Pending) /\ bufmap' \in Seq(Lent)
        /\ asked' \in [Frame -> SUBSET Streams]
        /\ finals' = finals /\ returned' = returned
    BY <2>1, RecordIs
  <2> QED
    BY <1>1, <1>2, <2>1, <2>2, TypeFacts DEF TypeOK, Places
<1>3. CASE Req
  <2>1. ASSUME NEW r \in Requests, ProcessCaptureRequest(r) PROVE TypeOK'
    <3>1. r \in Request /\ r.frame = next /\ next \in Frame
      BY <1>1, TypeFacts, RequestsAre
    <3>2. next + 1 \in 1 .. MaxFrame + 1
      BY <1>1, <3>1, TypeFacts DEF Frame
    <3>3. CASE /\ next' = next + 1 /\ call' = r /\ Go("req", "restart")
               /\ UNCHANGED <<mState, mFlush, lists, live, woken, signal, camera, flushes, asked, world>>
      <4>1. pc' \in [Threads -> Places]
        BY <1>1, <3>3, TypeFacts, GoIs DEF Threads, Places
      <4> QED
        BY <1>1, <3>1, <3>2, <3>3, <4>1, TypeFacts DEF TypeOK, lists, Places
    <3> QED
      BY <1>2, <2>1, <3>3, ProcessCases
  <2>2. CASE RefuseRequest
    <3>1. next + 1 \in 1 .. MaxFrame + 1
      BY <1>1, <2>2, TypeFacts DEF Frame, RefuseRequest
    <3>2. pc' \in [Threads -> Places]
      BY <1>1, <2>2, TypeFacts, GoIs DEF Threads, Places, RefuseRequest
    <3> QED
      BY <1>1, <2>2, <3>1, <3>2, TypeFacts DEF TypeOK, RefuseRequest, lists, Places
  <2>3. CASE ConfigureStreams
    <3>1. camera' \in Camera
      BY <1>1, <2>3, TypeFacts, StoppedIs, OpenIs DEF ConfigureStreams
    <3> QED
      BY <1>1, <2>3, <3>1, TypeFacts DEF TypeOK, ConfigureStreams, lists, framework, Places
  <2> QED
    BY <1>3, <2>1, <2>2, <2>3 DEF Req
<1>4. CASE ReqGoesOn
  <2>1. CASE RestartStop
    <3>1. camera' \in Camera
      BY <1>1, <2>1, TypeFacts, StoppedIs DEF RestartStop
    <3>2. pc' \in [Threads -> Places]
      BY <1>1, <2>1, TypeFacts, GoIs DEF Threads, Places, RestartStop
    <3> QED
      BY <1>1, <2>1, <3>1, <3>2, TypeFacts DEF TypeOK, RestartStop, lists, framework, Places
  <2>2. CASE RestartNotify
    <3>1. camera' \in Camera
      BY <1>1, <2>2, TypeFacts, OpenIs DEF RestartNotify
    <3>2. pc' \in [Threads -> Places]
      BY <1>1, <2>2, TypeFacts, GoIs DEF Threads, Places, RestartNotify
    <3>3. /\ pending' \in Seq(Pending) /\ bufmap' \in Seq(Lent)
          /\ finals' \in [Frame -> Nat] /\ returned' \in [Frame \X Streams -> Nat]
      BY <2>2, NotifyAllIs DEF RestartNotify
    <3> QED
      BY <1>1, <2>2, <3>1, <3>2, <3>3, TypeFacts DEF TypeOK, RestartNotify, framework, Places
  <2>3. CASE RestartSubmit
    BY <1>2, <2>3, RestartSubmits
  <2>4. CASE WakeUp
    <3>1. pc' \in [Threads -> Places]
      <4>1. Go("req", "idle") \/ Go("req", "wait")
        BY <2>4 DEF WakeUp
      <4> QED
        BY <1>1, <4>1, TypeFacts, GoIs DEF Threads, Places
    <3> QED
      BY <1>1, <2>4, <3>1, TypeFacts DEF TypeOK, WakeUp, lists, framework, Places
  <2>5. CASE TimeOut
    <3>1. pc' \in [Threads -> Places]
      BY <1>1, <2>5, TypeFacts, GoIs DEF Threads, Places, TimeOut
    <3> QED
      BY <1>1, <2>5, <3>1, TypeFacts DEF TypeOK, TimeOut, lists, Places
  <2> QED
    BY <1>4, <2>1, <2>2, <2>3, <2>4, <2>5 DEF ReqGoesOn
<1>5. CASE Flush
  <2>1. pc' \in [Threads -> Places]
    BY <1>1, <1>5, TypeFacts, GoIs DEF Threads, Places, Flush
  <2> QED
    BY <1>1, <1>5, <2>1, TypeFacts DEF TypeOK, Flush, lists, Places
<1>6. ASSUME NEW t \in Threads, Flushing(t) PROVE TypeOK'
  <2>1. CASE FlushBegin(t)
    <3>1. pc' \in [Threads -> Places]
      BY <1>1, <2>1, TypeFacts, GoIs DEF Places, FlushBegin
    <3> QED
      BY <1>1, <2>1, <3>1, TypeFacts DEF TypeOK, FlushBegin, lists, framework, Places
  <2>2. CASE FlushStop(t)
    <3>1. pc' \in [Threads -> Places]
      BY <1>1, <2>2, TypeFacts, GoIs DEF Places, FlushStop
    <3>2. camera' \in Camera
      BY <1>1, <2>2, TypeFacts, StoppedIs DEF FlushStop
    <3> QED
      BY <1>1, <2>2, <3>1, <3>2, TypeFacts DEF TypeOK, FlushStop, lists, framework, Places
  <2>3. CASE FlushClear(t)
    <3>1. pc' \in [Threads -> Places]
      BY <1>1, <2>3, TypeFacts, GoIs DEF Places, FlushClear
    <3>2. camera' \in Camera
      BY <1>1, <2>3, TypeFacts, OpenIs DEF FlushClear
    <3>3. /\ pending' \in Seq(Pending) /\ bufmap' \in Seq(Lent)
          /\ finals' \in [Frame -> Nat] /\ returned' \in [Frame \X Streams -> Nat]
      BY <2>3, NotifyAllIs DEF FlushClear
    <3>4. /\ live' = 0 /\ mFlush' = FALSE /\ mState' = mState /\ woken' = woken
          /\ signal' = (pc["req"] = "wait")
          /\ call' = call /\ next' = next /\ flushes' = flushes /\ asked' = asked /\ world' = world
      BY <2>3 DEF FlushClear, Unblock, framework
    <3>5. live' \in 0 .. Word - 1
      BY <1>1, <3>4, TypeFacts
    <3>6. signal' \in BOOLEAN
      BY <3>4
    <3> QED
      BY <1>1, <3>1, <3>2, <3>3, <3>4, <3>5, <3>6, TypeFacts DEF TypeOK, Places
  <2>4. CASE DeviceError(t)
    <3>1. pc' \in [Threads -> Places]
      <4>1. Go(t, "deviceFlush") \/ Go(t, "idle")
        BY <2>4 DEF DeviceError
      <4> QED
        BY <1>1, <4>1, TypeFacts, GoIs DEF Places
    <3> QED
      BY <1>1, <2>4, <3>1, TypeFacts DEF TypeOK, DeviceError, lists, framework, Places
  <2>5. CASE Deinit(t)
    <3>1. pc' \in [Threads -> Places]
      BY <1>1, <2>5, TypeFacts, GoIs DEF Places, Deinit
    <3> QED
      BY <1>1, <2>5, <3>1, TypeFacts DEF TypeOK, Deinit, lists, framework, Places
  <2> QED
    BY <1>6, <2>1, <2>2, <2>3, <2>4, <2>5 DEF Flushing
<1>7. CASE Callback
  <2>1. ASSUME NEW f \in Frame, HandleMetadata(f) PROVE TypeOK'
    <3>1. camera' \in Camera
      BY <1>1, <2>1, TypeFacts, MetasIs DEF HandleMetadata
    <3>2. CASE UNCHANGED <<lists, live, signal>>
      BY <1>1, <2>1, <3>1, <3>2, TypeFacts DEF TypeOK, HandleMetadata, lists, framework, Places
    <3>3. CASE Metadata(f) /\ Unblock
      <4>1. /\ pending' \in Seq(Pending) /\ bufmap' \in Seq(Lent)
            /\ finals' \in [Frame -> Nat] /\ returned' \in [Frame \X Streams -> Nat]
            /\ live' \in 0 .. Word - 1
        BY <3>3, MetadataIs
      <4> QED
        BY <1>1, <2>1, <3>1, <3>3, <4>1, TypeFacts DEF TypeOK, HandleMetadata, Unblock, framework, Places
    <3> QED
      BY <2>1, <3>2, <3>3 DEF HandleMetadata
  <2>2. ASSUME NEW f \in Frame, HandleInputBuffer(f) PROVE TypeOK'
    <3>1. camera' \in Camera /\ pending' \in Seq(Pending) /\ finals' \in [Frame -> Nat]
      BY <2>2, InputBufferIs
    <3> QED
      BY <1>1, <2>2, <3>1, TypeFacts DEF TypeOK, HandleInputBuffer, framework, Places
  <2>3. ASSUME NEW f \in Frame, NEW s \in Streams, HandleBuffer(f, s) PROVE TypeOK'
    <3>1. /\ camera' \in Camera /\ pending' \in Seq(Pending) /\ bufmap' \in Seq(Lent)
          /\ finals' \in [Frame -> Nat] /\ returned' \in [Frame \X Streams -> Nat]
      BY <1>1, <2>3, TypeFacts, BufferIs DEF lists, BufferCached, BufferDone
    <3> QED
      BY <1>1, <2>3, <3>1, TypeFacts DEF TypeOK, HandleBuffer, framework, Places
  <2>4. CASE HandleEmptyMetadata
    BY <1>1, <2>4, TypeFacts DEF TypeOK, HandleEmptyMetadata, Unblock, lists, framework, Places
  <2>5. CASE DaemonPull
    BY <1>1, <2>5, TypeFacts DEF TypeOK, DaemonPull, Unblock, lists, framework, Places
  <2>6. CASE DaemonDies
    <3>1. camera' \in Camera
      BY <1>1, <2>6, TypeFacts, DeadIs DEF DaemonDies
    <3> QED
      BY <1>1, <2>6, <3>1, TypeFacts DEF TypeOK, DaemonDies, lists, framework, Places
  <2> QED
    BY <1>7, <2>1, <2>2, <2>3, <2>4, <2>5, <2>6 DEF Callback
<1> QED
  BY <1>3, <1>4, <1>5, <1>6, <1>7 DEF Next

-----------------------------------------------------------------------------
(* The threads.                                                            *)

\* Nothing is given to the camera while a flush or a restart clears the lists.
LEMMA SubmitThreads ==
  ASSUME IInv, NEW r, NEW n, Submits(r, n)
  PROVE  ThreadInv'
<1>1. ThreadInv /\ TypeOK
  BY DEF IInv
<1>2. /\ pc'["req"] \in {"idle", "wait"} /\ pc'["flu"] = pc["flu"]
      /\ mFlush' = mFlush
      /\ mFlush => camera' = camera
  BY SubmitsIs
<1>3. call' = << >>
  BY <1>1 DEF Submits, ThreadInv, Restarting
<1>4. pc["flu"] \in {"stop", "clear", "deviceStop", "deviceClear"} => mFlush
  BY <1>1 DEF Submits, ThreadInv, Restarting
<1> QED
  BY <1>1, <1>2, <1>3, <1>4 DEF ThreadInv, Restarting, OnDevice, Clearing, Idle

LEMMA ThreadStep ==
  ASSUME IInv, Next
  PROVE  ThreadInv'
<1>1. ThreadInv /\ TypeOK /\ camera \in Camera /\ pc \in [Threads -> Places]
  BY TypeFacts DEF IInv
<1> USE DEF Threads, Places
<1>2. ASSUME NEW r \in Requests, ProcessCaptureRequest(r) PROVE ThreadInv'
  <2>1. CASE \E n : Submits(r, n)
    BY <2>1, SubmitThreads
  <2>2. CASE /\ mState = "STARTED" /\ pc["req"] = "idle" /\ call' = r /\ Go("req", "restart")
             /\ UNCHANGED <<mState, mFlush, camera>>
    <3>1. r # << >>
      BY <1>1, TypeFacts, RequestsAre, NoRequest
    <3>2. pc'["req"] = "restart" /\ pc'["flu"] = pc["flu"]
      BY <1>1, <2>2, GoIs
    <3> QED
      BY <1>1, <2>2, <3>1, <3>2 DEF ThreadInv, Restarting, OnDevice, Clearing, Failed, Idle
  <2> QED
    BY <1>2, <2>1, <2>2, ProcessCases DEF lists
<1>3. CASE RefuseRequest
  <2>1. pc["req"] = "idle" /\ pc'["req"] \in {"idle", "device"} /\ pc'["flu"] = pc["flu"]
    BY <1>1, <1>3, GoIs DEF RefuseRequest
  <2> QED
    BY <1>1, <1>3, <2>1 DEF RefuseRequest, ThreadInv, Restarting, OnDevice, Clearing, Failed, Idle
<1>4. CASE ConfigureStreams
  BY <1>1, <1>4 DEF ConfigureStreams, framework, ThreadInv, Restarting, OnDevice, Clearing, Failed, Idle
<1>5. CASE RestartStop
  <2>1. pc'["req"] = "restarted" /\ pc'["flu"] = pc["flu"]
    BY <1>1, <1>5, GoIs DEF RestartStop
  <2>2. Idle(camera')
    BY <1>1, <1>5, StoppedIs DEF RestartStop
  <2> QED
    BY <1>1, <1>5, <2>1, <2>2
    DEF RestartStop, framework, ThreadInv, Restarting, OnDevice, Clearing, Failed
<1>6. CASE RestartNotify
  <2>1. pc'["req"] = "relock" /\ pc'["flu"] = pc["flu"]
    BY <1>1, <1>6, GoIs DEF RestartNotify
  <2>2. Idle(camera')
    BY <1>1, <1>6, OpenIs DEF RestartNotify, ThreadInv, Idle
  <2> QED
    BY <1>1, <1>6, <2>1, <2>2
    DEF RestartNotify, framework, ThreadInv, Restarting, OnDevice, Clearing, Failed
<1>7. CASE RestartSubmit
  BY <1>7, RestartSubmits, SubmitThreads
<1>8. CASE WakeUp
  <2>1. Go("req", "idle") \/ Go("req", "wait")
    BY <1>8 DEF WakeUp
  <2>2. pc'["req"] \in {"idle", "wait"} /\ pc'["flu"] = pc["flu"]
    BY <1>1, <2>1, GoIs
  <2> QED
    BY <1>1, <1>8, <2>2 DEF WakeUp, framework, ThreadInv, Restarting, OnDevice, Clearing, Failed, Idle
<1>9. CASE TimeOut
  <2>1. pc'["req"] = "idle" /\ pc'["flu"] = pc["flu"]
    BY <1>1, <1>9, GoIs DEF TimeOut
  <2> QED
    BY <1>1, <1>9, <2>1 DEF TimeOut, ThreadInv, Restarting, OnDevice, Clearing, Failed, Idle
<1>10. CASE Flush
  <2>1. pc'["flu"] \in {"flush", "device"} /\ pc'["req"] = pc["req"]
    BY <1>1, <1>10, GoIs DEF Flush
  <2> QED
    BY <1>1, <1>10, <2>1 DEF Flush, ThreadInv, Restarting, OnDevice, Clearing, Failed, Idle
<1>11. ASSUME NEW t \in Threads, FlushBegin(t) PROVE ThreadInv'
  <2>1. /\ \A u \in Threads : u # t => pc'[u] = pc[u]
        /\ \/ pc[t] = "flush" /\ pc'[t] = "stop"
           \/ pc[t] = "deviceFlush" /\ pc'[t] = "deviceStop"
    BY <1>1, <1>11, GoIs DEF FlushBegin
  <2> QED
    BY <1>1, <1>11, <2>1
    DEF FlushBegin, framework, ThreadInv, Restarting, OnDevice, Clearing, Failed, Idle
<1>12. ASSUME NEW t \in Threads, FlushStop(t) PROVE ThreadInv'
  <2>1. /\ \A u \in Threads : u # t => pc'[u] = pc[u]
        /\ \/ pc[t] = "stop" /\ pc'[t] \in {"clear", "idle"}
           \/ pc[t] = "deviceStop" /\ pc'[t] \in {"deviceClear", "deinit"}
    BY <1>1, <1>12, GoIs DEF FlushStop
  <2>2. Idle(camera')
    BY <1>1, <1>12, StoppedIs DEF FlushStop
  <2> QED
    BY <1>1, <1>12, <2>1, <2>2
    DEF FlushStop, framework, ThreadInv, Restarting, OnDevice, Clearing, Failed
<1>13. ASSUME NEW t \in Threads, FlushClear(t) PROVE ThreadInv'
  <2>1. /\ \A u \in Threads : u # t => pc'[u] = pc[u]
        /\ \/ pc[t] = "clear" /\ pc'[t] = "idle"
           \/ pc[t] = "deviceClear" /\ pc'[t] = "deinit"
    BY <1>1, <1>13, GoIs DEF FlushClear
  <2>2. Idle(camera')
    BY <1>1, <1>13, <2>1, OpenIs DEF FlushClear, ThreadInv, Clearing, Idle
  <2>3. mState' = mState /\ call' = call
    BY <1>13 DEF FlushClear, framework
  <2>4. CASE t = "req"
    BY <1>1, <2>1, <2>2, <2>3, <2>4 DEF ThreadInv, Restarting, OnDevice, Clearing, Failed
  <2>5. CASE t = "flu"
    BY <1>1, <2>1, <2>2, <2>3, <2>5 DEF ThreadInv, Restarting, OnDevice, Clearing, Failed
  <2> QED
    BY <2>4, <2>5
<1>14. ASSUME NEW t \in Threads, DeviceError(t) PROVE ThreadInv'
  <2>1. /\ \A u \in Threads : u # t => pc'[u] = pc[u]
        /\ pc[t] = "device"
        /\ (mState = "ERROR" /\ pc'[t] = "deviceFlush") \/ pc'[t] = "idle"
    <3>1. (mState = "ERROR" /\ Go(t, "deviceFlush")) \/ Go(t, "idle")
      BY <1>14 DEF DeviceError
    <3> QED
      BY <1>1, <1>14, <3>1, GoIs DEF DeviceError
  <2> QED
    BY <1>1, <1>14, <2>1
    DEF DeviceError, framework, ThreadInv, Restarting, OnDevice, Clearing, Failed, Idle
<1>15. ASSUME NEW t \in Threads, Deinit(t) PROVE ThreadInv'
  <2>1. /\ \A u \in Threads : u # t => pc'[u] = pc[u]
        /\ pc[t] = "deinit" /\ pc'[t] = "idle"
    BY <1>1, <1>15, GoIs DEF Deinit
  <2> QED
    BY <1>1, <1>15, <2>1
    DEF Deinit, framework, ThreadInv, Restarting, OnDevice, Clearing, Failed, Idle
<1>16. ASSUME NEW f \in Frame, HandleMetadata(f) PROVE ThreadInv'
  <2>1. Idle(camera) => FALSE
    BY <1>16 DEF HandleMetadata, Idle
  <2> QED
    BY <1>1, <1>16, <2>1
    DEF HandleMetadata, framework, ThreadInv, Restarting, OnDevice, Clearing, Failed
<1>17. ASSUME NEW f \in Frame, HandleInputBuffer(f) PROVE ThreadInv'
  <2>1. Idle(camera) => FALSE
    BY <1>17 DEF HandleInputBuffer, Idle
  <2> QED
    BY <1>1, <1>17, <2>1
    DEF HandleInputBuffer, framework, ThreadInv, Restarting, OnDevice, Clearing, Failed
<1>18. ASSUME NEW f \in Frame, NEW s \in Streams, HandleBuffer(f, s) PROVE ThreadInv'
  <2>1. Idle(camera) => FALSE
    BY <1>18 DEF HandleBuffer, Idle
  <2> QED
    BY <1>1, <1>18, <2>1
    DEF HandleBuffer, framework, ThreadInv, Restarting, OnDevice, Clearing, Failed
<1>19. CASE HandleEmptyMetadata \/ DaemonPull
  BY <1>1, <1>19
  DEF HandleEmptyMetadata, DaemonPull, framework, ThreadInv, Restarting, OnDevice, Clearing, Failed, Idle
<1>20. CASE DaemonDies
  <2>1. camera'.bufs = camera.bufs /\ camera'.metas = camera.metas /\ camera'.inputs = camera.inputs
    BY <1>1, <1>20, DeadIs DEF DaemonDies
  <2> QED
    BY <1>1, <1>20, <2>1
    DEF DaemonDies, framework, ThreadInv, Restarting, OnDevice, Clearing, Failed, Idle
<1> QED
  BY <1>2, <1>3, <1>4, <1>5, <1>6, <1>7, <1>8, <1>9, <1>10, <1>11, <1>12, <1>13, <1>14, <1>15,
     <1>16, <1>17, <1>18, <1>19, <1>20
  DEF Next, Req, ReqGoesOn, Flushing, Callback

-----------------------------------------------------------------------------
(* The list and the map.                                                   *)

\* A step that leaves the lists alone; a request that restarts the sensor is taken
\* into the hands of the thread.
Quiet ==
  /\ UNCHANGED lists /\ asked' = asked
  /\ camera'.bufs \subseteq camera.bufs
  /\ \/ call' = call /\ next' \in Nat /\ next' >= next
     \/ call' # << >> /\ call'.frame = next /\ next' = next + 1 /\ call = << >>

LEMMA ListCases ==
  ASSUME IInv, Next
  PROVE  \/ Quiet
         \/ \E r, n : Submits(r, n)
         \/ /\ NotifyAll /\ camera.bufs = {} /\ camera'.bufs = {}
            /\ pc["req"] = "restarted" \/ \E t \in Threads : Clearing(t)
            /\ UNCHANGED <<asked, call, next>>
         \/ \E f \in Frame : /\ Metadata(f) /\ camera'.bufs = camera.bufs
                             /\ UNCHANGED <<asked, call, next>>
         \/ \E f \in Frame, s \in Streams : HandleBuffer(f, s)
         \/ \E f \in Frame : HandleInputBuffer(f)
<1>1. ThreadInv /\ TypeOK /\ camera \in Camera /\ next \in Nat /\ MaxFrame \in Nat
      /\ next \in 1 .. MaxFrame + 1
  BY TypeFacts DEF IInv
<1>2. CASE Req
  <2>1. ASSUME NEW r \in Requests, ProcessCaptureRequest(r)
        PROVE  Quiet \/ \E n : Submits(r, n)
    <3>1. r \in Request /\ r.frame = next
      BY <1>1, TypeFacts, RequestsAre
    <3>2. r # << >>
      BY <3>1, NoRequest
    <3>3. CASE /\ pc["req"] = "idle" /\ next' = next + 1 /\ call' = r
               /\ UNCHANGED <<mState, mFlush, lists, live, woken, signal, camera, flushes, asked, world>>
      <4>1. call = << >>
        BY <1>1, <3>3 DEF ThreadInv, Restarting
      <4> QED
        BY <3>1, <3>2, <3>3, <4>1 DEF Quiet
    <3> QED
      BY <2>1, <3>3, ProcessCases
  <2>2. CASE RefuseRequest
    BY <1>1, <2>2 DEF RefuseRequest, Quiet
  <2>3. CASE ConfigureStreams
    <3>1. camera'.bufs = {}
      BY <1>1, <2>3, StoppedIs, OpenIs DEF ConfigureStreams, Idle
    <3> QED
      BY <1>1, <2>3, <3>1 DEF ConfigureStreams, Quiet, framework
  <2> QED
    BY <1>2, <2>1, <2>2, <2>3 DEF Req
<1>3. CASE ReqGoesOn
  <2>1. CASE RestartStop
    <3>1. camera'.bufs = {}
      BY <1>1, <2>1, StoppedIs DEF RestartStop, Idle
    <3> QED
      BY <1>1, <2>1, <3>1 DEF RestartStop, Quiet, framework
  <2>2. CASE RestartNotify
    <3>1. camera'.bufs = camera.bufs /\ camera.bufs = {}
      BY <1>1, <2>2, OpenIs DEF RestartNotify, Idle, ThreadInv
    <3> QED
      BY <2>2, <3>1 DEF RestartNotify, framework
  <2>3. CASE RestartSubmit
    BY <2>3, RestartSubmits
  <2>4. CASE WakeUp \/ TimeOut
    BY <1>1, <2>4 DEF WakeUp, TimeOut, Quiet, framework
  <2> QED
    BY <1>3, <2>1, <2>2, <2>3, <2>4 DEF ReqGoesOn
<1>4. CASE Flush
  BY <1>1, <1>4 DEF Flush, Quiet
<1>5. ASSUME NEW t \in Threads, Flushing(t)
      PROVE  \/ Quiet
             \/ /\ NotifyAll /\ camera.bufs = {} /\ camera'.bufs = {} /\ Clearing(t)
                /\ UNCHANGED <<asked, call, next>>
  <2>1. CASE FlushStop(t)
    <3>1. camera'.bufs = {}
      BY <1>1, <2>1, StoppedIs DEF FlushStop, Idle
    <3> QED
      BY <1>1, <2>1, <3>1 DEF FlushStop, Quiet, framework
  <2>2. CASE FlushClear(t)
    <3>1. Clearing(t)
      BY <2>2 DEF FlushClear, Clearing
    <3>2. camera.bufs = {}
      BY <1>1, <3>1 DEF ThreadInv, Idle, Threads
    <3>3. camera'.bufs = camera.bufs
      BY <1>1, <2>2, OpenIs DEF FlushClear
    <3> QED
      BY <2>2, <3>1, <3>2, <3>3 DEF FlushClear, framework
  <2>3. CASE FlushBegin(t) \/ DeviceError(t) \/ Deinit(t)
    BY <1>1, <2>3 DEF FlushBegin, DeviceError, Deinit, Quiet, framework
  <2> QED
    BY <1>5, <2>1, <2>2, <2>3 DEF Flushing
<1>6. CASE Callback
  <2>1. ASSUME NEW f \in Frame, HandleMetadata(f)
        PROVE  Quiet \/ (Metadata(f) /\ camera'.bufs = camera.bufs /\ UNCHANGED <<asked, call, next>>)
    <3>1. camera'.bufs = camera.bufs
      BY <1>1, <2>1, MetasIs DEF HandleMetadata
    <3> QED
      BY <1>1, <2>1, <3>1 DEF HandleMetadata, Quiet, framework
  <2>2. CASE HandleEmptyMetadata \/ DaemonPull
    BY <1>1, <2>2 DEF HandleEmptyMetadata, DaemonPull, Quiet, framework
  <2>3. CASE DaemonDies
    <3>1. camera'.bufs = camera.bufs
      BY <1>1, <2>3, DeadIs DEF DaemonDies
    <3> QED
      BY <1>1, <2>3, <3>1 DEF DaemonDies, Quiet, framework
  <2> QED
    BY <1>6, <2>1, <2>2, <2>3 DEF Callback
<1> QED
  BY <1>2, <1>3, <1>4, <1>5, <1>6 DEF Next

LEMMA ListFacts ==
  ASSUME IInv
  PROVE  /\ pending \in Seq(Pending) /\ bufmap \in Seq(Lent) /\ Sorted(pending)
         /\ \A p \in Elems(pending) : p.frame \in Frame /\ p.cached \subseteq Streams /\ p.input \in BOOLEAN
         /\ \A p \in Elems(pending) :
              /\ \E s \in Streams : <<p.frame, s>> \in LentBuffers(bufmap)
              /\ \A s \in p.cached : <<p.frame, s>> \in LentBuffers(bufmap) \ camera.bufs
         /\ \A p, q \in Elems(pending) : p.frame = q.frame => p = q
         /\ LentBuffers(bufmap) \subseteq Frame \X Streams
         /\ camera.bufs \subseteq LentBuffers(bufmap)
         /\ \A b \in LentBuffers(bufmap) : b[2] \in asked[b[1]]
         /\ \A b \in Frame \X Streams :
              b[2] \in asked[b[1]] => returned[b] = IF b \in LentBuffers(bufmap) THEN 0 ELSE 1
<1>1. TypeOK /\ ListInv
  BY DEF IInv
<1>2. \A p, q \in Elems(pending) : p.frame = q.frame => p = q
  BY <1>1, TypeFacts, SortedFrames DEF ListInv
<1>3. \A p \in Elems(pending) : p.frame \in Frame /\ p.cached \subseteq Streams /\ p.input \in BOOLEAN
  BY <1>1, TypeFacts, ElemsType, PendingFacts
<1>4. LentBuffers(bufmap) \subseteq Frame \X Streams
  BY <1>1, TypeFacts, LentIs
<1> QED
  BY <1>1, <1>2, <1>3, <1>4, TypeFacts DEF ListInv, AskedBuffers, BuffersAccounted

LEMMA ListStep ==
  ASSUME IInv, Next
  PROVE  ListInv'
<1> DEFINE L == LentBuffers(bufmap)
           Good(ps, m, c, a, n) ==
             /\ Sorted(ps)
             /\ \A p \in Elems(ps) :
                  /\ \E s \in Streams : <<p.frame, s>> \in LentBuffers(m)
                  /\ \A s \in p.cached : <<p.frame, s>> \in LentBuffers(m) \ c.bufs
             /\ c.bufs \subseteq LentBuffers(m)
             /\ LentBuffers(m) \subseteq Frame \X Streams
             /\ \A b \in LentBuffers(m) : b[2] \in a[b[1]]
             /\ \A b \in Frame \X Streams :
                  b[2] \in a[b[1]] => n[b] = IF b \in LentBuffers(m) THEN 0 ELSE 1
<1> SUFFICES Good(pending', bufmap', camera', asked', returned')
  BY DEF ListInv, AskedBuffers, BuffersAccounted
<1> HIDE DEF Good
<1>1. TypeOK
  BY DEF IInv
<1>2. CASE Quiet
  BY <1>2, ListFacts DEF Quiet, lists, Good
<1>3. ASSUME NEW r, NEW n, Submits(r, n) PROVE Good(pending', bufmap', camera', asked', returned')
  <2>1. /\ r \in Request /\ Fresh(r.frame) /\ Record(r)
        /\ camera'.bufs \subseteq camera.bufs \cup ({r.frame} \X r.streams)
    BY <1>3, SubmitsIs
  <2>2. r.frame \in Frame /\ r.streams \subseteq Streams /\ r.streams # {}
    BY <2>1, RequestFacts
  <2>3. /\ Sorted(pending') /\ returned' = returned
        /\ \A f \in Frame : asked'[f] = IF f = r.frame THEN r.streams ELSE asked[f]
        /\ LentBuffers(bufmap') = L \cup ({r.frame} \X r.streams)
    BY <2>1, RecordIs
  <2>4. PICK x \in Pending : /\ x.frame = r.frame /\ x.cached = {}
                             /\ Elems(pending') = Elems(pending) \cup {x}
    BY <2>1, RecordIs
  <2>5. /\ asked[r.frame] = {} /\ \A s \in Streams : returned[<<r.frame, s>>] = 0
        /\ \A p \in Elems(pending) : p.frame < r.frame
    BY <2>1, <2>2 DEF IInv, FreshInv
  <2>6. \A p \in Elems(pending) : p.frame # r.frame
    BY <2>2, <2>5, ListFacts, Hal3Assumption DEF Frame
  <2>7. \A p \in Elems(pending') :
          /\ \E s \in Streams : <<p.frame, s>> \in LentBuffers(bufmap')
          /\ \A s \in p.cached : <<p.frame, s>> \in LentBuffers(bufmap') \ camera'.bufs
    <3> SUFFICES ASSUME NEW p \in Elems(pending')
                 PROVE  /\ \E s \in Streams : <<p.frame, s>> \in LentBuffers(bufmap')
                        /\ \A s \in p.cached : <<p.frame, s>> \in LentBuffers(bufmap') \ camera'.bufs
      OBVIOUS
    <3>1. CASE p = x
      BY <2>2, <2>3, <2>4, <3>1
    <3>2. CASE p \in Elems(pending)
      BY <2>1, <2>3, <2>6, <3>2, ListFacts
    <3> QED
      BY <2>4, <3>1, <3>2
  <2>8. camera'.bufs \subseteq LentBuffers(bufmap') /\ LentBuffers(bufmap') \subseteq Frame \X Streams
    BY <2>1, <2>2, <2>3, ListFacts
  <2>9. \A b \in LentBuffers(bufmap') : b[2] \in asked'[b[1]]
    BY <2>2, <2>3, <2>5, <2>8, ListFacts
  <2>10. \A b \in Frame \X Streams :
           b[2] \in asked'[b[1]] => returned'[b] = IF b \in LentBuffers(bufmap') THEN 0 ELSE 1
    <3> SUFFICES ASSUME NEW f \in Frame, NEW s \in Streams, s \in asked'[f]
                 PROVE  returned'[<<f, s>>] = IF <<f, s>> \in LentBuffers(bufmap') THEN 0 ELSE 1
      OBVIOUS
    <3>1. CASE f = r.frame
      BY <2>3, <2>5, <3>1
    <3>2. CASE f # r.frame
      BY <2>3, <3>2, ListFacts
    <3> QED
      BY <3>1, <3>2
  <2> QED
    BY <2>3, <2>7, <2>8, <2>9, <2>10 DEF Good
<1>4. CASE NotifyAll /\ camera'.bufs = {} /\ UNCHANGED asked
  <2>1. /\ Elems(pending') = {} /\ LentBuffers(bufmap') = {} /\ Sorted(pending')
        /\ \A b \in Frame \X Streams : returned'[b] = returned[b] + (IF b \in L THEN 1 ELSE 0)
    BY <1>4, NotifyAllIs
  <2> QED
    BY <1>4, <2>1, ListFacts DEF Good
<1>5. ASSUME NEW f \in Frame, Metadata(f), camera'.bufs = camera.bufs, UNCHANGED asked
      PROVE  Good(pending', bufmap', camera', asked', returned')
  <2>1. /\ Sorted(pending') /\ Elems(pending') = Elems(pending) \ Done(f)
        /\ LentBuffers(bufmap') = L \ DoneBufs(f)
        /\ \A b \in Frame \X Streams :
             returned'[b] = returned[b] + (IF b \in DoneBufs(f) THEN 1 ELSE 0)
    BY <1>5, MetadataIs
  <2>2. DoneBufs(f) \subseteq L \ camera.bufs
    <3> SUFFICES ASSUME NEW b \in DoneBufs(f) PROVE b \in L \ camera.bufs
      OBVIOUS
    <3>1. PICK p \in Done(f) : b[1] = p.frame /\ b[2] \in p.cached
      BY DEF DoneBufs
    <3>2. b = <<b[1], b[2]>> /\ p \in Elems(pending)
      BY DEF DoneBufs, Done
    <3> QED
      BY <3>1, <3>2, ListFacts
  <2>3. \A p \in Elems(pending') : \A s : <<p.frame, s>> \notin DoneBufs(f)
    <3> SUFFICES ASSUME NEW p \in Elems(pending'), NEW s, <<p.frame, s>> \in DoneBufs(f) PROVE FALSE
      OBVIOUS
    <3>1. PICK q \in Done(f) : p.frame = q.frame
      BY DEF DoneBufs
    <3>2. q \in Elems(pending) /\ p \in Elems(pending) /\ p \notin Done(f)
      BY <2>1 DEF Done
    <3> QED
      BY <3>1, <3>2, ListFacts
  <2>4. \A p \in Elems(pending') :
          /\ \E s \in Streams : <<p.frame, s>> \in LentBuffers(bufmap')
          /\ \A s \in p.cached : <<p.frame, s>> \in LentBuffers(bufmap') \ camera'.bufs
    BY <1>5, <2>1, <2>3, ListFacts
  <2>5. \A b \in Frame \X Streams :
          b[2] \in asked'[b[1]] => returned'[b] = IF b \in LentBuffers(bufmap') THEN 0 ELSE 1
    BY <1>5, <2>1, <2>2, ListFacts
  <2> QED
    BY <1>5, <2>1, <2>2, <2>4, <2>5, ListFacts DEF Good
<1>6. ASSUME NEW f \in Frame, NEW s \in Streams, HandleBuffer(f, s)
      PROVE  Good(pending', bufmap', camera', asked', returned')
  <2>1. /\ camera'.bufs = camera.bufs \ {<<f, s>>} /\ <<f, s>> \in camera.bufs /\ asked' = asked
    BY <1>6, BufferIs DEF HandleBuffer, framework
  <2>2. CASE UNCHANGED lists
    BY <2>1, <2>2, ListFacts DEF Good, lists
  <2>3. CASE BufferCached(f, s)
    <3>1. PICK p \in Elems(pending), x \in Pending :
                    /\ p.frame = f
                    /\ x.frame = f /\ x.cached = p.cached \cup {s}
                    /\ Elems(pending') = (Elems(pending) \ {p}) \cup {x}
      BY <2>3 DEF BufferCached
    <3>2. \A q \in Elems(pending') :
            /\ \E u \in Streams : <<q.frame, u>> \in LentBuffers(bufmap')
            /\ \A u \in q.cached : <<q.frame, u>> \in LentBuffers(bufmap') \ camera'.bufs
      <4> SUFFICES ASSUME NEW q \in Elems(pending')
                   PROVE  /\ \E u \in Streams : <<q.frame, u>> \in L
                          /\ \A u \in q.cached : <<q.frame, u>> \in L \ camera'.bufs
        BY <2>3 DEF BufferCached
      <4>1. CASE q = x
        BY <2>1, <3>1, <4>1, ListFacts
      <4>2. CASE q \in Elems(pending)
        BY <2>1, <4>2, ListFacts
      <4> QED
        BY <3>1, <4>1, <4>2
    <3> QED
      BY <2>1, <2>3, <3>2, ListFacts DEF Good, BufferCached
  <2>4. CASE BufferDone(f, s)
    <3>1. \A p \in Elems(pending') : p \in Elems(pending) /\ p.frame # f
      BY <2>4 DEF BufferDone
    <3>2. \A p \in Elems(pending') :
            /\ \E u \in Streams : <<p.frame, u>> \in LentBuffers(bufmap')
            /\ \A u \in p.cached : <<p.frame, u>> \in LentBuffers(bufmap') \ camera'.bufs
      BY <2>1, <2>4, <3>1, ListFacts DEF BufferDone
    <3>3. \A b \in Frame \X Streams :
            b[2] \in asked'[b[1]] => returned'[b] = IF b \in LentBuffers(bufmap') THEN 0 ELSE 1
      <4>1. <<f, s>> \in L
        BY <2>1, ListFacts
      <4>2. /\ LentBuffers(bufmap') = L \ {<<f, s>>}
            /\ \A b \in Frame \X Streams : returned'[b] = returned[b] + (IF b = <<f, s>> THEN 1 ELSE 0)
        BY <2>4 DEF BufferDone
      <4>3. \A b \in Frame \X Streams : b[2] \in asked[b[1]] => returned[b] = IF b \in L THEN 0 ELSE 1
        BY ListFacts
      <4> HIDE DEF L
      <4> QED
        BY <2>1, <4>1, <4>2, <4>3
    <3> QED
      BY <2>1, <2>4, <3>2, <3>3, ListFacts DEF Good, BufferDone
  <2> QED
    BY <1>6, <2>2, <2>3, <2>4, BufferIs
<1>7. ASSUME NEW f \in Frame, HandleInputBuffer(f)
      PROVE  Good(pending', bufmap', camera', asked', returned')
  <2>1. /\ camera'.bufs = camera.bufs /\ Sorted(pending')
        /\ Elems(pending') \subseteq Elems(pending)
    BY <1>7, InputBufferIs
  <2>2. UNCHANGED <<bufmap, returned, asked>>
    BY <1>7 DEF HandleInputBuffer, framework
  <2> QED
    BY <2>1, <2>2, ListFacts DEF Good
<1> QED
  BY <1>2, <1>3, <1>4, <1>5, <1>6, <1>7, ListCases

LEMMA FreshFacts ==
  ASSUME IInv, NEW f \in Frame, Fresh(f)
  PROVE  /\ asked[f] = {} /\ finals[f] = 0 /\ \A s \in Streams : returned[<<f, s>>] = 0
         /\ \A p \in Elems(pending) : p.frame < f
         /\ \A b \in LentBuffers(bufmap) : b[1] < f
  BY DEF IInv, FreshInv

LEMMA FreshStep ==
  ASSUME IInv, Next
  PROVE  FreshInv'
<1> DEFINE Good(f) ==
             /\ asked'[f] = {} /\ finals'[f] = 0 /\ \A s \in Streams : returned'[<<f, s>>] = 0
             /\ \A p \in Elems(pending') : p.frame < f
             /\ \A b \in LentBuffers(bufmap') : b[1] < f
           Fresh1(f) == f >= next' \/ (call' # << >> /\ f = call'.frame)
<1> SUFFICES /\ call' # << >> => call'.frame < next'
             /\ \A f \in Frame : Fresh1(f) => Good(f)
  BY DEF FreshInv, Fresh
<1> HIDE DEF Good
<1>1. /\ ThreadInv /\ TypeOK /\ next \in Nat /\ (call # << >> => call \in Request /\ call.frame < next)
      /\ Frame \subseteq Nat
  BY TypeFacts, Hal3Assumption DEF IInv, FreshInv, Frame
<1>2. CASE Quiet
  <2>1. \A f \in Frame : Fresh1(f) => Fresh(f)
    BY <1>1, <1>2 DEF Quiet, Fresh
  <2>2. call' # << >> => call'.frame < next'
    <3>1. CASE call' = call /\ next' \in Nat /\ next' >= next
      <4>1. call # << >> => call.frame \in Nat /\ call.frame < next
        BY <1>1, RequestFacts
      <4> QED
        BY <1>1, <3>1, <4>1
    <3>2. CASE call'.frame = next /\ next' = next + 1
      BY <1>1, <3>2
    <3> QED
      BY <1>2, <3>1, <3>2 DEF Quiet
  <2>3. pending' = pending /\ bufmap' = bufmap /\ asked' = asked /\ finals' = finals /\ returned' = returned
    BY <1>2 DEF Quiet, lists
  <2> QED
    BY <2>1, <2>2, <2>3, FreshFacts DEF Good
<1>3. ASSUME NEW r, NEW n, Submits(r, n)
      PROVE  /\ call' # << >> => call'.frame < next'
             /\ \A f \in Frame : Fresh1(f) => Good(f)
  <2>1. /\ r \in Request /\ Fresh(r.frame) /\ Record(r) /\ r.frame \in Nat
    BY <1>3, SubmitsIs, RequestFacts
  <2>2. call' = << >>
    BY <1>1, <1>3 DEF Submits, ThreadInv, Restarting
  <2>3. r.frame < next' /\ next' \in Nat /\ next' >= next
    <3>1. CASE r \in Requests /\ next' = next + 1
      BY <1>1, <3>1, RequestsAre, TypeFacts
    <3>2. CASE r = call /\ pc["req"] = "relock" /\ next' = next
      BY <1>1, <3>2 DEF ThreadInv, Restarting
    <3> QED
      BY <1>3, <3>1, <3>2 DEF Submits
  <2>4. /\ \A f \in Frame : asked'[f] = IF f = r.frame THEN r.streams ELSE asked[f]
        /\ finals' = finals /\ returned' = returned
        /\ LentBuffers(bufmap') = LentBuffers(bufmap) \cup ({r.frame} \X r.streams)
    BY <2>1, RecordIs
  <2>5. PICK x \in Pending : x.frame = r.frame /\ Elems(pending') = Elems(pending) \cup {x}
    BY <2>1, RecordIs
  <2>6. ASSUME NEW f \in Frame, Fresh1(f) PROVE Good(f)
    <3>1. Fresh(f) /\ r.frame < f
      BY <1>1, <2>1, <2>2, <2>3, <2>6 DEF Fresh
    <3>2. /\ asked[f] = {} /\ finals[f] = 0 /\ \A s \in Streams : returned[<<f, s>>] = 0
          /\ \A p \in Elems(pending) : p.frame < f
          /\ \A b \in LentBuffers(bufmap) : b[1] < f
      BY <3>1, FreshFacts
    <3>3. f # r.frame
      BY <1>1, <2>1, <3>1
    <3> QED
      BY <2>4, <2>5, <3>1, <3>2, <3>3 DEF Good
  <2> QED
    BY <2>2, <2>6
<1>4. ASSUME UNCHANGED <<asked, call, next>>,
             Elems(pending') \subseteq Elems(pending)
               \/ \A p \in Elems(pending') : \E q \in Elems(pending) : p.frame = q.frame,
             LentBuffers(bufmap') \subseteq LentBuffers(bufmap),
             \A f \in Frame : Fresh(f) => /\ finals'[f] = 0
                                          /\ \A s \in Streams : returned'[<<f, s>>] = 0
      PROVE  /\ call' # << >> => call'.frame < next'
             /\ \A f \in Frame : Fresh1(f) => Good(f)
  <2>1. ASSUME NEW f \in Frame, Fresh(f) PROVE Good(f)
    BY <1>4, <2>1, FreshFacts DEF Good
  <2> QED
    BY <1>1, <1>4, <2>1 DEF Fresh
<1>5. \A f \in Frame : Fresh(f) => \A p \in Elems(pending) : p.frame # f
  BY <1>1, FreshFacts, ListFacts
<1>6. \A f \in Frame : Fresh(f) => \A s \in Streams : <<f, s>> \notin LentBuffers(bufmap)
  <2> SUFFICES ASSUME NEW f \in Frame, Fresh(f), NEW s \in Streams,
                      <<f, s>> \in LentBuffers(bufmap)
               PROVE  FALSE
    OBVIOUS
  <2>1. <<f, s>>[1] < f
    BY FreshFacts
  <2> QED
    BY <1>1, <2>1
<1>7. CASE NotifyAll /\ UNCHANGED <<asked, call, next>>
  <2>1. /\ Elems(pending') = {} /\ LentBuffers(bufmap') = {}
        /\ \A b \in Frame \X Streams :
              returned'[b] = returned[b] + (IF b \in LentBuffers(bufmap) THEN 1 ELSE 0)
        /\ \A f \in Frame :
              finals'[f] = finals[f] + (IF \E i \in Unanswered : bufmap[i].frame = f THEN 1 ELSE 0)
    BY <1>7, NotifyAllIs
  <2>2. ASSUME NEW f \in Frame, Fresh(f), NEW i \in Unanswered PROVE bufmap[i].frame # f
    <3>1. i \in DOMAIN bufmap
      BY DEF Unanswered, NotOlder
    <3>2. PICK s \in Streams : <<bufmap[i].frame, s>> \in LentBuffers(bufmap)
      BY <3>1, ListFacts, LentIs
    <3> QED
      BY <1>6, <2>2, <3>2
  <2>3. \A f \in Frame : Fresh(f) => /\ finals'[f] = 0
                                     /\ \A s \in Streams : returned'[<<f, s>>] = 0
    BY <1>6, <2>1, <2>2, FreshFacts
  <2> QED
    BY <1>4, <1>7, <2>1, <2>3
<1>8. ASSUME NEW f \in Frame, Metadata(f), UNCHANGED <<asked, call, next>>
      PROVE  /\ call' # << >> => call'.frame < next'
             /\ \A g \in Frame : Fresh1(g) => Good(g)
  <2>1. /\ Elems(pending') = Elems(pending) \ Done(f)
        /\ LentBuffers(bufmap') = LentBuffers(bufmap) \ DoneBufs(f)
        /\ \A b \in Frame \X Streams :
              returned'[b] = returned[b] + (IF b \in DoneBufs(f) THEN 1 ELSE 0)
        /\ \A g \in Frame :
              finals'[g] = finals[g] + (IF \E p \in Done(f) : p.frame = g THEN 1 ELSE 0)
    BY <1>8, MetadataIs
  <2>2. \A g \in Frame : Fresh(g) => /\ finals'[g] = 0
                                     /\ \A s \in Streams : returned'[<<g, s>>] = 0
    BY <1>5, <2>1, FreshFacts DEF Done, DoneBufs
  <2> QED
    BY <1>4, <1>8, <2>1, <2>2
<1>9. ASSUME NEW f \in Frame, NEW s \in Streams, HandleBuffer(f, s)
      PROVE  /\ call' # << >> => call'.frame < next'
             /\ \A g \in Frame : Fresh1(g) => Good(g)
  <2>1. UNCHANGED <<asked, call, next>>
    BY <1>9 DEF HandleBuffer, framework
  <2>2. <<f, s>> \in LentBuffers(bufmap)
    BY <1>9, BufferIs, ListFacts
  <2>3. CASE UNCHANGED lists
    <3>1. pending' = pending /\ bufmap' = bufmap /\ finals' = finals /\ returned' = returned
      BY <2>3 DEF lists
    <3> QED
      BY <1>4, <2>1, <3>1, FreshFacts
  <2>4. CASE BufferCached(f, s)
    <3>1. PICK p \in Elems(pending), x \in Pending :
                    /\ p.frame = f
                    /\ x.frame = f
                    /\ Elems(pending') = (Elems(pending) \ {p}) \cup {x}
      BY <2>4 DEF BufferCached
    <3>2. \A q \in Elems(pending') : \E o \in Elems(pending) : q.frame = o.frame
      BY <3>1
    <3> QED
      BY <1>4, <2>1, <2>4, <3>2, FreshFacts DEF BufferCached
  <2>5. CASE BufferDone(f, s)
    <3>1. /\ Elems(pending') \subseteq Elems(pending)
          /\ LentBuffers(bufmap') \subseteq LentBuffers(bufmap)
      BY <2>5 DEF BufferDone
    <3>2. \A g \in Frame : Fresh(g) => /\ finals'[g] = 0
                                       /\ \A u \in Streams : returned'[<<g, u>>] = 0
      <4> SUFFICES ASSUME NEW g \in Frame, Fresh(g)
                   PROVE  finals'[g] = 0 /\ \A u \in Streams : returned'[<<g, u>>] = 0
        OBVIOUS
      <4>1. finals[g] = 0 /\ \A u \in Streams : returned[<<g, u>>] = 0 /\ <<g, u>> # <<f, s>>
        BY <1>6, <2>2, FreshFacts
      <4>2. ~(g = f /\ \E p \in Elems(pending) : p.frame = f)
        BY <1>5
      <4>3. \A u \in Streams : returned'[<<g, u>>] = 0
        BY <2>5, <4>1 DEF BufferDone
      <4>4. finals'[g] = 0
        BY <2>5, <4>1, <4>2 DEF BufferDone
      <4> QED
        BY <4>3, <4>4
    <3> QED
      BY <1>4, <2>1, <3>1, <3>2
  <2> QED
    BY <1>9, <2>3, <2>4, <2>5, BufferIs
<1>10. ASSUME NEW f \in Frame, HandleInputBuffer(f)
       PROVE  /\ call' # << >> => call'.frame < next'
              /\ \A g \in Frame : Fresh1(g) => Good(g)
  <2>1. UNCHANGED <<asked, call, next, bufmap, returned>>
    BY <1>10 DEF HandleInputBuffer, framework
  <2>2. /\ Elems(pending') \subseteq Elems(pending)
        /\ \A g \in Frame :
              finals'[g] = finals[g]
                         + (IF g = f /\ (\E p \in Elems(pending) : p.frame = f) THEN 1 ELSE 0)
    BY <1>10, InputBufferIs
  <2>3. \A g \in Frame : Fresh(g) => /\ finals'[g] = 0
                                     /\ \A s \in Streams : returned'[<<g, s>>] = 0
    BY <1>5, <2>1, <2>2, FreshFacts
  <2> QED
    BY <1>4, <2>1, <2>2, <2>3
<1> QED
  BY <1>2, <1>3, <1>7, <1>8, <1>9, <1>10, ListCases

-----------------------------------------------------------------------------
(* The invariant holds.                                                    *)

LEMMA IInvInit == Init => IInv
<1> SUFFICES ASSUME Init PROVE IInv
  OBVIOUS
<1>1. TypeOK
  <2>1. camera \in Camera
    BY DEF Init, Camera
  <2>2. pc \in [Threads -> Places]
    BY DEF Init, Places
  <2>3. MaxFrame \in Nat /\ Word \in Nat /\ Word > 0 /\ world.maxFlush \in Nat
    BY Hal3Assumption DEF Init
  <2>4. /\ asked \in [Frame -> SUBSET Streams] /\ finals \in [Frame -> Nat]
        /\ returned \in [Frame \X Streams -> Nat]
    BY DEF Init
  <2>5. /\ live \in 0 .. Word - 1 /\ next \in 1 .. MaxFrame + 1
        /\ flushes \in 0 .. world.maxFlush
    BY <2>3 DEF Init
  <2>6. /\ world \in Worlds /\ mState = "CONFIGURED"
        /\ mFlush = FALSE /\ woken = FALSE /\ signal = FALSE
        /\ pending \in Seq(Pending) /\ bufmap \in Seq(Lent) /\ call = << >>
    BY DEF Init
  <2> QED
    BY <2>1, <2>2, <2>4, <2>5, <2>6 DEF TypeOK, Places
<1>2. ThreadInv
  BY DEF Init, ThreadInv, Restarting, OnDevice, Clearing, Threads
<1>3. Elems(pending) = {} /\ LentBuffers(bufmap) = {} /\ Sorted(pending)
  BY DEF Init, Elems, LentBuffers, Sorted
<1>4. ListInv
  BY <1>3 DEF Init, ListInv, AskedBuffers, BuffersAccounted
<1>5. FreshInv
  BY <1>3 DEF Init, FreshInv
<1> QED
  BY <1>1, <1>2, <1>4, <1>5 DEF IInv

LEMMA IInvStep == IInv /\ [Next]_vars => IInv'
<1> SUFFICES ASSUME IInv, [Next]_vars PROVE IInv'
  OBVIOUS
<1>1. CASE Next
  BY <1>1, TypeStep, ThreadStep, ListStep, FreshStep DEF IInv
<1>2. CASE UNCHANGED vars
  <2>1. TypeOK'
    BY <1>2 DEF IInv, TypeOK, vars
  <2>2. ThreadInv'
    BY <1>2 DEF IInv, ThreadInv, vars, Restarting, OnDevice, Clearing, Failed
  <2>3. ListInv'
    BY <1>2 DEF IInv, ListInv, vars, AskedBuffers, BuffersAccounted
  <2>4. FreshInv'
    BY <1>2 DEF IInv, FreshInv, vars, Fresh
  <2> QED
    BY <2>1, <2>2, <2>3, <2>4 DEF IInv
<1> QED
  BY <1>1, <1>2

LEMMA IInvAlways == Spec => []IInv
<1> QED
  BY IInvInit, IInvStep, PTL DEF Spec

\* The type invariant: the live count stays within its type, whatever is answered.
THEOREM TypesHold == Spec => []TypeOK
<1>1. IInv => TypeOK
  BY DEF IInv
<1> QED
  BY <1>1, IInvAlways, PTL

\* Every buffer of every request the HAL took is on mPendingBuffersMap or was given
\* back exactly once, whatever is flushed, restarted, refused or lost.
THEOREM BuffersKept == Spec => []BuffersAccounted
<1>1. IInv => BuffersAccounted
  BY DEF IInv, ListInv
<1> QED
  BY <1>1, IInvAlways, PTL

-----------------------------------------------------------------------------
(* Every request is answered once.  notifyErrorForPendingRequests() answers *)
(* what is on the map and not older than the oldest pending request: when a *)
(* reprocess request was completed by its input buffer and its output is    *)
(* still on the map, it answers that one again.  So reprocess requests and  *)
(* what clears the lists do not go together here.                           *)

OneKind(w) ==
  w.kinds \subseteq {"live"} \/ (w.maxFlush = 0 /\ w.faults \cap {"restart", "die"} = {})

Waits(f) == \E p \in Elems(pending) : p.frame = f

\* With live requests only, what is on the map from the oldest pending request on is
\* pending; without a flush or a restart nothing clears the lists.
KindInv ==
  /\ world.kinds \subseteq {"live"} =>
       /\ camera.inputs = {} /\ (call # << >> => ~call.input)
       /\ \A p \in Elems(pending) : ~p.input
       /\ \A p \in Elems(pending), b \in LentBuffers(bufmap) : b[1] >= p.frame => Waits(b[1])
  /\ ~(world.kinds \subseteq {"live"}) =>
       ~Failed /\ pc["req"] \in {"idle", "wait"} /\ pc["flu"] = "idle"

AnswerInv == KindInv /\ AnsweredOnce

LEMMA WorldStays == Next => world' = world
<1>1. ASSUME NEW r, NEW n, Submit(r, n) PROVE world' = world
  BY <1>1 DEF Submit
<1>2. ASSUME NEW r \in Requests, ProcessCaptureRequest(r) PROVE world' = world
  BY <1>1, <1>2 DEF ProcessCaptureRequest
<1> QED
  BY <1>1, <1>2 DEF Next, Req, ReqGoesOn, Flushing, Callback, RefuseRequest, ConfigureStreams, RestartStop,
     RestartNotify, RestartSubmit, WakeUp, TimeOut, Flush, FlushBegin, FlushStop, FlushClear,
     DeviceError, Deinit, HandleMetadata, HandleBuffer, HandleInputBuffer, HandleEmptyMetadata,
     DaemonPull, DaemonDies, framework

LEMMA AnsweredIs ==
  ASSUME pending \in Seq(Pending)
  PROVE  AnsweredOnce <=> \A f \in Frame : asked[f] # {} => finals[f] = IF Waits(f) THEN 0 ELSE 1
<1>1. \A f \in Frame : Find(f) = {} <=> ~Waits(f)
  BY DEF Find, Waits, Elems
<1> QED
  BY <1>1 DEF AnsweredOnce, Queued

\* What notifyErrorForPendingRequests() answers is what is pending.
LEMMA UnansweredIs ==
  ASSUME IInv, KindInv, world.kinds \subseteq {"live"}, NEW f \in Frame
  PROVE  (\E i \in Unanswered : bufmap[i].frame = f) <=> Waits(f)
<1>1. /\ pending \in Seq(Pending) /\ bufmap \in Seq(Lent) /\ Sorted(pending)
      /\ \A p \in Elems(pending) : p.frame \in Nat
  BY ListFacts, Hal3Assumption DEF Frame
<1>2. ASSUME NEW i \in Unanswered, bufmap[i].frame = f
      PROVE  Waits(f)
  <2>1. pending # << >> /\ i \in DOMAIN bufmap /\ bufmap[i].frame >= pending[1].frame
    BY DEF Unanswered, NotOlder
  <2>2. pending[1] \in Elems(pending)
    BY <1>1, <2>1 DEF Elems
  <2>3. PICK s \in Streams : <<f, s>> \in LentBuffers(bufmap)
    BY <1>1, <1>2, <2>1, LentIs
  <2>4. PICK b : b = <<f, s>> /\ b[1] = f /\ b \in LentBuffers(bufmap)
    BY <2>3
  <2>5. b[1] >= pending[1].frame
    BY <1>2, <2>1, <2>4
  <2> QED
    BY <2>2, <2>4, <2>5 DEF KindInv
<1>3. ASSUME Waits(f)
      PROVE  \E i \in Unanswered : bufmap[i].frame = f
  <2>1. PICK k \in DOMAIN pending : pending[k].frame = f
    BY <1>3 DEF Waits, Elems
  <2>2. pending # << >> /\ 1 \in DOMAIN pending /\ k \in 1 .. Len(pending)
    BY <1>1, <2>1
  <2>3. pending[1] \in Elems(pending) /\ pending[k] \in Elems(pending)
    BY <2>1, <2>2 DEF Elems
  <2>4. k = 1 \/ pending[1].frame < pending[k].frame
    BY <1>1, <2>1, <2>2 DEF Sorted
  <2>5. PICK s \in Streams : <<f, s>> \in LentBuffers(bufmap)
    BY <2>1, <2>3, ListFacts
  <2>6. PICK i \in DOMAIN bufmap : bufmap[i].frame = f
    BY <1>1, <2>5, LentIs
  <2>7. bufmap[i].frame >= pending[1].frame
    BY <1>1, <2>1, <2>3, <2>4, <2>6
  <2> QED
    BY <2>2, <2>6, <2>7 DEF Unanswered, NotOlder
<1> QED
  BY <1>2, <1>3

LEMMA AnsweredStep ==
  ASSUME IInv, AnswerInv, Next
  PROVE  AnsweredOnce'
<1> DEFINE Good(ps, a, n) ==
             \A f \in Frame : a[f] # {} => n[f] = IF \E p \in Elems(ps) : p.frame = f THEN 0 ELSE 1
<1>1. TypeOK /\ TypeOK' /\ KindInv
  BY TypeStep DEF IInv, AnswerInv
<1>2. Good(pending, asked, finals)
  BY <1>1, TypeFacts, AnsweredIs DEF AnswerInv, Waits
<1> SUFFICES Good(pending', asked', finals')
  <2>1. pending' \in Seq(Pending)
    BY <1>1 DEF TypeOK
  <2>2. \A f \in Frame : (Find(f) = {})' <=> ~\E p \in Elems(pending') : p.frame = f
    BY <2>1 DEF Find, Elems
  <2> QED
    BY <2>2 DEF AnsweredOnce, Queued
<1>3. CASE Quiet
  <2>1. pending' = pending /\ asked' = asked /\ finals' = finals
    BY <1>3 DEF Quiet, lists
  <2> QED
    BY <1>2, <2>1
<1>4. ASSUME NEW r, NEW n, Submits(r, n) PROVE Good(pending', asked', finals')
  <2>1. r \in Request /\ Fresh(r.frame) /\ Record(r) /\ r.frame \in Frame
    BY <1>4, SubmitsIs, RequestFacts
  <2>2. /\ \A f \in Frame : asked'[f] = IF f = r.frame THEN r.streams ELSE asked[f]
        /\ finals' = finals /\ finals[r.frame] = 0
    BY <2>1, RecordIs, FreshFacts
  <2>3. PICK x \in Pending : x.frame = r.frame /\ Elems(pending') = Elems(pending) \cup {x}
    BY <2>1, RecordIs
  <2> SUFFICES ASSUME NEW f \in Frame, asked'[f] # {}
               PROVE  finals'[f] = IF \E p \in Elems(pending') : p.frame = f THEN 0 ELSE 1
    OBVIOUS
  <2>4. CASE f = r.frame
    BY <2>2, <2>3, <2>4
  <2>5. CASE f # r.frame
    BY <1>2, <2>2, <2>3, <2>5
  <2> QED
    BY <2>4, <2>5
<1>5. CASE /\ NotifyAll /\ UNCHANGED asked
           /\ pc["req"] = "restarted" \/ \E t \in Threads : Clearing(t)
  <2>1. world.kinds \subseteq {"live"}
    BY <1>1, <1>5 DEF KindInv, Threads, Clearing
  <2>2. /\ Elems(pending') = {}
        /\ \A f \in Frame :
              finals'[f] = finals[f] + (IF \E i \in Unanswered : bufmap[i].frame = f THEN 1 ELSE 0)
    BY <1>5, NotifyAllIs
  <2>3. \A f \in Frame : finals'[f] = finals[f] + (IF Waits(f) THEN 1 ELSE 0)
    BY <1>1, <2>1, <2>2, UnansweredIs
  <2>4. \A f \in Frame : asked[f] # {} => finals'[f] = 1
    BY <1>2, <2>3 DEF Waits
  <2> QED
    BY <1>5, <2>2, <2>4
<1>6. ASSUME NEW F, UNCHANGED asked,
             \A p \in Elems(pending) : p \in F => p \notin Elems(pending'),
             \A p \in Elems(pending) : p \notin F => p \in Elems(pending'),
             Elems(pending') \subseteq Elems(pending),
             \A g \in Frame :
               finals'[g] = finals[g] + (IF \E p \in Elems(pending) : p \in F /\ p.frame = g THEN 1 ELSE 0)
      PROVE  Good(pending', asked', finals')
  <2> SUFFICES ASSUME NEW f \in Frame, asked[f] # {}
               PROVE  finals'[f] = IF \E p \in Elems(pending') : p.frame = f THEN 0 ELSE 1
    BY <1>6
  <2>1. finals[f] = IF \E p \in Elems(pending) : p.frame = f THEN 0 ELSE 1
    BY <1>2
  <2>2. CASE \E p \in Elems(pending) : p \in F /\ p.frame = f
    <3>1. PICK p \in Elems(pending) : p \in F /\ p.frame = f
      BY <2>2
    <3>2. ~\E q \in Elems(pending') : q.frame = f
      BY <1>6, <3>1, ListFacts
    <3>3. finals[f] = 0 /\ finals'[f] = finals[f] + 1
      BY <1>6, <2>1, <2>2
    <3> QED
      BY <3>2, <3>3
  <2>3. CASE ~\E p \in Elems(pending) : p \in F /\ p.frame = f
    <3>1. (\E p \in Elems(pending') : p.frame = f) <=> \E p \in Elems(pending) : p.frame = f
      BY <1>6, <2>3
    <3>2. finals'[f] = finals[f] + 0
      BY <1>6, <2>3
    <3> QED
      BY <2>1, <3>1, <3>2
  <2> QED
    BY <2>2, <2>3
<1>7. ASSUME NEW f \in Frame, Metadata(f), UNCHANGED asked
      PROVE  Good(pending', asked', finals')
  <2>1. /\ Elems(pending') = Elems(pending) \ Done(f)
        /\ \A g \in Frame :
              finals'[g] = finals[g] + (IF \E p \in Done(f) : p.frame = g THEN 1 ELSE 0)
    BY <1>7, MetadataIs
  <2>2. \A g : (\E p \in Done(f) : p.frame = g) <=> \E p \in Elems(pending) : p \in Done(f) /\ p.frame = g
    BY DEF Done
  <2> QED
    BY <1>6, <1>7, <2>1, <2>2
<1>8. ASSUME NEW f \in Frame, UNCHANGED asked,
             Elems(pending') = Elems(pending) \ {p \in Elems(pending) : p.frame = f},
             \A g \in Frame :
               finals'[g] = finals[g]
                          + (IF g = f /\ (\E p \in Elems(pending) : p.frame = f) THEN 1 ELSE 0)
      PROVE  Good(pending', asked', finals')
  <2>1. PICK F : F = {p \in Elems(pending) : p.frame = f}
    OBVIOUS
  <2>2. \A g : (g = f /\ \E p \in Elems(pending) : p.frame = f)
                 <=> \E p \in Elems(pending) : p \in F /\ p.frame = g
    BY <2>1
  <2>3. \A g \in Frame :
          finals'[g] = finals[g] + (IF \E p \in Elems(pending) : p \in F /\ p.frame = g THEN 1 ELSE 0)
    BY <1>8, <2>2
  <2>4. \A p \in Elems(pending) : p \in F => p \notin Elems(pending')
    BY <1>8, <2>1
  <2>5. \A p \in Elems(pending) : p \notin F => p \in Elems(pending')
    BY <1>8, <2>1
  <2>6. Elems(pending') \subseteq Elems(pending)
    BY <1>8
  <2> HIDE DEF Good
  <2> QED
    BY <1>6, <1>8, <2>3, <2>4, <2>5, <2>6
<1>9. ASSUME NEW f \in Frame, NEW s \in Streams, HandleBuffer(f, s)
      PROVE  Good(pending', asked', finals')
  <2>1. UNCHANGED asked
    BY <1>9 DEF HandleBuffer, framework
  <2>2. CASE UNCHANGED lists
    <3>1. pending' = pending /\ finals' = finals
      BY <2>2 DEF lists
    <3> QED
      BY <1>2, <2>1, <3>1
  <2>3. CASE BufferCached(f, s)
    <3>1. PICK p \in Elems(pending), x \in Pending :
                    /\ p.frame = f /\ x.frame = f
                    /\ Elems(pending') = (Elems(pending) \ {p}) \cup {x}
                    /\ finals' = finals
      BY <2>3 DEF BufferCached
    <3>2. \A g : (\E q \in Elems(pending') : q.frame = g) <=> \E q \in Elems(pending) : q.frame = g
      BY <3>1
    <3> QED
      BY <1>2, <2>1, <3>1, <3>2
  <2>4. CASE BufferDone(f, s)
    BY <1>8, <2>1, <2>4 DEF BufferDone
  <2> QED
    BY <1>9, <2>2, <2>3, <2>4, BufferIs
<1>10. ASSUME NEW f \in Frame, HandleInputBuffer(f)
       PROVE  Good(pending', asked', finals')
  <2>1. UNCHANGED asked
    BY <1>10 DEF HandleInputBuffer, framework
  <2> QED
    BY <1>8, <1>10, <2>1, InputBufferIs
<1> QED
  BY <1>3, <1>4, <1>5, <1>7, <1>9, <1>10, ListCases

\* In a world of live requests no input buffer is ever given to the camera.
LEMMA KindInputs ==
  ASSUME IInv, KindInv, Next, world.kinds \subseteq {"live"}
  PROVE  camera'.inputs = {} /\ (call' # << >> => ~call'.input)
<1>1. /\ ThreadInv /\ TypeOK /\ camera \in Camera /\ world \in Worlds
      /\ camera.inputs = {} /\ (call # << >> => ~call.input)
  BY TypeFacts DEF IInv, KindInv
<1>2. ASSUME NEW r, NEW n, Submits(r, n)
      PROVE  camera'.inputs = {} /\ (call' # << >> => ~call'.input)
  <2>1. ~r.input
    BY <1>1, <1>2, RequestsAre DEF Submits, ThreadInv, Restarting
  <2>2. camera'.inputs = camera.inputs
    BY <1>2, <2>1, SubmitsIs
  <2>3. call' = << >>
    BY <1>1, <1>2 DEF Submits, ThreadInv, Restarting
  <2> QED
    BY <1>1, <2>2, <2>3
<1>3. CASE Req
  <2>1. ASSUME NEW r \in Requests, ProcessCaptureRequest(r)
        PROVE  camera'.inputs = {} /\ (call' # << >> => ~call'.input)
    BY <1>1, <1>2, <2>1, ProcessCases
  <2>2. CASE RefuseRequest
    BY <1>1, <2>2 DEF RefuseRequest
  <2>3. CASE ConfigureStreams
    <3>1. camera'.inputs = {}
      BY <1>1, <2>3, StoppedIs, OpenIs DEF ConfigureStreams, Idle
    <3> QED
      BY <1>1, <2>3, <3>1 DEF ConfigureStreams, framework
  <2> QED
    BY <1>3, <2>1, <2>2, <2>3 DEF Req
<1>4. CASE ReqGoesOn
  <2>1. CASE RestartStop
    BY <1>1, <2>1, StoppedIs DEF RestartStop, framework, Idle
  <2>2. CASE RestartNotify
    BY <1>1, <2>2, OpenIs DEF RestartNotify, framework
  <2>3. CASE RestartSubmit
    BY <1>2, <2>3, RestartSubmits
  <2>4. CASE WakeUp \/ TimeOut
    BY <1>1, <2>4 DEF WakeUp, TimeOut, framework
  <2> QED
    BY <1>4, <2>1, <2>2, <2>3, <2>4 DEF ReqGoesOn
<1>5. CASE Flush
  BY <1>1, <1>5 DEF Flush
<1>6. ASSUME NEW t \in Threads, Flushing(t)
      PROVE  camera'.inputs = {} /\ (call' # << >> => ~call'.input)
  <2>1. CASE FlushStop(t)
    BY <1>1, <2>1, StoppedIs DEF FlushStop, framework, Idle
  <2>2. CASE FlushClear(t)
    BY <1>1, <2>2, OpenIs DEF FlushClear, framework
  <2>3. CASE FlushBegin(t) \/ DeviceError(t) \/ Deinit(t)
    BY <1>1, <2>3 DEF FlushBegin, DeviceError, Deinit, framework
  <2> QED
    BY <1>6, <2>1, <2>2, <2>3 DEF Flushing
<1>7. CASE Callback
  <2>1. ASSUME NEW f \in Frame, HandleMetadata(f)
        PROVE  camera'.inputs = {} /\ (call' # << >> => ~call'.input)
    BY <1>1, <2>1, MetasIs DEF HandleMetadata, framework
  <2>2. ASSUME NEW f \in Frame, HandleInputBuffer(f)
        PROVE  camera'.inputs = {} /\ (call' # << >> => ~call'.input)
    BY <1>1, <2>2 DEF HandleInputBuffer
  <2>3. ASSUME NEW f \in Frame, NEW s \in Streams, HandleBuffer(f, s)
        PROVE  camera'.inputs = {} /\ (call' # << >> => ~call'.input)
    <3>1. camera'.inputs = camera.inputs \ {f}
      BY <2>3, BufferIs
    <3>2. call' = call
      BY <2>3 DEF HandleBuffer, framework
    <3> QED
      BY <1>1, <3>1, <3>2
  <2>4. CASE HandleEmptyMetadata \/ DaemonPull
    BY <1>1, <2>4 DEF HandleEmptyMetadata, DaemonPull, framework
  <2>5. CASE DaemonDies
    BY <1>1, <2>5, DeadIs DEF DaemonDies, framework
  <2> QED
    BY <1>7, <2>1, <2>2, <2>3, <2>4, <2>5 DEF Callback
<1> QED
  BY <1>3, <1>4, <1>5, <1>6, <1>7 DEF Next

LEMMA KindLists ==
  ASSUME IInv, KindInv, Next, world.kinds \subseteq {"live"}
  PROVE  /\ \A p \in Elems(pending') : ~p.input
         /\ \A p \in Elems(pending'), b \in LentBuffers(bufmap') :
              b[1] >= p.frame => \E q \in Elems(pending') : q.frame = b[1]
<1> DEFINE Good(ps, m) ==
             /\ \A p \in Elems(ps) : ~p.input
             /\ \A p \in Elems(ps), b \in LentBuffers(m) :
                  b[1] >= p.frame => \E q \in Elems(ps) : q.frame = b[1]
<1> SUFFICES Good(pending', bufmap')
  OBVIOUS
<1>1. /\ ThreadInv /\ TypeOK /\ world \in Worlds /\ Frame \subseteq Nat
      /\ camera.inputs = {} /\ (call # << >> => ~call.input)
  BY TypeFacts, Hal3Assumption DEF IInv, KindInv, Frame
<1>2. Good(pending, bufmap)
  BY DEF KindInv, Waits
<1>3. CASE UNCHANGED lists
  BY <1>2, <1>3 DEF lists
<1>4. ASSUME NEW r, NEW n, Submits(r, n) PROVE Good(pending', bufmap')
  <2>1. /\ r \in Request /\ Fresh(r.frame) /\ Record(r) /\ r.frame \in Frame
        /\ r.streams \subseteq Streams
    BY <1>4, SubmitsIs, RequestFacts
  <2>2. ~r.input
    BY <1>1, <1>4, RequestsAre DEF Submits, ThreadInv, Restarting
  <2>3. LentBuffers(bufmap') = LentBuffers(bufmap) \cup ({r.frame} \X r.streams)
    BY <2>1, RecordIs
  <2>4. PICK x \in Pending : /\ x.frame = r.frame /\ x.input = r.input
                             /\ Elems(pending') = Elems(pending) \cup {x}
    BY <2>1, RecordIs
  <2>5. \A b \in LentBuffers(bufmap) : b[1] < r.frame
    BY <2>1, FreshFacts
  <2>6. ASSUME NEW p \in Elems(pending'), NEW b \in LentBuffers(bufmap'), b[1] >= p.frame
        PROVE  \E q \in Elems(pending') : q.frame = b[1]
    <3>1. CASE b \in {r.frame} \X r.streams
      <4>1. b[1] = r.frame
        BY <3>1
      <4> QED
        BY <2>4, <4>1
    <3>2. CASE b \in LentBuffers(bufmap)
      <4>1. b[1] < r.frame /\ b[1] \in Nat /\ r.frame \in Nat
        BY <1>1, <2>1, <2>5, <3>2, ListFacts
      <4>2. p \in Elems(pending)
        BY <2>4, <2>6, <4>1
      <4> QED
        BY <1>2, <2>4, <2>6, <3>2, <4>2
    <3> QED
      BY <2>3, <3>1, <3>2
  <2> QED
    BY <1>2, <2>2, <2>4, <2>6
<1>5. CASE NotifyAll
  BY <1>5, NotifyAllIs
<1>6. ASSUME NEW f \in Frame, Metadata(f) PROVE Good(pending', bufmap')
  <2>1. /\ Elems(pending') = Elems(pending) \ Done(f)
        /\ LentBuffers(bufmap') \subseteq LentBuffers(bufmap)
    BY <1>6, MetadataIs
  <2>2. \A p \in Elems(pending) : p \in Done(f) <=> p.frame <= f
    BY <1>2 DEF Done
  <2>3. ASSUME NEW p \in Elems(pending'), NEW b \in LentBuffers(bufmap'), b[1] >= p.frame
        PROVE  \E q \in Elems(pending') : q.frame = b[1]
    <3>1. p \in Elems(pending) /\ ~(p.frame <= f) /\ b \in LentBuffers(bufmap)
      BY <2>1, <2>2
    <3>2. PICK q \in Elems(pending) : q.frame = b[1]
      BY <1>2, <2>3, <3>1
    <3>3. p.frame \in Nat /\ q.frame \in Nat /\ f \in Nat
      BY <1>1, <3>1, ListFacts
    <3>4. ~(q.frame <= f)
      BY <2>3, <3>1, <3>2, <3>3
    <3> QED
      BY <2>1, <2>2, <3>2, <3>4
  <2> QED
    BY <1>2, <2>1, <2>3
<1>7. ASSUME NEW f \in Frame, NEW s \in Streams, HandleBuffer(f, s)
      PROVE  Good(pending', bufmap')
  <2>1. CASE BufferCached(f, s)
    <3>1. PICK p \in Elems(pending), x \in Pending :
                    /\ p.frame = f /\ x.frame = f /\ x.input = p.input
                    /\ Elems(pending') = (Elems(pending) \ {p}) \cup {x}
                    /\ bufmap' = bufmap
      BY <2>1 DEF BufferCached
    <3>2. /\ \A g : (\E q \in Elems(pending') : q.frame = g) <=> \E q \in Elems(pending) : q.frame = g
          /\ \A q \in Elems(pending') : \E o \in Elems(pending) : q.frame = o.frame
          /\ \A q \in Elems(pending') : ~q.input
      BY <1>2, <3>1
    <3> QED
      BY <1>2, <3>1, <3>2
  <2>2. CASE BufferDone(f, s)
    <3>1. \A p \in Elems(pending) : p.frame # f
      BY <1>2, <2>2 DEF BufferDone
    <3>2. Elems(pending') = Elems(pending) /\ LentBuffers(bufmap') \subseteq LentBuffers(bufmap)
      BY <2>2, <3>1 DEF BufferDone
    <3> QED
      BY <1>2, <3>2
  <2> QED
    BY <1>3, <1>7, <2>1, <2>2, BufferIs
<1>8. ASSUME NEW f \in Frame, HandleInputBuffer(f)
      PROVE  Good(pending', bufmap')
  BY <1>1, <1>8 DEF HandleInputBuffer
<1> QED
  BY <1>3, <1>4, <1>5, <1>6, <1>7, <1>8, ListCases DEF Quiet

\* In the other worlds nothing clears the lists.
LEMMA KindCalm ==
  ASSUME IInv, KindInv, Next, ~(world.kinds \subseteq {"live"}), OneKind(world)
  PROVE  (~Failed)' /\ pc'["req"] \in {"idle", "wait"} /\ pc'["flu"] = "idle"
<1>1. /\ TypeOK /\ pc \in [Threads -> Places] /\ flushes \in 0 .. world.maxFlush
      /\ ~Failed /\ pc["req"] \in {"idle", "wait"} /\ pc["flu"] = "idle"
      /\ world.maxFlush = 0 /\ "restart" \notin world.faults /\ "die" \notin world.faults
  BY TypeFacts DEF IInv, KindInv, OneKind
<1> USE DEF Threads, Places
<1>2. ASSUME NEW r, NEW n, Submits(r, n)
      PROVE  (~Failed)' /\ pc'["req"] \in {"idle", "wait"} /\ pc'["flu"] = "idle"
  BY <1>1, <1>2, SubmitsIs DEF Failed
<1>3. CASE Req
  <2>1. ASSUME NEW r \in Requests, ProcessCaptureRequest(r)
        PROVE  (~Failed)' /\ pc'["req"] \in {"idle", "wait"} /\ pc'["flu"] = "idle"
    BY <1>1, <1>2, <2>1, ProcessCases
  <2>2. CASE RefuseRequest
    BY <1>1, <2>2 DEF RefuseRequest, Failed
  <2>3. CASE ConfigureStreams
    BY <1>1, <2>3 DEF ConfigureStreams, Failed
  <2> QED
    BY <1>3, <2>1, <2>2, <2>3 DEF Req
<1>4. CASE ReqGoesOn
  <2>1. CASE RestartStop \/ RestartNotify
    BY <1>1, <2>1 DEF RestartStop, RestartNotify
  <2>2. CASE RestartSubmit
    BY <1>2, <2>2, RestartSubmits
  <2>3. CASE WakeUp
    <3>1. Go("req", "idle") \/ Go("req", "wait")
      BY <2>3 DEF WakeUp
    <3>2. pc'["req"] \in {"idle", "wait"} /\ pc'["flu"] = pc["flu"]
      BY <1>1, <3>1, GoIs
    <3> QED
      BY <1>1, <2>3, <3>2 DEF WakeUp, Failed
  <2>4. CASE TimeOut
    <3>1. pc'["req"] = "idle" /\ pc'["flu"] = pc["flu"]
      BY <1>1, <2>4, GoIs DEF TimeOut
    <3> QED
      BY <1>1, <2>4, <3>1 DEF TimeOut, Failed
  <2> QED
    BY <1>4, <2>1, <2>2, <2>3, <2>4 DEF ReqGoesOn
<1>5. ~Flush
  BY <1>1 DEF Flush
<1>6. ASSUME NEW t \in Threads, Flushing(t) PROVE FALSE
  BY <1>1, <1>6 DEF Flushing, FlushBegin, FlushStop, FlushClear, DeviceError, Deinit
<1>7. CASE Callback
  BY <1>1, <1>7 DEF Callback, HandleMetadata, HandleInputBuffer, HandleBuffer, HandleEmptyMetadata,
     DaemonPull, DaemonDies, Failed
<1> QED
  BY <1>3, <1>4, <1>5, <1>6, <1>7 DEF Next

LEMMA KindStep ==
  ASSUME IInv, KindInv, Next, OneKind(world)
  PROVE  KindInv'
<1>1. CASE world.kinds \subseteq {"live"}
  BY <1>1, WorldStays, KindInputs, KindLists DEF KindInv, Waits
<1>2. CASE ~(world.kinds \subseteq {"live"})
  BY <1>2, WorldStays, KindCalm DEF KindInv
<1> QED
  BY <1>1, <1>2

LEMMA AnswerAlways == (\A w \in Worlds : OneKind(w)) /\ Spec => [](IInv /\ AnswerInv)
<1> SUFFICES ASSUME \A w \in Worlds : OneKind(w) PROVE Spec => [](IInv /\ AnswerInv)
  OBVIOUS
<1>1. Init => AnswerInv
  <2> SUFFICES ASSUME Init PROVE AnswerInv
    OBVIOUS
  <2>1. KindInv
    BY DEF Init, KindInv, Elems, Failed, Threads
  <2>2. AnsweredOnce
    BY DEF Init, AnsweredOnce, Queued
  <2> QED
    BY <2>1, <2>2 DEF AnswerInv
<1>2. IInv /\ AnswerInv /\ [Next]_vars => AnswerInv'
  <2> SUFFICES ASSUME IInv, AnswerInv, [Next]_vars PROVE AnswerInv'
    OBVIOUS
  <2>1. CASE Next
    <3>1. world \in Worlds
      BY TypeFacts DEF IInv
    <3> QED
      BY <2>1, <3>1, KindStep, AnsweredStep DEF AnswerInv
  <2>2. CASE UNCHANGED vars
    BY <2>2 DEF AnswerInv, vars, KindInv, Waits, AnsweredOnce, Queued, Find, Failed
  <2> QED
    BY <2>1, <2>2
<1> QED
  BY <1>1, <1>2, IInvInit, IInvStep, PTL DEF Spec

\* Where reprocess requests and flushes do not meet, a request leaves
\* mPendingRequestsList with one answer, its result or ERROR_REQUEST, and never gets
\* a second one, whatever is restarted, refused or lost.
THEOREM AnsweredOnceAlways == (\A w \in Worlds : OneKind(w)) /\ Spec => []AnsweredOnce
<1>1. IInv /\ AnswerInv => AnsweredOnce
  BY DEF AnswerInv
<1> QED
  BY <1>1, AnswerAlways, PTL

LEMMA FlushEnds ==
  ASSUME IInv, AnswerInv, Next, IInv', AnswerInv', mFlush, ~mFlush'
  PROVE  \A f \in Queued : finals'[f] = 1 /\ \A s \in asked[f] : returned'[<<f, s>>] = 1
<1>1. NotifyAll /\ asked' = asked
  <2>1. ASSUME NEW r, NEW n, Submits(r, n) PROVE FALSE
    BY <2>1, SubmitsIs
  <2>2. ~Req
    <3>1. ASSUME NEW r \in Requests, ProcessCaptureRequest(r) PROVE FALSE
      BY <2>1, <3>1, ProcessCases
    <3> QED
      BY <3>1 DEF Req, RefuseRequest, ConfigureStreams
  <2>3. ~ReqGoesOn
    BY <2>1, RestartSubmits DEF ReqGoesOn, RestartStop, RestartNotify, WakeUp, TimeOut
  <2>4. ~Flush /\ ~Callback
    BY DEF Flush, Callback, HandleMetadata, HandleInputBuffer, HandleBuffer, HandleEmptyMetadata,
       DaemonPull, DaemonDies
  <2>5. PICK t \in Threads : FlushClear(t)
    BY <2>2, <2>3, <2>4 DEF Next, Flushing, FlushBegin, FlushStop, DeviceError, Deinit
  <2> QED
    BY <2>5 DEF FlushClear, framework
<1>2. Elems(pending') = {} /\ LentBuffers(bufmap') = {} /\ pending' \in Seq(Pending)
  BY <1>1, NotifyAllIs
<1>3. \A f \in Frame : asked'[f] # {} => finals'[f] = 1
  <2>1. \A f \in Frame : (Find(f) = {})'
    BY <1>2 DEF Find, Elems
  <2> QED
    BY <2>1 DEF AnswerInv, AnsweredOnce, Queued
<1>4. \A b \in Frame \X Streams : b[2] \in asked'[b[1]] => returned'[b] = 1
  BY <1>2 DEF IInv, ListInv, BuffersAccounted, AskedBuffers
<1>5. asked \in [Frame -> SUBSET Streams]
  BY TypeFacts DEF IInv
<1> SUFFICES ASSUME NEW f \in Frame, asked[f] # {}
             PROVE  finals'[f] = 1 /\ \A s \in asked[f] : returned'[<<f, s>>] = 1
  BY DEF Queued
<1>6. finals'[f] = 1
  BY <1>1, <1>3
<1>7. ASSUME NEW s \in asked[f] PROVE returned'[<<f, s>>] = 1
  BY <1>1, <1>4, <1>5
<1> QED
  BY <1>6, <1>7

\* In the same worlds, when flush() has ended, whatever was queued before or during it
\* has its one answer, and every buffer is back with the framework.
THEOREM FlushAnswersAll == (\A w \in Worlds : OneKind(w)) /\ Spec => FlushLeavesNothing
<1> SUFFICES ASSUME \A w \in Worlds : OneKind(w) PROVE Spec => FlushLeavesNothing
  OBVIOUS
<1>1. /\ IInv /\ AnswerInv /\ IInv' /\ AnswerInv' /\ [Next]_vars
      => [Undisturbed /\ mFlush /\ ~mFlush' =>
            \A f \in Queued : finals'[f] = 1 /\ \A s \in asked[f] : returned'[<<f, s>>] = 1]_vars
  BY FlushEnds
<1> QED
  BY <1>1, AnswerAlways, PTL DEF Spec, FlushLeavesNothing

-----------------------------------------------------------------------------
(* Nothing is left in DEINIT.                                              *)

\* When the loss of the device is not met by a restart of the sensor or by a stop of
\* the channels that fails, it ends with the flush before DEINIT.
CleanLoss(w) == "die" \notin w.faults \/ w.faults \cap {"restart", "stop"} = {}

DeinitInv ==
  /\ \A t \in Threads : pc[t] = "device" \/ OnDevice(t) => Failed
  /\ Failed => "die" \in world.faults
  /\ Restarting => "restart" \in world.faults
  /\ mState = "DEINIT" \/ (\E t \in Threads : pc[t] = "deinit") => pending = << >> /\ bufmap = << >>

LEMMA DeinitStep ==
  ASSUME IInv, DeinitInv, Next, CleanLoss(world)
  PROVE  DeinitInv'
<1> DEFINE Gone(s, p, ps, m) == s = "DEINIT" \/ (\E t \in Threads : p[t] = "deinit") => ps = << >> /\ m = << >>
<1>1. /\ ThreadInv /\ TypeOK /\ pc \in [Threads -> Places] /\ world' = world
      /\ \A t \in Threads : pc[t] = "device" \/ OnDevice(t) => Failed
      /\ Failed => "die" \in world.faults
      /\ Restarting => "restart" \in world.faults
      /\ "die" \in world.faults => "restart" \notin world.faults /\ "stop" \notin world.faults
      /\ Gone(mState, pc, pending, bufmap)
  BY TypeFacts, WorldStays DEF IInv, DeinitInv, CleanLoss
<1> USE DEF Threads, Places
<1>2. ASSUME NEW r, NEW n, Submits(r, n) PROVE DeinitInv'
  <2>1. ~Failed /\ pc'["req"] \in {"idle", "wait"} /\ pc'["flu"] = pc["flu"] /\ mState' \in {mState, "STARTED"}
    BY <1>1, <1>2, SubmitsIs DEF Submits, Restarting
  <2> QED
    BY <1>1, <2>1 DEF DeinitInv, OnDevice, Failed, Restarting
<1>3. ASSUME UNCHANGED <<pending, bufmap, mState>>,
             NEW t \in Threads, \A u \in Threads : u # t => pc'[u] = pc[u],
             \/ pc'[t] \notin {"restart", "restarted", "relock", "device", "deviceFlush", "deviceStop",
                               "deviceClear", "deinit"}
             \/ mState = "ERROR" /\ pc'[t] \in {"device", "deviceFlush"}
             \/ OnDevice(t) /\ pc'[t] \in {"deviceStop", "deviceClear"}
             \/ "restart" \in world.faults /\ pc'[t] \in {"restart", "restarted", "relock"}
      PROVE  DeinitInv'
  BY <1>1, <1>3 DEF DeinitInv, OnDevice, Failed, Restarting
<1>4. CASE Req
  <2>1. ASSUME NEW r \in Requests, ProcessCaptureRequest(r) PROVE DeinitInv'
    <3>1. CASE /\ "restart" \in world.faults /\ Go("req", "restart")
               /\ UNCHANGED <<mState, mFlush, lists, live, woken, signal, camera, flushes, asked, world>>
      <4>1. pc'["req"] = "restart" /\ pc'["flu"] = pc["flu"]
        BY <1>1, <3>1, GoIs
      <4>2. UNCHANGED <<pending, bufmap, mState>>
        BY <3>1 DEF lists
      <4> QED
        BY <1>3, <3>1, <4>1, <4>2
    <3> QED
      BY <1>2, <2>1, <3>1, ProcessCases
  <2>2. CASE RefuseRequest
    <3>1. UNCHANGED <<pending, bufmap, mState>>
      BY <2>2 DEF RefuseRequest, lists
    <3>2. CASE mState = "ERROR" /\ Go("req", "device")
      <4>1. pc'["req"] = "device" /\ pc'["flu"] = pc["flu"]
        BY <1>1, <3>2, GoIs
      <4> QED
        BY <1>3, <3>1, <3>2, <4>1
    <3>3. CASE UNCHANGED pc
      BY <1>1, <3>1, <3>3 DEF DeinitInv, OnDevice, Failed, Restarting
    <3> QED
      BY <2>2, <3>2, <3>3 DEF RefuseRequest
  <2>3. CASE ConfigureStreams
    BY <1>1, <2>3 DEF ConfigureStreams, lists, DeinitInv, OnDevice, Failed, Restarting
  <2> QED
    BY <1>4, <2>1, <2>2, <2>3 DEF Req
<1>5. ASSUME NotifyAll, UNCHANGED mState,
             NEW t \in Threads, \A u \in Threads : u # t => pc'[u] = pc[u],
             \/ pc'[t] = "idle" \/ (OnDevice(t) /\ pc'[t] = "deinit")
             \/ Restarting /\ pc'[t] = "relock"
      PROVE  DeinitInv'
  <2>1. pending' = << >> /\ bufmap' = << >>
    BY <1>5, NotifyAllIs
  <2> QED
    BY <1>1, <1>5, <2>1 DEF DeinitInv, OnDevice, Failed, Restarting
<1>6. CASE ReqGoesOn
  <2>1. CASE RestartStop
    <3>1. pc'["req"] = "restarted" /\ pc'["flu"] = pc["flu"] /\ Restarting
      BY <1>1, <2>1, GoIs DEF RestartStop, Restarting
    <3> QED
      BY <1>1, <1>3, <2>1, <3>1 DEF RestartStop, lists
  <2>2. CASE RestartNotify
    <3>1. pc'["req"] = "relock" /\ pc'["flu"] = pc["flu"] /\ Restarting
      BY <1>1, <2>2, GoIs DEF RestartNotify, Restarting
    <3> QED
      BY <1>5, <2>2, <3>1 DEF RestartNotify
  <2>3. CASE RestartSubmit
    BY <1>2, <2>3, RestartSubmits
  <2>4. CASE WakeUp
    <3>1. Go("req", "idle") \/ Go("req", "wait")
      BY <2>4 DEF WakeUp
    <3>2. pc'["req"] \in {"idle", "wait"} /\ pc'["flu"] = pc["flu"]
      BY <1>1, <3>1, GoIs
    <3> QED
      BY <1>3, <2>4, <3>2 DEF WakeUp, lists
  <2>5. CASE TimeOut
    <3>1. pc'["req"] = "idle" /\ pc'["flu"] = pc["flu"]
      BY <1>1, <2>5, GoIs DEF TimeOut
    <3> QED
      BY <1>3, <2>5, <3>1 DEF TimeOut, lists
  <2> QED
    BY <1>6, <2>1, <2>2, <2>3, <2>4, <2>5 DEF ReqGoesOn
<1>7. CASE Flush
  <2>1. /\ pc'["req"] = pc["req"]
        /\ pc'["flu"] = "flush" \/ (mState = "ERROR" /\ pc'["flu"] = "device")
    BY <1>1, <1>7, GoIs DEF Flush
  <2> QED
    BY <1>3, <1>7, <2>1 DEF Flush, lists
<1>8. ASSUME NEW t \in Threads, Flushing(t) PROVE DeinitInv'
  <2>1. CASE FlushBegin(t)
    <3>1. /\ \A u \in Threads : u # t => pc'[u] = pc[u]
          /\ pc'[t] = "stop" \/ (OnDevice(t) /\ pc'[t] = "deviceStop")
      BY <1>1, <2>1, GoIs DEF FlushBegin, OnDevice
    <3> QED
      BY <1>3, <2>1, <3>1 DEF FlushBegin, lists
  <2>2. CASE FlushStop(t)
    <3>1. /\ \A u \in Threads : u # t => pc'[u] = pc[u]
          /\ \/ pc'[t] \in {"clear", "idle"}
             \/ OnDevice(t) /\ pc'[t] = "deviceClear"
             \/ OnDevice(t) /\ "stop" \in world.faults
      BY <1>1, <2>2, GoIs DEF FlushStop, OnDevice
    <3>2. ~(OnDevice(t) /\ "stop" \in world.faults)
      BY <1>1
    <3> QED
      BY <1>3, <2>2, <3>1, <3>2 DEF FlushStop, lists
  <2>3. CASE FlushClear(t)
    <3>1. /\ \A u \in Threads : u # t => pc'[u] = pc[u]
          /\ pc'[t] = "idle" \/ (OnDevice(t) /\ pc'[t] = "deinit")
      BY <1>1, <2>3, GoIs DEF FlushClear, OnDevice
    <3> QED
      BY <1>5, <2>3, <3>1 DEF FlushClear
  <2>4. CASE DeviceError(t)
    <3>1. (mState = "ERROR" /\ Go(t, "deviceFlush")) \/ Go(t, "idle")
      BY <2>4 DEF DeviceError
    <3>2. /\ \A u \in Threads : u # t => pc'[u] = pc[u]
          /\ (mState = "ERROR" /\ pc'[t] = "deviceFlush") \/ pc'[t] = "idle"
      BY <1>1, <3>1, GoIs
    <3> QED
      BY <1>3, <2>4, <3>2 DEF DeviceError, lists
  <2>5. CASE Deinit(t)
    <3>1. /\ \A u \in Threads : u # t => pc'[u] = pc[u]
          /\ pc[t] = "deinit" /\ pc'[t] = "idle"
      BY <1>1, <2>5, GoIs DEF Deinit
    <3>2. mState' = "DEINIT" /\ UNCHANGED <<pending, bufmap>>
      BY <2>5 DEF Deinit, lists
    <3> QED
      BY <1>1, <3>1, <3>2 DEF DeinitInv, OnDevice, Failed, Restarting
  <2> QED
    BY <1>8, <2>1, <2>2, <2>3, <2>4, <2>5 DEF Flushing
<1>9. ASSUME UNCHANGED <<mState, pc>>,
             mState = "DEINIT" \/ (\E t \in Threads : pc[t] = "deinit") => UNCHANGED <<pending, bufmap>>
      PROVE  DeinitInv'
  BY <1>1, <1>9 DEF DeinitInv, OnDevice, Failed, Restarting
<1>10. mState = "DEINIT" \/ (\E t \in Threads : pc[t] = "deinit") => Failed
  BY <1>1 DEF Failed, OnDevice
<1>11. CASE Callback
  <2>1. ASSUME NEW f \in Frame, HandleMetadata(f) PROVE DeinitInv'
    <3>1. Failed => UNCHANGED lists
      BY <2>1 DEF HandleMetadata
    <3> QED
      BY <1>9, <1>10, <2>1, <3>1 DEF HandleMetadata, lists
  <2>2. ASSUME NEW f \in Frame, NEW s \in Streams, HandleBuffer(f, s) PROVE DeinitInv'
    <3>1. Failed => UNCHANGED lists
      BY <2>2 DEF HandleBuffer
    <3> QED
      BY <1>9, <1>10, <2>2, <3>1 DEF HandleBuffer, lists
  <2>3. ASSUME NEW f \in Frame, HandleInputBuffer(f) PROVE DeinitInv'
    <3>1. ASSUME pending = << >> PROVE pending' = pending
      <4>1. Elems(pending) = {}
        BY <3>1 DEF Elems
      <4>2. pending' \in Seq(Pending) /\ Elems(pending') = {}
        BY <2>3, <4>1, InputBufferIs
      <4>3. DOMAIN pending' = {}
        BY <4>2 DEF Elems
      <4>4. PICK ps \in Seq(Pending) : ps = pending' /\ DOMAIN ps = {}
        BY <4>2, <4>3
      <4>5. ps = << >>
        <5>1. DOMAIN ps = 1 .. Len(ps) /\ Len(ps) \in Nat
          OBVIOUS
        <5>2. Len(ps) = 0
          BY <4>4, <5>1
        <5> QED
          BY ONLY ps \in Seq(Pending), <5>2
      <4> QED
        BY <3>1, <4>4, <4>5
    <3> QED
      BY <1>1, <1>9, <2>3, <3>1 DEF HandleInputBuffer
  <2>4. CASE HandleEmptyMetadata \/ DaemonPull
    BY <1>9, <2>4 DEF HandleEmptyMetadata, DaemonPull, lists
  <2>5. CASE DaemonDies
    BY <1>1, <2>5 DEF DaemonDies, lists, DeinitInv, OnDevice, Failed, Restarting
  <2> QED
    BY <1>11, <2>1, <2>2, <2>3, <2>4, <2>5 DEF Callback
<1> QED
  BY <1>4, <1>6, <1>7, <1>8, <1>11 DEF Next

\* When the HAL has told the framework that the device is lost, nothing is left on its
\* lists: handleCameraDeviceError() flushes first, and no request comes after.  A
\* restart of the sensor that meets the loss would submit its request without another
\* look at the state, and a stop of the channels that fails ends the flush early.
THEOREM NothingLeftInDeinit == (\A w \in Worlds : CleanLoss(w)) /\ Spec => []NothingAfterDeinit
<1> SUFFICES ASSUME \A w \in Worlds : CleanLoss(w) PROVE Spec => []NothingAfterDeinit
  OBVIOUS
<1>1. Init => DeinitInv
  BY DEF Init, DeinitInv, OnDevice, Failed, Restarting, Threads
<1>2. IInv /\ DeinitInv /\ [Next]_vars => DeinitInv'
  <2> SUFFICES ASSUME IInv, DeinitInv, [Next]_vars PROVE DeinitInv'
    OBVIOUS
  <2>1. CASE Next
    BY <2>1, DeinitStep, TypeFacts DEF IInv
  <2>2. CASE UNCHANGED vars
    BY <2>2 DEF DeinitInv, vars, OnDevice, Failed, Restarting
  <2> QED
    BY <2>1, <2>2
<1>3. DeinitInv => NothingAfterDeinit
  BY DEF DeinitInv, NothingAfterDeinit
<1> QED
  BY <1>1, <1>2, <1>3, IInvInit, IInvStep, PTL DEF Spec

-----------------------------------------------------------------------------
(* The number of live requests.                                            *)

\* What the camera owes is live and pending; what is live and pending is owed, or the
\* flush that is under way will answer it.
LiveInv ==
  /\ ~Failed /\ ~camera.dead
  /\ pc["req"] \in {"idle", "wait"} /\ pc["flu"] \in {"idle", "flush", "stop", "clear"}
  /\ mFlush <=> pc["flu"] \in {"stop", "clear"}
  /\ camera.stopped <=> pc["flu"] = "clear"
  /\ \A f \in camera.metas : \E p \in Elems(pending) : p.frame = f /\ ~p.input
  /\ \A p \in Elems(pending) : ~p.input =>
       p.frame \in camera.metas \/ (mFlush /\ \A f \in camera.metas : f < p.frame)
  /\ \A p \in Elems(pending) : p.frame \in camera.inputs => p.input
  /\ \A f \in camera.inputs : f < next
  /\ mState = "CONFIGURED" => camera.metas = {}
  /\ ~camera.stopped => live = Cardinality(camera.metas)
  /\ live <= world.max /\ (pc["req"] = "idle" => live < world.max)

LEMMA WorldFacts ==
  ASSUME TypeOK
  PROVE  /\ world.min \in Nat \ {0} /\ world.max \in Nat /\ world.min <= world.max
         /\ world.max < Word /\ Word \in Nat
  BY Hal3Assumption DEF TypeOK

LEMMA FramesFinite ==
  ASSUME NEW S \in SUBSET Frame
  PROVE  IsFiniteSet(S) /\ Cardinality(S) \in Nat
<1>1. IsFiniteSet(Frame)
  BY Hal3Assumption, FS_Interval DEF Frame
<1> QED
  BY <1>1, FS_Subset, FS_CardinalityType

\* What a request that comes leaves of the counts.
LEMMA SubmitLive ==
  ASSUME IInv, LiveInv, Undisturbed, NEW r, NEW n, Submits(r, n)
  PROVE  LiveInv'
<1>1. /\ TypeOK /\ camera \in Camera /\ camera.metas \subseteq Frame /\ camera.inputs \subseteq Frame
      /\ pc \in [Threads -> Places] /\ live \in Nat /\ mFlush \in BOOLEAN /\ Frame \subseteq Nat
      /\ next \in Nat
  BY TypeFacts, CameraFacts, Hal3Assumption DEF IInv, Frame
<1>2. /\ r \in Requests /\ ~Failed /\ pc["req"] = "idle" /\ next' = next + 1 /\ Submit(r, n)
      /\ n = live \/ (n = 0 /\ mState = "CONFIGURED")
  BY DEF LiveInv, Submits
<1>3. /\ r \in Request /\ r.frame = next /\ r.frame \in Frame /\ r.input \in BOOLEAN /\ r.frame \in Nat
  BY <1>1, <1>2, TypeFacts, RequestsAre, RequestFacts
<1>4. /\ Fresh(r.frame) /\ Record(r) /\ camera'.stopped = camera.stopped /\ camera'.dead = camera.dead
      /\ pc'["flu"] = pc["flu"] /\ mFlush' = mFlush /\ world' = world
  BY SubmitsIs
<1>5. PICK x \in Pending : /\ x.frame = r.frame /\ x.input = r.input
                           /\ Elems(pending') = Elems(pending) \cup {x}
  BY <1>3, <1>4, RecordIs
<1>6. /\ \A p \in Elems(pending) : p.frame < r.frame /\ p.frame \in Nat
      /\ \A f \in camera.metas : f < r.frame
      /\ \A f \in camera.inputs : f < r.frame
  <2>1. \A p \in Elems(pending) : p.frame < r.frame /\ p.frame \in Nat
    BY <1>1, <1>3, <1>4, FreshFacts, ListFacts
  <2>2. ASSUME NEW f \in camera.metas PROVE f < r.frame
    BY <2>1 DEF LiveInv
  <2>3. \A f \in camera.inputs : f < r.frame
    BY <1>3 DEF LiveInv
  <2> QED
    BY <2>1, <2>2, <2>3
<1>7. n \in Nat /\ n < world.max /\ (~camera.stopped => n = Cardinality(camera.metas))
  <2>1. /\ live < world.max /\ (~camera.stopped => live = Cardinality(camera.metas))
        /\ mState = "CONFIGURED" => camera.metas = {}
    BY <1>2 DEF LiveInv
  <2>2. CASE n = live
    BY <1>1, <2>1, <2>2
  <2>3. CASE n = 0 /\ mState = "CONFIGURED"
    <3>1. 0 < world.max
      BY <1>1, <2>1, WorldFacts
    <3> QED
      BY <2>1, <2>3, <3>1, FS_EmptySet
  <2> QED
    BY <1>2, <2>2, <2>3
<1>8. CASE mFlush /\ live' = n /\ Go("req", "idle") /\ UNCHANGED <<mState, camera>>
  <2>1. pc'["req"] = "idle"
    BY <1>1, <1>8, GoIs DEF Threads, Places
  <2>2. \A f \in camera'.metas : \E p \in Elems(pending') : p.frame = f /\ ~p.input
    BY <1>5, <1>8 DEF LiveInv
  <2>3. \A p \in Elems(pending') : ~p.input =>
          p.frame \in camera'.metas \/ (mFlush' /\ \A f \in camera'.metas : f < p.frame)
    BY <1>4, <1>5, <1>6, <1>8 DEF LiveInv
  <2>4. /\ \A p \in Elems(pending') : p.frame \in camera'.inputs => p.input
        /\ \A f \in camera'.inputs : f < next'
    <3>1. r.frame \notin camera.inputs
      BY <1>3, <1>6
    <3>2. \A f \in camera.inputs : f < next + 1
      <4> SUFFICES ASSUME NEW f \in camera.inputs PROVE f < next + 1
        OBVIOUS
      <4>1. f < next /\ f \in Nat
        BY <1>1, <1>3, <1>6
      <4> QED
        BY <1>1, <4>1
    <3> QED
      BY <1>2, <1>5, <1>8, <3>1, <3>2 DEF LiveInv
  <2> QED
    BY <1>2, <1>4, <1>7, <1>8, <2>1, <2>2, <2>3, <2>4, WorldFacts, <1>1 DEF LiveInv, Failed
<1>9. CASE ~mFlush /\ Sent(r, n)
  <2>1. PICK M \in SUBSET {r.frame} : M = IF r.input THEN {} ELSE {r.frame}
    OBVIOUS
  <2>2. Pass(r, r.streams, M)
    BY <1>9, <2>1 DEF Sent
  <2>3. PICK S \in SUBSET r.streams : S = r.streams
    OBVIOUS
  <2>4. /\ camera'.metas = camera.metas \cup M
        /\ camera'.inputs = IF r.input THEN camera.inputs \cup {r.frame} ELSE camera.inputs
    BY <1>1, <1>3, <2>2, <2>3, PassIs
  <2>5. /\ live' = IF r.input THEN n ELSE (n + 1) % Word
        /\ mState' = "STARTED"
        /\ Go("req", IF ~r.input /\ MustWait(live', mState') THEN "wait" ELSE "idle")
    BY <1>9 DEF Sent
  <2>6. live' = IF r.input THEN n ELSE n + 1
    <3>1. n + 1 \in 0 .. Word - 1 /\ Word > 0
      BY <1>1, <1>7, WorldFacts
    <3>2. (n + 1) % Word = n + 1
      BY <3>1, <1>1, WorldFacts
    <3> QED
      BY <2>5, <3>2
  <2>7. live' \in Nat /\ live' <= world.max
    BY <1>1, <1>7, <2>6, WorldFacts
  <2>8. pc'["req"] \in {"idle", "wait"} /\ (pc'["req"] = "idle" => live' < world.max)
    <3>1. CASE ~r.input /\ MustWait(live', mState')
      <4>1. Go("req", "wait")
        BY <2>5, <3>1
      <4> QED
        BY <1>1, <4>1, GoIs DEF Threads, Places
    <3>2. CASE ~r.input /\ ~MustWait(live', mState')
      <4>1. Go("req", "idle")
        BY <2>5, <3>2
      <4>2. pc'["req"] = "idle"
        BY <1>1, <4>1, GoIs DEF Threads, Places
      <4>3. ~(live' >= world.min)
        BY <2>5, <3>2 DEF MustWait
      <4> QED
        BY <1>1, <2>7, <4>2, <4>3, WorldFacts
    <3>3. CASE r.input
      <4>1. Go("req", "idle")
        BY <2>5, <3>3
      <4>2. pc'["req"] = "idle"
        BY <1>1, <4>1, GoIs DEF Threads, Places
      <4> QED
        BY <1>7, <2>6, <3>3, <4>2
    <3> QED
      BY <3>1, <3>2, <3>3
  <2>9. ~camera'.stopped => live' = Cardinality(camera'.metas)
    <3>1. CASE r.input
      <4>1. camera'.metas = camera.metas
        BY <2>1, <2>4, <3>1
      <4> QED
        BY <1>4, <1>7, <2>6, <3>1, <4>1
    <3>2. CASE ~r.input
      <4>1. camera'.metas = camera.metas \cup {r.frame} /\ r.frame \notin camera.metas
        BY <1>3, <1>6, <2>1, <2>4, <3>2
      <4>2. Cardinality(camera'.metas) = Cardinality(camera.metas) + 1
        BY <1>1, <4>1, FramesFinite, FS_AddElement
      <4> QED
        BY <1>4, <1>7, <2>6, <3>2, <4>2
    <3> QED
      BY <3>1, <3>2
  <2>10. \A f \in camera'.metas : \E p \in Elems(pending') : p.frame = f /\ ~p.input
    BY <1>5, <2>1, <2>4 DEF LiveInv
  <2>11. \A p \in Elems(pending') : ~p.input => p.frame \in camera'.metas
    BY <1>5, <1>9, <2>1, <2>4 DEF LiveInv
  <2>12. \A p \in Elems(pending') : p.frame \in camera'.inputs => p.input
    <3>1. \A p \in Elems(pending) : p.frame # r.frame
      BY <1>3, <1>6
    <3>2. r.frame \notin camera.inputs
      BY <1>3, <1>6
    <3> QED
      BY <1>5, <2>4, <3>1, <3>2 DEF LiveInv
  <2>13. \A f \in camera'.inputs : f < next'
    <3> SUFFICES ASSUME NEW f \in camera'.inputs PROVE f < next + 1
      BY <1>2
    <3>1. f = next \/ f \in camera.inputs
      BY <1>3, <2>4
    <3>2. f \in camera.inputs => f < next /\ f \in Nat
      BY <1>1, <1>3, <1>6
    <3> QED
      BY <1>1, <3>1, <3>2
  <2> QED
    BY <1>4, <2>5, <2>7, <2>8, <2>9, <2>10, <2>11, <2>12, <2>13 DEF LiveInv, Failed
<1> QED
  BY <1>2, <1>8, <1>9 DEF Submit, Undisturbed

\* The requests that metadata answers are as many as the frames it takes from what the
\* camera owes.
LEMMA AnsweredCount ==
  ASSUME IInv, LiveInv, NEW f \in camera.metas
  PROVE  Cardinality(Answered(f)) = Cardinality({g \in camera.metas : g <= f})
<1>1. /\ pending \in Seq(Pending) /\ Sorted(pending) /\ camera.metas \subseteq Frame /\ Frame \subseteq Nat
  BY ListFacts, TypeFacts, CameraFacts, Hal3Assumption DEF IInv, Frame
<1>2. PICK A, G : A = Answered(f) /\ G = {g \in camera.metas : g <= f}
  OBVIOUS
<1> DEFINE fn == [i \in A |-> pending[i].frame]
<1>3. \A i \in A : /\ i \in 1 .. Len(pending) /\ pending[i] \in Elems(pending)
                   /\ pending[i].frame <= f /\ ~pending[i].input /\ pending[i].frame \in Nat
  BY <1>1, <1>2, PendingFacts DEF Answered, Elems
<1>4. ASSUME NEW i \in A PROVE pending[i].frame \in G
  <2>1. f \in Nat
    BY <1>1
  <2>2. ~(f < pending[i].frame)
    BY <1>3, <2>1
  <2>3. pending[i].frame \in camera.metas
    BY <1>3, <2>2 DEF LiveInv
  <2> QED
    BY <1>2, <1>3, <2>3
<1>5. \A i, k \in A : pending[i].frame = pending[k].frame => i = k
  <2> SUFFICES ASSUME NEW i \in A, NEW k \in A, pending[i].frame = pending[k].frame PROVE i = k
    OBVIOUS
  <2>1. ~(i < k) /\ ~(k < i)
    BY <1>1, <1>3 DEF Sorted
  <2> QED
    BY <1>3, <2>1
<1>6. \A g \in G : \E i \in A : pending[i].frame = g
  <2> SUFFICES ASSUME NEW g \in G PROVE \E i \in A : pending[i].frame = g
    OBVIOUS
  <2>1. PICK p \in Elems(pending) : p.frame = g /\ ~p.input
    BY <1>2 DEF LiveInv
  <2>2. PICK i \in DOMAIN pending : p = pending[i]
    BY DEF Elems
  <2>3. pending[i].frame <= f /\ ~pending[i].input
    BY <1>2, <2>1, <2>2
  <2> QED
    BY <1>2, <2>1, <2>2, <2>3 DEF Answered
<1>7. fn \in Bijection(A, G)
  BY <1>4, <1>5, <1>6 DEF Bijection, Injection, Surjection, IsInjective
<1>8. IsFiniteSet(A)
  <2>1. A \subseteq 1 .. Len(pending) /\ Len(pending) \in Nat
    BY <1>1, <1>3
  <2>2. PICK m \in Nat : m = Len(pending)
    BY <2>1
  <2>3. IsFiniteSet(1 .. m)
    BY FS_Interval
  <2> QED
    BY <2>1, <2>2, <2>3, FS_Subset
<1>9. ExistsBijection(A, G)
  BY <1>7 DEF ExistsBijection
<1>10. Cardinality(A) = Cardinality(G)
  BY <1>8, <1>9, FS_Bijection
<1> QED
  BY <1>2, <1>10

LEMMA MetadataLive ==
  ASSUME IInv, LiveInv, NEW f \in Frame, HandleMetadata(f)
  PROVE  LiveInv'
<1>1. /\ TypeOK /\ camera \in Camera /\ camera.metas \subseteq Frame /\ Frame \subseteq Nat
      /\ live \in Nat /\ ~Failed /\ Word \in Nat
  BY TypeFacts, CameraFacts, Hal3Assumption DEF IInv, LiveInv, Frame
<1>2. /\ ~camera.stopped /\ f \in camera.metas /\ Metadata(f)
      /\ UNCHANGED <<mState, mFlush, pc, next, world>>
  BY <1>1 DEF HandleMetadata, Running, framework
<1>3. /\ camera'.stopped = camera.stopped /\ camera'.dead = camera.dead
      /\ camera'.metas = {g \in camera.metas : g > f} /\ camera'.inputs = camera.inputs
  BY <1>1, MetasIs DEF HandleMetadata
<1>4. /\ Elems(pending') = Elems(pending) \ Done(f)
      /\ live' = (live - Cardinality(Answered(f))) % Word
  BY <1>2, MetadataIs
<1>5. PICK G, H : G = {g \in camera.metas : g <= f} /\ H = {g \in camera.metas : g > f}
  OBVIOUS
<1>6. Cardinality(camera.metas) = Cardinality(G) + Cardinality(H)
  <2>1. IsFiniteSet(G) /\ IsFiniteSet(H)
    BY <1>1, <1>5, FramesFinite
  <2>2. G \cap H = {} /\ camera.metas = G \cup H
    <3>1. \A g \in camera.metas : g \in Nat /\ f \in Nat
      BY <1>1
    <3>2. \A g \in camera.metas : (g <= f \/ g > f) /\ ~(g <= f /\ g > f)
      BY <3>1
    <3> QED
      BY <1>5, <3>2
  <2>3. /\ Cardinality(G) \in Nat /\ Cardinality(H) \in Nat
        /\ Cardinality(G \cap H) = 0
    BY <1>1, <1>5, <2>2, FramesFinite, FS_EmptySet
  <2>4. Cardinality(G \cup H) = Cardinality(G) + Cardinality(H) - Cardinality(G \cap H)
    BY <2>1, FS_Union
  <2>5. Cardinality(camera.metas) = Cardinality(G \cup H)
    BY <2>2
  <2> QED
    BY <2>3, <2>4, <2>5
<1>7. live' = Cardinality(H) /\ live' <= live /\ live' \in Nat
  <2>1. Cardinality(G) \in Nat /\ Cardinality(H) \in Nat
    BY <1>1, <1>5, FramesFinite
  <2>2. live = Cardinality(G) + Cardinality(H)
    BY <1>2, <1>6 DEF LiveInv
  <2>3. live' = (live - Cardinality(G)) % Word
    BY <1>2, <1>4, <1>5, AnsweredCount
  <2>4. live < Word
    BY <1>1, TypeFacts
  <2>5. PICK a \in Nat, b \in Nat : a = Cardinality(G) /\ b = Cardinality(H)
    BY <2>1
  <2>6. live' = b % Word /\ b < Word /\ b <= live
    <3>1. live - a = b
      BY <2>2, <2>5
    <3> QED
      BY <1>1, <2>2, <2>3, <2>4, <2>5, <3>1
  <2>7. b % Word = b
    BY <1>1, <2>6
  <2> QED
    BY <2>5, <2>6, <2>7
<1>8. \A g \in camera'.metas : \E p \in Elems(pending') : p.frame = g /\ ~p.input
  <2> SUFFICES ASSUME NEW g \in camera.metas, g > f
               PROVE  \E p \in Elems(pending') : p.frame = g /\ ~p.input
    BY <1>3
  <2>1. PICK p \in Elems(pending) : p.frame = g /\ ~p.input
    BY DEF LiveInv
  <2>2. ~(g <= f)
    <3>1. g \in Nat /\ f \in Nat
      BY <1>1
    <3> QED
      BY <3>1
  <2> QED
    BY <1>4, <2>1, <2>2 DEF Done
<1>9. \A p \in Elems(pending') : ~p.input =>
        p.frame \in camera'.metas \/ (mFlush' /\ \A g \in camera'.metas : g < p.frame)
  <2> SUFFICES ASSUME NEW p \in Elems(pending'), ~p.input
               PROVE  p.frame \in camera'.metas \/ (mFlush' /\ \A g \in camera'.metas : g < p.frame)
    OBVIOUS
  <2>1. p \in Elems(pending) /\ ~(p.frame <= f)
    BY <1>4 DEF Done
  <2>2. p.frame > f
    <3>1. p.frame \in Nat /\ f \in Nat
      BY <1>1, <2>1, ListFacts
    <3> QED
      BY <2>1, <3>1
  <2> QED
    BY <1>2, <1>3, <2>1, <2>2 DEF LiveInv
<1>10. \A p \in Elems(pending') : p.frame \in camera'.inputs => p.input
  BY <1>3, <1>4 DEF LiveInv
<1>11. mState' = "CONFIGURED" => camera'.metas = {}
  BY <1>2, <1>3 DEF LiveInv
<1>12. live' <= world.max /\ (pc["req"] = "idle" => live' < world.max)
  <2>1. live <= world.max /\ (pc["req"] = "idle" => live < world.max) /\ world.max \in Nat
    BY <1>1, WorldFacts DEF LiveInv
  <2> QED
    BY <1>1, <1>7, <2>1
<1> QED
  BY <1>2, <1>3, <1>5, <1>7, <1>8, <1>9, <1>10, <1>11, <1>12 DEF LiveInv, Failed

LEMMA BufferLive ==
  ASSUME IInv, LiveInv, NEW f \in Frame, NEW s \in Streams, HandleBuffer(f, s)
  PROVE  LiveInv'
<1>1. /\ camera'.stopped = camera.stopped /\ camera'.dead = camera.dead
      /\ camera'.metas = camera.metas /\ camera'.inputs \subseteq camera.inputs
      /\ UNCHANGED <<mState, mFlush, live, pc, next, world>>
  BY BufferIs DEF HandleBuffer, framework
<1>2. ASSUME \A p \in Elems(pending') :
               \E q \in Elems(pending) : p.frame = q.frame /\ p.input = q.input,
             \A p \in Elems(pending) : ~p.input =>
               \E q \in Elems(pending') : q.frame = p.frame /\ ~q.input
      PROVE  LiveInv'
  <2>1. \A g \in camera'.metas : \E p \in Elems(pending') : p.frame = g /\ ~p.input
    <3> SUFFICES ASSUME NEW g \in camera.metas
                 PROVE  \E p \in Elems(pending') : p.frame = g /\ ~p.input
      BY <1>1
    <3>1. PICK p \in Elems(pending) : p.frame = g /\ ~p.input
      BY DEF LiveInv
    <3> QED
      BY <1>2, <3>1
  <2>2. \A p \in Elems(pending') : ~p.input =>
          p.frame \in camera'.metas \/ (mFlush' /\ \A g \in camera'.metas : g < p.frame)
    <3> SUFFICES ASSUME NEW p \in Elems(pending'), ~p.input
                 PROVE  p.frame \in camera'.metas \/ (mFlush' /\ \A g \in camera'.metas : g < p.frame)
      OBVIOUS
    <3>1. PICK q \in Elems(pending) : p.frame = q.frame /\ ~q.input
      BY <1>2
    <3> QED
      BY <1>1, <3>1 DEF LiveInv
  <2>3. \A p \in Elems(pending') : p.frame \in camera'.inputs => p.input
    <3> SUFFICES ASSUME NEW p \in Elems(pending'), p.frame \in camera'.inputs
                 PROVE  p.input
      OBVIOUS
    <3>1. PICK q \in Elems(pending) : p.frame = q.frame /\ p.input = q.input
      BY <1>2
    <3>2. q.input
      BY <1>1, <3>1 DEF LiveInv
    <3> QED
      BY <3>1, <3>2
  <2> QED
    BY <1>1, <2>1, <2>2, <2>3 DEF LiveInv, Failed
<1>3. CASE UNCHANGED lists
  BY <1>2, <1>3 DEF lists
<1>4. CASE BufferCached(f, s)
  <2>1. PICK p \in Elems(pending), x \in Pending :
               /\ p.frame = f /\ ~p.input /\ x.frame = f /\ x.input = p.input
               /\ Elems(pending') = (Elems(pending) \ {p}) \cup {x}
    BY <1>4 DEF BufferCached
  <2>2. ~x.input
    BY <2>1
  <2>3. \A q \in Elems(pending') :
               \E o \in Elems(pending) : q.frame = o.frame /\ q.input = o.input
    BY <2>1
  <2>4. \A q \in Elems(pending) : ~q.input =>
               \E o \in Elems(pending') : o.frame = q.frame /\ ~o.input
    BY <2>1, <2>2
  <2> QED
    BY <1>2, <2>3, <2>4
<1>5. CASE BufferDone(f, s)
  <2>1. /\ \A p \in Elems(pending) : p.frame = f => p.input
        /\ Elems(pending') = Elems(pending) \ {p \in Elems(pending) : p.frame = f}
    BY <1>5 DEF BufferDone
  <2> QED
    BY <1>2, <2>1
<1> QED
  BY <1>3, <1>4, <1>5, BufferIs

LEMMA InputLive ==
  ASSUME IInv, LiveInv, NEW f \in Frame, HandleInputBuffer(f)
  PROVE  LiveInv'
<1>1. /\ camera'.stopped = camera.stopped /\ camera'.dead = camera.dead
      /\ camera'.metas = camera.metas /\ camera'.inputs \subseteq camera.inputs /\ f \in camera.inputs
      /\ Elems(pending') = Elems(pending) \ {p \in Elems(pending) : p.frame = f}
  BY InputBufferIs
<1>2. UNCHANGED <<mState, mFlush, live, pc, next, world>>
  BY DEF HandleInputBuffer, framework
<1>3. \A p \in Elems(pending) : p.frame = f => p.input
  BY <1>1 DEF LiveInv
<1>4. \A g \in camera'.metas : \E p \in Elems(pending') : p.frame = g /\ ~p.input
  <2> SUFFICES ASSUME NEW g \in camera.metas
               PROVE  \E p \in Elems(pending') : p.frame = g /\ ~p.input
    BY <1>1
  <2>1. PICK p \in Elems(pending) : p.frame = g /\ ~p.input
    BY DEF LiveInv
  <2> QED
    BY <1>1, <1>3, <2>1
<1> QED
  BY <1>1, <1>2, <1>4 DEF LiveInv, Failed

LEMMA LiveStep ==
  ASSUME IInv, LiveInv, Undisturbed, Next
  PROVE  LiveInv'
<1>1. /\ ThreadInv /\ TypeOK /\ camera \in Camera /\ pc \in [Threads -> Places]
      /\ world' = world /\ world.faults \subseteq {"pull"} /\ live \in Nat
      /\ pc["req"] \in {"idle", "wait"} /\ pc["flu"] \in {"idle", "flush", "stop", "clear"}
      /\ ~Failed /\ world.min <= world.max /\ world.min \in Nat /\ world.max \in Nat /\ 0 < world.max
  BY TypeFacts, WorldStays, WorldFacts DEF IInv, LiveInv, Undisturbed
<1> USE DEF Threads, Places
<1>2. ASSUME NEW r \in Requests, ProcessCaptureRequest(r) PROVE LiveInv'
  BY <1>1, <1>2, ProcessCases, SubmitLive
<1>3. ~RefuseRequest /\ ~RestartStop /\ ~RestartNotify /\ ~RestartSubmit /\ ~TimeOut /\ ~DaemonDies
  BY <1>1 DEF RefuseRequest, RestartStop, RestartNotify, RestartSubmit, TimeOut, DaemonDies, Failed
<1>4. CASE ConfigureStreams
  <2>1. /\ camera'.metas = {} /\ camera'.inputs = {} /\ ~camera'.stopped /\ camera'.dead = camera.dead
    BY <1>1, <1>4, StoppedIs, OpenIs DEF ConfigureStreams, Idle
  <2>2. camera.metas = {} /\ ~camera.stopped
    BY <1>4 DEF ConfigureStreams, LiveInv, Elems
  <2>3. Elems(pending) = {} /\ pending' = pending
    BY <1>4 DEF ConfigureStreams, lists, Elems
  <2> QED
    BY <1>1, <1>4, <2>1, <2>2, <2>3 DEF ConfigureStreams, LiveInv, Failed, framework
<1>5. CASE WakeUp
  <2>1. CASE (woken /\ live < world.max) \/ ~MustWait(live, mState)
    <3>1. Go("req", "idle")
      BY <1>5, <2>1 DEF WakeUp
    <3>2. pc'["req"] = "idle" /\ pc'["flu"] = pc["flu"]
      BY <1>1, <3>1, GoIs
    <3>3. live < world.max
      BY <1>1, <2>1 DEF MustWait, Failed
    <3> QED
      BY <1>1, <1>5, <3>2, <3>3 DEF WakeUp, LiveInv, lists, framework, Failed
  <2>2. CASE ~((woken /\ live < world.max) \/ ~MustWait(live, mState))
    <3>1. Go("req", "wait")
      BY <1>5, <2>2 DEF WakeUp
    <3>2. pc'["req"] = "wait" /\ pc'["flu"] = pc["flu"]
      BY <1>1, <3>1, GoIs
    <3> QED
      BY <1>1, <1>5, <3>2 DEF WakeUp, LiveInv, lists, framework, Failed
  <2> QED
    BY <2>1, <2>2
<1>6. CASE Flush
  <2>1. pc'["flu"] = "flush" /\ pc'["req"] = pc["req"] /\ pc["flu"] = "idle"
    BY <1>1, <1>6, GoIs DEF Flush, Failed
  <2> QED
    BY <1>1, <1>6, <2>1 DEF Flush, LiveInv, lists, Failed
<1>7. ASSUME NEW t \in Threads, Flushing(t) PROVE LiveInv'
  <2>1. t = "flu" /\ ~DeviceError(t) /\ ~Deinit(t)
    BY <1>1, <1>7 DEF Flushing, FlushBegin, FlushStop, FlushClear, DeviceError, Deinit
  <2>2. CASE FlushBegin(t)
    <3>1. pc["flu"] = "flush" /\ pc'["flu"] = "stop" /\ pc'["req"] = pc["req"]
      BY <1>1, <2>1, <2>2, GoIs DEF FlushBegin
    <3> QED
      BY <1>1, <2>2, <3>1 DEF FlushBegin, LiveInv, lists, framework, Failed
  <2>3. CASE FlushStop(t)
    <3>1. pc["flu"] = "stop" /\ pc'["flu"] = "clear" /\ pc'["req"] = pc["req"]
      BY <1>1, <2>1, <2>3, GoIs DEF FlushStop
    <3>2. /\ camera'.stopped /\ camera'.dead = camera.dead /\ camera'.metas = {} /\ camera'.inputs = {}
      BY <1>1, <2>3, StoppedIs DEF FlushStop, Idle
    <3> QED
      BY <1>1, <2>3, <3>1, <3>2 DEF FlushStop, LiveInv, lists, framework, Failed
  <2>4. CASE FlushClear(t)
    <3>1. pc["flu"] = "clear" /\ pc'["flu"] = "idle" /\ pc'["req"] = pc["req"]
      BY <1>1, <2>1, <2>4, GoIs DEF FlushClear
    <3>2. camera' = [camera EXCEPT !.stopped = FALSE]
      BY <2>1, <2>4, <3>1 DEF FlushClear
    <3>3. /\ ~camera'.stopped /\ camera'.dead = camera.dead /\ camera'.metas = {} /\ camera'.inputs = {}
      BY <1>1, <3>1, <3>2, OpenIs DEF ThreadInv, Clearing, Idle
    <3>4. Elems(pending') = {}
      BY <2>4, NotifyAllIs DEF FlushClear
    <3>5. Cardinality(camera'.metas) = 0
      BY <3>3, FS_EmptySet
    <3>6. live' = 0 /\ mFlush' = FALSE /\ UNCHANGED <<mState, next>>
      BY <2>4 DEF FlushClear, framework
    <3> QED
      BY <1>1, <3>1, <3>3, <3>4, <3>5, <3>6 DEF LiveInv, Failed
  <2> QED
    BY <1>7, <2>1, <2>2, <2>3, <2>4 DEF Flushing
<1>8. CASE HandleEmptyMetadata \/ DaemonPull
  BY <1>1, <1>8 DEF HandleEmptyMetadata, DaemonPull, LiveInv, lists, framework, Failed
<1> QED
  BY <1>2, <1>3, <1>4, <1>5, <1>6, <1>7, <1>8, MetadataLive, BufferLive, InputLive
  DEF Next, Req, ReqGoesOn, Callback

\* mPendingLiveRequest is the number of requests whose metadata the camera owes, and
\* never more than mMaxInFlightRequests, when nothing goes wrong but a flush.
THEOREM LiveCountAlways == Spec => []LiveCount
<1> DEFINE LInv == Undisturbed => LiveInv
<1>1. Init => LInv
  <2> SUFFICES ASSUME Init PROVE LiveInv
    OBVIOUS
  <2>1. Elems(pending) = {} /\ Cardinality(camera.metas) = 0 /\ 0 < world.max
    BY FS_EmptySet, Hal3Assumption DEF Init, Elems
  <2>2. /\ ~camera.stopped /\ ~camera.dead /\ camera.metas = {} /\ camera.inputs = {}
        /\ pc["req"] = "idle" /\ pc["flu"] = "idle" /\ mFlush = FALSE /\ live = 0
        /\ mState = "CONFIGURED"
    BY DEF Init, Threads
  <2>3. 0 <= world.max
    BY <2>1, Hal3Assumption DEF Init
  <2> QED
    BY <2>1, <2>2, <2>3 DEF LiveInv, Failed
<1>2. IInv /\ LInv /\ [Next]_vars => LInv'
  <2> SUFFICES ASSUME IInv, LInv, [Next]_vars, Undisturbed' PROVE LiveInv'
    OBVIOUS
  <2>1. CASE Next
    <3>1. Undisturbed
      BY <2>1, WorldStays DEF Undisturbed
    <3> QED
      BY <2>1, <3>1, LiveStep
  <2>2. CASE UNCHANGED vars
    BY <2>2 DEF Undisturbed, LiveInv, vars, Failed
  <2> QED
    BY <2>1, <2>2
<1>3. LInv => LiveCount
  BY DEF LiveCount, LiveInv
<1> HIDE DEF LInv
<1> QED
  BY <1>1, <1>2, <1>3, IInvInit, IInvStep, PTL DEF Spec

=============================================================================
