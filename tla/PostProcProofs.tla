--------------------------- MODULE PostProcProofs ---------------------------
(***************************************************************************)
(* Proofs about PostProc, for any worlds in which no reprocess channel     *)
(* refuses a frame, and any numbers of shots and sessions: the types, that *)
(* every frame has one owner until it is given back or kept, once, that a  *)
(* picture is made of its own shot, and that stop() leaves nothing behind. *)
(*                                                                         *)
(* A frame is held by a pp job, a JPEG job, the raw queue or a callback    *)
(* (HoldersOf, Own); Fit says that holders share nothing and that what was *)
(* handed over is held or has left. Each step empties some holders, fills  *)
(* at most one and lets go of the rest: FitMoves covers all of them.       *)
(* KeptInv says which frames leave to be kept by nobody. IInv adds where   *)
(* the jobs are, which queues are open, and that there is an ongoing job   *)
(* for every output to come. On top of it, PicturesInv pairs jobs and      *)
(* outputs, and says of each shot whether it waits (Pending) or is on its  *)
(* way through the encoder (Coming): a shot goes from one to the other     *)
(* once, and from there to its one answer.                                 *)
(***************************************************************************)
EXTENDS PostProc, SequenceTheorems, FiniteSetTheorems, WellFoundedInduction, TLAPS

-----------------------------------------------------------------------------
(* What Without returns.  The library's induction rules take the formula   *)
(* to prove as an operator; here induction is over a set of numbers, which *)
(* needs only that a non-empty one has a least element.                    *)

\* Induction: a set with 0 and, with every number, the next one has all numbers.
LEMMA SetInduction ==
  ASSUME NEW S, 0 \in S, \A n \in Nat : n \in S => n + 1 \in S
  PROVE  Nat \subseteq S
<1> DEFINE R == {ss \in Nat \X Nat : ss[1] < ss[2]}
           T == Nat \ S
<1>1. IsWellFoundedOn(R, Nat)
  <2>1. OpToRel(<, Nat) = R
    BY DEF OpToRel
  <2> QED
    BY <2>1, NatLessThanWellFounded
<1>2. SUFFICES ASSUME T # {} PROVE FALSE
  OBVIOUS
<1> HIDE DEF R
<1>3. PICK x \in T : \A y \in T : <<y, x>> \notin R
  BY <1>1, <1>2, WFMin
<1>4. x \in Nat /\ x # 0 /\ x - 1 \in Nat
  BY <1>3
<1>5. <<x - 1, x>> \in R
  BY <1>4 DEF R
<1>6. x - 1 \in S
  BY <1>3, <1>4, <1>5
<1> QED
  BY <1>3, <1>4, <1>6

\* The recursion of Without: f is the function it defines, up to n.
Keeps(f, s, S, n) ==
  f = [m \in 0 .. n |->
         IF m = 0 THEN << >>
         ELSE IF s[m] \in S THEN f[m - 1] ELSE Append(f[m - 1], s[m])]

\* There is such a function.
LEMMA KeptExists ==
  ASSUME NEW s, NEW S, NEW n \in Nat
  PROVE  \E f : Keeps(f, s, S, n)
<1> DEFINE G == {k \in Nat : \E f : Keeps(f, s, S, k)}
<1>1. 0 \in G
  <2>1. Keeps([m \in 0 .. 0 |-> << >>], s, S, 0)
    BY DEF Keeps
  <2> QED
    BY <2>1
<1>2. ASSUME NEW k \in Nat, k \in G PROVE k + 1 \in G
  <2>1. PICK f : Keeps(f, s, S, k)
    BY <1>2
  <2> DEFINE last == IF s[k + 1] \in S THEN f[k] ELSE Append(f[k], s[k + 1])
             g == [m \in 0 .. k + 1 |-> IF m = k + 1 THEN last ELSE f[m]]
  <2>2. g[k + 1] = last /\ \A m \in 0 .. k : g[m] = f[m]
    OBVIOUS
  <2>3. ASSUME NEW m \in 0 .. k + 1
        PROVE  g[m] = IF m = 0 THEN << >>
                      ELSE IF s[m] \in S THEN g[m - 1] ELSE Append(g[m - 1], s[m])
    <3> HIDE DEF g
    <3>1. CASE m = k + 1
      <4>1. m # 0 /\ m - 1 = k /\ g[k] = f[k]
        BY <3>1, <2>2
      <4> QED
        BY <3>1, <4>1, <2>2
    <3>2. CASE m = 0
      BY <3>2, <2>1, <2>2 DEF Keeps
    <3>3. CASE m \in 1 .. k
      <4>1. m \in 0 .. k /\ m - 1 \in 0 .. k /\ m # 0
        BY <3>3
      <4> QED
        BY <4>1, <2>1, <2>2 DEF Keeps
    <3> QED
      BY <3>1, <3>2, <3>3
  <2>4. Keeps(g, s, S, k + 1)
    BY <2>3 DEF Keeps
  <2> QED
    BY <2>4
<1>3. Nat \subseteq G
  <2> HIDE DEF G
  <2> QED
    BY <1>1, <1>2, SetInduction
<1> QED
  BY <1>3

\* Without is its last value.
LEMMA WithoutIs ==
  ASSUME NEW s, NEW S, Len(s) \in Nat
  PROVE  \E f : Keeps(f, s, S, Len(s)) /\ Without(s, S) = f[Len(s)]
<1>1. Keeps(CHOOSE f : Keeps(f, s, S, Len(s)), s, S, Len(s))
  BY KeptExists
<1>2. Without(s, S) = (CHOOSE f : Keeps(f, s, S, Len(s)))[Len(s)]
  BY DEF Without, Keeps
<1> QED
  BY <1>1, <1>2

\* t is a choice of s: the elements at positions e, in their order, which are
\* those of the first n that are not in S.
Chosen(t, s, S, n, e) ==
  /\ e \in [1 .. Len(t) -> 1 .. n]
  /\ \A k \in 1 .. Len(t) : t[k] = s[e[k]] /\ s[e[k]] \notin S
  /\ \A k, l \in 1 .. Len(t) : k < l => e[k] < e[l]
  /\ \A i \in 1 .. n : s[i] \notin S => \E k \in 1 .. Len(t) : e[k] = i

\* Without(s, S) is a list of elements of s at rising positions, all those not in S.
LEMMA WithoutChooses ==
  ASSUME NEW T, NEW s \in Seq(T), NEW S
  PROVE  /\ Without(s, S) \in Seq(T)
         /\ \E e : Chosen(Without(s, S), s, S, Len(s), e)
<1>1. Len(s) \in Nat
  OBVIOUS
<1>2. PICK f : Keeps(f, s, S, Len(s)) /\ Without(s, S) = f[Len(s)]
  BY <1>1, WithoutIs
<1> DEFINE Good(n) == f[n] \in Seq(T) /\ \E e : Chosen(f[n], s, S, n, e)
           G == {n \in Nat : n <= Len(s) => Good(n)}
<1>3. 0 \in G
  <2>1. f[0] = << >>
    BY <1>1, <1>2 DEF Keeps
  <2>2. Chosen(f[0], s, S, 0, << >>)
    BY <2>1 DEF Chosen
  <2>3. f[0] \in Seq(T)
    BY <2>1
  <2>4. Good(0)
    BY <2>2, <2>3
  <2> QED
    BY <2>4
<1>4. ASSUME NEW n \in Nat, n \in G PROVE n + 1 \in G
  <2> SUFFICES ASSUME n + 1 <= Len(s) PROVE Good(n + 1)
    OBVIOUS
  <2>1. n <= Len(s) /\ n + 1 \in 1 .. Len(s) /\ s[n + 1] \in T
    BY <1>1
  <2>2. f[n] \in Seq(T) /\ \E e : Chosen(f[n], s, S, n, e)
    BY <1>4, <2>1
  <2>3. PICK e : Chosen(f[n], s, S, n, e)
    BY <2>2
  <2>4. f[n + 1] = IF s[n + 1] \in S THEN f[n] ELSE Append(f[n], s[n + 1])
    <3>1. n + 1 \in 0 .. Len(s) /\ n + 1 # 0 /\ (n + 1) - 1 = n
      BY <2>1
    <3> QED
      BY <3>1, <1>2 DEF Keeps
  <2> HIDE DEF G
  <2>5. CASE s[n + 1] \in S
    <3>1. Chosen(f[n], s, S, n + 1, e)
      BY <2>3, <2>5 DEF Chosen
    <3> QED
      BY <3>1, <2>2, <2>4, <2>5
  <2>6. CASE s[n + 1] \notin S
    <3> DEFINE t == f[n]
               u == Append(t, s[n + 1])
               d == [k \in 1 .. Len(t) + 1 |-> IF k = Len(t) + 1 THEN n + 1 ELSE e[k]]
    <3>1. /\ Len(t) \in Nat /\ u \in Seq(T) /\ Len(u) = Len(t) + 1
          /\ \A k \in 1 .. Len(t) : u[k] = t[k]
          /\ u[Len(t) + 1] = s[n + 1]
      BY <2>1, <2>2, AppendProperties
    <3> HIDE DEF t, u
    <3>2. /\ e \in [1 .. Len(t) -> 1 .. n]
          /\ \A k \in 1 .. Len(t) : t[k] = s[e[k]] /\ s[e[k]] \notin S
          /\ \A k, l \in 1 .. Len(t) : k < l => e[k] < e[l]
          /\ \A i \in 1 .. n : s[i] \notin S => \E k \in 1 .. Len(t) : e[k] = i
      BY <2>3 DEF Chosen, t
    <3>3. d[Len(t) + 1] = n + 1 /\ \A k \in 1 .. Len(t) : d[k] = e[k]
      BY <3>1
    <3>4. d \in [1 .. Len(u) -> 1 .. n + 1]
      BY <3>1, <3>2
    <3> HIDE DEF d
    <3>5. \A k \in 1 .. Len(u) : u[k] = s[d[k]] /\ s[d[k]] \notin S
      BY <3>1, <3>2, <3>3, <2>6
    <3>6. ASSUME NEW k \in 1 .. Len(u), NEW l \in 1 .. Len(u), k < l
          PROVE  d[k] < d[l]
      <4>1. k \in 1 .. Len(t) /\ d[k] = e[k] /\ e[k] \in 1 .. n
        <5>1. k \in 1 .. Len(t)
          BY <3>1, <3>6
        <5>2. d[k] = e[k]
          BY <3>3, <5>1
        <5>3. e[k] \in 1 .. n
          BY <3>2, <5>1
        <5> QED
          BY <5>1, <5>2, <5>3
      <4>2. CASE l = Len(t) + 1
        BY <4>1, <4>2, <3>3
      <4>3. CASE l \in 1 .. Len(t)
        BY <4>1, <4>3, <3>2, <3>3, <3>6
      <4> QED
        BY <4>2, <4>3, <3>1
    <3>7. ASSUME NEW i \in 1 .. n + 1, s[i] \notin S
          PROVE  \E k \in 1 .. Len(u) : d[k] = i
      <4>1. CASE i = n + 1
        <5>1. Len(t) + 1 \in 1 .. Len(u)
          BY <3>1
        <5> QED
          BY <4>1, <5>1, <3>3
      <4>2. CASE i \in 1 .. n
        <5>1. PICK k \in 1 .. Len(t) : e[k] = i
          BY <4>2, <3>2, <3>7
        <5>2. k \in 1 .. Len(u) /\ d[k] = i
          BY <5>1, <3>1, <3>3
        <5> QED
          BY <5>2
      <4> QED
        BY <4>1, <4>2
    <3>8. Chosen(u, s, S, n + 1, d)
      BY <3>4, <3>5, <3>6, <3>7 DEF Chosen
    <3>9. f[n + 1] = u
      BY <2>4, <2>6 DEF u, t
    <3> QED
      BY <3>1, <3>8, <3>9
  <2> QED
    BY <2>5, <2>6
<1>5. Nat \subseteq G
  <2> HIDE DEF G
  <2> QED
    BY <1>3, <1>4, SetInduction
<1> QED
  BY <1>1, <1>2, <1>5

\* The elements of Without(s, S) are those of s that are not in S.
LEMMA WithoutElements ==
  ASSUME NEW T, NEW s \in Seq(T), NEW S, NEW t, t = Without(s, S)
  PROVE  /\ t \in Seq(T)
         /\ \A k \in 1 .. Len(t) : t[k] \notin S /\ \E i \in 1 .. Len(s) : t[k] = s[i]
         /\ \A i \in 1 .. Len(s) : s[i] \notin S => \E k \in 1 .. Len(t) : t[k] = s[i]
<1>1. t \in Seq(T)
  BY WithoutChooses
<1>2. PICK e : Chosen(t, s, S, Len(s), e)
  BY WithoutChooses
<1>3. /\ \A k \in 1 .. Len(t) : e[k] \in 1 .. Len(s) /\ t[k] = s[e[k]] /\ s[e[k]] \notin S
      /\ \A k, l \in 1 .. Len(t) : k < l => e[k] < e[l]
      /\ \A i \in 1 .. Len(s) : s[i] \notin S => \E k \in 1 .. Len(t) : e[k] = i
  BY <1>2 DEF Chosen
<1>4. \A i \in 1 .. Len(s) : s[i] \notin S => \E k \in 1 .. Len(t) : t[k] = s[i]
  BY <1>3
<1> QED
  BY <1>1, <1>3, <1>4

-----------------------------------------------------------------------------
(* Lists without repetitions.                                              *)

\* What is on a list, and that nothing is on it twice.
Rng(s) == {s[i] : i \in 1 .. Len(s)}
Inj(s) == \A i, j \in 1 .. Len(s) : s[i] = s[j] => i = j

\* The elements of a list are of its type.
LEMMA ElementIs ==
  ASSUME NEW T, NEW s \in Seq(T)
  PROVE  \A i \in 1 .. Len(s) : s[i] \in T
OBVIOUS

\* A list with one more element at its end.
LEMMA AppendIs ==
  ASSUME NEW T, NEW s \in Seq(T), NEW x \in T
  PROVE  /\ Append(s, x) \in Seq(T) /\ Len(Append(s, x)) = Len(s) + 1
         /\ \A i \in 1 .. Len(s) : Append(s, x)[i] = s[i]
         /\ Append(s, x)[Len(s) + 1] = x
         /\ Rng(Append(s, x)) = Rng(s) \cup {x}
         /\ Inj(s) /\ x \notin Rng(s) => Inj(Append(s, x))
<1> DEFINE t == Append(s, x)
<1>1. /\ t \in Seq(T) /\ Len(t) = Len(s) + 1 /\ Len(s) \in Nat
      /\ \A i \in 1 .. Len(s) : t[i] = s[i]
      /\ t[Len(s) + 1] = x
  BY AppendProperties
<1> HIDE DEF t
<1>2. \A i \in 1 .. Len(t) : i \in 1 .. Len(s) \/ i = Len(s) + 1
  BY <1>1
<1>3. Rng(t) = Rng(s) \cup {x}
  BY <1>1, <1>2 DEF Rng
<1>4. ASSUME Inj(s), x \notin Rng(s) PROVE Inj(t)
  <2>1. \A i \in 1 .. Len(s) : s[i] # x
    BY <1>4 DEF Rng
  <2> QED
    BY <1>1, <1>2, <1>4, <2>1 DEF Inj
<1> QED
  BY <1>1, <1>3, <1>4 DEF t

\* A list without its first element.
LEMMA TailIs ==
  ASSUME NEW T, NEW s \in Seq(T), s # << >>
  PROVE  /\ Head(s) \in T /\ Tail(s) \in Seq(T) /\ Len(s) \in Nat \ {0}
         /\ Len(Tail(s)) = Len(s) - 1 /\ Head(s) = s[1]
         /\ \A i \in 1 .. Len(s) - 1 : Tail(s)[i] = s[i + 1]
         /\ Rng(s) = Rng(Tail(s)) \cup {Head(s)} /\ Head(s) \in Rng(s)
         /\ Rng(Tail(s)) \subseteq Rng(s)
         /\ Inj(s) => Inj(Tail(s)) /\ Rng(Tail(s)) = Rng(s) \ {Head(s)}
<1> DEFINE t == Tail(s)
<1>1. /\ Head(s) \in T /\ t \in Seq(T) /\ Len(s) \in Nat \ {0}
      /\ Len(t) = Len(s) - 1 /\ Head(s) = s[1]
      /\ \A i \in 1 .. Len(s) - 1 : t[i] = s[i + 1]
  BY HeadTailProperties, EmptySeq
<1> HIDE DEF t
<1>2. \A i \in 1 .. Len(s) : i = 1 \/ (i - 1 \in 1 .. Len(t) /\ t[i - 1] = s[i])
  BY <1>1
<1>3. \A i \in 1 .. Len(t) : i + 1 \in 1 .. Len(s) /\ t[i] = s[i + 1]
  BY <1>1
<1>4. 1 \in 1 .. Len(s)
  BY <1>1
<1>5. Rng(s) = Rng(t) \cup {Head(s)} /\ Rng(t) \subseteq Rng(s)
  BY <1>1, <1>2, <1>3, <1>4 DEF Rng
<1>6. ASSUME Inj(s) PROVE Inj(t) /\ Head(s) \notin Rng(t)
  <2>1. Inj(t)
    BY <1>3, <1>6, <1>1 DEF Inj
  <2>2. \A i \in 1 .. Len(t) : t[i] # s[1]
    BY <1>1, <1>3, <1>4, <1>6 DEF Inj
  <2> QED
    BY <2>1, <2>2, <1>1 DEF Rng
<1> QED
  BY <1>1, <1>5, <1>6 DEF t

\* A list without its last element.
LEMMA FrontIs ==
  ASSUME NEW T, NEW s \in Seq(T), s # << >>
  PROVE  LET t == SubSeq(s, 1, Len(s) - 1) IN
         /\ t \in Seq(T) /\ Len(t) = Len(s) - 1 /\ Len(s) \in Nat \ {0}
         /\ s[Len(s)] \in T /\ s[Len(s)] \in Rng(s)
         /\ \A i \in 1 .. Len(s) - 1 : t[i] = s[i]
         /\ Inj(s) => Inj(t) /\ Rng(t) = Rng(s) \ {s[Len(s)]}
<1> DEFINE t == SubSeq(s, 1, Len(s) - 1)
<1>1. /\ Len(s) \in Nat \ {0} /\ Len(s) >= 1
      /\ \A i \in 1 .. Len(s) : s[i] \in T
  <2>1. Len(s) \in Nat \ {0}
    BY EmptySeq
  <2> QED
    BY <2>1
<1>2. /\ t \in Seq(T) /\ Len(t) = Len(s) - 1
      /\ \A i \in 1 .. Len(s) - 1 : t[i] = s[i]
  <2>1. \A i \in 1 .. Len(s) - 1 : s[i] \in T
    BY <1>1
  <2>2. 1 \in Int /\ Len(s) - 1 \in Int
    BY <1>1
  <2>3. /\ t \in Seq(T) /\ Len(t) = IF 1 <= Len(s) - 1 THEN (Len(s) - 1) - 1 + 1 ELSE 0
        /\ \A i \in 1 .. (Len(s) - 1) - 1 + 1 : t[i] = s[1 + i - 1]
    BY <2>1, <2>2, SubSeqProperties
  <2> HIDE DEF t
  <2>4. ASSUME NEW i \in 1 .. Len(s) - 1 PROVE t[i] = s[i]
    <3>1. i \in 1 .. (Len(s) - 1) - 1 + 1 /\ 1 + i - 1 = i
      BY <1>1
    <3> QED
      BY <2>3, <3>1
  <2>5. Len(t) = Len(s) - 1
    <3>1. CASE Len(s) < 2
      <4>1. Len(s) - 1 = 0 /\ ~(1 <= Len(s) - 1)
        BY <1>1, <3>1
      <4> QED
        BY <2>3, <4>1
    <3>2. CASE Len(s) >= 2
      <4>1. 1 <= Len(s) - 1 /\ (Len(s) - 1) - 1 + 1 = Len(s) - 1
        BY <1>1, <3>2
      <4> QED
        BY <2>3, <4>1
    <3>3. Len(s) < 2 \/ Len(s) >= 2
      BY <1>1
    <3> QED
      BY <3>1, <3>2, <3>3
  <2> QED
    BY <2>3, <2>4, <2>5
<1> HIDE DEF t
<1>3. Len(s) \in 1 .. Len(s) /\ \A i \in 1 .. Len(t) : i \in 1 .. Len(s) /\ i # Len(s)
  BY <1>1, <1>2
<1>4. s[Len(s)] \in T /\ s[Len(s)] \in Rng(s)
  BY <1>1, <1>3 DEF Rng
<1>5. ASSUME Inj(s) PROVE Inj(t) /\ Rng(t) = Rng(s) \ {s[Len(s)]}
  <2>1. Inj(t)
    BY <1>2, <1>3, <1>5 DEF Inj
  <2>2. \A i \in 1 .. Len(s) : i = Len(s) \/ (i \in 1 .. Len(t) /\ t[i] = s[i])
    BY <1>1, <1>2
  <2>3. \A i \in 1 .. Len(t) : t[i] = s[i] /\ s[i] # s[Len(s)]
    BY <1>1, <1>2, <1>3, <1>5 DEF Inj
  <2> QED
    BY <1>3, <2>1, <2>2, <2>3 DEF Rng
<1> QED
  BY <1>1, <1>2, <1>4, <1>5 DEF t

\* A list with one more element in front.
LEMMA ConsIs ==
  ASSUME NEW T, NEW s \in Seq(T), NEW x \in T
  PROVE  /\ <<x>> \o s \in Seq(T) /\ Len(<<x>> \o s) = Len(s) + 1
         /\ (<<x>> \o s)[1] = x
         /\ \A i \in 1 .. Len(s) : (<<x>> \o s)[i + 1] = s[i]
         /\ \A i \in 1 .. Len(s) + 1 : i = 1 \/ (i - 1 \in 1 .. Len(s) /\ (<<x>> \o s)[i] = s[i - 1])
<1>1. <<x>> \in Seq(T) /\ Len(<<x>>) = 1 /\ <<x>>[1] = x /\ Len(s) \in Nat
  OBVIOUS
<1>2. /\ <<x>> \o s \in Seq(T) /\ Len(<<x>> \o s) = 1 + Len(s)
      /\ \A i \in 1 .. 1 + Len(s) :
           (<<x>> \o s)[i] = IF i <= 1 THEN <<x>>[i] ELSE s[i - 1]
  BY <1>1, ConcatProperties
<1> DEFINE t == <<x>> \o s
           one == <<x>>
<1>3. /\ t \in Seq(T) /\ Len(t) = 1 + Len(s) /\ one[1] = x /\ Len(s) \in Nat
      /\ \A i \in 1 .. 1 + Len(s) : t[i] = IF i <= 1 THEN one[i] ELSE s[i - 1]
  BY <1>1, <1>2
<1> HIDE DEF t, one
<1>4. t[1] = x
  BY <1>3
<1>5. \A i \in 1 .. Len(s) : t[i + 1] = s[i]
  BY <1>3
<1>6. \A i \in 1 .. Len(s) + 1 : i = 1 \/ (i - 1 \in 1 .. Len(s) /\ t[i] = s[i - 1])
  BY <1>3
<1> QED
  BY <1>3, <1>4, <1>5, <1>6 DEF t

\* Elements that are taken out by what they are: the others stay, a last one last.
LEMMA FilterIs ==
  ASSUME NEW T, NEW s \in Seq(T), NEW S, NEW t, t = Without(s, S), Inj(s)
  PROVE  /\ t \in Seq(T) /\ Inj(t) /\ Rng(t) = Rng(s) \ S
         /\ s # << >> /\ s[Len(s)] \notin S => t # << >> /\ t[Len(t)] = s[Len(s)]
<1>1. /\ t \in Seq(T)
      /\ \A k \in 1 .. Len(t) : t[k] \notin S /\ \E i \in 1 .. Len(s) : t[k] = s[i]
      /\ \A i \in 1 .. Len(s) : s[i] \notin S => \E k \in 1 .. Len(t) : t[k] = s[i]
  BY WithoutElements
<1>2. \A k, l \in 1 .. Len(t) : k < l =>
        \E i, j \in 1 .. Len(s) : i < j /\ t[k] = s[i] /\ t[l] = s[j]
  <2>1. PICK e : Chosen(t, s, S, Len(s), e)
    BY WithoutChooses
  <2> SUFFICES ASSUME NEW k \in 1 .. Len(t), NEW l \in 1 .. Len(t), k < l
               PROVE  \E i, j \in 1 .. Len(s) : i < j /\ t[k] = s[i] /\ t[l] = s[j]
    OBVIOUS
  <2>2. /\ e[k] \in 1 .. Len(s) /\ t[k] = s[e[k]]
        /\ e[l] \in 1 .. Len(s) /\ t[l] = s[e[l]]
        /\ e[k] < e[l]
    BY <2>1 DEF Chosen
  <2> QED
    BY <2>2
<1>3. Len(s) \in Nat /\ Len(t) \in Nat
  BY <1>1
<1>4. Rng(t) = Rng(s) \ S
  <2>1. ASSUME NEW x \in Rng(t) PROVE x \in Rng(s) \ S
    <3>1. PICK k \in 1 .. Len(t) : x = t[k]
      BY <2>1 DEF Rng
    <3> QED
      BY <3>1, <1>1 DEF Rng
  <2>2. ASSUME NEW x \in Rng(s) \ S PROVE x \in Rng(t)
    <3>1. PICK i \in 1 .. Len(s) : x = s[i]
      BY <2>2 DEF Rng
    <3>2. PICK k \in 1 .. Len(t) : t[k] = s[i]
      BY <3>1, <2>2, <1>1
    <3> QED
      BY <3>1, <3>2 DEF Rng
  <2> QED
    BY <2>1, <2>2
<1>5. \A k, l \in 1 .. Len(t) : k < l => t[k] # t[l]
  BY <1>2, <1>3 DEF Inj
<1>6. Inj(t)
  BY <1>3, <1>5 DEF Inj
<1>7. ASSUME s # << >>, s[Len(s)] \notin S PROVE t # << >> /\ t[Len(t)] = s[Len(s)]
  <2>1. Len(s) \in 1 .. Len(s)
    BY <1>7, EmptySeq
  <2>2. PICK k \in 1 .. Len(t) : t[k] = s[Len(s)]
    BY <1>1, <1>7, <2>1
  <2>3. k = Len(t)
    <3>1. SUFFICES ASSUME k < Len(t) PROVE FALSE
      BY <1>3, <2>2
    <3>2. Len(t) \in 1 .. Len(t)
      BY <1>3, <2>2
    <3>3. PICK i, j \in 1 .. Len(s) : i < j /\ t[k] = s[i]
      BY <1>2, <3>1, <3>2
    <3>4. i = Len(s)
      BY <2>1, <2>2, <3>3 DEF Inj
    <3> QED
      BY <3>3, <3>4, <1>3
  <2> QED
    BY <2>2, <2>3, <1>3
<1> QED
  BY <1>1, <1>4, <1>6, <1>7

\* A list without its element at i.
LEMMA RemoveIs ==
  ASSUME NEW T, NEW s \in Seq(T), NEW i \in 1 .. Len(s)
  PROVE  LET t == RemoveAt(s, i) IN
         /\ t \in Seq(T) /\ Len(t) = Len(s) - 1
         /\ \A k \in 1 .. Len(t) : t[k] = s[IF k < i THEN k ELSE k + 1]
<1> DEFINE a == SubSeq(s, 1, i - 1)
           b == SubSeq(s, i + 1, Len(s))
<1>1. /\ Len(s) \in Nat /\ i - 1 \in Nat /\ i + 1 \in Nat
      /\ \A k \in 1 .. Len(s) : s[k] \in T
  OBVIOUS
<1>2. /\ a \in Seq(T) /\ Len(a) = i - 1
      /\ \A k \in 1 .. i - 1 : a[k] = s[k]
  <2>1. \A k \in 1 .. i - 1 : s[k] \in T
    BY <1>1
  <2>2. /\ a \in Seq(T) /\ Len(a) = IF 1 <= i - 1 THEN (i - 1) - 1 + 1 ELSE 0
        /\ \A k \in 1 .. (i - 1) - 1 + 1 : a[k] = s[1 + k - 1]
    BY <1>1, <2>1, SubSeqProperties
  <2> HIDE DEF a
  <2> QED
    BY <1>1, <2>2
<1>3. /\ b \in Seq(T) /\ Len(b) = Len(s) - i
      /\ \A k \in 1 .. Len(s) - i : b[k] = s[i + k]
  <2>1. \A k \in i + 1 .. Len(s) : s[k] \in T
    BY <1>1
  <2>2. /\ b \in Seq(T) /\ Len(b) = IF i + 1 <= Len(s) THEN Len(s) - (i + 1) + 1 ELSE 0
        /\ \A k \in 1 .. Len(s) - (i + 1) + 1 : b[k] = s[(i + 1) + k - 1]
    BY <1>1, <2>1, SubSeqProperties
  <2> HIDE DEF b
  <2> QED
    BY <1>1, <2>2
<1> HIDE DEF a, b
<1>4. /\ a \o b \in Seq(T) /\ Len(a \o b) = Len(a) + Len(b)
      /\ \A k \in 1 .. Len(a) + Len(b) : (a \o b)[k] = IF k <= Len(a) THEN a[k] ELSE b[k - Len(a)]
  BY <1>2, <1>3, ConcatProperties
<1>5. RemoveAt(s, i) = a \o b
  BY DEF RemoveAt, a, b
<1>6. ASSUME NEW k \in 1 .. Len(s) - 1
      PROVE  (a \o b)[k] = s[IF k < i THEN k ELSE k + 1]
  <2>1. CASE k < i
    BY <2>1, <1>1, <1>2, <1>3, <1>4
  <2>2. CASE k >= i
    <3>1. /\ k - Len(a) \in 1 .. Len(s) - i /\ i + (k - Len(a)) = k + 1
          /\ k \in 1 .. Len(a) + Len(b) /\ ~(k <= Len(a)) /\ ~(k < i)
      BY <2>2, <1>1, <1>2, <1>3
    <3>2. (a \o b)[k] = b[k - Len(a)]
      BY <3>1, <1>4
    <3>3. b[k - Len(a)] = s[k + 1]
      BY <3>1, <1>3
    <3> QED
      BY <3>1, <3>2, <3>3
  <2>3. k < i \/ k >= i
    BY <1>1
  <2> QED
    BY <2>1, <2>2, <2>3
<1>7. Len(a \o b) = Len(s) - 1
  BY <1>1, <1>2, <1>3, <1>4
<1> QED
  BY <1>4, <1>5, <1>6, <1>7

-----------------------------------------------------------------------------
(* Who holds which frames.                                                 *)

\* The holders: pp jobs A, JPEG jobs J, raw frames W and callbacks C; and what a
\* holder has, when the memory of pp jobs is m and the callbacks are k.
HoldersOf(A, J, W, C) ==
  ({"pp"} \X A) \cup ({"jpeg"} \X J) \cup ({"raw"} \X W) \cup ({"cb"} \X C)

Two(job) == {job.src, job.reproc} \ {NoFrame}

Own(h, m, k) ==
  CASE h[1] = "pp"   -> Two(m[h[2]])
    [] h[1] = "jpeg" -> JpegFrames(h[2])
    [] h[1] = "raw"  -> {h[2]}
    [] OTHER         -> {k[h[2]].frame}

\* The frames live were handed over; gv counts how often each left.
Fits(H, own, live, gv) ==
  /\ \A h \in H : own[h] \subseteq live
  /\ \A h, l \in H : h # l => own[h] \cap own[l] = {}
  /\ \A f \in Frame : gv[f] = IF f \in live /\ \A h \in H : f \notin own[h] THEN 1 ELSE 0

Fit(A, J, W, C, m, k, live, gv) ==
  Fits(HoldersOf(A, J, W, C), [h \in HoldersOf(A, J, W, C) |-> Own(h, m, k)], live, gv)

Plus(gv, R) == [f \in Frame |-> IF f \in R THEN gv[f] + 1 ELSE gv[f]]

\* The holders D are emptied, at most one is filled, the frames N arrive and R
\* leave: nothing is lost or doubled.
Moves(H, own, D, N, R, H2, own2) ==
  /\ D \subseteq H
  /\ \A h \in H \ D : h \in H2 /\ own2[h] = own[h]
  /\ \A h, l \in H2 : h \notin H \ D /\ l \notin H \ D => h = l
  /\ \A f : (f \in R \/ \E h \in H2 \ (H \ D) : f \in own2[h])
               <=> (f \in N \/ \E h \in D : f \in own[h])
  /\ \A f \in R : \A h \in H2 \ (H \ D) : f \notin own2[h]

\* The rule all steps follow: what holders give up is taken by others or given back.
LEMMA FitMoves ==
  ASSUME NEW H, NEW own, NEW live, NEW gv, NEW D, NEW N, NEW R, NEW H2, NEW own2,
         Fits(H, own, live, gv), N \cap live = {}, Moves(H, own, D, N, R, H2, own2)
  PROVE  Fits(H2, own2, live \cup N, Plus(gv, R))
<1> DEFINE K == H \ D
<1>0. /\ D \subseteq H
      /\ \A h \in K : h \in H2 /\ own2[h] = own[h]
      /\ \A h, l \in H2 : h \notin K /\ l \notin K => h = l
      /\ \A f : (f \in R \/ \E h \in H2 \ K : f \in own2[h])
                   <=> (f \in N \/ \E h \in D : f \in own[h])
      /\ \A f \in R : \A h \in H2 \ K : f \notin own2[h]
  BY DEF Moves
<1>1. /\ \A h \in H : own[h] \subseteq live
      /\ \A h, l \in H : h # l => own[h] \cap own[l] = {}
      /\ \A f \in Frame : gv[f] = IF f \in live /\ \A h \in H : f \notin own[h] THEN 1 ELSE 0
  BY DEF Fits
<1>2. ASSUME NEW h \in H2, h \notin K PROVE own2[h] \subseteq N \cup UNION {own[l] : l \in D}
  BY <1>0, <1>2
<1>3. \A l \in D : own[l] \subseteq live
  BY <1>0, <1>1
<1>4. \A h \in H2 : own2[h] \subseteq live \cup N
  BY <1>0, <1>1, <1>2, <1>3
<1>5. ASSUME NEW h \in K, NEW l \in H2, l \notin K PROVE own2[h] \cap own2[l] = {}
  <2>1. own2[h] = own[h] /\ h \in H /\ own[h] \cap N = {}
    BY <1>0, <1>1
  <2>2. \A d \in D : own[h] \cap own[d] = {}
    BY <1>0, <1>1
  <2> QED
    BY <1>2, <1>5, <2>1, <2>2
<1>6. ASSUME NEW h \in H2, NEW l \in H2, h # l PROVE own2[h] \cap own2[l] = {}
  <2>1. CASE h \in K /\ l \in K
    BY <1>0, <1>1, <1>6, <2>1
  <2>2. CASE h \in K /\ l \notin K
    BY <1>5, <2>2
  <2>3. CASE h \notin K /\ l \in K
    BY <1>5, <2>3
  <2> QED
    BY <1>0, <1>6, <2>1, <2>2, <2>3
<1>7. ASSUME NEW f \in Frame
      PROVE  Plus(gv, R)[f] = IF f \in live \cup N /\ \A h \in H2 : f \notin own2[h] THEN 1 ELSE 0
  <2>0. Plus(gv, R)[f] = IF f \in R THEN gv[f] + 1 ELSE gv[f]
    BY DEF Plus
  <2>1. CASE f \in R
    <3>1. f \in live \cup N /\ gv[f] = 0
      BY <1>0, <1>1, <1>3, <2>1
    <3>2. ASSUME NEW h \in K PROVE f \notin own2[h]
      <4>1. own2[h] = own[h] /\ own[h] \subseteq live /\ \A d \in D : own[h] \cap own[d] = {}
        BY <1>0, <1>1
      <4>2. f \in N \/ \E d \in D : f \in own[d]
        BY <1>0, <2>1
      <4> QED
        BY <4>1, <4>2
    <3>3. \A h \in H2 : f \notin own2[h]
      BY <1>0, <2>1, <3>2
    <3> QED
      BY <2>0, <2>1, <3>1, <3>3
  <2>2. CASE f \notin R
    <3>1. CASE \E h \in H2 : f \in own2[h]
      <4>0. PICK h \in H2 : f \in own2[h]
        BY <3>1
      <4>1. f \in N \/ \E l \in H : f \in own[l]
        BY <1>0, <4>0
      <4>2. gv[f] = 0
        BY <1>1, <4>1
      <4> QED
        BY <2>0, <2>2, <3>1, <4>2
    <3>2. CASE \A h \in H2 : f \notin own2[h]
      <4>1. f \notin N /\ \A h \in H : f \notin own[h]
        BY <1>0, <2>2, <3>2
      <4> QED
        BY <1>1, <2>0, <2>2, <3>2, <4>1
    <3> QED
      BY <3>1, <3>2
  <2> QED
    BY <2>1, <2>2
<1> QED
  BY <1>4, <1>6, <1>7 DEF Fits

\* The four kinds of holders.
LEMMA HoldersAre ==
  ASSUME NEW A, NEW J, NEW W, NEW C
  PROVE  /\ \A x : <<"pp", x>> \in HoldersOf(A, J, W, C) <=> x \in A
         /\ \A x : <<"jpeg", x>> \in HoldersOf(A, J, W, C) <=> x \in J
         /\ \A x : <<"raw", x>> \in HoldersOf(A, J, W, C) <=> x \in W
         /\ \A x : <<"cb", x>> \in HoldersOf(A, J, W, C) <=> x \in C
         /\ \A h \in HoldersOf(A, J, W, C) :
              \/ \E x \in A : h = <<"pp", x>>
              \/ \E x \in J : h = <<"jpeg", x>>
              \/ \E x \in W : h = <<"raw", x>>
              \/ \E x \in C : h = <<"cb", x>>
BY DEF HoldersOf

\* What a holder of each kind has.
LEMMA OwnIs ==
  ASSUME NEW m, NEW k
  PROVE  \A x : /\ Own(<<"pp", x>>, m, k) = Two(m[x])
                /\ Own(<<"jpeg", x>>, m, k) = JpegFrames(x)
                /\ Own(<<"raw", x>>, m, k) = {x}
                /\ Own(<<"cb", x>>, m, k) = {k[x].frame}
BY DEF Own

\* What Fit says of each kind of holder.
LEMMA FitSays ==
  ASSUME NEW A, NEW J, NEW W, NEW C, NEW m, NEW k, NEW live, NEW gv,
         Fit(A, J, W, C, m, k, live, gv)
  PROVE  /\ \A a \in A : Two(m[a]) \subseteq live
         /\ \A j \in J : JpegFrames(j) \subseteq live
         /\ W \subseteq live
         /\ \A c \in C : k[c].frame \in live
         /\ \A a, b \in A : a # b => Two(m[a]) \cap Two(m[b]) = {}
         /\ \A a \in A : /\ \A j \in J : Two(m[a]) \cap JpegFrames(j) = {}
                         /\ Two(m[a]) \cap W = {}
                         /\ \A c \in C : k[c].frame \notin Two(m[a])
         /\ \A j, i \in J : j # i => JpegFrames(j) \cap JpegFrames(i) = {}
         /\ \A j \in J : /\ JpegFrames(j) \cap W = {}
                         /\ \A c \in C : k[c].frame \notin JpegFrames(j)
         /\ \A c \in C : k[c].frame \notin W
         /\ \A c, d \in C : c # d => k[c].frame # k[d].frame
<1> DEFINE H == HoldersOf(A, J, W, C)
           own == [h \in H |-> Own(h, m, k)]
<1>1. /\ \A h \in H : own[h] \subseteq live
      /\ \A h, l \in H : h # l => own[h] \cap own[l] = {}
  BY DEF Fit, Fits
<1>2. /\ \A x \in A : <<"pp", x>> \in H /\ own[<<"pp", x>>] = Two(m[x])
      /\ \A x \in J : <<"jpeg", x>> \in H /\ own[<<"jpeg", x>>] = JpegFrames(x)
      /\ \A x \in W : <<"raw", x>> \in H /\ own[<<"raw", x>>] = {x}
      /\ \A x \in C : <<"cb", x>> \in H /\ own[<<"cb", x>>] = {k[x].frame}
  <2>1. /\ \A x \in A : <<"pp", x>> \in H
        /\ \A x \in J : <<"jpeg", x>> \in H
        /\ \A x \in W : <<"raw", x>> \in H
        /\ \A x \in C : <<"cb", x>> \in H
    BY HoldersAre
  <2> HIDE DEF H
  <2>2. \A h \in H : own[h] = Own(h, m, k)
    OBVIOUS
  <2> HIDE DEF own
  <2>3. ASSUME NEW x \in A PROVE own[<<"pp", x>>] = Two(m[x])
    BY <2>1, <2>2 DEF Own
  <2>4. ASSUME NEW x \in J PROVE own[<<"jpeg", x>>] = JpegFrames(x)
    BY <2>1, <2>2 DEF Own
  <2>5. ASSUME NEW x \in W PROVE own[<<"raw", x>>] = {x}
    BY <2>1, <2>2 DEF Own
  <2>6. ASSUME NEW x \in C PROVE own[<<"cb", x>>] = {k[x].frame}
    BY <2>1, <2>2 DEF Own
  <2> QED
    BY <2>1, <2>3, <2>4, <2>5, <2>6
<1>3. \A x, y : /\ <<"pp", x>> # <<"jpeg", y>> /\ <<"pp", x>> # <<"raw", y>> /\ <<"pp", x>> # <<"cb", y>>
                /\ <<"jpeg", x>> # <<"raw", y>> /\ <<"jpeg", x>> # <<"cb", y>> /\ <<"raw", x>> # <<"cb", y>>
                /\ x # y => /\ <<"pp", x>> # <<"pp", y>> /\ <<"jpeg", x>> # <<"jpeg", y>>
                            /\ <<"cb", x>> # <<"cb", y>>
  OBVIOUS
<1> HIDE DEF H, own
<1>4. /\ \A a \in A : Two(m[a]) \subseteq live
      /\ \A j \in J : JpegFrames(j) \subseteq live
      /\ W \subseteq live
      /\ \A c \in C : k[c].frame \in live
  <2>1. \A f \in W : f \in live
    BY <1>1, <1>2
  <2>2. \A c \in C : k[c].frame \in live
    BY <1>1, <1>2
  <2>3. ASSUME NEW a \in A PROVE Two(m[a]) \subseteq live
    <3>1. <<"pp", a>> \in H /\ own[<<"pp", a>>] = Two(m[a])
      BY <1>2
    <3> QED
      BY <1>1, <3>1
  <2>4. ASSUME NEW j \in J PROVE JpegFrames(j) \subseteq live
    <3>1. <<"jpeg", j>> \in H /\ own[<<"jpeg", j>>] = JpegFrames(j)
      BY <1>2
    <3> QED
      BY <1>1, <3>1
  <2> QED
    BY <2>1, <2>2, <2>3, <2>4
<1>5. /\ \A a, b \in A : a # b => Two(m[a]) \cap Two(m[b]) = {}
      /\ \A j, i \in J : j # i => JpegFrames(j) \cap JpegFrames(i) = {}
      /\ \A c, d \in C : c # d => k[c].frame # k[d].frame
  <2>1. ASSUME NEW a \in A, NEW b \in A, a # b PROVE Two(m[a]) \cap Two(m[b]) = {}
    BY <1>1, <1>2, <1>3, <2>1
  <2>2. ASSUME NEW j \in J, NEW i \in J, j # i PROVE JpegFrames(j) \cap JpegFrames(i) = {}
    BY <1>1, <1>2, <1>3, <2>2
  <2>3. ASSUME NEW c \in C, NEW d \in C, c # d PROVE k[c].frame # k[d].frame
    <3>1. own[<<"cb", c>>] \cap own[<<"cb", d>>] = {}
      BY <1>1, <1>2, <1>3, <2>3
    <3> QED
      BY <1>2, <3>1
  <2> QED
    BY <2>1, <2>2, <2>3
<1>6. ASSUME NEW a \in A
      PROVE  /\ \A j \in J : Two(m[a]) \cap JpegFrames(j) = {}
             /\ Two(m[a]) \cap W = {}
             /\ \A c \in C : k[c].frame \notin Two(m[a])
  <2>1. ASSUME NEW j \in J PROVE Two(m[a]) \cap JpegFrames(j) = {}
    BY <1>1, <1>2, <1>3
  <2>2. ASSUME NEW f \in W PROVE f \notin Two(m[a])
    <3>1. own[<<"pp", a>>] \cap own[<<"raw", f>>] = {}
      BY <1>1, <1>2, <1>3
    <3> QED
      BY <1>2, <3>1
  <2>3. ASSUME NEW c \in C PROVE k[c].frame \notin Two(m[a])
    <3>1. own[<<"pp", a>>] \cap own[<<"cb", c>>] = {}
      BY <1>1, <1>2, <1>3
    <3> QED
      BY <1>2, <3>1
  <2> QED
    BY <2>1, <2>2, <2>3
<1>7. ASSUME NEW j \in J
      PROVE  /\ JpegFrames(j) \cap W = {}
             /\ \A c \in C : k[c].frame \notin JpegFrames(j)
  <2>1. ASSUME NEW f \in W PROVE f \notin JpegFrames(j)
    <3>1. own[<<"jpeg", j>>] \cap own[<<"raw", f>>] = {}
      BY <1>1, <1>2, <1>3
    <3> QED
      BY <1>2, <3>1
  <2>2. ASSUME NEW c \in C PROVE k[c].frame \notin JpegFrames(j)
    <3>1. own[<<"jpeg", j>>] \cap own[<<"cb", c>>] = {}
      BY <1>1, <1>2, <1>3
    <3> QED
      BY <1>2, <3>1
  <2> QED
    BY <2>1, <2>2
<1>8. ASSUME NEW c \in C PROVE k[c].frame \notin W
  <2>1. SUFFICES ASSUME k[c].frame \in W PROVE FALSE
    OBVIOUS
  <2>2. own[<<"raw", k[c].frame>>] \cap own[<<"cb", c>>] = {}
    BY <1>1, <1>2, <1>3, <2>1
  <2> QED
    BY <1>2, <2>1, <2>2
<1> QED
  BY <1>4, <1>5, <1>6, <1>7, <1>8

\* The frames of several jobs.
LEMMA UnionsAre ==
  ASSUME NEW m, NEW A, NEW J
  PROVE  /\ \A f : f \in UNION {Two(m[a]) : a \in A} <=> \E a \in A : f \in Two(m[a])
         /\ \A f : f \in UNION {JpegFrames(j) : j \in J} <=> \E j \in J : f \in JpegFrames(j)
<1>1. ASSUME NEW f PROVE f \in UNION {Two(m[a]) : a \in A} <=> \E a \in A : f \in Two(m[a])
  OBVIOUS
<1>2. ASSUME NEW f PROVE f \in UNION {JpegFrames(j) : j \in J} <=> \E j \in J : f \in JpegFrames(j)
  OBVIOUS
<1> QED
  BY <1>1, <1>2

\* Holders are emptied and all they had is given back.
Freed(m, DA, DJ, DW) ==
  (UNION {Two(m[a]) : a \in DA}) \cup (UNION {JpegFrames(j) : j \in DJ}) \cup DW

\* Jobs and raw frames are released, as a flush does.
LEMMA FitRelease ==
  ASSUME NEW A, NEW J, NEW W, NEW C, NEW m, NEW k, NEW live, NEW gv,
         Fit(A, J, W, C, m, k, live, gv),
         NEW DA \in SUBSET A, NEW DJ \in SUBSET J, NEW DW \in SUBSET W,
         NEW m2, \A a \in A \ DA : Two(m2[a]) = Two(m[a])
  PROVE  Fit(A \ DA, J \ DJ, W \ DW, C, m2, k, live, Plus(gv, Freed(m, DA, DJ, DW)))
<1> DEFINE R == Freed(m, DA, DJ, DW)
           H == HoldersOf(A, J, W, C)
           own == [h \in H |-> Own(h, m, k)]
           D == HoldersOf(DA, DJ, DW, {})
           H2 == HoldersOf(A \ DA, J \ DJ, W \ DW, C)
           own2 == [h \in H2 |-> Own(h, m2, k)]
<1>0. ASSUME NEW f
      PROVE  f \in R <=> (\E a \in DA : f \in Two(m[a])) \/ (\E j \in DJ : f \in JpegFrames(j)) \/ f \in DW
  <2> DEFINE X == UNION {Two(m[a]) : a \in DA}
             Y == UNION {JpegFrames(j) : j \in DJ}
  <2>1. f \in X <=> \E a \in DA : f \in Two(m[a])
    BY UnionsAre
  <2>2. f \in Y <=> \E j \in DJ : f \in JpegFrames(j)
    BY UnionsAre
  <2>3. R = X \cup Y \cup DW
    BY DEF Freed
  <2> HIDE DEF X, Y
  <2>4. f \in R <=> f \in X \/ f \in Y \/ f \in DW
    BY <2>3
  <2> QED
    BY <2>1, <2>2, <2>4
<1> HIDE DEF R
<1>1. Fits(H, own, live, gv)
  BY DEF Fit
<1>2. D \in SUBSET H /\ H2 = H \ D
  <2>1. ASSUME NEW h \in D PROVE h \in H
    BY DEF HoldersOf
  <2>2. ASSUME NEW h \in H2 PROVE h \in H /\ h \notin D
    BY DEF HoldersOf
  <2>3. ASSUME NEW h \in H, h \notin D PROVE h \in H2
    BY <2>3 DEF HoldersOf
  <2> HIDE DEF H, D, H2
  <2> QED
    BY <2>1, <2>2, <2>3
<1>3. ASSUME NEW h \in H2 PROVE own2[h] = own[h]
  <2>1. Own(h, m2, k) = Own(h, m, k)
    BY DEF HoldersOf, Own
  <2>2. h \in H
    BY <1>2
  <2> QED
    BY <2>1, <2>2
<1>4. ASSUME NEW f PROVE f \in R <=> \E h \in D : f \in own[h]
  <2>1. ASSUME NEW h \in D, f \in own[h] PROVE f \in R
    <3>1. own[h] = Own(h, m, k)
      BY <1>2
    <3>2. CASE \E a \in DA : h = <<"pp", a>>
      <4>1. PICK a \in DA : h = <<"pp", a>>
        BY <3>2
      <4>2. f \in Two(m[a])
        BY <2>1, <3>1, <4>1 DEF Own
      <4> QED
        BY <4>2, <1>0
    <3>3. CASE \E j \in DJ : h = <<"jpeg", j>>
      <4>1. PICK j \in DJ : h = <<"jpeg", j>>
        BY <3>3
      <4>2. f \in JpegFrames(j)
        BY <2>1, <3>1, <4>1 DEF Own
      <4> QED
        BY <4>2, <1>0
    <3>4. CASE \E w \in DW : h = <<"raw", w>>
      <4>1. PICK w \in DW : h = <<"raw", w>>
        BY <3>4
      <4>2. f = w
        BY <2>1, <3>1, <4>1 DEF Own
      <4> QED
        BY <4>2, <1>0
    <3> QED
      BY <3>2, <3>3, <3>4, HoldersAre
  <2>2. ASSUME NEW a \in DA, f \in Two(m[a]) PROVE \E h \in D : f \in own[h]
    <3>1. <<"pp", a>> \in D /\ Own(<<"pp", a>>, m, k) = Two(m[a])
      BY HoldersAre DEF Own
    <3> QED
      BY <1>2, <2>2, <3>1
  <2>3. ASSUME NEW j \in DJ, f \in JpegFrames(j) PROVE \E h \in D : f \in own[h]
    <3>1. <<"jpeg", j>> \in D /\ Own(<<"jpeg", j>>, m, k) = JpegFrames(j)
      BY HoldersAre DEF Own
    <3> QED
      BY <1>2, <2>3, <3>1
  <2>4. ASSUME f \in DW PROVE \E h \in D : f \in own[h]
    <3>1. <<"raw", f>> \in D /\ Own(<<"raw", f>>, m, k) = {f}
      BY <2>4, HoldersAre DEF Own
    <3> QED
      BY <1>2, <3>1
  <2> HIDE DEF D, own
  <2>5. ASSUME f \in R PROVE \E h \in D : f \in own[h]
    <3>1. (\E a \in DA : f \in Two(m[a])) \/ (\E j \in DJ : f \in JpegFrames(j)) \/ f \in DW
      BY <2>5, <1>0
    <3> QED
      BY <3>1, <2>2, <2>3, <2>4
  <2> QED
    BY <2>1, <2>5
<1> HIDE DEF H, own, D, H2, own2
<1>5. Fits(H2, own2, live \cup {}, Plus(gv, R))
  <2>1. \A h \in H \ D : h \in H2 /\ own2[h] = own[h]
    BY <1>2, <1>3
  <2>2. H2 \ (H \ D) = {}
    BY <1>2
  <2>3. \A h, l \in H2 : h \notin H \ D /\ l \notin H \ D => h = l
    BY <1>2
  <2>4. \A f : (f \in R \/ \E h \in H2 \ (H \ D) : f \in own2[h])
                  <=> (f \in {} \/ \E h \in D : f \in own[h])
    BY <1>4, <2>2
  <2>5. Moves(H, own, D, {}, R, H2, own2)
    BY <1>2, <2>1, <2>2, <2>3, <2>4 DEF Moves
  <2> QED
    BY <1>1, <2>5, FitMoves
<1>6. live \cup {} = live
  OBVIOUS
<1> QED
  BY <1>5, <1>6 DEF Fit, H2, own2, R

\* Some holders D are emptied, and x gets G; what D had and the frames N that arrive
\* are G and what is given back, R.
Fills(H, H2, D, x, m, k, m2, k2, N, R, G) ==
  /\ D \subseteq H /\ H2 = (H \ D) \cup {x} /\ x \notin H \ D
  /\ \A h \in H \ D : Own(h, m2, k2) = Own(h, m, k)
  /\ Own(x, m2, k2) = G /\ G \cap R = {}
  /\ R \cup G = N \cup (UNION {Own(h, m, k) : h \in D})

\* One holder is filled with what others had, or with frames that arrive.
LEMMA FitFills ==
  ASSUME NEW A, NEW J, NEW W, NEW C, NEW m, NEW k, NEW live, NEW gv,
         NEW A2, NEW J2, NEW W2, NEW C2, NEW m2, NEW k2,
         NEW D, NEW x, NEW N, NEW R, NEW G,
         Fit(A, J, W, C, m, k, live, gv), N \cap live = {},
         Fills(HoldersOf(A, J, W, C), HoldersOf(A2, J2, W2, C2), D, x, m, k, m2, k2, N, R, G)
  PROVE  Fit(A2, J2, W2, C2, m2, k2, live \cup N, Plus(gv, R))
<1> DEFINE H == HoldersOf(A, J, W, C)
           own == [h \in H |-> Own(h, m, k)]
           H2 == HoldersOf(A2, J2, W2, C2)
           own2 == [h \in H2 |-> Own(h, m2, k2)]
<1>1. Fits(H, own, live, gv)
  BY DEF Fit
<1>2. /\ \A h \in H : own[h] = Own(h, m, k)
      /\ \A h \in H2 : own2[h] = Own(h, m2, k2)
  OBVIOUS
<1>3. /\ H2 = (H \ D) \cup {x} /\ x \notin H \ D
      /\ \A h \in H \ D : Own(h, m2, k2) = Own(h, m, k)
      /\ D \subseteq H /\ Own(x, m2, k2) = G /\ G \cap R = {}
      /\ R \cup G = N \cup (UNION {Own(h, m, k) : h \in D})
  BY DEF Fills
<1> HIDE DEF H, own, H2, own2
<1>4. \A h \in H \ D : h \in H2 /\ own2[h] = own[h]
  BY <1>2, <1>3
<1>5. H2 \ (H \ D) = {x} /\ own2[x] = G
  BY <1>2, <1>3
<1>6. \A h, l \in H2 : h \notin H \ D /\ l \notin H \ D => h = l
  BY <1>3
<1>7. \A f : (f \in R \/ \E h \in H2 \ (H \ D) : f \in own2[h])
                <=> (f \in N \/ \E h \in D : f \in own[h])
  <2>1. ASSUME NEW f PROVE (f \in R \/ f \in G) <=> (f \in N \/ \E h \in D : f \in Own(h, m, k))
    BY <1>3
  <2>2. \A h \in D : own[h] = Own(h, m, k)
    BY <1>2, <1>3
  <2> QED
    BY <1>5, <2>1, <2>2
<1>8. \A f \in R : \A h \in H2 \ (H \ D) : f \notin own2[h]
  BY <1>3, <1>5
<1>9. Fits(H2, own2, live \cup N, Plus(gv, R))
  <2>1. Moves(H, own, D, N, R, H2, own2)
    BY <1>3, <1>4, <1>6, <1>7, <1>8 DEF Moves
  <2> QED
    BY <1>1, <2>1, FitMoves
<1> QED
  BY <1>9 DEF Fit, H2, own2

\* Nothing is given back.
LEMMA PlusNone ==
  ASSUME NEW gv \in [Frame -> Nat]
  PROVE  Plus(gv, {}) = gv
BY DEF Plus

\* Frames that arrive and go back at once.
LEMMA FitReturns ==
  ASSUME NEW A, NEW J, NEW W, NEW C, NEW m, NEW k, NEW live, NEW gv,
         Fit(A, J, W, C, m, k, live, gv), NEW N, N \cap live = {}
  PROVE  Fit(A, J, W, C, m, k, live \cup N, Plus(gv, N))
<1> DEFINE H == HoldersOf(A, J, W, C)
           own == [h \in H |-> Own(h, m, k)]
<1>1. Fits(H, own, live, gv)
  BY DEF Fit
<1> HIDE DEF H, own
<1>2. Moves(H, own, {}, N, N, H, own)
  BY DEF Moves
<1>3. Fits(H, own, live \cup N, Plus(gv, N))
  BY <1>1, <1>2, FitMoves
<1> QED
  BY <1>3 DEF Fit, H, own

\* A frame that arrives comes with a pp job, a JPEG job, as a raw frame, or is put into
\* a callback's hands.
LEMMA FitArrives ==
  ASSUME NEW A, NEW J, NEW W, NEW C, NEW m, NEW k, NEW live, NEW gv \in [Frame -> Nat],
         Fit(A, J, W, C, m, k, live, gv), NEW f, f \notin live
  PROVE  /\ \A a, m2 : a \notin A /\ (\A b \in A : Two(m2[b]) = Two(m[b])) /\ Two(m2[a]) = {f}
              => Fit(A \cup {a}, J, W, C, m2, k, live \cup {f}, gv)
         /\ \A j : JpegFrames(j) = {f} => Fit(A, J \cup {j}, W, C, m, k, live \cup {f}, gv)
         /\ Fit(A, J, W \cup {f}, C, m, k, live \cup {f}, gv)
         /\ \A c, k2 : c \notin C /\ (\A d \in C : k2[d].frame = k[d].frame) /\ k2[c].frame = f
              => Fit(A, J, W, C \cup {c}, m, k2, live \cup {f}, gv)
<1> DEFINE H == HoldersOf(A, J, W, C)
<1>0. Plus(gv, {}) = gv /\ {f} \cap live = {} /\ {} \in SUBSET H
  BY PlusNone
<1>1. {} \cup {f} = {f} \cup (UNION {Own(h, m, k) : h \in {}}) /\ {f} \cap {} = {}
  OBVIOUS
<1>2. ASSUME NEW a, NEW m2, a \notin A, \A b \in A : Two(m2[b]) = Two(m[b]), Two(m2[a]) = {f}
      PROVE  Fit(A \cup {a}, J, W, C, m2, k, live \cup {f}, gv)
  <2>1. HoldersOf(A \cup {a}, J, W, C) = (H \ {}) \cup {<<"pp", a>>} /\ <<"pp", a>> \notin H \ {}
    BY <1>2 DEF HoldersOf
  <2>2. Own(<<"pp", a>>, m2, k) = {f} /\ \A h \in H \ {} : Own(h, m2, k) = Own(h, m, k)
    BY <1>2 DEF HoldersOf, Own
  <2>4. Fills(H, HoldersOf(A \cup {a}, J, W, C), {}, <<"pp", a>>, m, k, m2, k, {f}, {}, {f})
    BY <1>0, <1>1, <2>1, <2>2 DEF Fills
  <2> QED
    BY <1>0, <2>4, FitFills
<1>3. ASSUME NEW j, JpegFrames(j) = {f}
      PROVE  Fit(A, J \cup {j}, W, C, m, k, live \cup {f}, gv)
  <2>1. j \notin J
    <3>1. \A i \in J : JpegFrames(i) \subseteq live
      BY FitSays
    <3> QED
      BY <1>3, <3>1
  <2>2. HoldersOf(A, J \cup {j}, W, C) = (H \ {}) \cup {<<"jpeg", j>>} /\ <<"jpeg", j>> \notin H \ {}
    BY <2>1 DEF HoldersOf
  <2>3. Own(<<"jpeg", j>>, m, k) = {f} /\ \A h \in H \ {} : Own(h, m, k) = Own(h, m, k)
    BY <1>3 DEF Own
  <2>4. Fills(H, HoldersOf(A, J \cup {j}, W, C), {}, <<"jpeg", j>>, m, k, m, k, {f}, {}, {f})
    BY <1>0, <1>1, <2>2, <2>3 DEF Fills
  <2> QED
    BY <1>0, <2>4, FitFills
<1>4. Fit(A, J, W \cup {f}, C, m, k, live \cup {f}, gv)
  <2>1. f \notin W
    BY FitSays
  <2>2. HoldersOf(A, J, W \cup {f}, C) = (H \ {}) \cup {<<"raw", f>>} /\ <<"raw", f>> \notin H \ {}
    BY <2>1 DEF HoldersOf
  <2>3. Own(<<"raw", f>>, m, k) = {f} /\ \A h \in H \ {} : Own(h, m, k) = Own(h, m, k)
    BY DEF Own
  <2>4. Fills(H, HoldersOf(A, J, W \cup {f}, C), {}, <<"raw", f>>, m, k, m, k, {f}, {}, {f})
    BY <1>0, <1>1, <2>2, <2>3 DEF Fills
  <2> QED
    BY <1>0, <2>4, FitFills
<1>5. ASSUME NEW c, NEW k2, c \notin C, \A d \in C : k2[d].frame = k[d].frame, k2[c].frame = f
      PROVE  Fit(A, J, W, C \cup {c}, m, k2, live \cup {f}, gv)
  <2>1. HoldersOf(A, J, W, C \cup {c}) = (H \ {}) \cup {<<"cb", c>>} /\ <<"cb", c>> \notin H \ {}
    BY <1>5 DEF HoldersOf
  <2>2. Own(<<"cb", c>>, m, k2) = {f} /\ \A h \in H \ {} : Own(h, m, k2) = Own(h, m, k)
    BY <1>5 DEF HoldersOf, Own
  <2>4. Fills(H, HoldersOf(A, J, W, C \cup {c}), {}, <<"cb", c>>, m, k, m, k2, {f}, {}, {f})
    BY <1>0, <1>1, <2>1, <2>2 DEF Fills
  <2> QED
    BY <1>0, <2>4, FitFills
<1> QED
  BY <1>2, <1>3, <1>4, <1>5

\* A callback c has taken pp job a: what the two had, less R, goes back to a, to a JPEG
\* job or to the raw queue.
Hands(A, C, a, c, m, k, m2, k2, R, G) ==
  /\ a \in A /\ c \in C
  /\ \A b \in A \ {a} : Two(m2[b]) = Two(m[b])
  /\ \A d \in C \ {c} : k2[d].frame = k[d].frame
  /\ R \cup G = Two(m[a]) \cup {k[c].frame} /\ G \cap R = {}

\* What the two had, and that nobody else is touched.
LEMMA HandsSay ==
  ASSUME NEW A, NEW J, NEW W, NEW C, NEW m, NEW k, NEW live, NEW gv,
         Fit(A, J, W, C, m, k, live, gv),
         NEW a, NEW c, NEW m2, NEW k2, NEW R, NEW G, Hands(A, C, a, c, m, k, m2, k2, R, G)
  PROVE  /\ {<<"pp", a>>, <<"cb", c>>} \in SUBSET HoldersOf(A, J, W, C)
         /\ {} \cap live = {} /\ live \cup {} = live
         /\ R \cup G = {} \cup (UNION {Own(h, m, k) : h \in {<<"pp", a>>, <<"cb", c>>}})
         /\ \A h \in HoldersOf(A, J, W, C) \ {<<"pp", a>>, <<"cb", c>>} :
              Own(h, m2, k2) = Own(h, m, k)
<1> DEFINE H == HoldersOf(A, J, W, C)
           D == {<<"pp", a>>, <<"cb", c>>}
<1>0. /\ a \in A /\ c \in C /\ \A b \in A \ {a} : Two(m2[b]) = Two(m[b])
      /\ \A d \in C \ {c} : k2[d].frame = k[d].frame
      /\ R \cup G = Two(m[a]) \cup {k[c].frame} /\ G \cap R = {}
  BY DEF Hands
<1>1. D \in SUBSET H /\ {} \cap live = {} /\ live \cup {} = live
  BY <1>0, HoldersAre
<1>2. R \cup G = {} \cup (UNION {Own(h, m, k) : h \in D})
  <2>1. UNION {Own(h, m, k) : h \in D} = Own(<<"pp", a>>, m, k) \cup Own(<<"cb", c>>, m, k)
    OBVIOUS
  <2>2. Own(<<"pp", a>>, m, k) = Two(m[a]) /\ Own(<<"cb", c>>, m, k) = {k[c].frame}
    BY DEF Own
  <2> QED
    BY <1>0, <2>1, <2>2
<1>3. \A h \in H \ D : Own(h, m2, k2) = Own(h, m, k)
  <2>1. ASSUME NEW h \in H \ D PROVE Own(h, m2, k2) = Own(h, m, k)
    <3>1. CASE \E x \in A : h = <<"pp", x>>
      <4>1. PICK x \in A : h = <<"pp", x>>
        BY <3>1
      <4>2. x # a
        BY <2>1, <4>1
      <4>3. Two(m2[x]) = Two(m[x])
        BY <1>0, <4>2
      <4> QED
        BY <4>1, <4>3 DEF Own
    <3>2. CASE \E x \in C : h = <<"cb", x>>
      <4>1. PICK x \in C : h = <<"cb", x>>
        BY <3>2
      <4>2. x # c
        BY <2>1, <4>1
      <4>3. k2[x].frame = k[x].frame
        BY <1>0, <4>2
      <4> QED
        BY <4>1, <4>3 DEF Own
    <3>3. CASE \E x \in J \cup W : h = <<"jpeg", x>> \/ h = <<"raw", x>>
      BY <3>3 DEF Own
    <3> QED
      BY <2>1, <3>1, <3>2, <3>3, HoldersAre
  <2> QED
    BY <2>1
<1> QED
  BY <1>1, <1>2, <1>3

\* ... back to the pp job,
LEMMA FitToPP ==
  ASSUME NEW A, NEW J, NEW W, NEW C, NEW m, NEW k, NEW live, NEW gv,
         Fit(A, J, W, C, m, k, live, gv),
         NEW a, NEW c, NEW m2, NEW k2, NEW R, NEW G, Hands(A, C, a, c, m, k, m2, k2, R, G),
         Two(m2[a]) = G
  PROVE  Fit(A, J, W, C \ {c}, m2, k2, live, Plus(gv, R))
<1> DEFINE H == HoldersOf(A, J, W, C)
           D == {<<"pp", a>>, <<"cb", c>>}
<1>0. /\ a \in A /\ c \in C /\ R \cup G = Two(m[a]) \cup {k[c].frame} /\ G \cap R = {}
  BY DEF Hands
<1>1. /\ D \in SUBSET H /\ {} \cap live = {} /\ live \cup {} = live
      /\ R \cup G = {} \cup (UNION {Own(h, m, k) : h \in D})
      /\ \A h \in H \ D : Own(h, m2, k2) = Own(h, m, k)
  BY HandsSay
<1>2. /\ HoldersOf(A, J, W, C \ {c}) = (H \ D) \cup {<<"pp", a>>}
      /\ <<"pp", a>> \notin H \ D
  BY <1>0 DEF HoldersOf
<1>3. Own(<<"pp", a>>, m2, k2) = G
  BY <1>0 DEF Own
<1> HIDE DEF D
<1>4. Fills(H, HoldersOf(A, J, W, C \ {c}), D, <<"pp", a>>, m, k, m2, k2, {}, R, G)
  BY <1>0, <1>1, <1>2, <1>3 DEF Fills
<1>5. Fit(A, J, W, C \ {c}, m2, k2, live \cup {}, Plus(gv, R))
  BY <1>1, <1>4, FitFills
<1> QED
  BY <1>1, <1>5

\* ... to a JPEG job,
LEMMA FitToJpeg ==
  ASSUME NEW A, NEW J, NEW W, NEW C, NEW m, NEW k, NEW live, NEW gv,
         Fit(A, J, W, C, m, k, live, gv),
         NEW a, NEW c, NEW m2, NEW k2, NEW R, NEW j, JpegFrames(j) # {},
         Hands(A, C, a, c, m, k, m2, k2, R, JpegFrames(j))
  PROVE  j \notin J /\ Fit(A \ {a}, J \cup {j}, W, C \ {c}, m2, k2, live, Plus(gv, R))
<1> DEFINE H == HoldersOf(A, J, W, C)
           D == {<<"pp", a>>, <<"cb", c>>}
<1> DEFINE G == JpegFrames(j)
<1>hands. Hands(A, C, a, c, m, k, m2, k2, R, G) /\ G # {} /\ JpegFrames(j) = G
  OBVIOUS
<1> HIDE DEF G
<1>0. /\ a \in A /\ c \in C /\ R \cup G = Two(m[a]) \cup {k[c].frame} /\ G \cap R = {}
  BY <1>hands DEF Hands
<1>1. /\ D \in SUBSET H /\ {} \cap live = {} /\ live \cup {} = live
      /\ R \cup G = {} \cup (UNION {Own(h, m, k) : h \in D})
      /\ \A h \in H \ D : Own(h, m2, k2) = Own(h, m, k)
  BY <1>hands, HandsSay
<1>2. j \notin J
  <2>1. PICK f : f \in G
    BY <1>hands, <1>0
  <2>2. f \in Two(m[a]) \cup {k[c].frame}
    BY <1>hands, <1>0, <2>1
  <2>3. \A i \in J : f \notin JpegFrames(i)
    BY <1>hands, <1>0, <2>2, FitSays
  <2> QED
    BY <1>hands, <1>0, <2>1, <2>3
<1>3. /\ HoldersOf(A \ {a}, J \cup {j}, W, C \ {c}) = (H \ D) \cup {<<"jpeg", j>>}
      /\ <<"jpeg", j>> \notin H \ D
  BY <1>hands, <1>0, <1>2 DEF HoldersOf
<1>4. Own(<<"jpeg", j>>, m2, k2) = G
  BY <1>hands, <1>0 DEF Own
<1> HIDE DEF D
<1>5. Fills(H, HoldersOf(A \ {a}, J \cup {j}, W, C \ {c}), D, <<"jpeg", j>>, m, k, m2, k2, {}, R, G)
  BY <1>hands, <1>0, <1>1, <1>3, <1>4 DEF Fills
<1>6. Fit(A \ {a}, J \cup {j}, W, C \ {c}, m2, k2, live \cup {}, Plus(gv, R))
  BY <1>1, <1>5, FitFills
<1> QED
  BY <1>1, <1>2, <1>6

\* ... to the raw queue,
LEMMA FitToRaw ==
  ASSUME NEW A, NEW J, NEW W, NEW C, NEW m, NEW k, NEW live, NEW gv,
         Fit(A, J, W, C, m, k, live, gv),
         NEW a, NEW c, NEW m2, NEW k2, NEW R, NEW f,
         Hands(A, C, a, c, m, k, m2, k2, R, {f})
  PROVE  f \notin W /\ Fit(A \ {a}, J, W \cup {f}, C \ {c}, m2, k2, live, Plus(gv, R))
<1> DEFINE H == HoldersOf(A, J, W, C)
           D == {<<"pp", a>>, <<"cb", c>>}
<1> DEFINE G == {f}
<1>hands. Hands(A, C, a, c, m, k, m2, k2, R, G) /\ G = {f}
  OBVIOUS
<1> HIDE DEF G
<1>0. /\ a \in A /\ c \in C /\ R \cup G = Two(m[a]) \cup {k[c].frame} /\ G \cap R = {}
  BY <1>hands DEF Hands
<1>1. /\ D \in SUBSET H /\ {} \cap live = {} /\ live \cup {} = live
      /\ R \cup G = {} \cup (UNION {Own(h, m, k) : h \in D})
      /\ \A h \in H \ D : Own(h, m2, k2) = Own(h, m, k)
  BY <1>hands, HandsSay
<1>2. f \notin W
  <2>1. f \in Two(m[a]) \/ f = k[c].frame
    BY <1>hands, <1>0
  <2>2. Two(m[a]) \cap W = {} /\ k[c].frame \notin W
    BY <1>hands, <1>0, FitSays
  <2> QED
    BY <2>1, <2>2
<1>3. /\ HoldersOf(A \ {a}, J, W \cup {f}, C \ {c}) = (H \ D) \cup {<<"raw", f>>}
      /\ <<"raw", f>> \notin H \ D
  BY <1>hands, <1>0, <1>2 DEF HoldersOf
<1>4. Own(<<"raw", f>>, m2, k2) = G
  BY <1>hands, <1>0 DEF Own
<1> HIDE DEF D
<1>5. Fills(H, HoldersOf(A \ {a}, J, W \cup {f}, C \ {c}), D, <<"raw", f>>, m, k, m2, k2, {}, R, G)
  BY <1>hands, <1>0, <1>1, <1>3, <1>4 DEF Fills
<1>6. Fit(A \ {a}, J, W \cup {f}, C \ {c}, m2, k2, live \cup {}, Plus(gv, R))
  BY <1>1, <1>5, FitFills
<1> QED
  BY <1>1, <1>2, <1>6

\* ... or to nobody.
LEMMA FitToNobody ==
  ASSUME NEW A, NEW J, NEW W, NEW C, NEW m, NEW k, NEW live, NEW gv,
         Fit(A, J, W, C, m, k, live, gv),
         NEW a, NEW c, NEW m2, NEW k2, NEW R, NEW G, Hands(A, C, a, c, m, k, m2, k2, R, G),
         G = {}
  PROVE  Fit(A \ {a}, J, W, C \ {c}, m2, k2, live, Plus(gv, R))
<1> DEFINE H == HoldersOf(A, J, W, C)
           D == {<<"pp", a>>, <<"cb", c>>}
<1>0. /\ a \in A /\ c \in C /\ R \cup G = Two(m[a]) \cup {k[c].frame} /\ G \cap R = {}
  BY DEF Hands
<1>1. /\ D \in SUBSET H /\ {} \cap live = {} /\ live \cup {} = live
      /\ R \cup G = {} \cup (UNION {Own(h, m, k) : h \in D})
      /\ \A h \in H \ D : Own(h, m2, k2) = Own(h, m, k)
  BY HandsSay
<1> DEFINE own == [h \in H |-> Own(h, m, k)]
           H2 == HoldersOf(A \ {a}, J, W, C \ {c})
           own2 == [h \in H2 |-> Own(h, m2, k2)]
<1>2. H2 = H \ D
  BY <1>0 DEF HoldersOf
<1>3. Fits(H, own, live, gv)
  BY DEF Fit
<1>4. /\ \A h \in H : own[h] = Own(h, m, k)
      /\ \A h \in H2 : own2[h] = Own(h, m2, k2)
  OBVIOUS
<1> HIDE DEF H, D, own, own2, H2
<1>5. /\ D \subseteq H
      /\ \A h \in H \ D : h \in H2 /\ own2[h] = own[h]
      /\ H2 \ (H \ D) = {}
  BY <1>1, <1>2, <1>4
<1>6. ASSUME NEW f PROVE f \in R <=> \E h \in D : f \in own[h]
  <2>1. f \in R <=> f \in UNION {Own(h, m, k) : h \in D}
    BY <1>1
  <2> QED
    BY <1>4, <1>5, <2>1
<1>7. Moves(H, own, D, {}, R, H2, own2)
  BY <1>2, <1>5, <1>6 DEF Moves
<1>8. Fits(H2, own2, live \cup {}, Plus(gv, R))
  BY <1>1, <1>3, <1>7, FitMoves
<1> QED
  BY <1>1, <1>8 DEF Fit, H2, own2

\* A JPEG job gets its id.
LEMMA FitRenames ==
  ASSUME NEW A, NEW J, NEW W, NEW C, NEW m, NEW k, NEW live, NEW gv \in [Frame -> Nat],
         Fit(A, J, W, C, m, k, live, gv),
         NEW j \in J, NEW i, JpegFrames(i) = JpegFrames(j), JpegFrames(j) # {}
  PROVE  Fit(A, (J \ {j}) \cup {i}, W, C, m, k, live, gv) /\ i \notin J \ {j}
<1> DEFINE H == HoldersOf(A, J, W, C)
           D == {<<"jpeg", j>>}
<1>1. D \in SUBSET H /\ {} \cap live = {} /\ live \cup {} = live /\ Plus(gv, {}) = gv
  BY HoldersAre, PlusNone
<1>2. i \notin J \ {j}
  BY FitSays
<1>3. /\ HoldersOf(A, (J \ {j}) \cup {i}, W, C) = (H \ D) \cup {<<"jpeg", i>>}
      /\ <<"jpeg", i>> \notin H \ D
  BY <1>2 DEF HoldersOf
<1>4. /\ Own(<<"jpeg", i>>, m, k) = JpegFrames(i)
      /\ \A h \in H \ D : Own(h, m, k) = Own(h, m, k)
  BY DEF Own
<1>5. {} \cup JpegFrames(i) = {} \cup (UNION {Own(h, m, k) : h \in D}) /\ JpegFrames(i) \cap {} = {}
  <2>1. UNION {Own(h, m, k) : h \in D} = Own(<<"jpeg", j>>, m, k)
    OBVIOUS
  <2> QED
    BY <2>1 DEF Own
<1> HIDE DEF D
<1>6. Fills(H, HoldersOf(A, (J \ {j}) \cup {i}, W, C), D, <<"jpeg", i>>, m, k, m, k,
            {}, {}, JpegFrames(i))
  BY <1>1, <1>3, <1>4, <1>5 DEF Fills
<1>7. Fit(A, (J \ {j}) \cup {i}, W, C, m, k, live \cup {}, Plus(gv, {}))
  BY <1>1, <1>6, FitFills
<1> QED
  BY <1>1, <1>2, <1>7

-----------------------------------------------------------------------------
(* The inductive invariant.                                                *)

\* The lists of the queues that are waited for.
Waiting  == q["inputPP"].nodes
Ongoing  == q["ongoingPP"].nodes
ToEncode == q["inputJpeg"].nodes
Encoding == q["ongoingJpeg"].nodes
Raws     == q["inputRaw"].nodes

HeldCbs  == {c \in Channels : cb[c].at = "held"}
HeldJobs == {cb[c].job : c \in HeldCbs}
Outs     == {hw[i].out : i \in 1 .. Len(hw)}
Outputs  == {f \in Frame : f.pass > 0}
Later(f) == [f EXCEPT !.pass = @ + 1]

Commands == {"start", "stop", "next"}
Working  == {"jpeg", "encode", "store", "raw", "reproc", "ask"}

\* The queues that START opens and STOP flushes, and those still to flush.
Opened    == {"ongoingPP", "inputJpeg", "inputPP", "inputRaw"}
FlushLeft == {<<"ongoingJpeg", "ongoingPP", "inputJpeg", "inputPP", "inputRaw">>,
              <<"ongoingPP", "inputJpeg", "inputPP", "inputRaw">>,
              <<"inputJpeg", "inputPP", "inputRaw">>, <<"inputPP", "inputRaw">>,
              <<"inputRaw">>, << >>}
Left == Rng(flushing)
Closed(n) == IF n = "ongoingJpeg" THEN Encoding = << >> ELSE ~q[n].active

\* Types.
QShape ==
  /\ q = [n \in QueueNames |-> q[n]]
  /\ \A n \in PPQueues : q[n] \in QueueOf(Blocks)
  /\ \A n \in JpegQueues : q[n] \in QueueOf(JpegJob)
  /\ q["inputRaw"] \in QueueOf(Frame) /\ q["inputSave"] \in QueueOf(JpegEvt)

DShape ==
  /\ isActive \in BOOLEAN /\ saveActive \in BOOLEAN /\ running \in BOOLEAN
  /\ dpc \in {"idle", "save", "flush"} \cup Working
  /\ hand \in Blocks \cup {0} /\ (dpc = "ask" => hand \in Blocks)
  /\ flushing \in FlushLeft
  /\ dBox \in Seq(Commands) /\ sBox \in Seq(Commands)
  /\ sm \in {"idle", "start", "stop", "delete"} /\ sessions \in 0 .. MaxSessions
  /\ src \in {"idle", "send"}

FShape ==
  /\ world \in Worlds
  /\ mem \in [Blocks -> PPJob] /\ alloc \subseteq Blocks
  /\ cb \in [Channels -> [at : {"idle", "held", "send"}, job : Blocks \cup {0},
                          frame : Outputs \cup {NoFrame}]]
  /\ hw \in Seq([chan : Channels, out : Outputs])
  /\ encoder \subseteq [id : Nat \ {0}, shot : Shots] /\ \A e \in encoder : e.id < nextId
  /\ nextId \in Nat \ {0} /\ (dpc = "store" => nextId > 1) /\ evts \in Seq(JpegEvt)
  /\ seen \subseteq Frame /\ orphans \subseteq seen /\ done \in [Frame -> Nat]
  /\ answers \in [Shots -> Nat]

\* Each command of START and STOP is sent once and followed by its thread's state.
Control ==
  /\ \A i \in 1 .. Len(dBox) : dBox[i] = "start" => sm = "start"
  /\ \A i \in 1 .. Len(dBox) : dBox[i] = "stop" => sm = "stop" /\ dpc \notin {"save", "flush"}
  /\ \A i, j \in 1 .. Len(dBox) : dBox[i] = dBox[j] /\ dBox[i] # "next" => i = j
  /\ \A i \in 1 .. Len(sBox) : sBox[i] = "stop" => dpc = "save"
  /\ \A i, j \in 1 .. Len(sBox) : sBox[i] = "stop" /\ sBox[j] = "stop" => i = j
  /\ dpc \in {"save", "flush"} => sm = "stop"
  /\ sm \in {"stop", "delete"} => running
  /\ sm = "start" => ~running
  /\ isActive => running /\ sm # "delete" /\ dpc \notin {"save", "flush"}
  /\ running /\ sm = "idle" => isActive
  /\ dpc \in Working => isActive
  /\ dpc # "flush" => flushing = << >>

\* Before the channels are deleted, and until the next START is handled.
OffNow == sm = "delete" \/ (~running /\ sessions > (IF sm = "start" THEN 1 ELSE 0))

\* Queues are open while D is active and closed and empty when they were flushed.
Queues ==
  /\ \A n \in QueueNames : ~q[n].active => q[n].nodes = << >>
  /\ q["ongoingJpeg"].active
  /\ isActive => \A n \in Opened : q[n].active
  /\ OffNow => \A n \in Opened \cup {"ongoingJpeg"} : Closed(n)
  /\ dpc = "flush" => \A n \in (Opened \cup {"ongoingJpeg"}) \ Left : Closed(n)
  /\ ~running => hw = << >> /\ HeldCbs = {} /\ Ongoing = << >> /\ Encoding = << >>

\* A block is on one of the two queues, or held, or free.
Placed ==
  /\ Inj(Waiting) /\ Inj(Ongoing) /\ Rng(Waiting) \cap Rng(Ongoing) = {}
  /\ \A c \in HeldCbs :
       cb[c].frame \in Outputs /\ cb[c].job \in Blocks \ (Rng(Waiting) \cup Rng(Ongoing))
  /\ \A c, d \in HeldCbs : cb[c].job = cb[d].job => c = d
  /\ alloc = Rng(Waiting) \cup Rng(Ongoing) \cup HeldJobs

\* A JPEG job is on one queue, and has its id when it was submitted.
JpegPlaced ==
  /\ Inj(ToEncode) /\ Inj(Encoding) /\ Inj(Raws)
  /\ Rng(ToEncode) \cap Rng(Encoding) = {}
  /\ \A j \in Rng(ToEncode) : j.id = 0
  /\ dpc \in {"encode", "store"} => Encoding # << >> /\ Encoding[Len(Encoding)].id = 0
  /\ \A i \in 1 .. Len(Encoding) :
       Encoding[i].id = 0 => dpc \in {"encode", "store"} /\ i = Len(Encoding)

\* The frames of a pp job: the source frame, and the input of the next pass.
Memory ==
  \A a \in alloc :
    /\ mem[a].src \in Frame /\ mem[a].reproc \in Frame /\ mem[a].reproc.pass = 0
    /\ a \in Rng(Waiting) => /\ mem[a].count < world.passes
                             /\ mem[a].src = mem[a].reproc <=> mem[a].count = 0
    /\ a \notin Rng(Waiting) => /\ mem[a].count \in 1 .. world.passes
                                /\ mem[a].src = mem[a].reproc <=> mem[a].count = 1

\* Once m_ongoingPPQ was flushed, outputs find no job.
OngoingGone == sm = "delete" \/ (dpc = "flush" /\ "ongoingPP" \notin Left)

\* The frame f has still to be asked for.
Unasked(f) ==
  \/ \E a \in Rng(Waiting) : mem[a].src = f
  \/ dpc = "ask" /\ mem[hand].src = f
  \/ \E c \in HeldCbs : cb[c].frame = f

\* An output comes once, and while the session lasts there is a job for it.
Asked ==
  /\ Outs \cap seen = {}
  /\ \A i, j \in 1 .. Len(hw) : hw[i].out = hw[j].out => i = j
  /\ \A f \in Frame : Later(f) \in seen \cup Outs => f \in seen /\ ~Unasked(f)
  /\ ~OngoingGone => Len(Ongoing) = Len(hw) + (IF dpc = "ask" THEN 1 ELSE 0)
  /\ dpc = "ask" => hand = Ongoing[Len(Ongoing)]
  /\ orphans # {} => sm \in {"stop", "delete"}

\* Whatever was handed over is held by one holder, or has left once.
Accounted ==
  Fit(alloc, Rng(ToEncode) \cup Rng(Encoding), Rng(Raws), HeldCbs, mem, cb,
      seen \ orphans, done)

IInv == /\ QShape /\ DShape /\ FShape /\ Control /\ Queues
        /\ Placed /\ JpegPlaced /\ Memory /\ Asked /\ Accounted

-----------------------------------------------------------------------------
(* Queues.                                                                 *)

\* What the operations of a queue return, for any data.
LEMMA QueueHas ==
  ASSUME NEW D, NEW x \in QueueOf(D)
  PROVE  /\ x.active \in BOOLEAN /\ x.nodes \in Seq(D) /\ Len(x.nodes) \in Nat
         /\ \A d \in D : x.active => /\ Enqueue(x, d) \in QueueOf(D) /\ Enqueue(x, d).active
                                     /\ Enqueue(x, d).nodes = Append(x.nodes, d)
         /\ CanDequeue(x) => /\ x.active /\ x.nodes # << >> /\ First(x) = Head(x.nodes)
                             /\ DequeueHead(x) \in QueueOf(D) /\ DequeueHead(x).active
                             /\ DequeueHead(x).nodes = Tail(x.nodes)
         /\ x.nodes # << >> => /\ DequeueTail(x) \in QueueOf(D)
                               /\ DequeueTail(x).active = x.active
                               /\ DequeueTail(x).nodes = SubSeq(x.nodes, 1, Len(x.nodes) - 1)
         /\ InitQueue(x) \in QueueOf(D) /\ InitQueue(x).active /\ InitQueue(x).nodes = x.nodes
         /\ Flush(x) \in QueueOf(D) /\ ~Flush(x).active
         /\ x.active => Flush(x).nodes = << >>
         /\ ~x.active => Flush(x) = x
         /\ NewQueue \in QueueOf(D) /\ NewQueue.active /\ NewQueue.nodes = << >>
<1>1. x.active \in BOOLEAN /\ x.nodes \in Seq(D) /\ Len(x.nodes) \in Nat
  BY DEF QueueOf
<1>2. ASSUME NEW d \in D, x.active
      PROVE  /\ Enqueue(x, d) \in QueueOf(D) /\ Enqueue(x, d).active
             /\ Enqueue(x, d).nodes = Append(x.nodes, d)
  <2>1. Append(x.nodes, d) \in Seq(D)
    BY <1>1
  <2> QED
    BY <1>2, <2>1 DEF QueueOf, Enqueue
<1>3. ASSUME CanDequeue(x)
      PROVE  /\ x.active /\ x.nodes # << >> /\ First(x) = Head(x.nodes)
             /\ DequeueHead(x) \in QueueOf(D) /\ DequeueHead(x).active
             /\ DequeueHead(x).nodes = Tail(x.nodes)
  <2>1. x.active /\ x.nodes # << >>
    BY <1>3 DEF CanDequeue
  <2>2. Tail(x.nodes) \in Seq(D)
    BY <1>1, <2>1, TailIs
  <2> QED
    BY <2>1, <2>2 DEF QueueOf, DequeueHead, First
<1>4. ASSUME x.nodes # << >>
      PROVE  /\ DequeueTail(x) \in QueueOf(D)
             /\ DequeueTail(x).active = x.active
             /\ DequeueTail(x).nodes = SubSeq(x.nodes, 1, Len(x.nodes) - 1)
  <2>1. SubSeq(x.nodes, 1, Len(x.nodes) - 1) \in Seq(D)
    BY <1>1, <1>4, FrontIs
  <2> QED
    BY <2>1 DEF QueueOf, DequeueTail
<1>5. << >> \in Seq(D)
  OBVIOUS
<1>6. InitQueue(x) \in QueueOf(D) /\ InitQueue(x).active /\ InitQueue(x).nodes = x.nodes
  BY DEF QueueOf, InitQueue
<1>7. /\ Flush(x) \in QueueOf(D) /\ ~Flush(x).active
      /\ x.active => Flush(x).nodes = << >>
      /\ ~x.active => Flush(x) = x
  BY <1>5 DEF QueueOf, Flush
<1>8. NewQueue \in QueueOf(D) /\ NewQueue.active /\ NewQueue.nodes = << >>
  BY <1>5 DEF QueueOf, NewQueue
<1> QED
  BY <1>1, <1>2, <1>3, <1>4, <1>6, <1>7, <1>8

\* The queues after one of them was set.
LEMMA ExceptIs ==
  ASSUME NEW p, p = [l \in QueueNames |-> p[l]], NEW n \in QueueNames, NEW v
  PROVE  /\ [p EXCEPT ![n] = v][n] = v
         /\ \A l \in QueueNames : l # n => [p EXCEPT ![n] = v][l] = p[l]
         /\ [p EXCEPT ![n] = v] = [l \in QueueNames |-> [p EXCEPT ![n] = v][l]]
OBVIOUS

\* Which queues there are.
LEMMA Names ==
  /\ "inputPP" \in PPQueues /\ "ongoingPP" \in PPQueues
  /\ "inputJpeg" \in JpegQueues /\ "ongoingJpeg" \in JpegQueues
  /\ PPQueues \subseteq QueueNames /\ JpegQueues \subseteq QueueNames
  /\ "inputRaw" \in QueueNames /\ "inputSave" \in QueueNames
  /\ "inputPP" \in QueueNames /\ "ongoingPP" \in QueueNames
  /\ "inputJpeg" \in QueueNames /\ "ongoingJpeg" \in QueueNames
BY DEF PPQueues, JpegQueues, QueueNames

\* What is on the queues.
LEMMA QRead ==
  ASSUME QShape
  PROVE  /\ q = [n \in QueueNames |-> q[n]]
         /\ q["inputPP"] \in QueueOf(Blocks) /\ Waiting \in Seq(Blocks)
         /\ q["ongoingPP"] \in QueueOf(Blocks) /\ Ongoing \in Seq(Blocks)
         /\ q["inputJpeg"] \in QueueOf(JpegJob) /\ ToEncode \in Seq(JpegJob)
         /\ q["ongoingJpeg"] \in QueueOf(JpegJob) /\ Encoding \in Seq(JpegJob)
         /\ q["inputRaw"] \in QueueOf(Frame) /\ Raws \in Seq(Frame)
         /\ q["inputSave"] \in QueueOf(JpegEvt) /\ q["inputSave"].nodes \in Seq(JpegEvt)
BY Names, QueueHas DEF QShape, Waiting, Ongoing, ToEncode, Encoding, Raws

\* The items of the queues by the names of their lists.
LEMMA ItemsAre ==
  /\ Items("inputPP") = Rng(Waiting) /\ Items("ongoingPP") = Rng(Ongoing)
  /\ Items("inputJpeg") = Rng(ToEncode) /\ Items("ongoingJpeg") = Rng(Encoding)
  /\ Items("inputRaw") = Rng(Raws)
  /\ JobsIn(PPQueues) = Rng(Waiting) \cup Rng(Ongoing)
  /\ JobsIn(JpegQueues) = Rng(ToEncode) \cup Rng(Encoding)
<1>1. /\ Items("inputPP") = Rng(Waiting) /\ Items("ongoingPP") = Rng(Ongoing)
      /\ Items("inputJpeg") = Rng(ToEncode) /\ Items("ongoingJpeg") = Rng(Encoding)
      /\ Items("inputRaw") = Rng(Raws)
  BY DEF Items, Rng, Waiting, Ongoing, ToEncode, Encoding, Raws
<1>2. /\ JobsIn(PPQueues) = Items("inputPP") \cup Items("ongoingPP")
      /\ JobsIn(JpegQueues) = Items("inputJpeg") \cup Items("ongoingJpeg")
  BY DEF JobsIn, PPQueues, JpegQueues
<1> QED
  BY <1>1, <1>2

-----------------------------------------------------------------------------
(* Steps that move no frame.                                               *)

\* What holds the frames, and what says which of them were handed over.
SameFrames ==
  UNCHANGED <<world, Waiting, Ongoing, ToEncode, Encoding, Raws, mem, alloc, cb, hw, hand,
              seen, done, orphans>>

\* Nothing happens to pp jobs.
LEMMA PPSame ==
  ASSUME IInv, UNCHANGED <<world, Waiting, Ongoing, mem, alloc, cb>>
  PROVE  Placed' /\ Memory' /\ HeldCbs' = HeldCbs /\ HeldJobs' = HeldJobs
<1>1. HeldCbs' = HeldCbs /\ HeldJobs' = HeldJobs
  BY DEF HeldCbs, HeldJobs
<1>2. Placed'
  BY <1>1 DEF IInv, Placed
<1>3. Memory'
  BY DEF IInv, Memory
<1> QED
  BY <1>1, <1>2, <1>3

\* Nothing happens to JPEG jobs and raw frames.
LEMMA JpegSame ==
  ASSUME IInv, UNCHANGED <<ToEncode, Encoding, Raws>>,
         dpc' \in {"encode", "store"} <=> dpc \in {"encode", "store"}
  PROVE  JpegPlaced'
BY DEF IInv, JpegPlaced

\* Nothing happens to ongoing jobs and their outputs.
LEMMA AskedSame ==
  ASSUME IInv, UNCHANGED <<Waiting, Ongoing, mem, cb, hw, hand, seen>>,
         dpc' = "ask" <=> dpc = "ask", OngoingGone => OngoingGone',
         orphans' # {} => sm' \in {"stop", "delete"}
  PROVE  Asked'
<1>1. HeldCbs' = HeldCbs /\ Outs' = Outs
  BY DEF HeldCbs, Outs
<1>2. \A f \in Frame : Unasked(f)' <=> Unasked(f)
  BY <1>1 DEF Unasked
<1> QED
  BY <1>1, <1>2 DEF IInv, Asked

\* Nothing happens to frames and jobs.
LEMMA FramesSame ==
  ASSUME IInv, SameFrames,
         dpc' \in {"encode", "store"} <=> dpc \in {"encode", "store"},
         dpc' = "ask" <=> dpc = "ask",
         OngoingGone => OngoingGone',
         sm \in {"stop", "delete"} => sm' \in {"stop", "delete"}
  PROVE  (Placed /\ JpegPlaced /\ Memory /\ Asked /\ Accounted)'
<1>1. Placed' /\ Memory' /\ HeldCbs' = HeldCbs
  BY PPSame DEF SameFrames
<1>2. JpegPlaced'
  BY JpegSame DEF SameFrames
<1>3. Asked'
  BY AskedSame DEF SameFrames, IInv, Asked
<1>4. Accounted'
  BY <1>1 DEF IInv, Accounted, SameFrames
<1> QED
  BY <1>1, <1>2, <1>3, <1>4

\* Nothing of q changes.
LEMMA QSame ==
  ASSUME QShape, UNCHANGED q
  PROVE  QShape' /\ UNCHANGED <<Waiting, Ongoing, ToEncode, Encoding, Raws>>
BY DEF QShape, Waiting, Ongoing, ToEncode, Encoding, Raws

\* What Control says does not depend on DO_NEXT_JOB.
LEMMA NextCommand ==
  ASSUME NEW b \in Seq(Commands)
  PROVE  /\ Append(b, "next") \in Seq(Commands)
         /\ \A i \in 1 .. Len(Append(b, "next")) :
              Append(b, "next")[i] # "next" => i \in 1 .. Len(b) /\ Append(b, "next")[i] = b[i]
<1>1. "next" \in Commands
  BY DEF Commands
<1> QED
  BY <1>1, AppendIs

\* The source channel's callback tells D.
LEMMA SourceSendsKeeps ==
  ASSUME IInv, SourceSends
  PROVE  IInv'
<1>0. SameFrames /\ QShape' /\ UNCHANGED <<Waiting, Ongoing, ToEncode, Encoding, Raws>>
  BY QSame DEF IInv, SourceSends, queueVars, frameVars, dVars, SameFrames
<1>1. dBox \in Seq(Commands) /\ dBox' = Append(dBox, "next")
  BY DEF IInv, DShape, SourceSends
<1>2. DShape'
  BY <1>1, NextCommand DEF IInv, DShape, SourceSends, dVars, saveVars, smVars
<1>3. FShape'
  BY DEF IInv, FShape, SourceSends, queueVars, dVars, jpegVars, frameVars
<1>4. Control'
  <2>1. \A i \in 1 .. Len(dBox') : dBox'[i] # "next" => i \in 1 .. Len(dBox) /\ dBox'[i] = dBox[i]
    BY <1>1, NextCommand
  <2> QED
    BY <2>1 DEF IInv, Control, SourceSends, dVars, saveVars, smVars
<1>5. Queues'
  BY <1>0 DEF IInv, Queues, SourceSends, queueVars, dVars, smVars, OffNow, Closed, Left, HeldCbs
<1>6. (Placed /\ JpegPlaced /\ Memory /\ Asked /\ Accounted)'
  BY <1>0, FramesSame DEF SourceSends, dVars, smVars, OngoingGone, Left
<1> QED
  BY <1>0, <1>2, <1>3, <1>4, <1>5, <1>6 DEF IInv

\* start() sends its command.
LEMMA StartKeeps ==
  ASSUME IInv, Start
  PROVE  IInv'
<1>0. SameFrames /\ QShape' /\ UNCHANGED <<Waiting, Ongoing, ToEncode, Encoding, Raws>>
  BY QSame DEF IInv, Start, queueVars, frameVars, dVars, SameFrames
<1>1. dBox \in Seq(Commands) /\ dBox' = Append(dBox, "start") /\ "start" \in Commands
  BY DEF IInv, DShape, Start, Commands
<1>2. /\ dBox' \in Seq(Commands) /\ Len(dBox') = Len(dBox) + 1 /\ dBox'[Len(dBox) + 1] = "start"
      /\ \A i \in 1 .. Len(dBox) : dBox'[i] = dBox[i]
  BY <1>1, AppendIs
<1>3. DShape'
  BY <1>2, WorldsAssumption DEF IInv, DShape, Start, dVars, saveVars
<1>4. FShape'
  BY DEF IInv, FShape, Start, queueVars, dVars, jpegVars, frameVars
<1>5. Control'
  <2>1. sm = "idle" /\ ~running /\ sm' = "start" /\ UNCHANGED <<dVars, sBox, running>>
    BY DEF Start, saveVars
  <2>2. \A i \in 1 .. Len(dBox) : dBox[i] = "next"
    <3>1. \A i \in 1 .. Len(dBox) : dBox[i] \in Commands
      BY <1>1
    <3> QED
      BY <2>1, <3>1 DEF IInv, Control, Commands
  <2>3. \A i \in 1 .. Len(dBox') : dBox'[i] = "next" \/ (i = Len(dBox) + 1 /\ dBox'[i] = "start")
    BY <1>1, <1>2, <2>2
  <2>4. dpc \notin {"save", "flush"} /\ ~isActive
    BY <2>1 DEF IInv, Control
  <2> QED
    BY <2>1, <2>3, <2>4 DEF IInv, Control, dVars
<1>6. Queues'
  <2>1. OffNow' => OffNow
    BY DEF Start, OffNow, IInv, DShape
  <2> QED
    BY <1>0, <2>1 DEF IInv, Queues, Start, queueVars, dVars, Closed, Left, HeldCbs
<1>7. (Placed /\ JpegPlaced /\ Memory /\ Asked /\ Accounted)'
  BY <1>0, FramesSame DEF Start, dVars, OngoingGone, Left
<1> QED
  BY <1>0, <1>3, <1>4, <1>5, <1>6, <1>7 DEF IInv

\* stop() sends its command.
LEMMA StopKeeps ==
  ASSUME IInv, Stop
  PROVE  IInv'
<1>0. SameFrames /\ QShape' /\ UNCHANGED <<Waiting, Ongoing, ToEncode, Encoding, Raws>>
  BY QSame DEF IInv, Stop, queueVars, frameVars, dVars, SameFrames
<1>1. dBox \in Seq(Commands) /\ dBox' = <<"stop">> \o dBox /\ "stop" \in Commands
  BY DEF IInv, DShape, Stop, Commands
<1>2. /\ dBox' \in Seq(Commands) /\ Len(dBox') = Len(dBox) + 1 /\ dBox'[1] = "stop"
      /\ \A i \in 1 .. Len(dBox') : i = 1 \/ (i - 1 \in 1 .. Len(dBox) /\ dBox'[i] = dBox[i - 1])
  BY <1>1, ConsIs
<1>3. DShape'
  BY <1>2 DEF IInv, DShape, Stop, dVars, saveVars
<1>4. FShape'
  BY DEF IInv, FShape, Stop, queueVars, dVars, jpegVars, frameVars
<1>5. Control'
  <2>1. sm = "idle" /\ running /\ sm' = "stop" /\ UNCHANGED <<dVars, sBox, running>>
    BY DEF Stop, saveVars
  <2>2. \A i \in 1 .. Len(dBox) : dBox[i] = "next"
    <3>1. \A i \in 1 .. Len(dBox) : dBox[i] \in Commands
      BY <1>1
    <3> QED
      BY <2>1, <3>1 DEF IInv, Control, Commands
  <2>3. \A i \in 1 .. Len(dBox') : dBox'[i] = "next" \/ (i = 1 /\ dBox'[i] = "stop")
    BY <1>2, <2>2
  <2>4. dpc \notin {"save", "flush"} /\ isActive
    BY <2>1 DEF IInv, Control
  <2> QED
    BY <2>1, <2>3, <2>4 DEF IInv, Control, dVars
<1>6. Queues'
  <2>1. ~OffNow'
    BY DEF Stop, OffNow
  <2> QED
    BY <1>0, <2>1 DEF IInv, Queues, Stop, queueVars, dVars, Closed, Left, HeldCbs
<1>7. (Placed /\ JpegPlaced /\ Memory /\ Asked /\ Accounted)'
  BY <1>0, FramesSame DEF Stop, dVars, OngoingGone, Left
<1> QED
  BY <1>0, <1>3, <1>4, <1>5, <1>6, <1>7 DEF IInv

-----------------------------------------------------------------------------
(* What the parts of the invariant need of a step.                         *)

\* What queue n carries.
DataOf(n) ==
  CASE n \in PPQueues   -> Blocks
    [] n \in JpegQueues -> JpegJob
    [] n = "inputRaw"   -> Frame
    [] OTHER            -> JpegEvt

\* One queue is set; the lists of the others are as they were.
LEMMA QSet ==
  ASSUME QShape, NEW n \in QueueNames, NEW v \in QueueOf(DataOf(n)), q' = [q EXCEPT ![n] = v]
  PROVE  /\ QShape' /\ q'[n] = v /\ \A l \in QueueNames : l # n => q'[l] = q[l]
         /\ Waiting' = (IF n = "inputPP" THEN v.nodes ELSE Waiting)
         /\ Ongoing' = (IF n = "ongoingPP" THEN v.nodes ELSE Ongoing)
         /\ ToEncode' = (IF n = "inputJpeg" THEN v.nodes ELSE ToEncode)
         /\ Encoding' = (IF n = "ongoingJpeg" THEN v.nodes ELSE Encoding)
         /\ Raws' = (IF n = "inputRaw" THEN v.nodes ELSE Raws)
<1>1. q = [l \in QueueNames |-> q[l]] /\ \A l \in QueueNames : q[l] \in QueueOf(DataOf(l))
  BY DEF QShape, DataOf, QueueNames, PPQueues, JpegQueues
<1>2. /\ q'[n] = v /\ \A l \in QueueNames : l # n => q'[l] = q[l]
      /\ q' = [l \in QueueNames |-> q'[l]]
  BY <1>1, ExceptIs
<1>3. \A l \in QueueNames : q'[l] \in QueueOf(DataOf(l))
  BY <1>1, <1>2
<1>4. QShape'
  BY <1>2, <1>3 DEF QShape, DataOf, QueueNames, PPQueues, JpegQueues
<1> QED
  BY <1>2, <1>4, Names DEF Waiting, Ongoing, ToEncode, Encoding, Raws

\* An element is put at the end of a queue.
LEMMA EnqueueIs ==
  ASSUME NEW D, NEW x \in QueueOf(D), NEW d \in D, x.active
  PROVE  /\ Enqueue(x, d) \in QueueOf(D) /\ Enqueue(x, d).active
         /\ Enqueue(x, d).nodes = Append(x.nodes, d)
BY DEF Enqueue, QueueOf

\* The first element of a queue is taken.
LEMMA DequeueIs ==
  ASSUME NEW D, NEW x \in QueueOf(D), CanDequeue(x)
  PROVE  /\ x.active /\ x.nodes # << >> /\ x.nodes \in Seq(D) /\ First(x) = Head(x.nodes)
         /\ DequeueHead(x) \in QueueOf(D) /\ DequeueHead(x).active
         /\ DequeueHead(x).nodes = Tail(x.nodes)
<1>1. x.active /\ x.nodes # << >> /\ x.nodes \in Seq(D)
  BY DEF CanDequeue, QueueOf
<1>2. Tail(x.nodes) \in Seq(D)
  BY <1>1, TailIs
<1> QED
  BY <1>1, <1>2 DEF QueueOf, DequeueHead, First

\* No queue is opened or closed, and a closed one stays empty.
Steady ==
  \A n \in QueueNames : q'[n].active = q[n].active /\ (~q[n].active => q'[n].nodes = << >>)

\* The same among the queues: an element is put on queue n.
LEMMA QEnqueue ==
  ASSUME IInv, NEW n \in QueueNames, NEW d \in DataOf(n), q[n].active,
         q' = [q EXCEPT ![n] = Enqueue(@, d)]
  PROVE  /\ QShape' /\ Steady /\ \A l \in QueueNames : l # n => q'[l] = q[l]
         /\ q[n].nodes \in Seq(DataOf(n))
         /\ Waiting' = (IF n = "inputPP" THEN Append(Waiting, d) ELSE Waiting)
         /\ Ongoing' = (IF n = "ongoingPP" THEN Append(Ongoing, d) ELSE Ongoing)
         /\ ToEncode' = (IF n = "inputJpeg" THEN Append(ToEncode, d) ELSE ToEncode)
         /\ Encoding' = (IF n = "ongoingJpeg" THEN Append(Encoding, d) ELSE Encoding)
         /\ Raws' = (IF n = "inputRaw" THEN Append(Raws, d) ELSE Raws)
<1> DEFINE v == Enqueue(q[n], d)
<1>1. QShape /\ q[n] \in QueueOf(DataOf(n))
  BY DEF IInv, QShape, DataOf, QueueNames, PPQueues, JpegQueues
<1>2. v \in QueueOf(DataOf(n)) /\ v.active /\ v.nodes = Append(q[n].nodes, d) /\ q[n].nodes \in Seq(DataOf(n))
  <2> DEFINE D == DataOf(n)
  <2>1. q[n] \in QueueOf(D) /\ d \in D
    BY <1>1
  <2> HIDE DEF D
  <2>2. v \in QueueOf(D) /\ v.active /\ v.nodes = Append(q[n].nodes, d)
    BY <2>1, EnqueueIs
  <2>3. q[n].nodes \in Seq(D)
    BY <2>1 DEF QueueOf
  <2> QED
    BY <2>2, <2>3 DEF D
<1>3. q' = [q EXCEPT ![n] = v]
  OBVIOUS
<1> HIDE DEF v
<1>4. /\ QShape' /\ q'[n] = v /\ \A l \in QueueNames : l # n => q'[l] = q[l]
      /\ Waiting' = (IF n = "inputPP" THEN v.nodes ELSE Waiting)
      /\ Ongoing' = (IF n = "ongoingPP" THEN v.nodes ELSE Ongoing)
      /\ ToEncode' = (IF n = "inputJpeg" THEN v.nodes ELSE ToEncode)
      /\ Encoding' = (IF n = "ongoingJpeg" THEN v.nodes ELSE Encoding)
      /\ Raws' = (IF n = "inputRaw" THEN v.nodes ELSE Raws)
  BY <1>1, <1>2, <1>3, QSet
<1>5. Steady
  <2>1. v.active = q[n].active
    BY <1>1, <1>2 DEF QueueOf
  <2> QED
    BY <1>2, <1>4, <2>1 DEF Steady, IInv, Queues
<1> QED
  BY <1>2, <1>4, <1>5 DEF Waiting, Ongoing, ToEncode, Encoding, Raws

\* The first element of queue n is taken.
LEMMA QDequeue ==
  ASSUME IInv, NEW n \in QueueNames, CanDequeue(q[n]), q' = [q EXCEPT ![n] = DequeueHead(@)]
  PROVE  /\ QShape' /\ Steady /\ \A l \in QueueNames : l # n => q'[l] = q[l]
         /\ q[n].nodes \in Seq(DataOf(n)) /\ q[n].nodes # << >> /\ q[n].active
         /\ First(q[n]) = Head(q[n].nodes) /\ First(q[n]) \in DataOf(n)
         /\ Waiting' = (IF n = "inputPP" THEN Tail(Waiting) ELSE Waiting)
         /\ Ongoing' = (IF n = "ongoingPP" THEN Tail(Ongoing) ELSE Ongoing)
         /\ ToEncode' = (IF n = "inputJpeg" THEN Tail(ToEncode) ELSE ToEncode)
         /\ Encoding' = (IF n = "ongoingJpeg" THEN Tail(Encoding) ELSE Encoding)
         /\ Raws' = (IF n = "inputRaw" THEN Tail(Raws) ELSE Raws)
<1> DEFINE v == DequeueHead(q[n])
<1>1. QShape /\ q[n] \in QueueOf(DataOf(n))
  BY DEF IInv, QShape, DataOf, QueueNames, PPQueues, JpegQueues
<1>2. /\ v \in QueueOf(DataOf(n)) /\ v.active /\ v.nodes = Tail(q[n].nodes) /\ q[n].active
      /\ q[n].nodes \in Seq(DataOf(n)) /\ q[n].nodes # << >> /\ First(q[n]) = Head(q[n].nodes)
  BY <1>1, QueueHas
<1>3. q' = [q EXCEPT ![n] = v]
  OBVIOUS
<1> HIDE DEF v
<1>4. /\ QShape' /\ q'[n] = v /\ \A l \in QueueNames : l # n => q'[l] = q[l]
      /\ Waiting' = (IF n = "inputPP" THEN v.nodes ELSE Waiting)
      /\ Ongoing' = (IF n = "ongoingPP" THEN v.nodes ELSE Ongoing)
      /\ ToEncode' = (IF n = "inputJpeg" THEN v.nodes ELSE ToEncode)
      /\ Encoding' = (IF n = "ongoingJpeg" THEN v.nodes ELSE Encoding)
      /\ Raws' = (IF n = "inputRaw" THEN v.nodes ELSE Raws)
  BY <1>1, <1>2, <1>3, QSet
<1>5. Steady
  <2>1. v.active = q[n].active
    BY <1>1, <1>2 DEF QueueOf
  <2> QED
    BY <1>2, <1>4, <2>1 DEF Steady, IInv, Queues
<1>6. First(q[n]) \in DataOf(n)
  BY <1>2, TailIs
<1> QED
  BY <1>2, <1>4, <1>5, <1>6 DEF Waiting, Ongoing, ToEncode, Encoding, Raws

\* What each queue is a queue of.
LEMMA DataIs ==
  /\ DataOf("inputPP") = Blocks /\ DataOf("ongoingPP") = Blocks
  /\ DataOf("inputJpeg") = JpegJob /\ DataOf("ongoingJpeg") = JpegJob
  /\ DataOf("inputRaw") = Frame /\ DataOf("inputSave") = JpegEvt
BY DEF DataOf, PPQueues, JpegQueues

\* Queues keep what Queues says as long as none is opened or closed.
LEMMA QueuesKept ==
  ASSUME IInv, UNCHANGED <<isActive, running, sm, sessions, flushing>>,
         dpc' = "flush" <=> dpc = "flush",
         Steady,
         isActive \/ (Encoding = << >> => Encoding' = << >>),
         running \/ (hw' = << >> /\ HeldCbs' = {} /\ Ongoing' = << >>)
  PROVE  Queues'
<1>1. OffNow' <=> OffNow
  BY DEF OffNow
<1>2. Left' = Left
  BY DEF Left
<1>3. isActive => ~OffNow /\ dpc # "flush" /\ running
  BY DEF IInv, Control, OffNow
<1>4. \A n \in Opened \cup {"ongoingJpeg"} : n \in QueueNames
  BY DEF Opened, QueueNames, PPQueues, JpegQueues
<1>5. ASSUME NEW n \in Opened \cup {"ongoingJpeg"}, Closed(n), ~isActive
      PROVE  Closed(n)'
  <2>1. q'[n].active = q[n].active
    BY <1>4 DEF Steady
  <2> QED
    BY <1>5, <2>1 DEF Closed
<1>6. "ongoingJpeg" \in QueueNames /\ (~running => Encoding = << >>)
  BY Names DEF IInv, Queues
<1> QED
  BY <1>1, <1>2, <1>3, <1>4, <1>5, <1>6 DEF IInv, Queues, Steady

\* The commands of b2 but DO_NEXT_JOB were in b, too.
Fewer(b2, b) ==
  \E d \in 0 .. 1 : \A i \in 1 .. Len(b2) :
    b2[i] # "next" => i + d \in 1 .. Len(b) /\ b2[i] = b[i + d]

\* A box with one more DO_NEXT_JOB, or without its first command.
LEMMA FewerIs ==
  ASSUME NEW b \in Seq(Commands)
  PROVE  /\ Fewer(b, b)
         /\ Append(b, "next") \in Seq(Commands) /\ Fewer(Append(b, "next"), b)
         /\ b # << >> => Tail(b) \in Seq(Commands) /\ Fewer(Tail(b), b)
<1>1. \A i \in 1 .. Len(b) : i + 0 \in 1 .. Len(b) /\ b[i] = b[i + 0]
  OBVIOUS
<1>2. /\ Append(b, "next") \in Seq(Commands)
      /\ \A i \in 1 .. Len(Append(b, "next")) : Append(b, "next")[i] # "next" =>
           i + 0 \in 1 .. Len(b) /\ Append(b, "next")[i] = b[i + 0]
  <2>1. /\ Append(b, "next") \in Seq(Commands)
        /\ \A i \in 1 .. Len(Append(b, "next")) :
             Append(b, "next")[i] # "next" => i \in 1 .. Len(b) /\ Append(b, "next")[i] = b[i]
    BY NextCommand
  <2>2. \A i \in 1 .. Len(b) : i + 0 = i
    OBVIOUS
  <2> QED
    BY <2>1, <2>2
<1>3. ASSUME b # << >>
      PROVE  /\ Tail(b) \in Seq(Commands)
             /\ \A i \in 1 .. Len(Tail(b)) : i + 1 \in 1 .. Len(b) /\ Tail(b)[i] = b[i + 1]
  <2>1. /\ Tail(b) \in Seq(Commands) /\ Len(b) \in Nat \ {0} /\ Len(Tail(b)) = Len(b) - 1
        /\ \A i \in 1 .. Len(b) - 1 : Tail(b)[i] = b[i + 1]
    BY <1>3, TailIs
  <2>2. \A i \in 1 .. Len(b) - 1 : i + 1 \in 1 .. Len(b)
    BY <2>1
  <2> QED
    BY <2>1, <2>2
<1>4. 0 \in 0 .. 1 /\ 1 \in 0 .. 1
  OBVIOUS
<1>5. Fewer(b, b)
  BY <1>1, <1>4 DEF Fewer
<1>6. Fewer(Append(b, "next"), b)
  BY <1>2, <1>4 DEF Fewer
<1>7. b # << >> => Fewer(Tail(b), b)
  BY <1>3, <1>4 DEF Fewer
<1> QED
  BY <1>2, <1>3, <1>5, <1>6, <1>7

\* The threads' state stays and no START or STOP is sent.
LEMMA ControlKept ==
  ASSUME IInv, UNCHANGED <<isActive, running, sm, sessions, flushing>>,
         Fewer(dBox', dBox), Fewer(sBox', sBox), dBox' \in Seq(Commands), sBox' \in Seq(Commands),
         dpc' = "flush" <=> dpc = "flush", dpc' = "save" <=> dpc = "save",
         dpc' \in Working => isActive
  PROVE  Control'
<1>1. PICK d \in 0 .. 1 : \A i \in 1 .. Len(dBox') :
        dBox'[i] # "next" => i + d \in 1 .. Len(dBox) /\ dBox'[i] = dBox[i + d]
  BY DEF Fewer
<1>2. PICK e \in 0 .. 1 : \A i \in 1 .. Len(sBox') :
        sBox'[i] # "next" => i + e \in 1 .. Len(sBox) /\ sBox'[i] = sBox[i + e]
  BY DEF Fewer
<1>3. Len(dBox') \in Nat /\ Len(sBox') \in Nat
  OBVIOUS
<1>4. /\ \A i \in 1 .. Len(dBox') : dBox'[i] = "start" => sm' = "start"
      /\ \A i \in 1 .. Len(dBox') : dBox'[i] = "stop" => sm' = "stop" /\ dpc' \notin {"save", "flush"}
      /\ \A i \in 1 .. Len(sBox') : sBox'[i] = "stop" => dpc' = "save"
  BY <1>1, <1>2 DEF IInv, Control
<1>5. ASSUME NEW i \in 1 .. Len(dBox'), NEW j \in 1 .. Len(dBox'), dBox'[i] = dBox'[j], dBox'[i] # "next"
      PROVE  i = j
  <2>1. i + d = j + d
    BY <1>1, <1>5 DEF IInv, Control
  <2> QED
    BY <1>3, <2>1
<1>6. ASSUME NEW i \in 1 .. Len(sBox'), NEW j \in 1 .. Len(sBox'), sBox'[i] = "stop", sBox'[j] = "stop"
      PROVE  i = j
  <2>1. i + e = j + e
    BY <1>2, <1>6 DEF IInv, Control
  <2> QED
    BY <1>3, <2>1
<1> QED
  BY <1>4, <1>5, <1>6 DEF IInv, Control
-----------------------------------------------------------------------------
(* Frames from the source channel, and steps of the other threads that     *)
(* move no frame.                                                          *)

\* What leaves the postprocessor is counted.
LEMMA DoneIs ==
  ASSUME NEW S
  PROVE  DoneWith(S) = Plus(done, S) /\ (done \in [Frame -> Nat] => Plus(done, S) \in [Frame -> Nat])
BY DEF DoneWith, Plus

\* Source frames and the outputs of later passes.
LEMMA FramesAre ==
  /\ \A s \in Shots : Source(s) \in Frame /\ Source(s).pass = 0 /\ Source(s) # NoFrame
  /\ NoFrame \notin Frame
  /\ \A f \in Frame : f.shot \in Shots /\ f.pass \in 0 .. MaxPass /\ f # NoFrame
  /\ \A f \in Frame : Later(f).pass # 0 /\ Later(f).shot = f.shot
  /\ \A f, g \in Frame : Later(f) = Later(g) => f = g
  /\ \A f \in Frame : f.pass < MaxPass => Later(f) \in Outputs
BY WorldsAssumption DEF Frame, Source, NoFrame, Shots, Later, Outputs, MaxPass

\* A frame of the source channel arrives.
LEMMA ArrivalAsked ==
  ASSUME IInv, NEW f \in Frame, f.pass = 0, f \notin seen, seen' = seen \cup {f},
         UNCHANGED <<Ongoing, cb, hw, hand, orphans, sm, dpc, flushing>>,
         \A g \in Frame : Unasked(g)' => Unasked(g) \/ g = f
  PROVE  Asked'
<1>1. Outs' = Outs /\ Outs \subseteq Outputs
  <2>1. hw \in Seq([chan : Channels, out : Outputs])
    BY DEF IInv, FShape
  <2>2. \A i \in 1 .. Len(hw) : hw[i] \in [chan : Channels, out : Outputs]
    BY <2>1, ElementIs
  <2> QED
    BY <2>2 DEF Outs
<1>2. f \notin Outs
  BY <1>1 DEF Outputs
<1>3. OngoingGone' <=> OngoingGone
  BY DEF OngoingGone, Left
<1>4. \A g \in Frame : Later(g) \in seen' \cup Outs' => g \in seen /\ Later(g) \in seen \cup Outs
  BY <1>1, FramesAre DEF IInv, Asked
<1>5. \A g \in Frame : Later(g) \in seen' \cup Outs' => g \in seen' /\ ~Unasked(g)'
  BY <1>4 DEF IInv, Asked
<1> QED
  BY <1>1, <1>2, <1>3, <1>5 DEF IInv, Asked

\* The pp job processData() makes.
LEMMA NewPPJob ==
  ASSUME NEW f \in Frame, NEW job, job = [NoJob EXCEPT !.src = f, !.reproc = f]
  PROVE  job = [src |-> f, reproc |-> f, count |-> 0, chan |-> 0]
BY DEF NoJob

\* A frame is handed over: queued, or given back when the queue refuses.
LEMMA ProcessDataKeeps ==
  ASSUME IInv, NEW s \in Shots, ProcessData(s)
  PROVE  IInv'
<1> DEFINE f == Source(s)
<1>0. f \in Frame /\ f.pass = 0 /\ f # NoFrame
  BY FramesAre
<1> HIDE DEF f
<1>1. /\ f \notin seen /\ seen' = seen \cup {f}
      /\ UNCHANGED <<world, isActive, dpc, hand, flushing, dBox, sBox, saveActive, sm, running,
                     sessions, cb, hw, encoder, nextId, evts, orphans, answers>>
  BY DEF ProcessData, f, dVars, saveVars, smVars, jpegVars
<1>2. DShape'
  BY <1>1 DEF IInv, DShape, ProcessData
<1>3. Control'
  <2>1. dBox \in Seq(Commands) /\ sBox \in Seq(Commands)
    BY DEF IInv, DShape
  <2>2. Fewer(dBox', dBox) /\ Fewer(sBox', sBox) /\ dBox' \in Seq(Commands) /\ sBox' \in Seq(Commands)
    BY <1>1, <2>1, FewerIs
  <2>3. dpc' \in Working => isActive
    BY <1>1 DEF IInv, Control
  <2> QED
    BY <1>1, <2>2, <2>3, ControlKept
<1>4. (seen \cup {f}) \ orphans' = (seen \ orphans) \cup {f} /\ f \notin seen \ orphans
  BY <1>1 DEF IInv, FShape
<1>5. HeldCbs' = HeldCbs /\ HeldJobs' = HeldJobs
  BY <1>1 DEF HeldCbs, HeldJobs
<1>6. /\ QShape /\ FShape /\ done \in [Frame -> Nat]
      /\ running \/ (hw' = << >> /\ HeldCbs' = {} /\ Ongoing = << >>)
      /\ \A n \in QueueNames : ~q[n].active => q[n].nodes = << >>
      /\ world \in World
  BY <1>1, <1>5, WorldsAssumption DEF IInv, FShape, Queues
<1>7. Fit(alloc, Rng(ToEncode) \cup Rng(Encoding), Rng(Raws), HeldCbs, mem, cb, seen \ orphans, done)
  BY DEF IInv, Accounted
<1>8. CASE UNCHANGED <<q, mem, alloc>> /\ done' = DoneWith({f})
  <2>1. QShape' /\ UNCHANGED <<Waiting, Ongoing, ToEncode, Encoding, Raws>>
    BY <1>6, <1>8, QSame
  <2>2. FShape'
    BY <1>0, <1>1, <1>6, <1>8, DoneIs DEF FShape
  <2>3. Queues'
    <3>1. Steady
      BY <1>6, <1>8 DEF Steady
    <3> QED
      BY <1>1, <1>6, <2>1, <3>1, QueuesKept
  <2>4. Placed' /\ Memory' /\ JpegPlaced'
    BY <1>1, <1>8, <2>1, PPSame, JpegSame
  <2>5. Asked'
    <3>1. \A g \in Frame : Unasked(g)' => Unasked(g)
      BY <1>1, <1>5, <1>8, <2>1 DEF Unasked
    <3> QED
      BY <1>0, <1>1, <2>1, <3>1, ArrivalAsked
  <2>6. Accounted'
    <3>1. {f} \cap (seen \ orphans) = {}
      BY <1>1
    <3>2. Fit(alloc, Rng(ToEncode) \cup Rng(Encoding), Rng(Raws), HeldCbs, mem, cb,
              (seen \ orphans) \cup {f}, Plus(done, {f}))
      BY <1>7, <3>1, FitReturns
    <3> QED
      BY <1>1, <1>4, <1>5, <1>8, <2>1, <3>2, DoneIs DEF Accounted
  <2> QED
    BY <1>2, <1>3, <2>1, <2>2, <2>3, <2>4, <2>5, <2>6 DEF IInv
<1>9. ASSUME world.passes > 0, q["inputPP"].active, NEW a \in Blocks \ alloc,
             q' = [q EXCEPT !["inputPP"] = Enqueue(@, a)], done' = done,
             mem' = [mem EXCEPT ![a] = [NoJob EXCEPT !.src = f, !.reproc = f]],
             alloc' = alloc \cup {a}
      PROVE  IInv'
  <2> DEFINE job == [NoJob EXCEPT !.src = f, !.reproc = f]
  <2>3. /\ QShape' /\ Steady /\ Waiting' = Append(Waiting, a) /\ Waiting \in Seq(Blocks)
        /\ UNCHANGED <<Ongoing, ToEncode, Encoding, Raws>>
    BY <1>6, <1>9, QEnqueue, DataIs, QRead, Names
  <2>4. /\ Rng(Waiting') = Rng(Waiting) \cup {a}
        /\ Inj(Waiting) /\ a \notin Rng(Waiting) => Inj(Waiting')
    BY <2>3, AppendIs
  <2>5. a \notin Rng(Waiting) /\ a \notin Rng(Ongoing) /\ a \notin HeldJobs
    BY <1>9 DEF IInv, Placed
  <2>6. /\ job \in PPJob /\ job.src = f /\ job.reproc = f /\ job.count = 0 /\ Two(job) = {f}
    <3>1. job = [src |-> f, reproc |-> f, count |-> 0, chan |-> 0]
      BY <1>0, NewPPJob
    <3>2. 0 \in 0 .. 3 /\ 0 \in Channels
      BY DEF Channels
    <3> HIDE DEF job
    <3> QED
      BY <1>0, <3>1, <3>2 DEF PPJob, Two
  <2> HIDE DEF job
  <2>7. mem'[a] = job /\ mem' \in [Blocks -> PPJob] /\ \A b \in alloc : b # a /\ mem'[b] = mem[b]
    BY <1>6, <1>9, <2>6 DEF job, FShape
  <2>8. FShape'
    BY <1>0, <1>1, <1>6, <1>9, <2>7 DEF FShape
  <2>9. Queues'
    BY <1>1, <1>6, <2>3, QueuesKept
  <2>10. Placed'
    <3>1. \A c \in HeldCbs : cb[c].job \in HeldJobs
      BY DEF HeldJobs
    <3> QED
      BY <1>1, <1>5, <1>9, <2>3, <2>4, <2>5, <3>1 DEF IInv, Placed
  <2>11. JpegPlaced'
    BY <1>1, <2>3, JpegSame
  <2>12. Memory'
    <3>1. ASSUME NEW b \in alloc
          PROVE  mem'[b] = mem[b] /\ (b \in Rng(Waiting') <=> b \in Rng(Waiting))
      BY <2>4, <2>7
    <3>2. a \in Rng(Waiting')
      BY <2>4
    <3>3. /\ mem'[a].src = f /\ mem'[a].reproc = f /\ mem'[a].count = 0
          /\ 0 < world'.passes
      BY <1>1, <1>6, <1>9, <2>6, <2>7 DEF World
    <3>4. Memory
      BY DEF IInv
    <3> QED
      BY <1>0, <1>1, <1>9, <3>1, <3>2, <3>3, <3>4 DEF Memory
  <2>13. Asked'
    <3>1. \A b \in Rng(Waiting) : b \in alloc
      BY DEF IInv, Placed
    <3>2. dpc = "ask" => hand \in alloc
      <4>1. ASSUME dpc = "ask" PROVE hand \in alloc
        <5>1. hand = Ongoing[Len(Ongoing)] /\ Len(Ongoing) # 0
          BY <4>1, <1>6 DEF IInv, Asked, OngoingGone, Control, FShape, Working
        <5>2. Ongoing \in Seq(Blocks) /\ Ongoing # << >>
          BY <1>6, <5>1, QRead
        <5>3. hand \in Rng(Ongoing)
          BY <5>1, <5>2, FrontIs
        <5> QED
          BY <5>3 DEF IInv, Placed
      <4> QED
        BY <4>1
    <3>3. \A g \in Frame : Unasked(g)' => Unasked(g) \/ g = f
      BY <1>1, <1>5, <2>4, <2>6, <2>7, <3>1, <3>2 DEF Unasked
    <3> QED
      BY <1>0, <1>1, <2>3, <3>3, ArrivalAsked
  <2>14. Accounted'
    <3>1. \A b \in alloc : Two(mem'[b]) = Two(mem[b])
      BY <2>7
    <3>2. Fit(alloc \cup {a}, Rng(ToEncode) \cup Rng(Encoding), Rng(Raws), HeldCbs, mem', cb,
              (seen \ orphans) \cup {f}, done)
      <4>1. a \notin alloc /\ Two(mem'[a]) = {f}
        BY <1>9, <2>6, <2>7
      <4> HIDE DEF job
      <4> QED
        BY <1>4, <1>6, <1>7, <3>1, <4>1, FitArrives
    <3> QED
      BY <1>1, <1>4, <1>5, <1>9, <2>3, <3>2 DEF Accounted
  <2> QED
    BY <1>2, <1>3, <2>3, <2>8, <2>9, <2>10, <2>11, <2>12, <2>13, <2>14 DEF IInv
<1>10. ASSUME q["inputRaw"].active, q' = [q EXCEPT !["inputRaw"] = Enqueue(@, f)],
              done' = done, UNCHANGED <<mem, alloc>>
       PROVE  IInv'
  <2>3. /\ QShape' /\ Steady /\ Raws' = Append(Raws, f) /\ Raws \in Seq(Frame)
        /\ UNCHANGED <<Waiting, Ongoing, ToEncode, Encoding>>
    BY <1>0, <1>6, <1>10, QEnqueue, DataIs, QRead, Names
  <2>4. Rng(Raws') = Rng(Raws) \cup {f} /\ (Inj(Raws) /\ f \notin Rng(Raws) => Inj(Raws'))
    BY <1>0, <2>3, AppendIs
  <2>5. f \notin Rng(Raws)
    BY <1>4, <1>7, FitSays
  <2>6. FShape'
    BY <1>0, <1>1, <1>6, <1>10 DEF FShape
  <2>7. Queues'
    BY <1>1, <1>6, <2>3, QueuesKept
  <2>8. Placed' /\ Memory'
    BY <1>1, <1>10, <2>3, PPSame
  <2>9. JpegPlaced'
    BY <1>1, <2>3, <2>4, <2>5 DEF IInv, JpegPlaced
  <2>10. Asked'
    <3>1. \A g \in Frame : Unasked(g)' => Unasked(g)
      BY <1>1, <1>5, <1>10, <2>3 DEF Unasked
    <3> QED
      BY <1>0, <1>1, <2>3, <3>1, ArrivalAsked
  <2>11. Accounted'
    <3>1. Fit(alloc, Rng(ToEncode) \cup Rng(Encoding), Rng(Raws) \cup {f}, HeldCbs, mem, cb,
              (seen \ orphans) \cup {f}, done)
      BY <1>4, <1>6, <1>7, FitArrives
    <3> QED
      BY <1>1, <1>4, <1>5, <1>10, <2>3, <2>4, <3>1 DEF Accounted
  <2> QED
    BY <1>2, <1>3, <2>3, <2>6, <2>7, <2>8, <2>9, <2>10, <2>11 DEF IInv
<1>11. ASSUME q["inputJpeg"].active,
              q' = [q EXCEPT !["inputJpeg"] = Enqueue(@, NewJpegJob(f, NoFrame))],
              done' = done, UNCHANGED <<mem, alloc>>
       PROVE  IInv'
  <2> DEFINE j == NewJpegJob(f, NoFrame)
  <2>0. j \in JpegJob /\ JpegFrames(j) = {f} /\ j.id = 0
    BY <1>0 DEF NewJpegJob, JpegJob, JpegFrames
  <2> HIDE DEF j
  <2>1. q' = [q EXCEPT !["inputJpeg"] = Enqueue(@, j)]
    BY <1>11 DEF j
  <2>3. /\ QShape' /\ Steady /\ ToEncode' = Append(ToEncode, j) /\ ToEncode \in Seq(JpegJob)
        /\ UNCHANGED <<Waiting, Ongoing, Encoding, Raws>>
    BY <1>6, <1>11, <2>0, <2>1, QEnqueue, DataIs, QRead, Names
  <2>4. Rng(ToEncode') = Rng(ToEncode) \cup {j} /\ (Inj(ToEncode) /\ j \notin Rng(ToEncode) => Inj(ToEncode'))
    BY <2>0, <2>3, AppendIs
  <2>5. j \notin Rng(ToEncode) \cup Rng(Encoding)
    <3>1. \A i \in Rng(ToEncode) \cup Rng(Encoding) : JpegFrames(i) \subseteq seen \ orphans
      BY <1>7, FitSays
    <3> QED
      BY <1>4, <2>0, <3>1
  <2>6. FShape'
    BY <1>0, <1>1, <1>6, <1>11 DEF FShape
  <2>7. Queues'
    BY <1>1, <1>6, <2>3, QueuesKept
  <2>8. Placed' /\ Memory'
    BY <1>1, <1>11, <2>3, PPSame
  <2>9. JpegPlaced'
    BY <1>1, <2>0, <2>3, <2>4, <2>5 DEF IInv, JpegPlaced
  <2>10. Asked'
    <3>1. \A g \in Frame : Unasked(g)' => Unasked(g)
      BY <1>1, <1>5, <1>11, <2>3 DEF Unasked
    <3> QED
      BY <1>0, <1>1, <2>3, <3>1, ArrivalAsked
  <2>11. Accounted'
    <3>1. Fit(alloc, (Rng(ToEncode) \cup Rng(Encoding)) \cup {j}, Rng(Raws), HeldCbs, mem, cb,
              (seen \ orphans) \cup {f}, done)
      BY <1>4, <1>6, <1>7, <2>0, FitArrives
    <3>2. Rng(ToEncode') \cup Rng(Encoding') = (Rng(ToEncode) \cup Rng(Encoding)) \cup {j}
      BY <2>3, <2>4
    <3> QED
      BY <1>1, <1>4, <1>5, <1>11, <2>3, <3>1, <3>2 DEF Accounted
  <2> QED
    BY <1>2, <1>3, <2>3, <2>6, <2>7, <2>8, <2>9, <2>10, <2>11 DEF IInv
<1>12. CASE world.passes > 0
  <2>1. PICK a \in Blocks \ alloc :
          /\ IF q["inputPP"].active
             THEN /\ q' = [q EXCEPT !["inputPP"] = Enqueue(@, a)]
                  /\ src' = "send"
                  /\ done' = done
             ELSE done' = DoneWith({f}) /\ UNCHANGED <<q, src>>
          /\ mem' = IF q["inputPP"].active
                    THEN [mem EXCEPT ![a] = [NoJob EXCEPT !.src = f, !.reproc = f]]
                    ELSE mem
          /\ alloc' = IF q["inputPP"].active THEN alloc \cup {a} ELSE alloc
    <3>1. world.passes # 0
      BY <1>12, <1>6 DEF World
    <3> QED
      BY <3>1 DEF ProcessData, f
  <2> QED
    BY <1>8, <1>9, <1>12, <2>1
<1>13. CASE ~(world.passes > 0)
  <2>1. UNCHANGED <<mem, alloc>>
    BY <1>13 DEF ProcessData
  <2>2. CASE world.raw
    BY <1>8, <1>10, <1>13, <2>1, <2>2 DEF ProcessData, f
  <2>3. CASE ~world.raw
    BY <1>8, <1>11, <1>13, <2>1, <2>3 DEF ProcessData, f
  <2> QED
    BY <2>2, <2>3
<1> QED
  BY <1>12, <1>13
\* The commands of a box after one was taken.
LEMMA TakenIs ==
  ASSUME NEW b \in Seq(Commands), b # << >>
  PROVE  /\ Tail(b) \in Seq(Commands) /\ 1 \in 1 .. Len(b) /\ Head(b) = b[1]
         /\ \A i \in 1 .. Len(Tail(b)) : i + 1 \in 1 .. Len(b) /\ i + 1 # 1 /\ Tail(b)[i] = b[i + 1]
<1>1. /\ Tail(b) \in Seq(Commands) /\ Len(b) \in Nat \ {0} /\ Len(Tail(b)) = Len(b) - 1 /\ Head(b) = b[1]
      /\ \A i \in 1 .. Len(b) - 1 : Tail(b)[i] = b[i + 1]
  BY TailIs
<1>2. 1 \in 1 .. Len(b) /\ \A i \in 1 .. Len(b) - 1 : i + 1 \in 1 .. Len(b) /\ i + 1 # 1
  BY <1>1
<1> QED
  BY <1>1, <1>2

\* Queues that are left alone stay open, or closed and empty.
LEMMA SteadySame ==
  ASSUME IInv, UNCHANGED q
  PROVE  Steady
BY DEF IInv, Queues, Steady

\* The encoder calls back.
LEMMA JpegCallbackKeeps ==
  ASSUME IInv, JpegCallback
  PROVE  IInv'
<1>1. PICK e \in encoder, ok \in BOOLEAN :
        /\ encoder' = encoder \ {e}
        /\ evts' = Append(evts, [id |-> e.id, shot |-> e.shot, ok |-> ok])
  BY DEF JpegCallback
<1>2. UNCHANGED <<world, q, mem, alloc, isActive, dpc, hand, flushing, dBox, sBox, saveActive, sm,
                  running, sessions, src, cb, hw, nextId, seen, done, orphans, answers>>
  BY DEF JpegCallback, queueVars, dVars, saveVars, smVars, frameVars
<1>3. SameFrames /\ QShape' /\ UNCHANGED <<Waiting, Ongoing, ToEncode, Encoding, Raws>>
  BY <1>2, QSame DEF IInv, SameFrames
<1>4. FShape'
  <2>1. [id |-> e.id, shot |-> e.shot, ok |-> ok] \in JpegEvt /\ evts \in Seq(JpegEvt)
    BY DEF IInv, FShape, JpegEvt
  <2>2. evts' \in Seq(JpegEvt)
    BY <1>1, <2>1, AppendIs
  <2>3. encoder' \subseteq encoder
    BY <1>1
  <2> QED
    BY <1>2, <2>2, <2>3 DEF IInv, FShape
<1>5. DShape'
  BY <1>2 DEF IInv, DShape
<1>6. Control'
  BY <1>2 DEF IInv, Control
<1>7. Queues'
  BY <1>2, <1>3 DEF IInv, Queues, OffNow, Closed, Left, HeldCbs
<1>8. (Placed /\ JpegPlaced /\ Memory /\ Asked /\ Accounted)'
  BY <1>2, <1>3, FramesSame DEF OngoingGone, Left
<1> QED
  BY <1>3, <1>4, <1>5, <1>6, <1>7, <1>8 DEF IInv

\* Nothing happens.
LEMMA StutterKeeps ==
  ASSUME IInv, UNCHANGED vars
  PROVE  IInv'
<1>1. UNCHANGED <<world, q, mem, alloc, isActive, dpc, hand, flushing, dBox, sBox, saveActive, sm,
                  running, sessions, src, cb, hw, encoder, nextId, evts, seen, done, orphans, answers>>
  BY DEF vars, queueVars, dVars, saveVars, smVars, jpegVars, frameVars
<1>2. SameFrames /\ QShape' /\ UNCHANGED <<Waiting, Ongoing, ToEncode, Encoding, Raws>>
  BY <1>1, QSame DEF IInv, SameFrames
<1>3. DShape' /\ FShape'
  BY <1>1 DEF IInv, DShape, FShape
<1>4. Control'
  BY <1>1 DEF IInv, Control
<1>5. Queues'
  BY <1>1, <1>2 DEF IInv, Queues, OffNow, Closed, Left, HeldCbs
<1>6. (Placed /\ JpegPlaced /\ Memory /\ Asked /\ Accounted)'
  BY <1>1, <1>2, FramesSame DEF OngoingGone, Left
<1> QED
  BY <1>2, <1>3, <1>4, <1>5, <1>6 DEF IInv

\* The save thread handles START.
LEMMA SaveStartKeeps ==
  ASSUME IInv, SaveStart
  PROVE  IInv'
<1>1. UNCHANGED <<world, mem, alloc, isActive, dpc, hand, flushing, dBox, sm,
                  running, sessions, src, cb, hw, encoder, nextId, evts, seen, done, orphans, answers>>
  BY DEF SaveStart, SaveUnchanged, smVars, jpegVars
<1>2. /\ sBox # << >> /\ sBox' = Tail(sBox) /\ saveActive' = TRUE /\ sBox \in Seq(Commands)
      /\ q' = [q EXCEPT !["inputSave"] = InitQueue(@)] /\ dBox \in Seq(Commands)
  BY DEF SaveStart, IInv, DShape
<1>3. /\ QShape' /\ UNCHANGED <<Waiting, Ongoing, ToEncode, Encoding, Raws>>
      /\ q'["inputSave"].active /\ \A n \in QueueNames : n # "inputSave" => q'[n] = q[n]
  <2>1. q["inputSave"] \in QueueOf(JpegEvt) /\ QShape
    BY DEF IInv, QShape
  <2>2. InitQueue(q["inputSave"]) \in QueueOf(JpegEvt) /\ InitQueue(q["inputSave"]).active
    BY <2>1 DEF QueueOf, InitQueue
  <2> QED
    BY <1>2, <2>1, <2>2, QSet, DataIs, Names
<1>4. SameFrames
  BY <1>1, <1>3 DEF SameFrames
<1>5. DShape'
  BY <1>1, <1>2, FewerIs DEF IInv, DShape
<1>6. FShape'
  BY <1>1 DEF IInv, FShape
<1>7. Control'
  <2>1. dpc \in Working => isActive
    BY DEF IInv, Control
  <2>2. Fewer(dBox', dBox) /\ Fewer(sBox', sBox) /\ dBox' \in Seq(Commands) /\ sBox' \in Seq(Commands)
    BY <1>1, <1>2, FewerIs
  <2> QED
    BY <1>1, <2>1, <2>2, ControlKept
<1>8. Queues'
  <2>1. "inputSave" \notin Opened \cup {"ongoingJpeg"} /\ Opened \cup {"ongoingJpeg"} \subseteq QueueNames
    BY DEF Opened, QueueNames, PPQueues, JpegQueues
  <2>2. \A n \in Opened \cup {"ongoingJpeg"} : Closed(n)' <=> Closed(n)
    BY <1>3, <2>1 DEF Closed
  <2>3. OffNow' = OffNow /\ Left' = Left /\ HeldCbs' = HeldCbs
    BY <1>1 DEF OffNow, Left, HeldCbs
  <2> QED
    BY <1>1, <1>3, <2>1, <2>2, <2>3 DEF IInv, Queues
<1>9. (Placed /\ JpegPlaced /\ Memory /\ Asked /\ Accounted)'
  BY <1>1, <1>4, FramesSame DEF OngoingGone, Left
<1> QED
  BY <1>3, <1>5, <1>6, <1>7, <1>8, <1>9 DEF IInv

\* The save thread handles STOP.
LEMMA SaveStopKeeps ==
  ASSUME IInv, SaveStop
  PROVE  IInv'
<1> DEFINE five == <<"ongoingJpeg", "ongoingPP", "inputJpeg", "inputPP", "inputRaw">>
<1>1. UNCHANGED <<world, mem, alloc, isActive, hand, dBox, sm,
                  running, sessions, src, cb, hw, encoder, nextId, evts, seen, done, orphans, answers>>
  BY DEF SaveStop, SaveUnchanged, smVars, jpegVars
<1>2. /\ sBox # << >> /\ Head(sBox) = "stop" /\ sBox' = Tail(sBox) /\ saveActive' = FALSE
      /\ q' = [q EXCEPT !["inputSave"] = Flush(@)] /\ dpc' = "flush" /\ flushing' = five
      /\ dBox \in Seq(Commands) /\ sBox \in Seq(Commands)
  BY DEF SaveStop, IInv, DShape
<1>3. /\ QShape' /\ UNCHANGED <<Waiting, Ongoing, ToEncode, Encoding, Raws>>
      /\ (~q'["inputSave"].active => q'["inputSave"].nodes = << >>)
      /\ \A n \in QueueNames : n # "inputSave" => q'[n] = q[n]
  <2>1. q["inputSave"] \in QueueOf(JpegEvt) /\ QShape /\ "inputSave" \in QueueNames
        /\ (~q["inputSave"].active => q["inputSave"].nodes = << >>)
    BY Names DEF IInv, QShape, Queues
  <2>2. Flush(q["inputSave"]) \in QueueOf(JpegEvt) /\ Flush(q["inputSave"]).nodes = << >>
    BY <2>1 DEF QueueOf, Flush
  <2> QED
    BY <1>2, <2>1, <2>2, QSet, DataIs
<1>4. SameFrames
  BY <1>1, <1>3 DEF SameFrames
<1>5. dpc = "save" /\ ~isActive /\ sm = "stop"
  BY <1>2, TakenIs DEF IInv, Control
<1>6. Left' = Opened \cup {"ongoingJpeg"} /\ five \in FlushLeft
  <2>1. Rng(five) = {five[i] : i \in {1, 2, 3, 4, 5}}
    <3>1. 1 .. Len(five) = {1, 2, 3, 4, 5}
      OBVIOUS
    <3> QED
      BY <3>1 DEF Rng
  <2>2. Rng(five) = {"ongoingJpeg", "ongoingPP", "inputJpeg", "inputPP", "inputRaw"}
    BY <2>1
  <2> QED
    BY <1>2, <2>2 DEF Left, Opened, FlushLeft
<1>7. DShape'
  BY <1>1, <1>2, <1>5, <1>6, TakenIs DEF IInv, DShape
<1>8. FShape'
  BY <1>1, <1>2 DEF IInv, FShape
<1>9. Control'
  <2>1. \A i \in 1 .. Len(sBox') : sBox'[i] # "stop"
    BY <1>2, TakenIs DEF IInv, Control
  <2>2. \A i \in 1 .. Len(dBox) : dBox[i] = "next"
    <3>1. \A i \in 1 .. Len(dBox) : dBox[i] \in Commands
      BY <1>2, ElementIs
    <3> QED
      BY <1>5, <3>1 DEF IInv, Control, Commands
  <2> QED
    BY <1>1, <1>2, <1>5, <2>1, <2>2 DEF IInv, Control, Working
<1>10. Queues'
  <2>1. "inputSave" \notin Opened \cup {"ongoingJpeg"} /\ Opened \cup {"ongoingJpeg"} \subseteq QueueNames
    BY DEF Opened, QueueNames, PPQueues, JpegQueues
  <2>2. ~OffNow' /\ HeldCbs' = HeldCbs
    BY <1>1, <1>5 DEF OffNow, HeldCbs, IInv, Control
  <2> QED
    BY <1>1, <1>3, <1>5, <1>6, <2>1, <2>2 DEF IInv, Queues
<1>11. (Placed /\ JpegPlaced /\ Memory /\ Asked /\ Accounted)'
  <2>1. OngoingGone => OngoingGone'
    BY <1>1, <1>5 DEF OngoingGone
  <2> QED
    BY <1>1, <1>2, <1>4, <1>5, <2>1, FramesSame
<1> QED
  BY <1>3, <1>7, <1>8, <1>9, <1>10, <1>11 DEF IInv

\* D handles START.
LEMMA DStartKeeps ==
  ASSUME IInv, DStart
  PROVE  IInv'
<1>1. UNCHANGED <<world, mem, alloc, dpc, hand, flushing, saveActive, sessions, src, cb, hw,
                  encoder, nextId, evts, seen, done, orphans, answers>>
  BY DEF DStart, jpegVars, frameVars
<1>2. /\ dpc = "idle" /\ dBox # << >> /\ Head(dBox) = "start" /\ dBox' = Tail(dBox)
      /\ isActive' = TRUE /\ sBox' = Append(sBox, "start") /\ sm' = "idle" /\ running' = TRUE
      /\ dBox \in Seq(Commands) /\ sBox \in Seq(Commands) /\ "start" \in Commands
  BY DEF DStart, Takes, IInv, DShape, Commands
<1>3. q' = [n \in QueueNames |-> IF n \in Opened THEN InitQueue(q[n]) ELSE q[n]]
  BY DEF DStart, Opened
<1>4. /\ q' = [n \in QueueNames |-> q'[n]]
      /\ \A n \in QueueNames : q'[n] = IF n \in Opened THEN InitQueue(q[n]) ELSE q[n]
  BY <1>3
<1>5. \A n \in QueueNames : q'[n].nodes = q[n].nodes /\ (n \in Opened => q'[n].active)
      /\ q'[n] \in QueueOf(DataOf(n))
  <2>1. \A n \in QueueNames : q[n] \in QueueOf(DataOf(n))
    BY DEF IInv, QShape, DataOf, QueueNames, PPQueues, JpegQueues
  <2>2. \A n \in QueueNames : InitQueue(q[n]) \in QueueOf(DataOf(n)) /\ InitQueue(q[n]).active
                              /\ InitQueue(q[n]).nodes = q[n].nodes
    BY <2>1 DEF QueueOf, InitQueue
  <2> QED
    BY <1>4, <2>1, <2>2
<1>6. QShape' /\ UNCHANGED <<Waiting, Ongoing, ToEncode, Encoding, Raws>>
  <2>1. QShape'
    BY <1>4, <1>5 DEF QShape, DataOf, QueueNames, PPQueues, JpegQueues
  <2> QED
    BY <1>5, <2>1, Names DEF Waiting, Ongoing, ToEncode, Encoding, Raws
<1>7. SameFrames
  BY <1>1, <1>6 DEF SameFrames
<1>8. sm = "start" /\ ~running
  BY <1>2, TakenIs DEF IInv, Control
<1>9. DShape'
  BY <1>1, <1>2, TakenIs, AppendIs DEF IInv, DShape
<1>10. FShape'
  BY <1>1, <1>2 DEF IInv, FShape
<1>11. Control'
  <2>1. \A i \in 1 .. Len(dBox') : dBox'[i] = "next"
    <3>1. \A i \in 1 .. Len(dBox) : dBox[i] \in Commands
      BY <1>2, ElementIs
    <3>2. \A i \in 1 .. Len(dBox) : dBox[i] = "start" => i = 1
      BY <1>2, TakenIs DEF IInv, Control
    <3>3. \A i \in 1 .. Len(dBox) : dBox[i] # "stop"
      BY <1>8 DEF IInv, Control
    <3> QED
      BY <1>2, <3>1, <3>2, <3>3, TakenIs DEF Commands
  <2>2. \A i \in 1 .. Len(sBox') : sBox'[i] # "stop"
    <3>1. \A i \in 1 .. Len(sBox) : sBox[i] # "stop"
      BY <1>2 DEF IInv, Control
    <3>2. /\ Len(sBox') = Len(sBox) + 1 /\ sBox'[Len(sBox) + 1] = "start"
          /\ \A i \in 1 .. Len(sBox) : sBox'[i] = sBox[i]
      BY <1>2, AppendIs
    <3>3. \A i \in 1 .. Len(sBox') : i \in 1 .. Len(sBox) \/ i = Len(sBox) + 1
      BY <1>2, <3>2
    <3> QED
      BY <3>1, <3>2, <3>3
  <2> QED
    BY <1>1, <1>2, <2>1, <2>2 DEF IInv, Control
<1>12. Queues'
  <2>1. ~OffNow'
    BY <1>2 DEF OffNow
  <2>2. "ongoingJpeg" \notin Opened /\ Opened \subseteq QueueNames
    BY DEF Opened, QueueNames, PPQueues, JpegQueues
  <2> QED
    BY <1>1, <1>2, <1>4, <1>5, <1>6, <2>1, <2>2, Names DEF IInv, Queues
<1>13. (Placed /\ JpegPlaced /\ Memory /\ Asked /\ Accounted)'
  <2>1. ~OngoingGone
    BY <1>2, <1>8 DEF OngoingGone
  <2> QED
    BY <1>1, <1>7, <1>8, <2>1, FramesSame
<1> QED
  BY <1>6, <1>9, <1>10, <1>11, <1>12, <1>13 DEF IInv

\* D takes STOP and passes it on to the save thread.
LEMMA DStopKeeps ==
  ASSUME IInv, DStop
  PROVE  IInv'
<1>1. UNCHANGED <<world, q, mem, alloc, hand, flushing, saveActive, sm, running, sessions, src, cb, hw,
                  encoder, nextId, evts, seen, done, orphans, answers>>
  BY DEF DStop, DUnchanged, queueVars
<1>2. /\ dpc = "idle" /\ dBox # << >> /\ Head(dBox) = "stop" /\ dBox' = Tail(dBox)
      /\ isActive' = FALSE /\ sBox' = <<"stop">> \o sBox /\ dpc' = "save"
      /\ dBox \in Seq(Commands) /\ sBox \in Seq(Commands) /\ "stop" \in Commands
  BY DEF DStop, Takes, IInv, DShape, Commands
<1>3. QShape' /\ UNCHANGED <<Waiting, Ongoing, ToEncode, Encoding, Raws>>
  BY <1>1, QSame DEF IInv
<1>4. SameFrames
  BY <1>1, <1>3 DEF SameFrames
<1>5. sm = "stop" /\ running
  BY <1>2, TakenIs DEF IInv, Control
<1>6. sBox' \in Seq(Commands)
  BY <1>2, ConsIs
<1>7. DShape'
  BY <1>1, <1>2, <1>6, TakenIs DEF IInv, DShape
<1>8. FShape'
  BY <1>1, <1>2 DEF IInv, FShape
<1>9. Control'
  <2>1. \A i \in 1 .. Len(dBox') : dBox'[i] = "next"
    <3>1. \A i \in 1 .. Len(dBox) : dBox[i] \in Commands
      BY <1>2, ElementIs
    <3>2. \A i \in 1 .. Len(dBox) : dBox[i] = "stop" => i = 1
      BY <1>2, TakenIs DEF IInv, Control
    <3>3. \A i \in 1 .. Len(dBox) : dBox[i] # "start"
      BY <1>5 DEF IInv, Control
    <3> QED
      BY <1>2, <3>1, <3>2, <3>3, TakenIs DEF Commands
  <2>2. \A i \in 1 .. Len(sBox') : sBox'[i] = "stop" => i = 1
    <3>1. \A i \in 1 .. Len(sBox) : sBox[i] # "stop"
      BY <1>2 DEF IInv, Control
    <3>2. /\ Len(sBox') = Len(sBox) + 1
          /\ \A i \in 1 .. Len(sBox) + 1 : i = 1 \/ (i - 1 \in 1 .. Len(sBox) /\ sBox'[i] = sBox[i - 1])
      BY <1>2, ConsIs
    <3> QED
      BY <3>1, <3>2
  <2> QED
    BY <1>1, <1>2, <1>5, <2>1, <2>2 DEF IInv, Control, Working
<1>10. Queues'
  <2>1. ~OffNow'
    BY <1>1, <1>5 DEF OffNow
  <2> QED
    BY <1>1, <1>2, <1>3, <1>5, <2>1 DEF IInv, Queues
<1>11. (Placed /\ JpegPlaced /\ Memory /\ Asked /\ Accounted)'
  <2>1. ~OngoingGone
    BY <1>2, <1>5 DEF OngoingGone
  <2> QED
    BY <1>1, <1>2, <1>4, <1>5, <2>1, FramesSame
<1> QED
  BY <1>3, <1>7, <1>8, <1>9, <1>10, <1>11 DEF IInv

\* D answers stop().
LEMMA DStoppedKeeps ==
  ASSUME IInv, DStopped
  PROVE  IInv'
<1>1. UNCHANGED <<world, q, mem, alloc, isActive, hand, flushing, dBox, sBox, saveActive, running,
                  sessions, src, cb, hw, encoder, nextId, evts, seen, done, orphans, answers>>
  BY DEF DStopped, DUnchanged, queueVars
<1>2. dpc = "flush" /\ flushing = << >> /\ dpc' = "idle" /\ sm' = "delete"
  BY DEF DStopped
<1>3. QShape' /\ UNCHANGED <<Waiting, Ongoing, ToEncode, Encoding, Raws>>
  BY <1>1, QSame DEF IInv
<1>4. SameFrames
  BY <1>1, <1>3 DEF SameFrames
<1>5. sm = "stop" /\ running /\ ~isActive /\ dBox \in Seq(Commands)
  BY <1>2 DEF IInv, Control, DShape
<1>6. Left = {}
  BY <1>2 DEF Left, Rng
<1>7. DShape'
  BY <1>1, <1>2 DEF IInv, DShape
<1>8. FShape'
  BY <1>1, <1>2 DEF IInv, FShape
<1>9. Control'
  <2>1. \A i \in 1 .. Len(dBox) : dBox[i] = "next"
    <3>1. \A i \in 1 .. Len(dBox) : dBox[i] \in Commands
      BY <1>5, ElementIs
    <3> QED
      BY <1>2, <1>5, <3>1 DEF IInv, Control, Commands
  <2> QED
    BY <1>1, <1>2, <1>5, <2>1 DEF IInv, Control, Working
<1>10. Queues'
  <2>1. \A n \in Opened \cup {"ongoingJpeg"} : Closed(n) /\ (Closed(n)' <=> Closed(n))
    BY <1>1, <1>2, <1>3, <1>6 DEF IInv, Queues, Closed
  <2> QED
    BY <1>1, <1>2, <1>3, <1>5, <2>1 DEF IInv, Queues
<1>11. (Placed /\ JpegPlaced /\ Memory /\ Asked /\ Accounted)'
  <2>1. OngoingGone'
    BY <1>2 DEF OngoingGone
  <2> QED
    BY <1>1, <1>2, <1>4, <2>1, FramesSame
<1> QED
  BY <1>3, <1>7, <1>8, <1>9, <1>10, <1>11 DEF IInv
-----------------------------------------------------------------------------
(* Channels deleted, messages sent.                                        *)

\* Only what holders own tells whether they fit.
LEMMA FitSame ==
  ASSUME NEW A, NEW J, NEW W, NEW C, NEW m, NEW k, NEW live, NEW gv,
         Fit(A, J, W, C, m, k, live, gv),
         NEW m2, \A a \in A : Two(m2[a]) = Two(m[a]),
         NEW k2, \A c \in C : k2[c].frame = k[c].frame
  PROVE  Fit(A, J, W, C, m2, k2, live, gv)
<1> DEFINE H == HoldersOf(A, J, W, C)
<1>1. \A h \in H : Own(h, m2, k2) = Own(h, m, k)
  BY DEF HoldersOf, Own
<1>2. [h \in H |-> Own(h, m2, k2)] = [h \in H |-> Own(h, m, k)]
  BY <1>1
<1> QED
  BY <1>2 DEF Fit

\* The reprocess channels are deleted.
LEMMA DeleteChannelsKeeps ==
  ASSUME IInv, DeleteChannels
  PROVE  IInv'
<1>1. UNCHANGED <<world, q, mem, alloc, isActive, dpc, hand, flushing, dBox, sBox, saveActive,
                  sessions, src, cb, encoder, nextId, evts, seen, answers>>
  BY DEF DeleteChannels, queueVars, dVars, saveVars, jpegVars
<1>2. /\ sm = "delete" /\ sm' = "idle" /\ running' = FALSE /\ hw' = << >>
      /\ orphans' = {} /\ done' = DoneWith(orphans) /\ HeldCbs = {}
  BY DEF DeleteChannels, HeldCbs
<1>3. QShape' /\ UNCHANGED <<Waiting, Ongoing, ToEncode, Encoding, Raws>>
  BY <1>1, QSame DEF IInv
<1>4. /\ ~isActive /\ running /\ dpc \notin {"save", "flush"} \cup Working
  BY <1>2 DEF IInv, Control
<1>5. \A n \in Opened \cup {"ongoingJpeg"} : Closed(n) /\ (Closed(n)' <=> Closed(n))
  BY <1>1, <1>2, <1>3 DEF IInv, Queues, OffNow, Closed
<1>6. Ongoing = << >> /\ Encoding = << >>
  <2>1. Closed("ongoingPP") /\ Closed("ongoingJpeg")
    BY <1>5 DEF Opened
  <2>2. "ongoingPP" \in QueueNames
    BY Names
  <2> QED
    BY <2>1, <2>2 DEF Closed, IInv, Queues, Ongoing
<1>7. DShape'
  BY <1>1, <1>2 DEF IInv, DShape
<1>8. FShape'
  BY <1>1, <1>2, DoneIs DEF IInv, FShape
<1>9. Control'
  <2>1. \A i \in 1 .. Len(dBox) : dBox[i] = "next"
    <3>1. \A i \in 1 .. Len(dBox) : dBox[i] \in Commands
      BY ElementIs DEF IInv, DShape
    <3> QED
      BY <1>2, <3>1 DEF IInv, Control, Commands
  <2> QED
    BY <1>1, <1>2, <1>4, <2>1 DEF IInv, Control
<1>10. Queues'
  <2>1. HeldCbs' = {}
    BY <1>1, <1>2 DEF HeldCbs
  <2> QED
    BY <1>1, <1>2, <1>3, <1>4, <1>5, <1>6, <2>1 DEF IInv, Queues
<1>11. Placed' /\ Memory' /\ HeldCbs' = HeldCbs
  BY <1>1, <1>3, PPSame
<1>12. JpegPlaced'
  BY <1>1, <1>3, JpegSame
<1>13. Asked'
  <2>1. Len(hw') = 0 /\ Outs' = {} /\ Len(Ongoing) = 0
    BY <1>2, <1>6 DEF Outs
  <2>2. \A f \in Frame : Unasked(f)' <=> Unasked(f)
    BY <1>1, <1>3, <1>11 DEF Unasked
  <2> QED
    BY <1>1, <1>2, <1>3, <1>4, <2>1, <2>2 DEF IInv, Asked, Working
<1>14. Accounted'
  <2>1. Fit(alloc, Rng(ToEncode) \cup Rng(Encoding), Rng(Raws), HeldCbs, mem, cb,
            (seen \ orphans) \cup orphans, Plus(done, orphans))
    BY FitReturns DEF IInv, Accounted
  <2>2. (seen \ orphans) \cup orphans = seen \ orphans'
    BY <1>2 DEF IInv, FShape
  <2> QED
    BY <1>1, <1>2, <1>3, <1>11, <2>1, <2>2, DoneIs DEF Accounted
<1> QED
  BY <1>3, <1>7, <1>8, <1>9, <1>10, <1>11, <1>12, <1>13, <1>14 DEF IInv

\* A channel's callback tells D.
LEMMA CbSendKeeps ==
  ASSUME IInv, NEW c \in Channels, CbSend(c)
  PROVE  IInv'
<1>1. UNCHANGED <<world, q, mem, alloc, isActive, dpc, hand, flushing, sBox, saveActive, sm, running,
                  sessions, src, hw, encoder, nextId, evts, seen, done, orphans, answers>>
  BY DEF CbSend, CbUnchanged, queueVars, dVars, saveVars, smVars, jpegVars, frameVars
<1>2. /\ cb[c].at = "send" /\ cb' = [cb EXCEPT ![c] = Idle] /\ dBox' = Append(dBox, "next")
      /\ dBox \in Seq(Commands) /\ sBox \in Seq(Commands) /\ FShape
  BY DEF CbSend, IInv, DShape
<1>3. cb'[c] = Idle /\ \A d \in Channels : d # c => cb'[d] = cb[d]
  BY <1>2 DEF FShape
<1>4. HeldCbs' = HeldCbs /\ HeldJobs' = HeldJobs /\ \A d \in HeldCbs : cb'[d] = cb[d]
  <2>1. Idle.at = "idle"
    BY DEF Idle
  <2>2. HeldCbs' = HeldCbs /\ \A d \in HeldCbs : cb'[d] = cb[d]
    BY <1>2, <1>3, <2>1 DEF HeldCbs
  <2> QED
    BY <2>2 DEF HeldJobs
<1>5. QShape' /\ UNCHANGED <<Waiting, Ongoing, ToEncode, Encoding, Raws>>
  BY <1>1, QSame DEF IInv
<1>6. DShape'
  BY <1>1, <1>2, FewerIs DEF IInv, DShape
<1>7. FShape'
  <2>1. Idle \in [at : {"idle", "held", "send"}, job : Blocks \cup {0}, frame : Outputs \cup {NoFrame}]
    BY DEF Idle
  <2> QED
    BY <1>1, <1>2, <2>1 DEF FShape
<1>8. Control'
  <2>1. dpc \in Working => isActive
    BY DEF IInv, Control
  <2>2. Fewer(dBox', dBox) /\ Fewer(sBox', sBox) /\ dBox' \in Seq(Commands) /\ sBox' \in Seq(Commands)
    BY <1>1, <1>2, FewerIs
  <2> QED
    BY <1>1, <2>1, <2>2, ControlKept
<1>9. Queues'
  <2>1. running \/ (hw' = << >> /\ HeldCbs' = {} /\ Ongoing' = << >>)
    BY <1>1, <1>4, <1>5 DEF IInv, Queues
  <2> QED
    BY <1>1, <1>5, <2>1, SteadySame, QueuesKept
<1>10. Placed' /\ Memory'
  BY <1>1, <1>4, <1>5 DEF IInv, Placed, Memory
<1>11. JpegPlaced'
  BY <1>1, <1>5, JpegSame
<1>12. Asked'
  <2>1. \A f \in Frame : Unasked(f)' <=> Unasked(f)
    BY <1>1, <1>4, <1>5 DEF Unasked
  <2>2. Outs' = Outs /\ (OngoingGone' <=> OngoingGone)
    BY <1>1 DEF Outs, OngoingGone, Left
  <2> QED
    BY <1>1, <1>5, <2>1, <2>2 DEF IInv, Asked
<1>13. Accounted'
  <2>1. Fit(alloc, Rng(ToEncode) \cup Rng(Encoding), Rng(Raws), HeldCbs, mem, cb', seen \ orphans, done)
    BY <1>4, FitSame DEF IInv, Accounted
  <2> QED
    BY <1>1, <1>4, <1>5, <2>1 DEF Accounted
<1> QED
  BY <1>5, <1>6, <1>7, <1>8, <1>9, <1>10, <1>11, <1>12, <1>13 DEF IInv
-----------------------------------------------------------------------------
(* The jobs of dataProcessRoutine.                                         *)

\* A step that neither starts nor stops anything.
LEMMA DKept ==
  ASSUME IInv, DUnchanged, UNCHANGED <<isActive, flushing, sBox, sm>>,
         dBox' = dBox \/ (dBox # << >> /\ dBox' = Tail(dBox)),
         dpc \in Working \cup {"idle"}, dpc' \in Working \cup {"idle"}, dpc' \in Working => isActive,
         hand' \in Blocks \cup {0}, dpc' = "ask" => hand' \in Blocks
  PROVE  DShape' /\ Control'
<1>1. dBox \in Seq(Commands) /\ sBox \in Seq(Commands)
  BY DEF IInv, DShape
<1>2. Fewer(dBox', dBox) /\ Fewer(sBox', sBox) /\ dBox' \in Seq(Commands) /\ sBox' \in Seq(Commands)
  BY <1>1, FewerIs
<1>3. dpc \notin {"save", "flush"} /\ dpc' \notin {"save", "flush"}
  BY DEF Working
<1>4. DShape'
  BY <1>2 DEF IInv, DShape, DUnchanged
<1> QED
  BY <1>2, <1>3, <1>4, ControlKept DEF DUnchanged

\* The types of the queues, queue by queue.
LEMMA QNow ==
  ASSUME q' = [n \in QueueNames |-> q'[n]], \A n \in QueueNames : q'[n] \in QueueOf(DataOf(n))
  PROVE  QShape'
BY DEF QShape, DataOf, QueueNames, PPQueues, JpegQueues

\* From the head of one queue to the end of another.
LEMMA QMove ==
  ASSUME IInv, NEW n \in QueueNames, NEW l \in QueueNames, n # l, DataOf(n) = DataOf(l),
         CanDequeue(q[n]), q[l].active,
         q' = [q EXCEPT ![n] = DequeueHead(@), ![l] = Enqueue(@, First(q[n]))]
  PROVE  /\ QShape' /\ Steady /\ \A i \in QueueNames \ {n, l} : q'[i] = q[i]
         /\ q[n].nodes \in Seq(DataOf(n)) /\ q[n].nodes # << >> /\ q[l].nodes \in Seq(DataOf(n))
         /\ First(q[n]) = Head(q[n].nodes)
         /\ q'[n].nodes = Tail(q[n].nodes)
         /\ q'[l].nodes = Append(q[l].nodes, Head(q[n].nodes))
<1> DEFINE D == DataOf(n)
           v == DequeueHead(q[n])
           w == Enqueue(q[l], First(q[n]))
<1>1. /\ QShape /\ q = [i \in QueueNames |-> q[i]]
      /\ \A i \in QueueNames : q[i] \in QueueOf(DataOf(i))
  BY DEF IInv, QShape, DataOf, QueueNames, PPQueues, JpegQueues
<1>2. q[n] \in QueueOf(D) /\ q[l] \in QueueOf(D)
  BY <1>1
<1>3. q' = [[q EXCEPT ![n] = v] EXCEPT ![l] = w]
  OBVIOUS
<1>4. q'[n] = v /\ q'[l] = w /\ (\A i \in QueueNames \ {n, l} : q'[i] = q[i])
      /\ q' = [i \in QueueNames |-> q'[i]]
  BY <1>1, <1>3
<1> HIDE DEF D
<1>5. /\ v \in QueueOf(D) /\ v.active /\ v.nodes = Tail(q[n].nodes) /\ q[n].active
      /\ q[n].nodes \in Seq(D) /\ q[n].nodes # << >> /\ First(q[n]) = Head(q[n].nodes)
      /\ q[l].nodes \in Seq(D)
  BY <1>2, QueueHas
<1>6. First(q[n]) \in D
  BY <1>5, TailIs
<1>7. w \in QueueOf(D) /\ w.active /\ w.nodes = Append(q[l].nodes, First(q[n]))
  BY <1>2, <1>6, EnqueueIs
<1> HIDE DEF v, w
<1>8. \A i \in QueueNames : q'[i] \in QueueOf(DataOf(i))
  BY <1>1, <1>4, <1>5, <1>7 DEF D
<1>9. QShape'
  BY <1>4, <1>8, QNow
<1>10. Steady
  <2>1. v.active = q[n].active /\ w.active = q[l].active
    BY <1>2, <1>5, <1>7 DEF QueueOf
  <2> QED
    BY <1>4, <1>5, <1>7, <2>1 DEF Steady, IInv, Queues
<1> QED
  BY <1>4, <1>5, <1>7, <1>9, <1>10 DEF D

\* A JPEG job is submitted.
LEMMA DEncodeKeeps ==
  ASSUME IInv, DEncode
  PROVE  IInv'
<1>1. UNCHANGED <<world, q, mem, alloc, isActive, hand, flushing, dBox, sBox, saveActive, sm, running,
                  sessions, src, cb, hw, evts, seen, done, orphans, answers>>
  BY DEF DEncode, DUnchanged, queueVars
<1>2. /\ dpc = "encode" /\ dpc' = "store" /\ nextId' = nextId + 1
      /\ encoder' = encoder \cup {[id |-> nextId, shot |-> ShotOf(Last(q["ongoingJpeg"]))]}
      /\ DUnchanged /\ isActive
  BY DEF DEncode, IInv, Control, Working
<1>3. QShape' /\ UNCHANGED <<Waiting, Ongoing, ToEncode, Encoding, Raws>>
  BY <1>1, QSame DEF IInv
<1>4. SameFrames
  BY <1>1, <1>3 DEF SameFrames
<1>5. DShape' /\ Control'
  BY <1>1, <1>2, DKept DEF Working, IInv, DShape
<1>6. FShape'
  <2>1. Last(q["ongoingJpeg"]) \in JpegJob
    <3>1. Encoding \in Seq(JpegJob) /\ Encoding # << >> /\ Last(q["ongoingJpeg"]) = Encoding[Len(Encoding)]
      BY <1>2, QRead DEF IInv, JpegPlaced, Last, Encoding
    <3> QED
      BY <3>1, FrontIs
  <2>2. ShotOf(Last(q["ongoingJpeg"])) \in Shots
    BY <2>1, FramesAre DEF ShotOf, JpegJob
  <2>3. /\ nextId \in Nat \ {0} /\ nextId' > 1 /\ nextId' \in Nat \ {0}
        /\ encoder \subseteq [id : Nat \ {0}, shot : Shots] /\ \A e \in encoder : e.id < nextId
    BY <1>2 DEF IInv, FShape
  <2>4. encoder' \subseteq [id : Nat \ {0}, shot : Shots] /\ \A e \in encoder' : e.id < nextId'
    <3>1. \A e \in encoder : e.id \in Nat /\ e.id < nextId + 1
      BY <2>3
    <3>2. [id |-> nextId, shot |-> ShotOf(Last(q["ongoingJpeg"]))] \in [id : Nat \ {0}, shot : Shots]
      BY <2>2, <2>3
    <3> QED
      BY <1>2, <2>3, <3>1, <3>2
  <2> QED
    BY <1>1, <2>3, <2>4 DEF IInv, FShape
<1>7. Queues'
  BY <1>1, <1>2, <1>3, SteadySame, QueuesKept DEF IInv, Control
<1>8. (Placed /\ JpegPlaced /\ Memory /\ Asked /\ Accounted)'
  BY <1>1, <1>2, <1>4, FramesSame DEF OngoingGone
<1> QED
  BY <1>3, <1>5, <1>6, <1>7, <1>8 DEF IInv

\* The next JPEG job becomes an ongoing one.
LEMMA DJpegKeeps ==
  ASSUME IInv, DJpeg
  PROVE  IInv'
<1>1. UNCHANGED <<world, mem, alloc, isActive, hand, flushing, sBox, saveActive, sm, running,
                  sessions, src, cb, hw, encoder, nextId, evts, seen, done, orphans, answers>>
  BY DEF DJpeg, DUnchanged
<1>2. /\ dpc = "idle" /\ dBox # << >> /\ dBox' = Tail(dBox) /\ dpc' \in {"encode", "raw"}
      /\ DUnchanged /\ isActive /\ running
  BY DEF DJpeg, Takes, IInv, Control
<1>3. DShape' /\ Control'
  BY <1>1, <1>2, DKept DEF Working, IInv, DShape
<1>4. FShape'
  BY <1>1, <1>2 DEF IInv, FShape
<1>5. CASE CanDequeue(q["inputJpeg"])
  <2> DEFINE j == Head(ToEncode)
  <2>1. /\ q' = [q EXCEPT !["inputJpeg"] = DequeueHead(@),
                          !["ongoingJpeg"] = Enqueue(@, First(q["inputJpeg"]))]
        /\ dpc' = "encode" /\ q["ongoingJpeg"].active
    BY <1>5 DEF DJpeg, IInv, Queues
  <2>2. /\ QShape' /\ Steady /\ UNCHANGED <<Waiting, Ongoing, Raws>>
        /\ ToEncode \in Seq(JpegJob) /\ ToEncode # << >> /\ Encoding \in Seq(JpegJob)
        /\ ToEncode' = Tail(ToEncode) /\ Encoding' = Append(Encoding, j)
    <3>1. /\ "inputJpeg" \in QueueNames /\ "ongoingJpeg" \in QueueNames
          /\ DataOf("inputJpeg") = JpegJob /\ DataOf("ongoingJpeg") = JpegJob
          /\ "inputJpeg" # "ongoingJpeg"
      BY Names, DataIs
    <3>2. /\ QShape' /\ Steady
          /\ \A n \in QueueNames \ {"inputJpeg", "ongoingJpeg"} : q'[n] = q[n]
          /\ ToEncode \in Seq(JpegJob) /\ ToEncode # << >> /\ Encoding \in Seq(JpegJob)
          /\ q'["inputJpeg"].nodes = Tail(ToEncode) /\ q'["ongoingJpeg"].nodes = Append(Encoding, Head(ToEncode))
      BY <1>5, <2>1, <3>1, QMove DEF ToEncode, Encoding
    <3> QED
      BY <3>2, Names DEF Waiting, Ongoing, ToEncode, Encoding, Raws
  <2>3. /\ j \in JpegJob /\ j \in Rng(ToEncode)
        /\ Rng(ToEncode') = Rng(ToEncode) \ {j} /\ Inj(ToEncode')
    BY <2>2, TailIs DEF IInv, JpegPlaced
  <2>4. j.id = 0 /\ j \notin Rng(Encoding)
    BY <2>3 DEF IInv, JpegPlaced
  <2>5. /\ Len(Encoding') = Len(Encoding) + 1 /\ Encoding'[Len(Encoding) + 1] = j
        /\ \A i \in 1 .. Len(Encoding) : Encoding'[i] = Encoding[i]
        /\ Rng(Encoding') = Rng(Encoding) \cup {j} /\ Inj(Encoding')
    <3> HIDE DEF j
    <3> QED
      BY <2>2, <2>3, <2>4, AppendIs DEF IInv, JpegPlaced
  <2> HIDE DEF j
  <2>6. JpegPlaced'
    <3>1. Encoding' # << >>
      BY <2>2, <2>3
    <3>2. \A i \in 1 .. Len(Encoding') : i = Len(Encoding') \/ i \in 1 .. Len(Encoding)
      BY <2>2, <2>5
    <3>3. \A i \in 1 .. Len(Encoding) : Encoding[i].id # 0
      BY <1>2 DEF IInv, JpegPlaced
    <3>4. \A i \in 1 .. Len(Encoding') : Encoding'[i].id = 0 => i = Len(Encoding')
      BY <2>5, <3>2, <3>3
    <3>5. Encoding'[Len(Encoding')].id = 0
      BY <2>4, <2>5
    <3> QED
      BY <2>1, <2>2, <2>3, <2>5, <3>1, <3>4, <3>5 DEF IInv, JpegPlaced
  <2>7. Placed' /\ Memory' /\ HeldCbs' = HeldCbs
    BY <1>1, <2>2, PPSame
  <2>8. Asked'
    BY <1>1, <1>2, <2>1, <2>2, AskedSame DEF OngoingGone, IInv, Asked
  <2>9. Accounted'
    <3>1. Rng(ToEncode') \cup Rng(Encoding') = Rng(ToEncode) \cup Rng(Encoding)
      BY <2>3, <2>5
    <3> QED
      BY <1>1, <2>2, <2>7, <3>1 DEF IInv, Accounted
  <2>10. Queues'
    BY <1>1, <1>2, <2>1, <2>2, QueuesKept
  <2> QED
    BY <1>3, <1>4, <2>2, <2>6, <2>7, <2>8, <2>9, <2>10 DEF IInv
<1>6. CASE ~CanDequeue(q["inputJpeg"])
  <2>1. q' = q /\ dpc' = "raw"
    BY <1>6 DEF DJpeg
  <2>2. QShape' /\ UNCHANGED <<Waiting, Ongoing, ToEncode, Encoding, Raws>>
    BY <2>1, QSame DEF IInv
  <2>3. SameFrames
    BY <1>1, <2>2 DEF SameFrames
  <2>4. Queues'
    BY <1>1, <1>2, <2>1, <2>2, SteadySame, QueuesKept
  <2>5. (Placed /\ JpegPlaced /\ Memory /\ Asked /\ Accounted)'
    BY <1>1, <1>2, <2>1, <2>3, FramesSame DEF OngoingGone
  <2> QED
    BY <1>3, <1>4, <2>2, <2>4, <2>5 DEF IInv
<1> QED
  BY <1>5, <1>6

\* The last element of a list is replaced.
Replaced(s, x) == [s EXCEPT ![Len(s)] = x]

LastReplaced(T, s, x, t) ==
  /\ t \in Seq(T) /\ Len(t) = Len(s) /\ Len(s) \in 1 .. Len(s) /\ t[Len(s)] = x /\ t # << >>
  /\ \A i \in 1 .. Len(s) : i # Len(s) => t[i] = s[i]
  /\ Inj(s) /\ x \notin Rng(s) \ {s[Len(s)]}
       => Inj(t) /\ Rng(t) = (Rng(s) \ {s[Len(s)]}) \cup {x}

\* A list with another element for its last one.
LEMMA ReplaceIs ==
  ASSUME NEW T, NEW s \in Seq(T), s # << >>, NEW x \in T
  PROVE  LastReplaced(T, s, x, Replaced(s, x))
<1> DEFINE t == Replaced(s, x)
<1>1. Len(s) \in 1 .. Len(s)
  BY EmptySeq
<1>2. /\ t \in Seq(T) /\ Len(t) = Len(s) /\ t[Len(s)] = x
      /\ \A i \in 1 .. Len(s) : i # Len(s) => t[i] = s[i]
  BY <1>1 DEF Replaced
<1> HIDE DEF t
<1>3. t # << >>
  BY <1>1, <1>2, EmptySeq
<1>4. ASSUME Inj(s), x \notin Rng(s) \ {s[Len(s)]}
      PROVE  Inj(t) /\ Rng(t) = (Rng(s) \ {s[Len(s)]}) \cup {x}
  <2>1. \A i \in 1 .. Len(s) : i # Len(s) => s[i] # x /\ s[i] # s[Len(s)]
    BY <1>1, <1>4 DEF Inj, Rng
  <2>2. Inj(t)
    <3>1. ASSUME NEW i \in 1 .. Len(s), NEW k \in 1 .. Len(s), i # k PROVE t[i] # t[k]
      <4>1. CASE i # Len(s) /\ k # Len(s)
        BY <1>2, <1>4, <3>1, <4>1 DEF Inj
      <4>2. CASE i = Len(s)
        BY <1>2, <2>1, <3>1, <4>2
      <4>3. CASE k = Len(s)
        BY <1>2, <2>1, <3>1, <4>3
      <4> QED
        BY <4>1, <4>2, <4>3
    <3> QED
      BY <1>2, <3>1 DEF Inj
  <2>3. \A y \in Rng(t) : y \in (Rng(s) \ {s[Len(s)]}) \cup {x}
    BY <1>2, <2>1 DEF Rng
  <2>4. \A y \in (Rng(s) \ {s[Len(s)]}) \cup {x} : y \in Rng(t)
    <3>1. x \in Rng(t)
      BY <1>1, <1>2 DEF Rng
    <3>2. ASSUME NEW i \in 1 .. Len(s), s[i] # s[Len(s)] PROVE s[i] \in Rng(t)
      BY <1>2, <3>2 DEF Rng
    <3> QED
      BY <3>1, <3>2 DEF Rng
  <2> QED
    BY <2>2, <2>3, <2>4
<1> QED
  BY <1>1, <1>2, <1>3, <1>4 DEF LastReplaced, t

\* The last JPEG job gets its id.
LEMMA DStoreIdKeeps ==
  ASSUME IInv, DStoreId
  PROVE  IInv'
<1> DEFINE j == Encoding[Len(Encoding)]
           i == [j EXCEPT !.id = nextId - 1]
           t == Replaced(Encoding, i)
<1>1. UNCHANGED <<world, mem, alloc, isActive, hand, flushing, dBox, sBox, saveActive, sm, running,
                  sessions, src, cb, hw, encoder, nextId, evts, seen, done, orphans, answers>>
  BY DEF DStoreId, DUnchanged
<1>2. /\ dpc = "store" /\ dpc' = "raw" /\ DUnchanged /\ isActive /\ running
  BY DEF DStoreId, IInv, Control, Working
<1>3. DShape' /\ Control'
  BY <1>1, <1>2, DKept DEF Working, IInv, DShape
<1>4. FShape'
  BY <1>1, <1>2 DEF IInv, FShape
<1>5. /\ Encoding \in Seq(JpegJob) /\ Encoding # << >> /\ j \in JpegJob /\ j \in Rng(Encoding)
      /\ q["ongoingJpeg"] \in QueueOf(JpegJob) /\ QShape
  BY <1>2, QRead, FrontIs DEF IInv, JpegPlaced
<1>6. i \in JpegJob /\ i.id = nextId - 1 /\ i.id # 0 /\ JpegFrames(i) = JpegFrames(j) /\ JpegFrames(j) # {}
  <2>1. nextId \in Nat /\ nextId > 1
    BY <1>2 DEF IInv, FShape
  <2> HIDE DEF j
  <2>2. j.src # NoFrame
    BY <1>5, FramesAre DEF JpegJob
  <2> QED
    BY <1>5, <2>1, <2>2 DEF JpegJob, JpegFrames
<1>7. q' = [q EXCEPT !["ongoingJpeg"] = [@ EXCEPT !.nodes = t]]
  BY DEF DStoreId, Encoding, Replaced
<1>8. /\ t \in Seq(JpegJob) /\ Len(t) = Len(Encoding) /\ Len(Encoding) \in 1 .. Len(Encoding)
      /\ t[Len(Encoding)] = i /\ t # << >>
      /\ \A k \in 1 .. Len(Encoding) : k # Len(Encoding) => t[k] = Encoding[k]
      /\ Inj(Encoding) /\ i \notin Rng(Encoding) \ {j} => Inj(t) /\ Rng(t) = (Rng(Encoding) \ {j}) \cup {i}
  <2> HIDE DEF i
  <2>1. Encoding \in Seq(JpegJob) /\ Encoding # << >> /\ i \in JpegJob
    BY <1>5, <1>6
  <2>2. LastReplaced(JpegJob, Encoding, i, Replaced(Encoding, i))
    BY <2>1, ReplaceIs
  <2> QED
    BY <2>2 DEF LastReplaced
<1> HIDE DEF t
<1>9. /\ [q["ongoingJpeg"] EXCEPT !.nodes = t] \in QueueOf(JpegJob)
      /\ [q["ongoingJpeg"] EXCEPT !.nodes = t].nodes = t
      /\ [q["ongoingJpeg"] EXCEPT !.nodes = t].active = q["ongoingJpeg"].active
  BY <1>5, <1>8 DEF QueueOf
<1>10. /\ QShape' /\ UNCHANGED <<Waiting, Ongoing, ToEncode, Raws>> /\ Encoding' = t
       /\ q'["ongoingJpeg"].active = q["ongoingJpeg"].active
       /\ \A n \in QueueNames : n # "ongoingJpeg" => q'[n] = q[n]
  BY <1>5, <1>7, <1>9, QSet, DataIs, Names
<1>11. Steady
  BY <1>10 DEF Steady, IInv, Queues
<1>12. /\ Fit(alloc, ((Rng(ToEncode) \cup Rng(Encoding)) \ {j}) \cup {i}, Rng(Raws), HeldCbs, mem, cb,
             seen \ orphans, done)
       /\ i \notin (Rng(ToEncode) \cup Rng(Encoding)) \ {j}
  <2>1. Fit(alloc, Rng(ToEncode) \cup Rng(Encoding), Rng(Raws), HeldCbs, mem, cb, seen \ orphans, done)
        /\ done \in [Frame -> Nat] /\ j \in Rng(ToEncode) \cup Rng(Encoding)
    BY <1>5 DEF IInv, Accounted, FShape
  <2> HIDE DEF i, j
  <2> QED
    BY <1>6, <2>1, FitRenames
<1>13. j \notin Rng(ToEncode) /\ Inj(Encoding) /\ Rng(ToEncode) \cap Rng(Encoding) = {}
  BY <1>5 DEF IInv, JpegPlaced
<1> HIDE DEF i, j
<1>14. Inj(t) /\ Rng(t) = (Rng(Encoding) \ {j}) \cup {i} /\ i \notin Rng(ToEncode)
  BY <1>8, <1>12, <1>13
<1>15. JpegPlaced'
  <2>1. \A k \in 1 .. Len(t) : t[k].id # 0
    <3>1. \A k \in 1 .. Len(Encoding) : k # Len(Encoding) => Encoding[k].id # 0
      BY DEF IInv, JpegPlaced
    <3> QED
      BY <1>6, <1>8, <3>1
  <2>2. Rng(ToEncode) \cap Rng(t) = {}
    BY <1>13, <1>14
  <2> QED
    BY <1>2, <1>8, <1>10, <1>14, <2>1, <2>2 DEF IInv, JpegPlaced
<1>16. Placed' /\ Memory' /\ HeldCbs' = HeldCbs
  BY <1>1, <1>10, PPSame
<1>17. Asked'
  BY <1>1, <1>2, <1>10, AskedSame DEF OngoingGone, IInv, Asked
<1>18. Accounted'
  <2>1. Rng(ToEncode') \cup Rng(Encoding') = ((Rng(ToEncode) \cup Rng(Encoding)) \ {j}) \cup {i}
    BY <1>10, <1>13, <1>14
  <2> QED
    BY <1>1, <1>10, <1>12, <1>16, <2>1 DEF Accounted
<1>19. Queues'
  BY <1>1, <1>2, <1>11, QueuesKept
<1> QED
  BY <1>3, <1>4, <1>10, <1>15, <1>16, <1>17, <1>18, <1>19 DEF IInv
-----------------------------------------------------------------------------
(* Frames given back by dataProcessRoutine.                                *)

\* Jobs of one kind are released.
LEMMA FitReleases ==
  ASSUME NEW A, NEW J, NEW W, NEW C, NEW m, NEW k, NEW live, NEW gv,
         Fit(A, J, W, C, m, k, live, gv)
  PROVE  /\ \A DA \in SUBSET A : \A m2 : (\A a \in A \ DA : Two(m2[a]) = Two(m[a]))
              => Fit(A \ DA, J, W, C, m2, k, live, Plus(gv, UNION {Two(m[a]) : a \in DA}))
         /\ \A DJ \in SUBSET J :
              Fit(A, J \ DJ, W, C, m, k, live, Plus(gv, UNION {JpegFrames(j) : j \in DJ}))
         /\ \A DW \in SUBSET W : Fit(A, J, W \ DW, C, m, k, live, Plus(gv, DW))
<1>0. /\ A \ {} = A /\ J \ {} = J /\ W \ {} = W
      /\ {} \in SUBSET A /\ {} \in SUBSET J /\ {} \in SUBSET W
      /\ UNION {Two(m[a]) : a \in {}} = {} /\ UNION {JpegFrames(j) : j \in {}} = {}
  OBVIOUS
<1>1. ASSUME NEW DA \in SUBSET A, NEW m2, \A a \in A \ DA : Two(m2[a]) = Two(m[a])
      PROVE  Fit(A \ DA, J, W, C, m2, k, live, Plus(gv, UNION {Two(m[a]) : a \in DA}))
  <2>1. Freed(m, DA, {}, {}) = UNION {Two(m[a]) : a \in DA}
    BY <1>0 DEF Freed
  <2>2. Fit(A \ DA, J \ {}, W \ {}, C, m2, k, live, Plus(gv, Freed(m, DA, {}, {})))
    BY <1>0, <1>1, FitRelease
  <2> QED
    BY <1>0, <2>1, <2>2
<1>2. ASSUME NEW DJ \in SUBSET J
      PROVE  Fit(A, J \ DJ, W, C, m, k, live, Plus(gv, UNION {JpegFrames(j) : j \in DJ}))
  <2>1. Freed(m, {}, DJ, {}) = UNION {JpegFrames(j) : j \in DJ}
    BY <1>0 DEF Freed
  <2>2. Fit(A \ {}, J \ DJ, W \ {}, C, m, k, live, Plus(gv, Freed(m, {}, DJ, {})))
    BY <1>0, FitRelease
  <2> QED
    BY <1>0, <2>1, <2>2
<1>3. ASSUME NEW DW \in SUBSET W
      PROVE  Fit(A, J, W \ DW, C, m, k, live, Plus(gv, DW))
  <2>1. Freed(m, {}, {}, DW) = DW
    BY <1>0 DEF Freed
  <2>2. Fit(A \ {}, J \ {}, W \ DW, C, m, k, live, Plus(gv, Freed(m, {}, {}, DW)))
    BY <1>0, FitRelease
  <2> QED
    BY <1>0, <2>1, <2>2
<1> QED
  BY <1>1, <1>2, <1>3

\* The memory of freed pp jobs.
LEMMA ClearedIs ==
  ASSUME FShape, NEW S
  PROVE  /\ Cleared(S) \in [Blocks -> PPJob]
         /\ \A a \in Blocks : a \notin S => Cleared(S)[a] = mem[a]
         /\ \A a : PPFrames(a) = Two(mem[a])
<1>1. NoJob \in PPJob
  <2>1. NoJob = [src |-> NoFrame, reproc |-> NoFrame, count |-> 0, chan |-> 0]
    BY DEF NoJob
  <2>2. 0 \in 0 .. 3 /\ 0 \in Channels
    BY DEF Channels
  <2> QED
    BY <2>1, <2>2 DEF PPJob
<1>2. mem \in [Blocks -> PPJob]
  BY DEF FShape
<1> QED
  BY <1>1, <1>2 DEF Cleared, PPFrames, Two

\* Another answer is counted.
LEMMA AnswersIs ==
  ASSUME FShape, NEW s \in Shots
  PROVE  [answers EXCEPT ![s] = @ + 1] \in [Shots -> Nat]
BY DEF FShape

\* The next raw frame is delivered.
LEMMA DRawKeeps ==
  ASSUME IInv, DRaw
  PROVE  IInv'
<1>1. UNCHANGED <<world, mem, alloc, isActive, hand, flushing, dBox, sBox, saveActive, sm, running,
                  sessions, src, cb, hw, encoder, nextId, evts, seen, orphans>>
  BY DEF DRaw, DUnchanged
<1>2. dpc = "raw" /\ dpc' = "reproc" /\ DUnchanged /\ isActive /\ running /\ FShape
  BY DEF DRaw, IInv, Control, Working
<1>3. DShape' /\ Control'
  BY <1>1, <1>2, DKept DEF Working, IInv, DShape
<1>4. CASE CanDequeue(q["inputRaw"])
  <2> DEFINE f == First(q["inputRaw"])
  <2>1. /\ q' = [q EXCEPT !["inputRaw"] = DequeueHead(@)] /\ done' = DoneWith({f})
        /\ answers' = [answers EXCEPT ![f.shot] = @ + 1]
    BY <1>4 DEF DRaw
  <2>2. /\ QShape' /\ Steady /\ UNCHANGED <<Waiting, Ongoing, ToEncode, Encoding>>
        /\ Raws \in Seq(Frame) /\ Raws # << >> /\ Raws' = Tail(Raws) /\ f = Head(Raws)
    BY <1>4, <2>1, QDequeue, DataIs, Names DEF Raws
  <2>3. f \in Frame /\ f \in Rng(Raws) /\ Rng(Raws') = Rng(Raws) \ {f} /\ Inj(Raws')
    BY <2>2, TailIs DEF IInv, JpegPlaced
  <2> HIDE DEF f
  <2>4. FShape'
    <3>1. f.shot \in Shots
      BY <2>3, FramesAre
    <3>2. answers' \in [Shots -> Nat] /\ done' \in [Frame -> Nat]
      BY <1>2, <2>1, <3>1, AnswersIs, DoneIs DEF FShape
    <3> QED
      BY <1>1, <1>2, <3>2 DEF FShape
  <2>5. Queues'
    BY <1>1, <1>2, <2>2, QueuesKept
  <2>6. Placed' /\ Memory' /\ HeldCbs' = HeldCbs
    BY <1>1, <2>2, PPSame
  <2>7. JpegPlaced'
    BY <1>2, <2>2, <2>3 DEF IInv, JpegPlaced
  <2>8. Asked'
    BY <1>1, <1>2, <2>2, AskedSame DEF OngoingGone, IInv, Asked
  <2>9. Accounted'
    <3>1. {f} \in SUBSET Rng(Raws)
      BY <2>3
    <3>2. Fit(alloc, Rng(ToEncode) \cup Rng(Encoding), Rng(Raws) \ {f}, HeldCbs, mem, cb,
              seen \ orphans, Plus(done, {f}))
      BY <3>1, FitReleases DEF IInv, Accounted
    <3> QED
      BY <1>1, <2>1, <2>2, <2>3, <2>6, <3>2, DoneIs DEF Accounted
  <2> QED
    BY <1>3, <2>2, <2>4, <2>5, <2>6, <2>7, <2>8, <2>9 DEF IInv
<1>5. CASE ~CanDequeue(q["inputRaw"])
  <2>1. UNCHANGED <<q, done, answers>>
    BY <1>5 DEF DRaw
  <2>2. QShape' /\ UNCHANGED <<Waiting, Ongoing, ToEncode, Encoding, Raws>>
    BY <2>1, QSame DEF IInv
  <2>3. SameFrames
    BY <1>1, <2>1, <2>2 DEF SameFrames
  <2>4. Queues'
    BY <1>1, <1>2, <2>1, <2>2, SteadySame, QueuesKept
  <2>5. (Placed /\ JpegPlaced /\ Memory /\ Asked /\ Accounted)'
    BY <1>1, <1>2, <2>1, <2>3, FramesSame DEF OngoingGone
  <2>6. FShape'
    BY <1>1, <1>2, <2>1 DEF FShape
  <2> QED
    BY <1>3, <2>2, <2>4, <2>5, <2>6 DEF IInv
<1> QED
  BY <1>4, <1>5

\* A JPEG job that cannot be submitted is taken back.
LEMMA DEncodeFailsKeeps ==
  ASSUME IInv, DEncodeFails
  PROVE  IInv'
<1> DEFINE j == Last(q["ongoingJpeg"])
<1>1. UNCHANGED <<world, mem, alloc, isActive, hand, flushing, dBox, sBox, saveActive, sm, running,
                  sessions, src, cb, hw, encoder, nextId, evts, seen, orphans>>
  BY DEF DEncodeFails, DUnchanged
<1>2. /\ dpc = "encode" /\ dpc' = "raw" /\ DUnchanged /\ isActive /\ running /\ FShape /\ QShape
      /\ q' = [q EXCEPT !["ongoingJpeg"] = DequeueTail(@)] /\ done' = DoneWith(JpegFrames(j))
      /\ answers' = [answers EXCEPT ![ShotOf(j)] = @ + 1]
  BY DEF DEncodeFails, IInv, Control, Working
<1>3. DShape' /\ Control'
  BY <1>1, <1>2, DKept DEF Working, IInv, DShape
<1>4. /\ Encoding \in Seq(JpegJob) /\ Encoding # << >> /\ j = Encoding[Len(Encoding)]
      /\ q["ongoingJpeg"] \in QueueOf(JpegJob) /\ q["ongoingJpeg"].nodes = Encoding
      /\ q["ongoingJpeg"].active
  BY <1>2, QRead DEF IInv, JpegPlaced, Encoding, Last, Queues
<1>5. /\ DequeueTail(q["ongoingJpeg"]) \in QueueOf(JpegJob)
      /\ DequeueTail(q["ongoingJpeg"]).active = q["ongoingJpeg"].active
      /\ DequeueTail(q["ongoingJpeg"]).nodes = SubSeq(Encoding, 1, Len(Encoding) - 1)
  <2>1. SubSeq(Encoding, 1, Len(Encoding) - 1) \in Seq(JpegJob)
    BY <1>4, FrontIs
  <2> QED
    BY <1>4, <2>1 DEF QueueOf, DequeueTail
<1>6. /\ QShape' /\ UNCHANGED <<Waiting, Ongoing, ToEncode, Raws>>
      /\ Encoding' = SubSeq(Encoding, 1, Len(Encoding) - 1)
      /\ q'["ongoingJpeg"].active = q["ongoingJpeg"].active
      /\ \A n \in QueueNames : n # "ongoingJpeg" => q'[n] = q[n]
  BY <1>2, <1>5, QSet, DataIs, Names
<1>7. Steady
  BY <1>4, <1>6 DEF Steady, IInv, Queues
<1>8. /\ j \in JpegJob /\ j \in Rng(Encoding) /\ Len(Encoding') = Len(Encoding) - 1
      /\ Len(Encoding) \in Nat \ {0}
      /\ Inj(Encoding') /\ Rng(Encoding') = Rng(Encoding) \ {j}
      /\ \A i \in 1 .. Len(Encoding) - 1 : Encoding'[i] = Encoding[i]
  BY <1>4, <1>6, FrontIs DEF IInv, JpegPlaced
<1> HIDE DEF j
<1>9. FShape'
  <2>1. ShotOf(j) \in Shots
    BY <1>8, FramesAre DEF ShotOf, JpegJob
  <2>2. answers' \in [Shots -> Nat] /\ done' \in [Frame -> Nat]
    BY <1>2, <2>1, AnswersIs, DoneIs DEF FShape
  <2> QED
    BY <1>1, <1>2, <2>2 DEF FShape
<1>10. Queues'
  BY <1>1, <1>2, <1>7, QueuesKept
<1>11. Placed' /\ Memory' /\ HeldCbs' = HeldCbs
  BY <1>1, <1>6, PPSame
<1>12. JpegPlaced'
  <2>1. \A i \in 1 .. Len(Encoding') : Encoding'[i].id # 0
    <3>1. \A i \in 1 .. Len(Encoding') : i \in 1 .. Len(Encoding) /\ i # Len(Encoding)
      BY <1>8
    <3> QED
      BY <1>8, <3>1 DEF IInv, JpegPlaced
  <2> QED
    BY <1>2, <1>6, <1>8, <2>1 DEF IInv, JpegPlaced
<1>13. Asked'
  BY <1>1, <1>2, <1>6, AskedSame DEF OngoingGone, IInv, Asked
<1>14. Accounted'
  <2>1. UNION {JpegFrames(i) : i \in {j}} = JpegFrames(j) /\ {j} \in SUBSET (Rng(ToEncode) \cup Rng(Encoding))
    BY <1>8
  <2>2. Fit(alloc, (Rng(ToEncode) \cup Rng(Encoding)) \ {j}, Rng(Raws), HeldCbs, mem, cb,
            seen \ orphans, Plus(done, UNION {JpegFrames(i) : i \in {j}}))
    BY <2>1, FitReleases DEF IInv, Accounted
  <2>3. (Rng(ToEncode) \cup Rng(Encoding)) \ {j} = Rng(ToEncode') \cup Rng(Encoding')
    BY <1>6, <1>8 DEF IInv, JpegPlaced
  <2> QED
    BY <1>1, <1>2, <1>6, <1>11, <2>1, <2>2, <2>3, DoneIs DEF Accounted
<1> QED
  BY <1>3, <1>6, <1>9, <1>10, <1>11, <1>12, <1>13, <1>14 DEF IInv

\* The jobs of one of the two queues are freed.
LEMMA WaitingGone ==
  ASSUME IInv, Waiting' = << >>, mem' = Cleared(Rng(Waiting)), alloc' = alloc \ Rng(Waiting),
         UNCHANGED <<world, Ongoing, cb, hw, hand, seen, orphans, sm, dpc>>, dpc # "ask",
         OngoingGone => OngoingGone'
  PROVE  Placed' /\ Memory' /\ Asked' /\ \A a \in alloc' : mem'[a] = mem[a]
<1>0. Rng(Waiting') = {} /\ Inj(Waiting')
  BY DEF Rng, Inj
<1>1. HeldCbs' = HeldCbs /\ HeldJobs' = HeldJobs /\ Outs' = Outs
  BY DEF HeldCbs, HeldJobs, Outs
<1>2. \A a \in alloc' : a \in alloc /\ a \notin Rng(Waiting) /\ mem'[a] = mem[a]
  BY ClearedIs DEF IInv, FShape
<1>3. HeldJobs \cap Rng(Waiting) = {}
  BY DEF HeldJobs, IInv, Placed
<1>4. Placed'
  BY <1>0, <1>1, <1>3 DEF IInv, Placed
<1>5. Memory'
  BY <1>0, <1>2 DEF IInv, Memory
<1>6. \A f \in Frame : Unasked(f)' => Unasked(f)
  BY <1>0, <1>1 DEF Unasked
<1>7. Asked'
  BY <1>1, <1>6 DEF IInv, Asked
<1> QED
  BY <1>2, <1>4, <1>5, <1>7

\* The ongoing pp jobs are flushed.
LEMMA OngoingFlushed ==
  ASSUME IInv, Ongoing' = << >>, mem' = Cleared(Rng(Ongoing)), alloc' = alloc \ Rng(Ongoing),
         UNCHANGED <<world, Waiting, cb, hw, hand, seen, orphans, sm, dpc>>, dpc # "ask",
         OngoingGone'
  PROVE  Placed' /\ Memory' /\ Asked' /\ \A a \in alloc' : mem'[a] = mem[a]
<1>0. Rng(Ongoing') = {} /\ Inj(Ongoing')
  BY DEF Rng, Inj
<1>1. HeldCbs' = HeldCbs /\ HeldJobs' = HeldJobs /\ Outs' = Outs
  BY DEF HeldCbs, HeldJobs, Outs
<1>2. \A a \in alloc' : a \in alloc /\ a \notin Rng(Ongoing) /\ mem'[a] = mem[a]
  BY ClearedIs DEF IInv, FShape
<1>3. HeldJobs \cap Rng(Ongoing) = {} /\ Rng(Waiting) \cap Rng(Ongoing) = {}
  BY DEF HeldJobs, IInv, Placed
<1>4. Placed'
  BY <1>0, <1>1, <1>3 DEF IInv, Placed
<1>5. Memory'
  BY <1>2 DEF IInv, Memory
<1>6. \A f \in Frame : Unasked(f)' => Unasked(f)
  <2>1. \A a \in Rng(Waiting) : a \in alloc'
    BY <1>3 DEF IInv, Placed
  <2> QED
    BY <1>1, <1>2, <2>1 DEF Unasked
<1>7. Asked'
  BY <1>1, <1>6 DEF IInv, Asked
<1> QED
  BY <1>2, <1>4, <1>5, <1>7

\* D drops the next jobs while it is not active.
LEMMA DDropKeeps ==
  ASSUME IInv, DDrop
  PROVE  IInv'
<1> DEFINE Gone(n) == IF CanDequeue(q[n]) THEN {First(q[n])} ELSE {}
           Rest(n) == IF CanDequeue(q[n]) THEN DequeueHead(q[n]) ELSE q[n]
           gone == IF q["inputPP"].active THEN Items("inputPP") ELSE {}
           DJ == Gone("inputJpeg")
           DW == Gone("inputRaw")
<1>1. UNCHANGED <<world, isActive, dpc, hand, flushing, sBox, saveActive, sm, running,
                  sessions, src, cb, hw, encoder, nextId, evts, seen, orphans, answers>>
  BY DEF DDrop, DUnchanged, dVars
<1>2. /\ dpc = "idle" /\ dBox # << >> /\ dBox' = Tail(dBox) /\ DUnchanged /\ ~isActive
      /\ FShape /\ QShape
  BY DEF DDrop, Takes, IInv
<1>3. /\ q' = [q EXCEPT !["inputJpeg"] = Rest("inputJpeg"), !["inputRaw"] = Rest("inputRaw"),
                        !["inputPP"] = Flush(@)]
      /\ done' = DoneWith((UNION {JpegFrames(j) : j \in DJ}) \cup DW \cup (UNION {PPFrames(a) : a \in gone}))
      /\ mem' = Cleared(gone) /\ alloc' = alloc \ gone
  BY DEF DDrop
<1> HIDE DEF Gone, Rest
<1>4. DShape' /\ Control'
  BY <1>1, <1>2, DKept DEF Working, IInv, DShape
<1>5. gone = Rng(Waiting)
  <2>1. CASE q["inputPP"].active
    BY <2>1, ItemsAre
  <2>2. CASE ~q["inputPP"].active
    <3>1. Waiting = << >>
      BY <2>2, Names DEF IInv, Queues, Waiting
    <3>2. Rng(Waiting) = {}
      BY <3>1 DEF Rng
    <3> QED
      BY <2>2, <3>2
  <2> QED
    BY <2>1, <2>2
<1>6. /\ Rest("inputJpeg") \in QueueOf(JpegJob) /\ Rest("inputJpeg").active = q["inputJpeg"].active
      /\ ~q["inputJpeg"].active => Rest("inputJpeg").nodes = << >>
      /\ DJ \subseteq Rng(ToEncode) /\ Rng(Rest("inputJpeg").nodes) = Rng(ToEncode) \ DJ
      /\ Inj(Rest("inputJpeg").nodes)
  <2>1. /\ q["inputJpeg"] \in QueueOf(JpegJob) /\ q["inputJpeg"].nodes = ToEncode /\ Inj(ToEncode)
        /\ ~q["inputJpeg"].active => ToEncode = << >>
    BY QRead, Names DEF IInv, JpegPlaced, Queues, ToEncode
  <2>2. CASE CanDequeue(q["inputJpeg"])
    <3>1. /\ q["inputJpeg"].active /\ ToEncode # << >> /\ First(q["inputJpeg"]) = Head(ToEncode)
          /\ DequeueHead(q["inputJpeg"]) \in QueueOf(JpegJob) /\ DequeueHead(q["inputJpeg"]).active
          /\ DequeueHead(q["inputJpeg"]).nodes = Tail(ToEncode) /\ ToEncode \in Seq(JpegJob)
      BY <2>1, <2>2, DequeueIs
    <3>2. /\ Head(ToEncode) \in Rng(ToEncode)
          /\ Inj(Tail(ToEncode)) /\ Rng(Tail(ToEncode)) = Rng(ToEncode) \ {Head(ToEncode)}
      BY <2>1, <3>1, TailIs
    <3>3. q["inputJpeg"].active \in BOOLEAN /\ DequeueHead(q["inputJpeg"]).active \in BOOLEAN
      BY <2>1, <3>1 DEF QueueOf
    <3> QED
      BY <2>2, <3>1, <3>2, <3>3 DEF Gone, Rest
  <2>3. CASE ~CanDequeue(q["inputJpeg"])
    BY <2>1, <2>3 DEF Gone, Rest
  <2> QED
    BY <2>2, <2>3
<1>7. /\ Rest("inputRaw") \in QueueOf(Frame) /\ Rest("inputRaw").active = q["inputRaw"].active
      /\ ~q["inputRaw"].active => Rest("inputRaw").nodes = << >>
      /\ DW \subseteq Rng(Raws) /\ Rng(Rest("inputRaw").nodes) = Rng(Raws) \ DW
      /\ Inj(Rest("inputRaw").nodes)
  <2>1. /\ q["inputRaw"] \in QueueOf(Frame) /\ q["inputRaw"].nodes = Raws /\ Inj(Raws)
        /\ ~q["inputRaw"].active => Raws = << >>
    BY QRead, Names DEF IInv, JpegPlaced, Queues, Raws
  <2>2. CASE CanDequeue(q["inputRaw"])
    <3>1. /\ q["inputRaw"].active /\ Raws # << >> /\ First(q["inputRaw"]) = Head(Raws)
          /\ DequeueHead(q["inputRaw"]) \in QueueOf(Frame) /\ DequeueHead(q["inputRaw"]).active
          /\ DequeueHead(q["inputRaw"]).nodes = Tail(Raws) /\ Raws \in Seq(Frame)
      BY <2>1, <2>2, DequeueIs
    <3>2. /\ Head(Raws) \in Rng(Raws)
          /\ Inj(Tail(Raws)) /\ Rng(Tail(Raws)) = Rng(Raws) \ {Head(Raws)}
      BY <2>1, <3>1, TailIs
    <3>3. q["inputRaw"].active \in BOOLEAN /\ DequeueHead(q["inputRaw"]).active \in BOOLEAN
      BY <2>1, <3>1 DEF QueueOf
    <3> QED
      BY <2>2, <3>1, <3>2, <3>3 DEF Gone, Rest
  <2>3. CASE ~CanDequeue(q["inputRaw"])
    BY <2>1, <2>3 DEF Gone, Rest
  <2> QED
    BY <2>2, <2>3
<1>8. /\ Flush(q["inputPP"]) \in QueueOf(Blocks) /\ ~Flush(q["inputPP"]).active
      /\ Flush(q["inputPP"]).nodes = << >>
  <2>1. q["inputPP"] \in QueueOf(Blocks) /\ (~q["inputPP"].active => q["inputPP"].nodes = << >>)
    BY QRead, Names DEF IInv, Queues
  <2> QED
    BY <2>1 DEF QueueOf, Flush
<1>9. /\ q'["inputJpeg"] = Rest("inputJpeg") /\ q'["inputRaw"] = Rest("inputRaw")
      /\ q'["inputPP"] = Flush(q["inputPP"])
      /\ \A n \in QueueNames \ {"inputJpeg", "inputRaw", "inputPP"} : q'[n] = q[n]
      /\ q' = [n \in QueueNames |-> q'[n]]
  <2>1. q = [n \in QueueNames |-> q[n]]
    BY <1>2, QRead
  <2> QED
    BY <1>3, <2>1, Names
<1>10. QShape'
  <2>1. \A n \in QueueNames : q[n] \in QueueOf(DataOf(n))
    BY <1>2 DEF QShape, DataOf, QueueNames, PPQueues, JpegQueues
  <2>2. \A n \in QueueNames : q'[n] \in QueueOf(DataOf(n))
    BY <1>6, <1>7, <1>8, <1>9, <2>1, DataIs
  <2> QED
    BY <1>9, <2>2, QNow
<1>11. /\ Waiting' = << >> /\ UNCHANGED <<Ongoing, Encoding>>
       /\ Rng(ToEncode') = Rng(ToEncode) \ DJ /\ Inj(ToEncode')
       /\ Rng(Raws') = Rng(Raws) \ DW /\ Inj(Raws')
  BY <1>6, <1>7, <1>8, <1>9, Names DEF Waiting, Ongoing, ToEncode, Encoding, Raws
<1>12. FShape'
  <2>1. mem' \in [Blocks -> PPJob]
    BY <1>2, <1>3, ClearedIs
  <2>2. done' \in [Frame -> Nat]
    BY <1>2, <1>3, DoneIs DEF FShape
  <2>3. alloc' \subseteq Blocks
    BY <1>2, <1>3 DEF FShape
  <2> QED
    BY <1>1, <1>2, <2>1, <2>2, <2>3 DEF FShape
<1>13. Queues'
  <2>1. \A n \in QueueNames : n # "inputPP" => q'[n].active = q[n].active
    BY <1>6, <1>7, <1>9
  <2>2. \A n \in QueueNames : ~q'[n].active => q'[n].nodes = << >>
    BY <1>6, <1>7, <1>8, <1>9 DEF IInv, Queues
  <2>3. \A n \in Opened \cup {"ongoingJpeg"} : Closed(n) => Closed(n)'
    <3>1. Opened \cup {"ongoingJpeg"} \subseteq QueueNames
      BY DEF Opened, QueueNames, PPQueues, JpegQueues
    <3> QED
      BY <1>8, <1>9, <1>11, <2>1, <3>1 DEF Closed
  <2>4. OffNow' = OffNow /\ HeldCbs' = HeldCbs
    BY <1>1 DEF OffNow, HeldCbs
  <2>5. q'["ongoingJpeg"].active
    BY <2>1, Names DEF IInv, Queues
  <2> QED
    BY <1>1, <1>2, <1>11, <2>2, <2>3, <2>4, <2>5 DEF IInv, Queues
<1>14. Placed' /\ Memory' /\ Asked' /\ \A a \in alloc' : mem'[a] = mem[a]
  <2>1. mem' = Cleared(Rng(Waiting)) /\ alloc' = alloc \ Rng(Waiting)
    BY <1>3, <1>5
  <2>2. OngoingGone => OngoingGone'
    BY <1>1 DEF OngoingGone, Left
  <2>3. dpc # "ask"
    BY <1>2
  <2> QED
    BY <1>1, <1>11, <2>1, <2>2, <2>3, WaitingGone
<1>15. JpegPlaced'
  BY <1>1, <1>11 DEF IInv, JpegPlaced
<1>16. Accounted'
  <2>0. HeldCbs' = HeldCbs
    BY <1>1 DEF HeldCbs
  <2>1. /\ Rng(Waiting) \in SUBSET alloc /\ DJ \in SUBSET (Rng(ToEncode) \cup Rng(Encoding))
        /\ DW \in SUBSET Rng(Raws)
    BY <1>6, <1>7 DEF IInv, Placed
  <2>2. \A a \in alloc \ Rng(Waiting) : Two(mem'[a]) = Two(mem[a])
    BY <1>3, <1>5, <1>14
  <2> HIDE DEF gone, DJ, DW
  <2>3. Fit(alloc \ Rng(Waiting), (Rng(ToEncode) \cup Rng(Encoding)) \ DJ, Rng(Raws) \ DW, HeldCbs,
            mem', cb, seen \ orphans, Plus(done, Freed(mem, Rng(Waiting), DJ, DW)))
    BY <2>1, <2>2, FitRelease DEF IInv, Accounted
  <2>4. done' = Plus(done, Freed(mem, Rng(Waiting), DJ, DW))
    <3>1. {PPFrames(a) : a \in gone} = {Two(mem[a]) : a \in Rng(Waiting)}
      BY <1>2, <1>5, ClearedIs
    <3>2. (UNION {JpegFrames(j) : j \in DJ}) \cup DW \cup (UNION {PPFrames(a) : a \in gone})
            = Freed(mem, Rng(Waiting), DJ, DW)
      BY <3>1 DEF Freed
    <3> QED
      BY <1>3, <3>2, DoneIs
  <2>5. (Rng(ToEncode) \cup Rng(Encoding)) \ DJ = Rng(ToEncode') \cup Rng(Encoding')
    BY <1>6, <1>11 DEF IInv, JpegPlaced
  <2>6. alloc' = alloc \ Rng(Waiting)
    BY <1>3, <1>5
  <2> QED
    BY <1>1, <1>11, <2>0, <2>3, <2>4, <2>5, <2>6 DEF Accounted
<1> QED
  BY <1>4, <1>10, <1>12, <1>13, <1>14, <1>15, <1>16 DEF IInv

\* The next pp job becomes an ongoing one.
LEMMA DReprocKeeps ==
  ASSUME IInv, DReproc
  PROVE  IInv'
<1>1. UNCHANGED <<world, alloc, isActive, flushing, dBox, sBox, saveActive, sm, running,
                  sessions, src, cb, hw, encoder, nextId, evts, seen, done, orphans, answers>>
  BY DEF DReproc, DUnchanged
<1>2. dpc = "reproc" /\ DUnchanged /\ isActive /\ running /\ FShape /\ QShape
  BY DEF DReproc, IInv, Control, Working
<1>3. CASE UNCHANGED <<q, mem, hand>> /\ dpc' = "idle"
  <2>1. DShape' /\ Control'
    BY <1>1, <1>2, <1>3, DKept DEF Working, IInv, DShape
  <2>2. QShape' /\ UNCHANGED <<Waiting, Ongoing, ToEncode, Encoding, Raws>>
    BY <1>3, QSame DEF IInv
  <2>3. SameFrames
    BY <1>1, <1>3, <2>2 DEF SameFrames
  <2>4. Queues'
    BY <1>1, <1>2, <1>3, <2>2, SteadySame, QueuesKept
  <2>5. (Placed /\ JpegPlaced /\ Memory /\ Asked /\ Accounted)'
    BY <1>1, <1>2, <1>3, <2>3, FramesSame DEF OngoingGone
  <2>6. FShape'
    BY <1>1, <1>2, <1>3 DEF FShape
  <2> QED
    BY <2>1, <2>2, <2>4, <2>5, <2>6 DEF IInv
<1>4. ASSUME CanDequeue(q["inputPP"]), NEW a, a = First(q["inputPP"]),
             q' = [q EXCEPT !["inputPP"] = DequeueHead(@), !["ongoingPP"] = Enqueue(@, a)],
             mem' = [mem EXCEPT ![a].count = @ + 1], hand' = a, dpc' = "ask"
      PROVE  IInv'
  <2>0. q["ongoingPP"].active
    BY <1>2 DEF IInv, Queues, Opened
  <2>1. /\ QShape' /\ Steady /\ UNCHANGED <<ToEncode, Encoding, Raws>> /\ a = Head(Waiting)
        /\ Waiting \in Seq(Blocks) /\ Waiting # << >> /\ Ongoing \in Seq(Blocks)
        /\ Waiting' = Tail(Waiting) /\ Ongoing' = Append(Ongoing, a)
    <3>1. /\ "inputPP" \in QueueNames /\ "ongoingPP" \in QueueNames
          /\ DataOf("inputPP") = Blocks /\ DataOf("ongoingPP") = Blocks
          /\ "inputPP" # "ongoingPP"
      BY Names, DataIs
    <3>2. q' = [q EXCEPT !["inputPP"] = DequeueHead(@), !["ongoingPP"] = Enqueue(@, First(q["inputPP"]))]
      BY <1>4
    <3>3. /\ QShape' /\ Steady
          /\ \A n \in QueueNames \ {"inputPP", "ongoingPP"} : q'[n] = q[n]
          /\ Waiting \in Seq(Blocks) /\ Waiting # << >> /\ Ongoing \in Seq(Blocks)
          /\ First(q["inputPP"]) = Head(Waiting)
          /\ q'["inputPP"].nodes = Tail(Waiting) /\ q'["ongoingPP"].nodes = Append(Ongoing, Head(Waiting))
      BY <1>4, <2>0, <3>1, <3>2, QMove DEF Waiting, Ongoing
    <3> QED
      BY <1>4, <3>3, Names DEF Waiting, Ongoing, ToEncode, Encoding, Raws
  <2>2. /\ a \in Blocks /\ a \in Rng(Waiting)
        /\ Rng(Waiting') = Rng(Waiting) \ {a} /\ Inj(Waiting')
    BY <2>1, TailIs DEF IInv, Placed
  <2>3. a \notin Rng(Ongoing) /\ a \in alloc /\ a \notin HeldJobs
    BY <2>2 DEF IInv, Placed, HeldJobs
  <2>4. /\ Len(Ongoing') = Len(Ongoing) + 1 /\ Ongoing'[Len(Ongoing) + 1] = a
        /\ Rng(Ongoing') = Rng(Ongoing) \cup {a} /\ Inj(Ongoing')
    BY <2>1, <2>2, <2>3, AppendIs DEF IInv, Placed
  <2>5. /\ mem[a].src \in Frame /\ mem[a].reproc \in Frame /\ mem[a].reproc.pass = 0
        /\ mem[a].count < world.passes
        /\ mem[a].src = mem[a].reproc <=> mem[a].count = 0
        /\ mem[a] \in PPJob /\ mem \in [Blocks -> PPJob] /\ world.passes \in 0 .. 2
    BY <1>2, <2>2, <2>3, WorldsAssumption DEF IInv, Memory, FShape, World
  <2>6. /\ mem' \in [Blocks -> PPJob] /\ \A b \in Blocks : b # a => mem'[b] = mem[b]
        /\ mem'[a].src = mem[a].src /\ mem'[a].reproc = mem[a].reproc /\ mem'[a].count = mem[a].count + 1
    <3>1. mem[a].count + 1 \in 0 .. 3
      BY <2>5 DEF PPJob
    <3>2. [mem[a] EXCEPT !.count = @ + 1] \in PPJob
      BY <2>5, <3>1 DEF PPJob
    <3> QED
      BY <1>4, <2>2, <2>5, <3>2 DEF PPJob
  <2>7. \A b \in Blocks : Two(mem'[b]) = Two(mem[b]) /\ mem'[b].src = mem[b].src
    BY <2>2, <2>6 DEF Two
  <2>8. HeldCbs' = HeldCbs /\ HeldJobs' = HeldJobs /\ Outs' = Outs
    BY <1>1 DEF HeldCbs, HeldJobs, Outs
  <2>9. DShape' /\ Control'
    BY <1>1, <1>2, <1>4, <2>2, DKept DEF Working
  <2>10. FShape'
    BY <1>1, <1>2, <1>4, <2>6 DEF FShape
  <2>11. Queues'
    BY <1>1, <1>2, <1>4, <2>1, QueuesKept
  <2>12. Placed'
    <3>1. \A c \in HeldCbs : cb[c].job \in HeldJobs
      BY DEF HeldJobs
    <3> QED
      BY <1>1, <2>2, <2>3, <2>4, <2>8, <3>1 DEF IInv, Placed
  <2>13. JpegPlaced'
    BY <1>2, <1>4, <2>1, JpegSame
  <2>14. Memory'
    <3>1. ASSUME NEW b \in alloc, b # a
          PROVE  mem'[b] = mem[b] /\ (b \in Rng(Waiting') <=> b \in Rng(Waiting))
      BY <1>2, <2>2, <2>6, <3>1 DEF FShape
    <3>2. a \notin Rng(Waiting')
      BY <2>2
    <3>3. mem'[a].count \in 1 .. world.passes /\ (mem'[a].count = 1 <=> mem[a].count = 0)
      BY <2>5, <2>6 DEF PPJob
    <3>4. Memory
      BY DEF IInv
    <3> QED
      BY <1>1, <2>5, <2>6, <3>1, <3>2, <3>3, <3>4 DEF Memory
  <2>15. Asked'
    <3>1. ~OngoingGone /\ ~OngoingGone'
      BY <1>1, <1>2, <1>4 DEF OngoingGone, IInv, Control
    <3>2. Len(Ongoing) = Len(hw)
      BY <1>2, <3>1 DEF IInv, Asked, FShape
    <3>3. Len(Ongoing') = Len(hw) + 1
      BY <2>4, <3>2
    <3>4. \A f \in Frame : Unasked(f)' => Unasked(f)
      <4>1. \A b \in Rng(Waiting') : b \in Rng(Waiting) /\ b \in Blocks
        BY <1>2, <2>2 DEF IInv, Placed, FShape
      <4> QED
        BY <1>1, <1>4, <2>2, <2>7, <2>8, <4>1 DEF Unasked
    <3>5. hand' = Ongoing'[Len(Ongoing')]
      BY <1>4, <2>4
    <3> QED
      BY <1>1, <1>4, <2>8, <3>1, <3>3, <3>4, <3>5 DEF IInv, Asked
  <2>16. Accounted'
    <3>1. \A b \in alloc : Two(mem'[b]) = Two(mem[b])
      BY <1>2, <2>7 DEF FShape
    <3>2. Fit(alloc, Rng(ToEncode) \cup Rng(Encoding), Rng(Raws), HeldCbs, mem', cb, seen \ orphans, done)
      BY <3>1, FitSame DEF IInv, Accounted
    <3> QED
      BY <1>1, <2>1, <2>8, <3>2 DEF Accounted
  <2> QED
    BY <2>1, <2>9, <2>10, <2>11, <2>12, <2>13, <2>14, <2>15, <2>16 DEF IInv
<1> QED
  BY <1>3, <1>4 DEF DReproc

\* D asks the job's channel for the output.
LEMMA DAskKeeps ==
  ASSUME IInv, DAsk
  PROVE  IInv'
<1> DEFINE f == mem[hand].src
           h == [chan |-> mem[hand].chan, out |-> Later(f)]
<1>1. UNCHANGED <<world, q, mem, alloc, isActive, flushing, dBox, sBox, saveActive, sm, running,
                  sessions, src, cb, encoder, nextId, evts, seen, done, orphans, answers>>
  BY DEF DAsk, DUnchanged, queueVars
<1>2. /\ dpc = "ask" /\ dpc' = "idle" /\ hand' = 0 /\ DUnchanged /\ isActive /\ running /\ FShape
      /\ QShape /\ f.pass < MaxPass
  BY DEF DAsk, IInv, Control, Working
<1>3. hw' = Append(hw, h)
  BY DEF DAsk, Later
<1>4. QShape' /\ UNCHANGED <<Waiting, Ongoing, ToEncode, Encoding, Raws>>
  BY <1>1, QSame DEF IInv
<1>5. ~OngoingGone /\ ~OngoingGone'
  BY <1>1, <1>2 DEF OngoingGone, IInv, Control
<1>6. hand \in Rng(Ongoing) /\ hand \in alloc /\ hand \in Blocks /\ Len(Ongoing) = Len(hw) + 1
  <2>1. hand = Ongoing[Len(Ongoing)] /\ Len(Ongoing) = Len(hw) + 1
    BY <1>2, <1>5 DEF IInv, Asked
  <2>2. Ongoing \in Seq(Blocks) /\ Ongoing # << >>
    BY <1>2, <2>1, QRead DEF FShape
  <2>3. hand \in Rng(Ongoing)
    BY <2>1, <2>2, FrontIs
  <2> QED
    BY <1>2, <2>1, <2>3 DEF IInv, Placed, FShape
<1>7. f \in Frame /\ mem[hand].chan \in Channels
  BY <1>2, <1>6 DEF IInv, Memory, FShape, PPJob
<1>8. f \in Two(mem[hand]) /\ f # NoFrame
  BY <1>7, FramesAre DEF Two
<1>9. h \in [chan : Channels, out : Outputs] /\ hw \in Seq([chan : Channels, out : Outputs])
  BY <1>2, <1>7, FramesAre DEF FShape
<1>10. f \in seen /\ Unasked(f)
  <2>1. Two(mem[hand]) \subseteq seen \ orphans
    BY <1>6, FitSays DEF IInv, Accounted
  <2> QED
    BY <1>2, <1>8, <2>1 DEF Unasked
<1>11. Later(f) \notin seen /\ Later(f) \notin Outs
  BY <1>7, <1>10 DEF IInv, Asked
<1>12. h.out = Later(f)
  OBVIOUS
<1> HIDE DEF f, h
<1>13. /\ hw' \in Seq([chan : Channels, out : Outputs]) /\ Len(hw') = Len(hw) + 1
       /\ hw'[Len(hw) + 1] = h /\ \A i \in 1 .. Len(hw) : hw'[i] = hw[i]
  BY <1>3, <1>9, AppendIs
<1>14. Outs' = Outs \cup {Later(f)}
  <2>1. \A i \in 1 .. Len(hw') : i \in 1 .. Len(hw) \/ i = Len(hw) + 1
    BY <1>2, <1>13 DEF FShape
  <2>2. Len(hw) + 1 \in 1 .. Len(hw') /\ 1 .. Len(hw) \subseteq 1 .. Len(hw')
    BY <1>2, <1>13 DEF FShape
  <2> QED
    BY <1>12, <1>13, <2>1, <2>2 DEF Outs
<1>15. DShape' /\ Control'
  BY <1>1, <1>2, DKept DEF Working, IInv, DShape
<1>16. FShape'
  BY <1>1, <1>2, <1>13 DEF FShape
<1>17. Queues'
  BY <1>1, <1>2, <1>4, SteadySame, QueuesKept
<1>18. Placed' /\ Memory' /\ HeldCbs' = HeldCbs
  BY <1>1, <1>4, PPSame
<1>19. JpegPlaced'
  BY <1>2, <1>4, JpegSame
<1>20. Asked'
  <2>1. \A g \in Frame : Unasked(g)' => Unasked(g) /\ g # f
    <3>1. ASSUME NEW g \in Frame, Unasked(g)' PROVE Unasked(g) /\ g # f
      <4>1. CASE \E a \in Rng(Waiting) : mem[a].src = g
        <5>1. PICK a \in Rng(Waiting) : mem[a].src = g
          BY <4>1
        <5>2. a \in alloc /\ a # hand /\ g \in Two(mem[a])
          BY <1>6, <3>1, <5>1, FramesAre DEF IInv, Placed, Two
        <5>3. Two(mem[a]) \cap Two(mem[hand]) = {}
          BY <1>6, <5>2, FitSays DEF IInv, Accounted
        <5> QED
          BY <1>8, <4>1, <5>2, <5>3 DEF Unasked
      <4>2. CASE \E c \in HeldCbs : cb[c].frame = g
        <5>1. \A c \in HeldCbs : cb[c].frame \notin Two(mem[hand])
          BY <1>6, FitSays DEF IInv, Accounted
        <5> QED
          BY <1>8, <4>2, <5>1 DEF Unasked
      <4>3. (\E a \in Rng(Waiting) : mem[a].src = g) \/ (\E c \in HeldCbs : cb[c].frame = g)
        BY <1>1, <1>2, <1>4, <1>18, <3>1 DEF Unasked
      <4> QED
        BY <4>1, <4>2, <4>3
    <3> QED
      BY <3>1
  <2>2. \A g \in Frame : Later(g) \in seen' \cup Outs' => g \in seen' /\ ~Unasked(g)'
    <3>1. ASSUME NEW g \in Frame, Later(g) \in seen' \cup Outs' PROVE g \in seen' /\ ~Unasked(g)'
      <4>1. CASE g = f
        BY <1>1, <1>10, <2>1, <4>1
      <4>2. CASE g # f
        <5>1. Later(g) \in seen \cup Outs
          BY <1>1, <1>7, <1>14, <3>1, <4>2, FramesAre
        <5> QED
          BY <1>1, <2>1, <5>1 DEF IInv, Asked
      <4> QED
        BY <4>1, <4>2
    <3> QED
      BY <3>1
  <2>3. \A i, j \in 1 .. Len(hw') : hw'[i].out = hw'[j].out => i = j
    <3>1. \A i \in 1 .. Len(hw') : i \in 1 .. Len(hw) \/ i = Len(hw) + 1
      BY <1>2, <1>13 DEF FShape
    <3>2. \A i \in 1 .. Len(hw) : hw[i].out \in Outs
      BY DEF Outs
    <3> QED
      BY <1>11, <1>12, <1>13, <3>1, <3>2 DEF IInv, Asked
  <2>4. Outs' \cap seen' = {}
    BY <1>1, <1>11, <1>14 DEF IInv, Asked
  <2>5. Len(Ongoing') = Len(hw') + 0
    BY <1>2, <1>4, <1>6, <1>13 DEF FShape
  <2>6. dpc' # "ask" /\ (orphans' # {} => sm' \in {"stop", "delete"})
    BY <1>1, <1>2 DEF IInv, Asked
  <2> QED
    BY <2>2, <2>3, <2>4, <2>5, <2>6 DEF Asked
<1>21. Accounted'
  BY <1>1, <1>4, <1>18 DEF IInv, Accounted
<1> QED
  BY <1>4, <1>15, <1>16, <1>17, <1>18, <1>19, <1>20, <1>21 DEF IInv

-----------------------------------------------------------------------------
(* The queues that STOP flushes.                                           *)

\* The queues are flushed in their order.
LEMMA FlushIs ==
  ASSUME flushing \in FlushLeft, flushing # << >>
  PROVE  /\ Tail(flushing) \in FlushLeft /\ Head(flushing) \in Opened \cup {"ongoingJpeg"}
         /\ Rng(flushing) = Rng(Tail(flushing)) \cup {Head(flushing)}
         /\ Head(flushing) = "ongoingPP" => "ongoingPP" \notin Rng(Tail(flushing))
<1>0. /\ "ongoingJpeg" \in Opened \cup {"ongoingJpeg"} /\ "ongoingPP" \in Opened \cup {"ongoingJpeg"}
      /\ "inputJpeg" \in Opened \cup {"ongoingJpeg"} /\ "inputPP" \in Opened \cup {"ongoingJpeg"}
      /\ "inputRaw" \in Opened \cup {"ongoingJpeg"}
  BY DEF Opened
<1>1. /\ flushing \in Seq(Opened \cup {"ongoingJpeg"}) /\ Tail(flushing) \in FlushLeft
      /\ Head(flushing) = "ongoingPP" => Tail(flushing) = <<"inputJpeg", "inputPP", "inputRaw">>
  <2>1. CASE flushing = <<"ongoingJpeg", "ongoingPP", "inputJpeg", "inputPP", "inputRaw">>
    <3>1. Tail(flushing) = <<"ongoingPP", "inputJpeg", "inputPP", "inputRaw">>
      BY <2>1
    <3> QED
      BY <1>0, <2>1, <3>1 DEF FlushLeft
  <2>2. CASE flushing = <<"ongoingPP", "inputJpeg", "inputPP", "inputRaw">>
    <3>1. Tail(flushing) = <<"inputJpeg", "inputPP", "inputRaw">>
      BY <2>2
    <3> QED
      BY <1>0, <2>2, <3>1 DEF FlushLeft
  <2>3. CASE flushing = <<"inputJpeg", "inputPP", "inputRaw">>
    <3>1. Tail(flushing) = <<"inputPP", "inputRaw">>
      BY <2>3
    <3> QED
      BY <1>0, <2>3, <3>1 DEF FlushLeft
  <2>4. CASE flushing = <<"inputPP", "inputRaw">>
    <3>1. Tail(flushing) = <<"inputRaw">>
      BY <2>4
    <3> QED
      BY <1>0, <2>4, <3>1 DEF FlushLeft
  <2>5. CASE flushing = <<"inputRaw">>
    <3>1. Tail(flushing) = << >>
      BY <2>5
    <3> QED
      BY <1>0, <2>5, <3>1 DEF FlushLeft
  <2> QED
    BY <2>1, <2>2, <2>3, <2>4, <2>5 DEF FlushLeft
<1>2. /\ Rng(flushing) = Rng(Tail(flushing)) \cup {Head(flushing)}
      /\ Head(flushing) \in Opened \cup {"ongoingJpeg"}
  BY <1>1, TailIs
<1>3. "ongoingPP" \notin Rng(<<"inputJpeg", "inputPP", "inputRaw">>)
  <2>1. \A i \in 1 .. 3 : <<"inputJpeg", "inputPP", "inputRaw">>[i] # "ongoingPP"
    OBVIOUS
  <2>2. Len(<<"inputJpeg", "inputPP", "inputRaw">>) = 3
    OBVIOUS
  <2> QED
    BY <2>1, <2>2 DEF Rng
<1> QED
  BY <1>1, <1>2, <1>3

\* A queue that is not active has nothing to release.
LEMMA FlushedFrames ==
  ASSUME IInv, NEW n \in QueueNames
  PROVE  (IF q[n].active THEN DoneWith(FramesOn(n)) ELSE done) = Plus(done, FramesOn(n))
<1>1. CASE q[n].active
  BY <1>1, DoneIs
<1>2. CASE ~q[n].active
  <2>1. Items(n) = {}
    BY <1>2 DEF IInv, Queues, Items
  <2>2. FramesOn(n) = {}
    BY <2>1 DEF FramesOn
  <2> QED
    BY <1>2, <2>2, PlusNone DEF IInv, FShape
<1> QED
  BY <1>1, <1>2

\* What flush() releases of each queue.
LEMMA FramesOnAre ==
  ASSUME FShape
  PROVE  /\ FramesOn("inputPP") = UNION {Two(mem[a]) : a \in Rng(Waiting)}
         /\ FramesOn("ongoingPP") = UNION {Two(mem[a]) : a \in Rng(Ongoing)}
         /\ FramesOn("inputJpeg") = UNION {JpegFrames(j) : j \in Rng(ToEncode)}
         /\ FramesOn("ongoingJpeg") = UNION {JpegFrames(j) : j \in Rng(Encoding)}
         /\ FramesOn("inputRaw") = Rng(Raws)
         /\ BlocksOn("inputPP") = Rng(Waiting) /\ BlocksOn("ongoingPP") = Rng(Ongoing)
         /\ BlocksOn("inputJpeg") = {} /\ BlocksOn("ongoingJpeg") = {} /\ BlocksOn("inputRaw") = {}
<1>1. \A S : {PPFrames(a) : a \in S} = {Two(mem[a]) : a \in S}
  BY ClearedIs
<1>2. /\ "inputJpeg" \notin PPQueues /\ "ongoingJpeg" \notin PPQueues
      /\ "inputRaw" \notin PPQueues /\ "inputRaw" \notin JpegQueues
  BY DEF PPQueues, JpegQueues
<1>3. /\ FramesOn("inputPP") = UNION {PPFrames(a) : a \in Items("inputPP")}
      /\ FramesOn("ongoingPP") = UNION {PPFrames(a) : a \in Items("ongoingPP")}
  <2>1. \A n \in PPQueues : n \notin JpegQueues /\ n # "inputRaw"
    BY DEF PPQueues, JpegQueues
  <2> QED
    BY <2>1, Names DEF FramesOn
<1>4. /\ FramesOn("inputJpeg") = UNION {JpegFrames(j) : j \in Items("inputJpeg")}
      /\ FramesOn("ongoingJpeg") = UNION {JpegFrames(j) : j \in Items("ongoingJpeg")}
      /\ FramesOn("inputRaw") = Items("inputRaw")
  BY <1>2, Names DEF FramesOn
<1>5. /\ BlocksOn("inputPP") = Items("inputPP") /\ BlocksOn("ongoingPP") = Items("ongoingPP")
      /\ BlocksOn("inputJpeg") = {} /\ BlocksOn("ongoingJpeg") = {} /\ BlocksOn("inputRaw") = {}
  BY <1>2, Names DEF BlocksOn
<1> QED
  BY <1>1, <1>3, <1>4, <1>5, ItemsAre

\* STOP flushes the next queue.
LEMMA DFlushKeeps ==
  ASSUME IInv, DFlush
  PROVE  IInv'
<1> DEFINE n == Head(flushing)
           v == IF n = "ongoingJpeg" THEN NewQueue ELSE Flush(q[n])
<1>1. UNCHANGED <<world, isActive, dpc, hand, dBox, sBox, saveActive, sm, running,
                  sessions, src, cb, hw, nextId, evts, seen, orphans, answers>>
  BY DEF DFlush, DUnchanged
<1>2. /\ dpc = "flush" /\ flushing # << >> /\ flushing' = Tail(flushing)
      /\ q' = [q EXCEPT ![n] = v] /\ mem' = Cleared(BlocksOn(n)) /\ alloc' = alloc \ BlocksOn(n)
      /\ encoder' \subseteq encoder
      /\ done' = (IF q[n].active THEN DoneWith(FramesOn(n)) ELSE done)
      /\ FShape /\ QShape
  BY DEF DFlush, IInv
<1>3. /\ flushing' \in FlushLeft /\ n \in Opened \cup {"ongoingJpeg"} /\ Left = Left' \cup {n}
      /\ n = "ongoingPP" => "ongoingPP" \notin Left'
  BY <1>2, FlushIs DEF IInv, DShape, Left
<1>4. n \in QueueNames /\ sm = "stop" /\ running /\ ~isActive
  BY <1>2, <1>3, Names DEF IInv, Control, Opened
<1>5. done' = Plus(done, FramesOn(n)) /\ done' \in [Frame -> Nat]
  <2>1. done' = Plus(done, FramesOn(n))
    BY <1>2, <1>4, FlushedFrames
  <2> QED
    BY <1>2, <2>1, DoneIs DEF FShape
<1>6. /\ v \in QueueOf(DataOf(n)) /\ v.nodes = << >> /\ (n # "ongoingJpeg" => ~v.active)
      /\ n = "ongoingJpeg" => v.active
  <2> DEFINE D == DataOf(n)
  <2>1. q[n] \in QueueOf(D) /\ (~q[n].active => q[n].nodes = << >>)
    BY <1>4 DEF IInv, QShape, Queues, DataOf, QueueNames, PPQueues, JpegQueues
  <2> HIDE DEF D
  <2>2. << >> \in Seq(D)
    OBVIOUS
  <2>3. v \in QueueOf(D) /\ v.nodes = << >> /\ (n # "ongoingJpeg" => ~v.active)
        /\ (n = "ongoingJpeg" => v.active)
    BY <2>1, <2>2 DEF QueueOf, Flush, NewQueue
  <2> QED
    BY <2>3 DEF D
<1> HIDE DEF v
<1>7. /\ QShape' /\ q'[n] = v /\ \A l \in QueueNames : l # n => q'[l] = q[l]
      /\ Waiting' = (IF n = "inputPP" THEN << >> ELSE Waiting)
      /\ Ongoing' = (IF n = "ongoingPP" THEN << >> ELSE Ongoing)
      /\ ToEncode' = (IF n = "inputJpeg" THEN << >> ELSE ToEncode)
      /\ Encoding' = (IF n = "ongoingJpeg" THEN << >> ELSE Encoding)
      /\ Raws' = (IF n = "inputRaw" THEN << >> ELSE Raws)
  BY <1>2, <1>4, <1>6, QSet
<1> HIDE DEF n
<1>8. DShape'
  BY <1>1, <1>3 DEF IInv, DShape
<1>9. FShape'
  <2>1. mem' \in [Blocks -> PPJob]
    BY <1>2, ClearedIs
  <2>2. alloc' \subseteq Blocks
    BY <1>2 DEF FShape
  <2> QED
    BY <1>1, <1>2, <1>5, <2>1, <2>2 DEF FShape
<1>10. Control'
  BY <1>1, <1>2 DEF IInv, Control
<1>11. Queues'
  <2>1. \A l \in QueueNames : ~q'[l].active => q'[l].nodes = << >>
    BY <1>6, <1>7 DEF IInv, Queues
  <2>2. \A l \in (Opened \cup {"ongoingJpeg"}) \ Left' : Closed(l)'
    <3>1. ASSUME NEW l \in (Opened \cup {"ongoingJpeg"}) \ Left' PROVE Closed(l)'
      <4>1. CASE l = n
        BY <1>6, <1>7, <4>1 DEF Closed
      <4>2. CASE l # n
        <5>1. l \in QueueNames /\ Closed(l)
          BY <1>2, <1>3, <3>1, <4>2, Names DEF IInv, Queues, Opened
        <5> QED
          BY <1>7, <4>2, <5>1 DEF Closed
      <4> QED
        BY <4>1, <4>2
    <3> QED
      BY <3>1
  <2>3. q'["ongoingJpeg"].active
    BY <1>6, <1>7, Names DEF IInv, Queues
  <2>4. ~OffNow'
    BY <1>1, <1>4 DEF OffNow
  <2> QED
    BY <1>1, <1>4, <2>1, <2>2, <2>3, <2>4 DEF IInv, Queues
<1>12. JpegPlaced'
  <2>1. Inj(<< >>) /\ Rng(<< >>) = {}
    BY DEF Inj, Rng
  <2> QED
    BY <1>1, <1>2, <1>7, <2>1 DEF IInv, JpegPlaced
<1>13. OngoingGone => OngoingGone'
  BY <1>1, <1>3 DEF OngoingGone
<1>14. Rng(<< >>) = {} /\ HeldCbs' = HeldCbs
  BY <1>1 DEF Rng, HeldCbs
<1>15. Fit(alloc, Rng(ToEncode) \cup Rng(Encoding), Rng(Raws), HeldCbs, mem, cb, seen \ orphans, done)
  BY DEF IInv, Accounted
<1>16. CASE n \in {"inputPP", "ongoingPP"}
  <2> DEFINE S == BlocksOn(n)
  <2>1. UNCHANGED <<ToEncode, Encoding, Raws>>
    BY <1>7, <1>16
  <2>2. /\ Placed' /\ Memory' /\ Asked' /\ \A a \in alloc' : mem'[a] = mem[a]
        /\ S \in SUBSET alloc /\ FramesOn(n) = UNION {Two(mem[a]) : a \in S}
    <3>1. CASE n = "inputPP"
      <4>1. S = Rng(Waiting) /\ FramesOn(n) = UNION {Two(mem[a]) : a \in S}
        BY <1>2, <3>1, FramesOnAre
      <4>2. Waiting' = << >> /\ Ongoing' = Ongoing /\ dpc # "ask"
        BY <1>2, <1>7, <3>1
      <4>3. Placed' /\ Memory' /\ Asked' /\ \A a \in alloc' : mem'[a] = mem[a]
        BY <1>1, <1>2, <1>13, <4>1, <4>2, WaitingGone
      <4> QED
        BY <4>1, <4>3 DEF IInv, Placed
    <3>2. CASE n = "ongoingPP"
      <4>1. S = Rng(Ongoing) /\ FramesOn(n) = UNION {Two(mem[a]) : a \in S}
        BY <1>2, <3>2, FramesOnAre
      <4>2. Ongoing' = << >> /\ Waiting' = Waiting /\ dpc # "ask"
        BY <1>2, <1>7, <3>2
      <4>3. OngoingGone'
        BY <1>1, <1>2, <1>3, <3>2 DEF OngoingGone
      <4>4. Placed' /\ Memory' /\ Asked' /\ \A a \in alloc' : mem'[a] = mem[a]
        BY <1>1, <1>2, <4>1, <4>2, <4>3, OngoingFlushed
      <4> QED
        BY <4>1, <4>4 DEF IInv, Placed
    <3> QED
      BY <1>16, <3>1, <3>2
  <2>3. alloc' = alloc \ S
    BY <1>2
  <2> HIDE DEF S
  <2>4. Fit(alloc \ S, Rng(ToEncode) \cup Rng(Encoding), Rng(Raws), HeldCbs, mem', cb, seen \ orphans,
            Plus(done, UNION {Two(mem[a]) : a \in S}))
    <3>1. \A a \in alloc \ S : Two(mem'[a]) = Two(mem[a])
      BY <2>2, <2>3
    <3> QED
      BY <1>15, <2>2, <3>1, FitReleases
  <2>5. Accounted'
    BY <1>1, <1>5, <1>14, <2>1, <2>2, <2>3, <2>4 DEF Accounted
  <2> QED
    BY <1>7, <1>8, <1>9, <1>10, <1>11, <1>12, <2>2, <2>5 DEF IInv
<1>17. CASE n \notin {"inputPP", "ongoingPP"}
  <2>1. n \in {"inputJpeg", "ongoingJpeg", "inputRaw"}
    BY <1>3, <1>17 DEF Opened
  <2>2. BlocksOn(n) = {} /\ UNCHANGED <<Waiting, Ongoing>>
    BY <1>2, <1>7, <1>17, <2>1, FramesOnAre
  <2>3. UNCHANGED <<mem, alloc>>
    <3>1. mem' = Cleared({}) /\ mem \in [Blocks -> PPJob]
      BY <1>2, <2>2 DEF FShape
    <3> QED
      BY <1>2, <2>2, <3>1 DEF Cleared
  <2>4. Placed' /\ Memory'
    BY <1>1, <2>2, <2>3, PPSame
  <2>5. Asked'
    BY <1>1, <1>13, <2>2, <2>3, AskedSame DEF IInv, Asked
  <2>6. Accounted'
    <3>1. CASE n = "inputRaw"
      <4>1. FramesOn(n) = Rng(Raws) /\ Rng(Raws') = {} /\ UNCHANGED <<ToEncode, Encoding>>
        BY <1>2, <1>7, <1>14, <3>1, FramesOnAre
      <4>2. Rng(Raws) \in SUBSET Rng(Raws) /\ Rng(Raws) \ Rng(Raws) = {}
        OBVIOUS
      <4>3. Fit(alloc, Rng(ToEncode) \cup Rng(Encoding), {}, HeldCbs, mem, cb, seen \ orphans,
                Plus(done, Rng(Raws)))
        BY <1>15, <4>2, FitReleases
      <4> QED
        BY <1>1, <1>5, <1>14, <2>3, <4>1, <4>3 DEF Accounted
    <3>2. CASE n \in {"inputJpeg", "ongoingJpeg"}
      <4> DEFINE DJ == IF n = "inputJpeg" THEN Rng(ToEncode) ELSE Rng(Encoding)
      <4>1. FramesOn(n) = UNION {JpegFrames(j) : j \in DJ} /\ Raws' = Raws
        BY <1>2, <1>7, <3>2, FramesOnAre
      <4>2. /\ DJ \in SUBSET (Rng(ToEncode) \cup Rng(Encoding))
            /\ Rng(ToEncode') \cup Rng(Encoding') = (Rng(ToEncode) \cup Rng(Encoding)) \ DJ
        BY <1>7, <1>14, <3>2 DEF IInv, JpegPlaced
      <4> HIDE DEF DJ
      <4>3. Fit(alloc, (Rng(ToEncode) \cup Rng(Encoding)) \ DJ, Rng(Raws), HeldCbs, mem, cb, seen \ orphans,
                Plus(done, UNION {JpegFrames(j) : j \in DJ}))
        BY <1>15, <4>2, FitReleases
      <4> QED
        BY <1>1, <1>5, <1>14, <2>3, <4>1, <4>2, <4>3 DEF Accounted
    <3> QED
      BY <2>1, <3>1, <3>2
  <2> QED
    BY <1>7, <1>8, <1>9, <1>10, <1>11, <1>12, <2>4, <2>5, <2>6 DEF IInv
<1> QED
  BY <1>16, <1>17

-----------------------------------------------------------------------------
(* The events of the encoder.                                              *)

\* The jobs with an id are taken from m_ongoingJpegQ; one that has none stays the last.
LEMMA UnmatchedIs ==
  ASSUME IInv, NEW id \in Nat \ {0}
  PROVE  LET u == Unmatched(id) IN
         /\ u \in QueueOf(JpegJob) /\ u.active = q["ongoingJpeg"].active
         /\ Matching(id) \subseteq Rng(Encoding)
         /\ Inj(u.nodes) /\ Rng(u.nodes) = Rng(Encoding) \ Matching(id)
         /\ Encoding = << >> => u.nodes = << >>
         /\ dpc \in {"encode", "store"} => /\ u.nodes # << >> /\ u.nodes[Len(u.nodes)].id = 0
                                           /\ u.nodes[Len(u.nodes)] = Encoding[Len(Encoding)]
         /\ \A i \in 1 .. Len(u.nodes) :
              u.nodes[i].id = 0 => dpc \in {"encode", "store"} /\ i = Len(u.nodes)
<1> DEFINE S == Matching(id)
           t == Without(Encoding, S)
<1>1. /\ q["ongoingJpeg"] \in QueueOf(JpegJob) /\ Encoding \in Seq(JpegJob)
      /\ q["ongoingJpeg"].nodes = Encoding /\ Inj(Encoding)
  BY QRead DEF IInv, Encoding, JpegPlaced
<1>2. S \subseteq Rng(Encoding) /\ \A j \in S : j.id = id
  BY ItemsAre DEF Matching
<1>3. Unmatched(id) = [q["ongoingJpeg"] EXCEPT !.nodes = t]
  BY <1>1 DEF Unmatched
<1> HIDE DEF S
<1>4. /\ t \in Seq(JpegJob) /\ Inj(t) /\ Rng(t) = Rng(Encoding) \ S
      /\ Encoding # << >> /\ Encoding[Len(Encoding)] \notin S
           => t # << >> /\ t[Len(t)] = Encoding[Len(Encoding)]
  BY <1>1, FilterIs
<1> HIDE DEF t
<1>5. /\ Unmatched(id) \in QueueOf(JpegJob) /\ Unmatched(id).nodes = t
      /\ Unmatched(id).active = q["ongoingJpeg"].active
  BY <1>1, <1>3, <1>4 DEF QueueOf
<1>6. ASSUME Encoding = << >> PROVE t = << >>
  <2>1. Rng(t) = {}
    BY <1>4, <1>6 DEF Rng
  <2> QED
    BY <1>4, <2>1, TailIs
<1>7. ASSUME dpc \in {"encode", "store"}
      PROVE  t # << >> /\ t[Len(t)] = Encoding[Len(Encoding)] /\ t[Len(t)].id = 0
  <2>1. Encoding # << >> /\ Encoding[Len(Encoding)].id = 0
    BY <1>7 DEF IInv, JpegPlaced
  <2>2. Encoding[Len(Encoding)] \notin S
    BY <1>2, <2>1
  <2> QED
    BY <1>4, <2>1, <2>2
<1>8. ASSUME NEW i \in 1 .. Len(t), t[i].id = 0
      PROVE  dpc \in {"encode", "store"} /\ i = Len(t)
  <2>1. t[i] \in Rng(Encoding)
    BY <1>4 DEF Rng
  <2>2. PICK k \in 1 .. Len(Encoding) : Encoding[k] = t[i]
    BY <2>1 DEF Rng
  <2>3. dpc \in {"encode", "store"} /\ k = Len(Encoding)
    BY <1>8, <2>2 DEF IInv, JpegPlaced
  <2>4. t[Len(t)] = t[i] /\ Len(t) \in 1 .. Len(t)
    BY <1>4, <1>7, <2>2, <2>3, EmptySeq
  <2> QED
    BY <1>4, <2>3, <2>4 DEF Inj
<1> QED
  BY <1>2, <1>4, <1>5, <1>6, <1>7, <1>8 DEF S

\* The JPEG jobs with an id are released.
LEMMA ReleasedKeeps ==
  ASSUME IInv, NEW id \in Nat \ {0}, Encoding' = Unmatched(id).nodes,
         done' = DoneWith(UNION {JpegFrames(j) : j \in Matching(id)}),
         UNCHANGED <<world, Waiting, Ongoing, ToEncode, Raws, mem, alloc, cb, hw, hand, seen,
                     orphans, dpc, sm, flushing>>
  PROVE  (Placed /\ JpegPlaced /\ Memory /\ Asked /\ Accounted)' /\ done' \in [Frame -> Nat]
<1> DEFINE S == Matching(id)
<1>1. /\ S \subseteq Rng(Encoding)
      /\ Inj(Encoding') /\ Rng(Encoding') = Rng(Encoding) \ S
      /\ dpc \in {"encode", "store"} => Encoding' # << >> /\ Encoding'[Len(Encoding')].id = 0
      /\ \A i \in 1 .. Len(Encoding') :
           Encoding'[i].id = 0 => dpc \in {"encode", "store"} /\ i = Len(Encoding')
  BY UnmatchedIs
<1>2. done' = Plus(done, UNION {JpegFrames(j) : j \in S}) /\ done' \in [Frame -> Nat]
  BY DoneIs DEF IInv, FShape
<1> HIDE DEF S
<1>3. Placed' /\ Memory' /\ HeldCbs' = HeldCbs
  BY PPSame
<1>4. JpegPlaced'
  BY <1>1 DEF IInv, JpegPlaced
<1>5. Asked'
  BY AskedSame DEF OngoingGone, Left, IInv, Asked
<1>6. Accounted'
  <2>1. S \in SUBSET (Rng(ToEncode) \cup Rng(Encoding))
    BY <1>1
  <2>2. Fit(alloc, (Rng(ToEncode) \cup Rng(Encoding)) \ S, Rng(Raws), HeldCbs, mem, cb, seen \ orphans,
            Plus(done, UNION {JpegFrames(j) : j \in S}))
    BY <2>1, FitReleases DEF IInv, Accounted
  <2>3. (Rng(ToEncode) \cup Rng(Encoding)) \ S = Rng(ToEncode') \cup Rng(Encoding')
    BY <1>1 DEF IInv, JpegPlaced
  <2> QED
    BY <1>2, <1>3, <2>2, <2>3 DEF Accounted
<1> QED
  BY <1>2, <1>3, <1>4, <1>5, <1>6

\* DO_NEXT_JOB once or twice.
LEMMA ToldTwice ==
  ASSUME NEW b \in Seq(Commands), NEW more \in {<< >>, <<"next">>}
  PROVE  (b \o more) \o <<"next">> \in Seq(Commands) /\ Fewer((b \o more) \o <<"next">>, b)
<1>1. CASE more = << >>
  <2>1. (b \o more) \o <<"next">> = Append(b, "next")
    BY <1>1
  <2> QED
    BY <2>1, FewerIs
<1>2. CASE more = <<"next">>
  <2> DEFINE c == Append(b, "next")
  <2>1. /\ c \in Seq(Commands)
        /\ \A i \in 1 .. Len(c) : c[i] # "next" => i \in 1 .. Len(b) /\ c[i] = b[i]
    BY NextCommand
  <2>2. (b \o more) \o <<"next">> = Append(c, "next")
    BY <1>2
  <2> HIDE DEF c
  <2>3. /\ Append(c, "next") \in Seq(Commands)
        /\ \A i \in 1 .. Len(Append(c, "next")) : Append(c, "next")[i] # "next" =>
             i \in 1 .. Len(c) /\ Append(c, "next")[i] = c[i]
    BY <2>1, NextCommand
  <2>4. \A i \in 1 .. Len(Append(c, "next")) : Append(c, "next")[i] # "next" =>
          i + 0 \in 1 .. Len(b) /\ Append(c, "next")[i] = b[i + 0]
    <3>1. \A i \in 1 .. Len(b) : i + 0 = i
      OBVIOUS
    <3> QED
      BY <2>1, <2>3, <3>1
  <2>5. 0 \in 0 .. 1
    OBVIOUS
  <2>6. Fewer(Append(c, "next"), b)
    BY <2>4, <2>5 DEF Fewer
  <2> QED
    BY <2>2, <2>3, <2>6
<1> QED
  BY <1>1, <1>2

\* The state machine handles a JPEG event.
LEMMA ProcessJpegEvtKeeps ==
  ASSUME IInv, ProcessJpegEvt
  PROVE  IInv'
<1> DEFINE e == Head(evts)
           more == IF IsEmpty(q["inputPP"]) THEN << >> ELSE <<"next">>
<1>1. UNCHANGED <<world, mem, alloc, isActive, dpc, hand, flushing, saveActive, sm, running,
                  sessions, src, cb, hw, encoder, nextId, seen, orphans>>
  BY DEF ProcessJpegEvt, dVars, smVars
<1>2. /\ sm = "idle" /\ evts # << >> /\ evts' = Tail(evts) /\ FShape /\ QShape
      /\ dBox \in Seq(Commands) /\ sBox \in Seq(Commands) /\ evts \in Seq(JpegEvt)
  BY DEF ProcessJpegEvt, IInv, DShape, FShape
<1>3. e \in JpegEvt /\ evts' \in Seq(JpegEvt)
  BY <1>2, TailIs
<1>4. e.id \in Nat \ {0} /\ e.shot \in Shots
  BY <1>3 DEF JpegEvt
<1> HIDE DEF e
<1>5. HeldCbs' = HeldCbs
  BY <1>1 DEF HeldCbs
<1>6. ASSUME running, q' = [q EXCEPT !["ongoingJpeg"] = Unmatched(e.id)],
             done' = DoneWith(UNION {JpegFrames(j) : j \in Matching(e.id)}),
             answers' = [answers EXCEPT ![e.shot] = @ + 1],
             dBox' = (dBox \o more) \o <<"next">>, sBox' = sBox
      PROVE  IInv'
  <2> DEFINE u == Unmatched(e.id)
  <2>1. /\ u \in QueueOf(JpegJob) /\ u.active = q["ongoingJpeg"].active
        /\ Encoding = << >> => u.nodes = << >>
    BY <1>4, UnmatchedIs
  <2>2. q' = [q EXCEPT !["ongoingJpeg"] = u]
    BY <1>6
  <2> HIDE DEF u
  <2>3. /\ QShape' /\ q'["ongoingJpeg"] = u /\ UNCHANGED <<Waiting, Ongoing, ToEncode, Raws>>
        /\ Encoding' = u.nodes /\ \A n \in QueueNames : n # "ongoingJpeg" => q'[n] = q[n]
    BY <1>2, <2>1, <2>2, QSet, DataIs, Names
  <2>4. (Placed /\ JpegPlaced /\ Memory /\ Asked /\ Accounted)' /\ done' \in [Frame -> Nat]
    BY <1>1, <1>4, <1>6, <2>3, ReleasedKeeps DEF u
  <2>5. Fewer(dBox', dBox) /\ Fewer(sBox', sBox) /\ dBox' \in Seq(Commands) /\ sBox' \in Seq(Commands)
    BY <1>2, <1>6, ToldTwice, FewerIs
  <2>6. DShape'
    BY <1>1, <2>5 DEF IInv, DShape
  <2>7. FShape'
    BY <1>1, <1>2, <1>3, <1>4, <1>6, <2>4, AnswersIs DEF FShape
  <2>8. Control'
    BY <1>1, <2>5, ControlKept DEF IInv, Control
  <2>9. Queues'
    <3>1. Steady
      BY <2>1, <2>3 DEF Steady, IInv, Queues
    <3> QED
      BY <1>1, <1>5, <1>6, <2>1, <2>3, <3>1, QueuesKept
  <2> QED
    BY <2>3, <2>4, <2>6, <2>7, <2>8, <2>9 DEF IInv
<1>7. ASSUME q["inputSave"].active, q' = [q EXCEPT !["inputSave"] = Enqueue(@, e)],
             sBox' = Append(sBox, "next"), dBox' = Append(dBox, "next"), UNCHANGED <<done, answers>>
      PROVE  IInv'
  <2>1. /\ QShape' /\ Steady /\ UNCHANGED <<Waiting, Ongoing, ToEncode, Encoding, Raws>>
    BY <1>3, <1>7, QEnqueue, DataIs, Names
  <2>2. Fewer(dBox', dBox) /\ Fewer(sBox', sBox) /\ dBox' \in Seq(Commands) /\ sBox' \in Seq(Commands)
    BY <1>2, <1>7, FewerIs
  <2>3. DShape'
    BY <1>1, <2>2 DEF IInv, DShape
  <2>4. FShape'
    BY <1>1, <1>2, <1>3, <1>7 DEF FShape
  <2>5. Control'
    BY <1>1, <2>2, ControlKept DEF IInv, Control
  <2>6. Queues'
    BY <1>1, <1>5, <2>1, QueuesKept DEF IInv, Queues
  <2>7. (Placed /\ JpegPlaced /\ Memory /\ Asked /\ Accounted)'
    BY <1>1, <1>7, <2>1, FramesSame DEF SameFrames, OngoingGone, Left
  <2> QED
    BY <2>1, <2>3, <2>4, <2>5, <2>6, <2>7 DEF IInv
<1>8. CASE UNCHANGED <<q, done, answers, dBox, sBox>>
  <2>1. QShape' /\ UNCHANGED <<Waiting, Ongoing, ToEncode, Encoding, Raws>>
    BY <1>2, <1>8, QSame
  <2>2. DShape'
    BY <1>1, <1>8 DEF IInv, DShape
  <2>3. FShape'
    BY <1>1, <1>2, <1>3, <1>8 DEF FShape
  <2>4. Control'
    BY <1>1, <1>8 DEF IInv, Control
  <2>5. Queues'
    BY <1>1, <1>5, <1>8, <2>1, SteadySame, QueuesKept DEF IInv, Queues
  <2>6. (Placed /\ JpegPlaced /\ Memory /\ Asked /\ Accounted)'
    BY <1>1, <1>8, <2>1, FramesSame DEF SameFrames, OngoingGone, Left
  <2> QED
    BY <2>1, <2>2, <2>3, <2>4, <2>5, <2>6 DEF IInv
<1> QED
  BY <1>6, <1>7, <1>8 DEF ProcessJpegEvt, e

\* The save thread handles a JPEG event.
LEMMA SaveNextKeeps ==
  ASSUME IInv, SaveNext
  PROVE  IInv'
<1> DEFINE e == First(q["inputSave"])
<1>1. UNCHANGED <<world, mem, alloc, isActive, dpc, hand, flushing, dBox, saveActive, sm, running,
                  sessions, src, cb, hw, encoder, nextId, evts, seen, orphans>>
  BY DEF SaveNext, SaveUnchanged, smVars, jpegVars
<1>2. /\ sBox # << >> /\ sBox' = Tail(sBox) /\ FShape /\ QShape
      /\ dBox \in Seq(Commands) /\ sBox \in Seq(Commands)
  BY DEF SaveNext, IInv, DShape
<1>3. Fewer(dBox', dBox) /\ Fewer(sBox', sBox) /\ dBox' \in Seq(Commands) /\ sBox' \in Seq(Commands)
  BY <1>1, <1>2, FewerIs
<1>4. DShape' /\ Control'
  <2>1. dpc \in Working => isActive
    BY DEF IInv, Control
  <2> QED
    BY <1>1, <1>3, <2>1, ControlKept DEF IInv, DShape
<1>5. HeldCbs' = HeldCbs
  BY <1>1 DEF HeldCbs
<1>6. CASE CanDequeue(q["inputSave"])
  <2> DEFINE u == Unmatched(e.id)
             w == DequeueHead(q["inputSave"])
  <2>1. /\ q' = [[q EXCEPT !["inputSave"] = w] EXCEPT !["ongoingJpeg"] = u]
        /\ done' = DoneWith(UNION {JpegFrames(j) : j \in Matching(e.id)})
        /\ answers' = IF saveActive THEN [answers EXCEPT ![e.shot] = @ + 1] ELSE answers
    BY <1>6 DEF SaveNext
  <2>2. /\ q["inputSave"].active /\ w \in QueueOf(JpegEvt) /\ w.active /\ e \in JpegEvt
    <3>1. q["inputSave"] \in QueueOf(JpegEvt)
      BY <1>2 DEF QShape
    <3>2. /\ q["inputSave"].active /\ w \in QueueOf(JpegEvt) /\ w.active
          /\ q["inputSave"].nodes # << >> /\ q["inputSave"].nodes \in Seq(JpegEvt)
          /\ e = Head(q["inputSave"].nodes)
      BY <1>6, <3>1, DequeueIs
    <3> HIDE DEF e, w
    <3> QED
      BY <3>2, TailIs
  <2>3. e.id \in Nat \ {0} /\ e.shot \in Shots
    BY <2>2 DEF JpegEvt
  <2> HIDE DEF e
  <2>4. /\ u \in QueueOf(JpegJob) /\ u.active = q["ongoingJpeg"].active
        /\ Encoding = << >> => u.nodes = << >>
    BY <2>3, UnmatchedIs
  <2> HIDE DEF u, w
  <2>5. /\ q'["ongoingJpeg"] = u /\ q'["inputSave"] = w
        /\ \A n \in QueueNames \ {"ongoingJpeg", "inputSave"} : q'[n] = q[n]
        /\ q' = [n \in QueueNames |-> q'[n]]
    <3>1. q = [n \in QueueNames |-> q[n]] /\ "ongoingJpeg" # "inputSave"
      BY <1>2, QRead
    <3> QED
      BY <2>1, <3>1, Names
  <2>6. QShape' /\ UNCHANGED <<Waiting, Ongoing, ToEncode, Raws>> /\ Encoding' = u.nodes
    <3>1. \A n \in QueueNames : q[n] \in QueueOf(DataOf(n))
      BY <1>2 DEF QShape, DataOf, QueueNames, PPQueues, JpegQueues
    <3>2. \A n \in QueueNames : q'[n] \in QueueOf(DataOf(n))
      BY <2>2, <2>4, <2>5, <3>1, DataIs
    <3> QED
      BY <2>5, <3>2, QNow, Names DEF Waiting, Ongoing, ToEncode, Encoding, Raws
  <2>7. (Placed /\ JpegPlaced /\ Memory /\ Asked /\ Accounted)' /\ done' \in [Frame -> Nat]
    BY <1>1, <2>1, <2>3, <2>6, ReleasedKeeps DEF u
  <2>8. FShape'
    BY <1>1, <1>2, <2>1, <2>3, <2>7, AnswersIs DEF FShape
  <2>9. Queues'
    <3>1. Steady
      BY <2>2, <2>4, <2>5 DEF Steady, IInv, Queues
    <3> QED
      BY <1>1, <1>5, <2>4, <2>6, <3>1, QueuesKept DEF IInv, Queues
  <2> QED
    BY <1>4, <2>6, <2>7, <2>8, <2>9 DEF IInv
<1>7. CASE ~CanDequeue(q["inputSave"])
  <2>1. UNCHANGED <<q, done, answers>>
    BY <1>7 DEF SaveNext
  <2>2. QShape' /\ UNCHANGED <<Waiting, Ongoing, ToEncode, Encoding, Raws>>
    BY <1>2, <2>1, QSame
  <2>3. FShape'
    BY <1>1, <1>2, <2>1 DEF FShape
  <2>4. Queues'
    BY <1>1, <1>5, <2>1, <2>2, SteadySame, QueuesKept DEF IInv, Queues
  <2>5. (Placed /\ JpegPlaced /\ Memory /\ Asked /\ Accounted)'
    BY <1>1, <2>1, <2>2, FramesSame DEF SameFrames, OngoingGone, Left
  <2> QED
    BY <1>4, <2>2, <2>3, <2>4, <2>5 DEF IInv
<1> QED
  BY <1>6, <1>7

-----------------------------------------------------------------------------
(* The outputs of the reprocess channels.                                  *)

\* An output meets the first ongoing job, or none.
LEMMA CbTakeKeeps ==
  ASSUME IInv, NEW c \in Channels, NEW i \in 1 .. Len(hw), CbTake(c, i)
  PROVE  IInv'
<1> DEFINE f == hw[i].out
           a == First(q["ongoingPP"])
           mine == CanDequeue(q["ongoingPP"]) /\ PPFrames(a) # {}
<1>1. UNCHANGED <<world, mem, alloc, isActive, dpc, hand, flushing, dBox, sBox, saveActive, sm, running,
                  sessions, src, encoder, nextId, evts, done, answers>>
  BY DEF CbTake, CbUnchanged, dVars, saveVars, smVars, jpegVars
<1>2. /\ cb[c].at = "idle" /\ hw' = RemoveAt(hw, i) /\ seen' = seen \cup {f}
      /\ mine => cb' = [cb EXCEPT ![c] = [at |-> "held", job |-> a, frame |-> f]] /\ orphans' = orphans
      /\ ~mine => orphans' = orphans \cup {f} /\ cb' = cb
      /\ q' = IF CanDequeue(q["ongoingPP"]) THEN [q EXCEPT !["ongoingPP"] = DequeueHead(@)] ELSE q
      /\ FShape /\ QShape /\ hw \in Seq([chan : Channels, out : Outputs]) /\ running
  <2>1. running
    BY DEF IInv, Queues
  <2> QED
    BY <2>1 DEF CbTake, IInv, FShape
<1>3. /\ f \in Outputs /\ f \in Frame /\ f \in Outs /\ f \notin seen
  <2>1. hw[i] \in [chan : Channels, out : Outputs]
    BY <1>2, ElementIs
  <2> QED
    BY <2>1 DEF Outs, Outputs, IInv, Asked
<1>4. /\ hw' \in Seq([chan : Channels, out : Outputs]) /\ Len(hw') = Len(hw) - 1
      /\ \A k \in 1 .. Len(hw') : hw'[k] = hw[IF k < i THEN k ELSE k + 1]
      /\ Len(hw) \in Nat /\ Len(hw) > 0
  <2>1. LET t == RemoveAt(hw, i) IN
         /\ t \in Seq([chan : Channels, out : Outputs]) /\ Len(t) = Len(hw) - 1
         /\ \A k \in 1 .. Len(t) : t[k] = hw[IF k < i THEN k ELSE k + 1]
    BY <1>2, RemoveIs
  <2> QED
    BY <1>2, <2>1
<1> HIDE DEF f, a, mine
<1>5. Outs' \subseteq Outs \ {f} /\ \A k, l \in 1 .. Len(hw') : hw'[k].out = hw'[l].out => k = l
  <2>1. ASSUME NEW k \in 1 .. Len(hw')
        PROVE  /\ (IF k < i THEN k ELSE k + 1) \in 1 .. Len(hw)
               /\ (IF k < i THEN k ELSE k + 1) # i
    BY <1>4
  <2>2. \A k \in 1 .. Len(hw') : hw'[k].out \in Outs \ {f}
    BY <1>4, <2>1 DEF IInv, Asked, Outs, f
  <2>3. ASSUME NEW k \in 1 .. Len(hw'), NEW l \in 1 .. Len(hw'), hw'[k].out = hw'[l].out
        PROVE  k = l
    <3>1. (IF k < i THEN k ELSE k + 1) = (IF l < i THEN l ELSE l + 1)
      BY <1>4, <2>1, <2>3 DEF IInv, Asked
    <3> QED
      BY <3>1
  <2> QED
    BY <2>2, <2>3 DEF Outs
<1>6. Outs' \cap seen' = {}
  BY <1>2, <1>5 DEF IInv, Asked
<1>7. (OngoingGone' <=> OngoingGone) /\ "ongoingPP" \in QueueNames
  BY <1>1, Names DEF OngoingGone, Left
<1>8. /\ QShape' /\ Steady /\ UNCHANGED <<Waiting, ToEncode, Encoding, Raws>>
      /\ Ongoing \in Seq(Blocks)
      /\ CanDequeue(q["ongoingPP"]) =>
           Ongoing # << >> /\ a = Head(Ongoing) /\ Ongoing' = Tail(Ongoing)
      /\ ~CanDequeue(q["ongoingPP"]) => Ongoing' = Ongoing /\ Ongoing = << >>
  <2>1. CASE CanDequeue(q["ongoingPP"])
    <3>1. q' = [q EXCEPT !["ongoingPP"] = DequeueHead(@)]
      BY <1>2, <2>1
    <3> QED
      BY <2>1, <3>1, QDequeue, DataIs, <1>7 DEF a, Ongoing
  <2>2. CASE ~CanDequeue(q["ongoingPP"])
    <3>1. q' = q
      BY <1>2, <2>2
    <3>2. Ongoing = << >>
      BY <1>7, <2>2 DEF CanDequeue, Ongoing, IInv, Queues
    <3> QED
      BY <1>2, <2>2, <3>1, <3>2, QSame, QRead, SteadySame
  <2> QED
    BY <2>1, <2>2
<1>9. DShape' /\ Control'
  BY <1>1 DEF IInv, DShape, Control
<1>10. ~OngoingGone => CanDequeue(q["ongoingPP"])
  <2>1. ASSUME ~OngoingGone PROVE Ongoing # << >>
    <3>1. Len(Ongoing) >= Len(hw)
      BY <1>4, <2>1 DEF IInv, Asked
    <3> QED
      BY <1>4, <1>8, <3>1
  <2> QED
    BY <1>8, <2>1
<1>11. ~OngoingGone => Len(Ongoing') = Len(hw') + (IF dpc' = "ask" THEN 1 ELSE 0)
  <2>1. ASSUME ~OngoingGone
        PROVE  Len(Ongoing') = Len(Ongoing) - 1 /\ Len(Ongoing) = Len(hw) + (IF dpc = "ask" THEN 1 ELSE 0)
    BY <1>8, <1>10, <2>1, TailIs DEF IInv, Asked
  <2> QED
    BY <1>1, <1>4, <2>1
<1>12. dpc' = "ask" => hand' = Ongoing'[Len(Ongoing')]
  <2>1. ASSUME dpc = "ask" PROVE hand = Ongoing'[Len(Ongoing')]
    <3>1. ~OngoingGone /\ hand = Ongoing[Len(Ongoing)]
      BY <2>1 DEF OngoingGone, IInv, Asked, Control, Working
    <3>2. Len(Ongoing) = Len(hw) + 1 /\ Ongoing # << >> /\ Ongoing' = Tail(Ongoing)
      BY <1>8, <1>10, <2>1, <3>1 DEF IInv, Asked
    <3>3. /\ Len(Ongoing') = Len(Ongoing) - 1
          /\ \A k \in 1 .. Len(Ongoing) - 1 : Ongoing'[k] = Ongoing[k + 1]
      BY <1>8, <3>2, TailIs
    <3>4. Len(Ongoing) - 1 \in 1 .. Len(Ongoing) - 1 /\ (Len(Ongoing) - 1) + 1 = Len(Ongoing)
      BY <1>4, <3>2
    <3> QED
      BY <3>1, <3>3, <3>4
  <2> QED
    BY <1>1, <2>1
<1>13. Inj(Ongoing') /\ Rng(Ongoing') \subseteq Rng(Ongoing)
       /\ (CanDequeue(q["ongoingPP"]) => a \in Rng(Ongoing) /\ Rng(Ongoing') = Rng(Ongoing) \ {a})
  <2>1. Inj(Ongoing)
    BY DEF IInv, Placed
  <2>2. CASE CanDequeue(q["ongoingPP"])
    <3>1. Ongoing \in Seq(Blocks) /\ Ongoing # << >> /\ a = Head(Ongoing) /\ Ongoing' = Tail(Ongoing)
      BY <1>8, <2>2
    <3>2. /\ Head(Ongoing) \in Rng(Ongoing)
          /\ Inj(Tail(Ongoing)) /\ Rng(Tail(Ongoing)) = Rng(Ongoing) \ {Head(Ongoing)}
      BY <2>1, <3>1, TailIs
    <3> QED
      BY <3>1, <3>2
  <2>3. CASE ~CanDequeue(q["ongoingPP"])
    BY <1>8, <2>1, <2>3
  <2> QED
    BY <2>2, <2>3
<1>14. c \notin HeldCbs
  BY <1>2 DEF HeldCbs
<1>15. Fit(alloc, Rng(ToEncode) \cup Rng(Encoding), Rng(Raws), HeldCbs, mem, cb, seen \ orphans, done)
  BY DEF IInv, Accounted
<1>16. \A g \in Frame : Later(g) \in seen' \cup Outs' => g \in seen /\ ~Unasked(g) /\ g # f
  <2>1. \A g \in Frame : Later(g) \in seen' \cup Outs' => Later(g) \in seen \cup Outs
    BY <1>2, <1>3, <1>5
  <2> QED
    BY <1>3, <2>1 DEF IInv, Asked
<1>17. ASSUME ~mine
       PROVE  IInv'
  <2>1. /\ orphans' = orphans \cup {f} /\ cb' = cb /\ HeldCbs' = HeldCbs /\ HeldJobs' = HeldJobs
    BY <1>2, <1>17 DEF HeldCbs, HeldJobs
  <2>2. ~CanDequeue(q["ongoingPP"]) /\ Ongoing' = Ongoing
    <3>1. ASSUME CanDequeue(q["ongoingPP"]) PROVE mine
      <4>1. a \in alloc /\ mem[a].src \in Frame
        BY <1>13, <3>1 DEF IInv, Placed, Memory
      <4>2. PPFrames(a) # {}
        BY <4>1, FramesAre DEF PPFrames
      <4> QED
        BY <3>1, <4>2 DEF mine
    <3> QED
      BY <1>8, <1>17, <3>1
  <2>3. OngoingGone
    BY <1>10, <2>2
  <2>4. sm \in {"stop", "delete"}
    BY <2>3 DEF OngoingGone, IInv, Control
  <2>5. FShape'
    BY <1>1, <1>2, <1>3, <1>4, <2>1 DEF FShape
  <2>6. Queues'
    BY <1>1, <1>2, <1>8, <2>1, QueuesKept
  <2>7. Placed' /\ Memory'
    BY <1>1, <1>8, <2>1, <2>2, PPSame
  <2>8. JpegPlaced'
    BY <1>1, <1>8, JpegSame
  <2>9. Asked'
    <3>1. \A g \in Frame : Unasked(g)' => Unasked(g)
      BY <1>1, <1>8, <2>1 DEF Unasked
    <3> QED
      BY <1>1, <1>2, <1>5, <1>6, <1>7, <1>12, <1>16, <2>3, <2>4, <3>1 DEF Asked
  <2>10. Accounted'
    <3>1. seen' \ orphans' = seen \ orphans
      BY <1>2, <1>3, <2>1
    <3> QED
      BY <1>1, <1>8, <1>15, <2>1, <3>1 DEF Accounted
  <2> QED
    BY <1>8, <1>9, <2>5, <2>6, <2>7, <2>8, <2>9, <2>10 DEF IInv
<1>18. ASSUME mine
       PROVE  IInv'
  <2>1. CanDequeue(q["ongoingPP"])
    BY <1>18 DEF mine
  <2>2. /\ cb'[c] = [at |-> "held", job |-> a, frame |-> f] /\ orphans' = orphans
        /\ \A d \in Channels : d # c => cb'[d] = cb[d]
        /\ cb' = [cb EXCEPT ![c] = [at |-> "held", job |-> a, frame |-> f]]
    BY <1>2, <1>18 DEF FShape
  <2>3. /\ HeldCbs' = HeldCbs \cup {c} /\ \A d \in HeldCbs : d # c /\ cb'[d] = cb[d]
    BY <1>14, <2>2 DEF HeldCbs
  <2>4. HeldJobs' = HeldJobs \cup {a}
    BY <2>2, <2>3 DEF HeldJobs
  <2>5. a \in Rng(Ongoing) /\ Rng(Ongoing') = Rng(Ongoing) \ {a} /\ a \in alloc /\ a \in Blocks
        /\ a \notin Rng(Waiting) /\ a \notin HeldJobs
    BY <1>2, <1>13, <2>1 DEF IInv, Placed, HeldJobs, FShape
  <2>6. FShape'
    <3>1. [at |-> "held", job |-> a, frame |-> f] \in
             [at : {"idle", "held", "send"}, job : Blocks \cup {0}, frame : Outputs \cup {NoFrame}]
      BY <1>3, <2>5
    <3>2. cb' \in [Channels -> [at : {"idle", "held", "send"}, job : Blocks \cup {0},
                                frame : Outputs \cup {NoFrame}]]
      BY <1>2, <2>2, <3>1 DEF FShape
    <3> QED
      BY <1>1, <1>2, <1>3, <1>4, <2>2, <3>2 DEF FShape
  <2>7. Queues'
    <3>1. Encoding' = Encoding
      BY <1>8
    <3> QED
      BY <1>1, <1>2, <1>8, <3>1, QueuesKept
  <2>8. Placed'
    <3>1. \A d \in HeldCbs : cb[d].job \in HeldJobs
      BY DEF HeldJobs
    <3>2. Inj(Waiting') /\ Inj(Ongoing') /\ Rng(Waiting') \cap Rng(Ongoing') = {}
      BY <1>8, <1>13 DEF IInv, Placed
    <3>3. \A d \in HeldCbs' : cb'[d].frame \in Outputs /\ cb'[d].job \in Blocks \ (Rng(Waiting') \cup Rng(Ongoing'))
      BY <1>3, <1>8, <2>2, <2>3, <2>5 DEF IInv, Placed
    <3>4. \A d, l \in HeldCbs' : cb'[d].job = cb'[l].job => d = l
      BY <2>2, <2>3, <2>5, <3>1 DEF IInv, Placed
    <3>5. alloc' = Rng(Waiting') \cup Rng(Ongoing') \cup HeldJobs'
      BY <1>1, <1>8, <2>4, <2>5 DEF IInv, Placed
    <3> QED
      BY <3>2, <3>3, <3>4, <3>5 DEF Placed
  <2>9. Memory'
    BY <1>1, <1>8 DEF IInv, Memory
  <2>10. JpegPlaced'
    BY <1>1, <1>8, JpegSame
  <2>11. Asked'
    <3>1. \A g \in Frame : Unasked(g)' => Unasked(g) \/ g = f
      BY <1>1, <1>8, <2>2, <2>3 DEF Unasked
    <3>2. \A g \in Frame : Later(g) \in seen' \cup Outs' => g \in seen' /\ ~Unasked(g)'
      BY <1>2, <1>16, <3>1
    <3>3. orphans' # {} => sm' \in {"stop", "delete"}
      BY <1>1, <2>2 DEF IInv, Asked
    <3> QED
      BY <1>5, <1>6, <1>7, <1>11, <1>12, <3>2, <3>3 DEF Asked
  <2>12. Accounted'
    <3>1. seen' \ orphans' = (seen \ orphans) \cup {f} /\ f \notin seen \ orphans
      BY <1>2, <1>3, <2>2 DEF FShape
    <3>2. done \in [Frame -> Nat] /\ (\A d \in HeldCbs : cb'[d].frame = cb[d].frame) /\ cb'[c].frame = f
      BY <1>2, <2>2, <2>3 DEF FShape
    <3>3. Fit(alloc, Rng(ToEncode) \cup Rng(Encoding), Rng(Raws), HeldCbs \cup {c}, mem, cb',
              (seen \ orphans) \cup {f}, done)
      BY <1>14, <1>15, <3>1, <3>2, FitArrives
    <3> QED
      BY <1>1, <1>8, <2>3, <3>1, <3>3 DEF Accounted
  <2> QED
    BY <1>8, <1>9, <2>6, <2>7, <2>8, <2>9, <2>10, <2>11, <2>12 DEF IInv
<1> QED
  BY <1>17, <1>18

\* What a callback that held a job and an output leaves as it was.
HandsStep(c) ==
  /\ CbUnchanged /\ UNCHANGED <<hw, dBox, seen, orphans>>
  /\ cb[c].at = "held"
  /\ cb' \in {[cb EXCEPT ![c] = Idle], [cb EXCEPT ![c] = [Idle EXCEPT !.at = "send"]]}

\* What a callback's step leaves alone, and what it had in its hands.
LEMMA HandsStepIs ==
  ASSUME IInv, NEW c \in Channels, HandsStep(c)
  PROVE  /\ UNCHANGED <<world, isActive, dpc, hand, flushing, dBox, sBox, saveActive, sm, running,
                        sessions, src, hw, encoder, nextId, evts, seen, orphans, answers>>
         /\ c \in HeldCbs /\ cb[c].frame \in Outputs /\ cb[c].frame \in seen
         /\ cb[c].job \in alloc /\ cb[c].job \in Blocks /\ running
         /\ cb[c].job \notin Rng(Waiting) /\ cb[c].job \notin Rng(Ongoing)
         /\ HeldCbs' = HeldCbs \ {c} /\ HeldJobs' = HeldJobs \ {cb[c].job}
         /\ \A d \in HeldCbs \ {c} : cb'[d] = cb[d]
         /\ cb' \in [Channels -> [at : {"idle", "held", "send"}, job : Blocks \cup {0},
                                  frame : Outputs \cup {NoFrame}]]
         /\ DShape' /\ Control'
<1>1. UNCHANGED <<world, isActive, dpc, hand, flushing, dBox, sBox, saveActive, sm, running,
                  sessions, src, hw, encoder, nextId, evts, seen, orphans, answers>>
  BY DEF HandsStep, CbUnchanged, dVars, saveVars, smVars, jpegVars
<1>2. /\ c \in HeldCbs /\ cb[c].frame \in Outputs /\ cb[c].job \in HeldJobs /\ running
      /\ cb[c].job \in Blocks \ (Rng(Waiting) \cup Rng(Ongoing))
      /\ cb[c].job \in alloc
  BY DEF HandsStep, HeldCbs, HeldJobs, IInv, Placed, Queues
<1>3. cb[c].frame \in seen
  BY <1>2, FitSays DEF IInv, Accounted
<1>4. PICK x : cb' = [cb EXCEPT ![c] = x] /\ x.at # "held"
               /\ x \in [at : {"idle", "held", "send"}, job : Blocks \cup {0}, frame : Outputs \cup {NoFrame}]
  <2> DEFINE T == [at : {"idle", "held", "send"}, job : Blocks \cup {0}, frame : Outputs \cup {NoFrame}]
  <2>1. Idle \in T /\ Idle.at # "held"
    BY DEF Idle
  <2>2. [Idle EXCEPT !.at = "send"] \in T /\ [Idle EXCEPT !.at = "send"].at # "held"
    BY DEF Idle
  <2>3. \E x \in T : cb' = [cb EXCEPT ![c] = x] /\ x.at # "held"
    BY <2>1, <2>2 DEF HandsStep
  <2> QED
    BY <2>3
<1>5. /\ cb'[c] = x /\ \A d \in Channels : d # c => cb'[d] = cb[d]
      /\ cb' \in [Channels -> [at : {"idle", "held", "send"}, job : Blocks \cup {0},
                               frame : Outputs \cup {NoFrame}]]
  BY <1>4 DEF IInv, FShape
<1>6. HeldCbs' = HeldCbs \ {c} /\ \A d \in HeldCbs \ {c} : cb'[d] = cb[d]
  BY <1>4, <1>5 DEF HeldCbs
<1>7. HeldJobs' = HeldJobs \ {cb[c].job}
  <2>1. \A d \in HeldCbs \ {c} : cb[d].job # cb[c].job
    BY <1>2 DEF IInv, Placed
  <2> QED
    BY <1>2, <1>6, <2>1 DEF HeldJobs
<1>8. DShape' /\ Control'
  BY <1>1 DEF IInv, DShape, Control
<1> QED
  BY <1>1, <1>2, <1>3, <1>5, <1>6, <1>7, <1>8

\* ... when the job is freed.
LEMMA HandsFreed ==
  ASSUME IInv, NEW c \in Channels, HandsStep(c), UNCHANGED <<Waiting, Ongoing>>,
         \A b \in Blocks : b # cb[c].job => mem'[b] = mem[b], alloc' = alloc \ {cb[c].job}
  PROVE  Placed' /\ Memory' /\ Asked'
<1> DEFINE a == cb[c].job
<1>1. /\ UNCHANGED <<world, dpc, hand, flushing, sm, running, hw, seen, orphans>>
      /\ a \in alloc /\ a \in Blocks /\ a \notin Rng(Waiting) /\ a \notin Rng(Ongoing)
      /\ HeldCbs' = HeldCbs \ {c} /\ HeldJobs' = HeldJobs \ {a}
      /\ \A d \in HeldCbs \ {c} : cb'[d] = cb[d]
  BY HandsStepIs
<1> HIDE DEF a
<1>2. Placed'
  BY <1>1 DEF IInv, Placed, a
<1>3. \A b \in alloc' : b \in alloc /\ mem'[b] = mem[b]
  BY DEF IInv, FShape, a
<1>4. Memory'
  BY <1>1, <1>3 DEF IInv, Memory
<1>5. \A g \in Frame : Unasked(g)' => Unasked(g)
  <2>1. dpc = "ask" => hand # a
    <3>1. ASSUME dpc = "ask" PROVE hand \in Rng(Ongoing)
      <4>1. hand = Ongoing[Len(Ongoing)] /\ Len(Ongoing) = Len(hw) + 1
        BY <3>1 DEF IInv, Asked, OngoingGone, Control, Working
      <4>2. Ongoing \in Seq(Blocks) /\ Ongoing # << >>
        BY <4>1, QRead DEF IInv, FShape
      <4> QED
        BY <4>1, <4>2, FrontIs
    <3> QED
      BY <1>1, <3>1
  <2>2. \A b \in Rng(Waiting) : b # a /\ b \in alloc
    BY <1>1 DEF IInv, Placed
  <2>3. dpc = "ask" => hand \in Blocks
    BY DEF IInv, DShape
  <2>4. \A b \in Blocks : b # a => mem'[b] = mem[b]
    BY DEF a
  <2>5. alloc \subseteq Blocks
    BY DEF IInv, FShape
  <2> QED
    BY <1>1, <2>1, <2>2, <2>3, <2>4, <2>5 DEF Unasked
<1>6. Asked'
  <2>1. Outs' = Outs /\ (OngoingGone' <=> OngoingGone)
    BY <1>1 DEF Outs, OngoingGone, Left
  <2> QED
    BY <1>1, <1>5, <2>1 DEF IInv, Asked
<1> QED
  BY <1>2, <1>4, <1>6

\* The frames that a job and an output come to: what is given back, and what is kept.
LEMMA HandsFrames ==
  ASSUME IInv, NEW c \in Channels, HandsStep(c)
  PROVE  LET a == cb[c].job
             f == cb[c].frame
             spent == IF mem[a].count > 1 THEN {mem[a].src} ELSE {}
         IN /\ mem[a] \in PPJob /\ mem[a].src \in Frame /\ mem[a].reproc \in Frame
            /\ mem[a].count \in 1 .. world.passes /\ mem[a].reproc.pass = 0
            /\ f \in Frame /\ f \in Outputs /\ f # mem[a].reproc
            /\ PPFrames(a) = Two(mem[a]) /\ f \notin Two(mem[a]) /\ PPFrames(a) \cap {f} = {}
            /\ spent \cup {f, mem[a].reproc} = Two(mem[a]) \cup {f}
            /\ spent \cap {f, mem[a].reproc} = {}
            /\ JpegFrames(NewJpegJob(f, mem[a].reproc)) = {f, mem[a].reproc}
            /\ NewJpegJob(f, mem[a].reproc) \in JpegJob /\ NewJpegJob(f, mem[a].reproc).id = 0
<1> DEFINE a == cb[c].job
           f == cb[c].frame
           spent == IF mem[a].count > 1 THEN {mem[a].src} ELSE {}
<1>1. /\ a \in alloc /\ a \in Blocks /\ a \notin Rng(Waiting) /\ c \in HeldCbs /\ f \in Outputs
  BY HandsStepIs
<1> HIDE DEF a, f
<1>2. /\ mem[a] \in PPJob /\ mem[a].src \in Frame /\ mem[a].reproc \in Frame
      /\ mem[a].count \in 1 .. world.passes /\ mem[a].reproc.pass = 0
      /\ mem[a].src = mem[a].reproc <=> mem[a].count = 1
  BY <1>1 DEF IInv, Memory, FShape
<1>3. mem[a].count \in Nat /\ mem[a].count >= 1
  BY <1>2
<1>4. f \in Frame /\ f.pass > 0 /\ f # mem[a].reproc
  BY <1>1, <1>2 DEF Outputs
<1>5. PPFrames(a) = Two(mem[a]) /\ f \notin Two(mem[a])
  BY <1>1, ClearedIs, FitSays DEF IInv, Accounted, f
<1>6. Two(mem[a]) = {mem[a].src, mem[a].reproc}
  BY <1>2, FramesAre DEF Two
<1>7. spent \cup {f, mem[a].reproc} = Two(mem[a]) \cup {f} /\ spent \cap {f, mem[a].reproc} = {}
  <2>1. CASE mem[a].count = 1
    BY <1>2, <1>6, <2>1
  <2>2. CASE mem[a].count > 1
    BY <1>2, <1>5, <1>6, <2>2
  <2> QED
    BY <1>3, <2>1, <2>2
<1>8. /\ JpegFrames(NewJpegJob(f, mem[a].reproc)) = {f, mem[a].reproc}
      /\ NewJpegJob(f, mem[a].reproc) \in JpegJob /\ NewJpegJob(f, mem[a].reproc).id = 0
  BY <1>2, <1>4, FramesAre DEF NewJpegJob, JpegFrames, JpegJob
<1> QED
  BY <1>1, <1>2, <1>4, <1>5, <1>7, <1>8 DEF a, f

\* Handing over and being refused are steps of that kind.
LEMMA PassIs ==
  ASSUME IInv, NEW c \in Channels, NEW n \in QueueNames, NEW d, NEW m, Pass(c, n, d, m),
         CbUnchanged, UNCHANGED <<hw, dBox, seen, orphans>>, cb[c].at = "held"
  PROVE  HandsStep(c)
BY DEF Pass, HandsStep

\* Queue n refuses: job and output are given back.
LEMMA HandsRefused ==
  ASSUME IInv, NEW c \in Channels, HandsStep(c), UNCHANGED q,
         NEW m \in [Blocks -> PPJob], \A b \in Blocks : b # cb[c].job => m[b] = mem[b],
         mem' = [m EXCEPT ![cb[c].job] = NoJob], alloc' = alloc \ {cb[c].job},
         done' = DoneWith(Two(mem[cb[c].job]) \cup {cb[c].frame})
  PROVE  IInv'
<1> DEFINE a == cb[c].job
           f == cb[c].frame
<1>1. /\ UNCHANGED <<world, isActive, dpc, hand, flushing, dBox, sBox, saveActive, sm, running,
                     sessions, src, hw, encoder, nextId, evts, seen, orphans, answers>>
      /\ c \in HeldCbs /\ a \in alloc /\ a \in Blocks /\ running
      /\ HeldCbs' = HeldCbs \ {c} /\ \A d \in HeldCbs \ {c} : cb'[d] = cb[d]
      /\ cb' \in [Channels -> [at : {"idle", "held", "send"}, job : Blocks \cup {0},
                               frame : Outputs \cup {NoFrame}]]
      /\ DShape' /\ Control' /\ FShape /\ QShape
  BY HandsStepIs DEF IInv
<1> HIDE DEF a, f
<1>2. QShape' /\ UNCHANGED <<Waiting, Ongoing, ToEncode, Encoding, Raws>>
  BY <1>1, QSame
<1>3. mem' \in [Blocks -> PPJob] /\ \A b \in Blocks : b # a => mem'[b] = mem[b]
  <2>1. NoJob \in PPJob
    <3>1. NoJob = [src |-> NoFrame, reproc |-> NoFrame, count |-> 0, chan |-> 0]
      BY DEF NoJob
    <3>2. 0 \in 0 .. 3 /\ 0 \in Channels
      BY DEF Channels
    <3> QED
      BY <3>1, <3>2 DEF PPJob
  <2> QED
    BY <1>1, <2>1 DEF a
<1>4. Placed' /\ Memory' /\ Asked'
  BY <1>2, <1>3, HandsFreed DEF a
<1>5. JpegPlaced'
  BY <1>1, <1>2, JpegSame
<1>6. FShape'
  <2>1. done' \in [Frame -> Nat]
    BY <1>1, DoneIs DEF FShape
  <2>2. alloc' \subseteq Blocks
    BY <1>1 DEF FShape
  <2> QED
    BY <1>1, <1>3, <2>1, <2>2 DEF FShape
<1>7. Queues'
  BY <1>1, <1>2, SteadySame, QueuesKept
<1>8. Accounted'
  <2> DEFINE R == Two(mem[a]) \cup {f}
             G == {}
  <2>1. R \cup G = Two(mem[a]) \cup {f} /\ G \cap R = {} /\ G = {}
    OBVIOUS
  <2>2. \A b \in alloc \ {a} : Two(mem'[b]) = Two(mem[b])
    BY <1>1, <1>3 DEF FShape
  <2>3. \A d \in HeldCbs \ {c} : cb'[d].frame = cb[d].frame
    BY <1>1
  <2>4. done' = Plus(done, R)
    BY DoneIs DEF a, f
  <2> HIDE DEF R, G
  <2>5. Fit(alloc, Rng(ToEncode) \cup Rng(Encoding), Rng(Raws), HeldCbs, mem, cb, seen \ orphans, done)
    BY DEF IInv, Accounted
  <2>6. Fit(alloc \ {a}, Rng(ToEncode) \cup Rng(Encoding), Rng(Raws), HeldCbs \ {c}, mem', cb',
            seen \ orphans, Plus(done, R))
    <3>1. R \cup G = Two(mem[a]) \cup {cb[c].frame}
      BY <2>1 DEF f
    <3>2. Hands(alloc, HeldCbs, a, c, mem, cb, mem', cb', R, G)
      BY <1>1, <2>1, <2>2, <2>3, <3>1 DEF Hands
    <3> QED
      BY <2>1, <2>5, <3>2, FitToNobody
  <2>7. alloc' = alloc \ {a}
    BY DEF a
  <2> QED
    BY <1>1, <1>2, <2>4, <2>6, <2>7 DEF Accounted
<1> QED
  BY <1>1, <1>2, <1>4, <1>5, <1>6, <1>7, <1>8 DEF IInv

\* An output becomes a raw frame.
LEMMA CbRawKeeps ==
  ASSUME IInv, NEW c \in Channels, CbRaw(c)
  PROVE  IInv'
<1> DEFINE a == cb[c].job
           f == cb[c].frame
           m == Cleared({a})
<1>1. /\ Pass(c, "inputRaw", f, m) /\ CbUnchanged /\ UNCHANGED <<hw, dBox, seen, orphans>>
      /\ done' = DoneWith(PPFrames(a) \cup (IF q["inputRaw"].active THEN {} ELSE {f}))
      /\ alloc' = alloc \ {a} /\ cb[c].at = "held"
  BY DEF CbRaw
<1>2. HandsStep(c)
  BY <1>1, PassIs, Names
<1>3. /\ UNCHANGED <<world, isActive, dpc, hand, flushing, dBox, sBox, saveActive, sm, running,
                     sessions, src, hw, encoder, nextId, evts, seen, orphans, answers>>
      /\ c \in HeldCbs /\ f \in Outputs /\ a \in alloc /\ a \in Blocks /\ running
      /\ HeldCbs' = HeldCbs \ {c} /\ \A d \in HeldCbs \ {c} : cb'[d] = cb[d]
      /\ cb' \in [Channels -> [at : {"idle", "held", "send"}, job : Blocks \cup {0},
                               frame : Outputs \cup {NoFrame}]]
      /\ DShape' /\ Control' /\ FShape /\ QShape
  BY <1>2, HandsStepIs DEF IInv
<1>4. /\ f \in Frame /\ PPFrames(a) = Two(mem[a]) /\ PPFrames(a) \cap {f} = {}
  BY <1>2, HandsFrames
<1>5. m \in [Blocks -> PPJob] /\ \A b \in Blocks : b # a => m[b] = mem[b]
  BY <1>3, ClearedIs
<1> HIDE DEF m
<1>6. CASE ~q["inputRaw"].active
  <2>1. q' = q /\ mem' = [m EXCEPT ![a] = NoJob] /\ done' = DoneWith(Two(mem[a]) \cup {f})
    BY <1>1, <1>4, <1>6 DEF Pass
  <2> QED
    BY <1>1, <1>2, <1>5, <2>1, HandsRefused
<1>7. CASE q["inputRaw"].active
  <2>0. q' = [q EXCEPT !["inputRaw"] = Enqueue(@, f)] /\ mem' = m /\ done' = DoneWith(Two(mem[a]))
    BY <1>1, <1>4, <1>7 DEF Pass
  <2>1. /\ QShape' /\ Steady /\ UNCHANGED <<Waiting, Ongoing, ToEncode, Encoding>>
        /\ Raws' = Append(Raws, f) /\ Raws \in Seq(Frame)
    BY <1>3, <1>4, <1>7, <2>0, QEnqueue, DataIs, QRead, Names
  <2>2. Placed' /\ Memory' /\ Asked'
    BY <1>1, <1>2, <1>5, <2>0, <2>1, HandsFreed
  <2> HIDE DEF a, f
  <2>3. f \notin Rng(Raws) /\ Fit(alloc \ {a}, Rng(ToEncode) \cup Rng(Encoding), Rng(Raws) \cup {f},
             HeldCbs \ {c}, mem', cb', seen \ orphans, Plus(done, Two(mem[a])))
    <3> DEFINE R == Two(mem[a])
               G == {f}
    <3>1. \A b \in alloc \ {a} : Two(mem'[b]) = Two(mem[b])
      BY <1>3, <1>5, <2>0 DEF FShape
    <3>2. R \cup G = Two(mem[a]) \cup {cb[c].frame} /\ G \cap R = {}
      BY <1>4 DEF f
    <3>3. Fit(alloc, Rng(ToEncode) \cup Rng(Encoding), Rng(Raws), HeldCbs, mem, cb, seen \ orphans, done)
      BY DEF IInv, Accounted
    <3>4. Hands(alloc, HeldCbs, a, c, mem, cb, mem', cb', R, {f})
      BY <1>3, <3>1, <3>2 DEF Hands
    <3> HIDE DEF R
    <3>5. f \notin Rng(Raws) /\ Fit(alloc \ {a}, Rng(ToEncode) \cup Rng(Encoding), Rng(Raws) \cup {f},
             HeldCbs \ {c}, mem', cb', seen \ orphans, Plus(done, R))
      BY <3>3, <3>4, FitToRaw
    <3> QED
      BY <3>5 DEF R
  <2>4. Rng(Raws') = Rng(Raws) \cup {f} /\ Inj(Raws')
    BY <1>4, <2>1, <2>3, AppendIs DEF IInv, JpegPlaced
  <2>5. JpegPlaced'
    BY <1>3, <2>1, <2>4 DEF IInv, JpegPlaced
  <2>6. FShape'
    <3>1. done' \in [Frame -> Nat] /\ mem' \in [Blocks -> PPJob] /\ alloc' \subseteq Blocks
      BY <1>1, <1>3, <1>5, <2>0, DoneIs DEF FShape
    <3> QED
      BY <1>3, <3>1 DEF FShape
  <2>7. Queues'
    BY <1>3, <2>1, QueuesKept
  <2>8. Accounted'
    <3>1. alloc' = alloc \ {a} /\ done' = Plus(done, Two(mem[a]))
      BY <1>1, <2>0, DoneIs DEF a
    <3> QED
      BY <1>3, <2>1, <2>3, <2>4, <3>1 DEF Accounted
  <2> QED
    BY <1>3, <2>1, <2>2, <2>5, <2>6, <2>7, <2>8 DEF IInv
<1> QED
  BY <1>6, <1>7

\* An output and its source frame become a JPEG job.
LEMMA CbDoneKeeps ==
  ASSUME IInv, NEW c \in Channels, CbDone(c)
  PROVE  IInv'
<1> DEFINE a == cb[c].job
           f == cb[c].frame
           m == Cleared({a})
           j == NewJpegJob(f, mem[a].reproc)
           spent == IF mem[a].count > 1 THEN {mem[a].src} ELSE {}
<1>1. /\ Pass(c, "inputJpeg", j, m) /\ CbUnchanged /\ UNCHANGED <<hw, dBox, seen, orphans>>
      /\ done' = DoneWith(spent \cup (IF q["inputJpeg"].active THEN {} ELSE JpegFrames(j)))
      /\ alloc' = alloc \ {a} /\ cb[c].at = "held"
  BY DEF CbDone
<1>2. HandsStep(c)
  BY <1>1, PassIs, Names
<1>3. /\ UNCHANGED <<world, isActive, dpc, hand, flushing, dBox, sBox, saveActive, sm, running,
                     sessions, src, hw, encoder, nextId, evts, seen, orphans, answers>>
      /\ c \in HeldCbs /\ f \in Outputs /\ a \in alloc /\ a \in Blocks /\ running
      /\ HeldCbs' = HeldCbs \ {c} /\ \A d \in HeldCbs \ {c} : cb'[d] = cb[d]
      /\ cb' \in [Channels -> [at : {"idle", "held", "send"}, job : Blocks \cup {0},
                               frame : Outputs \cup {NoFrame}]]
      /\ DShape' /\ Control' /\ FShape /\ QShape
  BY <1>2, HandsStepIs DEF IInv
<1>4. /\ f \in Frame /\ spent \cup {f, mem[a].reproc} = Two(mem[a]) \cup {f}
      /\ spent \cap {f, mem[a].reproc} = {}
      /\ JpegFrames(j) = {f, mem[a].reproc} /\ j \in JpegJob /\ j.id = 0
  BY <1>2, HandsFrames
<1>5. m \in [Blocks -> PPJob] /\ \A b \in Blocks : b # a => m[b] = mem[b]
  BY <1>3, ClearedIs
<1> HIDE DEF m, j, spent
<1>6. CASE ~q["inputJpeg"].active
  <2>1. q' = q /\ mem' = [m EXCEPT ![a] = NoJob] /\ done' = DoneWith(Two(mem[a]) \cup {f})
    BY <1>1, <1>4, <1>6 DEF Pass
  <2> QED
    BY <1>1, <1>2, <1>5, <2>1, HandsRefused
<1>7. CASE q["inputJpeg"].active
  <2>0. q' = [q EXCEPT !["inputJpeg"] = Enqueue(@, j)] /\ mem' = m /\ done' = DoneWith(spent)
    BY <1>1, <1>4, <1>7 DEF Pass
  <2>1. /\ QShape' /\ Steady /\ UNCHANGED <<Waiting, Ongoing, Encoding, Raws>>
        /\ ToEncode' = Append(ToEncode, j) /\ ToEncode \in Seq(JpegJob)
    BY <1>3, <1>4, <1>7, <2>0, QEnqueue, DataIs, QRead, Names
  <2>2. Placed' /\ Memory' /\ Asked'
    BY <1>1, <1>2, <1>5, <2>0, <2>1, HandsFreed
  <2> HIDE DEF a, f
  <2>3. j \notin Rng(ToEncode) \cup Rng(Encoding)
        /\ Fit(alloc \ {a}, (Rng(ToEncode) \cup Rng(Encoding)) \cup {j}, Rng(Raws),
             HeldCbs \ {c}, mem', cb', seen \ orphans, Plus(done, spent))
    <3> DEFINE G == {f, mem[a].reproc}
    <3>1. \A b \in alloc \ {a} : Two(mem'[b]) = Two(mem[b])
      BY <1>3, <1>5, <2>0 DEF FShape
    <3>2. spent \cup G = Two(mem[a]) \cup {cb[c].frame} /\ G \cap spent = {}
      BY <1>4 DEF f
    <3>3. Fit(alloc, Rng(ToEncode) \cup Rng(Encoding), Rng(Raws), HeldCbs, mem, cb, seen \ orphans, done)
      BY DEF IInv, Accounted
    <3>4. Hands(alloc, HeldCbs, a, c, mem, cb, mem', cb', spent, JpegFrames(j)) /\ JpegFrames(j) # {}
      BY <1>3, <1>4, <3>1, <3>2 DEF Hands
    <3> QED
      BY <3>3, <3>4, FitToJpeg
  <2>4. Rng(ToEncode') = Rng(ToEncode) \cup {j} /\ Inj(ToEncode')
    BY <1>4, <2>1, <2>3, AppendIs DEF IInv, JpegPlaced
  <2>5. JpegPlaced'
    BY <1>3, <1>4, <2>1, <2>3, <2>4 DEF IInv, JpegPlaced
  <2>6. FShape'
    <3>1. done' \in [Frame -> Nat] /\ mem' \in [Blocks -> PPJob] /\ alloc' \subseteq Blocks
      BY <1>1, <1>3, <1>5, <2>0, DoneIs DEF FShape
    <3> QED
      BY <1>3, <3>1 DEF FShape
  <2>7. Queues'
    BY <1>3, <2>1, QueuesKept
  <2>8. Accounted'
    <3>1. alloc' = alloc \ {a} /\ done' = Plus(done, spent)
      BY <1>1, <2>0, DoneIs DEF a
    <3>2. Rng(ToEncode') \cup Rng(Encoding') = (Rng(ToEncode) \cup Rng(Encoding)) \cup {j}
      BY <2>1, <2>4
    <3> QED
      BY <1>3, <2>1, <2>3, <3>1, <3>2 DEF Accounted
  <2> QED
    BY <1>3, <2>1, <2>2, <2>5, <2>6, <2>7, <2>8 DEF IInv
<1> QED
  BY <1>6, <1>7

\* The job for the next pass.
LEMMA AgainJob ==
  ASSUME NEW j \in PPJob, NEW f \in Frame
  PROVE  LET job == [j EXCEPT !.src = f, !.chan = 1] IN
         job \in PPJob /\ job.src = f /\ job.reproc = j.reproc /\ job.count = j.count
<1>1. PICK job : job = [j EXCEPT !.src = f, !.chan = 1]
  OBVIOUS
<1>2. /\ j.src \in Frame \cup {NoFrame} /\ j.reproc \in Frame \cup {NoFrame}
      /\ j.count \in 0 .. 3
      /\ j = [src |-> j.src, reproc |-> j.reproc, count |-> j.count, chan |-> j.chan]
  BY DEF PPJob
<1>3. job = [src |-> f, reproc |-> j.reproc, count |-> j.count, chan |-> 1]
  BY <1>1, <1>2
<1>4. job \in PPJob /\ job.src = f /\ job.reproc = j.reproc /\ job.count = j.count
  BY <1>2, <1>3 DEF PPJob, Channels
<1> QED
  BY <1>1, <1>4

\* The job goes back with the output as its new input.
LEMMA HandsAgain ==
  ASSUME IInv, NEW c \in Channels, HandsStep(c), Waiting' = Append(Waiting, cb[c].job),
         UNCHANGED <<Ongoing, alloc>>, NEW job, mem' = [mem EXCEPT ![cb[c].job] = job],
         job = [mem[cb[c].job] EXCEPT !.src = cb[c].frame, !.chan = 1],
         mem[cb[c].job].count < world.passes
  PROVE  /\ Placed' /\ Memory' /\ Asked'
         /\ mem' \in [Blocks -> PPJob] /\ Two(mem'[cb[c].job]) = {cb[c].frame, mem[cb[c].job].reproc}
         /\ \A b \in Blocks : b # cb[c].job => mem'[b] = mem[b]
<1> DEFINE a == cb[c].job
           f == cb[c].frame
<1>1. /\ UNCHANGED <<world, dpc, hand, flushing, sm, running, hw, seen, orphans>>
      /\ c \in HeldCbs /\ a \in alloc /\ a \in Blocks
      /\ a \notin Rng(Waiting) /\ a \notin Rng(Ongoing)
      /\ HeldCbs' = HeldCbs \ {c} /\ HeldJobs' = HeldJobs \ {a}
      /\ \A d \in HeldCbs \ {c} : cb'[d] = cb[d]
  BY HandsStepIs
<1>2. /\ mem[a] \in PPJob /\ mem[a].src \in Frame /\ mem[a].reproc \in Frame
      /\ mem[a].count \in 1 .. world.passes /\ mem[a].reproc.pass = 0
      /\ f \in Frame /\ f # mem[a].reproc
  BY HandsFrames
<1>3. job \in PPJob /\ job.src = f /\ job.reproc = mem[a].reproc /\ job.count = mem[a].count
  BY <1>2, AgainJob
<1>4. /\ mem' \in [Blocks -> PPJob] /\ mem'[a] = job
      /\ \A b \in Blocks : b # a => mem'[b] = mem[b]
  BY <1>1, <1>3 DEF IInv, FShape
<1>5. Two(mem'[a]) = {f, mem[a].reproc}
  BY <1>2, <1>3, <1>4, FramesAre DEF Two
<1>6. Waiting \in Seq(Blocks)
  BY QRead DEF IInv
<1>7. Rng(Waiting') = Rng(Waiting) \cup {a} /\ Inj(Waiting')
  <2>1. Inj(Waiting)
    BY DEF IInv, Placed
  <2> QED
    BY <1>1, <1>6, <2>1, AppendIs
<1>8. mem[a].count < world.passes
  OBVIOUS
<1>out. f = cb[c].frame
  OBVIOUS
<1>9. UNCHANGED <<Ongoing, alloc>>
  OBVIOUS
<1>block. a = cb[c].job
  OBVIOUS
<1> HIDE DEF a, f
<1>10. Placed'
  <2>1. \A d \in HeldCbs \ {c} : cb[d].job # a
    BY <1>1, <1>block DEF IInv, Placed
  <2>2. alloc = Rng(Waiting') \cup Rng(Ongoing) \cup HeldJobs'
    <3>1. a \in HeldJobs
      BY <1>1, <1>block DEF HeldJobs
    <3> QED
      BY <1>1, <1>7, <3>1 DEF IInv, Placed
  <2> QED
    BY <1>1, <1>7, <1>9, <2>1, <2>2 DEF IInv, Placed
<1>11. Memory'
  <2>1. ASSUME NEW b \in alloc, b # a PROVE mem'[b] = mem[b] /\ (b \in Rng(Waiting') <=> b \in Rng(Waiting))
    BY <1>4, <1>7, <2>1 DEF IInv, FShape
  <2>2. mem[a].count # 0
    BY <1>2
  <2>3. /\ mem'[a].src \in Frame /\ mem'[a].reproc \in Frame /\ mem'[a].reproc.pass = 0
        /\ a \in Rng(Waiting') /\ mem'[a].count < world.passes /\ mem'[a].src # mem'[a].reproc
        /\ mem'[a].count # 0
    BY <1>2, <1>3, <1>4, <1>7, <1>8, <2>2
  <2>4. ASSUME NEW b \in alloc, b # a
        PROVE  /\ mem'[b].src \in Frame /\ mem'[b].reproc \in Frame /\ mem'[b].reproc.pass = 0
               /\ b \in Rng(Waiting') => /\ mem'[b].count < world.passes
                                         /\ mem'[b].src = mem'[b].reproc <=> mem'[b].count = 0
               /\ b \notin Rng(Waiting') => /\ mem'[b].count \in 1 .. world.passes
                                            /\ mem'[b].src = mem'[b].reproc <=> mem'[b].count = 1
    BY <2>1, <2>4 DEF IInv, Memory
  <2> QED
    BY <1>1, <1>9, <2>3, <2>4 DEF Memory
<1>12. \A g \in Frame : Unasked(g)' => Unasked(g)
  <2>1. dpc = "ask" => hand # a /\ mem'[hand] = mem[hand]
    <3>1. ASSUME dpc = "ask" PROVE hand \in Rng(Ongoing)
      <4>1. hand = Ongoing[Len(Ongoing)] /\ Len(Ongoing) = Len(hw) + 1
        BY <3>1 DEF IInv, Asked, OngoingGone, Control, Working
      <4>2. Ongoing \in Seq(Blocks) /\ Ongoing # << >>
        BY <4>1, QRead DEF IInv, FShape
      <4> QED
        BY <4>1, <4>2, FrontIs
    <3>2. dpc = "ask" => hand \in Blocks
      BY DEF IInv, DShape
    <3> QED
      BY <1>1, <1>4, <3>1, <3>2
  <2>2. ASSUME NEW b \in Rng(Waiting'), b # a PROVE b \in Rng(Waiting) /\ mem'[b] = mem[b]
    <3>1. b \in Rng(Waiting)
      BY <1>7, <2>2
    <3>2. b \in Blocks
      BY <3>1 DEF IInv, Placed, FShape
    <3> QED
      BY <1>4, <2>2, <3>1, <3>2
  <2>3. mem'[a].src = cb[c].frame
    BY <1>3, <1>4, <1>out
  <2>4. ASSUME NEW g \in Frame, Unasked(g)' PROVE Unasked(g)
    <3>1. CASE \E b \in Rng(Waiting') : mem'[b].src = g
      <4>1. PICK b \in Rng(Waiting') : mem'[b].src = g
        BY <3>1
      <4>2. CASE b = a
        BY <1>1, <2>3, <4>1, <4>2 DEF Unasked
      <4>3. CASE b # a
        BY <2>2, <4>1, <4>3 DEF Unasked
      <4> QED
        BY <4>2, <4>3
    <3>2. CASE dpc' = "ask" /\ mem'[hand'].src = g
      BY <1>1, <2>1, <3>2 DEF Unasked
    <3>3. CASE \E d \in HeldCbs' : cb'[d].frame = g
      BY <1>1, <3>3 DEF Unasked
    <3> QED
      BY <2>4, <3>1, <3>2, <3>3 DEF Unasked
  <2> QED
    BY <2>4
<1>13. Asked'
  <2>1. Outs' = Outs /\ (OngoingGone' <=> OngoingGone)
    BY <1>1 DEF Outs, OngoingGone, Left
  <2> QED
    BY <1>1, <1>9, <1>12, <2>1 DEF IInv, Asked
<1> QED
  BY <1>4, <1>5, <1>10, <1>11, <1>13 DEF a, f

\* An output becomes the input of the next pass.
LEMMA CbAgainKeeps ==
  ASSUME IInv, NEW c \in Channels, CbAgain(c)
  PROVE  IInv'
<1> DEFINE a == cb[c].job
           f == cb[c].frame
           job == [mem[a] EXCEPT !.src = f, !.chan = 1]
           m == [mem EXCEPT ![a] = job]
           spent == IF mem[a].count > 1 THEN {mem[a].src} ELSE {}
<1>1. /\ Pass(c, "inputPP", a, m) /\ CbUnchanged /\ UNCHANGED <<hw, dBox, seen, orphans>>
      /\ done' = DoneWith(spent \cup (IF q["inputPP"].active THEN {} ELSE {f, job.reproc}))
      /\ alloc' = (IF q["inputPP"].active THEN alloc ELSE alloc \ {a}) /\ cb[c].at = "held"
      /\ mem[a].count < world.passes
  BY DEF CbAgain
<1>2. HandsStep(c)
  BY <1>1, PassIs, Names
<1>3. /\ UNCHANGED <<world, isActive, dpc, hand, flushing, dBox, sBox, saveActive, sm, running,
                     sessions, src, hw, encoder, nextId, evts, seen, orphans, answers>>
      /\ c \in HeldCbs /\ f \in Outputs /\ a \in alloc /\ a \in Blocks /\ running
      /\ HeldCbs' = HeldCbs \ {c} /\ \A d \in HeldCbs \ {c} : cb'[d] = cb[d]
      /\ cb' \in [Channels -> [at : {"idle", "held", "send"}, job : Blocks \cup {0},
                               frame : Outputs \cup {NoFrame}]]
      /\ DShape' /\ Control' /\ FShape /\ QShape
  BY <1>2, HandsStepIs DEF IInv
<1>4. /\ f \in Frame /\ spent \cup {f, mem[a].reproc} = Two(mem[a]) \cup {f}
      /\ spent \cap {f, mem[a].reproc} = {} /\ mem[a] \in PPJob
  BY <1>2, HandsFrames
<1>5. job.reproc = mem[a].reproc /\ job \in PPJob
  BY <1>4, AgainJob
<1>6. m \in [Blocks -> PPJob] /\ \A b \in Blocks : b # a => m[b] = mem[b]
  BY <1>3, <1>5 DEF FShape
<1>job. job = [mem[cb[c].job] EXCEPT !.src = cb[c].frame, !.chan = 1] /\ m = [mem EXCEPT ![cb[c].job] = job]
  OBVIOUS
<1> HIDE DEF m, job, spent
<1>7. CASE ~q["inputPP"].active
  <2>1. q' = q /\ mem' = [m EXCEPT ![a] = NoJob]
    BY <1>1, <1>7 DEF Pass
  <2>2. done' = DoneWith(Two(mem[a]) \cup {f}) /\ alloc' = alloc \ {a}
    BY <1>1, <1>4, <1>5, <1>7
  <2> QED
    BY <1>2, <1>6, <2>1, <2>2, HandsRefused
<1>8. CASE q["inputPP"].active
  <2>0. q' = [q EXCEPT !["inputPP"] = Enqueue(@, a)] /\ mem' = m /\ done' = DoneWith(spent) /\ alloc' = alloc
    BY <1>1, <1>8 DEF Pass
  <2>1. /\ QShape' /\ Steady /\ UNCHANGED <<Ongoing, ToEncode, Encoding, Raws>>
        /\ Waiting' = Append(Waiting, a)
    BY <1>3, <1>8, <2>0, QEnqueue, DataIs, QRead, Names
  <2>2. /\ Placed' /\ Memory' /\ Asked' /\ Two(mem'[a]) = {f, mem[a].reproc}
    BY <1>1, <1>2, <1>job, <2>0, <2>1, HandsAgain
  <2>3. JpegPlaced'
    BY <1>3, <2>1, JpegSame
  <2>4. FShape'
    <3>1. done' \in [Frame -> Nat] /\ mem' \in [Blocks -> PPJob] /\ alloc' \subseteq Blocks
      BY <1>3, <1>6, <2>0, DoneIs DEF FShape
    <3> QED
      BY <1>3, <3>1 DEF FShape
  <2>5. Queues'
    BY <1>3, <2>1, QueuesKept
  <2> HIDE DEF a, f
  <2>6. Accounted'
    <3> DEFINE G == {f, mem[a].reproc}
    <3>1. \A b \in alloc \ {a} : Two(mem'[b]) = Two(mem[b])
      BY <1>3, <1>6, <2>0 DEF FShape
    <3>2. spent \cup G = Two(mem[a]) \cup {cb[c].frame} /\ G \cap spent = {}
      BY <1>4 DEF f
    <3>3. Fit(alloc, Rng(ToEncode) \cup Rng(Encoding), Rng(Raws), HeldCbs, mem, cb, seen \ orphans, done)
      BY DEF IInv, Accounted
    <3>5. Two(mem'[a]) = G
      BY <2>2
    <3> HIDE DEF G
    <3>4. Hands(alloc, HeldCbs, a, c, mem, cb, mem', cb', spent, G)
      BY <1>3, <3>1, <3>2 DEF Hands
    <3>6. Fit(alloc, Rng(ToEncode) \cup Rng(Encoding), Rng(Raws), HeldCbs \ {c}, mem', cb',
              seen \ orphans, Plus(done, spent))
      BY <3>3, <3>4, <3>5, FitToPP
    <3> QED
      BY <1>3, <2>0, <2>1, <3>6, DoneIs DEF Accounted
  <2> QED
    BY <1>3, <2>1, <2>2, <2>3, <2>4, <2>5, <2>6 DEF IInv
<1> QED
  BY <1>7, <1>8

-----------------------------------------------------------------------------
(* The invariant holds.                                                    *)

\* What nobody has: the postprocessor before the first start().
LEMMA FitNone ==
  ASSUME NEW m, NEW k, NEW gv, gv = [f \in Frame |-> 0]
  PROVE  Fit({}, {}, {}, {}, m, k, {}, gv)
<1>1. HoldersOf({}, {}, {}, {}) = {}
  BY DEF HoldersOf
<1> QED
  BY <1>1 DEF Fit, Fits

\* The invariant holds at the start.
LEMMA InitIs ==
  ASSUME Init
  PROVE  IInv
<1>1. \A n \in QueueNames : q[n] = NewQueue
  BY DEF Init
<1>2. NewQueue.nodes = << >> /\ NewQueue.active /\ \A D : NewQueue \in QueueOf(D)
  BY DEF NewQueue, QueueOf
<1>3. QShape
  BY <1>1, <1>2, Names DEF QShape, Init
<1>4. /\ Waiting = << >> /\ Ongoing = << >> /\ ToEncode = << >> /\ Encoding = << >> /\ Raws = << >>
  BY <1>1, <1>2, Names DEF Waiting, Ongoing, ToEncode, Encoding, Raws
<1>5. Rng(<< >>) = {} /\ Inj(<< >>)
  BY DEF Rng, Inj
<1>6. DShape
  <2>1. << >> \in FlushLeft /\ << >> \in Seq(Commands)
    BY DEF FlushLeft
  <2>2. 0 \in 0 .. MaxSessions
    BY WorldsAssumption
  <2> QED
    BY <2>1, <2>2 DEF Init, DShape
<1>7. FShape
  <2>1. mem \in [Blocks -> PPJob]
    BY DEF Init, PPJob, NoJob, Channels
  <2>2. cb \in [Channels -> [at : {"idle", "held", "send"}, job : Blocks \cup {0},
                            frame : Outputs \cup {NoFrame}]]
    BY DEF Init, Idle
  <2> QED
    BY <2>1, <2>2 DEF Init, FShape
<1>8. Control
  BY DEF Init, Control, Working
<1>9. HeldCbs = {} /\ HeldJobs = {} /\ Outs = {}
  <2>1. HeldCbs = {}
    BY DEF Init, HeldCbs, Idle
  <2> QED
    BY <2>1 DEF Init, HeldJobs, Outs
<1>10. Queues
  <2>1. ~OffNow
    BY DEF Init, OffNow
  <2> QED
    BY <1>1, <1>2, <1>4, <1>9, <2>1, Names DEF Init, Queues
<1>11. Placed /\ Memory
  BY <1>4, <1>5, <1>9 DEF Init, Placed, Memory
<1>12. JpegPlaced
  BY <1>4, <1>5 DEF Init, JpegPlaced
<1>13. Asked
  <2>1. Len(Ongoing) = 0 /\ Len(hw) = 0
    BY <1>4 DEF Init
  <2> QED
    BY <1>4, <1>9, <2>1 DEF Init, Asked
<1>14. Accounted
  <2>1. /\ alloc = {} /\ Rng(ToEncode) \cup Rng(Encoding) = {} /\ Rng(Raws) = {}
        /\ seen \ orphans = {} /\ done = [f \in Frame |-> 0]
    BY <1>4, <1>5 DEF Init
  <2> QED
    BY <1>9, <2>1, FitNone DEF Accounted
<1> QED
  BY <1>3, <1>6, <1>7, <1>8, <1>10, <1>11, <1>12, <1>13, <1>14 DEF IInv

\* Every step of D keeps it, when no channel refuses a frame.
LEMMA DataProcKeeps ==
  ASSUME IInv, NoRefusal, DataProc
  PROVE  IInv'
<1>1. CASE DStart
  BY <1>1, DStartKeeps
<1>2. CASE DStop
  BY <1>2, DStopKeeps
<1>3. CASE DFlush
  BY <1>3, DFlushKeeps
<1>4. CASE DStopped
  BY <1>4, DStoppedKeeps
<1>5. CASE DDrop
  BY <1>5, DDropKeeps
<1>6. CASE DJpeg
  BY <1>6, DJpegKeeps
<1>7. CASE DEncode
  BY <1>7, DEncodeKeeps
<1>8. CASE DEncodeFails
  BY <1>8, DEncodeFailsKeeps
<1>9. CASE DStoreId
  BY <1>9, DStoreIdKeeps
<1>10. CASE DRaw
  BY <1>10, DRawKeeps
<1>11. CASE DReproc
  BY <1>11, DReprocKeeps
<1>12. CASE DAsk
  BY <1>12, DAskKeeps
<1>13. CASE DAskFails
  BY <1>13 DEF DAskFails, NoRefusal
<1> QED
  BY <1>1, <1>2, <1>3, <1>4, <1>5, <1>6, <1>7, <1>8, <1>9, <1>10, <1>11, <1>12, <1>13 DEF DataProc

\* Every step of a channel's callback keeps it.
LEMMA CallbackKeeps ==
  ASSUME IInv, NEW c \in Channels, Callback(c)
  PROVE  IInv'
<1>1. CASE \E i \in 1 .. Len(hw) : CbTake(c, i)
  BY <1>1, CbTakeKeeps
<1>2. CASE CbRaw(c)
  BY <1>2, CbRawKeeps
<1>3. CASE CbAgain(c)
  BY <1>3, CbAgainKeeps
<1>4. CASE CbDone(c)
  BY <1>4, CbDoneKeeps
<1>5. CASE CbSend(c)
  BY <1>5, CbSendKeeps
<1> QED
  BY <1>1, <1>2, <1>3, <1>4, <1>5 DEF Callback

\* Every step keeps it.
LEMMA StepKeeps ==
  ASSUME IInv, NoRefusal, [Next]_vars
  PROVE  IInv'
<1>1. CASE \E s \in Shots : ProcessData(s)
  BY <1>1, ProcessDataKeeps
<1>2. CASE SourceSends
  BY <1>2, SourceSendsKeeps
<1>3. CASE Start
  BY <1>3, StartKeeps
<1>4. CASE Stop
  BY <1>4, StopKeeps
<1>5. CASE DeleteChannels
  BY <1>5, DeleteChannelsKeeps
<1>6. CASE ProcessJpegEvt
  BY <1>6, ProcessJpegEvtKeeps
<1>7. CASE JpegCallback
  BY <1>7, JpegCallbackKeeps
<1>8. CASE SaveThread
  BY <1>8, SaveStartKeeps, SaveStopKeeps, SaveNextKeeps DEF SaveThread
<1>9. CASE DataProc
  BY <1>9, DataProcKeeps
<1>10. CASE \E c \in Channels : Callback(c)
  BY <1>10, CallbackKeeps
<1>11. CASE UNCHANGED vars
  BY <1>11, StutterKeeps
<1> QED
  BY <1>1, <1>2, <1>3, <1>4, <1>5, <1>6, <1>7, <1>8, <1>9, <1>10, <1>11 DEF Next

\* A world is chosen once.
LEMMA WorldKept ==
  ASSUME [Next]_vars
  PROVE  UNCHANGED world
<1>1. ASSUME NEW s \in Shots, ProcessData(s) PROVE UNCHANGED world
  BY <1>1 DEF ProcessData
<1>2. CASE SourceSends \/ Start \/ Stop \/ DeleteChannels \/ ProcessJpegEvt \/ JpegCallback
  BY <1>2 DEF SourceSends, Start, Stop, DeleteChannels, ProcessJpegEvt, JpegCallback
<1>3. CASE SaveThread
  BY <1>3 DEF SaveThread, SaveStart, SaveStop, SaveNext, SaveUnchanged
<1>4. CASE DataProc
  BY <1>4 DEF DataProc, DStart, DStop, DFlush, DStopped, DDrop, DJpeg, DEncode, DEncodeFails,
              DStoreId, DRaw, DReproc, DAsk, DAskFails, DUnchanged
<1>5. ASSUME NEW c \in Channels, Callback(c) PROVE UNCHANGED world
  BY <1>5 DEF Callback, CbTake, CbRaw, CbAgain, CbDone, CbSend, CbUnchanged
<1>6. CASE UNCHANGED vars
  BY <1>6 DEF vars
<1> QED
  BY <1>1, <1>2, <1>3, <1>4, <1>5, <1>6 DEF Next

\* While no channel refuses a frame, the invariant is kept by every step.
THEOREM InvariantHolds == Spec => [](NoRefusal => IInv)
<1>1. Init => (NoRefusal => IInv)
  BY InitIs
<1>2. (NoRefusal => IInv) /\ [Next]_vars => (NoRefusal => IInv)'
  <2>1. ASSUME [Next]_vars PROVE NoRefusal' <=> NoRefusal
    BY <2>1, WorldKept DEF NoRefusal
  <2> QED
    BY <2>1, StepKeeps
<1> QED
  BY <1>1, <1>2, PTL DEF Spec

-----------------------------------------------------------------------------
(* What the invariant says.                                                *)

\* Who owns a frame has it, or holds the job that has it.
LEMMA OwnersAre ==
  ASSUME IInv, NEW f, NEW o \in Owners(f)
  PROVE  \/ \E a \in Rng(Waiting) \cup Rng(Ongoing) :
              a \in alloc /\ f \in Two(mem[a]) /\ o = <<"pp", a>>
         \/ \E j \in Rng(ToEncode) \cup Rng(Encoding) : f \in JpegFrames(j) /\ o = <<"jpeg", j>>
         \/ f \in Rng(Raws) /\ o = <<"raw", f>>
         \/ \E c \in HeldCbs : (f = cb[c].frame \/ f \in Two(mem[cb[c].job])) /\ o = <<"cb", c>>
<1>1. Rng(Waiting) \cup Rng(Ongoing) \subseteq alloc
  BY DEF IInv, Placed
<1>2. \A a : PPFrames(a) = Two(mem[a])
  BY ClearedIs DEF IInv
<1> QED
  BY <1>1, <1>2, ItemsAre DEF Owners, HeldCbs

\* What a callback holds.
LEMMA HeldHas ==
  ASSUME IInv, NEW c \in HeldCbs
  PROVE  /\ cb[c].job \in alloc /\ cb[c].job \notin Rng(Waiting) \cup Rng(Ongoing)
         /\ \A d \in HeldCbs : c # d => cb[c].job # cb[d].job
BY DEF IInv, Placed, HeldJobs

\* No frame has two owners.
LEMMA OneOwner ==
  ASSUME IInv, NEW f, NEW o \in Owners(f), NEW p \in Owners(f)
  PROVE  o = p
<1> DEFINE J == Rng(ToEncode) \cup Rng(Encoding)
           P == Rng(Waiting) \cup Rng(Ongoing)
<1>1. Fit(alloc, J, Rng(Raws), HeldCbs, mem, cb, seen \ orphans, done)
  BY DEF IInv, Accounted
<1> HIDE DEF J, P
<1>2. /\ \A a, b \in alloc : a # b => Two(mem[a]) \cap Two(mem[b]) = {}
      /\ \A a \in alloc : /\ \A j \in J : Two(mem[a]) \cap JpegFrames(j) = {}
                          /\ Two(mem[a]) \cap Rng(Raws) = {}
                          /\ \A c \in HeldCbs : cb[c].frame \notin Two(mem[a])
      /\ \A j, i \in J : j # i => JpegFrames(j) \cap JpegFrames(i) = {}
      /\ \A j \in J : /\ JpegFrames(j) \cap Rng(Raws) = {}
                      /\ \A c \in HeldCbs : cb[c].frame \notin JpegFrames(j)
      /\ \A c \in HeldCbs : cb[c].frame \notin Rng(Raws)
      /\ \A c, d \in HeldCbs : c # d => cb[c].frame # cb[d].frame
  BY <1>1, FitSays
<1>3. \A c \in HeldCbs : /\ cb[c].job \in alloc /\ cb[c].job \notin P
                         /\ \A d \in HeldCbs : c # d => cb[c].job # cb[d].job
  BY HeldHas DEF P
<1>4. ASSUME NEW r \in Owners(f)
      PROVE  \/ \E a \in P : a \in alloc /\ f \in Two(mem[a]) /\ r = <<"pp", a>>
             \/ \E j \in J : f \in JpegFrames(j) /\ r = <<"jpeg", j>>
             \/ f \in Rng(Raws) /\ r = <<"raw", f>>
             \/ \E c \in HeldCbs : (f = cb[c].frame \/ f \in Two(mem[cb[c].job])) /\ r = <<"cb", c>>
  BY OwnersAre DEF J, P
<1>5. CASE \E a \in P : a \in alloc /\ f \in Two(mem[a]) /\ o = <<"pp", a>>
  <2>1. PICK a \in P : a \in alloc /\ f \in Two(mem[a]) /\ o = <<"pp", a>>
    BY <1>5
  <2>2. \A j \in J : f \notin JpegFrames(j)
    BY <1>2, <2>1
  <2>3. f \notin Rng(Raws)
    BY <1>2, <2>1
  <2>4. \A c \in HeldCbs : f # cb[c].frame /\ f \notin Two(mem[cb[c].job])
    BY <1>2, <1>3, <2>1
  <2>5. PICK b \in P : b \in alloc /\ f \in Two(mem[b]) /\ p = <<"pp", b>>
    BY <1>4, <2>2, <2>3, <2>4
  <2> QED
    BY <1>2, <2>1, <2>5
<1>6. CASE \E j \in J : f \in JpegFrames(j) /\ o = <<"jpeg", j>>
  <2>1. PICK j \in J : f \in JpegFrames(j) /\ o = <<"jpeg", j>>
    BY <1>6
  <2>2. \A a \in alloc : f \notin Two(mem[a])
    BY <1>2, <2>1
  <2>3. f \notin Rng(Raws)
    BY <1>2, <2>1
  <2>4. \A c \in HeldCbs : f # cb[c].frame /\ f \notin Two(mem[cb[c].job])
    BY <1>2, <1>3, <2>1, <2>2
  <2>5. PICK i \in J : f \in JpegFrames(i) /\ p = <<"jpeg", i>>
    BY <1>4, <2>2, <2>3, <2>4
  <2> QED
    BY <1>2, <2>1, <2>5
<1>7. CASE f \in Rng(Raws) /\ o = <<"raw", f>>
  <2>1. \A a \in alloc : f \notin Two(mem[a])
    BY <1>2, <1>7
  <2>2. \A j \in J : f \notin JpegFrames(j)
    BY <1>2, <1>7
  <2>3. \A c \in HeldCbs : f # cb[c].frame /\ f \notin Two(mem[cb[c].job])
    BY <1>2, <1>3, <1>7, <2>1
  <2> QED
    BY <1>4, <1>7, <2>1, <2>2, <2>3
<1>8. CASE \E c \in HeldCbs : (f = cb[c].frame \/ f \in Two(mem[cb[c].job])) /\ o = <<"cb", c>>
  <2>1. PICK c \in HeldCbs : (f = cb[c].frame \/ f \in Two(mem[cb[c].job])) /\ o = <<"cb", c>>
    BY <1>8
  <2>2. \A a \in P : a \in alloc => f \notin Two(mem[a])
    BY <1>2, <1>3, <2>1
  <2>3. \A j \in J : f \notin JpegFrames(j)
    BY <1>2, <1>3, <2>1
  <2>4. f \notin Rng(Raws)
    BY <1>2, <1>3, <2>1
  <2>5. PICK d \in HeldCbs : (f = cb[d].frame \/ f \in Two(mem[cb[d].job])) /\ p = <<"cb", d>>
    BY <1>4, <2>2, <2>3, <2>4
  <2>6. c = d
    BY <1>2, <1>3, <2>1, <2>5
  <2> QED
    BY <2>1, <2>5, <2>6
<1> QED
  BY <1>4, <1>5, <1>6, <1>7, <1>8

\* A frame has an owner if and only if a holder has it.
LEMMA OwnedIs ==
  ASSUME IInv, NEW f
  PROVE  Owners(f) # {} <=> \/ \E a \in alloc : f \in Two(mem[a])
                            \/ \E j \in Rng(ToEncode) \cup Rng(Encoding) : f \in JpegFrames(j)
                            \/ f \in Rng(Raws)
                            \/ \E c \in HeldCbs : f = cb[c].frame
<1>1. \A a : PPFrames(a) = Two(mem[a])
  BY ClearedIs DEF IInv
<1>2. /\ \A a \in Rng(Waiting) \cup Rng(Ongoing) : f \in Two(mem[a]) => <<"pp", a>> \in Owners(f)
      /\ \A j \in Rng(ToEncode) \cup Rng(Encoding) : f \in JpegFrames(j) => <<"jpeg", j>> \in Owners(f)
      /\ f \in Rng(Raws) => <<"raw", f>> \in Owners(f)
      /\ \A c \in HeldCbs :
           f = cb[c].frame \/ f \in Two(mem[cb[c].job]) => <<"cb", c>> \in Owners(f)
  BY <1>1, ItemsAre DEF Owners, HeldCbs
<1>3. \A a \in alloc : a \in Rng(Waiting) \cup Rng(Ongoing) \/ \E c \in HeldCbs : a = cb[c].job
  BY DEF IInv, Placed, HeldJobs
<1>4. ASSUME \/ \E a \in alloc : f \in Two(mem[a])
             \/ \E j \in Rng(ToEncode) \cup Rng(Encoding) : f \in JpegFrames(j)
             \/ f \in Rng(Raws)
             \/ \E c \in HeldCbs : f = cb[c].frame
      PROVE  Owners(f) # {}
  BY <1>2, <1>3, <1>4
<1>5. ASSUME NEW o \in Owners(f)
      PROVE  \/ \E a \in alloc : f \in Two(mem[a])
             \/ \E j \in Rng(ToEncode) \cup Rng(Encoding) : f \in JpegFrames(j)
             \/ f \in Rng(Raws)
             \/ \E c \in HeldCbs : f = cb[c].frame
  BY OwnersAre, HeldHas
<1> QED
  BY <1>4, <1>5

\* What Fit says of the count of a frame.
LEMMA CountIs ==
  ASSUME IInv, NEW f \in Frame
  PROVE  done[f] = IF f \in seen \ orphans /\ Owners(f) = {} THEN 1 ELSE 0
<1> DEFINE J == Rng(ToEncode) \cup Rng(Encoding)
           H == HoldersOf(alloc, J, Rng(Raws), HeldCbs)
           own == [h \in H |-> Own(h, mem, cb)]
<1>1. done[f] = IF f \in seen \ orphans /\ \A h \in H : f \notin own[h] THEN 1 ELSE 0
  BY DEF IInv, Accounted, Fit, Fits
<1>2. \A h \in H : own[h] = Own(h, mem, cb)
  OBVIOUS
<1>3. Owners(f) # {} <=> \/ \E a \in alloc : f \in Two(mem[a])
                         \/ \E j \in J : f \in JpegFrames(j)
                         \/ f \in Rng(Raws)
                         \/ \E c \in HeldCbs : f = cb[c].frame
  BY OwnedIs
<1> HIDE DEF H, own, J
<1>4. (\E h \in H : f \in Own(h, mem, cb)) <=> Owners(f) # {}
  <2>1. ASSUME NEW h \in H, f \in Own(h, mem, cb) PROVE Owners(f) # {}
    <3>1. \/ \E x \in alloc : h = <<"pp", x>>
          \/ \E x \in J : h = <<"jpeg", x>>
          \/ \E x \in Rng(Raws) : h = <<"raw", x>>
          \/ \E x \in HeldCbs : h = <<"cb", x>>
      BY HoldersAre DEF H
    <3>2. CASE \E x \in alloc : h = <<"pp", x>>
      BY <1>3, <2>1, <3>2 DEF Own
    <3>3. CASE \E x \in J : h = <<"jpeg", x>>
      BY <1>3, <2>1, <3>3 DEF Own
    <3>4. CASE \E x \in Rng(Raws) : h = <<"raw", x>>
      BY <1>3, <2>1, <3>4 DEF Own
    <3>5. CASE \E x \in HeldCbs : h = <<"cb", x>>
      BY <1>3, <2>1, <3>5 DEF Own
    <3> QED
      BY <3>1, <3>2, <3>3, <3>4, <3>5
  <2>2. ASSUME Owners(f) # {} PROVE \E h \in H : f \in Own(h, mem, cb)
    <3>1. CASE \E a \in alloc : f \in Two(mem[a])
      <4>1. PICK a \in alloc : f \in Two(mem[a])
        BY <3>1
      <4>2. <<"pp", a>> \in H /\ f \in Own(<<"pp", a>>, mem, cb)
        BY <4>1 DEF H, HoldersOf, Own
      <4> QED
        BY <4>2
    <3>2. CASE \E j \in J : f \in JpegFrames(j)
      <4>1. PICK j \in J : f \in JpegFrames(j)
        BY <3>2
      <4>2. <<"jpeg", j>> \in H /\ f \in Own(<<"jpeg", j>>, mem, cb)
        BY <4>1 DEF H, HoldersOf, Own
      <4> QED
        BY <4>2
    <3>3. CASE f \in Rng(Raws)
      <4>1. <<"raw", f>> \in H /\ f \in Own(<<"raw", f>>, mem, cb)
        BY <3>3 DEF H, HoldersOf, Own
      <4> QED
        BY <4>1
    <3>4. CASE \E c \in HeldCbs : f = cb[c].frame
      <4>1. PICK c \in HeldCbs : f = cb[c].frame
        BY <3>4
      <4>2. <<"cb", c>> \in H /\ f \in Own(<<"cb", c>>, mem, cb)
        BY <4>1 DEF H, HoldersOf, Own
      <4> QED
        BY <4>2
    <3> QED
      BY <1>3, <2>2, <3>1, <3>2, <3>3, <3>4
  <2> QED
    BY <2>1, <2>2
<1> QED
  BY <1>1, <1>2, <1>4

-----------------------------------------------------------------------------
(* Pictures of their shots.                                                *)

\* A JPEG job with a source frame is made of that frame, after every pass.
Made(j) == j.reproc # NoFrame => j.src = [shot |-> j.reproc.shot, pass |-> world.passes]

\* What goes through the passes stays with its source frame, as long as the channels
\* answer in the order they were asked: an ongoing job and an output that are at the same
\* place of their lists belong together.
Paired ==
  /\ \A a \in alloc :
       /\ mem[a].src.shot = mem[a].reproc.shot
       /\ a \in Rng(Waiting) => mem[a].src.pass = mem[a].count
       /\ a \notin Rng(Waiting) => mem[a].src.pass = mem[a].count - 1
  /\ \A c \in HeldCbs : cb[c].frame = Later(mem[cb[c].job].src)
  /\ ~OngoingGone => \A i \in 1 .. Len(hw) : hw[i].out = Later(mem[Ongoing[i]].src)
  /\ \A j \in Rng(ToEncode) \cup Rng(Encoding) : Made(j)

-----------------------------------------------------------------------------
(* Answers.                                                                *)

Saved == q["inputSave"].nodes

\* The shot s has not reached the encoder: its frame is still to come, or waits.
Pending(s) ==
  \/ Source(s) \notin seen
  \/ \E a \in alloc : mem[a].reproc = Source(s)
  \/ \E j \in Rng(ToEncode) : ShotOf(j) = s
  \/ dpc = "encode" /\ ShotOf(Encoding[Len(Encoding)]) = s

\* The encoder has it, or its event is to be handled, now or by the save thread.
Coming(s) ==
  \/ \E e \in encoder : e.shot = s
  \/ \E i \in 1 .. Len(evts) : evts[i].shot = s
  \/ \E i \in 1 .. Len(Saved) : Saved[i].shot = s

\* Without raw pictures a shot waits, then comes, once, then was answered, once.
Once ==
  /\ \A s \in Shots : Coming(s) => ~Pending(s) /\ answers[s] = 0
  /\ \A s \in Shots : answers[s] > 0 => ~Pending(s) /\ answers[s] = 1

\* One of the encoder's jobs or of the events is about a shot.
Comings ==
  /\ \A e, d \in encoder : e.shot = d.shot => e = d
  /\ \A i, j \in 1 .. Len(evts) : evts[i].shot = evts[j].shot => i = j
  /\ \A i, j \in 1 .. Len(Saved) : Saved[i].shot = Saved[j].shot => i = j
  /\ \A e \in encoder : /\ \A i \in 1 .. Len(evts) : evts[i].shot # e.shot
                        /\ \A i \in 1 .. Len(Saved) : Saved[i].shot # e.shot
  /\ \A i \in 1 .. Len(evts), j \in 1 .. Len(Saved) : evts[i].shot # Saved[j].shot

\* The source frame of its shot is with every JPEG job.
Jobs ==
  /\ \A j \in Rng(ToEncode) \cup Rng(Encoding) : Source(ShotOf(j)) \in JpegFrames(j)
  /\ Raws = << >>

JpegAnswers == Once /\ Comings /\ Jobs

\* With raw pictures nothing is encoded, and a frame goes through one pass.
RawPass == IF world.passes = 0 THEN 0 ELSE 1
RawJobs ==
  /\ ToEncode = << >> /\ Encoding = << >> /\ encoder = {} /\ evts = << >> /\ Saved = << >>
  /\ dpc \notin {"encode", "store"}
  /\ \A a \in alloc : mem[a].src.pass = 0
  /\ \A i \in 1 .. Len(hw) : hw[i].out.pass = 1
  /\ \A c \in HeldCbs : cb[c].frame.pass = 1
  /\ \A f \in Rng(Raws) : f.pass = RawPass

\* A shot is answered when the frame that is its picture leaves the postprocessor.
RawOnce == \A s \in Shots : answers[s] <= done[[shot |-> s, pass |-> RawPass]]

RawAnswers == RawJobs /\ RawOnce

PairInv == world.ordered => Paired
JpegAnsInv == ~world.raw => JpegAnswers
RawAnsInv == world.raw => RawAnswers

PicturesInv == PairInv /\ JpegAnsInv /\ RawAnsInv

\* Two JPEG jobs of the same frames.
Alike(j, i) == j.src = i.src /\ j.reproc = i.reproc

\* Nothing is added to the jobs, and what stays is as it was.
JobsShrink ==
  /\ world' = world /\ seen \subseteq seen'
  /\ alloc' \subseteq alloc
  /\ \A a \in alloc' : mem'[a] = mem[a] /\ (a \in Rng(Waiting') <=> a \in Rng(Waiting))
  /\ HeldCbs' \subseteq HeldCbs /\ \A c \in HeldCbs' : cb'[c] = cb[c]
  /\ Rng(ToEncode') \subseteq Rng(ToEncode)
  /\ \A j \in Rng(Encoding') : \E i \in Rng(ToEncode) \cup Rng(Encoding) : Alike(j, i)

Shrinks ==
  /\ JobsShrink
  /\ Rng(Raws') \subseteq Rng(Raws)
  /\ \A f \in Frame : done'[f] >= done[f]

\* The ongoing jobs and their outputs stay together, or have come apart already.
Together == \/ hw' = << >> \/ OngoingGone'
            \/ ~OngoingGone /\ UNCHANGED <<hw, Ongoing>>

\* No shot comes, and none is answered.
NoNews == /\ UNCHANGED <<evts, answers>> /\ encoder' \subseteq encoder /\ Saved' \in {Saved, << >>}
          /\ dpc' \in {"encode", "store"} => dpc' = dpc /\ Encoding' = Encoding

Quiet == Shrinks /\ Together /\ NoNews /\ hw' \in {hw, << >>}

\* Where pp jobs are, and what they are.
LEMMA OnLists ==
  ASSUME IInv
  PROVE  /\ Rng(Waiting) \cup Rng(Ongoing) \subseteq alloc
         /\ \A c \in HeldCbs : cb[c].job \in alloc /\ cb[c].job \notin Rng(Waiting)
         /\ \A a \in alloc : /\ mem[a].src \in Frame /\ mem[a].reproc \in Frame
                             /\ mem[a].reproc = Source(mem[a].reproc.shot)
                             /\ mem[a].count \in Nat
<1>1. \A c \in HeldCbs : cb[c].job \in HeldJobs
  BY DEF HeldJobs
<1>2. \A a \in alloc : a \in Blocks /\ mem[a] \in PPJob
  BY DEF IInv, FShape
<1>3. \A a \in alloc : mem[a].src \in Frame /\ mem[a].reproc \in Frame /\ mem[a].reproc.pass = 0
  BY DEF IInv, Memory
<1>4. \A f \in Frame : f.pass = 0 => f = Source(f.shot)
  BY DEF Frame, Source
<1>5. \A a \in alloc : mem[a].count \in Nat
  BY <1>2 DEF PPJob
<1> QED
  BY <1>1, <1>3, <1>4, <1>5 DEF IInv, Placed

\* Jobs and outputs stay paired when no job is added.
LEMMA PairKept ==
  ASSUME IInv, IInv', PairInv, JobsShrink, Together
  PROVE  PairInv'
<1> SUFFICES ASSUME world.ordered, Paired PROVE Paired'
  BY DEF PairInv, JobsShrink
<1>1. ASSUME NEW a \in alloc'
      PROVE  /\ mem'[a].src.shot = mem'[a].reproc.shot
             /\ a \in Rng(Waiting') => mem'[a].src.pass = mem'[a].count
             /\ a \notin Rng(Waiting') => mem'[a].src.pass = mem'[a].count - 1
  BY DEF Paired, JobsShrink
<1>2. ASSUME NEW c \in HeldCbs' PROVE cb'[c].frame = Later(mem'[cb'[c].job].src)
  <2>1. cb'[c].job \in alloc'
    BY DEF IInv, Placed, HeldJobs
  <2> QED
    BY <2>1 DEF Paired, JobsShrink
<1>3. ASSUME ~OngoingGone', NEW i \in 1 .. Len(hw')
      PROVE  hw'[i].out = Later(mem'[Ongoing'[i]].src)
  <2>1. CASE hw' = << >>
    BY <2>1
  <2>2. CASE ~OngoingGone /\ UNCHANGED <<hw, Ongoing>>
    <3>1. Len(Ongoing) >= Len(hw) /\ Len(hw) \in Nat
      BY <2>2 DEF IInv, Asked, FShape
    <3>2. Ongoing \in Seq(Blocks)
      BY QRead DEF IInv
    <3>3. i \in 1 .. Len(Ongoing')
      BY <2>2, <3>1, <3>2
    <3>4. Ongoing'[i] \in Rng(Ongoing')
      BY <3>3 DEF Rng
    <3>5. Ongoing'[i] \in alloc'
      BY <3>4 DEF IInv, Placed
    <3> QED
      BY <2>2, <3>5 DEF Paired, JobsShrink
  <2> QED
    BY <1>3, <2>1, <2>2 DEF Together
<1>4. \A j \in Rng(ToEncode') \cup Rng(Encoding') : Made(j)'
  <2>1. \A j, i : Alike(j, i) /\ Made(i) => Made(j)'
    BY DEF Alike, Made, JobsShrink
  <2>2. \A j : Alike(j, j)
    BY DEF Alike
  <2> QED
    BY <2>1, <2>2 DEF Paired, JobsShrink
<1> QED
  BY <1>1, <1>2, <1>3, <1>4 DEF Paired

\* A shot that is not pending stays so.
LEMMA PendingKept ==
  ASSUME JobsShrink, dpc' = "encode" => dpc = "encode" /\ Encoding' = Encoding, NEW s \in Shots
  PROVE  Pending(s)' => Pending(s)
BY DEF JobsShrink, Pending

\* A list without elements is empty.
LEMMA RngEmpty ==
  ASSUME NEW T, NEW s \in Seq(T), Rng(s) = {}
  PROVE  s = << >>
<1>1. ASSUME s # << >> PROVE FALSE
  BY <1>1, TailIs
<1> QED
  BY <1>1

\* The JPEG jobs keep their source frames.
LEMMA JobsKept ==
  ASSUME IInv, IInv', Jobs, Shrinks
  PROVE  Jobs'
<1>1. Rng(Raws) = {}
  BY DEF Jobs, Rng
<1>2. Raws' \in Seq(Frame)
  BY DEF IInv, QShape, QueueOf, Raws
<1>3. Raws' = << >>
  BY <1>1, <1>2, RngEmpty DEF Shrinks
<1>4. \A j, i : Alike(j, i) => ShotOf(j) = ShotOf(i) /\ JpegFrames(j) = JpegFrames(i)
  BY DEF Alike, ShotOf, JpegFrames
<1>5. \A j \in Rng(ToEncode') \cup Rng(Encoding') : \E i \in Rng(ToEncode) \cup Rng(Encoding) : Alike(j, i)
  BY DEF Shrinks, JobsShrink, Alike
<1> QED
  BY <1>3, <1>4, <1>5 DEF Jobs

\* No shot comes to the encoder.
LEMMA ComingsKept ==
  ASSUME Comings, NoNews
  PROVE  Comings' /\ \A s \in Shots : Coming(s)' => Coming(s)
BY DEF Comings, NoNews, Coming

\* A world of raw pictures stays one.
LEMMA RawKept ==
  ASSUME IInv, IInv', RawJobs, Shrinks, NoNews, hw' \in {hw, << >>}
  PROVE  RawJobs'
<1>1. Rng(<< >>) = {}
  BY DEF Rng
<1>2. /\ ToEncode' = << >> /\ Encoding' = << >>
  <2>1. ToEncode' \in Seq(JpegJob) /\ Encoding' \in Seq(JpegJob)
    BY Names DEF IInv, QShape, QueueOf, ToEncode, Encoding
  <2>2. Rng(ToEncode') = {} /\ Rng(Encoding') = {}
    BY <1>1 DEF RawJobs, Shrinks, JobsShrink
  <2> QED
    BY <2>1, <2>2, RngEmpty
<1>3. encoder' = {} /\ evts' = << >> /\ Saved' = << >> /\ dpc' \notin {"encode", "store"}
  BY DEF RawJobs, NoNews
<1>4. \A a \in alloc' : mem'[a].src.pass = 0
  BY DEF RawJobs, Shrinks, JobsShrink
<1>5. \A i \in 1 .. Len(hw') : hw'[i].out.pass = 1
  BY DEF RawJobs
<1>6. \A c \in HeldCbs' : cb'[c].frame.pass = 1
  BY DEF RawJobs, Shrinks, JobsShrink
<1>7. RawPass' = RawPass
  BY DEF RawPass, Shrinks, JobsShrink
<1>8. \A f \in Rng(Raws') : f.pass = RawPass'
  BY <1>7 DEF RawJobs, Shrinks
<1> QED
  BY <1>2, <1>3, <1>4, <1>5, <1>6, <1>8 DEF RawJobs

\* No answer outruns the frames that left the postprocessor.
LEMMA RawOnceKept ==
  ASSUME IInv, IInv', RawOnce, world' = world, UNCHANGED answers,
         \A f \in Frame : done'[f] >= done[f]
  PROVE  RawOnce'
<1>1. RawPass' = RawPass /\ \A s \in Shots : [shot |-> s, pass |-> RawPass] \in Frame
  BY DEF RawPass, Frame, MaxPass
<1>2. ASSUME NEW s \in Shots PROVE answers'[s] <= done'[[shot |-> s, pass |-> RawPass]]
  <2> DEFINE f == [shot |-> s, pass |-> RawPass]
  <2>1. f \in Frame /\ done'[f] >= done[f] /\ answers[s] <= done[f]
    BY <1>1 DEF RawOnce
  <2>2. done[f] \in Nat /\ done'[f] \in Nat /\ answers[s] \in Nat /\ answers' = answers
    BY <2>1 DEF IInv, FShape
  <2> QED
    BY <2>1, <2>2
<1> QED
  BY <1>1, <1>2 DEF RawOnce

\* A quiet step keeps the invariant of the pictures.
LEMMA QuietKeeps ==
  ASSUME IInv, IInv', PicturesInv, Quiet
  PROVE  PicturesInv'
<1>1. PairInv'
  BY PairKept DEF PicturesInv, Quiet, Shrinks
<1>2. JpegAnsInv'
  <2> SUFFICES ASSUME ~world.raw, JpegAnswers PROVE JpegAnswers'
    BY DEF JpegAnsInv, PicturesInv, Quiet, Shrinks, JobsShrink
  <2>1. Once /\ Comings /\ Jobs
    BY DEF JpegAnswers
  <2>2. Comings' /\ \A s \in Shots : Coming(s)' => Coming(s)
    BY <2>1, ComingsKept DEF Quiet
  <2>3. \A s \in Shots : Pending(s)' => Pending(s)
    BY PendingKept DEF Quiet, NoNews, Shrinks
  <2>4. Jobs'
    BY <2>1, JobsKept DEF Quiet
  <2>5. Once'
    BY <2>1, <2>2, <2>3 DEF Once, Quiet, NoNews
  <2> QED
    BY <2>2, <2>4, <2>5 DEF JpegAnswers
<1>3. RawAnsInv'
  <2> SUFFICES ASSUME world.raw, RawAnswers PROVE RawAnswers'
    BY DEF RawAnsInv, PicturesInv, Quiet, Shrinks, JobsShrink
  <2>1. RawJobs /\ RawOnce
    BY DEF RawAnswers
  <2>2. RawJobs'
    BY <2>1, RawKept DEF Quiet
  <2>3. RawOnce'
    BY <2>1, RawOnceKept DEF Quiet, Shrinks, JobsShrink, NoNews
  <2> QED
    BY <2>2, <2>3 DEF RawAnswers
<1> QED
  BY <1>1, <1>2, <1>3 DEF PicturesInv

-----------------------------------------------------------------------------
(* The steps that are quiet.                                               *)

\* Frames that left the postprocessor stay away.
LEMMA DoneGrows ==
  ASSUME IInv, done' = done \/ \E S : done' = DoneWith(S)
  PROVE  \A f \in Frame : done'[f] >= done[f]
<1>1. done \in [Frame -> Nat]
  BY DEF IInv, FShape
<1>2. ASSUME NEW S, NEW f \in Frame PROVE DoneWith(S)[f] >= done[f]
  BY <1>1 DEF DoneWith
<1>3. \A f \in Frame : done[f] >= done[f]
  BY <1>1
<1> QED
  BY <1>2, <1>3

\* No queue of jobs or frames is touched.
Resting ==
  /\ UNCHANGED <<world, Waiting, ToEncode, Encoding, Raws, mem, alloc, evts, answers>>
  /\ seen \subseteq seen'
  /\ HeldCbs' = HeldCbs /\ (\A c \in HeldCbs : cb'[c] = cb[c])
  /\ done' = done \/ \E S : done' = DoneWith(S)
  /\ encoder' \subseteq encoder /\ Saved' \in {Saved, << >>}
  /\ dpc' \in {"encode", "store"} => dpc' = dpc
  /\ hw' = << >> \/ (UNCHANGED <<hw, Ongoing>> /\ (OngoingGone => OngoingGone'))

\* A step that touches no job is quiet.
LEMMA RestingQuiet ==
  ASSUME IInv, Resting
  PROVE  Quiet
<1>1. \A f \in Frame : done'[f] >= done[f]
  BY DoneGrows DEF Resting
<1>2. Shrinks
  BY <1>1 DEF Resting, Shrinks, JobsShrink, Alike
<1>3. Together /\ NoNews /\ hw' \in {hw, << >>}
  BY DEF Resting, Together, NoNews
<1> QED
  BY <1>2, <1>3 DEF Quiet

\* The queues are as they were.
LEMMA QueuesRest ==
  ASSUME UNCHANGED q
  PROVE  UNCHANGED <<Waiting, Ongoing, ToEncode, Encoding, Raws, Saved>>
BY DEF Waiting, Ongoing, ToEncode, Encoding, Raws, Saved

\* The callbacks are as they were.
LEMMA CbsRest ==
  ASSUME UNCHANGED cb
  PROVE  HeldCbs' = HeldCbs /\ \A c \in HeldCbs : cb'[c] = cb[c]
BY DEF HeldCbs

\* The source channel's message and the state machine's calls are quiet.
LEMMA MachineQuiet ==
  ASSUME IInv, SourceSends \/ Start \/ Stop \/ DeleteChannels \/ UNCHANGED vars
  PROVE  Quiet
<1>1. CASE SourceSends
  BY <1>1, QueuesRest, CbsRest, RestingQuiet
     DEF SourceSends, Resting, queueVars, dVars, smVars, jpegVars, frameVars, OngoingGone, Left
<1>2. CASE Start
  BY <1>2, QueuesRest, CbsRest, RestingQuiet
     DEF Start, Resting, queueVars, dVars, jpegVars, frameVars, OngoingGone, Left
<1>3. CASE Stop
  BY <1>3, QueuesRest, CbsRest, RestingQuiet
     DEF Stop, Resting, queueVars, dVars, jpegVars, frameVars, OngoingGone, Left
<1>4. CASE DeleteChannels
  BY <1>4, QueuesRest, CbsRest, RestingQuiet DEF DeleteChannels, Resting, queueVars, dVars, jpegVars
<1>5. CASE UNCHANGED vars
  BY <1>5, QueuesRest, CbsRest, RestingQuiet
     DEF vars, Resting, queueVars, dVars, smVars, jpegVars, frameVars, OngoingGone, Left
<1> QED
  BY <1>1, <1>2, <1>3, <1>4, <1>5

\* The queue of events to save is set.
LEMMA SaveSet ==
  ASSUME IInv, NEW v \in QueueOf(JpegEvt), q' = [q EXCEPT !["inputSave"] = v]
  PROVE  UNCHANGED <<Waiting, Ongoing, ToEncode, Encoding, Raws>> /\ Saved' = v.nodes
<1>1. QShape /\ "inputSave" \in QueueNames /\ v \in QueueOf(DataOf("inputSave"))
  BY Names, DataIs DEF IInv
<1> QED
  BY <1>1, QSet DEF Saved

\* START and STOP of the save thread are quiet.
LEMMA SaveQuiet ==
  ASSUME IInv, SaveStart \/ SaveStop
  PROVE  Quiet
<1>0. q["inputSave"] \in QueueOf(JpegEvt) /\ (~q["inputSave"].active => Saved = << >>)
  BY Names DEF IInv, QShape, Queues, Saved
<1>1. CASE SaveStart
  <2>1. InitQueue(q["inputSave"]) \in QueueOf(JpegEvt) /\ InitQueue(q["inputSave"]).nodes = Saved
    BY <1>0 DEF QueueOf, InitQueue, Saved
  <2>2. UNCHANGED <<Waiting, Ongoing, ToEncode, Encoding, Raws>> /\ Saved' = Saved
    BY <1>1, <2>1, SaveSet DEF SaveStart
  <2> QED
    BY <1>1, <2>2, CbsRest, RestingQuiet
       DEF SaveStart, SaveUnchanged, smVars, jpegVars, Resting, OngoingGone, Left
<1>2. CASE SaveStop
  <2>1. Flush(q["inputSave"]) \in QueueOf(JpegEvt) /\ Flush(q["inputSave"]).nodes = << >>
    BY <1>0 DEF QueueOf, Flush, Saved
  <2>2. UNCHANGED <<Waiting, Ongoing, ToEncode, Encoding, Raws>> /\ Saved' = << >>
    <3> DEFINE v == Flush(q["inputSave"])
    <3>1. q' = [q EXCEPT !["inputSave"] = v] /\ v \in QueueOf(JpegEvt) /\ v.nodes = << >>
      BY <1>2, <2>1 DEF SaveStop
    <3> HIDE DEF v
    <3> QED
      BY <3>1, SaveSet
  <2>3. sBox \in Seq(Commands) /\ sBox # << >> /\ Head(sBox) = "stop"
    BY <1>2 DEF SaveStop, IInv, DShape
  <2>4. dpc = "save" /\ sm = "stop"
    BY <2>3, TakenIs DEF IInv, Control
  <2>5. ~OngoingGone
    BY <2>4 DEF OngoingGone
  <2> QED
    BY <1>2, <2>2, <2>5, CbsRest, RestingQuiet DEF SaveStop, SaveUnchanged, smVars, jpegVars, Resting
<1> QED
  BY <1>1, <1>2

\* START opens the queues as they are.
LEMMA DStartQuiet ==
  ASSUME IInv, DStart
  PROVE  Quiet
<1>1. /\ dpc = "idle" /\ dBox # << >> /\ Head(dBox) = "start" /\ dBox \in Seq(Commands)
  BY DEF DStart, Takes, IInv, DShape
<1>2. ~OngoingGone
  <2>1. sm = "start"
    BY <1>1, TakenIs DEF IInv, Control
  <2> QED
    BY <1>1, <2>1 DEF OngoingGone
<1>3. \A n \in QueueNames : q'[n].nodes = q[n].nodes
  BY DEF DStart, IInv, QShape, InitQueue, QueueOf
<1>4. UNCHANGED <<Waiting, Ongoing, ToEncode, Encoding, Raws, Saved>>
  BY <1>3, Names DEF Waiting, Ongoing, ToEncode, Encoding, Raws, Saved
<1> QED
  BY <1>2, <1>4, CbsRest, RestingQuiet DEF DStart, Resting, jpegVars, frameVars

\* STOP, before and after the queues are flushed.
LEMMA DStopQuiet ==
  ASSUME IInv, DStop \/ DStopped
  PROVE  Quiet
<1>1. CASE DStop
  BY <1>1, QueuesRest, CbsRest, RestingQuiet
     DEF DStop, Takes, DUnchanged, queueVars, Resting, OngoingGone, Left
<1>2. CASE DStopped
  BY <1>2, QueuesRest, CbsRest, RestingQuiet
     DEF DStopped, DUnchanged, queueVars, Resting, OngoingGone, Left
<1> QED
  BY <1>1, <1>2

\* A callback's message to D.
LEMMA CbSendQuiet ==
  ASSUME IInv, NEW c \in Channels, CbSend(c)
  PROVE  Quiet
<1>1. HeldCbs' = HeldCbs /\ \A d \in HeldCbs : cb'[d] = cb[d]
  <2>1. cb[c].at = "send" /\ cb' = [cb EXCEPT ![c] = Idle] /\ Idle.at = "idle" /\ FShape
    BY DEF CbSend, Idle, IInv
  <2> QED
    BY <2>1 DEF HeldCbs, FShape
<1> QED
  BY <1>1, QueuesRest, RestingQuiet
     DEF CbSend, CbUnchanged, queueVars, dVars, smVars, jpegVars, frameVars, Resting, OngoingGone, Left

\* Nothing to do for D.
LEMMA DNothingQuiet ==
  ASSUME IInv, DUnchanged, UNCHANGED <<q, mem, alloc, hw, done, answers, encoder, sm, flushing>>,
         dpc \in Working \cup {"idle"}, dpc' \in {"idle", "raw", "reproc"}
  PROVE  Quiet
<1>1. OngoingGone => OngoingGone'
  BY DEF OngoingGone, Working
<1> QED
  BY <1>1, QueuesRest, CbsRest, RestingQuiet DEF DUnchanged, Resting

\* What D drops goes; the rest stays.
LEMMA DFlushQuiet ==
  ASSUME IInv, IInv', DFlush
  PROVE  Quiet
<1> DEFINE n == Head(flushing)
           v == IF n = "ongoingJpeg" THEN NewQueue ELSE Flush(q[n])
<1>1. /\ UNCHANGED <<world, dpc, sm, cb, hw, evts, seen, orphans, answers>>
      /\ dpc = "flush" /\ flushing # << >> /\ flushing' = Tail(flushing)
      /\ q' = [q EXCEPT ![n] = v] /\ mem' = Cleared(BlocksOn(n)) /\ alloc' = alloc \ BlocksOn(n)
      /\ encoder' \subseteq encoder /\ (done' = done \/ \E S : done' = DoneWith(S))
      /\ FShape /\ QShape
  BY DEF DFlush, DUnchanged, IInv
<1>2. /\ n \in Opened \cup {"ongoingJpeg"} /\ Left = Left' \cup {n}
      /\ n = "ongoingPP" => "ongoingPP" \notin Left'
  BY <1>1, FlushIs DEF IInv, DShape, Left
<1>3. n \in QueueNames /\ n # "inputSave"
  BY <1>2, Names DEF Opened
<1>4. v \in QueueOf(DataOf(n)) /\ v.nodes = << >>
  <2> DEFINE D == DataOf(n)
  <2>1. q[n] \in QueueOf(D) /\ (~q[n].active => q[n].nodes = << >>)
    BY <1>3 DEF IInv, QShape, Queues, DataOf, QueueNames, PPQueues, JpegQueues
  <2> HIDE DEF D
  <2>2. << >> \in Seq(D)
    OBVIOUS
  <2>3. v \in QueueOf(D) /\ v.nodes = << >>
    BY <2>1, <2>2 DEF QueueOf, Flush, NewQueue
  <2> QED
    BY <2>3 DEF D
<1> HIDE DEF v
<1>5. /\ \A l \in QueueNames : l # n => q'[l] = q[l]
      /\ Waiting' = (IF n = "inputPP" THEN << >> ELSE Waiting)
      /\ Ongoing' = (IF n = "ongoingPP" THEN << >> ELSE Ongoing)
      /\ ToEncode' = (IF n = "inputJpeg" THEN << >> ELSE ToEncode)
      /\ Encoding' = (IF n = "ongoingJpeg" THEN << >> ELSE Encoding)
      /\ Raws' = (IF n = "inputRaw" THEN << >> ELSE Raws)
  BY <1>1, <1>3, <1>4, QSet
<1>6. Saved' = Saved /\ HeldCbs' = HeldCbs /\ (\A c \in HeldCbs : cb'[c] = cb[c]) /\ Rng(<< >>) = {}
  BY <1>1, <1>3, <1>5, Names DEF Saved, HeldCbs, Rng
<1>7. Together
  <2>1. CASE n = "ongoingPP"
    BY <1>1, <1>2, <2>1 DEF Together, OngoingGone
  <2>2. CASE n # "ongoingPP"
    BY <1>1, <1>2, <1>5, <2>2 DEF Together, OngoingGone
  <2> QED
    BY <2>1, <2>2
<1>8. n = "inputPP" => BlocksOn(n) = Rng(Waiting)
  BY <1>1, FramesOnAre
<1> HIDE DEF n
<1>9. \A a \in alloc' : mem'[a] = mem[a] /\ (a \in Rng(Waiting') <=> a \in Rng(Waiting))
  <2>1. ASSUME NEW a \in alloc' PROVE mem'[a] = mem[a] /\ a \notin BlocksOn(n)
    BY <1>1, ClearedIs DEF FShape
  <2> QED
    BY <1>5, <1>6, <1>8, <2>1
<1>10. \A f \in Frame : done'[f] >= done[f]
  BY <1>1, DoneGrows
<1>11. Shrinks
  BY <1>1, <1>5, <1>6, <1>9, <1>10 DEF Shrinks, JobsShrink, Alike
<1>12. NoNews
  BY <1>1, <1>6 DEF NoNews
<1> QED
  BY <1>1, <1>7, <1>11, <1>12 DEF Quiet

\* Taking the first element adds nothing.
LEMMA DroppedIs ==
  ASSUME NEW D, NEW x \in QueueOf(D)
  PROVE  Rng((IF CanDequeue(x) THEN DequeueHead(x) ELSE x).nodes) \subseteq Rng(x.nodes)
<1>1. CASE CanDequeue(x)
  <2>1. x.nodes # << >> /\ x.nodes \in Seq(D) /\ DequeueHead(x).nodes = Tail(x.nodes)
    BY <1>1, DequeueIs
  <2> QED
    BY <1>1, <2>1, TailIs
<1>2. CASE ~CanDequeue(x)
  BY <1>2
<1> QED
  BY <1>1, <1>2

\* Jobs D drops while it is not active.
LEMMA DDropQuiet ==
  ASSUME IInv, DDrop
  PROVE  Quiet
<1> DEFINE Rest(n) == IF CanDequeue(q[n]) THEN DequeueHead(q[n]) ELSE q[n]
           gone == IF q["inputPP"].active THEN Items("inputPP") ELSE {}
<1>1. /\ UNCHANGED <<world, dpc, sm, cb, hw, encoder, evts, seen, orphans, answers, flushing>>
      /\ FShape /\ QShape /\ dpc = "idle"
  BY DEF DDrop, Takes, DUnchanged, dVars, IInv
<1>2. /\ q' = [q EXCEPT !["inputJpeg"] = Rest("inputJpeg"), !["inputRaw"] = Rest("inputRaw"),
                        !["inputPP"] = Flush(@)]
      /\ mem' = Cleared(gone) /\ alloc' = alloc \ gone
      /\ \E S : done' = DoneWith(S)
  BY DEF DDrop
<1>3. gone = Rng(Waiting) /\ Flush(q["inputPP"]).nodes = << >>
  <2>1. q["inputPP"] \in QueueOf(Blocks) /\ (~q["inputPP"].active => q["inputPP"].nodes = << >>)
    BY QRead, Names DEF IInv, Queues
  <2> QED
    BY <2>1, ItemsAre DEF QueueOf, Flush, Waiting, Rng
<1>4. /\ q'["inputJpeg"] = Rest("inputJpeg") /\ q'["inputRaw"] = Rest("inputRaw")
      /\ q'["inputPP"] = Flush(q["inputPP"])
      /\ \A n \in QueueNames \ {"inputJpeg", "inputRaw", "inputPP"} : q'[n] = q[n]
  <2>1. q = [n \in QueueNames |-> q[n]]
    BY <1>1, QRead
  <2> QED
    BY <1>2, <2>1, Names
<1> HIDE DEF gone
<1>5. Rng(ToEncode') \subseteq Rng(ToEncode) /\ Rng(Raws') \subseteq Rng(Raws)
  <2>1. q["inputJpeg"] \in QueueOf(JpegJob) /\ q["inputRaw"] \in QueueOf(Frame)
    BY <1>1, QRead
  <2> QED
    BY <1>4, <2>1, DroppedIs DEF ToEncode, Raws
<1>6. Waiting' = << >> /\ UNCHANGED <<Ongoing, Encoding, Saved>> /\ Rng(<< >>) = {}
  BY <1>3, <1>4, Names DEF Waiting, Ongoing, Encoding, Saved, Rng
<1>7. \A a \in alloc' : mem'[a] = mem[a] /\ a \notin Rng(Waiting)
  BY <1>1, <1>2, <1>3, ClearedIs DEF FShape
<1>8. \A f \in Frame : done'[f] >= done[f]
  BY <1>2, DoneGrows
<1>9. Shrinks
  BY <1>1, <1>2, <1>5, <1>6, <1>7, <1>8 DEF Shrinks, JobsShrink, Alike, HeldCbs
<1>10. Together
  BY <1>1, <1>6 DEF Together, OngoingGone
<1>11. NoNews
  BY <1>1, <1>6 DEF NoNews
<1> QED
  BY <1>1, <1>9, <1>10, <1>11 DEF Quiet

-----------------------------------------------------------------------------
(* The encoder and its events.                                             *)

\* The pp jobs stay as they are.
EncoderStep ==
  /\ UNCHANGED <<world, Waiting, Ongoing, Raws, mem, alloc, cb, hw, seen>>
  /\ OngoingGone => OngoingGone'
  /\ Rng(ToEncode') \subseteq Rng(ToEncode)
  /\ \A j \in Rng(Encoding') : \E i \in Rng(ToEncode) \cup Rng(Encoding) : Alike(j, i)
  /\ done' = done \/ \E S : done' = DoneWith(S)

\* A step of D or of the state machine with the encoder adds no job.
LEMMA EncoderShrinks ==
  ASSUME IInv, EncoderStep
  PROVE  Shrinks /\ Together
<1>1. \A f \in Frame : done'[f] >= done[f]
  BY DoneGrows DEF EncoderStep
<1>2. HeldCbs' = HeldCbs /\ \A c \in HeldCbs : cb'[c] = cb[c]
  BY CbsRest DEF EncoderStep
<1>3. Shrinks
  BY <1>1, <1>2 DEF EncoderStep, Shrinks, JobsShrink
<1>4. Together
  BY DEF EncoderStep, Together
<1> QED
  BY <1>3, <1>4

\* With raw pictures there is nothing to encode: what is left is whether each shot is
\* answered once.
LEMMA EncoderKeeps ==
  ASSUME IInv, IInv', PicturesInv, ~world.raw, EncoderStep, Once', Comings'
  PROVE  PicturesInv'
<1>1. Shrinks /\ Together /\ world' = world
  BY EncoderShrinks DEF EncoderStep
<1>2. PairInv'
  BY <1>1, PairKept DEF PicturesInv, Shrinks
<1>3. Jobs'
  BY <1>1, JobsKept DEF PicturesInv, JpegAnsInv, JpegAnswers
<1> QED
  BY <1>1, <1>2, <1>3 DEF PicturesInv, JpegAnsInv, RawAnsInv, JpegAnswers

\* A shot is answered once as long as none goes back to waiting or coming.
LEMMA OnceKept ==
  ASSUME Once, UNCHANGED answers, \A s \in Shots : (Pending(s)' => Pending(s)) /\ (Coming(s)' => Coming(s))
  PROVE  Once'
BY DEF Once

\* Without raw pictures, and with them.
LEMMA Jpegs ==
  ASSUME IInv, PicturesInv
  PROVE  /\ ~world.raw => Once /\ Comings /\ Jobs
         /\ world.raw => RawJobs /\ RawOnce
BY DEF PicturesInv, JpegAnsInv, RawAnsInv, JpegAnswers, RawAnswers

\* A job is like itself.
LEMMA AlikeItself == \A j : Alike(j, j)
BY DEF Alike

\* The next JPEG job goes from one queue to the other.
LEMMA DJpegTakes ==
  ASSUME IInv, IInv', PicturesInv, DJpeg, CanDequeue(q["inputJpeg"])
  PROVE  PicturesInv'
<1> DEFINE j == Head(ToEncode)
<1>1. /\ UNCHANGED <<world, mem, alloc, flushing, sm, cb, hw, encoder, evts, seen, done, answers>>
      /\ dpc = "idle" /\ dpc' = "encode" /\ q["ongoingJpeg"].active
      /\ q' = [q EXCEPT !["inputJpeg"] = DequeueHead(@),
                        !["ongoingJpeg"] = Enqueue(@, First(q["inputJpeg"]))]
  BY DEF DJpeg, Takes, DUnchanged, IInv, Queues
<1>2. /\ UNCHANGED <<Waiting, Ongoing, Raws, Saved>>
      /\ ToEncode \in Seq(JpegJob) /\ ToEncode # << >> /\ Encoding \in Seq(JpegJob)
      /\ ToEncode' = Tail(ToEncode) /\ Encoding' = Append(Encoding, j)
  <2>1. /\ "inputJpeg" \in QueueNames /\ "ongoingJpeg" \in QueueNames
        /\ DataOf("inputJpeg") = JpegJob /\ DataOf("ongoingJpeg") = JpegJob
        /\ "inputJpeg" # "ongoingJpeg"
    BY Names, DataIs
  <2>2. /\ \A n \in QueueNames \ {"inputJpeg", "ongoingJpeg"} : q'[n] = q[n]
        /\ ToEncode \in Seq(JpegJob) /\ ToEncode # << >> /\ Encoding \in Seq(JpegJob)
        /\ q'["inputJpeg"].nodes = Tail(ToEncode) /\ q'["ongoingJpeg"].nodes = Append(Encoding, Head(ToEncode))
    BY <1>1, <2>1, QMove DEF ToEncode, Encoding
  <2> QED
    BY <2>2, Names DEF Waiting, Ongoing, ToEncode, Encoding, Raws, Saved
<1>3. j \in JpegJob /\ j \in Rng(ToEncode) /\ Rng(ToEncode') \subseteq Rng(ToEncode)
  BY <1>2, TailIs
<1> HIDE DEF j
<1>4. Encoding'[Len(Encoding')] = j /\ Rng(Encoding') = Rng(Encoding) \cup {j}
  BY <1>2, <1>3, AppendIs
<1>5. ~world.raw
  BY <1>3, Jpegs DEF RawJobs, Rng
<1>6. EncoderStep
  BY <1>1, <1>2, <1>3, <1>4, AlikeItself DEF EncoderStep, OngoingGone
<1>7. \A s \in Shots : (Pending(s)' => Pending(s)) /\ (Coming(s)' => Coming(s))
  <2>1. ASSUME NEW s \in Shots, Pending(s)' PROVE Pending(s)
    BY <1>1, <1>3, <1>4, <2>1 DEF Pending, ShotOf
  <2>2. ASSUME NEW s \in Shots PROVE Coming(s)' => Coming(s)
    BY <1>1, <1>2 DEF Coming
  <2> QED
    BY <2>1, <2>2
<1>8. Once' /\ Comings'
  BY <1>1, <1>2, <1>5, <1>7, OnceKept, Jpegs DEF Comings
<1> QED
  BY <1>5, <1>6, <1>8, EncoderKeeps

\* The last of the ongoing JPEG jobs is about to be submitted: its shot has no other job.
LEMMA SubmittedIs ==
  ASSUME IInv, Jobs, dpc = "encode"
  PROVE  LET j == Encoding[Len(Encoding)]
             s == ShotOf(j)
         IN /\ s \in Shots /\ Pending(s) /\ Source(s) \in seen
            /\ \A a \in alloc : mem[a].reproc # Source(s)
            /\ \A i \in Rng(ToEncode) : ShotOf(i) # s
            /\ j \in Rng(Encoding) /\ Encoding # << >> /\ Encoding \in Seq(JpegJob)
<1> DEFINE j == Encoding[Len(Encoding)]
           s == ShotOf(j)
<1>1. Encoding \in Seq(JpegJob) /\ Encoding # << >> /\ FShape
  BY QRead DEF IInv, JpegPlaced
<1>2. j \in JpegJob /\ j \in Rng(Encoding)
  BY <1>1, FrontIs
<1>3. Pending(s)
  BY DEF Pending
<1> HIDE DEF j
<1>4. s \in Shots
  BY <1>2, FramesAre DEF ShotOf, JpegJob
<1> HIDE DEF s
<1>5. Source(s) \in JpegFrames(j)
  BY <1>2 DEF Jobs, s
<1>6. /\ JpegFrames(j) \subseteq seen
      /\ \A a \in alloc : Two(mem[a]) \cap JpegFrames(j) = {}
      /\ \A i \in Rng(ToEncode) : JpegFrames(i) \cap JpegFrames(j) = {}
  <2>1. j \notin Rng(ToEncode)
    BY <1>2 DEF IInv, JpegPlaced
  <2> QED
    BY <1>2, <2>1, FitSays DEF IInv, Accounted
<1>7. \A a \in alloc : mem[a].reproc # Source(s)
  BY <1>4, <1>5, <1>6, FramesAre DEF Two
<1>8. \A i \in Rng(ToEncode) : ShotOf(i) # s
  BY <1>5, <1>6 DEF Jobs
<1> QED
  BY <1>1, <1>2, <1>3, <1>4, <1>5, <1>6, <1>7, <1>8 DEF s, j

\* A shot comes that waited until now.
LEMMA DEncodeOnce ==
  ASSUME IInv, IInv', PicturesInv, DEncode
  PROVE  PicturesInv'
<1> DEFINE last == ShotOf(Encoding[Len(Encoding)])
<1>1. /\ UNCHANGED <<world, q, mem, alloc, flushing, sm, cb, hw, evts, seen, done, answers>>
      /\ dpc = "encode" /\ dpc' = "store" /\ encoder' = encoder \cup {[id |-> nextId, shot |-> last]}
      /\ UNCHANGED <<Waiting, Ongoing, ToEncode, Encoding, Raws, Saved>>
  BY QueuesRest DEF DEncode, DUnchanged, queueVars, Last, Encoding
<1>2. ~world.raw
  BY <1>1, Jpegs DEF RawJobs
<1>3. Once /\ Comings /\ Jobs
  BY <1>2, Jpegs
<1>4. PICK s0 \in Shots :
        /\ last = s0 /\ Pending(s0) /\ Source(s0) \in seen
        /\ \A a \in alloc : mem[a].reproc # Source(s0)
        /\ \A i \in Rng(ToEncode) : ShotOf(i) # s0
  BY <1>1, <1>3, SubmittedIs
<1> HIDE DEF last
<1>0. PICK new : encoder' = encoder \cup {new} /\ new.shot = s0
  <2>1. [id |-> nextId, shot |-> s0].shot = s0 /\ encoder' = encoder \cup {[id |-> nextId, shot |-> s0]}
    BY <1>1, <1>4
  <2> QED
    BY <2>1
<1>5. ~Pending(s0)'
  BY <1>1, <1>4 DEF Pending
<1>6. ~Coming(s0) /\ answers[s0] = 0
  <2>1. answers[s0] \in Nat
    BY <1>4 DEF IInv, FShape
  <2> QED
    BY <1>3, <1>4, <2>1 DEF Once
<1>7. \A s \in Shots : (Pending(s)' => Pending(s)) /\ (Coming(s)' => Coming(s) \/ s = s0)
  BY <1>0, <1>1 DEF Pending, Coming
<1>8. Once'
  BY <1>1, <1>3, <1>5, <1>6, <1>7 DEF Once
<1>9. Comings'
  <2>1. /\ \A e \in encoder : e.shot # s0
        /\ \A i \in 1 .. Len(evts) : evts[i].shot # s0
        /\ \A i \in 1 .. Len(Saved) : Saved[i].shot # s0
    BY <1>6 DEF Coming
  <2> QED
    BY <1>0, <1>1, <1>3, <2>1 DEF Comings
<1>10. EncoderStep
  BY <1>1, AlikeItself DEF EncoderStep, OngoingGone
<1> QED
  BY <1>2, <1>8, <1>9, <1>10, EncoderKeeps

\* Each answer is counted for its shot alone.
OneAnswer(s) ==
  /\ answers'[s] = answers[s] + 1
  /\ \A t \in Shots : t # s => answers'[t] = answers[t]

\* One shot is answered once more.
LEMMA OneAnswerIs ==
  ASSUME IInv, NEW s \in Shots
  PROVE  answers' = [answers EXCEPT ![s] = @ + 1] => OneAnswer(s)
BY DEF IInv, FShape, OneAnswer

\* A shot that waited until now is answered with an error.
LEMMA DEncodeFailsOnce ==
  ASSUME IInv, IInv', PicturesInv, DEncodeFails
  PROVE  PicturesInv'
<1> DEFINE j == Encoding[Len(Encoding)]
           last == ShotOf(j)
<1>1. /\ UNCHANGED <<world, mem, alloc, flushing, sm, cb, hw, encoder, evts, seen>>
      /\ dpc = "encode" /\ dpc' = "raw" /\ done' = DoneWith(JpegFrames(j))
      /\ q' = [q EXCEPT !["ongoingJpeg"] = DequeueTail(@)]
      /\ answers' = [answers EXCEPT ![last] = @ + 1]
  BY DEF DEncodeFails, DUnchanged, Last, Encoding
<1>2. ~world.raw
  BY <1>1, Jpegs DEF RawJobs
<1>3. Once /\ Comings /\ Jobs
  BY <1>2, Jpegs
<1>4. PICK s0 \in Shots :
        /\ last = s0 /\ Pending(s0) /\ Source(s0) \in seen
        /\ \A a \in alloc : mem[a].reproc # Source(s0)
        /\ \A i \in Rng(ToEncode) : ShotOf(i) # s0
        /\ Encoding # << >> /\ Encoding \in Seq(JpegJob)
  BY <1>1, <1>3, SubmittedIs
<1>5. /\ UNCHANGED <<Waiting, Ongoing, ToEncode, Raws, Saved>> /\ Rng(Encoding') \subseteq Rng(Encoding)
  <2> DEFINE v == DequeueTail(q["ongoingJpeg"])
  <2>1. q["ongoingJpeg"] \in QueueOf(JpegJob) /\ SubSeq(Encoding, 1, Len(Encoding) - 1) \in Seq(JpegJob)
        /\ Rng(SubSeq(Encoding, 1, Len(Encoding) - 1)) \subseteq Rng(Encoding)
    BY <1>4, FrontIs, QRead DEF IInv, JpegPlaced
  <2>2. v \in QueueOf(JpegJob) /\ v.nodes = SubSeq(Encoding, 1, Len(Encoding) - 1)
    BY <2>1 DEF QueueOf, DequeueTail, Encoding
  <2>3. q' = [q EXCEPT !["ongoingJpeg"] = v] /\ QShape
    BY <1>1 DEF IInv
  <2> HIDE DEF v
  <2>4. /\ UNCHANGED <<Waiting, Ongoing, ToEncode, Raws>> /\ Encoding' = v.nodes
        /\ \A n \in QueueNames : n # "ongoingJpeg" => q'[n] = q[n]
    BY <2>2, <2>3, QSet, DataIs, Names
  <2> QED
    BY <2>1, <2>2, <2>4, Names DEF Saved
<1> HIDE DEF last, j
<1>6. ~Pending(s0)'
  BY <1>1, <1>4, <1>5 DEF Pending
<1>7. ~Coming(s0) /\ answers[s0] = 0
  <2>1. answers[s0] \in Nat
    BY <1>4 DEF IInv, FShape
  <2> QED
    BY <1>3, <1>4, <2>1 DEF Once
<1>8. \A s \in Shots : (Pending(s)' => Pending(s)) /\ (Coming(s)' => Coming(s))
  BY <1>1, <1>5 DEF Pending, Coming
<1>9. Once'
  <2>0. answers' = [answers EXCEPT ![s0] = @ + 1]
    BY <1>1, <1>4
  <2>1. OneAnswer(s0)
    BY <2>0, OneAnswerIs
  <2>2. answers'[s0] = 1 /\ \A t \in Shots : t # s0 => answers'[t] = answers[t]
    BY <1>7, <2>1 DEF OneAnswer
  <2> QED
    BY <1>3, <1>6, <1>7, <1>8, <2>2 DEF Once
<1>10. Comings'
  BY <1>1, <1>3, <1>5 DEF Comings
<1>11. EncoderStep
  BY <1>1, <1>5, AlikeItself DEF EncoderStep, OngoingGone
<1> QED
  BY <1>2, <1>9, <1>10, <1>11, EncoderKeeps

\* An id changes nothing about the shots.
LEMMA DStoreIdOnce ==
  ASSUME IInv, IInv', PicturesInv, DStoreId
  PROVE  PicturesInv'
<1> DEFINE j == Encoding[Len(Encoding)]
           i == [j EXCEPT !.id = nextId - 1]
           t == Replaced(Encoding, i)
<1>1. /\ UNCHANGED <<world, mem, alloc, flushing, sm, cb, hw, encoder, evts, seen, done, answers>>
      /\ dpc = "store" /\ dpc' = "raw"
      /\ q' = [q EXCEPT !["ongoingJpeg"] = [@ EXCEPT !.nodes = t]]
  BY DEF DStoreId, DUnchanged, Encoding, Replaced
<1>2. ~world.raw
  BY <1>1, Jpegs DEF RawJobs
<1>3. /\ Encoding \in Seq(JpegJob) /\ Encoding # << >> /\ QShape
      /\ q["ongoingJpeg"] \in QueueOf(JpegJob) /\ nextId \in Nat /\ nextId > 1
  BY <1>1, QRead DEF IInv, JpegPlaced, FShape
<1>4. j \in JpegJob /\ j \in Rng(Encoding)
  BY <1>3, FrontIs
<1>5. i \in JpegJob /\ Alike(i, j)
  <2> HIDE DEF j
  <2> QED
    BY <1>3, <1>4 DEF JpegJob, Alike
<1>6. t \in Seq(JpegJob) /\ \A x \in Rng(t) : x = i \/ x \in Rng(Encoding)
  <2> HIDE DEF i
  <2>1. LastReplaced(JpegJob, Encoding, i, t)
    BY <1>3, <1>5, ReplaceIs
  <2> HIDE DEF t
  <2> QED
    BY <2>1 DEF LastReplaced, Rng
<1> HIDE DEF t
<1>7. UNCHANGED <<Waiting, Ongoing, ToEncode, Raws, Saved>> /\ Encoding' = t
  <2> DEFINE v == [q["ongoingJpeg"] EXCEPT !.nodes = t]
  <2>1. v \in QueueOf(JpegJob) /\ v.nodes = t
    BY <1>3, <1>6 DEF QueueOf
  <2>2. q' = [q EXCEPT !["ongoingJpeg"] = v]
    BY <1>1
  <2> HIDE DEF v
  <2>3. /\ UNCHANGED <<Waiting, Ongoing, ToEncode, Raws>> /\ Encoding' = v.nodes
        /\ \A n \in QueueNames : n # "ongoingJpeg" => q'[n] = q[n]
    BY <1>3, <2>1, <2>2, QSet, DataIs, Names
  <2> QED
    BY <2>1, <2>3, Names DEF Saved
<1>8. \A x \in Rng(Encoding') : \E y \in Rng(ToEncode) \cup Rng(Encoding) : Alike(x, y)
  BY <1>4, <1>5, <1>6, <1>7, AlikeItself
<1> HIDE DEF i, j
<1>9. EncoderStep
  BY <1>1, <1>7, <1>8 DEF EncoderStep, OngoingGone
<1>10. \A s \in Shots : (Pending(s)' => Pending(s)) /\ (Coming(s)' => Coming(s))
  BY <1>1, <1>7 DEF Pending, Coming
<1>11. Once' /\ Comings'
  BY <1>1, <1>2, <1>7, <1>10, OnceKept, Jpegs DEF Comings
<1> QED
  BY <1>2, <1>9, <1>11, EncoderKeeps

\* A shot goes from the encoder to the events.
LEMMA JpegCallbackOnce ==
  ASSUME IInv, IInv', PicturesInv, JpegCallback
  PROVE  PicturesInv'
<1>1. PICK e \in encoder, ok \in BOOLEAN :
        /\ encoder' = encoder \ {e}
        /\ evts' = Append(evts, [id |-> e.id, shot |-> e.shot, ok |-> ok])
  BY DEF JpegCallback
<1>2. /\ UNCHANGED <<world, q, mem, alloc, flushing, dpc, sm, cb, hw, seen, done, answers>>
      /\ UNCHANGED <<Waiting, Ongoing, ToEncode, Encoding, Raws, Saved>>
  BY QueuesRest DEF JpegCallback, queueVars, dVars, smVars, frameVars
<1>3. ~world.raw
  BY <1>1, Jpegs DEF RawJobs
<1>4. Once /\ Comings
  BY <1>3, Jpegs
<1>5. PICK v \in JpegEvt : v.shot = e.shot /\ evts' = Append(evts, v)
  <2> DEFINE v == [id |-> e.id, shot |-> e.shot, ok |-> ok]
  <2>1. v \in JpegEvt /\ v.shot = e.shot
    BY <1>1 DEF IInv, FShape, JpegEvt
  <2> QED
    BY <1>1, <2>1
<1>6. /\ Len(evts') = Len(evts) + 1 /\ evts'[Len(evts) + 1] = v /\ Len(evts) \in Nat
      /\ \A i \in 1 .. Len(evts) : evts'[i] = evts[i]
      /\ \A i \in 1 .. Len(evts') : i \in 1 .. Len(evts) \/ i = Len(evts) + 1
  <2>1. evts \in Seq(JpegEvt)
    BY DEF IInv, FShape
  <2> QED
    BY <1>5, <2>1, AppendIs
<1>7. \A s \in Shots : (Pending(s)' => Pending(s)) /\ (Coming(s)' => Coming(s))
  <2>1. \A s \in Shots : Pending(s)' => Pending(s)
    BY <1>2 DEF Pending
  <2>2. ASSUME NEW s \in Shots, Coming(s)' PROVE Coming(s)
    BY <1>1, <1>2, <1>5, <1>6, <2>2 DEF Coming
  <2> QED
    BY <2>1, <2>2
<1>8. Once'
  BY <1>2, <1>4, <1>7, OnceKept
<1>9. Comings'
  <2>1. \A d \in encoder' : d \in encoder /\ d.shot # v.shot
    BY <1>1, <1>4, <1>5 DEF Comings
  <2>2. /\ \A i \in 1 .. Len(evts) : evts[i].shot # v.shot
        /\ \A i \in 1 .. Len(Saved) : Saved[i].shot # v.shot
    BY <1>4, <1>5 DEF Comings
  <2>3. \A i, k \in 1 .. Len(evts') : evts'[i].shot = evts'[k].shot => i = k
    BY <1>4, <1>6, <2>2 DEF Comings
  <2>4. \A i \in 1 .. Len(evts') : /\ \A d \in encoder' : evts'[i].shot # d.shot
                                   /\ \A k \in 1 .. Len(Saved) : evts'[i].shot # Saved[k].shot
    BY <1>4, <1>6, <2>1, <2>2 DEF Comings
  <2> QED
    BY <1>2, <1>4, <2>1, <2>3, <2>4 DEF Comings
<1>10. EncoderStep
  BY <1>2, AlikeItself DEF EncoderStep, OngoingGone, Left
<1> QED
  BY <1>3, <1>8, <1>9, <1>10, EncoderKeeps

\* Events of different shots, and the first of them taken from the list.
Apart(s) == \A i, k \in 1 .. Len(s) : s[i].shot = s[k].shot => i = k

\* The first of a list of events.
LEMMA FirstIs ==
  ASSUME NEW s \in Seq(JpegEvt), s # << >>
  PROVE  /\ Head(s) \in JpegEvt /\ Head(s).id \in Nat \ {0} /\ Head(s).shot \in Shots
         /\ 1 \in 1 .. Len(s) /\ Head(s) = s[1]
         /\ \A i \in 1 .. Len(Tail(s)) : i + 1 \in 1 .. Len(s) /\ Tail(s)[i] = s[i + 1]
         /\ Apart(s) => /\ Apart(Tail(s))
                        /\ \A i \in 1 .. Len(Tail(s)) : Tail(s)[i].shot # Head(s).shot
<1> DEFINE t == Tail(s)
           e == Head(s)
<1>1. /\ e \in JpegEvt /\ e = s[1] /\ Len(t) = Len(s) - 1 /\ Len(s) \in Nat \ {0} /\ t \in Seq(JpegEvt)
      /\ \A i \in 1 .. Len(s) - 1 : t[i] = s[i + 1]
  BY TailIs
<1> HIDE DEF t, e
<1>2. 1 \in 1 .. Len(s) /\ \A i \in 1 .. Len(t) : i + 1 \in 1 .. Len(s) /\ i + 1 # 1 /\ t[i] = s[i + 1]
  BY <1>1
<1>3. ASSUME Apart(s) PROVE Apart(t) /\ \A i \in 1 .. Len(t) : t[i].shot # e.shot
  <2>1. ASSUME NEW i \in 1 .. Len(t), NEW k \in 1 .. Len(t), t[i].shot = t[k].shot PROVE i = k
    <3>1. i + 1 = k + 1
      BY <1>2, <1>3, <2>1 DEF Apart
    <3> QED
      BY <3>1
  <2>2. \A i \in 1 .. Len(t) : t[i].shot # e.shot
    BY <1>1, <1>2, <1>3 DEF Apart
  <2> QED
    BY <2>1, <2>2 DEF Apart
<1>4. e.id \in Nat \ {0} /\ e.shot \in Shots
  BY <1>1 DEF JpegEvt
<1> QED
  BY <1>1, <1>2, <1>3, <1>4 DEF t, e

\* The event of the shot s was handled: its job is released, and the shot answered, if at
\* all, now that nothing about it is to come.
LEMMA HandledOnce ==
  ASSUME IInv, IInv', PicturesInv, ~world.raw, NEW id \in Nat \ {0}, NEW s \in Shots,
         Encoding' = Unmatched(id).nodes, \E S : done' = DoneWith(S),
         UNCHANGED <<world, Waiting, Ongoing, ToEncode, Raws, mem, alloc, cb, hw, seen, dpc, sm, flushing>>,
         Comings', \A t \in Shots : Coming(t)' => Coming(t), Coming(s), ~Coming(s)',
         OneAnswer(s) \/ UNCHANGED answers
  PROVE  PicturesInv'
<1>1. /\ Rng(Encoding') \subseteq Rng(Encoding)
      /\ dpc = "encode" => Encoding'[Len(Encoding')] = Encoding[Len(Encoding)]
  BY UnmatchedIs
<1>2. \A t \in Shots : (Pending(t)' => Pending(t)) /\ (Coming(t)' => Coming(t))
  BY <1>1 DEF Pending
<1>3. Once
  BY Jpegs
<1>4. Once'
  <2>1. CASE UNCHANGED answers
    BY <1>2, <1>3, <2>1, OnceKept
  <2>2. CASE OneAnswer(s)
    <3>1. answers[s] = 0 /\ ~Pending(s)
      BY <1>3 DEF Once
    <3>2. answers'[s] = 1 /\ \A t \in Shots : t # s => answers'[t] = answers[t]
      BY <2>2, <3>1 DEF OneAnswer
    <3> QED
      BY <1>2, <1>3, <3>1, <3>2 DEF Once
  <2> QED
    BY <2>1, <2>2
<1>5. EncoderStep
  BY <1>1, AlikeItself DEF EncoderStep, OngoingGone, Left
<1> QED
  BY <1>4, <1>5, EncoderKeeps

\* The first event is handled: its shot is answered, or goes to the save thread.
LEMMA ProcessJpegEvtOnce ==
  ASSUME IInv, IInv', PicturesInv, ProcessJpegEvt
  PROVE  PicturesInv'
<1>1. /\ UNCHANGED <<world, mem, alloc, flushing, dpc, sm, cb, hw, encoder, seen>>
      /\ evts # << >> /\ evts' = Tail(evts) /\ evts \in Seq(JpegEvt) /\ QShape
  BY DEF ProcessJpegEvt, dVars, smVars, IInv, FShape
<1>2. ~world.raw
  BY <1>1, Jpegs DEF RawJobs
<1>3. Once /\ Comings /\ Apart(evts) /\ Apart(Saved)
  BY <1>2, Jpegs DEF Comings, Apart
<1>4. PICK e \in JpegEvt : e = Head(evts)
  BY <1>1, FirstIs
<1>5. /\ e.id \in Nat \ {0} /\ e.shot \in Shots /\ 1 \in 1 .. Len(evts) /\ evts[1] = e
      /\ \A i \in 1 .. Len(evts') : i + 1 \in 1 .. Len(evts) /\ evts'[i] = evts[i + 1]
      /\ Apart(evts') /\ \A i \in 1 .. Len(evts') : evts'[i].shot # e.shot
  BY <1>1, <1>3, <1>4, FirstIs
<1>6. /\ Coming(e.shot)
      /\ \A d \in encoder : d.shot # e.shot
      /\ \A i \in 1 .. Len(Saved) : Saved[i].shot # e.shot
  BY <1>3, <1>5 DEF Coming, Comings
<1>7. \A i \in 1 .. Len(evts') : /\ \A d \in encoder : evts'[i].shot # d.shot
                                 /\ \A k \in 1 .. Len(Saved) : evts'[i].shot # Saved[k].shot
  <2>1. ASSUME NEW i \in 1 .. Len(evts')
        PROVE  /\ \A d \in encoder : evts'[i].shot # d.shot
               /\ \A k \in 1 .. Len(Saved) : evts'[i].shot # Saved[k].shot
    <3>1. PICK k \in 1 .. Len(evts) : evts'[i] = evts[k]
      BY <1>5
    <3> QED
      BY <1>3, <3>1 DEF Comings
  <2> QED
    BY <2>1
<1>8. ASSUME q' = [q EXCEPT !["ongoingJpeg"] = Unmatched(e.id)],
             done' = DoneWith(UNION {JpegFrames(j) : j \in Matching(e.id)}),
             answers' = [answers EXCEPT ![e.shot] = @ + 1]
      PROVE  PicturesInv'
  <2> DEFINE u == Unmatched(e.id)
  <2>1. u \in QueueOf(JpegJob)
    BY <1>5, UnmatchedIs
  <2>2. q' = [q EXCEPT !["ongoingJpeg"] = u]
    BY <1>8
  <2> HIDE DEF u
  <2>3. /\ UNCHANGED <<Waiting, Ongoing, ToEncode, Raws>> /\ Encoding' = u.nodes
        /\ \A n \in QueueNames : n # "ongoingJpeg" => q'[n] = q[n]
    BY <1>1, <2>1, <2>2, QSet, DataIs, Names
  <2>4. Saved' = Saved
    BY <2>3, Names DEF Saved
  <2>5. Comings'
    BY <1>1, <1>3, <1>5, <1>7, <2>4 DEF Comings, Apart
  <2>6. ~Coming(e.shot)' /\ \A t \in Shots : Coming(t)' => Coming(t)
    BY <1>1, <1>5, <1>6, <2>4 DEF Coming
  <2>7. OneAnswer(e.shot)
    BY <1>5, <1>8, OneAnswerIs
  <2>8. Encoding' = Unmatched(e.id).nodes /\ \E S : done' = DoneWith(S)
    BY <1>8, <2>3 DEF u
  <2> QED
    BY <1>1, <1>2, <1>5, <1>6, <2>3, <2>5, <2>6, <2>7, <2>8, HandledOnce
<1>9. ASSUME q["inputSave"].active, q' = [q EXCEPT !["inputSave"] = Enqueue(@, e)],
             UNCHANGED <<done, answers>>
      PROVE  PicturesInv'
  <2>1. Saved \in Seq(JpegEvt)
    BY <1>1, QRead DEF Saved
  <2>2. UNCHANGED <<Waiting, Ongoing, ToEncode, Encoding, Raws>> /\ Saved' = Append(Saved, e)
    <3> DEFINE v == Enqueue(q["inputSave"], e)
    <3>1. v \in QueueOf(JpegEvt) /\ v.nodes = Append(Saved, e)
      BY <1>1, <1>9, QRead, EnqueueIs DEF Saved
    <3>2. q' = [q EXCEPT !["inputSave"] = v]
      BY <1>9
    <3> HIDE DEF v
    <3> QED
      BY <3>1, <3>2, SaveSet
  <2>3. /\ \A i \in 1 .. Len(Saved') : \/ i \in 1 .. Len(Saved) /\ Saved'[i] = Saved[i]
                                       \/ i = Len(Saved) + 1 /\ Saved'[i] = e
    <3>1. /\ Len(Saved') = Len(Saved) + 1 /\ Len(Saved) \in Nat /\ Saved'[Len(Saved) + 1] = e
          /\ \A i \in 1 .. Len(Saved) : Saved'[i] = Saved[i]
      BY <2>1, <2>2, AppendIs
    <3> QED
      BY <3>1
  <2>4. \A s \in Shots : (Pending(s)' => Pending(s)) /\ (Coming(s)' => Coming(s))
    <3>1. \A s \in Shots : Pending(s)' => Pending(s)
      BY <1>1, <2>2 DEF Pending
    <3>2. ASSUME NEW s \in Shots, Coming(s)' PROVE Coming(s)
      BY <1>1, <1>5, <1>6, <2>3, <3>2 DEF Coming
    <3> QED
      BY <3>1, <3>2
  <2>5. Once'
    BY <1>3, <1>9, <2>4, OnceKept
  <2>6. \A i, k \in 1 .. Len(Saved') : Saved'[i].shot = Saved'[k].shot => i = k
    BY <1>3, <1>6, <2>3 DEF Apart
  <2>7. /\ \A d \in encoder : \A i \in 1 .. Len(Saved') : Saved'[i].shot # d.shot
        /\ \A i \in 1 .. Len(evts') : \A k \in 1 .. Len(Saved') : evts'[i].shot # Saved'[k].shot
    <3>1. \A d \in encoder : \A i \in 1 .. Len(Saved) : Saved[i].shot # d.shot
      BY <1>3 DEF Comings
    <3>2. ASSUME NEW k \in 1 .. Len(Saved')
          PROVE  /\ \A d \in encoder : Saved'[k].shot # d.shot
                 /\ \A i \in 1 .. Len(evts') : evts'[i].shot # Saved'[k].shot
      <4>1. CASE k \in 1 .. Len(Saved) /\ Saved'[k] = Saved[k]
        BY <1>7, <3>1, <4>1
      <4>2. CASE Saved'[k] = e
        BY <1>5, <1>6, <4>2
      <4> QED
        BY <2>3, <4>1, <4>2
    <3> QED
      BY <3>2
  <2>8. Comings'
    BY <1>1, <1>3, <1>5, <1>7, <2>6, <2>7 DEF Comings, Apart
  <2>9. EncoderStep
    BY <1>1, <1>9, <2>2, AlikeItself DEF EncoderStep, OngoingGone, Left
  <2> QED
    BY <1>2, <2>5, <2>8, <2>9, EncoderKeeps
<1>10. ASSUME UNCHANGED <<q, done, answers>> PROVE PicturesInv'
  <2>1. UNCHANGED <<Waiting, Ongoing, ToEncode, Encoding, Raws, Saved>>
    BY <1>10, QueuesRest
  <2>2. \A s \in Shots : (Pending(s)' => Pending(s)) /\ (Coming(s)' => Coming(s))
    BY <1>1, <1>5, <2>1 DEF Pending, Coming
  <2>3. Once'
    BY <1>3, <1>10, <2>2, OnceKept
  <2>4. Comings'
    BY <1>1, <1>3, <1>5, <1>7, <2>1 DEF Comings, Apart
  <2>5. EncoderStep
    BY <1>1, <1>10, <2>1, AlikeItself DEF EncoderStep, OngoingGone, Left
  <2> QED
    BY <1>2, <2>3, <2>4, <2>5, EncoderKeeps
<1> QED
  BY <1>4, <1>8, <1>9, <1>10 DEF ProcessJpegEvt

\* The save thread answers the shot of its first event.
LEMMA SaveNextOnce ==
  ASSUME IInv, IInv', PicturesInv, SaveNext
  PROVE  PicturesInv'
<1>1. /\ UNCHANGED <<world, mem, alloc, dpc, flushing, sm, cb, hw, encoder, evts, seen>> /\ QShape
  BY DEF SaveNext, SaveUnchanged, smVars, jpegVars, IInv
<1>2. CASE CanDequeue(q["inputSave"])
  <2>0. PICK e : e = First(q["inputSave"])
    OBVIOUS
  <2> DEFINE u == Unmatched(e.id)
             w == DequeueHead(q["inputSave"])
  <2>1. /\ q' = [[q EXCEPT !["inputSave"] = w] EXCEPT !["ongoingJpeg"] = u]
        /\ done' = DoneWith(UNION {JpegFrames(j) : j \in Matching(e.id)})
        /\ answers' = IF saveActive THEN [answers EXCEPT ![e.shot] = @ + 1] ELSE answers
    BY <1>2, <2>0 DEF SaveNext
  <2>2. /\ w.nodes = Tail(Saved) /\ Saved \in Seq(JpegEvt) /\ Saved # << >> /\ e = Head(Saved)
    <3>1. q["inputSave"] \in QueueOf(JpegEvt)
      BY <1>1 DEF QShape
    <3> QED
      BY <1>2, <2>0, <3>1, DequeueIs DEF Saved
  <2> HIDE DEF u, w
  <2>3. /\ q'["ongoingJpeg"] = u /\ q'["inputSave"] = w
        /\ \A n \in QueueNames \ {"ongoingJpeg", "inputSave"} : q'[n] = q[n]
    <3>1. q = [n \in QueueNames |-> q[n]] /\ "ongoingJpeg" # "inputSave"
      BY <1>1, QRead
    <3> QED
      BY <2>1, <3>1, Names
  <2>4. UNCHANGED <<Waiting, Ongoing, ToEncode, Raws>> /\ Encoding' = u.nodes /\ Saved' = Tail(Saved)
    BY <2>2, <2>3, Names DEF Waiting, Ongoing, ToEncode, Encoding, Raws, Saved
  <2>5. ~world.raw
    BY <2>2, Jpegs DEF RawJobs
  <2>6. Comings /\ Apart(Saved)
    BY <2>5, Jpegs DEF Comings, Apart
  <2>7. /\ e.id \in Nat \ {0} /\ e.shot \in Shots /\ 1 \in 1 .. Len(Saved) /\ Saved[1] = e
        /\ \A i \in 1 .. Len(Saved') : i + 1 \in 1 .. Len(Saved) /\ Saved'[i] = Saved[i + 1]
        /\ Apart(Saved') /\ \A i \in 1 .. Len(Saved') : Saved'[i].shot # e.shot
    BY <2>2, <2>4, <2>6, FirstIs
  <2>8. /\ Coming(e.shot)
        /\ \A d \in encoder : d.shot # e.shot
        /\ \A i \in 1 .. Len(evts) : evts[i].shot # e.shot
    BY <2>6, <2>7 DEF Coming, Comings
  <2>9. Comings'
    <3>1. ASSUME NEW i \in 1 .. Len(Saved')
          PROVE  /\ \A d \in encoder : Saved'[i].shot # d.shot
                 /\ \A k \in 1 .. Len(evts) : evts[k].shot # Saved'[i].shot
      <4>1. PICK k \in 1 .. Len(Saved) : Saved'[i] = Saved[k]
        BY <2>7
      <4> QED
        BY <2>6, <4>1 DEF Comings
    <3> QED
      BY <1>1, <2>6, <2>7, <3>1 DEF Comings, Apart
  <2>10. ~Coming(e.shot)' /\ \A t \in Shots : Coming(t)' => Coming(t)
    <3>1. \A i \in 1 .. Len(Saved') : \E k \in 1 .. Len(Saved) : Saved'[i] = Saved[k]
      BY <2>7
    <3> QED
      BY <1>1, <2>7, <2>8, <3>1 DEF Coming
  <2>11. OneAnswer(e.shot) \/ UNCHANGED answers
    BY <2>1, <2>7, OneAnswerIs
  <2>12. Encoding' = Unmatched(e.id).nodes /\ \E S : done' = DoneWith(S)
    BY <2>1, <2>4 DEF u
  <2> QED
    BY <1>1, <2>4, <2>5, <2>7, <2>8, <2>9, <2>10, <2>11, <2>12, HandledOnce
<1>3. CASE ~CanDequeue(q["inputSave"])
  <2>1. UNCHANGED <<q, done, answers>>
    BY <1>3 DEF SaveNext
  <2>2. Quiet
    BY <1>1, <2>1, QueuesRest, CbsRest, RestingQuiet DEF Resting, OngoingGone, Left
  <2> QED
    BY <2>2, QuietKeeps
<1> QED
  BY <1>2, <1>3

-----------------------------------------------------------------------------
(* Frames, and the jobs of the passes.                                     *)

\* A raw frame is answered when it leaves the postprocessor.
LEMMA DRawOnce ==
  ASSUME IInv, IInv', PicturesInv, DRaw
  PROVE  PicturesInv'
<1>1. /\ UNCHANGED <<world, mem, alloc, flushing, sm, cb, hw, encoder, evts, seen>>
      /\ dpc = "raw" /\ dpc' = "reproc" /\ DUnchanged
  BY DEF DRaw, DUnchanged
<1>2. CASE CanDequeue(q["inputRaw"])
  <2>0. PICK f : f = First(q["inputRaw"])
    OBVIOUS
  <2>1. /\ q' = [q EXCEPT !["inputRaw"] = DequeueHead(@)] /\ done' = DoneWith({f})
        /\ answers' = [answers EXCEPT ![f.shot] = @ + 1]
    BY <1>2, <2>0 DEF DRaw
  <2>2. /\ UNCHANGED <<Waiting, Ongoing, ToEncode, Encoding, Saved>>
        /\ Raws \in Seq(Frame) /\ Raws # << >> /\ Raws' = Tail(Raws) /\ f = Head(Raws)
    BY <1>2, <2>0, <2>1, QDequeue, DataIs, Names DEF Raws, Saved
  <2>3. f \in Frame /\ f \in Rng(Raws) /\ Rng(Raws') \subseteq Rng(Raws) /\ f.shot \in Shots
    BY <2>2, TailIs, FramesAre
  <2>4. world.raw
    BY <2>2, Jpegs DEF Jobs
  <2>5. RawJobs /\ RawOnce /\ RawPass' = RawPass /\ f.pass = RawPass
    BY <1>1, <2>3, <2>4, Jpegs DEF RawJobs, RawPass
  <2>6. done[f] = 0
    <3>1. Owners(f) # {}
      BY <2>3, OwnedIs
    <3> QED
      BY <2>3, <3>1, CountIs
  <2>7. PairInv'
    <3>1. JobsShrink /\ Together
      BY <1>1, <2>2, CbsRest, AlikeItself DEF JobsShrink, Together, OngoingGone
    <3> QED
      BY <3>1, PairKept DEF PicturesInv
  <2>8. RawJobs'
    BY <1>1, <2>2, <2>3, <2>5, CbsRest DEF RawJobs
  <2>9. RawOnce'
    <3>1. OneAnswer(f.shot) /\ done \in [Frame -> Nat] /\ answers \in [Shots -> Nat]
      BY <2>1, <2>3, OneAnswerIs DEF IInv, FShape
    <3>2. /\ answers'[f.shot] = answers[f.shot] + 1
          /\ \A t \in Shots : t # f.shot => answers'[t] = answers[t]
      BY <3>1 DEF OneAnswer
    <3>3. done' = [g \in Frame |-> IF g = f THEN done[g] + 1 ELSE done[g]]
      BY <2>1 DEF DoneWith
    <3>4. ASSUME NEW s \in Shots PROVE answers'[s] <= done'[[shot |-> s, pass |-> RawPass]]
      <4> DEFINE g == [shot |-> s, pass |-> RawPass]
      <4>1. g \in Frame /\ answers[s] <= done[g] /\ (s = f.shot => g = f) /\ (s # f.shot => g # f)
        BY <2>3, <2>5 DEF RawOnce, Frame, RawPass, MaxPass
      <4> HIDE DEF g
      <4>2. CASE s = f.shot
        BY <2>6, <3>1, <3>2, <3>3, <4>1, <4>2 DEF g
      <4>3. CASE s # f.shot
        BY <3>1, <3>2, <3>3, <4>1, <4>3 DEF g
      <4> QED
        BY <4>2, <4>3
    <3> QED
      BY <2>5, <3>4 DEF RawOnce
  <2> QED
    BY <1>1, <2>4, <2>7, <2>8, <2>9 DEF PicturesInv, JpegAnsInv, RawAnsInv, RawAnswers
<1>3. CASE ~CanDequeue(q["inputRaw"])
  <2>1. UNCHANGED <<q, done, answers>>
    BY <1>3 DEF DRaw
  <2> QED
    BY <1>1, <2>1, DNothingQuiet, QuietKeeps DEF Working
<1> QED
  BY <1>2, <1>3

\* The encoder's part is left alone.
FrameStep ==
  /\ UNCHANGED <<world, Encoding, evts, Saved, encoder, answers>>
  /\ dpc' \in {"encode", "store"} => dpc' = dpc
  /\ \A f \in Frame : done'[f] >= done[f]
  /\ ~world.raw => Jobs' /\ \A s \in Shots : Pending(s)' => Pending(s)
  /\ world.raw => RawJobs'

\* A step about frames keeps what is said of the answers.
LEMMA FrameStepKeeps ==
  ASSUME IInv, IInv', PicturesInv, PairInv', FrameStep
  PROVE  PicturesInv'
<1>1. CASE ~world.raw
  <2>1. Once /\ Comings /\ Jobs' /\ UNCHANGED answers
    BY <1>1, Jpegs DEF FrameStep
  <2>2. \A s \in Shots : (Pending(s)' => Pending(s)) /\ (Coming(s)' => Coming(s))
    BY <1>1 DEF FrameStep, Coming
  <2>3. Once'
    BY <2>1, <2>2, OnceKept
  <2>4. Comings'
    BY <2>1 DEF FrameStep, Comings
  <2> QED
    BY <1>1, <2>1, <2>3, <2>4 DEF PicturesInv, JpegAnsInv, RawAnsInv, JpegAnswers, FrameStep
<1>2. CASE world.raw
  <2>1. RawOnce /\ RawJobs'
    BY <1>2, Jpegs DEF FrameStep
  <2>2. RawOnce'
    BY <2>1, RawOnceKept DEF FrameStep
  <2> QED
    BY <1>2, <2>1, <2>2 DEF PicturesInv, JpegAnsInv, RawAnsInv, RawAnswers, FrameStep
<1> QED
  BY <1>1, <1>2

\* A frame's output is asked for: the last of the ongoing jobs goes with it.
LEMMA DAskPaired ==
  ASSUME IInv, IInv', PicturesInv, DAsk
  PROVE  PicturesInv'
<1>1. /\ UNCHANGED <<world, q, mem, alloc, flushing, sm, cb, encoder, evts, seen, done, answers>>
      /\ dpc = "ask" /\ dpc' = "idle" /\ mem[hand].src.pass < MaxPass
  BY DEF DAsk, DUnchanged, queueVars
<1>2. UNCHANGED <<Waiting, Ongoing, ToEncode, Encoding, Raws, Saved>>
  BY <1>1, QueuesRest
<1>3. /\ HeldCbs' = HeldCbs /\ (\A c \in HeldCbs : cb'[c] = cb[c])
      /\ hw \in Seq([chan : Channels, out : Outputs]) /\ Len(hw) \in Nat
  BY <1>1, CbsRest DEF IInv, FShape
<1>4. hand = Ongoing[Len(hw) + 1] /\ hand \in alloc
  <2>1. ~OngoingGone
    BY <1>1 DEF OngoingGone, IInv, Control, Working
  <2>2. hand = Ongoing[Len(Ongoing)] /\ Len(Ongoing) = Len(hw) + 1
    BY <1>1, <2>1 DEF IInv, Asked
  <2>3. Ongoing \in Seq(Blocks) /\ Ongoing # << >>
    BY <1>3, <2>2, QRead DEF IInv
  <2> QED
    BY <2>2, <2>3, FrontIs, OnLists
<1>5. PICK h : h = [chan |-> mem[hand].chan, out |-> Later(mem[hand].src)]
  OBVIOUS
<1>6. h.out = Later(mem[hand].src) /\ hw' = Append(hw, h)
  BY <1>5 DEF DAsk, Later
<1>7. h \in [chan : Channels, out : Outputs]
  <2>1. mem[hand].src \in Frame /\ mem[hand].chan \in Channels
    BY <1>4, OnLists DEF IInv, FShape, PPJob
  <2>2. Later(mem[hand].src) \in Outputs
    BY <1>1, <2>1, FramesAre
  <2> QED
    BY <1>5, <2>1, <2>2
<1>8. \A i \in 1 .. Len(hw') : \/ i \in 1 .. Len(hw) /\ hw'[i] = hw[i]
                               \/ i = Len(hw) + 1 /\ hw'[i] = h
  <2>1. /\ Len(hw') = Len(hw) + 1 /\ hw'[Len(hw) + 1] = h
        /\ \A i \in 1 .. Len(hw) : hw'[i] = hw[i]
    BY <1>3, <1>6, <1>7, AppendIs
  <2> QED
    BY <1>3, <2>1
<1>9. PairInv'
  <2> SUFFICES ASSUME world.ordered, Paired PROVE Paired'
    BY <1>1 DEF PairInv, PicturesInv
  <2>1. ~OngoingGone
    BY <1>1 DEF OngoingGone, IInv, Control, Working
  <2>2. \A i \in 1 .. Len(hw') : hw'[i].out = Later(mem[Ongoing[i]].src)
    BY <1>4, <1>6, <1>8, <2>1 DEF Paired
  <2> QED
    BY <1>1, <1>2, <1>3, <2>2 DEF Paired, Made
<1>10. world.raw => RawJobs'
  <2> SUFFICES ASSUME world.raw, RawJobs PROVE RawJobs'
    BY Jpegs
  <2>1. h.out.pass = 1
    <3>1. mem[hand].src \in Frame /\ mem[hand].src.pass = 0
      BY <1>4, OnLists DEF RawJobs
    <3> QED
      BY <1>6, <3>1 DEF Later, Frame
  <2>2. \A i \in 1 .. Len(hw') : hw'[i].out.pass = 1
    BY <1>8, <2>1 DEF RawJobs
  <2> QED
    BY <1>1, <1>2, <1>3, <2>2 DEF RawJobs, RawPass
<1>11. \A s \in Shots : Pending(s)' => Pending(s)
  BY <1>1, <1>2 DEF Pending
<1>12. ~world.raw => Jobs'
  BY <1>2, Jpegs DEF Jobs
<1>13. \A f \in Frame : done'[f] >= done[f]
  BY <1>1, DoneGrows
<1>14. FrameStep
  BY <1>1, <1>2, <1>10, <1>11, <1>12, <1>13 DEF FrameStep
<1> QED
  BY <1>9, <1>14, FrameStepKeeps

\* A job leaves the queue for its channel: one more pass is counted for it.
LEMMA DReprocPaired ==
  ASSUME IInv, IInv', PicturesInv, DReproc
  PROVE  PicturesInv'
<1>1. /\ UNCHANGED <<world, alloc, flushing, sm, cb, hw, encoder, evts, seen, done, answers>>
      /\ dpc = "reproc" /\ DUnchanged /\ isActive
  BY DEF DReproc, DUnchanged, IInv, Control, Working
<1>2. CASE UNCHANGED <<q, mem>> /\ dpc' = "idle"
  BY <1>1, <1>2, DNothingQuiet, QuietKeeps DEF Working
<1>3. ASSUME CanDequeue(q["inputPP"]), NEW a, a = First(q["inputPP"]),
             q' = [q EXCEPT !["inputPP"] = DequeueHead(@), !["ongoingPP"] = Enqueue(@, a)],
             mem' = [mem EXCEPT ![a].count = @ + 1], dpc' = "ask"
      PROVE  PicturesInv'
  <2>0. q["ongoingPP"].active
    BY <1>1 DEF IInv, Queues, Opened
  <2>1. /\ UNCHANGED <<ToEncode, Encoding, Raws, Saved>> /\ a = Head(Waiting)
        /\ Waiting \in Seq(Blocks) /\ Waiting # << >> /\ Ongoing \in Seq(Blocks)
        /\ Waiting' = Tail(Waiting) /\ Ongoing' = Append(Ongoing, a)
    <3>1. /\ "inputPP" \in QueueNames /\ "ongoingPP" \in QueueNames
          /\ DataOf("inputPP") = Blocks /\ DataOf("ongoingPP") = Blocks
          /\ "inputPP" # "ongoingPP"
      BY Names, DataIs
    <3>2. q' = [q EXCEPT !["inputPP"] = DequeueHead(@), !["ongoingPP"] = Enqueue(@, First(q["inputPP"]))]
      BY <1>3
    <3>3. /\ \A n \in QueueNames \ {"inputPP", "ongoingPP"} : q'[n] = q[n]
          /\ Waiting \in Seq(Blocks) /\ Waiting # << >> /\ Ongoing \in Seq(Blocks)
          /\ First(q["inputPP"]) = Head(Waiting)
          /\ q'["inputPP"].nodes = Tail(Waiting) /\ q'["ongoingPP"].nodes = Append(Ongoing, Head(Waiting))
      BY <1>3, <2>0, <3>1, <3>2, QMove DEF Waiting, Ongoing
    <3> QED
      BY <1>3, <3>3, Names DEF Waiting, Ongoing, ToEncode, Encoding, Raws, Saved
  <2>2. a \in Blocks /\ a \in Rng(Waiting) /\ Rng(Waiting') = Rng(Waiting) \ {a} /\ a \in alloc
    BY <2>1, TailIs DEF IInv, Placed
  <2>3. /\ Len(Ongoing) \in Nat /\ \A i \in 1 .. Len(Ongoing) : Ongoing'[i] = Ongoing[i] /\ Ongoing[i] \in Blocks
    BY <2>1, <2>2, AppendIs, ElementIs
  <2>4. /\ \A b \in Blocks : mem'[b].src = mem[b].src /\ mem'[b].reproc = mem[b].reproc
        /\ mem'[a].count = mem[a].count + 1 /\ \A b \in Blocks : b # a => mem'[b] = mem[b]
        /\ alloc \subseteq Blocks /\ mem[a].count \in Nat
    <3>1. mem \in [Blocks -> PPJob] /\ alloc \subseteq Blocks
      BY DEF IInv, FShape
    <3>2. mem[a] \in PPJob /\ mem[a].count \in Nat
      BY <2>2, <3>1 DEF PPJob
    <3>3. \A b \in Blocks : b # a => mem'[b] = mem[b]
      BY <1>3, <3>1
    <3>4. mem'[a].src = mem[a].src /\ mem'[a].reproc = mem[a].reproc /\ mem'[a].count = mem[a].count + 1
      BY <1>3, <2>2, <3>1, <3>2 DEF PPJob
    <3> QED
      BY <3>1, <3>2, <3>3, <3>4
  <2>5. HeldCbs' = HeldCbs /\ \A c \in HeldCbs : cb'[c] = cb[c]
    BY <1>1, CbsRest
  <2>6. ~OngoingGone
    BY <1>1 DEF OngoingGone, IInv, Control
  <2>7. Len(Ongoing) = Len(hw)
    BY <1>1, <2>6 DEF IInv, Asked, FShape
  <2>8. PairInv'
    <3> SUFFICES ASSUME world.ordered, Paired PROVE Paired'
      BY <1>1 DEF PairInv, PicturesInv
    <3>1. ASSUME NEW b \in alloc
          PROVE  /\ mem'[b].src.shot = mem'[b].reproc.shot
                 /\ b \in Rng(Waiting') => mem'[b].src.pass = mem'[b].count
                 /\ b \notin Rng(Waiting') => mem'[b].src.pass = mem'[b].count - 1
      <4>1. CASE b = a
        BY <2>2, <2>4, <4>1 DEF Paired
      <4>2. CASE b # a
        BY <2>2, <2>4, <4>2 DEF Paired
      <4> QED
        BY <4>1, <4>2
    <3>2. ASSUME NEW c \in HeldCbs PROVE cb[c].frame = Later(mem'[cb[c].job].src)
      <4>1. cb[c].job \in Blocks
        BY <2>4, OnLists
      <4> QED
        BY <2>4, <4>1 DEF Paired
    <3>3. \A i \in 1 .. Len(hw) : hw[i].out = Later(mem'[Ongoing'[i]].src)
      BY <2>3, <2>4, <2>6, <2>7 DEF Paired
    <3> QED
      BY <1>1, <2>1, <2>5, <3>1, <3>2, <3>3 DEF Paired, Made
  <2>9. world.raw => RawJobs'
    BY <1>1, <1>3, <2>1, <2>4, <2>5, Jpegs DEF RawJobs, RawPass
  <2>10. \A s \in Shots : Pending(s)' => Pending(s)
    BY <1>1, <1>3, <2>1, <2>4 DEF Pending
  <2>11. ~world.raw => Jobs'
    BY <2>1, Jpegs DEF Jobs
  <2>12. \A f \in Frame : done'[f] >= done[f]
    BY <1>1, DoneGrows
  <2>13. FrameStep
    BY <1>1, <1>3, <2>1, <2>9, <2>10, <2>11, <2>12 DEF FrameStep
  <2> QED
    BY <2>8, <2>13, FrameStepKeeps
<1> QED
  BY <1>2, <1>3 DEF DReproc

\* An output meets the job that asked for it.
LEMMA CbTakePaired ==
  ASSUME IInv, IInv', PicturesInv, NEW c \in Channels, NEW i \in 1 .. Len(hw), CbTake(c, i)
  PROVE  PicturesInv'
<1>1. /\ UNCHANGED <<world, mem, alloc, dpc, flushing, sm, encoder, evts, done, answers>>
      /\ cb[c].at = "idle" /\ IsNext(i, c) /\ hw' = RemoveAt(hw, i) /\ seen' = seen \cup {hw[i].out}
      /\ q' = IF CanDequeue(q["ongoingPP"]) THEN [q EXCEPT !["ongoingPP"] = DequeueHead(@)] ELSE q
      /\ FShape /\ QShape /\ hw \in Seq([chan : Channels, out : Outputs])
  BY DEF CbTake, CbUnchanged, dVars, saveVars, smVars, jpegVars, IInv, FShape
<1>2. /\ hw' \in Seq([chan : Channels, out : Outputs]) /\ Len(hw') = Len(hw) - 1
      /\ \A k \in 1 .. Len(hw') : hw'[k] = hw[IF k < i THEN k ELSE k + 1]
      /\ Len(hw) \in Nat /\ Len(hw) > 0
  <2>1. LET t == RemoveAt(hw, i) IN
         /\ t \in Seq([chan : Channels, out : Outputs]) /\ Len(t) = Len(hw) - 1
         /\ \A k \in 1 .. Len(t) : t[k] = hw[IF k < i THEN k ELSE k + 1]
    BY <1>1, RemoveIs
  <2> QED
    BY <1>1, <2>1
<1>3. /\ UNCHANGED <<Waiting, ToEncode, Encoding, Raws, Saved>> /\ Ongoing \in Seq(Blocks)
      /\ CanDequeue(q["ongoingPP"]) =>
           Ongoing # << >> /\ First(q["ongoingPP"]) = Head(Ongoing) /\ Ongoing' = Tail(Ongoing)
      /\ ~CanDequeue(q["ongoingPP"]) => Ongoing' = Ongoing /\ Ongoing = << >>
  <2>0. "ongoingPP" \in QueueNames /\ "inputSave" \in QueueNames /\ Ongoing \in Seq(Blocks)
    BY <1>1, Names, QRead
  <2>1. CASE CanDequeue(q["ongoingPP"])
    <3>1. q' = [q EXCEPT !["ongoingPP"] = DequeueHead(@)]
      BY <1>1, <2>1
    <3> QED
      BY <2>0, <2>1, <3>1, QDequeue DEF Ongoing, Saved
  <2>2. CASE ~CanDequeue(q["ongoingPP"])
    <3>1. q' = q
      BY <1>1, <2>2
    <3>2. Ongoing = << >>
      BY <2>0, <2>2 DEF CanDequeue, Ongoing, IInv, Queues
    <3> QED
      BY <2>0, <2>2, <3>1, <3>2, QueuesRest
  <2> QED
    BY <2>1, <2>2
<1>4. OngoingGone' <=> OngoingGone
  BY <1>1 DEF OngoingGone, Left
<1>5. OngoingGone => Ongoing = << >>
  <2>1. OngoingGone => Closed("ongoingPP")
    BY DEF IInv, Queues, OffNow, OngoingGone, Opened
  <2> QED
    BY <2>1, Names DEF Closed, IInv, Queues, Ongoing
<1>6. \A d \in HeldCbs' : \/ d \in HeldCbs /\ cb'[d] = cb[d]
                          \/ /\ d = c /\ cb'[d].frame = hw[i].out /\ cb'[d].job = Head(Ongoing)
                             /\ CanDequeue(q["ongoingPP"])
  <2>1. CASE cb' = cb
    BY <2>1 DEF HeldCbs
  <2>2. CASE cb' # cb
    <3>1. /\ cb' = [cb EXCEPT ![c] = [at |-> "held", job |-> First(q["ongoingPP"]), frame |-> hw[i].out]]
          /\ CanDequeue(q["ongoingPP"])
      BY <2>2 DEF CbTake
    <3>2. /\ cb'[c] = [at |-> "held", job |-> First(q["ongoingPP"]), frame |-> hw[i].out]
          /\ \A d \in Channels : d # c => cb'[d] = cb[d]
      BY <1>1, <3>1 DEF FShape
    <3> QED
      BY <1>3, <3>1, <3>2 DEF HeldCbs
  <2> QED
    BY <2>1, <2>2
<1>7. PairInv'
  <2> SUFFICES ASSUME world.ordered, Paired PROVE Paired'
    BY <1>1 DEF PairInv, PicturesInv
  <2>1. i = 1
    <3>1. \A k \in 1 .. i - 1 : FALSE
      BY <1>1 DEF IsNext
    <3> QED
      BY <1>2, <3>1
  <2>2. ASSUME CanDequeue(q["ongoingPP"])
        PROVE  /\ ~OngoingGone /\ Ongoing[1] = Head(Ongoing) /\ hw[1].out = Later(mem[Ongoing[1]].src)
               /\ \A k \in 1 .. Len(hw') : Ongoing'[k] = Ongoing[k + 1]
    <3>1. ~OngoingGone /\ Ongoing # << >> /\ Ongoing' = Tail(Ongoing)
      BY <1>3, <1>5, <2>2
    <3>2. Len(Ongoing) >= Len(hw)
      BY <1>2, <3>1 DEF IInv, Asked
    <3>3. /\ Head(Ongoing) = Ongoing[1] /\ Len(Ongoing) \in Nat
          /\ \A k \in 1 .. Len(Ongoing) - 1 : Tail(Ongoing)[k] = Ongoing[k + 1]
      BY <1>3, <3>1, TailIs
    <3>4. hw[1].out = Later(mem[Ongoing[1]].src)
      BY <2>1, <3>1 DEF Paired
    <3>5. \A k \in 1 .. Len(hw') : k \in 1 .. Len(Ongoing) - 1
      BY <1>2, <3>2, <3>3
    <3> QED
      BY <3>1, <3>3, <3>4, <3>5
  <2>3. ASSUME NEW d \in HeldCbs' PROVE cb'[d].frame = Later(mem[cb'[d].job].src)
    BY <1>6, <2>1, <2>2 DEF Paired
  <2>4. ASSUME ~OngoingGone PROVE \A k \in 1 .. Len(hw') : hw'[k].out = Later(mem[Ongoing'[k]].src)
    <3>1. CanDequeue(q["ongoingPP"])
      <4>1. Len(Ongoing) >= Len(hw)
        BY <1>2, <2>4 DEF IInv, Asked
      <4> QED
        BY <1>2, <1>3, <4>1
    <3>2. \A k \in 1 .. Len(hw') : k + 1 \in 1 .. Len(hw) /\ hw'[k] = hw[k + 1]
      BY <1>2, <2>1
    <3> QED
      BY <2>2, <2>4, <3>1, <3>2 DEF Paired
  <2> QED
    BY <1>1, <1>3, <1>4, <2>3, <2>4 DEF Paired, Made
<1>8. world.raw => RawJobs'
  <2> SUFFICES ASSUME world.raw, RawJobs PROVE RawJobs'
    BY Jpegs
  <2>1. \A k \in 1 .. Len(hw') : (IF k < i THEN k ELSE k + 1) \in 1 .. Len(hw)
    BY <1>2
  <2>2. \A k \in 1 .. Len(hw') : hw'[k].out.pass = 1
    BY <1>2, <2>1 DEF RawJobs
  <2>3. \A d \in HeldCbs' : cb'[d].frame.pass = 1
    BY <1>6 DEF RawJobs
  <2> QED
    BY <1>1, <1>3, <2>2, <2>3 DEF RawJobs, RawPass
<1>9. \A s \in Shots : Pending(s)' => Pending(s)
  BY <1>1, <1>3 DEF Pending
<1>10. ~world.raw => Jobs'
  BY <1>3, Jpegs DEF Jobs
<1>11. \A f \in Frame : done'[f] >= done[f]
  BY <1>1, DoneGrows
<1>12. FrameStep
  BY <1>1, <1>3, <1>8, <1>9, <1>10, <1>11 DEF FrameStep
<1> QED
  BY <1>7, <1>12, FrameStepKeeps

-----------------------------------------------------------------------------
(* What a callback does with the job and the output it holds.              *)

\* Both go back: nothing is added anywhere.
LEMMA RefusedQuiet ==
  ASSUME IInv, NEW c \in Channels, HandsStep(c), UNCHANGED q, alloc' = alloc \ {cb[c].job},
         \A b \in Blocks : b # cb[c].job => mem'[b] = mem[b], \E S : done' = DoneWith(S)
  PROVE  Quiet
<1>1. /\ UNCHANGED <<world, dpc, flushing, sm, hw, encoder, evts, seen, answers>>
      /\ HeldCbs' \subseteq HeldCbs /\ \A d \in HeldCbs' : cb'[d] = cb[d]
  BY HandsStepIs
<1>2. UNCHANGED <<Waiting, Ongoing, ToEncode, Encoding, Raws, Saved>>
  BY QueuesRest
<1>3. \A b \in alloc' : mem'[b] = mem[b]
  BY DEF IInv, FShape
<1>4. \A f \in Frame : done'[f] >= done[f]
  BY DoneGrows
<1>5. Shrinks
  BY <1>1, <1>2, <1>3, <1>4, AlikeItself DEF Shrinks, JobsShrink
<1>6. Together /\ NoNews
  BY <1>1, <1>2 DEF Together, NoNews, OngoingGone, Left
<1> QED
  BY <1>1, <1>5, <1>6 DEF Quiet

\* The output is a raw frame.
LEMMA CbRawPaired ==
  ASSUME IInv, IInv', PicturesInv, NEW c \in Channels, CbRaw(c)
  PROVE  PicturesInv'
<1>0. PICK a, f : a = cb[c].job /\ f = cb[c].frame
  OBVIOUS
<1>1. /\ Pass(c, "inputRaw", f, Cleared({a})) /\ CbUnchanged /\ UNCHANGED <<hw, dBox, seen, orphans>>
      /\ \E S : done' = DoneWith(S)
      /\ alloc' = alloc \ {a} /\ cb[c].at = "held" /\ world.raw
  BY <1>0 DEF CbRaw
<1>2. HandsStep(c)
  BY <1>1, PassIs, Names
<1>3. /\ UNCHANGED <<world, dpc, flushing, sm, hw, encoder, evts, seen, answers>>
      /\ c \in HeldCbs /\ HeldCbs' = HeldCbs \ {c} /\ \A d \in HeldCbs \ {c} : cb'[d] = cb[d]
      /\ FShape /\ QShape
  BY <1>2, HandsStepIs DEF IInv
<1>4. f \in Frame /\ mem[a].count \in 1 .. world.passes
  BY <1>0, <1>2, HandsFrames
<1>5. \A b \in Blocks : b # a => Cleared({a})[b] = mem[b]
  BY <1>3, ClearedIs
<1>6. CASE ~q["inputRaw"].active
  <2>1. q' = q /\ \A b \in Blocks : b # a => mem'[b] = mem[b]
    BY <1>0, <1>1, <1>3, <1>5, <1>6, ClearedIs DEF Pass, FShape
  <2> QED
    BY <1>0, <1>1, <1>2, <2>1, RefusedQuiet, QuietKeeps
<1>7. CASE q["inputRaw"].active
  <2>0. q' = [q EXCEPT !["inputRaw"] = Enqueue(@, f)] /\ mem' = Cleared({a})
    BY <1>1, <1>7 DEF Pass
  <2>1. /\ UNCHANGED <<Waiting, Ongoing, ToEncode, Encoding, Saved>>
        /\ Raws' = Append(Raws, f) /\ Raws \in Seq(Frame)
    BY <1>3, <1>4, <1>7, <2>0, QEnqueue, DataIs, QRead, Names DEF Saved
  <2>2. Rng(Raws') = Rng(Raws) \cup {f}
    BY <1>4, <2>1, AppendIs
  <2>3. \A b \in alloc' : mem'[b] = mem[b]
    BY <1>1, <1>3, <1>5, <2>0 DEF FShape
  <2>4. JobsShrink /\ Together
    BY <1>1, <1>3, <2>1, <2>3, AlikeItself DEF JobsShrink, Together, OngoingGone, Left
  <2>5. PairInv'
    BY <2>4, PairKept DEF PicturesInv
  <2>6. RawJobs'
    <3>1. RawJobs
      BY <1>1, Jpegs
    <3>2. world.passes # 0
      BY <1>4
    <3>3. RawPass = 1 /\ RawPass' = RawPass /\ f.pass = 1
      BY <1>0, <1>3, <3>1, <3>2 DEF RawPass, RawJobs
    <3>4. \A g \in Rng(Raws') : g.pass = RawPass'
      BY <2>2, <3>1, <3>3 DEF RawJobs
    <3> QED
      BY <1>1, <1>3, <2>1, <2>3, <3>1, <3>4 DEF RawJobs
  <2>7. \A g \in Frame : done'[g] >= done[g]
    BY <1>1, DoneGrows
  <2>8. FrameStep
    BY <1>1, <1>3, <2>1, <2>6, <2>7 DEF FrameStep
  <2> QED
    BY <2>5, <2>8, FrameStepKeeps
<1> QED
  BY <1>6, <1>7

\* The output is the input of the job's next pass.
LEMMA CbAgainPaired ==
  ASSUME IInv, IInv', PicturesInv, NEW c \in Channels, CbAgain(c)
  PROVE  PicturesInv'
<1>0. PICK a, f : a = cb[c].job /\ f = cb[c].frame
  OBVIOUS
<1>job. PICK job, m : job = [mem[a] EXCEPT !.src = f, !.chan = 1] /\ m = [mem EXCEPT ![a] = job]
  OBVIOUS
<1>1. /\ Pass(c, "inputPP", a, m) /\ CbUnchanged /\ UNCHANGED <<hw, dBox, seen, orphans>>
      /\ \E S : done' = DoneWith(S)
      /\ alloc' = (IF q["inputPP"].active THEN alloc ELSE alloc \ {a}) /\ cb[c].at = "held"
      /\ ~world.raw
  BY <1>0, <1>job DEF CbAgain
<1>2. HandsStep(c)
  BY <1>1, PassIs, Names
<1>3. /\ UNCHANGED <<world, dpc, flushing, sm, hw, encoder, evts, seen, answers>>
      /\ c \in HeldCbs /\ a \in Blocks /\ a \in alloc /\ a \notin Rng(Waiting) /\ a \notin Rng(Ongoing)
      /\ HeldCbs' = HeldCbs \ {c} /\ \A d \in HeldCbs \ {c} : cb'[d] = cb[d]
      /\ FShape /\ QShape
  BY <1>0, <1>2, HandsStepIs DEF IInv
<1>4. f \in Frame /\ mem[a] \in PPJob /\ mem[a].src \in Frame /\ mem[a].count \in Nat
  BY <1>0, <1>2, HandsFrames DEF PPJob
<1>5. job.src = f /\ job.reproc = mem[a].reproc /\ job.count = mem[a].count
  BY <1>4, <1>job, AgainJob
<1>6. m[a] = job /\ \A b \in Blocks : b # a => m[b] = mem[b]
  BY <1>3, <1>job DEF FShape
<1>7. CASE ~q["inputPP"].active
  <2>1. q' = q /\ mem' = [m EXCEPT ![a] = NoJob]
    BY <1>0, <1>1, <1>7 DEF Pass
  <2>2. \A b \in Blocks : b # a => mem'[b] = mem[b]
    BY <1>3, <1>6, <1>job, <2>1 DEF FShape
  <2> QED
    BY <1>0, <1>1, <1>2, <1>7, <2>1, <2>2, RefusedQuiet, QuietKeeps
<1>8. CASE q["inputPP"].active
  <2>0. q' = [q EXCEPT !["inputPP"] = Enqueue(@, a)] /\ mem' = m /\ alloc' = alloc
    BY <1>1, <1>8 DEF Pass
  <2>1. /\ UNCHANGED <<Ongoing, ToEncode, Encoding, Raws, Saved>>
        /\ Waiting' = Append(Waiting, a) /\ Waiting \in Seq(Blocks)
    BY <1>3, <1>8, <2>0, QEnqueue, DataIs, QRead, Names DEF Saved
  <2>2. Rng(Waiting') = Rng(Waiting) \cup {a}
    BY <1>3, <2>1, AppendIs
  <2>3. \A d \in HeldCbs \ {c} : cb[d].job # a /\ cb[d].job \in Blocks
    BY <1>0, <1>3, HeldHas DEF FShape
  <2>4. PairInv'
    <3> SUFFICES ASSUME world.ordered, Paired PROVE Paired'
      BY <1>3 DEF PairInv, PicturesInv
    <3>1. f = Later(mem[a].src) /\ mem[a].src.pass = mem[a].count - 1 /\ mem[a].src.shot = mem[a].reproc.shot
      BY <1>0, <1>3 DEF Paired
    <3>2. f.pass = mem[a].count /\ f.shot = mem[a].reproc.shot
      <4>1. PICK g : g = mem[a].src
        OBVIOUS
      <4>2. Later(g).shot = g.shot /\ Later(g).pass = g.pass + 1
        BY <1>4, <4>1 DEF Later, Frame
      <4> QED
        BY <1>4, <3>1, <4>1, <4>2
    <3>3. ASSUME NEW b \in alloc
          PROVE  /\ mem'[b].src.shot = mem'[b].reproc.shot
                 /\ b \in Rng(Waiting') => mem'[b].src.pass = mem'[b].count
                 /\ b \notin Rng(Waiting') => mem'[b].src.pass = mem'[b].count - 1
      <4>1. CASE b = a
        BY <1>5, <1>6, <2>0, <2>2, <3>2, <4>1
      <4>2. CASE b # a
        <5>1. mem'[b] = mem[b] /\ (b \in Rng(Waiting') <=> b \in Rng(Waiting))
          BY <1>3, <1>6, <2>0, <2>2, <4>2 DEF FShape
        <5> QED
          BY <5>1 DEF Paired
      <4> QED
        BY <4>1, <4>2
    <3>4. ASSUME NEW d \in HeldCbs \ {c} PROVE cb'[d].frame = Later(mem'[cb'[d].job].src)
      BY <1>3, <1>6, <2>0, <2>3 DEF Paired
    <3>5. ASSUME ~OngoingGone', NEW i \in 1 .. Len(hw) PROVE hw[i].out = Later(mem'[Ongoing[i]].src)
      <4>1. ~OngoingGone
        BY <1>3, <3>5 DEF OngoingGone, Left
      <4>2. Len(Ongoing) >= Len(hw) /\ Len(hw) \in Nat /\ Ongoing \in Seq(Blocks)
        BY <1>3, <4>1, QRead DEF IInv, Asked, FShape
      <4>3. i \in 1 .. Len(Ongoing)
        BY <4>2
      <4>4. Ongoing[i] \in Rng(Ongoing) /\ Ongoing[i] \in Blocks
        BY <4>2, <4>3, ElementIs DEF Rng
      <4>5. mem'[Ongoing[i]] = mem[Ongoing[i]]
        BY <1>3, <1>6, <2>0, <4>4
      <4> QED
        BY <4>1, <4>5 DEF Paired
    <3>6. \A j \in Rng(ToEncode') \cup Rng(Encoding') : Made(j)'
      BY <1>3, <2>1 DEF Paired, Made
    <3> QED
      BY <1>3, <2>0, <2>1, <3>3, <3>4, <3>5, <3>6 DEF Paired
  <2>5. ASSUME NEW b \in alloc PROVE mem'[b].reproc = mem[b].reproc
    BY <1>3, <1>5, <1>6, <2>0 DEF FShape
  <2>6. \A s \in Shots : Pending(s)' => Pending(s)
    BY <1>3, <2>0, <2>1, <2>5 DEF Pending
  <2>7. Jobs'
    BY <1>1, <2>1, Jpegs DEF Jobs
  <2>8. \A g \in Frame : done'[g] >= done[g]
    BY <1>1, DoneGrows
  <2>9. FrameStep
    BY <1>1, <1>3, <2>1, <2>6, <2>7, <2>8 DEF FrameStep
  <2> QED
    BY <2>4, <2>9, FrameStepKeeps
<1> QED
  BY <1>7, <1>8

\* The output of the last pass and the source frame are a JPEG job.
LEMMA CbDonePaired ==
  ASSUME IInv, IInv', PicturesInv, NEW c \in Channels, CbDone(c)
  PROVE  PicturesInv'
<1>0. PICK a, f : a = cb[c].job /\ f = cb[c].frame
  OBVIOUS
<1>job. PICK j : j = NewJpegJob(f, mem[a].reproc)
  OBVIOUS
<1>1. /\ Pass(c, "inputJpeg", j, Cleared({a})) /\ CbUnchanged /\ UNCHANGED <<hw, dBox, seen, orphans>>
      /\ \E S : done' = DoneWith(S)
      /\ alloc' = alloc \ {a} /\ cb[c].at = "held" /\ ~world.raw /\ mem[a].count >= world.passes
  BY <1>0, <1>job DEF CbDone
<1>2. HandsStep(c)
  BY <1>1, PassIs, Names
<1>3. /\ UNCHANGED <<world, dpc, flushing, sm, hw, encoder, evts, seen, answers>>
      /\ c \in HeldCbs /\ a \in Blocks /\ a \in alloc /\ a \notin Rng(Waiting)
      /\ HeldCbs' = HeldCbs \ {c} /\ \A d \in HeldCbs \ {c} : cb'[d] = cb[d]
      /\ FShape /\ QShape
  BY <1>0, <1>2, HandsStepIs DEF IInv
<1>4. /\ f \in Frame /\ mem[a].src \in Frame /\ mem[a].count \in 1 .. world.passes
      /\ mem[a].reproc \in Frame
      /\ JpegFrames(j) = {f, mem[a].reproc} /\ j \in JpegJob
  BY <1>0, <1>2, <1>job, HandsFrames
<1>5. j.src = f /\ j.reproc = mem[a].reproc /\ ShotOf(j) = mem[a].reproc.shot
  <2>1. mem[a].reproc # NoFrame
    BY <1>4, FramesAre
  <2> QED
    BY <1>job, <2>1 DEF NewJpegJob, ShotOf
<1>6. \A b \in Blocks : b # a => Cleared({a})[b] = mem[b]
  BY <1>3, ClearedIs
<1>7. CASE ~q["inputJpeg"].active
  <2>1. q' = q /\ \A b \in Blocks : b # a => mem'[b] = mem[b]
    BY <1>0, <1>1, <1>3, <1>6, <1>7, ClearedIs DEF Pass, FShape
  <2> QED
    BY <1>0, <1>1, <1>2, <2>1, RefusedQuiet, QuietKeeps
<1>8. CASE q["inputJpeg"].active
  <2>0. q' = [q EXCEPT !["inputJpeg"] = Enqueue(@, j)] /\ mem' = Cleared({a})
    BY <1>1, <1>8 DEF Pass
  <2>1. /\ UNCHANGED <<Waiting, Ongoing, Encoding, Raws, Saved>>
        /\ ToEncode' = Append(ToEncode, j) /\ ToEncode \in Seq(JpegJob)
    BY <1>3, <1>4, <1>8, <2>0, QEnqueue, DataIs, QRead, Names DEF Saved
  <2>2. Rng(ToEncode') = Rng(ToEncode) \cup {j}
    BY <1>4, <2>1, AppendIs
  <2>3. \A b \in alloc' : mem'[b] = mem[b]
    BY <1>1, <1>3, <1>6, <2>0 DEF FShape
  <2>4. PairInv'
    <3> SUFFICES ASSUME world.ordered, Paired PROVE Paired'
      BY <1>3 DEF PairInv, PicturesInv
    <3>1. f = Later(mem[a].src) /\ mem[a].src.pass = mem[a].count - 1 /\ mem[a].src.shot = mem[a].reproc.shot
      BY <1>0, <1>3 DEF Paired
    <3>2. f = [shot |-> mem[a].reproc.shot, pass |-> world.passes]
      <4>1. PICK g : g = mem[a].src
        OBVIOUS
      <4>2. Later(g) = [shot |-> g.shot, pass |-> g.pass + 1] /\ g.pass \in Nat
        BY <1>4, <4>1 DEF Later, Frame
      <4>3. world.passes \in 0 .. 2
        BY <1>3, WorldsAssumption DEF FShape, World
      <4>4. mem[a].count = world.passes
        BY <1>1, <1>4, <4>3
      <4>5. g.pass + 1 = world.passes
        BY <3>1, <4>1, <4>2, <4>3, <4>4
      <4> QED
        BY <3>1, <4>1, <4>2, <4>5
    <3>3. Made(j)
      BY <1>5, <3>2 DEF Made
    <3>4. \A i \in Rng(ToEncode') \cup Rng(Encoding') : Made(i)'
      BY <1>3, <2>1, <2>2, <3>3 DEF Paired, Made
    <3>5. ASSUME NEW b \in alloc'
          PROVE  /\ mem'[b].src.shot = mem'[b].reproc.shot
                 /\ b \in Rng(Waiting') => mem'[b].src.pass = mem'[b].count
                 /\ b \notin Rng(Waiting') => mem'[b].src.pass = mem'[b].count - 1
      BY <1>1, <2>1, <2>3 DEF Paired
    <3>6. ASSUME NEW d \in HeldCbs' PROVE cb'[d].frame = Later(mem'[cb'[d].job].src)
      <4>1. cb[d].job \in alloc' /\ cb'[d] = cb[d] /\ d \in HeldCbs
        BY <1>0, <1>1, <1>3, HeldHas
      <4> QED
        BY <2>3, <4>1 DEF Paired
    <3>7. ASSUME ~OngoingGone', NEW i \in 1 .. Len(hw') PROVE hw'[i].out = Later(mem'[Ongoing'[i]].src)
      <4>1. ~OngoingGone
        BY <1>3, <3>7 DEF OngoingGone, Left
      <4>2. Len(Ongoing) >= Len(hw) /\ Len(hw) \in Nat /\ Ongoing \in Seq(Blocks)
        BY <1>3, <4>1, QRead DEF IInv, Asked, FShape
      <4>3. i \in 1 .. Len(Ongoing') /\ i \in 1 .. Len(hw)
        BY <1>3, <2>1, <4>2
      <4>4. Ongoing'[i] \in alloc'
        BY <4>3 DEF Rng, IInv, Placed
      <4> QED
        BY <1>3, <2>1, <2>3, <4>1, <4>3, <4>4 DEF Paired
    <3> QED
      BY <3>4, <3>5, <3>6, <3>7 DEF Paired
  <2>5. mem[a].reproc = Source(ShotOf(j))
    BY <1>3, <1>5, OnLists
  <2>6. ASSUME NEW s \in Shots, Pending(s)' PROVE Pending(s)
    <3>1. CASE \E b \in alloc' : mem'[b].reproc = Source(s)
      BY <1>1, <2>3, <3>1 DEF Pending
    <3>2. CASE \E i \in Rng(ToEncode') : ShotOf(i) = s
      BY <1>3, <2>2, <2>5, <3>2 DEF Pending
    <3> QED
      BY <1>3, <2>1, <2>6, <3>1, <3>2 DEF Pending
  <2>7. Jobs'
    <3>1. Source(ShotOf(j)) \in JpegFrames(j)
      BY <1>4, <2>5
    <3> QED
      BY <1>1, <2>1, <2>2, <3>1, Jpegs DEF Jobs
  <2>8. \A g \in Frame : done'[g] >= done[g]
    BY <1>1, DoneGrows
  <2>9. FrameStep
    BY <1>1, <1>3, <2>1, <2>6, <2>7, <2>8 DEF FrameStep
  <2> QED
    BY <2>4, <2>9, FrameStepKeeps
<1> QED
  BY <1>7, <1>8

-----------------------------------------------------------------------------
(* A frame is handed over.                                                 *)

\* A frame that arrives is a job with nothing done.
LEMMA ProcessDataPaired ==
  ASSUME IInv, IInv', PicturesInv, NEW s \in Shots, ProcessData(s)
  PROVE  PicturesInv'
<1>1. PICK f : f = Source(s)
  OBVIOUS
<1>2. f \in Frame /\ f.pass = 0 /\ f.shot = s /\ f # NoFrame /\ f = [shot |-> s, pass |-> 0]
  BY <1>1, FramesAre DEF Source
<1>3. /\ f \notin seen /\ seen' = seen \cup {f}
      /\ UNCHANGED <<world, dpc, flushing, sm, cb, hw, encoder, evts, answers>>
      /\ FShape /\ QShape /\ world \in World
  BY <1>1, WorldsAssumption DEF ProcessData, dVars, smVars, jpegVars, IInv, FShape
<1>4. HeldCbs' = HeldCbs /\ (\A c \in HeldCbs : cb'[c] = cb[c]) /\ (OngoingGone' <=> OngoingGone)
  BY <1>3, CbsRest DEF OngoingGone, Left
<1>5. CASE UNCHANGED <<q, mem, alloc>> /\ done' = DoneWith({f})
  BY <1>3, <1>4, <1>5, QueuesRest, RestingQuiet, QuietKeeps DEF Resting
<1>6. done' = done => \A g \in Frame : done'[g] >= done[g]
  BY DoneGrows
<1>7. ASSUME q["inputPP"].active, NEW a \in Blocks \ alloc, q' = [q EXCEPT !["inputPP"] = Enqueue(@, a)],
             done' = done, mem' = [mem EXCEPT ![a] = [NoJob EXCEPT !.src = f, !.reproc = f]],
             alloc' = alloc \cup {a}
      PROVE  PicturesInv'
  <2>1. /\ Waiting' = Append(Waiting, a) /\ Waiting \in Seq(Blocks)
        /\ UNCHANGED <<Ongoing, ToEncode, Encoding, Raws, Saved>>
    BY <1>3, <1>7, QEnqueue, DataIs, QRead, Names DEF Saved
  <2>2. Rng(Waiting') = Rng(Waiting) \cup {a}
    BY <2>1, AppendIs
  <2>3. mem'[a] = [src |-> f, reproc |-> f, count |-> 0, chan |-> 0]
    <3>1. mem'[a] = [NoJob EXCEPT !.src = f, !.reproc = f]
      BY <1>3, <1>7 DEF FShape
    <3> QED
      BY <1>2, <3>1, NewPPJob
  <2>4. mem'[a].src = f /\ mem'[a].reproc = f /\ mem'[a].count = 0
    BY <2>3
  <2>5. \A b \in alloc : b # a /\ mem'[b] = mem[b] /\ (b \in Rng(Waiting') <=> b \in Rng(Waiting))
    BY <1>3, <1>7, <2>2 DEF FShape
  <2>6. PairInv'
    <3> SUFFICES ASSUME world.ordered, Paired PROVE Paired'
      BY <1>3 DEF PairInv, PicturesInv
    <3>1. ASSUME NEW b \in alloc'
          PROVE  /\ mem'[b].src.shot = mem'[b].reproc.shot
                 /\ b \in Rng(Waiting') => mem'[b].src.pass = mem'[b].count
                 /\ b \notin Rng(Waiting') => mem'[b].src.pass = mem'[b].count - 1
      <4>1. CASE b = a
        BY <1>2, <2>2, <2>4, <4>1
      <4>2. CASE b # a
        BY <1>7, <2>5, <4>2 DEF Paired
      <4> QED
        BY <4>1, <4>2
    <3>2. ASSUME NEW c \in HeldCbs PROVE cb[c].frame = Later(mem'[cb[c].job].src)
      BY <2>5, OnLists DEF Paired
    <3>3. ASSUME ~OngoingGone, NEW i \in 1 .. Len(hw) PROVE hw[i].out = Later(mem'[Ongoing[i]].src)
      <4>1. Len(Ongoing) >= Len(hw) /\ Len(hw) \in Nat /\ Len(Ongoing) \in Nat
        BY <1>3, <3>3, QRead DEF IInv, Asked, FShape
      <4>2. Ongoing[i] \in alloc
        BY <4>1 DEF Rng, IInv, Placed
      <4> QED
        BY <2>5, <3>3, <4>2 DEF Paired
    <3> QED
      BY <1>3, <1>4, <2>1, <3>1, <3>2, <3>3 DEF Paired, Made
  <2>7. ASSUME NEW t \in Shots, Pending(t)' PROVE Pending(t)
    <3>1. CASE \E b \in alloc' : mem'[b].reproc = Source(t)
      <4>1. PICK b \in alloc' : mem'[b].reproc = Source(t)
        BY <3>1
      <4>2. CASE b = a
        BY <1>3, <2>4, <4>1, <4>2 DEF Pending
      <4>3. CASE b # a
        BY <1>7, <2>5, <4>1, <4>3 DEF Pending
      <4> QED
        BY <4>2, <4>3
    <3>2. CASE Source(t) \notin seen'
      BY <1>3, <3>2 DEF Pending
    <3> QED
      BY <1>3, <2>1, <2>7, <3>1, <3>2 DEF Pending
  <2>8. ~world.raw => Jobs'
    BY <2>1, Jpegs DEF Jobs
  <2>9. world.raw => RawJobs'
    BY <1>2, <1>3, <1>4, <1>7, <2>1, <2>4, <2>5, Jpegs DEF RawJobs, RawPass
  <2>10. FrameStep
    BY <1>3, <1>6, <1>7, <2>1, <2>7, <2>8, <2>9 DEF FrameStep
  <2> QED
    BY <2>6, <2>10, FrameStepKeeps
<1>8. ASSUME world.raw, world.passes = 0, q["inputRaw"].active,
             q' = [q EXCEPT !["inputRaw"] = Enqueue(@, f)], done' = done, UNCHANGED <<mem, alloc>>
      PROVE  PicturesInv'
  <2>1. /\ Raws' = Append(Raws, f) /\ Raws \in Seq(Frame)
        /\ UNCHANGED <<Waiting, Ongoing, ToEncode, Encoding, Saved>>
    BY <1>2, <1>3, <1>8, QEnqueue, DataIs, QRead, Names DEF Saved
  <2>2. Rng(Raws') = Rng(Raws) \cup {f}
    BY <1>2, <2>1, AppendIs
  <2>3. JobsShrink /\ Together
    BY <1>3, <1>4, <1>8, <2>1, AlikeItself DEF JobsShrink, Together
  <2>4. PairInv'
    BY <2>3, PairKept DEF PicturesInv
  <2>5. RawJobs'
    BY <1>2, <1>3, <1>4, <1>8, <2>1, <2>2, Jpegs DEF RawJobs, RawPass
  <2>6. FrameStep
    BY <1>3, <1>6, <1>8, <2>1, <2>5 DEF FrameStep
  <2> QED
    BY <2>4, <2>6, FrameStepKeeps
<1>9. ASSUME ~world.raw, q["inputJpeg"].active, NEW j, j = NewJpegJob(f, NoFrame),
             q' = [q EXCEPT !["inputJpeg"] = Enqueue(@, j)], done' = done, UNCHANGED <<mem, alloc>>
      PROVE  PicturesInv'
  <2>1. j \in JpegJob /\ JpegFrames(j) = {f} /\ j.reproc = NoFrame /\ ShotOf(j) = s
    BY <1>2, <1>9 DEF NewJpegJob, JpegJob, JpegFrames, ShotOf
  <2>2. /\ ToEncode' = Append(ToEncode, j) /\ ToEncode \in Seq(JpegJob)
        /\ UNCHANGED <<Waiting, Ongoing, Encoding, Raws, Saved>>
    BY <1>3, <1>9, <2>1, QEnqueue, DataIs, QRead, Names DEF Saved
  <2>3. Rng(ToEncode') = Rng(ToEncode) \cup {j}
    BY <2>1, <2>2, AppendIs
  <2>4. PairInv'
    <3> SUFFICES ASSUME world.ordered, Paired PROVE Paired'
      BY <1>3 DEF PairInv, PicturesInv
    <3>1. \A i \in Rng(ToEncode') \cup Rng(Encoding') : Made(i)'
      BY <1>3, <2>1, <2>2, <2>3 DEF Paired, Made
    <3> QED
      BY <1>3, <1>4, <1>9, <2>2, <3>1 DEF Paired
  <2>5. ASSUME NEW t \in Shots, Pending(t)' PROVE Pending(t)
    <3>1. CASE \E i \in Rng(ToEncode') : ShotOf(i) = t
      <4>1. PICK i \in Rng(ToEncode') : ShotOf(i) = t
        BY <3>1
      <4>2. CASE i = j
        BY <1>1, <1>3, <2>1, <4>1, <4>2 DEF Pending
      <4>3. CASE i # j
        BY <2>3, <4>1, <4>3 DEF Pending
      <4> QED
        BY <4>2, <4>3
    <3>2. CASE ~\E i \in Rng(ToEncode') : ShotOf(i) = t
      BY <1>3, <1>9, <2>2, <2>5, <3>2 DEF Pending
    <3> QED
      BY <3>1, <3>2
  <2>6. Jobs'
    BY <1>1, <1>9, <2>1, <2>2, <2>3, Jpegs DEF Jobs
  <2>7. FrameStep
    BY <1>3, <1>6, <1>9, <2>2, <2>5, <2>6 DEF FrameStep
  <2> QED
    BY <2>4, <2>7, FrameStepKeeps
<1>10. CASE world.passes > 0
  <2>1. PICK a \in Blocks \ alloc :
          /\ IF q["inputPP"].active
             THEN /\ q' = [q EXCEPT !["inputPP"] = Enqueue(@, a)]
                  /\ src' = "send"
                  /\ done' = done
             ELSE done' = DoneWith({f}) /\ UNCHANGED <<q, src>>
          /\ mem' = IF q["inputPP"].active
                    THEN [mem EXCEPT ![a] = [NoJob EXCEPT !.src = f, !.reproc = f]]
                    ELSE mem
          /\ alloc' = IF q["inputPP"].active THEN alloc \cup {a} ELSE alloc
    <3>1. world.passes # 0
      BY <1>3, <1>10 DEF World
    <3> QED
      BY <1>1, <3>1 DEF ProcessData
  <2> QED
    BY <1>5, <1>7, <2>1
<1>11. CASE ~(world.passes > 0)
  <2>1. UNCHANGED <<mem, alloc>> /\ world.passes = 0
    BY <1>11 DEF ProcessData
  <2>2. CASE world.raw
    BY <1>1, <1>5, <1>8, <2>1, <2>2 DEF ProcessData
  <2>3. CASE ~world.raw
    BY <1>1, <1>5, <1>9, <2>1, <2>3 DEF ProcessData
  <2> QED
    BY <2>2, <2>3
<1> QED
  BY <1>10, <1>11

-----------------------------------------------------------------------------
(* The invariant of the pictures.                                          *)

\* The invariant of the pictures holds at the start.
LEMMA PicturesInit ==
  ASSUME Init
  PROVE  PicturesInv
<1>1. /\ Waiting = << >> /\ Ongoing = << >> /\ ToEncode = << >> /\ Encoding = << >> /\ Raws = << >>
      /\ Saved = << >> /\ hw = << >> /\ alloc = {} /\ encoder = {} /\ evts = << >>
      /\ dpc = "idle" /\ seen = {}
  BY Names DEF Init, Waiting, Ongoing, ToEncode, Encoding, Raws, Saved, NewQueue
<1>2. HeldCbs = {}
  BY DEF Init, HeldCbs, Idle
<1>3. \A s \in Shots : answers[s] = 0
  BY DEF Init
<1>4. Rng(<< >>) = {} /\ 1 .. Len(<< >>) = {}
  BY DEF Rng
<1>5. Paired
  BY <1>1, <1>2, <1>4 DEF Paired
<1>6. JpegAnswers
  <2>1. \A s \in Shots : ~Coming(s)
    BY <1>1, <1>4 DEF Coming
  <2>2. Once
    BY <1>3, <2>1 DEF Once
  <2>3. Comings
    BY <1>1, <1>4 DEF Comings
  <2> QED
    BY <1>1, <1>4, <2>2, <2>3 DEF JpegAnswers, Jobs
<1>7. RawJobs
  BY <1>1, <1>2, <1>4 DEF RawJobs
<1>8. RawOnce
  <2>1. \A s \in Shots : [shot |-> s, pass |-> RawPass] \in Frame
    BY DEF RawPass, Frame, MaxPass
  <2> QED
    BY <1>3, <2>1 DEF RawOnce, Init
<1> QED
  BY <1>5, <1>6, <1>7, <1>8 DEF PicturesInv, PairInv, JpegAnsInv, RawAnsInv, RawAnswers

\* Every step keeps it.
LEMMA PicturesStep ==
  ASSUME IInv, IInv', NoRefusal, PicturesInv, [Next]_vars
  PROVE  PicturesInv'
<1>1. CASE \E s \in Shots : ProcessData(s)
  BY <1>1, ProcessDataPaired
<1>2. CASE SourceSends \/ Start \/ Stop \/ DeleteChannels \/ UNCHANGED vars
  BY <1>2, MachineQuiet, QuietKeeps
<1>3. CASE ProcessJpegEvt
  BY <1>3, ProcessJpegEvtOnce
<1>4. CASE JpegCallback
  BY <1>4, JpegCallbackOnce
<1>5. CASE SaveThread
  BY <1>5, SaveQuiet, QuietKeeps, SaveNextOnce DEF SaveThread
<1>6. CASE DataProc
  <2>1. CASE DStart
    BY <2>1, DStartQuiet, QuietKeeps
  <2>2. CASE DStop \/ DStopped
    BY <2>2, DStopQuiet, QuietKeeps
  <2>3. CASE DFlush
    BY <2>3, DFlushQuiet, QuietKeeps
  <2>4. CASE DDrop
    BY <2>4, DDropQuiet, QuietKeeps
  <2>5. CASE DJpeg
    <3>1. CASE CanDequeue(q["inputJpeg"])
      BY <2>5, <3>1, DJpegTakes
    <3>2. CASE ~CanDequeue(q["inputJpeg"])
      <4>1. /\ DUnchanged /\ UNCHANGED <<q, mem, alloc, hw, done, answers, encoder, sm, flushing>>
            /\ dpc = "idle" /\ dpc' = "raw"
        BY <2>5, <3>2 DEF DJpeg, Takes
      <4> QED
        BY <4>1, DNothingQuiet, QuietKeeps
    <3> QED
      BY <3>1, <3>2
  <2>6. CASE DEncode
    BY <2>6, DEncodeOnce
  <2>7. CASE DEncodeFails
    BY <2>7, DEncodeFailsOnce
  <2>8. CASE DStoreId
    BY <2>8, DStoreIdOnce
  <2>9. CASE DRaw
    BY <2>9, DRawOnce
  <2>10. CASE DReproc
    BY <2>10, DReprocPaired
  <2>11. CASE DAsk
    BY <2>11, DAskPaired
  <2>12. CASE DAskFails
    BY <2>12 DEF DAskFails, NoRefusal
  <2> QED
    BY <1>6, <2>1, <2>2, <2>3, <2>4, <2>5, <2>6, <2>7, <2>8, <2>9, <2>10, <2>11, <2>12 DEF DataProc
<1>7. ASSUME NEW c \in Channels, Callback(c) PROVE PicturesInv'
  <2>1. CASE \E i \in 1 .. Len(hw) : CbTake(c, i)
    BY <2>1, CbTakePaired
  <2>2. CASE CbRaw(c)
    BY <2>2, CbRawPaired
  <2>3. CASE CbAgain(c)
    BY <2>3, CbAgainPaired
  <2>4. CASE CbDone(c)
    BY <2>4, CbDonePaired
  <2>5. CASE CbSend(c)
    BY <2>5, CbSendQuiet, QuietKeeps
  <2> QED
    BY <1>7, <2>1, <2>2, <2>3, <2>4, <2>5 DEF Callback
<1> QED
  BY <1>1, <1>2, <1>3, <1>4, <1>5, <1>6, <1>7 DEF Next

\* What is proved of the pictures, in a reachable state.
Picture == NoRefusal => IInv /\ PicturesInv

\* Both invariants hold in every state.
LEMMA PictureHolds == Spec => []Picture
<1>1. Init => Picture
  BY InitIs, PicturesInit DEF Picture
<1>2. Picture /\ [Next]_vars => Picture'
  <2> SUFFICES ASSUME Picture, [Next]_vars, NoRefusal' PROVE (IInv /\ PicturesInv)'
    BY DEF Picture
  <2>1. NoRefusal
    BY WorldKept DEF NoRefusal
  <2>2. IInv /\ PicturesInv
    BY <2>1 DEF Picture
  <2>3. IInv'
    BY <2>1, <2>2, StepKeeps
  <2> QED
    BY <2>1, <2>2, <2>3, PicturesStep
<1> QED
  BY <1>1, <1>2, PTL DEF Spec

\* No frame is given back twice and no shot answered twice.
LEMMA AtMostOnce ==
  ASSUME IInv, PicturesInv
  PROVE  done \in [Frame -> 0 .. 1] /\ answers \in [Shots -> 0 .. 1]
<1>1. \A f \in Frame : done[f] \in 0 .. 1
  BY CountIs
<1>2. done \in [Frame -> Nat] /\ answers \in [Shots -> Nat]
  BY DEF IInv, FShape
<1>3. ASSUME NEW s \in Shots PROVE answers[s] \in 0 .. 1
  <2>1. CASE ~world.raw
    <3>1. Once
      BY <2>1, Jpegs
    <3>2. answers[s] > 0 => answers[s] = 1
      BY <3>1 DEF Once
    <3> QED
      BY <1>2, <3>2
  <2>2. CASE world.raw
    <3> DEFINE f == [shot |-> s, pass |-> RawPass]
    <3>1. f \in Frame
      BY DEF RawPass, Frame, MaxPass
    <3>2. answers[s] <= done[f]
      BY <2>2, Jpegs DEF RawOnce
    <3> QED
      BY <1>1, <1>2, <3>1, <3>2
  <2> QED
    BY <2>1, <2>2
<1> QED
  BY <1>1, <1>2, <1>3

-----------------------------------------------------------------------------
(* Frames that nobody gives back.                                          *)

\* A kept frame left the postprocessor as a raw picture that is a copy; stop() leaves
\* only those of the source channel.
KeptInv ==
  \A f \in kept :
    /\ f \in seen /\ done[f] >= 1 /\ world.raw /\ ~ZslChannelUsed(f)
    /\ ~running => f.pass = 0

\* A frame that left the postprocessor does not come back to it.
LEMMA DoneStays ==
  ASSUME IInv, NoRefusal, [Next]_vars
  PROVE  \A f \in Frame : done'[f] >= done[f]
<1>1. ASSUME NEW s \in Shots, ProcessData(s) PROVE done' = done \/ \E S : done' = DoneWith(S)
  BY <1>1 DEF ProcessData
<1>2. CASE SourceSends \/ Start \/ Stop \/ DeleteChannels \/ JpegCallback \/ UNCHANGED vars
  BY <1>2, DoneGrows DEF SourceSends, Start, Stop, DeleteChannels, JpegCallback, frameVars, vars
<1>3. CASE ProcessJpegEvt
  <2>1. done' = done \/ \E S : done' = DoneWith(S)
    BY <1>3 DEF ProcessJpegEvt
  <2> QED
    BY <2>1, DoneGrows
<1>4. CASE SaveThread
  <2>1. CASE SaveStart \/ SaveStop
    BY <2>1, DoneGrows DEF SaveStart, SaveStop
  <2>2. CASE SaveNext
    <3>1. done' = done \/ \E S : done' = DoneWith(S)
      BY <2>2 DEF SaveNext
    <3> QED
      BY <3>1, DoneGrows
  <2> QED
    BY <1>4, <2>1, <2>2 DEF SaveThread
<1>5. CASE DataProc
  <2>1. CASE DStart \/ DStop \/ DStopped \/ DJpeg \/ DEncode \/ DStoreId \/ DReproc \/ DAsk
    BY <2>1, DoneGrows
       DEF DStart, DStop, DStopped, DJpeg, DEncode, DStoreId, DReproc, DAsk, frameVars
  <2>2. CASE DFlush
    <3>1. done' = done \/ \E S : done' = DoneWith(S)
      BY <2>2 DEF DFlush
    <3> QED
      BY <3>1, DoneGrows
  <2>3. CASE DDrop
    <3>1. \E S : done' = DoneWith(S)
      BY <2>3 DEF DDrop
    <3> QED
      BY <3>1, DoneGrows
  <2>4. CASE DEncodeFails
    <3>1. \E S : done' = DoneWith(S)
      BY <2>4 DEF DEncodeFails
    <3> QED
      BY <3>1, DoneGrows
  <2>5. CASE DRaw
    <3>1. done' = done \/ \E S : done' = DoneWith(S)
      BY <2>5 DEF DRaw
    <3> QED
      BY <3>1, DoneGrows
  <2>6. CASE DAskFails
    BY <2>6 DEF DAskFails, NoRefusal
  <2> QED
    BY <1>5, <2>1, <2>2, <2>3, <2>4, <2>5, <2>6 DEF DataProc
<1>6. ASSUME NEW c \in Channels, Callback(c) PROVE done' = done \/ \E S : done' = DoneWith(S)
  BY <1>6 DEF Callback, CbTake, CbRaw, CbAgain, CbDone, CbSend, frameVars
<1> QED
  BY <1>1, <1>2, <1>3, <1>4, <1>5, <1>6, DoneGrows DEF Next

\* A frame that was handed over stays so.
LEMMA SeenGrows ==
  ASSUME [Next]_vars
  PROVE  seen \subseteq seen'
<1>1. ASSUME NEW s \in Shots, ProcessData(s) PROVE seen \subseteq seen'
  BY <1>1 DEF ProcessData
<1>2. CASE SourceSends \/ Start \/ Stop \/ DeleteChannels \/ ProcessJpegEvt \/ JpegCallback \/ UNCHANGED vars
  BY <1>2 DEF SourceSends, Start, Stop, DeleteChannels, ProcessJpegEvt, JpegCallback, frameVars, vars
<1>3. CASE SaveThread
  BY <1>3 DEF SaveThread, SaveStart, SaveStop, SaveNext, SaveUnchanged
<1>4. CASE DataProc
  BY <1>4 DEF DataProc, DStart, DStop, DFlush, DStopped, DDrop, DJpeg, DEncode, DEncodeFails,
              DStoreId, DRaw, DReproc, DAsk, DAskFails, DUnchanged, frameVars
<1>5. ASSUME NEW c \in Channels, Callback(c) PROVE seen \subseteq seen'
  BY <1>5 DEF Callback, CbTake, CbRaw, CbAgain, CbDone, CbSend, frameVars
<1> QED
  BY <1>1, <1>2, <1>3, <1>4, <1>5 DEF Next

\* Only a raw picture keeps a frame, only while pictures are taken, and only the deletion
\* of the reprocess channels lets some of them go.
LEMMA KeptChanges ==
  ASSUME [Next]_vars, NoRefusal, IInv, ~DRaw
  PROVE  /\ kept' \subseteq kept
         /\ running => running' \/ \A f \in kept' : f.pass = 0
         /\ ~running' /\ ~running => kept' = kept
<1>1. ASSUME NEW s \in Shots, ProcessData(s) PROVE UNCHANGED <<kept, running>>
  BY <1>1 DEF ProcessData, smVars
<1>2. CASE SourceSends \/ Start \/ Stop \/ ProcessJpegEvt \/ JpegCallback \/ UNCHANGED vars
  <2>1. UNCHANGED <<kept, running>>
    BY <1>2 DEF SourceSends, Start, Stop, ProcessJpegEvt, JpegCallback, frameVars, smVars, vars
  <2> QED
    BY <2>1
<1>3. CASE DeleteChannels
  BY <1>3 DEF DeleteChannels, IInv, Control
<1>4. CASE SaveThread
  BY <1>4 DEF SaveThread, SaveStart, SaveStop, SaveNext, SaveUnchanged, smVars
<1>5. CASE DataProc
  BY <1>5 DEF DataProc, DStart, DStop, DFlush, DStopped, DDrop, DJpeg, DEncode, DEncodeFails,
              DStoreId, DReproc, DAsk, DAskFails, DUnchanged, frameVars
<1>6. ASSUME NEW c \in Channels, Callback(c) PROVE UNCHANGED <<kept, running>>
  BY <1>6 DEF Callback, CbTake, CbRaw, CbAgain, CbDone, CbSend, CbUnchanged, frameVars, smVars
<1> QED
  BY <1>1, <1>2, <1>3, <1>4, <1>5, <1>6 DEF Next

\* What is said of kept frames is kept by every step.
LEMMA KeptStep ==
  ASSUME Picture, Picture', KeptInv, NoRefusal, [Next]_vars
  PROVE  KeptInv'
<1>1. IInv /\ IInv' /\ PicturesInv /\ UNCHANGED world
  BY WorldKept DEF Picture, NoRefusal
<1>2. ASSUME NEW f \in kept, f \in kept'
      PROVE  f \in seen' /\ done'[f] >= 1 /\ world'.raw /\ ~ZslChannelUsed(f)'
  <2>1. f \in seen /\ f \in Frame /\ done[f] >= 1
    BY <1>1, <1>2 DEF KeptInv, IInv, FShape
  <2>2. done'[f] >= 1
    <3>1. done \in [Frame -> Nat] /\ done' \in [Frame -> Nat] /\ done'[f] >= done[f]
      BY <1>1, <2>1, DoneStays DEF IInv, FShape
    <3> QED
      BY <2>1, <3>1
  <2>3. f \in seen'
    BY <2>1, SeenGrows
  <2> QED
    BY <1>1, <1>2, <2>2, <2>3 DEF KeptInv, ZslChannelUsed
<1>3. CASE ~DRaw
  <2>1. /\ kept' \subseteq kept
        /\ running => running' \/ \A f \in kept' : f.pass = 0
        /\ ~running' /\ ~running => kept' = kept
    BY <1>1, <1>3, KeptChanges
  <2> QED
    BY <1>2, <2>1 DEF KeptInv
<1>4. CASE DRaw
  <2>1. running /\ running' /\ seen' = seen
    BY <1>1, <1>4 DEF DRaw, DUnchanged, IInv, Control, Working
  <2>2. ASSUME NEW f \in kept', f \notin kept
        PROVE  f \in seen /\ done'[f] >= 1 /\ world.raw /\ ~ZslChannelUsed(f)
    <3>1. /\ CanDequeue(q["inputRaw"]) /\ f = First(q["inputRaw"]) /\ ~ZslChannelUsed(f)
          /\ done' = DoneWith({f})
      BY <1>4, <2>2 DEF DRaw
    <3>2. Raws \in Seq(Frame) /\ Raws # << >> /\ f = Head(Raws)
      BY <1>1, <3>1 DEF Raws, IInv, QShape, QueueOf, CanDequeue, First
    <3>3. f \in Frame /\ f \in Rng(Raws)
      BY <3>2, TailIs
    <3>4. world.raw
      BY <1>1, <3>2, Jpegs, WorldsAssumption DEF Jobs
    <3>5. Rng(Raws) \subseteq seen
      BY <1>1, FitSays DEF IInv, Accounted
    <3>6. done[f] = 0
      <4>1. Owners(f) # {}
        BY <1>1, <3>3, OwnedIs
      <4> QED
        BY <1>1, <3>3, <4>1, CountIs
    <3> QED
      BY <3>1, <3>3, <3>4, <3>5, <3>6 DEF DoneWith
  <2> QED
    BY <1>1, <1>2, <2>1, <2>2 DEF KeptInv, ZslChannelUsed
<1> QED
  BY <1>3, <1>4

\* In a reachable state a kept frame is a copied raw picture.
LEMMA KeptHolds == Spec => [](NoRefusal => IInv /\ PicturesInv /\ KeptInv)
<1>1. Init => KeptInv
  BY DEF Init, KeptInv
<1>2. Picture /\ Picture' /\ (NoRefusal => KeptInv) /\ [Next]_vars => (NoRefusal => KeptInv)'
  <2> SUFFICES ASSUME Picture, Picture', NoRefusal => KeptInv, [Next]_vars, NoRefusal' PROVE KeptInv'
    OBVIOUS
  <2>1. NoRefusal
    BY WorldKept DEF NoRefusal
  <2> QED
    BY <2>1, KeptStep
<1>3. Picture /\ (NoRefusal => KeptInv) => (NoRefusal => IInv /\ PicturesInv /\ KeptInv)
  BY DEF Picture
<1> QED
  BY <1>1, <1>2, <1>3, PictureHolds, PTL DEF Spec

\* The frames are returned: FramesAccounted.  "source frame (need to be returned back to
\* kernel after done)": one owner until it goes back, once, in every world without refusals,
\* for any number of shots and sessions; but a raw frame that was copied never goes back.
THEOREM EveryFrameAccounted == Spec => []FramesAccounted
<1>1. ASSUME NoRefusal => IInv /\ PicturesInv /\ KeptInv PROVE FramesAccounted
  <2> SUFFICES ASSUME NoRefusal PROVE FramesReturned
    BY DEF FramesAccounted
  <2>1. IInv
    BY <1>1
  <2>2. orphans # {} => sm \in {"stop", "delete"}
    BY <2>1 DEF IInv, Asked
  <2>3. ASSUME NEW f \in seen \ orphans PROVE Cardinality(Owners(f)) + done[f] = 1
    <3>1. f \in Frame
      BY <2>1 DEF IInv, FShape
    <3>2. CASE Owners(f) = {}
      BY <2>1, <2>3, <3>1, <3>2, CountIs, FS_EmptySet
    <3>3. CASE Owners(f) # {}
      <4>1. PICK o : o \in Owners(f)
        BY <3>3
      <4>2. Owners(f) = {o}
        BY <2>1, <4>1, OneOwner
      <4>3. Cardinality(Owners(f)) = 1
        BY <4>2, FS_Singleton
      <4>4. done[f] = 0
        BY <2>1, <3>1, <3>3, CountIs
      <4> QED
        BY <4>3, <4>4
    <3> QED
      BY <3>2, <3>3
  <2>4. ASSUME NEW f \in kept PROVE done[f] = 1 /\ world.raw /\ ~ZslChannelUsed(f)
    <3>1. f \in Frame /\ done[f] >= 1 /\ world.raw /\ ~ZslChannelUsed(f)
      BY <1>1, <2>1, <2>4 DEF KeptInv, IInv, FShape
    <3>2. done[f] = 0 \/ done[f] = 1
      BY <2>1, <3>1, CountIs
    <3> QED
      BY <3>1, <3>2
  <2> QED
    BY <2>2, <2>3, <2>4 DEF FramesReturned
<1> QED
  BY <1>1, KeptHolds, PTL

\* stop() leaves nothing behind: StoppedClean, whatever was queued, encoding or in a
\* callback's hands when it began, but for frames of the source channel that were
\* answered as raw pictures outside ZSL.
THEOREM StopLeavesNothing == Spec => []StoppedClean
<1>1. ASSUME NoRefusal => IInv /\ PicturesInv /\ KeptInv PROVE StoppedClean
  <2> SUFFICES ASSUME NoRefusal, sm = "idle", ~running, sessions > 0, NEW f \in seen
               PROVE  done[f] = 1 /\ (f \in kept => world.raw /\ ~world.zsl /\ f.pass = 0)
    BY DEF StoppedClean
  <2>1. IInv
    BY <1>1
  <2>2. OffNow
    BY DEF OffNow
  <2>3. \A n \in Opened \cup {"ongoingJpeg"} : Closed(n)
    BY <2>1, <2>2 DEF IInv, Queues
  <2>4. Encoding = << >> /\ \A n \in Opened : ~q[n].active
    BY <2>3 DEF Closed, Opened
  <2>5. Waiting = << >> /\ Ongoing = << >> /\ ToEncode = << >> /\ Raws = << >> /\ HeldCbs = {}
    BY <2>1, <2>4, Names DEF IInv, Queues, Opened, Waiting, Ongoing, ToEncode, Raws
  <2>6. Rng(<< >>) = {}
    BY DEF Rng
  <2>7. alloc = {}
    BY <2>1, <2>5, <2>6 DEF IInv, Placed, HeldJobs
  <2>8. Owners(f) = {}
    BY <2>1, <2>4, <2>5, <2>6, <2>7, OwnedIs
  <2>9. orphans = {} /\ f \in Frame
    BY <2>1 DEF IInv, Asked, FShape
  <2>10. f \in kept => world.raw /\ ~world.zsl /\ f.pass = 0
    BY <1>1 DEF KeptInv, ZslChannelUsed
  <2> QED
    BY <2>1, <2>8, <2>9, <2>10, CountIs
<1> QED
  BY <1>1, KeptHolds, PTL

\* The types, with what they say of the counters: no frame is given back twice, and no
\* shot is answered twice, whatever the encoder's callbacks, its failures and stop() do.
THEOREM TypeCorrect == Spec => []TypeOK
<1>1. (NoRefusal => IInv /\ PicturesInv /\ KeptInv) /\ world \in Worlds => TypeOK
  <2> SUFFICES ASSUME NoRefusal, IInv, PicturesInv, KeptInv, world \in Worlds PROVE TypeOK
    BY DEF TypeOK
  <2>1. done \in [Frame -> 0 .. 1] /\ answers \in [Shots -> 0 .. 1]
    BY AtMostOnce
  <2>2. \A c \in Channels : cb[c].at \in {"idle", "held", "send"}
    BY DEF IInv, FShape
  <2>3. \A e \in encoder : e.shot \in Shots /\ e.id < nextId
    BY DEF IInv, FShape
  <2>4. dpc \in {"idle", "save", "jpeg", "encode", "store", "raw", "reproc", "ask", "flush"}
    BY DEF IInv, DShape, Working
  <2>5. kept \subseteq seen
    BY DEF KeptInv
  <2> QED
    BY <2>1, <2>2, <2>3, <2>4, <2>5 DEF TypeOK, IInv, QShape, DShape, FShape
<1>2. Init => world \in Worlds
  BY DEF Init
<1>3. world \in Worlds /\ [Next]_vars => (world \in Worlds)'
  BY WorldKept
<1> QED
  BY <1>1, <1>2, <1>3, KeptHolds, PTL DEF Spec

\* The picture of a shot is made of that shot, as long as no channel refuses a frame and
\* the channels answer in the order they were asked.
THEOREM PictureIsOfItsShot == Spec => []PictureOfItsShot
<1>1. Picture => PictureOfItsShot
  <2> SUFFICES ASSUME Picture, NoRefusal, world.ordered, NEW j \in JobsIn(JpegQueues), j.reproc # NoFrame
               PROVE  j.src = [shot |-> j.reproc.shot, pass |-> world.passes]
    BY DEF PictureOfItsShot
  <2>1. j \in Rng(ToEncode) \cup Rng(Encoding)
    BY ItemsAre
  <2> QED
    BY <2>1 DEF Picture, PicturesInv, PairInv, Paired, Made
<1> QED
  BY <1>1, PictureHolds, PTL
=============================================================================
