------------------------------ MODULE JpegProofs ------------------------------
(***************************************************************************)
(* Proofs about JpegJobs: the types, HandleKept, and that every step is one *)
(* of JpegService or a stutter.                                            *)
(*                                                                         *)
(* HandleKept says what a session without its handle waits for, and none   *)
(* of that is kept by one thread alone.  IInv says for each of them what   *)
(* it relies on: LockInv who has job_lock, MgrInv what the manager knows   *)
(* of the job it took, SessionInv how component, callback and call stand   *)
(* to a session, JobInv that a client has one unanswered job at most, its  *)
(* last, and QueueInv that a queued job has nothing else under way.        *)
(* One lemma for each action follows, with a step for each of these.       *)
(***************************************************************************)
EXTENDS JpegJobs, SequenceTheorems, WellFoundedInduction, TLAPS

-----------------------------------------------------------------------------
(* What Without returns.  The library's induction rules take the formula   *)
(* to prove as an operator; here induction is over a set of numbers, which *)
(* needs only that a non-empty one has a least element.                    *)

\* Induction: a set with 0 and, with every number, the next one has all numbers.
LEMMA SetInduction ==
  ASSUME NEW S, 0 \in S, \A n \in Nat : n \in S => n + 1 \in S
  PROVE  Nat \subseteq S
<1> DEFINE R == {ss \in Nat \X Nat : ss[1] < ss[2]}
           T == Nat \ S
<1>1. IsWellFoundedOn(R, Nat)
  <2>1. OpToRel(<, Nat) = R
    BY DEF OpToRel
  <2> QED
    BY <2>1, NatLessThanWellFounded
<1>2. SUFFICES ASSUME T # {} PROVE FALSE
  OBVIOUS
<1> HIDE DEF R
<1>3. PICK x \in T : \A y \in T : <<y, x>> \notin R
  BY <1>1, <1>2, WFMin
<1>4. x \in Nat /\ x # 0 /\ x - 1 \in Nat
  BY <1>3
<1>5. <<x - 1, x>> \in R
  BY <1>4 DEF R
<1>6. x - 1 \in S
  BY <1>3, <1>4, <1>5
<1> QED
  BY <1>3, <1>4, <1>6

\* The recursion of Without: f is the function it defines, up to n.
Keeps(f, s, S, n) ==
  f = [m \in 0 .. n |->
         IF m = 0 THEN << >>
         ELSE IF s[m] \in S THEN f[m - 1] ELSE Append(f[m - 1], s[m])]

\* There is such a function.
LEMMA KeptExists ==
  ASSUME NEW s, NEW S, NEW n \in Nat
  PROVE  \E f : Keeps(f, s, S, n)
<1> DEFINE G == {k \in Nat : \E f : Keeps(f, s, S, k)}
<1>1. 0 \in G
  <2>1. Keeps([m \in 0 .. 0 |-> << >>], s, S, 0)
    BY DEF Keeps
  <2> QED
    BY <2>1
<1>2. ASSUME NEW k \in Nat, k \in G PROVE k + 1 \in G
  <2>1. PICK f : Keeps(f, s, S, k)
    BY <1>2
  <2> DEFINE last == IF s[k + 1] \in S THEN f[k] ELSE Append(f[k], s[k + 1])
             g == [m \in 0 .. k + 1 |-> IF m = k + 1 THEN last ELSE f[m]]
  <2>2. g[k + 1] = last /\ \A m \in 0 .. k : g[m] = f[m]
    OBVIOUS
  <2>3. ASSUME NEW m \in 0 .. k + 1
        PROVE  g[m] = IF m = 0 THEN << >>
                      ELSE IF s[m] \in S THEN g[m - 1] ELSE Append(g[m - 1], s[m])
    <3> HIDE DEF g
    <3>1. CASE m = k + 1
      <4>1. m # 0 /\ m - 1 = k /\ g[k] = f[k]
        BY <3>1, <2>2
      <4> QED
        BY <3>1, <4>1, <2>2
    <3>2. CASE m = 0
      BY <3>2, <2>1, <2>2 DEF Keeps
    <3>3. CASE m \in 1 .. k
      <4>1. m \in 0 .. k /\ m - 1 \in 0 .. k /\ m # 0
        BY <3>3
      <4> QED
        BY <4>1, <2>1, <2>2 DEF Keeps
    <3> QED
      BY <3>1, <3>2, <3>3
  <2>4. Keeps(g, s, S, k + 1)
    BY <2>3 DEF Keeps
  <2> QED
    BY <2>4
<1>3. Nat \subseteq G
  <2> HIDE DEF G
  <2> QED
    BY <1>1, <1>2, SetInduction
<1> QED
  BY <1>3

\* Without is its last value.
LEMMA WithoutIs ==
  ASSUME NEW s, NEW S, Len(s) \in Nat
  PROVE  \E f : Keeps(f, s, S, Len(s)) /\ Without(s, S) = f[Len(s)]
<1>1. Keeps(CHOOSE f : Keeps(f, s, S, Len(s)), s, S, Len(s))
  BY KeptExists
<1>2. Without(s, S) = (CHOOSE f : Keeps(f, s, S, Len(s)))[Len(s)]
  BY DEF Without, Keeps
<1> QED
  BY <1>1, <1>2

\* t is a choice of s: the elements at positions e, in their order, which are
\* those of the first n that are not in S.
Chosen(t, s, S, n, e) ==
  /\ e \in [1 .. Len(t) -> 1 .. n]
  /\ \A k \in 1 .. Len(t) : t[k] = s[e[k]] /\ s[e[k]] \notin S
  /\ \A k, l \in 1 .. Len(t) : k < l => e[k] < e[l]
  /\ \A i \in 1 .. n : s[i] \notin S => \E k \in 1 .. Len(t) : e[k] = i

\* Without(s, S) is a list of elements of s at rising positions, all those not in S.
LEMMA WithoutChooses ==
  ASSUME NEW T, NEW s \in Seq(T), NEW S
  PROVE  /\ Without(s, S) \in Seq(T)
         /\ \E e : Chosen(Without(s, S), s, S, Len(s), e)
<1>1. Len(s) \in Nat
  OBVIOUS
<1>2. PICK f : Keeps(f, s, S, Len(s)) /\ Without(s, S) = f[Len(s)]
  BY <1>1, WithoutIs
<1> DEFINE Good(n) == f[n] \in Seq(T) /\ \E e : Chosen(f[n], s, S, n, e)
           G == {n \in Nat : n <= Len(s) => Good(n)}
<1>3. 0 \in G
  <2>1. f[0] = << >>
    BY <1>1, <1>2 DEF Keeps
  <2>2. Chosen(f[0], s, S, 0, << >>)
    BY <2>1 DEF Chosen
  <2>3. f[0] \in Seq(T)
    BY <2>1
  <2>4. Good(0)
    BY <2>2, <2>3
  <2> QED
    BY <2>4
<1>4. ASSUME NEW n \in Nat, n \in G PROVE n + 1 \in G
  <2> SUFFICES ASSUME n + 1 <= Len(s) PROVE Good(n + 1)
    OBVIOUS
  <2>1. n <= Len(s) /\ n + 1 \in 1 .. Len(s) /\ s[n + 1] \in T
    BY <1>1
  <2>2. f[n] \in Seq(T) /\ \E e : Chosen(f[n], s, S, n, e)
    BY <1>4, <2>1
  <2>3. PICK e : Chosen(f[n], s, S, n, e)
    BY <2>2
  <2>4. f[n + 1] = IF s[n + 1] \in S THEN f[n] ELSE Append(f[n], s[n + 1])
    <3>1. n + 1 \in 0 .. Len(s) /\ n + 1 # 0 /\ (n + 1) - 1 = n
      BY <2>1
    <3> QED
      BY <3>1, <1>2 DEF Keeps
  <2> HIDE DEF G
  <2>5. CASE s[n + 1] \in S
    <3>1. Chosen(f[n], s, S, n + 1, e)
      BY <2>3, <2>5 DEF Chosen
    <3> QED
      BY <3>1, <2>2, <2>4, <2>5
  <2>6. CASE s[n + 1] \notin S
    <3> DEFINE t == f[n]
               u == Append(t, s[n + 1])
               d == [k \in 1 .. Len(t) + 1 |-> IF k = Len(t) + 1 THEN n + 1 ELSE e[k]]
    <3>1. /\ Len(t) \in Nat /\ u \in Seq(T) /\ Len(u) = Len(t) + 1
          /\ \A k \in 1 .. Len(t) : u[k] = t[k]
          /\ u[Len(t) + 1] = s[n + 1]
      BY <2>1, <2>2, AppendProperties
    <3> HIDE DEF t, u
    <3>2. /\ e \in [1 .. Len(t) -> 1 .. n]
          /\ \A k \in 1 .. Len(t) : t[k] = s[e[k]] /\ s[e[k]] \notin S
          /\ \A k, l \in 1 .. Len(t) : k < l => e[k] < e[l]
          /\ \A i \in 1 .. n : s[i] \notin S => \E k \in 1 .. Len(t) : e[k] = i
      BY <2>3 DEF Chosen, t
    <3>3. d[Len(t) + 1] = n + 1 /\ \A k \in 1 .. Len(t) : d[k] = e[k]
      BY <3>1
    <3>4. d \in [1 .. Len(u) -> 1 .. n + 1]
      BY <3>1, <3>2
    <3> HIDE DEF d
    <3>5. \A k \in 1 .. Len(u) : u[k] = s[d[k]] /\ s[d[k]] \notin S
      BY <3>1, <3>2, <3>3, <2>6
    <3>6. ASSUME NEW k \in 1 .. Len(u), NEW l \in 1 .. Len(u), k < l
          PROVE  d[k] < d[l]
      <4>1. k \in 1 .. Len(t) /\ d[k] = e[k] /\ e[k] \in 1 .. n
        <5>1. k \in 1 .. Len(t)
          BY <3>1, <3>6
        <5>2. d[k] = e[k]
          BY <3>3, <5>1
        <5>3. e[k] \in 1 .. n
          BY <3>2, <5>1
        <5> QED
          BY <5>1, <5>2, <5>3
      <4>2. CASE l = Len(t) + 1
        BY <4>1, <4>2, <3>3
      <4>3. CASE l \in 1 .. Len(t)
        BY <4>1, <4>3, <3>2, <3>3, <3>6
      <4> QED
        BY <4>2, <4>3, <3>1
    <3>7. ASSUME NEW i \in 1 .. n + 1, s[i] \notin S
          PROVE  \E k \in 1 .. Len(u) : d[k] = i
      <4>1. CASE i = n + 1
        <5>1. Len(t) + 1 \in 1 .. Len(u)
          BY <3>1
        <5> QED
          BY <4>1, <5>1, <3>3
      <4>2. CASE i \in 1 .. n
        <5>1. PICK k \in 1 .. Len(t) : e[k] = i
          BY <4>2, <3>2, <3>7
        <5>2. k \in 1 .. Len(u) /\ d[k] = i
          BY <5>1, <3>1, <3>3
        <5> QED
          BY <5>2
      <4> QED
        BY <4>1, <4>2
    <3>8. Chosen(u, s, S, n + 1, d)
      BY <3>4, <3>5, <3>6, <3>7 DEF Chosen
    <3>9. f[n + 1] = u
      BY <2>4, <2>6 DEF u, t
    <3> QED
      BY <3>1, <3>8, <3>9
  <2> QED
    BY <2>5, <2>6
<1>5. Nat \subseteq G
  <2> HIDE DEF G
  <2> QED
    BY <1>3, <1>4, SetInduction
<1> QED
  BY <1>1, <1>2, <1>5

\* The elements of Without(s, S) are those of s that are not in S.
LEMMA WithoutElements ==
  ASSUME NEW T, NEW s \in Seq(T), NEW S, NEW t, t = Without(s, S)
  PROVE  /\ t \in Seq(T)
         /\ \A k \in 1 .. Len(t) : t[k] \notin S /\ \E i \in 1 .. Len(s) : t[k] = s[i]
         /\ \A i \in 1 .. Len(s) : s[i] \notin S => \E k \in 1 .. Len(t) : t[k] = s[i]
<1>1. t \in Seq(T)
  BY WithoutChooses
<1>2. PICK e : Chosen(t, s, S, Len(s), e)
  BY WithoutChooses
<1>3. /\ \A k \in 1 .. Len(t) : e[k] \in 1 .. Len(s) /\ t[k] = s[e[k]] /\ s[e[k]] \notin S
      /\ \A k, l \in 1 .. Len(t) : k < l => e[k] < e[l]
      /\ \A i \in 1 .. Len(s) : s[i] \notin S => \E k \in 1 .. Len(t) : e[k] = i
  BY <1>2 DEF Chosen
<1>4. \A i \in 1 .. Len(s) : s[i] \notin S => \E k \in 1 .. Len(t) : t[k] = s[i]
  BY <1>3
<1> QED
  BY <1>1, <1>3, <1>4

\* They keep their order, so no element comes in twice.
LEMMA WithoutOrdered ==
  ASSUME NEW T, NEW s \in Seq(T), NEW S, NEW t, t = Without(s, S)
  PROVE  \A k, l \in 1 .. Len(t) : k < l =>
           \E i, j \in 1 .. Len(s) : i < j /\ t[k] = s[i] /\ t[l] = s[j]
<1>1. PICK e : Chosen(t, s, S, Len(s), e)
  BY WithoutChooses
<1> SUFFICES ASSUME NEW k \in 1 .. Len(t), NEW l \in 1 .. Len(t), k < l
             PROVE  \E i, j \in 1 .. Len(s) : i < j /\ t[k] = s[i] /\ t[l] = s[j]
  OBVIOUS
<1>2. /\ e[k] \in 1 .. Len(s) /\ t[k] = s[e[k]]
      /\ e[l] \in 1 .. Len(s) /\ t[l] = s[e[l]]
      /\ e[k] < e[l]
  BY <1>1 DEF Chosen
<1> QED
  BY <1>2

\* Where the manager has job_lock, and where a call for client c has it.
MgrLocks == {"encode", "give", "failed", "unlock"}
Ending(c) == api.at \in {"abort", "wait", "end"} /\ api.c = c

LockInv ==
  /\ job_lock = "mgr" <=> mgr \in MgrLocks
  /\ job_lock = "api" <=> api.at \in {"abort", "wait", "end"}
  /\ api.op = "abort" => started[api.c] > 0

\* The manager looks for a job when none is under way, and brings the one it took
\* to a component while all of them are off.
MgrInv ==
  /\ mgr = "lock" => ongoing_job_q = {}
  /\ mgr \in {"encode", "give", "failed", "unlock"} => mgrJob \in Jobs
  /\ mgr \in {"encode", "give", "failed"} =>
       LET s == session[mgrJob[1]] IN
       /\ s.active /\ s.abort_state = "NONE" /\ s.handles = 0 /\ s.jobId = mgrJob
       /\ \A c \in Clients : omx[c] = "off"
  /\ mgr \in {"encode", "give"} => status[mgrJob] = "started" /\ mgrJob \in ongoing_job_q
  /\ mgr = "give" => session[mgrJob[1]].encoding

\* The manager is bringing a job of c to its component.
Brings(c) == mgr \in {"encode", "give", "failed"} /\ mgrJob[1] = c
Answers(c) == callback[c] \in {"answered", "removed"}

\* What a session says of its component and its callback.
SessionInv(c) ==
  LET s == session[c] IN
  /\ omx[c] # "off" =>
       s.active /\ s.handles = 0 /\ ~Answers(c) /\ s.jobId \in Of(c)
       /\ (s.jobId \in ongoing_job_q \/ Ending(c))
  /\ omx[c] = "busy" => s.abort_state = "NONE" /\ s.encoding /\ status[s.jobId] = "started"
  /\ omx[c] = "idling" <=> s.abort_state = "INIT"
  /\ s.abort_state = "INIT" => api.at = "wait" /\ api.c = c
  /\ Answers(c) =>
       s.active /\ s.handles = 0 /\ s.encoding /\ s.abort_state = "NONE" /\ s.jobId \in Of(c)
       /\ ~Brings(c)
  /\ s.active /\ s.abort_state = "NONE" /\ s.encoding =>
       (mgr = "give" /\ mgrJob[1] = c) \/ omx[c] = "busy" \/ Answers(c)
  /\ s.active /\ s.abort_state = "NONE" /\ s.handles = 0 => HandleHeld(c)
  /\ ~s.active => s.handles = 0 /\ ~s.encoding
  /\ api.at = "end" /\ api.c = c => s.abort_state = "DONE"
  /\ \A d \in Clients \ {c} : omx[c] # "off" => omx[d] = "off"

\* Jobs are numbered in the order they were started; only the last can be waiting.
JobInv ==
  \A j \in Jobs :
    /\ status[j] = "started" => j = Current(j[1])
    /\ j[2] > started[j[1]] => status[j] = "none"
    /\ j \in ongoing_job_q => status[j] # "none"

\* A queued job waits for the manager, with nothing else under way for its client.
Queued(j) ==
  /\ status[j] = "started" /\ j \notin ongoing_job_q
  /\ session[j[1]].active /\ session[j[1]].abort_state = "NONE" /\ omx[j[1]] = "off"
  /\ ~(mgr \in {"encode", "give"} /\ mgrJob = j)
  /\ ~Ending(j[1])

QueueInv ==
  \A i \in 1 .. Len(job_queue) :
    job_queue[i] # Exit =>
      /\ Queued(job_queue[i])
      /\ \A k \in 1 .. Len(job_queue) : job_queue[k] = job_queue[i] => k = i

IInv ==
  /\ TypeOK /\ LockInv /\ MgrInv /\ JobInv /\ QueueInv
  /\ \A c \in Clients : SessionInv(c)

LEMMA JobFacts ==
  /\ Exit \notin Jobs
  /\ \A j \in Jobs : j[1] \in Clients /\ j[2] \in 1 .. MaxJobs /\ j = <<j[1], j[2]>>
  /\ \A c \in Clients, n \in 1 .. MaxJobs : <<c, n>> \in Jobs /\ <<c, n>>[1] = c /\ <<c, n>>[2] = n
  BY ClientsAssumption DEF Jobs, Exit

LEMMA IdleFacts == Idle \in Call /\ Idle.op = "none" /\ Idle.at = "none"
  BY ClientsAssumption DEF Idle, Call

LEMMA CallsFacts ==
  ASSUME NEW op \in {"none", "start", "abort", "destroy", "close"}, NEW c \in Clients,
         NEW at \in {"none", "lock", "abort", "wait", "end", "post", "join"}, Calls(op, c, at)
  PROVE  api' \in Call /\ api'.op = op /\ api'.c = c /\ api'.at = at
  BY DEF Calls, Call

LEMMA GoesOnFacts ==
  ASSUME api \in Call, NEW at \in {"none", "lock", "abort", "wait", "end", "post", "join"}, GoesOn(at)
  PROVE  api' \in Call /\ api'.op = api.op /\ api'.c = api.c /\ api'.at = at
  BY DEF GoesOn, Call

LEMMA GiveUpFacts ==
  ASSUME TypeOK, NEW S, GiveUp(S)
  PROVE  /\ status' \in [Jobs -> {"none", "started", "answered", "gone"}]
         /\ \A j \in Jobs :
              status'[j] = IF j \in S /\ status[j] = "started" THEN "gone" ELSE status[j]
  BY DEF TypeOK, GiveUp

LEMMA TellFacts ==
  ASSUME TypeOK, NEW j \in Jobs, status[j] = "started", Tell(j)
  PROVE  /\ status' \in [Jobs -> {"none", "started", "answered", "gone"}]
         /\ \A k \in Jobs : status'[k] = IF k = j THEN "answered" ELSE status[k]
  BY DEF TypeOK, Tell

\* What becomes of a session's record.
LEMMA HandleRecords ==
  ASSUME NEW s \in Session, NEW h \in 0 .. 1
  PROVE  /\ [s EXCEPT !.active = TRUE, !.handles = h] \in Session
         /\ [s EXCEPT !.handles = h, !.encoding = FALSE] \in Session
         /\ [s EXCEPT !.encoding = FALSE, !.handles = h] \in Session
         /\ \A j \in Jobs : [s EXCEPT !.handles = h, !.jobId = j] \in Session
<1>1. ASSUME NEW j \in Jobs
      PROVE  [s EXCEPT !.handles = h, !.jobId = j] \in Session
  BY DEF Session
<1>2. /\ [s EXCEPT !.active = TRUE, !.handles = h] \in Session
      /\ [s EXCEPT !.handles = h, !.encoding = FALSE] \in Session
      /\ [s EXCEPT !.encoding = FALSE, !.handles = h] \in Session
  BY DEF Session
<1> QED
  BY <1>1, <1>2

LEMMA AbortRecords ==
  ASSUME NEW s \in Session
  PROVE  /\ \A a \in {"NONE", "INIT", "DONE"} : [s EXCEPT !.abort_state = a] \in Session
         /\ \A e \in BOOLEAN : [s EXCEPT !.abort_state = "NONE", !.encoding = e] \in Session
<1>1. ASSUME NEW a \in {"NONE", "INIT", "DONE"}
      PROVE  [s EXCEPT !.abort_state = a] \in Session
  BY DEF Session
<1>2. ASSUME NEW e \in BOOLEAN
      PROVE  [s EXCEPT !.abort_state = "NONE", !.encoding = e] \in Session
  BY DEF Session
<1> QED
  BY <1>1, <1>2

LEMMA NoSessionFacts == NoSession \in Session
  BY DEF Session, NoSession

\* What an action does to one session.
LEMMA OneSession ==
  ASSUME TypeOK, NEW c \in Clients, NEW s \in Session, session' = [session EXCEPT ![c] = s]
  PROVE  /\ session' \in [Clients -> Session]
         /\ session'[c] = s
         /\ \A d \in Clients \ {c} : session'[d] = session[d]
  BY DEF TypeOK

\* What the actions do to the queue.
LEMMA Appends ==
  ASSUME TypeOK, NEW j \in Jobs \cup {Exit}, job_queue' = Append(job_queue, j)
  PROVE  /\ job_queue' \in Seq(Jobs \cup {Exit})
         /\ Len(job_queue') = Len(job_queue) + 1
         /\ \A i \in 1 .. Len(job_queue) : job_queue'[i] = job_queue[i]
         /\ job_queue'[Len(job_queue) + 1] = j
  BY DEF TypeOK

LEMMA Removes ==
  ASSUME TypeOK, job_queue # << >>, job_queue' = Tail(job_queue)
  PROVE  /\ job_queue' \in Seq(Jobs \cup {Exit})
         /\ Len(job_queue') = Len(job_queue) - 1 /\ Len(job_queue) \in Nat \ {0}
         /\ \A i \in 1 .. Len(job_queue) - 1 : job_queue'[i] = job_queue[i + 1]
         /\ Head(job_queue) = job_queue[1] /\ Head(job_queue) \in Jobs \cup {Exit}
  BY DEF TypeOK

\* The queue loses the elements of S.
Shrinks(S) ==
  /\ job_queue' \in Seq(Jobs \cup {Exit})
  /\ \A k \in 1 .. Len(job_queue') :
       job_queue'[k] \notin S /\ \E i \in 1 .. Len(job_queue) : job_queue'[k] = job_queue[i]
  /\ \A k, l \in 1 .. Len(job_queue') :
       k # l => \E i, j \in 1 .. Len(job_queue) :
                  i # j /\ job_queue'[k] = job_queue[i] /\ job_queue'[l] = job_queue[j]

LEMMA TakesOff ==
  ASSUME TypeOK, NEW S, TakeOff(S)
  PROVE  Shrinks(S)
<1> DEFINE T == Jobs \cup {Exit}
<1>1. PICK q, t : q = job_queue /\ t = job_queue'
  OBVIOUS
<1>2. q \in Seq(T) /\ t = Without(q, S)
  BY <1>1 DEF TypeOK, TakeOff
<1> HIDE DEF T
<1>3. /\ t \in Seq(T)
      /\ \A k \in 1 .. Len(t) : t[k] \notin S /\ \E i \in 1 .. Len(q) : t[k] = q[i]
  BY <1>2, WithoutElements
<1>4. ASSUME NEW k \in 1 .. Len(t), NEW l \in 1 .. Len(t), k < l
      PROVE  \E i, j \in 1 .. Len(q) : i < j /\ t[k] = q[i] /\ t[l] = q[j]
  BY <1>2, <1>4, WithoutOrdered
<1>5. \A k, l \in 1 .. Len(t) :
        k # l => \E i, j \in 1 .. Len(q) : i # j /\ t[k] = q[i] /\ t[l] = q[j]
  <2> SUFFICES ASSUME NEW k \in 1 .. Len(t), NEW l \in 1 .. Len(t), k # l
               PROVE  \E i, j \in 1 .. Len(q) : i # j /\ t[k] = q[i] /\ t[l] = q[j]
    OBVIOUS
  <2>1. k < l \/ l < k
    BY <1>3
  <2> QED
    BY <1>4, <2>1
<1> QED
  BY <1>1, <1>3, <1>5 DEF T, Shrinks

\* It keeps its invariant when none of the others is disturbed.
LEMMA QueueShrinks ==
  ASSUME TypeOK, QueueInv, NEW S, Shrinks(S), \A j \in Jobs \ S : Queued(j) => Queued(j)'
  PROVE  QueueInv'
<1>1. \A i \in 1 .. Len(job_queue) : job_queue[i] \in Jobs \cup {Exit}
  BY DEF TypeOK
<1>2. ASSUME NEW k \in 1 .. Len(job_queue'), job_queue'[k] # Exit, NEW j, j = job_queue'[k]
      PROVE  Queued(j)'
  <2>1. PICK i \in 1 .. Len(job_queue) : j = job_queue[i]
    BY <1>2 DEF Shrinks
  <2>2. j \in Jobs \ S
    BY <1>1, <1>2, <2>1 DEF Shrinks
  <2>3. Queued(job_queue[i])
    BY <1>2, <2>1 DEF QueueInv
  <2> QED
    BY <2>1, <2>2, <2>3
<1>3. ASSUME NEW k \in 1 .. Len(job_queue'), NEW l \in 1 .. Len(job_queue'), k # l,
             job_queue'[k] # Exit, job_queue'[l] = job_queue'[k]
      PROVE  FALSE
  <2>1. PICK i \in 1 .. Len(job_queue), j \in 1 .. Len(job_queue) :
          i # j /\ job_queue'[k] = job_queue[i] /\ job_queue'[l] = job_queue[j]
    BY <1>3 DEF Shrinks
  <2> QED
    BY <1>3, <2>1 DEF QueueInv
<1> QED
  BY <1>2, <1>3 DEF QueueInv

LEMMA LosesHead ==
  ASSUME TypeOK, job_queue # << >>, job_queue' = Tail(job_queue)
  PROVE  Shrinks({})
<1>1. ASSUME NEW k \in 1 .. Len(job_queue')
      PROVE  k + 1 \in 1 .. Len(job_queue) /\ job_queue'[k] = job_queue[k + 1]
  BY Removes
<1>2. ASSUME NEW k \in 1 .. Len(job_queue'), NEW l \in 1 .. Len(job_queue'), k # l
      PROVE  \E i, j \in 1 .. Len(job_queue) :
               i # j /\ job_queue'[k] = job_queue[i] /\ job_queue'[l] = job_queue[j]
  <2>1. k + 1 # l + 1
    BY <1>2
  <2> QED
    BY <1>1, <2>1
<1> QED
  BY <1>1, <1>2, Removes DEF Shrinks

LEMMA LosesJob ==
  ASSUME TypeOK, QueueInv, job_queue # << >>, Head(job_queue) # Exit, job_queue' = Tail(job_queue)
  PROVE  Shrinks({Head(job_queue)})
<1>1. \A k \in 1 .. Len(job_queue') :
        k + 1 \in 1 .. Len(job_queue) /\ job_queue'[k] = job_queue[k + 1]
  BY Removes
<1>2. ASSUME NEW k \in 1 .. Len(job_queue')
      PROVE  job_queue'[k] # Head(job_queue)
  <2>1. k + 1 # 1 /\ 1 \in 1 .. Len(job_queue) /\ Head(job_queue) = job_queue[1]
    BY Removes
  <2> QED
    BY <1>1, <2>1 DEF QueueInv
<1> QED
  BY <1>2, LosesHead DEF Shrinks

LEMMA QueueGrows ==
  ASSUME TypeOK, QueueInv, NEW n \in Jobs \cup {Exit}, job_queue' = Append(job_queue, n),
         \A j \in Jobs : Queued(j) => Queued(j)',
         n # Exit => ~Queued(n) /\ Queued(n)'
  PROVE  QueueInv'
<1>1. \A i \in 1 .. Len(job_queue) : job_queue[i] \in Jobs \cup {Exit}
  BY DEF TypeOK
<1>2. \A k \in 1 .. Len(job_queue') : k \in 1 .. Len(job_queue) \/ k = Len(job_queue) + 1
  BY Appends DEF TypeOK
<1>3. /\ \A i \in 1 .. Len(job_queue) : job_queue'[i] = job_queue[i]
      /\ job_queue'[Len(job_queue) + 1] = n
  BY Appends
<1>4. ASSUME NEW k \in 1 .. Len(job_queue'), job_queue'[k] # Exit, NEW j, j = job_queue'[k]
      PROVE  Queued(j)'
  <2>1. CASE k \in 1 .. Len(job_queue)
    <3>1. j \in Jobs /\ Queued(job_queue[k]) /\ j = job_queue[k]
      BY <1>1, <1>3, <1>4, <2>1 DEF QueueInv
    <3> QED
      BY <3>1
  <2>2. CASE k = Len(job_queue) + 1
    BY <1>3, <1>4, <2>2
  <2> QED
    BY <1>2, <2>1, <2>2
<1>5. ASSUME NEW k \in 1 .. Len(job_queue'), NEW l \in 1 .. Len(job_queue'), k # l,
             job_queue'[k] # Exit, job_queue'[l] = job_queue'[k]
      PROVE  FALSE
  <2>1. CASE k \in 1 .. Len(job_queue) /\ l \in 1 .. Len(job_queue)
    BY <1>3, <1>5, <2>1 DEF QueueInv
  <2>2. CASE k = Len(job_queue) + 1 /\ l \in 1 .. Len(job_queue)
    <3>1. Queued(job_queue[l]) /\ job_queue[l] = n /\ n # Exit
      BY <1>3, <1>5, <2>2 DEF QueueInv
    <3> QED
      BY <3>1
  <2>3. CASE l = Len(job_queue) + 1 /\ k \in 1 .. Len(job_queue)
    <3>1. Queued(job_queue[k]) /\ job_queue[k] = n /\ n # Exit
      BY <1>3, <1>5, <2>3 DEF QueueInv
    <3> QED
      BY <3>1
  <2> QED
    BY <1>2, <1>5, <2>1, <2>2, <2>3
<1> QED
  BY <1>4, <1>5 DEF QueueInv

\* A job that is started is new and finds nothing under way for its client.
LEMMA StartJobFacts ==
  ASSUME IInv, NEW c \in Clients, StartJob(c), NEW n, n = <<c, started[c] + 1>>
  PROVE  /\ n \in Jobs /\ status[n] = "none" /\ n \notin ongoing_job_q
         /\ \A j \in Of(c) : status[j] # "started"
         /\ omx[c] = "off"
         /\ status' \in [Jobs -> {"none", "started", "answered", "gone"}]
         /\ \A j \in Jobs : status'[j] = IF j = n THEN "started" ELSE status[j]
         /\ started'[c] = started[c] + 1 /\ \A d \in Clients \ {c} : started'[d] = started[d]
         /\ api'.at = "post"
<1>1. started[c] \in 0 .. MaxJobs - 1 /\ MaxJobs \in Nat
  BY ClientsAssumption DEF IInv, TypeOK, StartJob
<1>2. n \in Jobs /\ n[1] = c /\ n[2] = started[c] + 1
  BY <1>1, JobFacts
<1>3. status[n] = "none" /\ n \notin ongoing_job_q
  BY <1>1, <1>2 DEF IInv, JobInv
<1>4. \A j \in Of(c) : status[j] # "started"
  BY <1>1, JobFacts DEF IInv, JobInv, Of, StartJob, Current
<1>5. omx[c] = "off"
  BY <1>4, IdleFacts DEF IInv, SessionInv, TypeOK, StartJob, Calls
<1>6. /\ status' \in [Jobs -> {"none", "started", "answered", "gone"}]
      /\ \A j \in Jobs : status'[j] = IF j = n THEN "started" ELSE status[j]
  BY <1>2 DEF IInv, TypeOK, StartJob
<1>7. started'[c] = started[c] + 1 /\ \A d \in Clients \ {c} : started'[d] = started[d]
  BY DEF IInv, TypeOK, StartJob
<1>8. api'.at = "post"
  BY CallsFacts DEF StartJob
<1> QED
  BY <1>2, <1>3, <1>4, <1>5, <1>6, <1>7, <1>8

\* The manager leaves the head of the queue or takes it with the session's handle.
LEMMA MgrTakesFacts ==
  ASSUME IInv, MgrTakes, NEW j, NEW c, j = Head(job_queue), c = j[1]
  PROVE  /\ j \in Jobs /\ Queued(j) /\ c \in Clients /\ j = <<c, j[2]>> /\ j \in Of(c)
         /\ \/ mgr' = "wait" /\ UNCHANGED <<mgrJob, job_queue, ongoing_job_q, job_lock, session>>
            \/ /\ session[c].handles = 1
               /\ session' \in [Clients -> Session]
               /\ session'[c].active /\ session'[c].abort_state = "NONE"
               /\ session'[c].handles = 0 /\ session'[c].jobId = j
               /\ session'[c].encoding <=> session[c].encoding
               /\ \A d \in Clients \ {c} : session'[d] = session[d]
               /\ job_queue' = Tail(job_queue)
               /\ ongoing_job_q' = ongoing_job_q \cup {j}
               /\ job_lock' = "mgr" /\ mgr' = "encode" /\ mgrJob' = j
<1>1. job_queue # << >> /\ j # Exit
  BY DEF MgrTakes
<1>2. 1 \in 1 .. Len(job_queue) /\ j = job_queue[1] /\ j \in Jobs
  BY <1>1 DEF IInv, TypeOK
<1>3. Queued(j)
  BY <1>1, <1>2 DEF IInv, QueueInv
<1>4. c \in Clients /\ j = <<c, j[2]>> /\ j \in Of(c) /\ session[c] \in Session
  BY <1>2, JobFacts DEF Of, IInv, TypeOK
<1>5. CASE session[c].handles = 0
  BY <1>2, <1>3, <1>4, <1>5 DEF MgrTakes
<1>6. CASE session[c].handles # 0
  <2> DEFINE h == session[c].handles - 1
             s == [session[c] EXCEPT !.handles = h, !.jobId = j]
  <2>1. h \in 0 .. 1 /\ h = 0 /\ session[c].handles = 1
    BY <1>4, <1>6 DEF Session
  <2>2. session' = [session EXCEPT ![c] = s]
    BY <1>4, <1>6 DEF MgrTakes, IInv, TypeOK
  <2>3. s.active <=> session[c].active
    BY <1>4 DEF Session
  <2>4. s.abort_state = session[c].abort_state /\ s.handles = h /\ s.jobId = j
    BY <1>4 DEF Session
  <2>5. s.encoding <=> session[c].encoding
    BY <1>4 DEF Session
  <2>6. session[c].active /\ session[c].abort_state = "NONE"
    BY <1>3 DEF Queued
  <2> HIDE DEF h
  <2>7. s \in Session
    BY <1>2, <1>4, <2>1, HandleRecords
  <2> HIDE DEF s
  <2>8. session' \in [Clients -> Session] /\ session'[c] = s
        /\ \A d \in Clients \ {c} : session'[d] = session[d]
    BY <1>4, <2>2, <2>7, OneSession DEF IInv
  <2>9. /\ job_queue' = Tail(job_queue) /\ ongoing_job_q' = ongoing_job_q \cup {j}
        /\ job_lock' = "mgr" /\ mgr' = "encode" /\ mgrJob' = j
    BY <1>6 DEF MgrTakes
  <2> QED
    BY <1>2, <1>3, <1>4, <2>1, <2>3, <2>4, <2>5, <2>6, <2>8, <2>9
<1> QED
  BY <1>5, <1>6

LEMMA CreateSessionStep ==
  ASSUME IInv, NEW c \in Clients, CreateSession(c)
  PROVE  IInv'
<1>1. TypeOK'
  <2> DEFINE h == 1
             s == [NoSession EXCEPT !.active = TRUE, !.handles = h]
  <2>1. h \in 0 .. 1
    OBVIOUS
  <2>2. session' = [session EXCEPT ![c] = s]
    BY DEF CreateSession
  <2> HIDE DEF h
  <2>3. s \in Session
    BY <2>1, NoSessionFacts, HandleRecords
  <2> HIDE DEF s
  <2>4. session' \in [Clients -> Session]
    BY <2>2, <2>3, OneSession DEF IInv
  <2> QED
    BY <2>4 DEF IInv, CreateSession, TypeOK, jobVars, mgrVars, apiVars
<1>2. LockInv'
  BY JobFacts DEF IInv, CreateSession, TypeOK, LockInv, MgrLocks, jobVars, mgrVars, apiVars, NoSession
<1>3. MgrInv'
  BY JobFacts DEF IInv, CreateSession, TypeOK, LockInv, MgrLocks, MgrInv, SessionInv, Answers, Brings, Ending, HandleHeld, JobInv, jobVars, mgrVars, apiVars, NoSession
<1>4. JobInv'
  BY JobFacts DEF IInv, CreateSession, TypeOK, JobInv, LockInv, MgrLocks, MgrInv, SessionInv, Current, jobVars, mgrVars, apiVars, NoSession
<1>5. QueueInv'
  BY JobFacts DEF IInv, CreateSession, TypeOK, QueueInv, Queued, Ending, LockInv, MgrLocks, MgrInv, JobInv, SessionInv, Current, Of, jobVars, mgrVars, apiVars, NoSession
<1>6. \A d \in Clients : SessionInv(d)'
  BY JobFacts DEF IInv, CreateSession, TypeOK, LockInv, MgrLocks, MgrInv, SessionInv, Brings, Answers, Ending, HandleHeld, Of, JobInv, QueueInv, Queued, Current, jobVars, mgrVars, apiVars, NoSession
<1> QED
  BY <1>1, <1>2, <1>3, <1>4, <1>5, <1>6 DEF IInv

LEMMA StartJobStep ==
  ASSUME IInv, NEW c \in Clients, StartJob(c)
  PROVE  IInv'
<1>1. TypeOK'
  <2>1. api' \in Call
    BY CallsFacts DEF StartJob
  <2>2. started[c] + 1 \in 1 .. MaxJobs /\ <<c, started[c] + 1>> \in Jobs
    BY JobFacts, ClientsAssumption DEF IInv, StartJob, TypeOK
  <2>3. job_queue' \in Seq(Jobs \cup {Exit})
    BY <2>2, Appends DEF IInv, StartJob
  <2>4. started' \in [Clients -> 0 .. MaxJobs]
    BY <2>2 DEF IInv, StartJob, TypeOK
  <2>5. status' \in [Jobs -> {"none", "started", "answered", "gone"}]
    BY <2>2 DEF IInv, StartJob, TypeOK
  <2> QED
    BY <2>1, <2>3, <2>4, <2>5 DEF IInv, StartJob, TypeOK, mgrVars
<1>2. LockInv'
  BY JobFacts, IdleFacts DEF IInv, StartJob, TypeOK, LockInv, MgrLocks, mgrVars, Current, Calls
<1>3. MgrInv'
  BY JobFacts, IdleFacts DEF IInv, StartJob, TypeOK, LockInv, MgrLocks, MgrInv, SessionInv, Answers, Brings, Ending, HandleHeld, JobInv, mgrVars, Current, Calls
<1>4. JobInv'
  <2> DEFINE n == <<c, started[c] + 1>>
  <2>1. /\ n \in Jobs /\ n[1] = c /\ n[2] = started[c] + 1 /\ status[n] = "none"
        /\ \A j \in Of(c) : status[j] # "started"
        /\ \A j \in Jobs : status'[j] = IF j = n THEN "started" ELSE status[j]
        /\ started'[c] = started[c] + 1 /\ \A d \in Clients \ {c} : started'[d] = started[d]
    BY StartJobFacts, JobFacts
  <2>0. MaxJobs \in Nat /\ \A d \in Clients : started[d] \in 0 .. MaxJobs
    BY ClientsAssumption DEF IInv, TypeOK
  <2>2. ASSUME NEW j \in Jobs, status'[j] = "started"
        PROVE  j = <<j[1], started'[j[1]]>>
    BY <2>1, <2>2, JobFacts DEF IInv, JobInv, Of, Current
  <2>3. ASSUME NEW j \in Jobs, j[2] > started'[j[1]]
        PROVE  status'[j] = "none"
    BY <2>0, <2>1, <2>3, JobFacts DEF IInv, JobInv
  <2>4. ASSUME NEW j \in Jobs, j \in ongoing_job_q'
        PROVE  status'[j] # "none"
    BY <2>1, <2>4 DEF IInv, JobInv, StartJob
  <2> QED
    BY <2>2, <2>3, <2>4 DEF JobInv, Current
<1>5. QueueInv'
  <2>0. PICK n : n = <<c, started[c] + 1>>
    OBVIOUS
  <2>1. /\ n \in Jobs /\ n[1] = c /\ status[n] = "none" /\ n \notin ongoing_job_q /\ omx[c] = "off"
        /\ \A j \in Jobs : status'[j] = IF j = n THEN "started" ELSE status[j]
        /\ api'.at = "post"
    BY <2>0, StartJobFacts, JobFacts
  <2>2. job_queue' = Append(job_queue, n)
    BY <2>0 DEF StartJob
  <2>3. \A j \in Jobs : Queued(j) => Queued(j)'
    BY <2>1 DEF StartJob, Queued, Ending, mgrVars
  <2>4. ~Queued(n)
    BY <2>1 DEF Queued
  <2>5. Queued(n)'
    <3>1. session[c].active /\ session[c].abort_state = "NONE"
      BY <2>1 DEF StartJob
    <3>2. ~(mgr \in {"encode", "give"} /\ mgrJob = n)
      BY <2>1 DEF IInv, MgrInv
    <3>3. UNCHANGED <<ongoing_job_q, session, omx, mgr, mgrJob>>
      BY DEF StartJob, mgrVars
    <3> QED
      BY <2>1, <3>1, <3>2, <3>3 DEF Queued, Ending
  <2>6. TypeOK /\ QueueInv /\ n \in Jobs \cup {Exit}
    BY <2>1 DEF IInv
  <2> QED
    BY <2>2, <2>3, <2>4, <2>5, <2>6, QueueGrows
<1>6. \A d \in Clients : SessionInv(d)'
  BY JobFacts, IdleFacts DEF IInv, StartJob, TypeOK, LockInv, MgrLocks, MgrInv, SessionInv, Brings, Answers, Ending, HandleHeld, Of, JobInv, QueueInv, Queued, Current, mgrVars, Calls
<1> QED
  BY <1>1, <1>2, <1>3, <1>4, <1>5, <1>6 DEF IInv

LEMMA AbortJobStep ==
  ASSUME IInv, NEW c \in Clients, AbortJob(c)
  PROVE  IInv'
<1>1. TypeOK'
  BY JobFacts, IdleFacts DEF IInv, AbortJob, TypeOK, Session, Call, jobVars, mgrVars, Current, Calls
<1>2. LockInv'
  BY JobFacts, IdleFacts DEF IInv, AbortJob, TypeOK, LockInv, MgrLocks, jobVars, mgrVars, Current, Calls
<1>3. MgrInv'
  BY JobFacts, IdleFacts DEF IInv, AbortJob, TypeOK, LockInv, MgrLocks, MgrInv, SessionInv, Answers, Brings, Ending, HandleHeld, JobInv, jobVars, mgrVars, Current, Calls
<1>4. JobInv'
  BY JobFacts, IdleFacts DEF IInv, AbortJob, TypeOK, JobInv, LockInv, MgrLocks, MgrInv, SessionInv, Current, jobVars, mgrVars, Calls
<1>5. QueueInv'
  BY JobFacts, IdleFacts DEF IInv, AbortJob, TypeOK, QueueInv, Queued, Ending, LockInv, MgrLocks, MgrInv, JobInv, SessionInv, Current, Of, jobVars, mgrVars, Calls
<1>6. \A d \in Clients : SessionInv(d)'
  BY JobFacts, IdleFacts DEF IInv, AbortJob, TypeOK, LockInv, MgrLocks, MgrInv, SessionInv, Brings, Answers, Ending, HandleHeld, Of, JobInv, QueueInv, Queued, Current, jobVars, mgrVars, Calls
<1> QED
  BY <1>1, <1>2, <1>3, <1>4, <1>5, <1>6 DEF IInv

LEMMA DestroySessionStep ==
  ASSUME IInv, NEW c \in Clients, DestroySession(c)
  PROVE  IInv'
<1>1. TypeOK'
  BY JobFacts, IdleFacts DEF IInv, DestroySession, TypeOK, Session, Call, jobVars, mgrVars, Calls
<1>2. LockInv'
  BY JobFacts, IdleFacts DEF IInv, DestroySession, TypeOK, LockInv, MgrLocks, jobVars, mgrVars, Calls
<1>3. MgrInv'
  BY JobFacts, IdleFacts DEF IInv, DestroySession, TypeOK, LockInv, MgrLocks, MgrInv, SessionInv, Answers, Brings, Ending, HandleHeld, JobInv, jobVars, mgrVars, Calls
<1>4. JobInv'
  BY JobFacts, IdleFacts DEF IInv, DestroySession, TypeOK, JobInv, LockInv, MgrLocks, MgrInv, SessionInv, Current, jobVars, mgrVars, Calls
<1>5. QueueInv'
  BY JobFacts, IdleFacts DEF IInv, DestroySession, TypeOK, QueueInv, Queued, Ending, LockInv, MgrLocks, MgrInv, JobInv, SessionInv, Current, Of, jobVars, mgrVars, Calls
<1>6. \A d \in Clients : SessionInv(d)'
  BY JobFacts, IdleFacts DEF IInv, DestroySession, TypeOK, LockInv, MgrLocks, MgrInv, SessionInv, Brings, Answers, Ending, HandleHeld, Of, JobInv, QueueInv, Queued, Current, jobVars, mgrVars, Calls
<1> QED
  BY <1>1, <1>2, <1>3, <1>4, <1>5, <1>6 DEF IInv

LEMMA CloseStep ==
  ASSUME IInv, NEW c \in Clients, Close(c)
  PROVE  IInv'
<1>1. TypeOK'
  <2>1. CASE clients = {c}
    <3>1. api' \in Call
      BY <2>1, CallsFacts DEF Close
    <3>2. job_queue' \in Seq(Jobs \cup {Exit})
      BY <2>1, Appends DEF IInv, Close
    <3> QED
      BY <3>1, <3>2 DEF IInv, Close, TypeOK, mgrVars
  <2>2. CASE clients # {c}
    BY <2>2 DEF IInv, Close, TypeOK, mgrVars
  <2> QED
    BY <2>1, <2>2
<1>2. LockInv'
  BY JobFacts, IdleFacts DEF IInv, Close, TypeOK, LockInv, MgrLocks, mgrVars, Calls
<1>3. MgrInv'
  BY JobFacts, IdleFacts DEF IInv, Close, TypeOK, LockInv, MgrLocks, MgrInv, SessionInv, Answers, Brings, Ending, HandleHeld, JobInv, mgrVars, Calls
<1>4. JobInv'
  BY JobFacts, IdleFacts DEF IInv, Close, TypeOK, JobInv, LockInv, MgrLocks, MgrInv, SessionInv, Current, mgrVars, Calls
<1>5. QueueInv'
  <2>1. \A j \in Jobs : Queued(j) => Queued(j)'
    BY CallsFacts DEF Close, Queued, Ending, mgrVars
  <2>2. CASE clients = {c}
    BY <2>1, <2>2, QueueGrows DEF IInv, Close
  <2>3. CASE clients # {c}
    <3>1. job_queue' = job_queue
      BY <2>3 DEF Close
    <3>2. \A i \in 1 .. Len(job_queue) : job_queue[i] # Exit => job_queue[i] \in Jobs
      BY DEF IInv, TypeOK
    <3> QED
      BY <2>1, <3>1, <3>2 DEF IInv, QueueInv
  <2> QED
    BY <2>2, <2>3
<1>6. \A d \in Clients : SessionInv(d)'
  BY JobFacts, IdleFacts DEF IInv, Close, TypeOK, LockInv, MgrLocks, MgrInv, SessionInv, Brings, Answers, Ending, HandleHeld, Of, JobInv, QueueInv, Queued, Current, mgrVars, Calls
<1> QED
  BY <1>1, <1>2, <1>3, <1>4, <1>5, <1>6 DEF IInv

LEMMA FinishesStep ==
  ASSUME IInv, NEW c \in Clients, Finishes(c)
  PROVE  IInv'
<1>1. TypeOK'
  <2>1. session[c].jobId \in Jobs /\ status[session[c].jobId] = "started"
    BY DEF IInv, Finishes, SessionInv, Of
  <2>2. status' \in [Jobs -> {"none", "started", "answered", "gone"}]
    BY <2>1, TellFacts DEF IInv, Finishes
  <2> QED
    BY <2>2 DEF IInv, Finishes, TypeOK, jobVars, mgrVars, apiVars
<1>2. LockInv'
  BY JobFacts DEF IInv, Finishes, TypeOK, LockInv, MgrLocks, jobVars, mgrVars, apiVars, Tell
<1>3. MgrInv'
  BY JobFacts DEF IInv, Finishes, TypeOK, LockInv, MgrLocks, MgrInv, SessionInv, Answers, Brings, Ending, HandleHeld, JobInv, jobVars, mgrVars, apiVars, Tell
<1>4. JobInv'
  BY JobFacts DEF IInv, Finishes, TypeOK, JobInv, LockInv, MgrLocks, MgrInv, SessionInv, Current, jobVars, mgrVars, apiVars, Tell
<1>5. QueueInv'
  BY JobFacts DEF IInv, Finishes, TypeOK, QueueInv, Queued, Ending, LockInv, MgrLocks, MgrInv, JobInv, SessionInv, Current, Of, jobVars, mgrVars, apiVars, Tell
<1>6. \A d \in Clients : SessionInv(d)'
  BY JobFacts DEF IInv, Finishes, TypeOK, LockInv, MgrLocks, MgrInv, SessionInv, Brings, Answers, Ending, HandleHeld, Of, JobInv, QueueInv, Queued, Current, jobVars, mgrVars, apiVars, Tell
<1> QED
  BY <1>1, <1>2, <1>3, <1>4, <1>5, <1>6 DEF IInv

LEMMA IdlesStep ==
  ASSUME IInv, NEW c \in Clients, Idles(c)
  PROVE  IInv'
<1>1. TypeOK'
  <2> DEFINE s == [session[c] EXCEPT !.abort_state = "DONE"]
  <2>1. session[c] \in Session
    BY DEF IInv, TypeOK
  <2>2. s \in Session
    BY <2>1, AbortRecords
  <2>3. session' = [session EXCEPT ![c] = s]
    BY <2>1 DEF IInv, Idles, TypeOK
  <2> HIDE DEF s
  <2>4. session' \in [Clients -> Session]
    BY <2>2, <2>3, OneSession DEF IInv
  <2> QED
    BY <2>4 DEF IInv, Idles, TypeOK, jobVars, mgrVars, apiVars
<1>2. LockInv'
  BY JobFacts DEF IInv, Idles, TypeOK, LockInv, MgrLocks, jobVars, mgrVars, apiVars
<1>3. MgrInv'
  BY JobFacts DEF IInv, Idles, TypeOK, LockInv, MgrLocks, MgrInv, SessionInv, Answers, Brings, Ending, HandleHeld, JobInv, jobVars, mgrVars, apiVars
<1>4. JobInv'
  BY JobFacts DEF IInv, Idles, TypeOK, JobInv, LockInv, MgrLocks, MgrInv, SessionInv, Current, jobVars, mgrVars, apiVars
<1>5. QueueInv'
  BY JobFacts DEF IInv, Idles, TypeOK, QueueInv, Queued, Ending, LockInv, MgrLocks, MgrInv, JobInv, SessionInv, Current, Of, jobVars, mgrVars, apiVars
<1>6. \A d \in Clients : SessionInv(d)'
  BY JobFacts DEF IInv, Idles, TypeOK, LockInv, MgrLocks, MgrInv, SessionInv, Brings, Answers, Ending, HandleHeld, Of, JobInv, QueueInv, Queued, Current, jobVars, mgrVars, apiVars
<1> QED
  BY <1>1, <1>2, <1>3, <1>4, <1>5, <1>6 DEF IInv

LEMMA JobRemovedStep ==
  ASSUME IInv, NEW c \in Clients, JobRemoved(c)
  PROVE  IInv'
<1>1. TypeOK'
  BY JobFacts DEF IInv, JobRemoved, TypeOK, Session, Call, mgrVars, apiVars
<1>2. LockInv'
  BY JobFacts DEF IInv, JobRemoved, TypeOK, LockInv, MgrLocks, mgrVars, apiVars
<1>3. MgrInv'
  BY JobFacts DEF IInv, JobRemoved, TypeOK, LockInv, MgrLocks, MgrInv, SessionInv, Answers, Brings, Ending, HandleHeld, JobInv, mgrVars, apiVars, Session, Call, Of, Current
<1>4. JobInv'
  BY JobFacts DEF IInv, JobRemoved, TypeOK, JobInv, LockInv, MgrLocks, MgrInv, SessionInv, Current, mgrVars, apiVars
<1>5. QueueInv'
  BY JobFacts DEF IInv, JobRemoved, TypeOK, QueueInv, Queued, Ending, LockInv, MgrLocks, MgrInv, JobInv, SessionInv, Current, Of, mgrVars, apiVars
<1>6. \A d \in Clients : SessionInv(d)'
  BY JobFacts DEF IInv, JobRemoved, TypeOK, LockInv, MgrLocks, MgrInv, SessionInv, Brings, Answers, Ending, HandleHeld, Of, JobInv, QueueInv, Queued, Current, mgrVars, apiVars
<1> QED
  BY <1>1, <1>2, <1>3, <1>4, <1>5, <1>6 DEF IInv

LEMMA HandleFreedStep ==
  ASSUME IInv, NEW c \in Clients, HandleFreed(c)
  PROVE  IInv'
<1>1. TypeOK'
  <2> DEFINE h == session[c].handles + 1
             s == [session[c] EXCEPT !.encoding = FALSE, !.handles = h]
  <2>1. c \in Clients /\ session[c] \in Session /\ h \in 0 .. 1
    BY DEF IInv, TypeOK, SessionInv, Answers, HandleFreed
  <2>2. session' = [session EXCEPT ![c] = s]
    BY <2>1 DEF IInv, HandleFreed, TypeOK, Session
  <2> HIDE DEF h
  <2>3. s \in Session
    BY <2>1, HandleRecords
  <2> HIDE DEF s
  <2>4. session' \in [Clients -> Session]
    BY <2>1, <2>2, <2>3, OneSession DEF IInv
  <2> QED
    BY <2>4 DEF IInv, HandleFreed, TypeOK, jobVars, mgrVars, apiVars
<1>2. LockInv'
  BY JobFacts DEF IInv, HandleFreed, TypeOK, LockInv, MgrLocks, jobVars, mgrVars, apiVars
<1>3. MgrInv'
  BY JobFacts DEF IInv, HandleFreed, TypeOK, LockInv, MgrLocks, MgrInv, SessionInv, Answers, Brings, Ending, HandleHeld, JobInv, jobVars, mgrVars, apiVars
<1>4. JobInv'
  BY JobFacts DEF IInv, HandleFreed, TypeOK, JobInv, LockInv, MgrLocks, MgrInv, SessionInv, Current, jobVars, mgrVars, apiVars
<1>5. QueueInv'
  BY JobFacts DEF IInv, HandleFreed, TypeOK, QueueInv, Queued, Ending, LockInv, MgrLocks, MgrInv, JobInv, SessionInv, Current, Of, jobVars, mgrVars, apiVars
<1>6. \A d \in Clients : SessionInv(d)'
  BY JobFacts DEF IInv, HandleFreed, TypeOK, LockInv, MgrLocks, MgrInv, SessionInv, Brings, Answers, Ending, HandleHeld, Of, JobInv, QueueInv, Queued, Current, jobVars, mgrVars, apiVars
<1> QED
  BY <1>1, <1>2, <1>3, <1>4, <1>5, <1>6 DEF IInv

LEMMA JobDoneStep ==
  ASSUME IInv, NEW c \in Clients, JobDone(c)
  PROVE  IInv'
<1>1. TypeOK'
  BY JobFacts DEF IInv, JobDone, TypeOK, Session, Call, mgrVars, apiVars, Post
<1>2. LockInv'
  BY JobFacts DEF IInv, JobDone, TypeOK, LockInv, MgrLocks, mgrVars, apiVars, Post
<1>3. MgrInv'
  BY JobFacts DEF IInv, JobDone, TypeOK, LockInv, MgrLocks, MgrInv, SessionInv, Answers, Brings, Ending, HandleHeld, JobInv, mgrVars, apiVars, Post
<1>4. JobInv'
  BY JobFacts DEF IInv, JobDone, TypeOK, JobInv, LockInv, MgrLocks, MgrInv, SessionInv, Current, mgrVars, apiVars, Post
<1>5. QueueInv'
  BY JobFacts DEF IInv, JobDone, TypeOK, QueueInv, Queued, Ending, LockInv, MgrLocks, MgrInv, JobInv, SessionInv, Current, Of, mgrVars, apiVars, Post
<1>6. \A d \in Clients : SessionInv(d)'
  BY JobFacts DEF IInv, JobDone, TypeOK, LockInv, MgrLocks, MgrInv, SessionInv, Brings, Answers, Ending, HandleHeld, Of, JobInv, QueueInv, Queued, Current, mgrVars, apiVars, Post
<1> QED
  BY <1>1, <1>2, <1>3, <1>4, <1>5, <1>6 DEF IInv

LEMMA AbortLocksStep ==
  ASSUME IInv, AbortLocks
  PROVE  IInv'
<1>1. TypeOK'
  <2>1. api.c \in Clients /\ api \in Call
    BY DEF IInv, TypeOK, Call
  <2>2. job_queue' \in Seq(Jobs \cup {Exit})
    BY TakesOff DEF IInv, AbortLocks, Shrinks
  <2>3. api' \in Call
    BY <2>1, GoesOnFacts, IdleFacts DEF AbortLocks, Returns
  <2>4. status' \in [Jobs -> {"none", "started", "answered", "gone"}]
    BY GiveUpFacts DEF IInv, AbortLocks, TypeOK
  <2> QED
    BY <2>2, <2>3, <2>4 DEF IInv, AbortLocks, TypeOK, mgrVars
<1>2. LockInv'
  <2>1. api \in Call /\ mgr' = mgr /\ started' = started /\ job_lock = "free" /\ LockInv
    BY DEF IInv, TypeOK, AbortLocks, mgrVars
  <2>2. CASE GoesOn("abort") /\ job_lock' = "api"
    <3>1. api'.at = "abort" /\ api'.c = api.c /\ api'.op = api.op
      BY <2>1, <2>2, GoesOnFacts
    <3> QED
      BY <2>1, <2>2, <3>1 DEF LockInv, MgrLocks
  <2>3. CASE Returns /\ job_lock' = "free"
    <3>1. api'.at = "none" /\ api'.op = "none"
      BY <2>3, IdleFacts DEF Returns
    <3> QED
      BY <2>1, <2>3, <3>1 DEF LockInv, MgrLocks
  <2> QED
    BY <2>2, <2>3 DEF AbortLocks
<1>3. MgrInv'
  BY JobFacts, IdleFacts DEF IInv, AbortLocks, TypeOK, LockInv, MgrLocks, MgrInv, SessionInv, Answers, Brings, Ending, HandleHeld, JobInv, mgrVars, Current, GiveUp, TakeOff, GoesOn, Returns
<1>4. JobInv'
  BY JobFacts, IdleFacts DEF IInv, AbortLocks, TypeOK, JobInv, LockInv, MgrLocks, MgrInv, SessionInv, Current, mgrVars, GiveUp, TakeOff, GoesOn, Returns
<1>5. QueueInv'
  <2> DEFINE S == {Current(api.c)}
  <2>1. \A j \in Jobs \ S : Queued(j) => Queued(j)'
    BY JobFacts, IdleFacts, GoesOnFacts, GiveUpFacts DEF IInv, AbortLocks, TypeOK, Queued, Ending, JobInv, LockInv, Current, Returns, mgrVars, Call
  <2>2. Shrinks(S)
    BY TakesOff DEF IInv, AbortLocks
  <2> HIDE DEF S
  <2> QED
    BY <2>1, <2>2, QueueShrinks DEF IInv
<1>6. \A d \in Clients : SessionInv(d)'
  <2> DEFINE c == api.c
             j == Current(c)
  <2>1. c \in Clients /\ api \in Call
    BY DEF IInv, TypeOK, Call
  <2>0. j \in Jobs /\ j[1] = c
    BY JobFacts, ClientsAssumption DEF IInv, TypeOK, LockInv, AbortLocks, Current, Call
  <2>2. CASE j \notin ToSet(job_queue) /\ j \in ongoing_job_q
    <3>1. /\ api'.at = "abort" /\ api'.c = c /\ status' = status
          /\ ongoing_job_q' = ongoing_job_q \ {j}
          /\ UNCHANGED <<session, omx, callback, mgr, mgrJob>>
      BY <2>1, <2>2, GoesOnFacts DEF AbortLocks, mgrVars
    <3>2. \A d \in Clients \ {c} : \A k \in Of(d) : k # j
      BY DEF Of, Current
    <3> QED
      BY <2>1, <3>1, <3>2 DEF IInv, AbortLocks, SessionInv, Ending, Brings, Answers, HandleHeld, Of
  <2>3. CASE ~(j \notin ToSet(job_queue) /\ j \in ongoing_job_q)
    <3>1. /\ api'.at = "none" /\ ongoing_job_q' = ongoing_job_q
          /\ UNCHANGED <<session, omx, callback, mgr, mgrJob>>
          /\ \A k \in Jobs : status'[k] = IF k = j /\ status[k] = "started" THEN "gone" ELSE status[k]
      BY <2>1, <2>3, IdleFacts, GiveUpFacts DEF AbortLocks, Returns, mgrVars, IInv
    <3>2. omx[c] # "off" => session[c].jobId # j
      <4>1. ASSUME j \in ToSet(job_queue) PROVE omx[c] = "off"
        <5>1. PICK i \in 1 .. Len(job_queue) : job_queue[i] = j
          BY <4>1 DEF ToSet
        <5>2. j # Exit
          BY <2>0, JobFacts
        <5>3. Queued(job_queue[i])
          BY <5>1, <5>2 DEF IInv, QueueInv
        <5> QED
          BY <2>0, <5>1, <5>3 DEF Queued
      <4>2. ASSUME j \notin ongoing_job_q, omx[c] # "off" PROVE session[c].jobId # j
        BY <2>1, <4>2 DEF IInv, SessionInv, AbortLocks, Ending
      <4> QED
        BY <2>3, <4>1, <4>2
    <3>3. \A d \in Clients \ {c} : \A k \in Of(d) : k # j
      BY DEF Of, Current
    <3> HIDE DEF j
    <3> QED
      BY <2>1, <3>1, <3>2, <3>3 DEF IInv, AbortLocks, SessionInv, Ending, Brings, Answers, HandleHeld, Of
  <2> QED
    BY <2>2, <2>3
<1> QED
  BY <1>1, <1>2, <1>3, <1>4, <1>5, <1>6 DEF IInv

LEMMA DestroyLocksStep ==
  ASSUME IInv, DestroyLocks
  PROVE  IInv'
<1>1. TypeOK'
  <2>1. job_queue' \in Seq(Jobs \cup {Exit})
    BY TakesOff DEF IInv, DestroyLocks, Shrinks
  <2>2. api' \in Call
    BY GoesOnFacts DEF IInv, TypeOK, DestroyLocks
  <2> QED
    BY <2>1, <2>2 DEF IInv, DestroyLocks, TypeOK, mgrVars
<1>2. LockInv'
  BY JobFacts DEF IInv, DestroyLocks, TypeOK, LockInv, MgrLocks, mgrVars, Of, TakeOff, GoesOn
<1>3. MgrInv'
  BY JobFacts DEF IInv, DestroyLocks, TypeOK, LockInv, MgrLocks, MgrInv, SessionInv, Answers, Brings, Ending, HandleHeld, JobInv, mgrVars, Of, TakeOff, GoesOn
<1>4. JobInv'
  BY JobFacts DEF IInv, DestroyLocks, TypeOK, JobInv, LockInv, MgrLocks, MgrInv, SessionInv, Current, mgrVars, Of, TakeOff, GoesOn
<1>5. QueueInv'
  <2> DEFINE S == Of(api.c)
  <2>1. \A j \in Jobs \ S : Queued(j) => Queued(j)'
    BY JobFacts, GoesOnFacts DEF IInv, DestroyLocks, TypeOK, Queued, Ending, Of, mgrVars
  <2>2. Shrinks(S)
    BY TakesOff DEF IInv, DestroyLocks
  <2> HIDE DEF S
  <2> QED
    BY <2>1, <2>2, QueueShrinks DEF IInv
<1>6. \A d \in Clients : SessionInv(d)'
  BY JobFacts DEF IInv, DestroyLocks, TypeOK, LockInv, MgrLocks, MgrInv, SessionInv, Brings, Answers, Ending, HandleHeld, Of, JobInv, QueueInv, Queued, Current, mgrVars, TakeOff, GoesOn
<1> QED
  BY <1>1, <1>2, <1>3, <1>4, <1>5, <1>6 DEF IInv

LEMMA SessionAbortsStep ==
  ASSUME IInv, SessionAborts
  PROVE  IInv'
<1>1. TypeOK'
  <2> DEFINE c == api.c
             aborting(st) == [session[c] EXCEPT !.abort_state = st]
  <2>1. c \in Clients /\ session[c] \in Session
    BY DEF IInv, TypeOK, Call
  <2>2. aborting("INIT") \in Session /\ aborting("DONE") \in Session
    BY <2>1 DEF Session
  <2>3. \/ session' = session
        \/ session' = [session EXCEPT ![c] = aborting("INIT")]
        \/ session' = [session EXCEPT ![c] = aborting("DONE")]
    BY <2>1 DEF IInv, TypeOK, SessionAborts
  <2>4. session' \in [Clients -> Session]
    BY <2>1, <2>2, <2>3, OneSession DEF IInv, TypeOK
  <2>5. api' \in Call
    BY GoesOnFacts DEF IInv, TypeOK, SessionAborts
  <2> QED
    BY <2>1, <2>4, <2>5 DEF IInv, SessionAborts, TypeOK, jobVars, mgrVars
<1>2. LockInv'
  BY GoesOnFacts DEF IInv, LockInv, MgrLocks, SessionAborts, TypeOK, jobVars, mgrVars
<1>3. MgrInv'
  BY JobFacts DEF IInv, SessionAborts, TypeOK, LockInv, MgrLocks, MgrInv, SessionInv, Answers, Brings, Ending, HandleHeld, JobInv, jobVars, mgrVars, GoesOn
<1>4. JobInv'
  BY JobFacts DEF IInv, SessionAborts, TypeOK, JobInv, LockInv, MgrLocks, MgrInv, SessionInv, Current, jobVars, mgrVars, GoesOn
<1>5. QueueInv'
  BY JobFacts DEF IInv, SessionAborts, TypeOK, QueueInv, Queued, Ending, LockInv, MgrLocks, MgrInv, JobInv, SessionInv, Current, Of, jobVars, mgrVars, GoesOn, Session, Call
<1>6. \A d \in Clients : SessionInv(d)'
  <2> DEFINE c == api.c
  <2>1. c \in Clients /\ session[c] \in Session /\ api \in Call /\ callback[c] = "none" /\ api.at = "abort"
    BY DEF IInv, TypeOK, Call, SessionAborts
  <2>2. UNCHANGED <<ongoing_job_q, callback, mgr, mgrJob, status>>
    BY DEF SessionAborts, jobVars, mgrVars
  <2>3. ~Brings(c)
    BY DEF IInv, LockInv, MgrLocks, SessionAborts, Brings
  <2>4. CASE session[c].abort_state # "NONE"
    <3>1. api'.at = "end" /\ api'.c = c /\ session' = session /\ omx' = omx
      BY <2>1, <2>4, GoesOnFacts DEF SessionAborts
    <3> QED
      BY <2>1, <2>2, <2>3, <2>4, <3>1 DEF IInv, TypeOK, SessionInv, Ending, Brings, Answers, HandleHeld, Of, Session
  <2>5. CASE session[c].abort_state = "NONE" /\ session[c].encoding
    <3>1. /\ api'.at = "wait" /\ api'.c = c
          /\ session' = [session EXCEPT ![c].abort_state = "INIT"] /\ omx' = [omx EXCEPT ![c] = "idling"]
      BY <2>1, <2>5, GoesOnFacts DEF SessionAborts
    <3>2. /\ \A d \in Clients \ {c} : session'[d] = session[d] /\ omx'[d] = omx[d]
          /\ session'[c] = [session[c] EXCEPT !.abort_state = "INIT"] /\ omx'[c] = "idling"
      BY <2>1, <3>1 DEF IInv, TypeOK
    <3>3. omx[c] = "busy"
      BY <2>1, <2>3, <2>5, JobFacts DEF IInv, SessionInv, Answers, Brings
    <3>4. /\ session'[c].active <=> session[c].active
          /\ session'[c].encoding <=> session[c].encoding
      BY <2>1, <3>2 DEF Session
    <3>5. /\ session'[c].abort_state = "INIT" /\ session'[c].handles = session[c].handles
          /\ session'[c].jobId = session[c].jobId
      BY <2>1, <3>2 DEF Session
    <3> QED
      BY <2>1, <2>2, <2>3, <3>1, <3>2, <3>3, <3>4, <3>5 DEF IInv, SessionInv, Ending, Brings, Answers, HandleHeld, Of
  <2>6. CASE session[c].abort_state = "NONE" /\ ~session[c].encoding
    <3>1. /\ api'.at = "end" /\ api'.c = c /\ omx' = omx
          /\ session' = [session EXCEPT ![c].abort_state = "DONE"]
      BY <2>1, <2>6, GoesOnFacts DEF SessionAborts
    <3>2. /\ \A d \in Clients \ {c} : session'[d] = session[d]
          /\ session'[c] = [session[c] EXCEPT !.abort_state = "DONE"]
      BY <2>1, <3>1 DEF IInv, TypeOK
    <3>4. /\ session'[c].active <=> session[c].active
          /\ session'[c].encoding <=> session[c].encoding
      BY <2>1, <3>2 DEF Session
    <3>5. /\ session'[c].abort_state = "DONE" /\ session'[c].handles = session[c].handles
          /\ session'[c].jobId = session[c].jobId
      BY <2>1, <3>2 DEF Session
    <3> QED
      BY <2>1, <2>2, <2>3, <2>6, <3>1, <3>2, <3>4, <3>5 DEF IInv, TypeOK, SessionInv, Ending, Brings, Answers, HandleHeld, Of
  <2> QED
    BY <2>4, <2>5, <2>6
<1> QED
  BY <1>1, <1>2, <1>3, <1>4, <1>5, <1>6 DEF IInv

LEMMA AbortWaitsStep ==
  ASSUME IInv, AbortWaits
  PROVE  IInv'
<1>1. TypeOK'
  BY JobFacts DEF IInv, AbortWaits, TypeOK, Session, Call, jobVars, mgrVars, GoesOn
<1>2. LockInv'
  BY JobFacts DEF IInv, AbortWaits, TypeOK, LockInv, MgrLocks, jobVars, mgrVars, GoesOn
<1>3. MgrInv'
  BY JobFacts DEF IInv, AbortWaits, TypeOK, LockInv, MgrLocks, MgrInv, SessionInv, Answers, Brings, Ending, HandleHeld, JobInv, jobVars, mgrVars, GoesOn
<1>4. JobInv'
  BY JobFacts DEF IInv, AbortWaits, TypeOK, JobInv, LockInv, MgrLocks, MgrInv, SessionInv, Current, jobVars, mgrVars, GoesOn
<1>5. QueueInv'
  BY JobFacts DEF IInv, AbortWaits, TypeOK, QueueInv, Queued, Ending, LockInv, MgrLocks, MgrInv, JobInv, SessionInv, Current, Of, jobVars, mgrVars, GoesOn
<1>6. \A d \in Clients : SessionInv(d)'
  BY JobFacts DEF IInv, AbortWaits, TypeOK, LockInv, MgrLocks, MgrInv, SessionInv, Brings, Answers, Ending, HandleHeld, Of, JobInv, QueueInv, Queued, Current, jobVars, mgrVars, GoesOn
<1> QED
  BY <1>1, <1>2, <1>3, <1>4, <1>5, <1>6 DEF IInv

LEMMA AbortEndsStep ==
  ASSUME IInv, AbortEnds
  PROVE  IInv'
<1>1. TypeOK'
  BY JobFacts, IdleFacts DEF IInv, AbortEnds, TypeOK, Session, Call, mgrVars, Current, GiveUp, Returns
<1>2. LockInv'
  BY JobFacts, IdleFacts DEF IInv, AbortEnds, TypeOK, LockInv, MgrLocks, mgrVars, Current, GiveUp, Returns
<1>3. MgrInv'
  BY JobFacts, IdleFacts DEF IInv, AbortEnds, TypeOK, LockInv, MgrLocks, MgrInv, SessionInv, Answers, Brings, Ending, HandleHeld, JobInv, mgrVars, Current, GiveUp, Returns
<1>4. JobInv'
  BY JobFacts, IdleFacts DEF IInv, AbortEnds, TypeOK, JobInv, LockInv, MgrLocks, MgrInv, SessionInv, Current, mgrVars, GiveUp, Returns
<1>5. QueueInv'
  BY JobFacts, IdleFacts DEF IInv, AbortEnds, TypeOK, QueueInv, Queued, Ending, LockInv, MgrLocks, MgrInv, JobInv, SessionInv, Current, Of, mgrVars, GiveUp, Returns
<1>6. \A d \in Clients : SessionInv(d)'
  BY JobFacts, IdleFacts DEF IInv, AbortEnds, TypeOK, LockInv, MgrLocks, MgrInv, SessionInv, Brings, Answers, Ending, HandleHeld, Of, JobInv, QueueInv, Queued, Current, mgrVars, GiveUp, Returns
<1> QED
  BY <1>1, <1>2, <1>3, <1>4, <1>5, <1>6 DEF IInv

LEMMA DestroyEndsStep ==
  ASSUME IInv, DestroyEnds
  PROVE  IInv'
<1>1. TypeOK'
  <2>1. api.c \in Clients /\ NoSession \in Session
    BY DEF IInv, TypeOK, Call, NoSession, Session
  <2>2. session' \in [Clients -> Session]
    BY <2>1, OneSession DEF IInv, DestroyEnds
  <2>3. status' \in [Jobs -> {"none", "started", "answered", "gone"}]
    BY GiveUpFacts DEF IInv, DestroyEnds
  <2>4. api' \in Call
    BY GoesOnFacts DEF IInv, TypeOK, DestroyEnds
  <2> QED
    BY <2>1, <2>2, <2>3, <2>4 DEF IInv, DestroyEnds, TypeOK, mgrVars
<1>2. LockInv'
  BY JobFacts DEF IInv, DestroyEnds, TypeOK, LockInv, MgrLocks, mgrVars, Of, GiveUp, GoesOn, NoSession
<1>3. MgrInv'
  BY JobFacts DEF IInv, DestroyEnds, TypeOK, LockInv, MgrLocks, MgrInv, SessionInv, Answers, Brings, Ending, HandleHeld, JobInv, mgrVars, Of, GiveUp, GoesOn, NoSession
<1>4. JobInv'
  BY JobFacts DEF IInv, DestroyEnds, TypeOK, JobInv, LockInv, MgrLocks, MgrInv, SessionInv, Current, mgrVars, Of, GiveUp, GoesOn, NoSession
<1>5. QueueInv'
  BY JobFacts DEF IInv, DestroyEnds, TypeOK, QueueInv, Queued, Ending, LockInv, MgrLocks, MgrInv, JobInv, SessionInv, Current, Of, mgrVars, GiveUp, GoesOn, NoSession
<1>6. \A d \in Clients : SessionInv(d)'
  BY JobFacts DEF IInv, DestroyEnds, TypeOK, LockInv, MgrLocks, MgrInv, SessionInv, Brings, Answers, Ending, HandleHeld, Of, JobInv, QueueInv, Queued, Current, mgrVars, GiveUp, GoesOn, NoSession
<1> QED
  BY <1>1, <1>2, <1>3, <1>4, <1>5, <1>6 DEF IInv

LEMMA CallPostsStep ==
  ASSUME IInv, CallPosts
  PROVE  IInv'
<1>1. TypeOK'
  <2>1. api' \in Call
    BY GoesOnFacts, IdleFacts DEF IInv, TypeOK, CallPosts, Returns
  <2> QED
    BY <2>1 DEF IInv, CallPosts, TypeOK, mgrVars, Post
<1>2. LockInv'
  BY JobFacts, IdleFacts DEF IInv, CallPosts, TypeOK, LockInv, MgrLocks, mgrVars, Post, GoesOn, Returns, Session, Call, Of, Current
<1>3. MgrInv'
  BY JobFacts, IdleFacts DEF IInv, CallPosts, TypeOK, LockInv, MgrLocks, MgrInv, SessionInv, Answers, Brings, Ending, HandleHeld, JobInv, mgrVars, Post, GoesOn, Returns
<1>4. JobInv'
  BY JobFacts, IdleFacts DEF IInv, CallPosts, TypeOK, JobInv, LockInv, MgrLocks, MgrInv, SessionInv, Current, mgrVars, Post, GoesOn, Returns
<1>5. QueueInv'
  BY JobFacts, IdleFacts DEF IInv, CallPosts, TypeOK, QueueInv, Queued, Ending, LockInv, MgrLocks, MgrInv, JobInv, SessionInv, Current, Of, mgrVars, Post, GoesOn, Returns, Session, Call
<1>6. \A d \in Clients : SessionInv(d)'
  BY JobFacts, IdleFacts DEF IInv, CallPosts, TypeOK, LockInv, MgrLocks, MgrInv, SessionInv, Brings, Answers, Ending, HandleHeld, Of, JobInv, QueueInv, Queued, Current, mgrVars, Post, GoesOn, Returns, Session, Call
<1> QED
  BY <1>1, <1>2, <1>3, <1>4, <1>5, <1>6 DEF IInv

LEMMA CloseJoinsStep ==
  ASSUME IInv, CloseJoins
  PROVE  IInv'
<1>1. TypeOK'
  BY JobFacts, IdleFacts DEF IInv, CloseJoins, TypeOK, Session, Call, jobVars, mgrVars, Returns
<1>2. LockInv'
  BY JobFacts, IdleFacts DEF IInv, CloseJoins, TypeOK, LockInv, MgrLocks, jobVars, mgrVars, Returns
<1>3. MgrInv'
  BY JobFacts, IdleFacts DEF IInv, CloseJoins, TypeOK, LockInv, MgrLocks, MgrInv, SessionInv, Answers, Brings, Ending, HandleHeld, JobInv, jobVars, mgrVars, Returns
<1>4. JobInv'
  BY JobFacts, IdleFacts DEF IInv, CloseJoins, TypeOK, JobInv, LockInv, MgrLocks, MgrInv, SessionInv, Current, jobVars, mgrVars, Returns
<1>5. QueueInv'
  BY JobFacts, IdleFacts DEF IInv, CloseJoins, TypeOK, QueueInv, Queued, Ending, LockInv, MgrLocks, MgrInv, JobInv, SessionInv, Current, Of, jobVars, mgrVars, Returns
<1>6. \A d \in Clients : SessionInv(d)'
  BY JobFacts, IdleFacts DEF IInv, CloseJoins, TypeOK, LockInv, MgrLocks, MgrInv, SessionInv, Brings, Answers, Ending, HandleHeld, Of, JobInv, QueueInv, Queued, Current, jobVars, mgrVars, Returns
<1> QED
  BY <1>1, <1>2, <1>3, <1>4, <1>5, <1>6 DEF IInv

LEMMA MgrWakesStep ==
  ASSUME IInv, MgrWakes
  PROVE  IInv'
<1>1. TypeOK'
  BY JobFacts DEF IInv, MgrWakes, TypeOK, Session, Call, apiVars
<1>2. LockInv'
  BY JobFacts DEF IInv, MgrWakes, TypeOK, LockInv, MgrLocks, apiVars
<1>3. MgrInv'
  BY JobFacts DEF IInv, MgrWakes, TypeOK, LockInv, MgrLocks, MgrInv, SessionInv, Answers, Brings, Ending, HandleHeld, JobInv, apiVars
<1>4. JobInv'
  BY JobFacts DEF IInv, MgrWakes, TypeOK, JobInv, LockInv, MgrLocks, MgrInv, SessionInv, Current, apiVars
<1>5. QueueInv'
  BY JobFacts DEF IInv, MgrWakes, TypeOK, QueueInv, Queued, Ending, LockInv, MgrLocks, MgrInv, JobInv, SessionInv, Current, Of, apiVars
<1>6. \A d \in Clients : SessionInv(d)'
  BY JobFacts DEF IInv, MgrWakes, TypeOK, LockInv, MgrLocks, MgrInv, SessionInv, Brings, Answers, Ending, HandleHeld, Of, JobInv, QueueInv, Queued, Current, apiVars
<1> QED
  BY <1>1, <1>2, <1>3, <1>4, <1>5, <1>6 DEF IInv

LEMMA MgrLooksStep ==
  ASSUME IInv, MgrLooks
  PROVE  IInv'
<1>1. TypeOK'
  BY JobFacts DEF IInv, MgrLooks, TypeOK, Session, Call, jobVars, apiVars
<1>2. LockInv'
  BY JobFacts DEF IInv, MgrLooks, TypeOK, LockInv, MgrLocks, jobVars, apiVars
<1>3. MgrInv'
  BY JobFacts DEF IInv, MgrLooks, TypeOK, LockInv, MgrLocks, MgrInv, SessionInv, Answers, Brings, Ending, HandleHeld, JobInv, jobVars, apiVars
<1>4. JobInv'
  BY JobFacts DEF IInv, MgrLooks, TypeOK, JobInv, LockInv, MgrLocks, MgrInv, SessionInv, Current, jobVars, apiVars
<1>5. QueueInv'
  BY JobFacts DEF IInv, MgrLooks, TypeOK, QueueInv, Queued, Ending, LockInv, MgrLocks, MgrInv, JobInv, SessionInv, Current, Of, jobVars, apiVars
<1>6. \A d \in Clients : SessionInv(d)'
  BY JobFacts DEF IInv, MgrLooks, TypeOK, LockInv, MgrLocks, MgrInv, SessionInv, Brings, Answers, Ending, HandleHeld, Of, JobInv, QueueInv, Queued, Current, jobVars, apiVars
<1> QED
  BY <1>1, <1>2, <1>3, <1>4, <1>5, <1>6 DEF IInv

LEMMA MgrFindsNoneStep ==
  ASSUME IInv, MgrFindsNone
  PROVE  IInv'
<1>1. TypeOK'
  BY JobFacts DEF IInv, MgrFindsNone, TypeOK, Session, Call, jobVars, apiVars
<1>2. LockInv'
  BY JobFacts DEF IInv, MgrFindsNone, TypeOK, LockInv, MgrLocks, jobVars, apiVars
<1>3. MgrInv'
  BY JobFacts DEF IInv, MgrFindsNone, TypeOK, LockInv, MgrLocks, MgrInv, SessionInv, Answers, Brings, Ending, HandleHeld, JobInv, jobVars, apiVars
<1>4. JobInv'
  BY JobFacts DEF IInv, MgrFindsNone, TypeOK, JobInv, LockInv, MgrLocks, MgrInv, SessionInv, Current, jobVars, apiVars
<1>5. QueueInv'
  BY JobFacts DEF IInv, MgrFindsNone, TypeOK, QueueInv, Queued, Ending, LockInv, MgrLocks, MgrInv, JobInv, SessionInv, Current, Of, jobVars, apiVars
<1>6. \A d \in Clients : SessionInv(d)'
  BY JobFacts DEF IInv, MgrFindsNone, TypeOK, LockInv, MgrLocks, MgrInv, SessionInv, Brings, Answers, Ending, HandleHeld, Of, JobInv, QueueInv, Queued, Current, jobVars, apiVars
<1> QED
  BY <1>1, <1>2, <1>3, <1>4, <1>5, <1>6 DEF IInv

LEMMA MgrExitsStep ==
  ASSUME IInv, MgrExits
  PROVE  IInv'
<1>1. TypeOK'
  BY JobFacts DEF IInv, MgrExits, TypeOK, Session, Call, apiVars
<1>2. LockInv'
  BY JobFacts DEF IInv, MgrExits, TypeOK, LockInv, MgrLocks, apiVars
<1>3. MgrInv'
  BY JobFacts DEF IInv, MgrExits, TypeOK, LockInv, MgrLocks, MgrInv, SessionInv, Answers, Brings, Ending, HandleHeld, JobInv, apiVars
<1>4. JobInv'
  BY JobFacts DEF IInv, MgrExits, TypeOK, JobInv, LockInv, MgrLocks, MgrInv, SessionInv, Current, apiVars
<1>5. QueueInv'
  <2>1. \A j \in Jobs \ {} : Queued(j) => Queued(j)'
    BY JobFacts DEF IInv, MgrExits, TypeOK, Queued, Ending, apiVars
  <2>2. Shrinks({})
    BY LosesHead DEF IInv, MgrExits
  <2> QED
    BY <2>1, <2>2, QueueShrinks DEF IInv
<1>6. \A d \in Clients : SessionInv(d)'
  BY JobFacts DEF IInv, MgrExits, TypeOK, LockInv, MgrLocks, MgrInv, SessionInv, Brings, Answers, Ending, HandleHeld, Of, JobInv, QueueInv, Queued, Current, apiVars
<1> QED
  BY <1>1, <1>2, <1>3, <1>4, <1>5, <1>6 DEF IInv

LEMMA MgrTakesStep ==
  ASSUME IInv, MgrTakes
  PROVE  IInv'
<1>1. TypeOK'
  <2> DEFINE j == Head(job_queue)
             c == j[1]
  <2>1. /\ j \in Jobs /\ Queued(j) /\ c \in Clients /\ j = <<c, j[2]>> /\ j \in Of(c)
        /\ \/ mgr' = "wait" /\ UNCHANGED <<mgrJob, job_queue, ongoing_job_q, job_lock, session>>
           \/ /\ session[c].handles = 1
              /\ session' \in [Clients -> Session]
              /\ session'[c].active /\ session'[c].abort_state = "NONE"
              /\ session'[c].handles = 0 /\ session'[c].jobId = j
              /\ session'[c].encoding <=> session[c].encoding
              /\ \A d \in Clients \ {c} : session'[d] = session[d]
              /\ job_queue' = Tail(job_queue)
              /\ ongoing_job_q' = ongoing_job_q \cup {j}
              /\ job_lock' = "mgr" /\ mgr' = "encode" /\ mgrJob' = j
    BY MgrTakesFacts
  <2>2. mgr = "lock" /\ job_lock = "free" /\ UNCHANGED <<job_sem, omx, callback, api, clients, started, status>>
    BY DEF MgrTakes, apiVars
  <2>3. job_queue # << >> /\ Head(job_queue) # Exit
    BY DEF MgrTakes
  <2>4. job_queue' \in Seq(Jobs \cup {Exit})
    BY <2>1, <2>3, Removes DEF IInv, TypeOK
  <2> HIDE DEF j
  <2>5. /\ session' \in [Clients -> Session] /\ ongoing_job_q' \subseteq Jobs
        /\ job_lock' \in {"free", "mgr", "api"} /\ mgr' \in {"wait", "encode"}
        /\ mgrJob' \in Jobs \cup {Exit}
    BY <2>1 DEF IInv, TypeOK
  <2> QED
    BY <2>2, <2>4, <2>5 DEF IInv, TypeOK
<1>2. LockInv'
  BY JobFacts DEF IInv, MgrTakes, TypeOK, LockInv, MgrLocks, apiVars
<1>3. MgrInv'
  <2> DEFINE j == Head(job_queue)
             c == j[1]
  <2>1. /\ j \in Jobs /\ Queued(j) /\ c \in Clients /\ j = <<c, j[2]>> /\ j \in Of(c)
        /\ \/ mgr' = "wait" /\ UNCHANGED <<mgrJob, job_queue, ongoing_job_q, job_lock, session>>
           \/ /\ session[c].handles = 1
              /\ session' \in [Clients -> Session]
              /\ session'[c].active /\ session'[c].abort_state = "NONE"
              /\ session'[c].handles = 0 /\ session'[c].jobId = j
              /\ session'[c].encoding <=> session[c].encoding
              /\ \A d \in Clients \ {c} : session'[d] = session[d]
              /\ job_queue' = Tail(job_queue)
              /\ ongoing_job_q' = ongoing_job_q \cup {j}
              /\ job_lock' = "mgr" /\ mgr' = "encode" /\ mgrJob' = j
    BY MgrTakesFacts
  <2>2. mgr = "lock" /\ job_lock = "free" /\ UNCHANGED <<job_sem, omx, callback, api, clients, started, status>>
    BY DEF MgrTakes, apiVars
  <2>3. job_queue # << >> /\ Head(job_queue) # Exit
    BY DEF MgrTakes
  <2>4. \A d \in Clients : omx[d] = "off"
    BY <2>2 DEF IInv, MgrInv, SessionInv, LockInv, Ending
  <2> HIDE DEF j
  <2> QED
    BY <2>1, <2>2, <2>4 DEF IInv, MgrInv, Queued
<1>4. JobInv'
  <2> DEFINE j == Head(job_queue)
             c == j[1]
  <2>1. /\ j \in Jobs /\ Queued(j) /\ c \in Clients /\ j = <<c, j[2]>> /\ j \in Of(c)
        /\ \/ mgr' = "wait" /\ UNCHANGED <<mgrJob, job_queue, ongoing_job_q, job_lock, session>>
           \/ /\ session[c].handles = 1
              /\ session' \in [Clients -> Session]
              /\ session'[c].active /\ session'[c].abort_state = "NONE"
              /\ session'[c].handles = 0 /\ session'[c].jobId = j
              /\ session'[c].encoding <=> session[c].encoding
              /\ \A d \in Clients \ {c} : session'[d] = session[d]
              /\ job_queue' = Tail(job_queue)
              /\ ongoing_job_q' = ongoing_job_q \cup {j}
              /\ job_lock' = "mgr" /\ mgr' = "encode" /\ mgrJob' = j
    BY MgrTakesFacts
  <2>2. mgr = "lock" /\ job_lock = "free" /\ UNCHANGED <<job_sem, omx, callback, api, clients, started, status>>
    BY DEF MgrTakes, apiVars
  <2>3. job_queue # << >> /\ Head(job_queue) # Exit
    BY DEF MgrTakes
  <2> HIDE DEF j
  <2> QED
    BY <2>1, <2>2 DEF IInv, JobInv, Queued, Current
<1>5. QueueInv'
  <2> DEFINE j == Head(job_queue)
             c == j[1]
  <2>1. /\ j \in Jobs /\ Queued(j) /\ c \in Clients /\ j = <<c, j[2]>> /\ j \in Of(c)
        /\ \/ mgr' = "wait" /\ UNCHANGED <<mgrJob, job_queue, ongoing_job_q, job_lock, session>>
           \/ /\ session[c].handles = 1
              /\ session' \in [Clients -> Session]
              /\ session'[c].active /\ session'[c].abort_state = "NONE"
              /\ session'[c].handles = 0 /\ session'[c].jobId = j
              /\ session'[c].encoding <=> session[c].encoding
              /\ \A d \in Clients \ {c} : session'[d] = session[d]
              /\ job_queue' = Tail(job_queue)
              /\ ongoing_job_q' = ongoing_job_q \cup {j}
              /\ job_lock' = "mgr" /\ mgr' = "encode" /\ mgrJob' = j
    BY MgrTakesFacts
  <2>2. mgr = "lock" /\ job_lock = "free" /\ UNCHANGED <<job_sem, omx, callback, api, clients, started, status>>
    BY DEF MgrTakes, apiVars
  <2>3. job_queue # << >> /\ Head(job_queue) # Exit
    BY DEF MgrTakes
  <2> HIDE DEF j, c
  <2>4. CASE mgr' = "wait"
    BY <2>1, <2>2, <2>4 DEF IInv, QueueInv, Queued, Ending
  <2>5. CASE mgr' # "wait"
    <3>1. Shrinks({j})
      BY <2>1, <2>3, <2>5, LosesJob DEF IInv, j
    <3>2. \A k \in Jobs \ {j} : Queued(k) => Queued(k)'
      BY <2>1, <2>2, <2>5, JobFacts DEF Queued, Ending
    <3> QED
      BY <3>1, <3>2, QueueShrinks DEF IInv
  <2> QED
    BY <2>4, <2>5
<1>6. \A d \in Clients : SessionInv(d)'
  <2> DEFINE j == Head(job_queue)
             c == j[1]
  <2>1. /\ j \in Jobs /\ Queued(j) /\ c \in Clients /\ j = <<c, j[2]>> /\ j \in Of(c)
        /\ \/ mgr' = "wait" /\ UNCHANGED <<mgrJob, job_queue, ongoing_job_q, job_lock, session>>
           \/ /\ session[c].handles = 1
              /\ session' \in [Clients -> Session]
              /\ session'[c].active /\ session'[c].abort_state = "NONE"
              /\ session'[c].handles = 0 /\ session'[c].jobId = j
              /\ session'[c].encoding <=> session[c].encoding
              /\ \A d \in Clients \ {c} : session'[d] = session[d]
              /\ job_queue' = Tail(job_queue)
              /\ ongoing_job_q' = ongoing_job_q \cup {j}
              /\ job_lock' = "mgr" /\ mgr' = "encode" /\ mgrJob' = j
    BY MgrTakesFacts
  <2>2. mgr = "lock" /\ job_lock = "free" /\ UNCHANGED <<job_sem, omx, callback, api, clients, started, status>>
    BY DEF MgrTakes, apiVars
  <2>3. job_queue # << >> /\ Head(job_queue) # Exit
    BY DEF MgrTakes
  <2> HIDE DEF j
  <2>4. CASE mgr' = "wait"
    BY <2>1, <2>2, <2>4 DEF IInv, SessionInv, Ending, Answers, Brings, HandleHeld, Of
  <2>5. CASE mgr' # "wait"
    BY <2>1, <2>2, <2>5 DEF IInv, SessionInv, Ending, Answers, Brings, HandleHeld, Of, Queued
  <2> QED
    BY <2>4, <2>5
<1> QED
  BY <1>1, <1>2, <1>3, <1>4, <1>5, <1>6 DEF IInv

LEMMA MgrEncodesStep ==
  ASSUME IInv, MgrEncodes
  PROVE  IInv'
<1>1. TypeOK'
  <2> DEFINE c == mgrJob[1]
             s(e) == [session[c] EXCEPT !.abort_state = "NONE", !.encoding = e]
  <2>1. mgrJob \in Jobs /\ c \in Clients /\ session[c] \in Session /\ status[mgrJob] = "started"
    BY JobFacts DEF IInv, TypeOK, MgrInv, MgrEncodes
  <2>2. s(TRUE) \in Session /\ s(FALSE) \in Session
    BY <2>1, AbortRecords
  <2>3. \/ session' = [session EXCEPT ![c] = s(TRUE)]
        \/ session' = [session EXCEPT ![c] = s(FALSE)]
    BY <2>1 DEF IInv, MgrEncodes, TypeOK
  <2> HIDE DEF s
  <2>4. session' \in [Clients -> Session]
    BY <2>1, <2>2, <2>3, OneSession DEF IInv
  <2>5. status' \in [Jobs -> {"none", "started", "answered", "gone"}]
    BY <2>1, TellFacts DEF IInv, TypeOK, MgrEncodes
  <2> QED
    BY <2>4, <2>5 DEF IInv, MgrEncodes, TypeOK, jobVars, apiVars
<1>2. LockInv'
  BY JobFacts DEF IInv, MgrEncodes, TypeOK, LockInv, MgrLocks, jobVars, apiVars, Tell
<1>3. MgrInv'
  <2> DEFINE c == mgrJob[1]
  <2>1. mgrJob \in Jobs /\ c \in Clients /\ session[c] \in Session /\ status[mgrJob] = "started" /\ callback[c] = "none"
    BY JobFacts DEF IInv, TypeOK, MgrInv, MgrEncodes
  <2>2. UNCHANGED <<ongoing_job_q, omx, callback, mgrJob, api>>
    BY DEF MgrEncodes, jobVars, apiVars
  <2>3. \A d \in Clients : omx[d] = "off"
    BY DEF IInv, MgrInv, MgrEncodes
  <2>4. \A d \in Clients \ {c} : session'[d] = session[d]
    BY <2>1 DEF IInv, TypeOK, MgrEncodes
  <2>5. \/ mgr' = "give" /\ session'[c] = [session[c] EXCEPT !.abort_state = "NONE", !.encoding = TRUE]
        \/ mgr' = "failed" /\ session'[c] = [session[c] EXCEPT !.abort_state = "NONE", !.encoding = FALSE]
    BY <2>1 DEF IInv, TypeOK, MgrEncodes
  <2>6. /\ session'[c].active <=> session[c].active
        /\ session'[c].encoding <=> mgr' = "give"
    BY <2>1, <2>5 DEF Session
  <2>7. session'[c].abort_state = "NONE" /\ session'[c].handles = session[c].handles
        /\ session'[c].jobId = session[c].jobId
    BY <2>1, <2>5 DEF Session
  <2>8. session[c].active /\ session[c].abort_state = "NONE" /\ session[c].handles = 0
    BY DEF IInv, MgrInv, MgrEncodes
  <2>9. mgr = "encode" /\ mgr' \in {"give", "failed"} /\ ~Answers(c)
    BY <2>1, <2>5 DEF MgrEncodes, Answers
  <2> QED
    BY <2>1, <2>2, <2>3, <2>6, <2>7, <2>8, <2>9, TellFacts DEF IInv, MgrInv, LockInv, MgrLocks, MgrEncodes
<1>4. JobInv'
  BY JobFacts DEF IInv, MgrEncodes, TypeOK, JobInv, LockInv, MgrLocks, MgrInv, SessionInv, Current, jobVars, apiVars, Tell
<1>5. QueueInv'
  BY JobFacts DEF IInv, MgrEncodes, TypeOK, QueueInv, Queued, Ending, LockInv, MgrLocks, MgrInv, JobInv, SessionInv, Current, Of, jobVars, apiVars, Tell, Session, Call
<1>6. \A d \in Clients : SessionInv(d)'
  <2> DEFINE c == mgrJob[1]
  <2>1. mgrJob \in Jobs /\ c \in Clients /\ session[c] \in Session /\ status[mgrJob] = "started" /\ callback[c] = "none"
    BY JobFacts DEF IInv, TypeOK, MgrInv, MgrEncodes
  <2>2. UNCHANGED <<ongoing_job_q, omx, callback, mgrJob, api>>
    BY DEF MgrEncodes, jobVars, apiVars
  <2>3. \A d \in Clients : omx[d] = "off"
    BY DEF IInv, MgrInv, MgrEncodes
  <2>4. \A d \in Clients \ {c} : session'[d] = session[d]
    BY <2>1 DEF IInv, TypeOK, MgrEncodes
  <2>5. \/ mgr' = "give" /\ session'[c] = [session[c] EXCEPT !.abort_state = "NONE", !.encoding = TRUE]
        \/ mgr' = "failed" /\ session'[c] = [session[c] EXCEPT !.abort_state = "NONE", !.encoding = FALSE]
    BY <2>1 DEF IInv, TypeOK, MgrEncodes
  <2>6. /\ session'[c].active <=> session[c].active
        /\ session'[c].encoding <=> mgr' = "give"
    BY <2>1, <2>5 DEF Session
  <2>7. session'[c].abort_state = "NONE" /\ session'[c].handles = session[c].handles
        /\ session'[c].jobId = session[c].jobId
    BY <2>1, <2>5 DEF Session
  <2>8. session[c].active /\ session[c].abort_state = "NONE" /\ session[c].handles = 0
    BY DEF IInv, MgrInv, MgrEncodes
  <2>9. mgr = "encode" /\ mgr' \in {"give", "failed"} /\ ~Answers(c)
    BY <2>1, <2>5 DEF MgrEncodes, Answers
  <2> QED
    BY <2>1, <2>2, <2>3, <2>4, <2>6, <2>7, <2>8, <2>9 DEF IInv, SessionInv, Ending, Brings, Answers, HandleHeld
<1> QED
  BY <1>1, <1>2, <1>3, <1>4, <1>5, <1>6 DEF IInv

LEMMA MgrGivesStep ==
  ASSUME IInv, MgrGives
  PROVE  IInv'
<1>1. TypeOK'
  BY JobFacts DEF IInv, MgrGives, TypeOK, Session, Call, jobVars, apiVars
<1>2. LockInv'
  BY JobFacts DEF IInv, MgrGives, TypeOK, LockInv, MgrLocks, jobVars, apiVars
<1>3. MgrInv'
  BY JobFacts DEF IInv, MgrGives, TypeOK, LockInv, MgrLocks, MgrInv, SessionInv, Answers, Brings, Ending, HandleHeld, JobInv, jobVars, apiVars
<1>4. JobInv'
  BY JobFacts DEF IInv, MgrGives, TypeOK, JobInv, LockInv, MgrLocks, MgrInv, SessionInv, Current, jobVars, apiVars
<1>5. QueueInv'
  <2>1. \A j \in Jobs : Queued(j) => Queued(j)'
    <3>1. mgr = "give" /\ mgrJob \in Jobs /\ status[mgrJob] = "started" /\ mgr' = "unlock"
      BY DEF IInv, MgrInv, MgrGives
    <3>2. ASSUME NEW j \in Jobs, Queued(j)
          PROVE  j[1] # mgrJob[1]
      BY <3>1, <3>2, JobFacts DEF IInv, JobInv, Queued, Current
    <3> QED
      BY <3>1, <3>2, JobFacts DEF MgrGives, IInv, TypeOK, Queued, Ending, jobVars, apiVars
  <2>2. \A i \in 1 .. Len(job_queue) : job_queue[i] \in Jobs \cup {Exit}
    BY DEF IInv, TypeOK
  <2> QED
    BY <2>1, <2>2 DEF IInv, QueueInv, MgrGives, jobVars
<1>6. \A d \in Clients : SessionInv(d)'
  BY JobFacts DEF IInv, MgrGives, TypeOK, LockInv, MgrLocks, MgrInv, SessionInv, Brings, Answers, Ending, HandleHeld, Of, JobInv, QueueInv, Queued, Current, jobVars, apiVars
<1> QED
  BY <1>1, <1>2, <1>3, <1>4, <1>5, <1>6 DEF IInv

LEMMA MgrFailedStep ==
  ASSUME IInv, MgrFailed
  PROVE  IInv'
<1>1. TypeOK'
  <2> DEFINE h == session[mgrJob[1]].handles + 1
             s == [session[mgrJob[1]] EXCEPT !.handles = h, !.encoding = FALSE]
  <2>1. mgrJob[1] \in Clients /\ session[mgrJob[1]] \in Session /\ h \in 0 .. 1
    BY JobFacts DEF IInv, TypeOK, MgrInv, MgrFailed
  <2>2. session' = [session EXCEPT ![mgrJob[1]] = s]
    BY <2>1 DEF IInv, MgrFailed, TypeOK, Session
  <2> HIDE DEF h
  <2>3. s \in Session
    BY <2>1, HandleRecords
  <2> HIDE DEF s
  <2>4. session' \in [Clients -> Session]
    BY <2>1, <2>2, <2>3, OneSession DEF IInv
  <2> QED
    BY <2>4 DEF IInv, MgrFailed, TypeOK, apiVars, Post
<1>2. LockInv'
  BY JobFacts DEF IInv, MgrFailed, TypeOK, LockInv, MgrLocks, apiVars, Post
<1>3. MgrInv'
  BY JobFacts DEF IInv, MgrFailed, TypeOK, LockInv, MgrLocks, MgrInv, SessionInv, Answers, Brings, Ending, HandleHeld, JobInv, apiVars, Post
<1>4. JobInv'
  BY JobFacts DEF IInv, MgrFailed, TypeOK, JobInv, LockInv, MgrLocks, MgrInv, SessionInv, Current, apiVars, Post
<1>5. QueueInv'
  BY JobFacts DEF IInv, MgrFailed, TypeOK, QueueInv, Queued, Ending, LockInv, MgrLocks, MgrInv, JobInv, SessionInv, Current, Of, apiVars, Post
<1>6. \A d \in Clients : SessionInv(d)'
  <2>1. PICK c \in Clients : c = mgrJob[1]
    BY JobFacts DEF IInv, MgrInv, MgrFailed
  <2>2. /\ session[c].active /\ session[c].abort_state = "NONE" /\ session[c].handles = 0
        /\ \A d \in Clients : omx[d] = "off"
        /\ Brings(c) /\ \A d \in Clients \ {c} : ~Brings(d)
    BY <2>1 DEF IInv, MgrInv, MgrFailed, Brings
  <2>3. /\ session'[c].active /\ session'[c].abort_state = "NONE" /\ session'[c].handles = 1
        /\ ~session'[c].encoding
        /\ \A d \in Clients \ {c} : session'[d] = session[d]
    BY <2>1, <2>2 DEF IInv, MgrFailed, TypeOK, Session
  <2>4. UNCHANGED <<omx, callback, api, status>> /\ mgr' = "unlock" /\ mgr = "failed"
    BY DEF MgrFailed, apiVars
  <2>5. ~Answers(c)
    BY <2>1, <2>2 DEF IInv, SessionInv
  <2>6. SessionInv(c)'
    BY <2>2, <2>3, <2>4, <2>5 DEF IInv, SessionInv, Answers, Brings, Ending
  <2>7. ASSUME NEW d \in Clients \ {c}
        PROVE  SessionInv(d)'
    <3>1. HandleHeld(d) => HandleHeld(d)'
      BY <2>1, <2>2, <2>3, <2>4, <2>7 DEF HandleHeld, MgrFailed, IInv, Of
    <3> QED
      BY <2>1, <2>2, <2>3, <2>4, <2>7, <3>1 DEF IInv, SessionInv, Answers, Brings, Ending
  <2> QED
    BY <2>6, <2>7
<1> QED
  BY <1>1, <1>2, <1>3, <1>4, <1>5, <1>6 DEF IInv

LEMMA MgrUnlocksStep ==
  ASSUME IInv, MgrUnlocks
  PROVE  IInv'
<1>1. TypeOK'
  BY JobFacts DEF IInv, MgrUnlocks, TypeOK, Session, Call, apiVars
<1>2. LockInv'
  BY JobFacts DEF IInv, MgrUnlocks, TypeOK, LockInv, MgrLocks, apiVars
<1>3. MgrInv'
  BY JobFacts DEF IInv, MgrUnlocks, TypeOK, LockInv, MgrLocks, MgrInv, SessionInv, Answers, Brings, Ending, HandleHeld, JobInv, apiVars
<1>4. JobInv'
  BY JobFacts DEF IInv, MgrUnlocks, TypeOK, JobInv, LockInv, MgrLocks, MgrInv, SessionInv, Current, apiVars
<1>5. QueueInv'
  BY JobFacts DEF IInv, MgrUnlocks, TypeOK, QueueInv, Queued, Ending, LockInv, MgrLocks, MgrInv, JobInv, SessionInv, Current, Of, apiVars
<1>6. \A d \in Clients : SessionInv(d)'
  BY JobFacts DEF IInv, MgrUnlocks, TypeOK, LockInv, MgrLocks, MgrInv, SessionInv, Brings, Answers, Ending, HandleHeld, Of, JobInv, QueueInv, Queued, Current, apiVars
<1> QED
  BY <1>1, <1>2, <1>3, <1>4, <1>5, <1>6 DEF IInv

LEMMA InitIInv == Init => IInv
<1> SUFFICES ASSUME Init PROVE IInv
  OBVIOUS
<1>1. TypeOK
  BY IdleFacts, NoSessionFacts, ClientsAssumption DEF Init, TypeOK
<1>2. LockInv /\ MgrInv /\ JobInv
  BY IdleFacts DEF Init, LockInv, MgrLocks, MgrInv, JobInv
<1>3. QueueInv
  BY DEF Init, QueueInv
<1>4. \A c \in Clients : SessionInv(c)
  BY IdleFacts DEF Init, SessionInv, NoSession, Answers
<1> QED
  BY <1>1, <1>2, <1>3, <1>4 DEF IInv

LEMMA NextIInv == IInv /\ [Next]_vars => IInv'
<1> SUFFICES ASSUME IInv, [Next]_vars PROVE IInv'
  OBVIOUS
<1>1. ASSUME NEW c \in Clients,
             \/ CreateSession(c) \/ StartJob(c) \/ AbortJob(c) \/ DestroySession(c) \/ Close(c)
             \/ Component(c)
      PROVE  IInv'
  BY <1>1, CreateSessionStep, StartJobStep, AbortJobStep, DestroySessionStep, CloseStep,
     FinishesStep, IdlesStep, JobRemovedStep, HandleFreedStep, JobDoneStep DEF Component
<1>2. CASE CallGoesOn
  BY <1>2, AbortLocksStep, DestroyLocksStep, SessionAbortsStep, AbortWaitsStep, AbortEndsStep,
     DestroyEndsStep, CallPostsStep, CloseJoinsStep DEF CallGoesOn
<1>3. CASE Mgr
  BY <1>3, MgrWakesStep, MgrLooksStep, MgrFindsNoneStep, MgrExitsStep, MgrTakesStep,
     MgrEncodesStep, MgrGivesStep, MgrFailedStep, MgrUnlocksStep DEF Mgr
<1>4. CASE UNCHANGED vars
  BY <1>4 DEF vars, jobVars, mgrVars, apiVars, IInv, TypeOK, LockInv, MgrInv, JobInv, QueueInv,
     Queued, SessionInv, Brings, Answers, Ending, HandleHeld, Current
<1> QED
  BY <1>1, <1>2, <1>3, <1>4 DEF Next

THEOREM AlwaysIInv == Spec => []IInv
  BY InitIInv, NextIInv, PTL DEF Spec

\* Every variable keeps its type.
THEOREM TypesHold == Spec => []TypeOK
<1>1. IInv => TypeOK
  BY DEF IInv
<1> QED
  BY <1>1, AlwaysIInv, PTL

\* A session that is not aborted has its OMX handle exactly when nobody holds it,
\* only an active session has one held, and one component works at a time.
THEOREM HandleAlwaysKept == Spec => []HandleKept
<1>1. ASSUME IInv PROVE HandleKept
  <2> SUFFICES ASSUME NEW c \in Clients
               PROVE  /\ session[c].active /\ session[c].abort_state = "NONE" =>
                           (session[c].handles = 1 <=> ~HandleHeld(c))
                      /\ HandleHeld(c) => session[c].active
                      /\ omx[c] # "off" => \A d \in Clients \ {c} : omx[d] = "off"
    BY DEF HandleKept
  <2>1. SessionInv(c) /\ session[c].handles \in {0, 1}
    BY <1>1 DEF IInv, TypeOK, Session
  <2>2. HandleHeld(c) => session[c].active /\ session[c].handles = 0
    BY <1>1, <2>1 DEF IInv, MgrInv, SessionInv, HandleHeld, Answers
  <2> QED
    BY <2>1, <2>2 DEF SessionInv
<1> QED
  BY <1>1, AlwaysIInv, PTL

-----------------------------------------------------------------------------
(* The jobs as their client sees them.                                     *)

LEMMA TellAnswers ==
  ASSUME TypeOK, NEW j \in Jobs, status[j] = "started", Tell(j)
  PROVE  Service!Next
<1>1. status' = [status EXCEPT ![j] = "answered"]
  BY DEF Tell, TypeOK
<1> QED
  BY <1>1 DEF Service!Next, Service!Answer, Service!Turn

\* Jobs of one client are given up one at a time: only its last one is started.
LEMMA GiveUpGivesOne ==
  ASSUME TypeOK, JobInv, NEW c \in Clients, NEW S, S \subseteq Of(c) \cup {Current(c)}, GiveUp(S)
  PROVE  Service!Next \/ UNCHANGED status
<1>1. CASE \E j \in Jobs \cap S : status[j] = "started"
  <2>1. PICK j \in Jobs \cap S : status[j] = "started"
    BY <1>1
  <2>2. \A k \in Jobs \cap S : status[k] = "started" => k = j
    BY <2>1, JobFacts DEF JobInv, Of, Current
  <2>3. status' = [status EXCEPT ![j] = "gone"]
    BY <2>1, <2>2 DEF GiveUp, TypeOK
  <2> QED
    BY <2>1, <2>3 DEF Service!Next, Service!GiveUp, Service!Turn
<1>2. CASE ~\E j \in Jobs \cap S : status[j] = "started"
  BY <1>2 DEF GiveUp, TypeOK
<1> QED
  BY <1>1, <1>2

LEMMA RefinesNext ==
  ASSUME IInv, [Next]_vars
  PROVE  [Service!Next]_status
<1>1. ASSUME NEW c \in Clients, StartJob(c)
      PROVE  Service!Next
  <2>1. PICK n : n = <<c, started[c] + 1>>
    OBVIOUS
  <2>2. n \in Jobs /\ status[n] = "none"
    BY <1>1, <2>1, StartJobFacts
  <2>3. status' = [status EXCEPT ![n] = "started"]
    BY <1>1, <2>1 DEF StartJob
  <2> QED
    BY <2>2, <2>3 DEF Service!Next, Service!Start, Service!Turn
<1>2. ASSUME NEW c \in Clients, Finishes(c)
      PROVE  Service!Next
  BY <1>2, TellAnswers DEF IInv, SessionInv, Finishes, Of
<1>3. ASSUME MgrEncodes
      PROVE  Service!Next \/ UNCHANGED status
  BY <1>3, TellAnswers DEF IInv, MgrInv, MgrEncodes
<1>4. api.c \in Clients
  BY DEF IInv, TypeOK, Call
<1>5. ASSUME AbortLocks \/ AbortEnds
      PROVE  Service!Next \/ UNCHANGED status
  BY <1>4, <1>5, GiveUpGivesOne DEF IInv, AbortLocks, AbortEnds
<1>6. ASSUME DestroyEnds
      PROVE  Service!Next \/ UNCHANGED status
  BY <1>4, <1>6, GiveUpGivesOne DEF IInv, DestroyEnds
<1>7. ASSUME NEW c \in Clients,
             \/ CreateSession(c) \/ AbortJob(c) \/ DestroySession(c) \/ Close(c)
             \/ Idles(c) \/ JobRemoved(c) \/ HandleFreed(c) \/ JobDone(c)
      PROVE  UNCHANGED status
  BY <1>7 DEF CreateSession, AbortJob, DestroySession, Close, Idles, JobRemoved, HandleFreed, JobDone
<1>8. ASSUME DestroyLocks \/ SessionAborts \/ AbortWaits \/ CallPosts \/ CloseJoins
      PROVE  UNCHANGED status
  BY <1>8 DEF DestroyLocks, SessionAborts, AbortWaits, CallPosts, CloseJoins
<1>9. ASSUME MgrWakes \/ MgrLooks \/ MgrFindsNone \/ MgrExits \/ MgrTakes \/ MgrGives \/ MgrFailed
             \/ MgrUnlocks
      PROVE  UNCHANGED status
  BY <1>9 DEF MgrWakes, MgrLooks, MgrFindsNone, MgrExits, MgrTakes, MgrGives, MgrFailed, MgrUnlocks
<1>10. CASE UNCHANGED vars
  BY <1>10 DEF vars
<1> QED
  BY <1>1, <1>2, <1>3, <1>5, <1>6, <1>7, <1>8, <1>9, <1>10 DEF Next, Component, CallGoesOn, Mgr

\* A job that was started is answered at most once, by the callback or by the
\* manager that could not start it, and not after abort_job or destroy_session
\* gave it up: the safety part of ServiceSpec.
THEOREM ImplementsService == Spec => Service!Init /\ [][Service!Next]_status
<1>1. Init => Service!Init
  BY DEF Init, Service!Init
<1> QED
  BY <1>1, InitIInv, NextIInv, RefinesNext, PTL DEF Spec
=============================================================================
